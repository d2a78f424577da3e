\* A job that is to run for ever.
CONSTANTS
  t1 = t1
  t2 = t2
  s1 = s1
  s2 = s2
  None = None
  Timers = {t1}
  Job <- OneJob
  Part = 2
  SaveEvery = 2
  Savers = {s1}
  MaxTime = 4
  LastAdd = 1
SPECIFICATION Spec
INVARIANT Kept
