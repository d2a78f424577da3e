\* A job that ends by itself and one that runs three times.
CONSTANTS
  t1 = t1
  t2 = t2
  s1 = s1
  s2 = s2
  None = None
  Timers = {t1, t2}
  Job <- MixedJobs
  Part = 1
  SaveEvery = 2
  Savers = {s1}
  MaxTime = 6
  LastAdd = 1
SPECIFICATION Spec
INVARIANTS TypeOK AtMostTimes NeverEarly OneAtATime
PROPERTY NoCallAfterFalse
