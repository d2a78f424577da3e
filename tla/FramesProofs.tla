---------------------------- MODULE FramesProofs ----------------------------
(***************************************************************************)
(* Facts about Frames, for any sizes: a body is as many frames as its header *)
(* says if that fits, each frame reads back as its chunk, and the chunks put *)
(* together again are the body.                                             *)
(***************************************************************************)
EXTENDS Frames, SequencesExt, NaturalsInduction, WellFoundedInduction, TLAPS

\* The fields of a header hold what fits them.
LEMMA Words ==
  /\ Byte * Byte \in Nat /\ BodySplit \in 1 .. (Byte * Byte - 1) /\ BodySplit \in Nat /\ BodySplit > 0
  /\ \A x \in Nat : Word(x) \in 0 .. (Byte * Byte - 1) /\ Word(x) \in Nat
  /\ \A x \in 0 .. (Byte * Byte - 1) : Word(x) = x
  /\ \A x \in 0 .. BodySplit : x \in Nat /\ Word(x) = x
  /\ \A x \in 0 .. (Byte * Byte * Byte - 1) : Serial(x) = x
<1>1. PICK b : b = Byte * Byte
  OBVIOUS
<1>2. b \in Nat /\ b > 1
  BY <1>1, FramesAssumption
<1>3. PICK c : c = Byte * Byte * Byte
  OBVIOUS
<1>4. c \in Nat /\ c > 1
  <2>1. c = b * Byte
    BY <1>1, <1>3
  <2> QED
    BY <1>2, <2>1, FramesAssumption
<1>5. BodySplit \in 1 .. (b - 1)
  BY <1>1, FramesAssumption
<1>6. (\A x \in Nat : x % b \in 0 .. (b - 1)) /\ \A x \in 0 .. (b - 1) : x % b = x
  BY <1>2
<1>7. \A x \in 0 .. (c - 1) : x % c = x
  BY <1>4
<1>8. BodySplit \in Nat /\ BodySplit > 0 /\ \A x \in 0 .. BodySplit : x \in Nat /\ x % b = x
  BY <1>2, <1>5, <1>6
<1> QED
  BY <1>1, <1>2, <1>3, <1>5, <1>6, <1>7, <1>8 DEF Word, Serial

\* Where the chunks of n bytes end.
Cut(n, i) == IF BodySplit * i < n THEN BodySplit * i ELSE n

\* Count frames have room for a body, and one less do not.
LEMMA Counted ==
  ASSUME NEW S, NEW bts \in Seq(S)
  PROVE  /\ Count(bts) \in Nat
         /\ Len(bts) <= BodySplit * Count(bts)
         /\ bts # <<>> => Count(bts) > 0 /\ BodySplit * (Count(bts) - 1) < Len(bts)
         /\ Len(bts) > BodySplit <=> Count(bts) > 1
<1>1. PICK n, p, q, r : n = Len(bts) /\ p = BodySplit /\ q = n \div p /\ r = n % p
  OBVIOUS
<1>2. n \in Nat /\ p \in Nat /\ p > 0
  BY <1>1, Words
<1>3. q \in Nat /\ r \in 0 .. (p - 1) /\ n = p * q + r
  BY <1>1, <1>2
<1>4. p * (q + 1) = p * q + p /\ p * (q - 1) = p * q - p
  BY <1>2, <1>3
<1>5. q = 0 => p * q = 0
  BY <1>2
<1>6. q = 1 => p * q = p
  BY <1>2
<1>7. q > 1 => p * q >= 2 * p
  BY <1>2, <1>3
<1>8. Count(bts) = q + (IF r > 0 THEN 1 ELSE 0)
  BY <1>1 DEF Count
<1>9. bts # <<>> => n > 0
  BY <1>1
<1>10. CASE r > 0
  <2>1. Count(bts) = q + 1 /\ n < p * (q + 1) /\ p * q < n /\ q + 1 - 1 = q
    BY <1>2, <1>3, <1>4, <1>8, <1>10
  <2> QED
    BY <1>1, <1>2, <1>3, <1>5, <1>6, <1>7, <2>1
<1>11. CASE r = 0
  <2>1. Count(bts) = q /\ n = p * q /\ p * (q - 1) < n
    BY <1>2, <1>3, <1>4, <1>8, <1>11
  <2> QED
    BY <1>1, <1>2, <1>3, <1>5, <1>6, <1>7, <1>9, <2>1
<1> QED
  BY <1>2, <1>3, <1>10, <1>11

\* Two neighbouring pieces of a text are one piece.
LEMMA Joined ==
  ASSUME NEW S, NEW text \in Seq(S), NEW i \in 0 .. Len(text), NEW j \in i .. Len(text)
  PROVE  SubSeq(text, 1, i) \o SubSeq(text, i + 1, j) = SubSeq(text, 1, j)
  OBVIOUS

\* A set of numbers that is not empty has a least one.
LEMMA Least == ASSUME NEW T \in SUBSET Nat, T # {} PROVE \E i \in T : \A j \in T : ~ (j < i)
<1> DEFINE R == {p \in Nat \X Nat : p[1] < p[2]}
<1>1. IsWellFoundedOn(R, Nat)
  BY NatLessThanWellFounded DEF OpToRel
<1> HIDE DEF R
<1>2. PICK i \in T : \A j \in T : ~ (<<j, i>> \in R)
  BY <1>1, WFMin
<1> QED
  BY <1>2 DEF R

\* FlattenSeq is a recursive function, and has no more than one value.
LEMMA Flattened ==
  ASSUME NEW S, NEW text \in Seq(S), NEW n \in Nat \ {0}, NEW parts \in Seq(Seq(S)), Len(parts) = n,
         NEW cut \in [0 .. n -> 0 .. Len(text)], cut[0] = 0, cut[n] = Len(text),
         \A i \in 1 .. n : cut[i - 1] <= cut[i] /\ parts[i] = SubSeq(text, cut[i - 1] + 1, cut[i])
  PROVE  FlattenSeq(parts) = text
<1> DEFINE Def(f) == [i \in 1 .. n |-> IF i = 1 THEN parts[i] ELSE f[i - 1] \o parts[i]]
           g == [i \in 1 .. n |-> SubSeq(text, 1, cut[i])]
           flat == CHOOSE f : f = Def(f)
<1>1. FlattenSeq(parts) = flat[n]
  BY DEF FlattenSeq
<1>2. g = Def(g)
  <2>1. ASSUME NEW i \in 1 .. n
        PROVE  g[i] = IF i = 1 THEN parts[i] ELSE g[i - 1] \o parts[i]
    <3>1. CASE i = 1
      <4>1. cut[i - 1] + 1 = 1 /\ parts[i] = SubSeq(text, cut[i - 1] + 1, cut[i])
        <5>1. i - 1 = 0
          BY ONLY <3>1
        <5>2. cut[i - 1] + 1 = 1
          BY ONLY <5>1, cut[0] = 0
        <5>3. parts[i] = SubSeq(text, cut[i - 1] + 1, cut[i])
          BY ONLY <2>1, \A j \in 1 .. n : parts[j] = SubSeq(text, cut[j - 1] + 1, cut[j])
        <5> QED
          BY ONLY <5>2, <5>3
      <4>2. parts[i] = SubSeq(text, 1, cut[i]) /\ g[i] = SubSeq(text, 1, cut[i])
        BY ONLY <4>1, i \in 1 .. n
      <4> HIDE DEF g
      <4> QED
        BY ONLY <3>1, <4>2
    <3>2. CASE i # 1
      <4>1. i - 1 \in 1 .. n /\ cut[i - 1] \in 0 .. Len(text) /\ cut[i] \in cut[i - 1] .. Len(text)
        <5>1. i - 1 \in 1 .. n /\ i - 1 \in 0 .. n /\ i \in 0 .. n
          BY ONLY <2>1, <3>2, n \in Nat
        <5>2. cut[i - 1] \in 0 .. Len(text) /\ cut[i] \in 0 .. Len(text) /\ cut[i - 1] <= cut[i]
          <6>1. cut[i - 1] <= cut[i]
            BY ONLY <2>1, \A j \in 1 .. n : cut[j - 1] <= cut[j]
          <6> QED
            BY ONLY <5>1, <6>1, cut \in [0 .. n -> 0 .. Len(text)]
        <5> QED
          BY ONLY <5>1, <5>2, Len(text) \in Nat
      <4>2. SubSeq(text, 1, cut[i - 1]) \o SubSeq(text, cut[i - 1] + 1, cut[i]) = SubSeq(text, 1, cut[i])
        <5>1. \A x \in 0 .. Len(text) : \A y \in x .. Len(text) :
                SubSeq(text, 1, x) \o SubSeq(text, x + 1, y) = SubSeq(text, 1, y)
          BY Joined
        <5> QED
          BY ONLY <4>1, <5>1
      <4>3. g[i] = SubSeq(text, 1, cut[i]) /\ g[i - 1] = SubSeq(text, 1, cut[i - 1])
        BY ONLY <4>1, i \in 1 .. n
      <4>4. parts[i] = SubSeq(text, cut[i - 1] + 1, cut[i])
        OBVIOUS
      <4> HIDE DEF g
      <4> QED
        BY ONLY <3>2, <4>2, <4>3, <4>4
    <3> QED
      BY <3>1, <3>2
  <2> QED
    BY <2>1
<1>3. flat = Def(flat)
  BY <1>2
<1> HIDE DEF flat
<1>4. \A i \in 1 .. n : flat[i] = g[i]
  <2> DEFINE T == {i \in 1 .. n : flat[i] # g[i]}
  <2>1. SUFFICES ASSUME T # {} PROVE FALSE
    BY <2>1
  <2>2. T \subseteq Nat
    OBVIOUS
  <2>3. PICK i \in T : \A j \in T : ~ (j < i)
    BY <2>1, <2>2, Least
  <2>4. CASE i = 1
    BY <1>2, <1>3, <2>4
  <2>5. CASE i # 1
    <3>1. i - 1 \in 1 .. n /\ flat[i - 1] = g[i - 1]
      <4>1. i \in 1 .. n /\ i - 1 \in 1 .. n /\ i - 1 < i
        BY <2>5
      <4> QED
        BY <2>3, <4>1
    <3>2. flat[i] = flat[i - 1] \o parts[i] /\ g[i] = g[i - 1] \o parts[i]
      <4>1. flat[i] = Def(flat)[i] /\ g[i] = Def(g)[i]
        BY <1>2, <1>3
      <4> QED
        BY <2>5, <4>1
    <3> QED
      BY <3>1, <3>2
  <2> QED
    BY <2>4, <2>5
<1>5. flat[n] = SubSeq(text, 1, Len(text))
  BY <1>4
<1>6. SubSeq(text, 1, Len(text)) = text
  OBVIOUS
<1> QED
  BY <1>1, <1>5, <1>6

\* The chunks of a body lie end to end, and are full but for the last.
LEMMA Chunks ==
  ASSUME NEW S, NEW bts \in Seq(S), bts # <<>>
  PROVE  /\ Cut(Len(bts), 0) = 0 /\ Cut(Len(bts), Count(bts)) = Len(bts)
         /\ \A i \in 0 .. Count(bts) : Cut(Len(bts), i) \in 0 .. Len(bts)
         /\ \A i \in 1 .. Count(bts) :
              /\ Cut(Len(bts), i - 1) <= Cut(Len(bts), i)
              /\ Chunk(bts, i) = SubSeq(bts, Cut(Len(bts), i - 1) + 1, Cut(Len(bts), i))
              /\ Chunk(bts, i) \in Seq(S) /\ Chunk(bts, i) # <<>>
              /\ Len(Chunk(bts, i)) \in 1 .. BodySplit
              /\ i < Count(bts) => Len(Chunk(bts, i)) = BodySplit
<1>1. PICK n, p, m : n = Len(bts) /\ p = BodySplit /\ m = Count(bts)
  OBVIOUS
<1>2. /\ n \in Nat /\ n > 0 /\ p \in Nat /\ p > 0 /\ m \in Nat /\ m > 0
      /\ n <= p * m /\ p * (m - 1) < n
  BY <1>1, Words, Counted
<1>3. \A i \in Nat : p * i \in Nat
  BY <1>2
<1>4. ASSUME NEW i \in 1 .. m
      PROVE  p * (i - 1) \in Nat /\ p * i = p * (i - 1) + p /\ p * (i - 1) < n
  <2>1. p * (i - 1) \in Nat /\ p * i = p * (i - 1) + p
    BY <1>2
  <2>2. p * (i - 1) <= p * (m - 1)
    BY <1>2
  <2>3. p * (m - 1) \in Nat
    BY <1>2
  <2> QED
    BY <1>2, <2>1, <2>2, <2>3
<1>5. p * 0 = 0
  BY <1>2
<1>6. \A i \in Nat : Cut(n, i) = IF p * i < n THEN p * i ELSE n
  BY <1>1 DEF Cut
<1>7. Cut(n, 0) = 0 /\ Cut(n, m) = n /\ \A i \in 0 .. m : Cut(n, i) \in 0 .. n
  BY <1>2, <1>3, <1>5, <1>6
<1>8. ASSUME NEW i \in 1 .. m
      PROVE  /\ Cut(n, i - 1) = p * (i - 1) /\ Cut(n, i) - p * (i - 1) \in 1 .. p
             /\ i < m => Cut(n, i) = p * (i - 1) + p
             /\ Chunk(bts, i) = SubSeq(bts, p * (i - 1) + 1, Cut(n, i))
  <2>1. p * (i - 1) \in Nat /\ p * i = p * (i - 1) + p /\ p * (i - 1) < n
    BY <1>4
  <2>2. Cut(n, i - 1) = p * (i - 1) /\ Cut(n, i) - p * (i - 1) \in 1 .. p
    BY <1>2, <1>6, <2>1
  <2>3. ASSUME i < m PROVE Cut(n, i) = p * (i - 1) + p
    <3>1. i + 1 \in 1 .. m /\ i + 1 - 1 = i
      BY <1>2, <2>3
    <3>2. p * i < n
      BY <1>4, <3>1
    <3> QED
      BY <1>6, <2>1, <3>2
  <2>4. Chunk(bts, i) = SubSeq(bts, p * (i - 1) + 1, Cut(n, i))
    <3>1. Chunk(bts, i) = SubSeq(bts, BodySplit * (i - 1) + 1, Cut(Len(bts), i))
      BY DEF Chunk, Cut
    <3> QED
      BY <1>1, <3>1
  <2> QED
    BY <2>2, <2>3, <2>4
<1>9. ASSUME NEW i \in 1 .. m
      PROVE  /\ Chunk(bts, i) \in Seq(S) /\ Len(Chunk(bts, i)) = Cut(n, i) - p * (i - 1)
             /\ Cut(n, i - 1) <= Cut(n, i)
  <2>1. PICK a, z : a = p * (i - 1) /\ z = Cut(n, i)
    OBVIOUS
  <2>2. a \in Nat /\ z \in 0 .. n /\ a < z /\ Chunk(bts, i) = SubSeq(bts, a + 1, z)
    <3>1. a \in Nat /\ z - a \in 1 .. p /\ Chunk(bts, i) = SubSeq(bts, a + 1, z)
      BY <1>4, <1>8, <2>1
    <3>2. i \in 0 .. m
      BY <1>2
    <3>3. z \in 0 .. n
      BY <1>7, <2>1, <3>2
    <3> QED
      BY <1>2, <3>1, <3>3
  <2>3. Chunk(bts, i) \in Seq(S) /\ Len(Chunk(bts, i)) = z - a
    BY <1>1, <1>2, <2>2
  <2>4. Cut(n, i - 1) = a
    BY <1>8, <2>1
  <2> QED
    BY <1>2, <2>1, <2>2, <2>3, <2>4
<1>10. ASSUME NEW i \in 1 .. m
       PROVE  /\ Cut(n, i - 1) <= Cut(n, i)
              /\ Chunk(bts, i) = SubSeq(bts, Cut(n, i - 1) + 1, Cut(n, i))
              /\ Chunk(bts, i) \in Seq(S) /\ Chunk(bts, i) # <<>>
              /\ Len(Chunk(bts, i)) \in 1 .. p
              /\ i < m => Len(Chunk(bts, i)) = p
  <2>1. PICK a, z, k : a = p * (i - 1) /\ z = Cut(n, i) /\ k = Chunk(bts, i)
    OBVIOUS
  <2>2. Cut(n, i - 1) = a /\ z - a \in 1 .. p /\ (i < m => z = a + p) /\ k = SubSeq(bts, a + 1, z)
    BY <1>8, <2>1
  <2>3. k \in Seq(S) /\ Len(k) = z - a /\ a <= z /\ a \in Nat
    BY <1>4, <1>9, <2>1, <2>2
  <2>4. i < m => Len(k) = p
    BY <1>2, <2>2, <2>3
  <2>5. k # <<>>
    BY <2>2, <2>3
  <2> QED
    BY <2>1, <2>2, <2>3, <2>4, <2>5
<1> QED
  BY <1>1, <1>7, <1>10

\* Put together, they are the body.
LEMMA Restored ==
  ASSUME NEW S, NEW bts \in Seq(S), bts # <<>>
  PROVE  FlattenSeq([i \in 1 .. Count(bts) |-> Chunk(bts, i)]) = bts
<1> DEFINE parts == [i \in 1 .. Count(bts) |-> Chunk(bts, i)]
           cut   == [i \in 0 .. Count(bts) |-> Cut(Len(bts), i)]
<1>1. Count(bts) \in Nat \ {0}
  BY Counted
<1>2. parts \in Seq(Seq(S)) /\ Len(parts) = Count(bts)
  BY <1>1, Chunks
<1>3. cut \in [0 .. Count(bts) -> 0 .. Len(bts)] /\ cut[0] = 0 /\ cut[Count(bts)] = Len(bts)
  BY <1>1, Chunks
<1>4. ASSUME NEW i \in 1 .. Count(bts)
      PROVE  cut[i - 1] <= cut[i] /\ parts[i] = SubSeq(bts, cut[i - 1] + 1, cut[i])
  <2>1. i - 1 \in 0 .. Count(bts) /\ i \in 0 .. Count(bts)
    BY <1>1
  <2> QED
    BY <2>1, Chunks
<1> HIDE DEF parts, cut
<1>5. FlattenSeq(parts) = bts
  BY <1>1, <1>2, <1>3, <1>4, Flattened
<1> QED
  BY <1>5 DEF parts

\* The padding is cut off again, and a full chunk has none.
LEMMA Unpadded ==
  ASSUME NEW S, NEW bts \in Seq(S), Len(bts) <= BodySplit
  PROVE  SubSeq(Padded(bts), 1, Len(bts)) = bts /\ (Len(bts) = BodySplit => Padded(bts) = bts)
<1>1. PICK p : p = BodySplit /\ p \in Nat
  BY Words
<1>2. PICK z : z = [i \in 1 .. (p - Len(bts)) |-> Zero]
  OBVIOUS
<1>3. z \in Seq({Zero}) /\ Len(z) = p - Len(bts)
  BY <1>1, <1>2
<1>4. Padded(bts) = bts \o z
  BY <1>1, <1>2 DEF Padded
<1> QED
  BY <1>1, <1>3, <1>4

\* A body of one frame reads back as it is.
LEMMA OneFrame ==
  ASSUME NEW S, NEW bts \in Seq(S), Len(bts) <= BodySplit,
         NEW num \in 0 .. (Byte * Byte * Byte - 1), NEW fid \in 0 .. (Byte * Byte - 1)
  PROVE  /\ DOMAIN MakeReqBody(bts, num, fid) = {1}
         /\ ~ Failed(MakeReqBody(bts, num, fid)[1])
         /\ parse(MakeReqBody(bts, num, fid)[1]) =
           [Uuid |-> num, Func |-> fid, Buck |-> 1, Sort |-> 1, Data |-> bts]
<1>1. Serial(num) = num /\ Word(fid) = fid /\ Word(Len(bts)) = Len(bts)
  <2>1. Len(bts) \in 0 .. BodySplit
    BY Words
  <2> QED
    BY <2>1, Words
<1>2. CASE bts = <<>>
  <2>1. MakeReqBody(bts, num, fid) = <<buffPrefix(num, fid, 0, 0, "nil", bts)>>
    BY <1>2 DEF MakeReqBody
  <2> QED
    BY <1>1, <1>2, <2>1 DEF buffPrefix, parse, Parsed, Failed
<1>3. CASE bts # <<>>
  <2>1. MakeReqBody(bts, num, fid) = <<buffPrefix(num, fid, 1, Len(bts), "whole", bts)>>
    BY <1>3 DEF MakeReqBody
  <2>2. SubSeq(Padded(bts), 1, Len(bts)) = bts
    BY Unpadded
  <2> QED
    BY <1>1, <2>1, <2>2 DEF buffPrefix, parse, Parsed, Failed
<1> QED
  BY <1>2, <1>3

\* The frames of a longer body read back as its chunks; what does not fit the header is
\* the number of frames and the place of each.
LEMMA ManyFrames ==
  ASSUME NEW S, NEW bts \in Seq(S), Len(bts) > BodySplit,
         NEW num \in 0 .. (Byte * Byte * Byte - 1), NEW fid \in 0 .. (Byte * Byte - 1)
  PROVE  /\ DOMAIN MakeReqBody(bts, num, fid) = 1 .. Count(bts)
         /\ \A i \in 1 .. Count(bts) :
              /\ ~ Failed(MakeReqBody(bts, num, fid)[i])
              /\ parse(MakeReqBody(bts, num, fid)[i]) =
                   [Uuid |-> num, Func |-> fid, Buck |-> Word(Count(bts)), Sort |-> Word(i),
                    Data |-> Chunk(bts, i)]
<1>1. Serial(num) = num /\ Word(fid) = fid
  BY Words
<1>2. Count(bts) \in Nat /\ Count(bts) > 1 /\ bts # <<>>
  BY Counted, Words
<1> DEFINE model(i) == IF i = Count(bts) THEN "final" ELSE IF i = 1 THEN "start" ELSE "middle"
           last(i)  == IF i = Count(bts) THEN Len(Chunk(bts, i)) ELSE i
           row(i)   == buffPrefix(num, fid, Count(bts), last(i), model(i), Chunk(bts, i))
           read(i)  == [Uuid |-> num, Func |-> fid, Buck |-> Word(Count(bts)), Sort |-> Word(i),
                        Data |-> Chunk(bts, i)]
<1>3. MakeReqBody(bts, num, fid) = [i \in 1 .. Count(bts) |-> row(i)]
  <2>1. ~ (Len(bts) <= BodySplit)
    BY Words
  <2> QED
    BY <1>2, <2>1 DEF MakeReqBody
<1>4. ASSUME NEW i \in 1 .. Count(bts)
      PROVE  ~ Failed(row(i)) /\ parse(row(i)) = read(i)
  <2>1. PICK d : d = Chunk(bts, i)
    OBVIOUS
  <2>2. d \in Seq(S) /\ Len(d) \in 1 .. BodySplit /\ (i < Count(bts) => Len(d) = BodySplit)
    BY <1>2, <2>1, Chunks
  <2>3. Len(d) <= BodySplit /\ Len(d) \in Nat /\ Word(Len(d)) = Len(d)
    <3>1. Len(d) \in 0 .. BodySplit
      BY <2>2
    <3> QED
      BY <2>2, <3>1, Words
  <2>4. SubSeq(Padded(d), 1, Len(d)) = d /\ (i < Count(bts) => Padded(d) = d)
    BY <2>2, <2>3, Unpadded
  <2>5. CASE i = Count(bts)
    <3>1. row(i) = [model |-> "final", num |-> num, fid |-> fid, buck |-> Word(Count(bts)),
                    last |-> Len(d), data |-> Padded(d)]
      BY <1>1, <2>1, <2>3, <2>5 DEF buffPrefix
    <3>2. read(i) = [Uuid |-> num, Func |-> fid, Buck |-> Word(Count(bts)),
                     Sort |-> Word(Count(bts)), Data |-> d]
      BY <2>1, <2>5
    <3> HIDE DEF row, read
    <3> QED
      BY <2>4, <3>1, <3>2 DEF parse, Parsed, Failed
  <2>6. CASE i < Count(bts) /\ i = 1
    <3>1. Word(1) = 1
      BY Words
    <3>2. row(i) = [model |-> "start", num |-> num, fid |-> fid, buck |-> Word(Count(bts)),
                    last |-> 1, data |-> d]
      BY <1>1, <1>2, <2>1, <2>4, <2>6, <3>1 DEF buffPrefix
    <3> QED
      BY <2>1, <2>6, <3>1, <3>2 DEF parse, Parsed, Failed
  <2>7. CASE i < Count(bts) /\ i # 1
    <3>1. row(i) = [model |-> "middle", num |-> num, fid |-> fid, buck |-> Word(Count(bts)),
                    last |-> Word(i), data |-> d]
      BY <1>1, <1>2, <2>1, <2>4, <2>7 DEF buffPrefix
    <3> QED
      BY <2>1, <3>1 DEF parse, Parsed, Failed
  <2> QED
    BY <1>2, <2>5, <2>6, <2>7
<1> HIDE DEF row
<1> QED
  BY <1>3, <1>4

=============================================================================
