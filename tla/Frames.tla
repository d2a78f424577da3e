------------------------------- MODULE Frames -------------------------------
(***************************************************************************)
(* The wire format of Gorigin's RPC (network/rpc/encode.go): a body is cut  *)
(* into frames of BodySplit bytes, padded to one size, each under a header  *)
(* of fixed width, and each frame is parsed on its own.                     *)
(*                                                                          *)
(* A frame is the record of what its header says.  Reading a frame back is  *)
(* checking two marks, which a frame made here always carries; the padding  *)
(* and the width of the header's fields are kept, for they decide what the  *)
(* receiver makes of a frame.                                               *)
(***************************************************************************)
EXTENDS Naturals, Sequences

CONSTANTS
  BodySplit,  \* the data bytes of a frame: 1430 over TCP, 520 over UDP
  Byte,       \* the values of one byte: 256
  Zero        \* the byte frames are padded with

ASSUME FramesAssumption ==
  /\ Byte \in Nat \ {0, 1}
  /\ BodySplit \in 1 .. (Byte * Byte - 1)

\* The two-byte fields of a header, and the three-byte serial number.
Word(x) == x % (Byte * Byte)
Serial(x) == x % (Byte * Byte * Byte)

Padded(bts) == bts \o [i \in 1 .. (BodySplit - Len(bts)) |-> Zero]

\* buffPrefix and the padding: buck is the number of frames, last the place of
\* the frame or the length of its data.
buffPrefix(num, fid, buck, last, model, bts) ==
  [model |-> model, num |-> Serial(num), fid |-> Word(fid),
   buck |-> Word(buck), last |-> Word(last), data |-> Padded(bts)]

Count(bts) == (Len(bts) \div BodySplit) + (IF Len(bts) % BodySplit > 0 THEN 1 ELSE 0)
Chunk(bts, i) ==
  SubSeq(bts, BodySplit * (i - 1) + 1,
         IF BodySplit * i < Len(bts) THEN BodySplit * i ELSE Len(bts))

\* MakeReqBody: an empty body, one frame, or the first, middle and final frames.
MakeReqBody(bts, num, fid) ==
  LET count == Count(bts)
      model(i) == IF i = count THEN "final" ELSE IF i = 1 THEN "start" ELSE "middle"
      last(i)  == IF i = count THEN Len(Chunk(bts, i)) ELSE i
  IN CASE bts = <<>> -> <<buffPrefix(num, fid, 0, 0, "nil", bts)>>
       [] bts # <<>> /\ Len(bts) <= BodySplit ->
            <<buffPrefix(num, fid, 1, Len(bts), "whole", bts)>>
       [] OTHER ->
            [i \in 1 .. count |->
               buffPrefix(num, fid, count, last(i), model(i), Chunk(bts, i))]

\* MakeRspBody: an error is one frame with the head of its message, which bts is
\* then.  (fid is never 0 here: ParseRspByte has returned before.)
MakeRspBody(bts, num, fid, err) ==
  IF err
  THEN LET msg == IF Len(bts) > BodySplit THEN Chunk(bts, 1) ELSE bts
       IN <<buffPrefix(num, fid, 1, Len(msg), "failed", msg)>>
  ELSE MakeReqBody(bts, num, fid)

Parsed(f, buck, sort, data) ==
  [Uuid |-> f.num, Func |-> f.fid, Buck |-> buck, Sort |-> sort, Data |-> data]

\* A mutant of parse: the final frame is read with its padding.
parsePadding(f) ==
  CASE f.model = "nil" -> Parsed(f, 1, 1, <<>>)
    [] f.model \in {"whole", "failed"} -> Parsed(f, 1, 1, SubSeq(f.data, 1, f.last))
    [] f.model = "start"  -> Parsed(f, f.buck, 1, f.data)
    [] f.model = "middle" -> Parsed(f, f.buck, f.last, f.data)
    [] f.model = "final"  -> Parsed(f, f.buck, f.buck, f.data)

\* parse, for the kinds of frame this program makes.  An error answer comes
\* back with an error as well: Failed.
parse(f) ==
  CASE f.model = "nil" -> Parsed(f, 1, 1, <<>>)
    [] f.model \in {"whole", "failed"} -> Parsed(f, 1, 1, SubSeq(f.data, 1, f.last))
    [] f.model = "start"  -> Parsed(f, f.buck, 1, f.data)
    [] f.model = "middle" -> Parsed(f, f.buck, f.last, f.data)
    [] f.model = "final"  -> Parsed(f, f.buck, f.buck, SubSeq(f.data, 1, f.last))

Failed(f) == f.model = "failed"
=============================================================================
