----------------------------- MODULE SeqWindow -----------------------------
(***************************************************************************)
(* The sequence-number arithmetic of a server session                      *)
(* (src/src/serversession.cc:35-53).  seqnum_t is an unsigned 32-bit       *)
(* integer, so every difference and every increment wraps.  The width is   *)
(* the parameter SeqMod (2^32 in the code) and the literal 10 of recordSeq *)
(* is the parameter Window.                                                *)
(***************************************************************************)
EXTENDS Integers

CONSTANTS
  SeqMod,   \* number of values of seqnum_t
  Window    \* recordSeq ignores a step of Window or more

ASSUME WindowAssumption ==
  /\ SeqMod \in Nat
  /\ Window \in Nat
  /\ 0 < Window
  /\ 2 * Window < SeqMod

Seqnum == 0 .. (SeqMod - 1)

\* a - b in unsigned arithmetic.
WrapSub(a, b) == IF b <= a THEN a - b ELSE a - b + SeqMod

----------------------------------------------------------------------------
(* Plausible bugs, used to show that the properties can fail.              *)

\* The counter is kept in a wider, signed integer.
ShiftSigned(a, k) == a + k

\* The difference is tested as a signed number.
RecordMaxNoWrap(maxSeq, s) ==
  IF s > maxSeq /\ s - maxSeq < Window THEN s ELSE maxSeq

\* The pings between the ends, one of the ends left out.
TargetCountFencepost(minSeq, maxSeq) == WrapSub(maxSeq, minSeq)

\* The count is computed in a wider, signed integer.
TargetCountSigned(minSeq, maxSeq) == 1 + maxSeq - minSeq

----------------------------------------------------------------------------
\* a + k in unsigned arithmetic, for a step k of either sign and less than
\* SeqMod in size.
Shift(a, k) ==
  IF a + k < 0 THEN a + k + SeqMod
  ELSE IF a + k >= SeqMod THEN a + k - SeqMod
  ELSE a + k

\* recordSeq moves maxSeq forward to s if s is less than Window ahead of it.
RecordMax(maxSeq, s) ==
  IF WrapSub(s, maxSeq) \in 1 .. (Window - 1) THEN s ELSE maxSeq

\* recordSeq moves minSeq back to s if s is less than Window behind it.
RecordMin(minSeq, s) ==
  IF WrapSub(minSeq, s) \in 1 .. (Window - 1) THEN s ELSE minSeq

\* writeStats: how many pings the client must have sent.
TargetCount(minSeq, maxSeq) == Shift(WrapSub(maxSeq, minSeq), 1)
=============================================================================
