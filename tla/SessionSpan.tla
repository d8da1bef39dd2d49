---------------------------- MODULE SessionSpan ----------------------------
(***************************************************************************)
(* One server session and the pings that reach it, in any order, with      *)
(* losses and duplicates (src/src/serversession.cc:21-53).                 *)
(*                                                                         *)
(* The ghost variables oldest and newest are positions in the client's     *)
(* stream, counted from the ping that created the session: the true first  *)
(* and last ping received.  The code keeps only the two wrapped sequence   *)
(* numbers minSeq and maxSeq.                                              *)
(*                                                                         *)
(* The environment is a network that never skips Window or more pings past *)
(* either end of what has arrived: a shorter burst of losses or delays is  *)
(* possible, and so is any reordering inside it.                           *)
(***************************************************************************)
EXTENDS SeqWindow

CONSTANT MaxSpan    \* bound on the pings of one session

ASSUME SpanAssumption == MaxSpan \in Nat /\ MaxSpan + 2 * Window <= SeqMod

VARIABLES
  minSeq,
  maxSeq,
  first,    \* ghost: sequence number of the ping that created the session
  oldest,   \* ghost: position of the oldest ping received, <= 0
  newest    \* ghost: position of the newest ping received, >= 0

vars == <<minSeq, maxSeq, first, oldest, newest>>

TypeOK ==
  /\ minSeq \in Seqnum
  /\ maxSeq \in Seqnum
  /\ first \in Seqnum
  /\ oldest \in -MaxSpan .. 0
  /\ newest \in 0 .. MaxSpan

\* ServerSession::ServerSession: both ends start at the first ping's number.
Init ==
  /\ first \in Seqnum
  /\ minSeq = first
  /\ maxSeq = first
  /\ oldest = 0
  /\ newest = 0

\* recordSeq compares with the values the session had on entry: the two
\* windows are tested one after the other, on different ends.
RecordSeq(s) ==
  /\ maxSeq' = RecordMax(maxSeq, s)
  /\ minSeq' = RecordMin(minSeq, s)

\* The ping at position n of the stream arrives: new, late or a duplicate.
Arrive(n) ==
  /\ oldest - Window < n
  /\ n < newest + Window
  /\ LET low == IF n < oldest THEN n ELSE oldest
         high == IF n > newest THEN n ELSE newest
     IN  /\ high - low <= MaxSpan
         /\ oldest' = low
         /\ newest' = high
  /\ RecordSeq(Shift(first, n))
  /\ UNCHANGED first

Next == \E n \in -MaxSpan .. MaxSpan : Arrive(n)

Spec == Init /\ [][Next]_vars

----------------------------------------------------------------------------
\* The session's two wrapped numbers are exactly the ends of what arrived,
\* and the count writeStats derives from them is the number of pings the
\* client sent between those ends: reordering, duplicates, lost runs shorter
\* than Window and a wrap of the 32-bit counter change nothing
\* (serversession.cc:41-53, the case its comment worries about).
SpanTracked ==
  /\ minSeq = Shift(first, oldest)
  /\ maxSeq = Shift(first, newest)
  /\ TargetCount(minSeq, maxSeq) = 1 + newest - oldest
=============================================================================
