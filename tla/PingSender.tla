----------------------------- MODULE PingSender -----------------------------
(***************************************************************************)
(* The reader of ping's output (src/otel/ping_otelsender.go, and the same  *)
(* loop in src/otel/ping_reader.go): it counts the pings and the drops     *)
(* from the lines `ping -O` prints, with a mark per sequence number in a   *)
(* ring, set by a miss.                                                    *)
(*                                                                         *)
(* The lines come from ping: the n-th ping gets its first line, an answer  *)
(* or a miss, before the next ping gets one.  A miss may be printed more   *)
(* than once (unreachable, then no answer yet), an answer may follow a     *)
(* miss however late, and may come twice.                                  *)
(***************************************************************************)
EXTENDS Integers, FiniteSets

CONSTANTS
  Ring,        \* entries of ringBuf, 1024
  Slack,       \* a step back of more than this is a wrap, 1000
  ParseLimit,  \* strconv.ParseInt to 16 bits saturates below this, 2^15
  PingMod,     \* number of sequence numbers ping prints, 2^16
  MaxPings,    \* bound: pings followed
  MaxStrays    \* bound: lines of pings the ring has passed, and second answers

ASSUME RingAssumption ==
  /\ Ring \in Nat /\ Slack \in Nat /\ ParseLimit \in Nat /\ PingMod \in Nat
  /\ 0 < Slack /\ Slack < Ring - 1
  /\ 0 < ParseLimit /\ ParseLimit <= PingMod
  /\ MaxPings \in Nat /\ MaxStrays \in Nat

VARIABLES
  ringBuf,
  curSeq,
  targetCount,
  dropCount,
  printed,     \* ghost: pings that have a line
  missed,      \* ghost: of these, the ones with a miss
  answered,    \* ghost: of these, the ones with an answer
  strays       \* ghost: lines of pings the ring has passed, and second answers

vars == <<ringBuf, curSeq, targetCount, dropCount, printed, missed, answered, strays>>

Init ==
  /\ ringBuf = [ix \in 0 .. (Ring - 1) |-> 0]
  /\ curSeq = 0
  /\ targetCount = 0
  /\ dropCount = 0
  /\ printed = 0
  /\ missed = {}
  /\ answered = {}
  /\ strays = 0

----------------------------------------------------------------------------
\* The number the reader takes from a line of the n-th ping: ping prints 16
\* bits, and a signed 16-bit parse answers its limit for the upper half.
IcmpSeq(n) ==
  IF n % PingMod < ParseLimit THEN n % PingMod ELSE ParseLimit - 1

Index(n) == IcmpSeq(n) % Ring

\* A plausible bug: the wrap of the ring is not taken for a new number.
IsNewNoWrap(ix) == ix > curSeq

\* A plausible bug: a late answer gives back the ping as well as the drop.
CountAnswerTwice(mark) ==
  /\ targetCount' = targetCount + 1
  /\ dropCount' = IF mark = 0 THEN dropCount ELSE dropCount - 1

\* The number is taken for a new one.
IsNew(ix) == ix > curSeq \/ curSeq - ix > Slack

\* The ring after the space of a new number is reset.
Opened(ix) == IF IsNew(ix) THEN [ringBuf EXCEPT ![ix] = 0] ELSE ringBuf

\* What an answer adds to the counts, by the mark of its number.
CountAnswer(mark) ==
  /\ targetCount' = IF mark = 0 THEN targetCount + 1 ELSE targetCount
  /\ dropCount' = IF mark = 0 THEN dropCount ELSE dropCount - 1

\* A line "no answer yet" or "Unreachable" for the n-th ping.
MissLine(n) ==
  LET ix == Index(n)
      ring == Opened(ix)
  IN  /\ curSeq' = IF IsNew(ix) THEN ix ELSE curSeq
      /\ \/ /\ ring[ix] = 0
            /\ targetCount' = targetCount + 1
            /\ dropCount' = dropCount + 1
            /\ ringBuf' = [ring EXCEPT ![ix] = 1]
         \/ /\ ring[ix] # 0
            /\ ringBuf' = ring
            /\ UNCHANGED <<targetCount, dropCount>>
      /\ missed' = missed \cup {n}
      /\ UNCHANGED answered

\* A line "time=" for the n-th ping.
AnswerLine(n) ==
  LET ix == Index(n)
      ring == Opened(ix)
  IN  /\ curSeq' = IF IsNew(ix) THEN ix ELSE curSeq
      /\ ringBuf' = ring
      /\ CountAnswer(ring[ix])
      /\ answered' = answered \cup {n}
      /\ UNCHANGED missed

----------------------------------------------------------------------------
(* What ping prints.                                                       *)

\* The ring has not wrapped since the n-th ping, nor is its number so far back
\* that it is taken for a wrap.  Ping promises neither: the answer to 1023 may come
\* after that to 1024.
InTime(n) == n \div Ring = printed \div Ring /\ printed - n <= Slack

FirstLine ==
  /\ printed < MaxPings
  /\ printed' = printed + 1
  /\ MissLine(printed') \/ AnswerLine(printed')
  /\ UNCHANGED strays

\* Another miss of a ping, or its answer, late.
LaterLine ==
  /\ \E n \in missed \ answered :
       /\ MissLine(n) \/ AnswerLine(n)
       /\ strays' = IF InTime(n) THEN strays ELSE strays + 1
  /\ strays' <= MaxStrays
  /\ UNCHANGED printed

\* A duplicate of an answer.
SecondAnswer ==
  /\ strays < MaxStrays
  /\ \E n \in answered : AnswerLine(n)
  /\ strays' = strays + 1
  /\ UNCHANGED printed

Next == FirstLine \/ LaterLine \/ SecondAnswer

Spec == Init /\ [][Next]_vars

----------------------------------------------------------------------------
(* Properties.                                                             *)

\* Until a line strays, every ping is a target once, and the drops are the pings
\* missed and not answered since, over any number of turns of the ring and whatever
\* marks the last turn left in it (ping_otelsender.go:103-138).
CountsExact ==
  strays = 0 => /\ targetCount = printed
                /\ dropCount = Cardinality(missed \ answered)

\* Until a line strays, the first line of a ping finds its space reset: the wrap of
\* the ring is seen for what it is (ping_otelsender.go:104-108).
NewSequenceReset ==
  [][printed' # printed /\ strays = 0 => IsNew(Index(printed'))]_vars
=============================================================================
