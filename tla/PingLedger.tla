---------------------------- MODULE PingLedger -----------------------------
(***************************************************************************)
(* What the server promises about the pings it accepts, without sessions,  *)
(* maps, memory or timers: every ping accepted for an id is reported       *)
(* exactly once, no report is made for an id heard from within the last    *)
(* Keepalive seconds (server.cc:45, "seconds to wait for delayed pings to  *)
(* show up before publishing stats"), and none is left unreported after    *)
(* Longest seconds of silence.                                             *)
(***************************************************************************)
EXTENDS Integers

CONSTANTS
  Guid,        \* session ids
  Keepalive,   \* seconds, option -k
  Longest      \* seconds a ping may wait for its report after the last of its id

VARIABLES
  accepted,    \* per id, the pings accepted
  reported,    \* per id, the pings a published report has counted
  quiet        \* per id with unreported pings, the seconds since the last one

vars == <<accepted, reported, quiet>>

Pending == {g \in Guid : accepted[g] > reported[g]}
Due == {g \in Pending : quiet[g] > Keepalive}

Init ==
  /\ accepted = [g \in Guid |-> 0]
  /\ reported = [g \in Guid |-> 0]
  /\ quiet = [g \in Guid |-> 0]

\* A report covers all the pings its ids have pending.
Settle(Q) ==
  reported' = [g \in Guid |-> IF g \in Q THEN accepted[g] ELSE reported[g]]

\* A ping for id g is accepted, and any ids that are due are reported.
Accept(g) ==
  /\ accepted' = [accepted EXCEPT ![g] = @ + 1]
  /\ \E Q \in SUBSET (Due \ {g}) :
       /\ Settle(Q)
       /\ quiet' = [h \in Guid |-> IF h \in Q \/ h = g THEN 0 ELSE quiet[h]]

\* Ids that are due are reported.
Report ==
  \E Q \in SUBSET Due :
    /\ Settle(Q)
    /\ quiet' = [h \in Guid |-> IF h \in Q THEN 0 ELSE quiet[h]]
    /\ UNCHANGED accepted

\* A second passes, unless some id has been silent for the longest allowed.
Second ==
  /\ \A g \in Pending : quiet[g] < Longest
  /\ quiet' = [g \in Guid |-> IF g \in Pending THEN quiet[g] + 1 ELSE quiet[g]]
  /\ UNCHANGED <<accepted, reported>>

Next ==
  \/ \E g \in Guid : Accept(g)
  \/ Report
  \/ Second

Spec == Init /\ [][Next]_vars
=============================================================================
