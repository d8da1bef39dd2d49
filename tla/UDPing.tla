------------------------------- MODULE UDPing -------------------------------
(***************************************************************************)
(* One client (Client) and one server (ServerSessions) joined by a network *)
(* that delivers in order, loses pings, at most MaxBurst of a port in a    *)
(* row, and delivers some of them twice.  The client's wire is the         *)
(* sequence sent: its first `arrived` pings have been delivered or lost,   *)
(* the rest are in flight.  A ping that sendto did not take is one lost.   *)
(*                                                                         *)
(* The two clocks tick together.  The client, while it runs, sends a       *)
(* ping from every port in each second, and a ping and its copy arrive or  *)
(* are lost in the second the ping was sent: assumptions on the option -d  *)
(* and the network, stated in the guards of Second and Duplicate.          *)
(***************************************************************************)
EXTENDS ServerSessions, Sequences, FiniteSets, FiniteSetsExt, Functions

CONSTANTS
  NumPorts, NumMacs, Interval, FirstSecond, LastSecond, MaxSends,  \* as in Client
  MaxBurst,     \* pings of a port lost in a row, at most
  MaxCopies     \* bound: pings delivered twice

ClientIp == 1

\* One client is all the server hears from, and every session of the client starts
\* in FirstSecond.  MaxPings is no bound of its own.
ASSUME ClientAssumption ==
  /\ NumPorts \in Nat /\ NumPorts > 0
  /\ NumMacs \in Nat /\ NumMacs > 0
  /\ Interval \in Nat /\ Interval > 0
  /\ FirstSecond \in Nat /\ LastSecond \in Nat /\ FirstSecond <= LastSecond
  /\ MaxSends \in Nat /\ MaxBurst \in Nat /\ MaxCopies \in Nat
  /\ MaxPings = MaxSends + MaxCopies
  /\ Ip = {ClientIp}
  /\ Port = 1 .. NumPorts
  /\ StartTime = {FirstSecond}
  /\ Ping = [ip : Ip, port : Port, guid : Guid, startTime : StartTime, seqNum : Seqnum]

VARIABLES
  now, phase, curSession, chosen, sessions, used, sent,    \* the client
  arrived,      \* pings of sent that have left the network
  burst,        \* of these, per port, how many at the end were lost
  firstHeard,   \* ghost: per port and id, which ping of the port arrived first
  lastHeard,    \* ghost: per port, which ping arrived last
  copies        \* ghost: per id, the pings delivered twice

client == <<now, phase, curSession, chosen, sessions, used, sent>>
network == <<arrived, burst, firstHeard, lastHeard, copies>>
udpingVars == <<client, vars, network>>

\* The header of a ping.
Header(q) == [ip |-> ClientIp, port |-> q.session, guid |-> q.guid,
              startTime |-> FirstSecond, seqNum |-> q.seqNum]

\* The list names each port once, so that a session is known by its port.
C == INSTANCE Client WITH
  ports <- [i \in Port |-> i], numMacs <- NumMacs, interval <- Interval

\* The k-th ping sent is the Nth(k)-th of its port.
Nth(k) == Cardinality({j \in 1 .. k : sent[j].session = sent[k].session})

UDPingInit ==
  /\ C!Init
  /\ Init
  /\ arrived = 0
  /\ burst = [i \in Port |-> 0]
  /\ firstHeard = [i \in Port |-> [g \in Guid |-> 0]]
  /\ lastHeard = [i \in Port |-> 0]
  /\ copies = [g \in Guid |-> 0]

ClientStep ==
  /\ C!ChooseSession \/ C!SendPingPacket
  /\ UNCHANGED <<vars, network>>

Alarm == HandleAlarm /\ UNCHANGED <<client, network>>

InFlight == arrived < Len(sent)

Deliver ==
  /\ InFlight
  /\ arrived' = arrived + 1
  /\ LET q == sent[arrived']
     IN  /\ ReadNextPacket(Header(q))
         /\ burst' = [burst EXCEPT ![q.session] = 0]
         /\ firstHeard' = [firstHeard EXCEPT
              ![q.session][q.guid] = IF @ = 0 THEN Nth(arrived') ELSE @]
         /\ lastHeard' = [lastHeard EXCEPT ![q.session] = Nth(arrived')]
  /\ UNCHANGED <<client, copies>>

\* The last ping delivered comes again, in the same second.
Duplicate ==
  /\ arrived > 0
  /\ SumFunction(copies) < MaxCopies
  /\ LET q == sent[arrived]
     IN  /\ burst[q.session] = 0
         /\ q.guid \in Resident
         /\ heap[sessionMap[q.guid]].idle = 0
         /\ ReadNextPacket(Header(q))
         /\ copies' = [copies EXCEPT ![q.guid] = @ + 1]
  /\ UNCHANGED <<client, arrived, burst, firstHeard, lastHeard>>

Lose ==
  /\ InFlight
  /\ arrived' = arrived + 1
  /\ LET i == sent[arrived'].session
     IN  /\ burst[i] < MaxBurst
         /\ burst' = [burst EXCEPT ![i] = @ + 1]
  /\ UNCHANGED <<client, vars, firstHeard, lastHeard, copies>>

ClientDone == phase = "choose" /\ Len(sent) = MaxSends

\* Every port has sent a ping in this second.
RoundSent ==
  \A i \in Port : \E k \in DOMAIN sent : sent[k].session = i /\ sent[k].stamp = now

\* A second passes; once the client is done its clock is not followed.
Second ==
  /\ ~ InFlight
  /\ Tick
  /\ \/ /\ ~ ClientDone
        /\ RoundSent
        /\ C!Tick
     \/ ClientDone /\ UNCHANGED client
  /\ UNCHANGED network

UDPingNext == ClientStep \/ Alarm \/ Deliver \/ Duplicate \/ Lose \/ Second

UDPingSpec == UDPingInit /\ [][UDPingNext]_udpingVars

----------------------------------------------------------------------------
(* Properties.                                                             *)

\* No id is reported with more pings received than expected, but for its copies:
\* a loss is never negative by itself, though a duplicate hides one, as the count
\* has it twice and the span once (README.md:3, "measuring latency and loss at the
\* destination"; serversession.cc:35-53, :115).
CountWithinTarget ==
  \A g \in Guid : published[g].count <= published[g].target + copies[g]

\* Everything is over: no ping in flight, no session alive.
Quiescent == ~ InFlight /\ Resident = {}

\* What id g owes: of the pings of port i, those from the first of its own that
\* arrived up to the first of the next id heard, or up to the last that arrived
\* at all.  The ids' shares are disjoint and leave nothing out.
Share(i, g) ==
  LET first == firstHeard[i][g]
      next == {firstHeard[i][h] : h \in Guid} \cap ((first + 1) .. MaxSends)
  IN  (IF next = {} THEN lastHeard[i] + 1 ELSE Min(next)) - first

SharesCharged ==
  Quiescent =>
    \A i \in Port : \A g \in Guid :
      firstHeard[i][g] # 0 => published[g].target = Share(i, g)

\* The ids were generated in the order in which sessionMap is swept.
Ascending == \A j, k \in DOMAIN sent :
  sent[j].session = sent[k].session /\ j < k => sent[j].guid <= sent[k].guid

\* Every loss is charged once and to the right period: when all is over, each
\* report's expected count is the share its id owes, the pings lost at the end of
\* a period and the periods lost whole included, if the sweep meets the ids in
\* the order of their periods (serversession.cc:58-101).
LossCharged == Ascending => SharesCharged

\* The same without the condition: "Set the successor for the outgoing session,
\* so that when it times out it checks for a gap in the packet sequence"
\* (serversession.cc:63-64).
GapCharged == SharesCharged
=============================================================================
