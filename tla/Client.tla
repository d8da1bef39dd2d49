------------------------------- MODULE Client -------------------------------
(***************************************************************************)
(* The client's list of sessions, one per port named, and its send loop    *)
(* over them (src/src/clientsession.cc, src/src/client.cc:89-98): take the *)
(* next session in turn, give it a new id if a new measurement period has  *)
(* begun, send a ping with its next sequence number by its next next-hop   *)
(* MAC (src/src/maclist.cc), pause.                                        *)
(*                                                                         *)
(* The loop reads the clock twice, in rollover() to choose the id and in   *)
(* sendPingPacket() to stamp the packet, so one turn is two actions with   *)
(* time free to pass between them; the random pause is the time that may   *)
(* pass before the next turn.  ClientMain is the program around the loop.  *)
(***************************************************************************)
EXTENDS Integers, Sequences, FiniteSets

CONSTANTS
  Guid,         \* values of generateGuid, which never repeats one here
  SeqMod,       \* number of values of seqnum_t
  FirstSecond,  \* the clock when the loop begins
  LastSecond,   \* bound: the clock stops being followed here
  MaxSends      \* bound: pings sent

\* Set before the loop by the program around it, and not changed in it.
VARIABLES
  ports,        \* the source ports of the sessions, options -s and -n
  numMacs,      \* next-hop addresses, option -a
  interval      \* seconds of a measurement period, option -i

VARIABLES
  now,          \* time(0)
  phase,        \* where the loop is
  curSession,   \* the list's cursor
  chosen,       \* the session of this turn
  sessions,     \* the state of each session
  used,         \* ghost: the ids generated so far
  sent          \* ghost: the pings numbered and handed to sendto, in order

Sessions == DOMAIN ports

Session == [guid : Guid, seqNum : 0 .. (SeqMod - 1), lastRollover : Nat,
            curMac : 1 .. numMacs]
Packet == [session : Sessions, guid : Guid, seqNum : 0 .. (SeqMod - 1),
           stamp : Nat, mac : 1 .. numMacs]

\* The type invariant; every id in use or on the wire was generated.
TypeOK ==
  /\ now \in FirstSecond .. LastSecond
  /\ phase \in {"choose", "send"}
  /\ curSession \in Sessions
  /\ chosen \in Sessions
  /\ sessions \in [Sessions -> Session]
  /\ used \subseteq Guid
  /\ \A i \in Sessions : sessions[i].guid \in used
  /\ sent \in Seq(Packet)

Period(t) == t - (t % interval)

----------------------------------------------------------------------------
(* Plausible bugs, used to show that the properties can fail.              *)

\* One cursor for all sessions, as if they shared a MacList.
NextMacShared(i) == (Len(sent) % numMacs) + 1

\* The cursor is compared with > in place of >=, and runs past the last hop.
NextMacPastEnd(i) ==
  IF sessions[i].curMac > numMacs THEN 1 ELSE sessions[i].curMac + 1

\* Every session of the list is rolled over only when the first one is.
RolloverFirst(i) == i = 1 /\ Period(now) # sessions[1].lastRollover

\* The comment at clientsession.cc:159 taken at its word.
ResetRestarting(i, g) == [sessions[i] EXCEPT !.guid = g, !.seqNum = 0,
                                             !.lastRollover = Period(now)]

\* The cursor wraps one session too early.
NextSessionEarly(i) == IF i >= Len(ports) - 1 THEN 1 ELSE i + 1

----------------------------------------------------------------------------
\* MacList::nextMac of session i.
NextMac(i) == IF sessions[i].curMac >= numMacs THEN 1 ELSE sessions[i].curMac + 1

\* ClientSessionList::getNextSession: where the cursor goes after session i.
NextSession(i) == IF i = Len(ports) THEN 1 ELSE i + 1

\* ClientSession::rollover of session i: a period other than the one of the
\* last turn has begun.  The first turn only records its period.
Rollover(i) ==
  /\ sessions[i].lastRollover # 0
  /\ Period(now) # sessions[i].lastRollover

\* ClientSession::reset: a new id, and the same sequence of numbers goes on.
Reset(i, g) == [sessions[i] EXCEPT !.guid = g, !.lastRollover = Period(now)]

\* The ids generateGuid may give the sessions of n ports.
FirstIds(n) ==
  {id \in [1 .. n -> Guid] : \A i, j \in 1 .. n : id[i] = id[j] => i = j}

\* The sessions of as many ports as there are ids: MacList's constructor leaves
\* the cursor past the last of its macs, so that nextMac begins with the first.
NewSessions(id, macs) ==
  [i \in DOMAIN id |-> [guid |-> id[i], seqNum |-> 0, lastRollover |-> 0,
                        curMac |-> macs]]

\* The loop begins.
Init ==
  /\ now = FirstSecond
  /\ phase = "choose"
  /\ curSession = 1
  /\ chosen = 1
  /\ \E id \in FirstIds(Len(ports)) :
       /\ sessions = NewSessions(id, numMacs)
       /\ used = {id[i] : i \in Sessions}
  /\ sent = <<>>

\* getNextSession, rollover and reset: the first half of a turn.
ChooseSession ==
  /\ phase = "choose"
  /\ Len(sent) < MaxSends
  /\ chosen' = curSession
  /\ curSession' = NextSession(curSession)
  /\ \/ /\ ~ Rollover(curSession)
        /\ sessions' = [sessions EXCEPT ![curSession].lastRollover = Period(now)]
        /\ UNCHANGED used
     \/ /\ Rollover(curSession)
        /\ \E g \in Guid \ used :
             /\ sessions' = [sessions EXCEPT ![curSession] = Reset(curSession, g)]
             /\ used' = used \cup {g}
  /\ phase' = "send"
  /\ UNCHANGED <<now, sent>>

\* sendPingPacket and increment: the second half of a turn.  sendMessage returns
\* the length it was given, whether or not sendto took the frame, so the turn
\* ends the same way and the exit of clientsession.cc:206-209 is never taken.
SendPingPacket ==
  /\ phase = "send"
  /\ LET s == sessions[chosen]
         mac == NextMac(chosen)
     IN  /\ sent' = Append(sent, [session |-> chosen, guid |-> s.guid,
                                  seqNum |-> s.seqNum, stamp |-> now, mac |-> mac])
         /\ sessions' = [sessions EXCEPT
              ![chosen].curMac = mac,
              ![chosen].seqNum = (@ + 1) % SeqMod]
  /\ phase' = "choose"
  /\ UNCHANGED <<now, curSession, chosen, used>>

\* A second passes.
Tick ==
  /\ now < LastSecond
  /\ now' = now + 1
  /\ UNCHANGED <<phase, curSession, chosen, sessions, used, sent>>

----------------------------------------------------------------------------
(* Properties.                                                             *)

\* How many pings session i has sent by next hop m.
Sends(i, m) == Cardinality({k \in DOMAIN sent : sent[k].session = i /\ sent[k].mac = m})

\* Every path is probed as often as every other: the numbers of pings two
\* (session, next hop) pairs have carried never differ by more than one, although
\* the list's cursor and each session's MAC cursor turn independently
\* (clientsession.cc:114-121, maclist.cc:51-55).
PathsBalanced ==
  \A i, j \in Sessions : \A m, n \in 1 .. numMacs : Sends(i, m) <= Sends(j, n) + 1

\* The numbers of a session are consecutive over all its ids, so that the server
\* can see a loss between two periods, when it takes the last id of a source for
\* the predecessor of a new one (clientsession.cc:163-173, serversession.cc:60-69).
SequenceContinues ==
  \A k \in DOMAIN sent :
    sent[k].seqNum =
      Cardinality({j \in 1 .. (k - 1) : sent[j].session = sent[k].session}) % SeqMod

\* An id belongs to one session and one period, but for its last ping: any two
\* pings of an id that are followed by a third were stamped in the same period
\* (rollover reads the clock before the stamp is taken, clientsession.cc:146-185).
OnlyLastStrays ==
  \A j, k, l \in DOMAIN sent :
    /\ sent[j].guid = sent[k].guid => sent[j].session = sent[k].session
    /\ j < k /\ k < l /\ sent[j].guid = sent[l].guid /\ sent[k].guid = sent[l].guid
         => Period(sent[j].stamp) = Period(sent[k].stamp)
=============================================================================
