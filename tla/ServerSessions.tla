--------------------------- MODULE ServerSessions ---------------------------
(***************************************************************************)
(* The server's session manager (src/src/serversession.cc,                 *)
(* src/include/serversession.h): it finds or creates the session of every  *)
(* ping, links each session to the one before it from the same source, and *)
(* publishes and frees the sessions that have been silent for longer than  *)
(* the keepalive, on every ping and from the SIGALRM timer.                *)
(*                                                                         *)
(* Memory is part of the model.  sourceMap keeps a pointer to the last     *)
(* session of a source and is never cleaned, so it may point to freed      *)
(* memory, which `new` may hand out again: an address is a member of Addr, *)
(* heap[a] is the session living there (Nil if none), and `new` returns    *)
(* any free address.                                                       *)
(*                                                                         *)
(* Time is in whole seconds, as in the code (time(0)).  A session keeps    *)
(* idle, the seconds since its lastArrival, in place of two absolute       *)
(* times; the clock is assumed not to be stepped.  A packet is one action  *)
(* here; Server takes it apart and lets the signal fall inside.            *)
(***************************************************************************)
EXTENDS SeqWindow

CONSTANTS
  Ip,          \* addresses packets come from
  Host,        \* names the resolver may answer, dotted addresses included
  Names,       \* Names[ip]: the answers gethostbyaddr may give for ip
  Port,        \* UDP source ports
  Guid,        \* session ids; < is the order of sessionMap's iteration
  StartTime,   \* clientStartTime values
  Addr,        \* addresses `new ServerSession` may return
  Ping,        \* headers of the well-formed packets that may arrive
  Keepalive,   \* seconds, option -k
  MaxPings,    \* bound: pings accepted per id
  Nil          \* no session, no id, no name

Source == Host \X Port

ASSUME KeepaliveAssumption == Keepalive \in Nat /\ Keepalive > 0

ASSUME NamesAssumption ==
  /\ Guid \subseteq Nat
  /\ Names \in [Ip -> SUBSET Host]
  /\ Ping \subseteq [ip : Ip, port : Port, guid : Guid, startTime : StartTime,
                     seqNum : Seqnum]

VARIABLES
  hostMap,     \* ip -> the name it was first resolved to
  sessionMap,  \* guid -> address of its session
  sourceMap,   \* source -> address of the last session created for it
  heap,        \* address -> session
  intervalPacketsReceived,  \* since the last alarm; only its being zero is read
  timer,       \* seconds since the last SIGALRM
  accepted,    \* ghost: pings accepted per id
  published    \* what the stats writer was handed, summed per id

vars == <<hostMap, sessionMap, sourceMap, heap, intervalPacketsReceived, timer,
          accepted, published>>

\* guid and source are the session's StatsWriterSet, count its Stats.
Session ==
  [guid : Guid, source : Source, startTime : StartTime,
   successor : Guid \cup {Nil}, idle : Nat,
   minSeq : Seqnum, maxSeq : Seqnum, count : Nat]

ASSUME NilAssumption ==
  /\ Nil \notin Addr
  /\ Nil \notin Guid
  /\ Nil \notin Host
  /\ Nil \notin Session

\* The type invariant: every pointer is null or an address, every address
\* holds nothing or a session, and the numbers keep their widths.
TypeOK ==
  /\ hostMap \in [Ip -> Host \cup {Nil}]
  /\ sessionMap \in [Guid -> Addr \cup {Nil}]
  /\ sourceMap \in [Source -> Addr \cup {Nil}]
  /\ heap \in [Addr -> Session \cup {Nil}]
  /\ intervalPacketsReceived \in {0, 1}
  /\ timer \in 0 .. Keepalive
  /\ accepted \in [Guid -> Nat]
  /\ published \in [Guid -> [count : Nat, target : Nat]]

Init ==
  /\ hostMap = [i \in Ip |-> Nil]
  /\ sessionMap = [g \in Guid |-> Nil]
  /\ sourceMap = [s \in Source |-> Nil]
  /\ heap = [a \in Addr |-> Nil]
  /\ intervalPacketsReceived = 0
  /\ timer = 0
  /\ accepted = [g \in Guid |-> 0]
  /\ published = [g \in Guid |-> [count |-> 0, target |-> 0]]

----------------------------------------------------------------------------
(* A session.                                                              *)

\* ServerSession::ServerSession
NewSession(p, src) ==
  [guid |-> p.guid, source |-> src, startTime |-> p.startTime,
   successor |-> Nil, idle |-> 0,
   minSeq |-> p.seqNum, maxSeq |-> p.seqNum, count |-> 0]

\* setLastArrival, recordSeq and addDataPoint for one ping.
Recorded(s, p) ==
  [s EXCEPT !.idle = 0,
            !.maxSeq = RecordMax(s.maxSeq, p.seqNum),
            !.minSeq = RecordMin(s.minSeq, p.seqNum),
            !.count = s.count + 1]

----------------------------------------------------------------------------
(* getServerSession: the session is created before its predecessor is      *)
(* looked up, so the predecessor's address may be the new session's own.   *)

FreeAddrs == {a \in Addr : heap[a] = Nil}

\* The predecessor of a new session of p learns its successor.  A freed
\* predecessor's clientStartTime has been overwritten by the allocator: the
\* comparison fails and nothing happens.
Linked(h, predecessor, p) ==
  IF /\ predecessor # Nil
     /\ h[predecessor] # Nil
     /\ h[predecessor].startTime = p.startTime
  THEN [h EXCEPT ![predecessor] = [@ EXCEPT !.successor = p.guid]]
  ELSE h

----------------------------------------------------------------------------
(* sweepServerSessions, over the map sm and the heap h it starts from.     *)
(* The definitions named Sweep.., Expired.. and Final.. with a further word *)
(* are plausible bugs, used to show that the properties can fail.          *)

\* The last second of the wait is not waited for.
ExpiredEarly(sm, h) == {g \in Guid : sm[g] # Nil /\ h[sm[g]].idle >= Keepalive}

Expired(sm, h) == {g \in Guid : sm[g] # Nil /\ h[sm[g]].idle > Keepalive}

\* The successor of g is still in the map when the sweep reaches g: it is
\* resident, and not expired with a smaller id.
SuccessorFound(sm, h, g) ==
  LET s == h[sm[g]].successor
  IN  /\ s # Nil
      /\ sm[s] # Nil
      /\ ~ (s \in Expired(sm, h) /\ s < g)

\* Losses after the last ping of an id are never looked for.
FinalTargetNoGap(sm, h, g) == TargetCount(h[sm[g]].minSeq, h[sm[g]].maxSeq)

\* The pings the report on g says were sent, after the gap to the successor's
\* first ping has been charged to g.
FinalTarget(sm, h, g) ==
  LET s == h[sm[g]]
      boundary == WrapSub(h[sm[s.successor]].minSeq, 1)
  IN  IF SuccessorFound(sm, h, g)
      THEN TargetCount(RecordMin(s.minSeq, boundary), RecordMax(s.maxSeq, boundary))
      ELSE TargetCount(s.minSeq, s.maxSeq)

\* The session is deleted and stays in the map.
SweepWithoutErase(sm, h) ==
  /\ sessionMap' = sm
  /\ heap' = [a \in Addr |->
                IF \E g \in Expired(sm, h) : sm[g] = a THEN Nil ELSE h[a]]
  /\ published' = [g \in Guid |->
       IF g \in Expired(sm, h)
       THEN [count |-> published[g].count + h[sm[g]].count,
             target |-> published[g].target + FinalTarget(sm, h, g)]
       ELSE published[g]]

\* The session is deleted before its statistics are written.
SweepWithoutReport(sm, h) ==
  /\ sessionMap' = [g \in Guid |-> IF g \in Expired(sm, h) THEN Nil ELSE sm[g]]
  /\ heap' = [a \in Addr |->
                IF \E g \in Expired(sm, h) : sm[g] = a THEN Nil ELSE h[a]]
  /\ UNCHANGED published

SweepServerSessions(sm, h) ==
  /\ sessionMap' = [g \in Guid |-> IF g \in Expired(sm, h) THEN Nil ELSE sm[g]]
  /\ heap' = [a \in Addr |->
                IF \E g \in Expired(sm, h) : sm[g] = a THEN Nil ELSE h[a]]
  /\ published' = [g \in Guid |->
       IF g \in Expired(sm, h)
       THEN [count |-> published[g].count + h[sm[g]].count,
             target |-> published[g].target + FinalTarget(sm, h, g)]
       ELSE published[g]]

----------------------------------------------------------------------------
(* receivePing: count, find or create, record, sweep.                      *)

ReceivePing(p, src) ==
  /\ intervalPacketsReceived' = 1
  /\ accepted' = [accepted EXCEPT ![p.guid] = @ + 1]
  /\ \/ LET a == sessionMap[p.guid]
        IN  /\ a # Nil
            /\ sourceMap' = sourceMap
            /\ SweepServerSessions(sessionMap,
                 [heap EXCEPT ![a] = Recorded(heap[a], p)])
     \/ /\ sessionMap[p.guid] = Nil
        /\ \E a \in FreeAddrs :
             LET created == [heap EXCEPT ![a] = NewSession(p, src)]
                 linked == Linked(created, sourceMap[src], p)
             IN  /\ sourceMap' = [sourceMap EXCEPT ![src] = a]
                 /\ SweepServerSessions([sessionMap EXCEPT ![p.guid] = a],
                      [linked EXCEPT ![a] = Recorded(linked[a], p)])

\* readNextPacket on a well-formed packet (any other changes nothing): the
\* sender's name is resolved once and kept.
ReadNextPacket(p) ==
  /\ accepted[p.guid] < MaxPings
  /\ \E host \in IF hostMap[p.ip] = Nil THEN Names[p.ip] ELSE {hostMap[p.ip]} :
       /\ hostMap' = [hostMap EXCEPT ![p.ip] = host]
       /\ ReceivePing(p, <<host, p.port>>)
  /\ UNCHANGED timer

\* An alarm that never forgets the packets of earlier intervals: a plausible bug.
HandleAlarmLatched ==
  /\ timer = Keepalive
  /\ timer' = 0
  /\ \/ /\ intervalPacketsReceived = 0
        /\ SweepServerSessions(sessionMap, heap)
     \/ /\ intervalPacketsReceived # 0
        /\ UNCHANGED <<sessionMap, heap, published>>
  /\ UNCHANGED <<hostMap, sourceMap, intervalPacketsReceived, accepted>>

\* The interval timer fires every Keepalive seconds.
HandleAlarm ==
  /\ timer = Keepalive
  /\ timer' = 0
  /\ \/ /\ intervalPacketsReceived = 0
        /\ SweepServerSessions(sessionMap, heap)
     \/ /\ intervalPacketsReceived # 0
        /\ UNCHANGED <<sessionMap, heap, published>>
  /\ intervalPacketsReceived' = 0
  /\ UNCHANGED <<hostMap, sourceMap, accepted>>

\* A second passes.
Tick ==
  /\ timer < Keepalive
  /\ timer' = timer + 1
  /\ heap' = [a \in Addr |->
                IF heap[a] = Nil THEN Nil
                ELSE [heap[a] EXCEPT !.idle = @ + 1]]
  /\ UNCHANGED <<hostMap, sessionMap, sourceMap, intervalPacketsReceived,
                 accepted, published>>

Next ==
  \/ \E p \in Ping : ReadNextPacket(p)
  \/ HandleAlarm
  \/ Tick

Spec == Init /\ [][Next]_vars

----------------------------------------------------------------------------
(* Properties.                                                             *)

Resident == {g \in Guid : sessionMap[g] # Nil}

\* A map owns a heap: every id in the map points to a live session of that id,
\* and every live session is in the map under its own id.
Owns(sm, h) ==
  /\ \A g \in Guid : sm[g] # Nil => h[sm[g]] # Nil /\ h[sm[g]].guid = g
  /\ \A a \in Addr : h[a] # Nil => sm[h[a].guid] = a

\* sessionMap owns the heap at all times: no sweep dereferences freed memory,
\* no session is freed twice and none leaks, whatever the allocator reuses and
\* whatever sourceMap still points to (serversession.cc:58-101).
SessionsOwned == Owns(sessionMap, heap)

\* The pings counted by the live session of g, if it has one.
LiveCount(sm, h, g) == IF sm[g] = Nil THEN 0 ELSE h[sm[g]].count

\* A session exists only once a ping has been counted in it.
NoEmptySession == \A a \in Addr : heap[a] # Nil => heap[a].count > 0

\* Every ping accepted for an id is in a published report or in the live
\* session, once: late pings that bring an id back to life, sweeps in the
\* middle of a ping and recycled addresses neither lose nor repeat one
\* (serversession.cc:76-117).
PingsConserved ==
  \A g \in Guid :
    accepted[g] = published[g].count + LiveCount(sessionMap, heap, g)

\* The longest a session can have been silent, by the state of the alarm: the
\* strengthening that makes ReportedInTime inductive.
SilenceBound ==
  \A a \in Addr :
    heap[a] # Nil =>
      heap[a].idle <=
        timer + (IF intervalPacketsReceived = 0 THEN 2 * Keepalive ELSE Keepalive)

\* No session waits for its report longer than three keepalives after its
\* last ping: one for the sweep's own threshold, up to two more because an
\* alarm skips its sweep when any packet came in (handleAlarm,
\* serversession.cc:163-168).
ReportedInTime ==
  \A a \in Addr : heap[a] # Nil => heap[a].idle <= 3 * Keepalive

\* The seconds since the last ping of g, while it has a session.
Silence(sm, h, g) == IF sm[g] = Nil THEN 0 ELSE h[sm[g]].idle

\* The session manager implements the ledger: a ping is reported exactly once,
\* never while its id has been heard from in the last Keepalive seconds, and
\* time never passes the limit with a ping unreported (server.cc:45).
Ledger == INSTANCE PingLedger WITH
  accepted <- accepted,
  reported <- [g \in Guid |-> published[g].count],
  quiet <- [g \in Guid |-> Silence(sessionMap, heap, g)],
  Longest <- 3 * Keepalive

LedgerSpec == Ledger!Spec

\* The successor of a live session, while it lives itself, is a session of the
\* same source (serversession.h:14, "Successor is the next serversession for
\* the same host and port").
SuccessorSameSource ==
  \A g \in Resident :
    LET s == heap[sessionMap[g]].successor
    IN  s # Nil /\ sessionMap[s] # Nil =>
          /\ s # g
          /\ heap[sessionMap[s]].source = heap[sessionMap[g]].source
=============================================================================
