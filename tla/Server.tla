------------------------------- MODULE Server -------------------------------
(***************************************************************************)
(* The program udping_server (src/src/server.cc): it checks its options,   *)
(* makes the stats writer and the session manager, arms the timer, binds   *)
(* its socket and reads packets for ever.  The reading of one packet,      *)
(* which is one action of ServerSessions, is taken apart here so that the  *)
(* SIGALRM handler, which runs to its end wherever it interrupts the       *)
(* program, may come between any two steps (src/src/serversession.cc).     *)
(*                                                                         *)
(* That the program runs as root or not makes no difference to it.         *)
(***************************************************************************)
EXTENDS ServerSessions, StatsWriter, FiniteSets
LOCAL INSTANCE Folds

CONSTANTS
  CommandLines,      \* the command lines the server may be given
  MaxBusy            \* seconds in which a packet is dealt with once counted

\* A packet is dealt with in less time than an alarm takes to come again.  The
\* resolver, which may take longer, is asked before the packet is counted.
ASSUME BusyAssumption == MaxBusy \in Nat /\ MaxBusy < Keepalive

VARIABLES
  opts,         \* the command line
  pc,           \* where the program is
  writer,       \* the stats writer, Nil before it is made
  ph,           \* the packet
  ds,           \* receivePing's pointer to its session
  it,           \* the sweep's iterator: the id it is at, Nil for end()
  now,          \* how many seconds ago the sweep read the clock
  busy,         \* seconds since the packet was counted
  output        \* the pings each destination was told of, and stdio's buffer

maps == <<hostMap, sessionMap, sourceMap>>
counts == <<accepted, published, output>>
locals == <<ph, ds, it, now>>
serverVars == <<maps, heap, intervalPacketsReceived, timer, counts, opts, pc, writer,
                locals, busy>>

ServerInit ==
  /\ Init
  /\ opts \in CommandLines
  /\ pc = "start"
  /\ writer = Nil
  /\ ph = Nil /\ ds = Nil /\ it = Nil
  /\ now = 0 /\ busy = 0
  /\ output = NothingWritten(Guid)

----------------------------------------------------------------------------
(* main.                                                                   *)

\* The options main asks for; a keepalive other than that of ServerSessions is
\* not followed.
OptionsAccepted(line) ==
  /\ StringOption(line.l, TRUE)
  /\ IntOption(line.p, TRUE, 1024, 65536)
  /\ IntOption(line.k, TRUE, 1, 60)

\* No user nobody, options refused, a name that does not resolve, a socket, a
\* timer or a binding that is refused: the server exits.
GiveUp ==
  /\ pc \in {"start", "bind"}
  /\ pc' = "exited"
  /\ UNCHANGED <<maps, heap, intervalPacketsReceived, timer, counts, opts, writer,
                 locals, busy>>

\* The writer and the manager are made and the timer is armed.
Start ==
  /\ pc = "start"
  /\ OptionsAccepted(opts)
  /\ writer' \in Writers(opts)
  /\ pc' = "bind"
  /\ UNCHANGED <<maps, heap, intervalPacketsReceived, timer, counts, opts, locals, busy>>

\* makeSocket.
Bind ==
  /\ pc = "bind"
  /\ pc' = "wait"
  /\ UNCHANGED <<maps, heap, intervalPacketsReceived, timer, counts, opts, writer,
                 locals, busy>>

\* readNextPacket up to its call of receivePing.
ReadPacket(p) ==
  /\ pc = "wait"
  /\ accepted[p.guid] < MaxPings
  /\ ph' = p
  /\ \E host \in IF hostMap[p.ip] = Nil THEN Names[p.ip] ELSE {hostMap[p.ip]} :
       hostMap' = [hostMap EXCEPT ![p.ip] = host]
  /\ pc' = "count"
  /\ UNCHANGED <<sessionMap, sourceMap, heap, intervalPacketsReceived, timer, counts,
                 opts, writer, ds, it, now, busy>>

----------------------------------------------------------------------------
(* receivePing.                                                            *)

\* A plausible bug: the packet is not counted.
CountForgotten ==
  /\ pc = "count"
  /\ busy' = 0
  /\ pc' = "find"
  /\ UNCHANGED <<maps, heap, intervalPacketsReceived, timer, counts, opts, writer, locals>>

Count ==
  /\ pc = "count"
  /\ intervalPacketsReceived' = 1
  /\ busy' = 0
  /\ pc' = "find"
  /\ UNCHANGED <<maps, heap, timer, counts, opts, writer, locals>>

\* getServerSession.  A new session has not arrived yet: its lastArrival is 0,
\* longer ago than any keepalive.
GetServerSession ==
  /\ pc = "find"
  /\ \/ /\ sessionMap[ph.guid] # Nil
        /\ ds' = sessionMap[ph.guid]
        /\ UNCHANGED <<sessionMap, sourceMap, heap>>
     \/ /\ sessionMap[ph.guid] = Nil
        /\ \E a \in FreeAddrs :
             LET src == <<hostMap[ph.ip], ph.port>>
                 new == [NewSession(ph, src) EXCEPT !.idle = Keepalive + 1]
             IN  /\ heap' = Linked([heap EXCEPT ![a] = new], sourceMap[src], ph)
                 /\ sessionMap' = [sessionMap EXCEPT ![ph.guid] = a]
                 /\ sourceMap' = [sourceMap EXCEPT ![src] = a]
                 /\ ds' = a
  /\ pc' = "record"
  /\ UNCHANGED <<hostMap, intervalPacketsReceived, timer, counts, opts, writer, ph, it,
                 now, busy>>

\* setLastArrival, recordSeq, addDataPoint.
Record ==
  /\ pc = "record"
  /\ heap' = [heap EXCEPT ![ds] = Recorded(heap[ds], ph)]
  /\ accepted' = [accepted EXCEPT ![ph.guid] = @ + 1]
  /\ ph' = Nil /\ ds' = Nil
  /\ pc' = "begin"
  /\ UNCHANGED <<maps, intervalPacketsReceived, timer, published, output, opts, writer,
                 it, now, busy>>

----------------------------------------------------------------------------
(* sweepServerSessions.                                                    *)

\* The first id of the map from g on, or end().
From(g) ==
  LET rest == {h \in Resident : h >= g}
  IN  IF rest = {} THEN Nil ELSE CHOOSE h \in rest : \A k \in rest : h <= k

BeginSweep ==
  /\ pc = "begin"
  /\ it' = From(0)
  /\ now' = 0
  /\ pc' = "sweep"
  /\ UNCHANGED <<maps, heap, intervalPacketsReceived, timer, counts, opts, writer, ph,
                 ds, busy>>

\* The session at the iterator is heard from within the keepalive, by the clock
\* the sweep has read.
SweepNext ==
  /\ pc = "sweep" /\ it # Nil
  /\ heap[sessionMap[it]].idle - now <= Keepalive
  /\ it' = From(it + 1)
  /\ UNCHANGED <<maps, heap, intervalPacketsReceived, timer, counts, opts, pc, writer,
                 ph, ds, now, busy>>

\* The span of the session at the iterator, after the gap to its successor.
FinalCount ==
  LET s == heap[sessionMap[it]]
      boundary == WrapSub(heap[sessionMap[s.successor]].minSeq, 1)
  IN  IF s.successor # Nil /\ sessionMap[s.successor] # Nil
      THEN TargetCount(RecordMin(s.minSeq, boundary), RecordMax(s.maxSeq, boundary))
      ELSE TargetCount(s.minSeq, s.maxSeq)

\* The session at the iterator has expired: its statistics are written.
SweepWrite ==
  /\ pc = "sweep" /\ it # Nil
  /\ LET s == heap[sessionMap[it]]
     IN  /\ s.idle - now > Keepalive
         /\ published' = [published EXCEPT
              ![it] = [count |-> @.count + s.count, target |-> @.target + FinalCount]]
         /\ output' = Written(output, writer, it, s.count)
  /\ pc' = "free"
  /\ UNCHANGED <<maps, heap, intervalPacketsReceived, timer, accepted, opts, writer,
                 locals, busy>>

\* The session is deleted and erased, and the iterator goes on.
SweepFree ==
  /\ pc = "free"
  /\ heap' = [heap EXCEPT ![sessionMap[it]] = Nil]
  /\ sessionMap' = [sessionMap EXCEPT ![it] = Nil]
  /\ it' = From(it + 1)
  /\ pc' = "sweep"
  /\ UNCHANGED <<hostMap, sourceMap, intervalPacketsReceived, timer, counts, opts,
                 writer, ph, ds, now, busy>>

\* The sweep is at its end, and so is the packet.
EndSweep ==
  /\ pc = "sweep" /\ it = Nil
  /\ now' = 0 /\ busy' = 0
  /\ pc' = "wait"
  /\ UNCHANGED <<maps, heap, intervalPacketsReceived, timer, counts, opts, writer, ph,
                 ds, it>>

----------------------------------------------------------------------------
\* The reports of a handler that sweeps, in the order of their ids.
AllWritten(count) ==
  MapThenFoldSet(LAMBDA g, out : Written(out, writer, g, count[g]), output,
                 LAMBDA g : g, LAMBDA ids : CHOOSE g \in ids : \A h \in ids : h <= g,
                 {g \in Guid : count[g] > 0})

\* The handler, which sweeps on its own: where it interrupts the program it
\* changes nothing but what the manager and the writer keep.
DeliverAlarm ==
  /\ pc \notin {"start", "exited"}
  /\ HandleAlarm
  /\ output' = AllWritten([g \in Guid |-> published'[g].count - published[g].count])
  /\ UNCHANGED <<opts, pc, writer, locals, busy>>

\* A second passes: in the resolver and in recvfrom as many as they take.
PassSecond ==
  /\ Tick
  /\ \/ /\ pc \in {"bind", "wait", "count"}
        /\ UNCHANGED <<now, busy>>
     \/ /\ pc \in {"find", "record", "begin", "sweep", "free"}
        /\ busy < MaxBusy
        /\ busy' = busy + 1
        /\ now' = IF pc \in {"sweep", "free"} THEN now + 1 ELSE now
  /\ UNCHANGED <<output, opts, pc, writer, ph, ds, it>>

\* What the program does by itself, once it has a packet.
Step ==
  \/ Count \/ GetServerSession \/ Record
  \/ BeginSweep \/ SweepNext \/ SweepWrite \/ SweepFree \/ EndSweep

ServerNext ==
  \/ Start \/ Bind \/ GiveUp
  \/ \E p \in Ping : ReadPacket(p)
  \/ Step
  \/ DeliverAlarm
  \/ PassSecond

\* The program runs, time passes and the kernel delivers the signal; nothing is
\* assumed of the network.
Fairness ==
  WF_serverVars(Step) /\ WF_serverVars(PassSecond) /\ WF_serverVars(DeliverAlarm)

ServerSpec == ServerInit /\ [][ServerNext]_serverVars /\ Fairness

----------------------------------------------------------------------------
(* Properties.                                                             *)

\* Nothing the program holds is freed under it by a signal: its session is the
\* one of its packet from the time it is found to the time it is recorded, though
\* a new one looks long expired until then, and the sweep's iterator stays at a
\* session of the map, or at its end.  Only the counter of packets keeps the
\* handler from sweeping, and the handler itself sets it back to zero
\* (serversession.cc:76-117, :163-174).
PointersHold ==
  /\ pc = "record" => ds # Nil /\ sessionMap[ph.guid] = ds /\ heap[ds] # Nil
                      /\ heap[ds].guid = ph.guid
  /\ pc = "sweep" => it = Nil \/ it \in Resident
  /\ pc = "free" => it \in Resident
  /\ SessionsOwned

\* Every ping accepted is in a report or in the live session once, in every state
\* between them; the session that is about to be deleted is in its report.
PingsAccounted ==
  \A g \in Guid :
    accepted[g] = published[g].count +
      (IF pc = "free" /\ it = g THEN 0 ELSE LiveCount(sessionMap, heap, g))

\* The whole server implements the ledger too, with signals anywhere: no report is
\* early by the clock the sweep has read, none is repeated, and none is later than
\* three keepalives and the time a packet takes, as the alarm may find a packet
\* counted whose sweep is still to come (server.cc:45, serversession.cc:103-168).
Promise == INSTANCE PingLedger WITH
  reported <- [g \in Guid |-> published[g].count],
  quiet <- [g \in Guid |-> IF accepted[g] = published[g].count THEN 0
                           ELSE heap[sessionMap[g]].idle],
  Longest <- 3 * Keepalive + MaxBusy

PromiseKept == Promise!Spec

\* The pings of g in reports that stdio holds back: none on a terminal.
HeldBack(g) == IF writer = Nil \/ writer.terminal THEN 0 ELSE output.buffer[g]

\* Every ping accepted is in the end in a report handed to printf, unless -q is
\* given, wherever the signals fall and even if no packet comes any more.  On a
\* terminal the report is then out; elsewhere it is out or among the last ones, as
\* many as fit stdio's buffer, which hold until another comes (setIntervalTimer,
\* server.cc:69-78, statswriter.cc:111-136).
EventuallyPrinted ==
  \A g \in Guid : \A n \in 1 .. MaxPings :
    ~ opts.q /\ accepted[g] = n ~> output.told[g]["console"] + HeldBack(g) >= n

\* "-k: seconds to wait for delayed pings to show up before publishing stats"
\* (server.cc:45), on standard output and, with -s, to statsd: of the outputs the
\* options ask for, one at least is told of every ping in the end, even if no packet
\* comes any more.
EventuallyPublished ==
  \A g \in Guid : \A n \in 1 .. MaxPings :
    (~ opts.q \/ opts.s # Absent) /\ accepted[g] = n
      ~> \E d \in Destinations : output.told[g][d] >= n
=============================================================================
