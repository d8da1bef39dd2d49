---------------------------- MODULE StatsWriter ----------------------------
(***************************************************************************)
(* The stats writer (src/src/statswriter.cc): which destinations it is     *)
(* given by the command line, and which of them a report reaches.  The     *)
(* report for standard output goes through stdio's buffer, which nothing   *)
(* flushes.  What a line says and how names are written in it is left out. *)
(***************************************************************************)
EXTENDS Options

CONSTANTS
  Null,      \* a null pointer
  Garbage,   \* a pointer that was never set
  BufReports \* reports that fit stdio's buffer

ASSUME BufAssumption == BufReports \in Nat \ {0}

Destinations == {"console", "statsd", "tags"}

\* getSockAddr: the port is written to a string that is not passed on, and
\* getaddrinfo leaves the port of the address zero.
GetSockAddr(host, port) == [host |-> host, port |-> 0]

\* What -s or -t, a host with a port or none, makes of its pointer; without the
\* option the pointer keeps what was in its memory.
Addresses(info) ==
  IF info = Absent THEN {Null, Garbage}
  ELSE {GetSockAddr(info.host, IF info.port = Absent THEN 8125 ELSE info.port)}

\* StatsWriter's constructor, in a process whose standard output is a terminal or
\* is not: that of a server the agent runs is a pipe.
Writers(line) ==
  [quiet : {line.q}, terminal : BOOLEAN, statsd : Addresses(line.s),
   tags : Addresses(line.t)]

\* sendto hands a datagram for the address to the network: Linux refuses port 0,
\* and a pointer to nowhere.  Nothing looks at its result.
Sendable(sa) == sa # Garbage /\ sa.port # 0

\* A plausible bug: the test for quiet is the wrong way round.
ReachedQuiet(w) ==
  { d \in Destinations :
      \/ d = "console" /\ w.quiet
      \/ d = "statsd" /\ w.statsd # Null /\ Sendable(w.statsd)
      \/ d = "tags" /\ w.tags # Null /\ Sendable(w.tags) }

\* writeStats: the destinations a report reaches.
Reached(w) ==
  { d \in Destinations :
      \/ d = "console" /\ ~ w.quiet
      \/ d = "statsd" /\ w.statsd # Null /\ Sendable(w.statsd)
      \/ d = "tags" /\ w.tags # Null /\ Sendable(w.tags) }

\* Nobody was told of a ping of these ids.
NothingWritten(guids) ==
  [told |-> [g \in guids |-> [d \in Destinations |-> 0]],
   buffer |-> [g \in guids |-> 0], held |-> 0]

\* printf of a report of count pings of g: a terminal gets it at once, and elsewhere
\* it stays in stdio's buffer until a later one finds the buffer full.
Printed(out, w, g, count) ==
  IF w.terminal THEN [out EXCEPT !.told[g]["console"] = @ + count]
  ELSE IF out.held < BufReports
  THEN [out EXCEPT !.buffer[g] = @ + count, !.held = @ + 1]
  ELSE [told |-> [h \in DOMAIN out.told |->
                    [out.told[h] EXCEPT !["console"] = @ + out.buffer[h]]],
        buffer |-> [h \in DOMAIN out.told |-> IF h = g THEN count ELSE 0],
        held |-> 1]

\* The pings each destination was told of, and the reports stdio holds back, after
\* a report of count pings of g.
Written(out, w, g, count) ==
  LET sent == [out EXCEPT !.told[g] = [d \in Destinations |->
                 IF d \in Reached(w) \ {"console"} THEN @[d] + count ELSE @[d]]]
  IN  IF "console" \in Reached(w) THEN Printed(sent, w, g, count) ELSE sent
=============================================================================
