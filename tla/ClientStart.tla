---------------------------- MODULE ClientStart ----------------------------
(***************************************************************************)
(* What udping_client makes of its command line before it sends: options   *)
(* (src/src/client.cc:35-64), the interface of its address                 *)
(* (src/src/ifinfo.cc), the source ports (src/src/clientsession.cc:28-104) *)
(* and the next hops (src/src/maclist.cc).                                 *)
(*                                                                         *)
(* The argument of -s is its ranges, <<p>> for a port and <<p, q>> for     *)
(* p-q, and its form: a number, of digits only; a list, of digits, commas  *)
(* and dashes; or any other text.  "5000," is a list of one port, "," one  *)
(* of none.  The argument of -a says of each address whether it parses.    *)
(***************************************************************************)
EXTENDS Options, Sequences, FiniteSetsExt

CONSTANTS
  MinPort,      \* 1024
  MaxPort,      \* 60000
  MaxSockets,   \* 5000
  MaxBuf,       \* 2000
  MaxDstPort,   \* 65536
  Interfaces,   \* the system's interfaces, [addr, index] each, in its order
  Refused       \* the client exits

\* What the arguments of the command line may be; atoi makes a number of any text.
SourceArgs ==
  {arg \in [ranges : Seq({range \in Seq(Int) : Len(range) \in {1, 2}}),
            form : {"number", "list", "other"}] :
     arg.form = "number" => Len(arg.ranges) = 1 /\ Len(arg.ranges[1]) = 1}

CommandLine(line) ==
  /\ line.s = Absent \/ line.s \in SourceArgs
  /\ line.a = Absent \/ line.a \in Seq(BOOLEAN)
  /\ \A option \in {"p", "n", "d", "i", "m"} : line[option] = Absent \/ line[option] \in Int

ASSUME StartAssumption ==
  /\ MinPort \in Nat \ {0} /\ MaxPort \in Nat
  /\ MaxSockets \in Nat /\ MaxBuf \in Nat
  /\ Absent \notin Int /\ Refused \notin Seq(Int)
  /\ Interfaces \in Seq(Range(Interfaces))

----------------------------------------------------------------------------
(* Options.                                                                *)

\* -s is a number, with no comma or dash to it, and -n is given.
SinglePort(line) ==
  /\ line.s.form = "number" /\ line.s.ranges[1][1] > 0
  /\ IntValue(line.n) > 0

\* How many addresses MacList finds: none if any does not parse.
NumMacs(line) == IF \A k \in DOMAIN line.a : line.a[k] THEN Len(line.a) ELSE 0

\* main: every option is given that must be, and in its range.
OptionsAccepted(line) ==
  /\ ~ line.h
  /\ \A option \in {"r", "l", "s", "a"} : StringOption(line[option], TRUE)
  /\ IntOption(line.p, TRUE, MinPort, MaxDstPort)
  /\ IntOption(line.n, FALSE, 1, MaxSockets)
  /\ SinglePort(line) => line.s.ranges[1][1] \in MinPort .. MaxPort
  /\ IntOption(line.d, TRUE, 0, 1000)
  /\ IntOption(line.i, TRUE, 1, 900)
  /\ IntOption(line.m, TRUE, 1, MaxBuf)
  /\ NumMacs(line) # 0

----------------------------------------------------------------------------
(* Source ports.                                                           *)

Low(range) == range[1]
High(range) == IF Len(range) = 1 THEN range[1] ELSE range[2]

\* The ranges after main has put -s and -n together.
SourceRanges(line) ==
  IF SinglePort(line)
  THEN LET start == line.s.ranges[1][1] IN <<<<start, start + line.n - 1>>>>
  ELSE line.s.ranges

\* A plausible bug: the last port of a range is left out.
PortsOfHalfOpen(range) ==
  [k \in 1 .. (High(range) - Low(range)) |-> Low(range) + k - 1]

PortsOf(range) ==
  [k \in 1 .. (High(range) - Low(range) + 1) |-> Low(range) + k - 1]

ValidRange(range) ==
  /\ {Low(range), High(range)} \subseteq MinPort .. MaxPort
  /\ Low(range) <= High(range)

\* The ports of one more range, unless the client exits: its test for too many
\* follows each range, its test for none is never reached without one.
AddRange(ports, range) ==
  IF ports = Refused \/ ~ ValidRange(range) THEN Refused
  ELSE LET longer == ports \o PortsOf(range)
       IN  IF Len(longer) > MaxSockets THEN Refused ELSE longer

\* What the first k of some ranges make of the list, for each k.
Lists(ranges) ==
  LET made[k \in 0 .. Len(ranges)] ==
        IF k = 0 THEN <<>> ELSE AddRange(made[k - 1], ranges[k])
  IN  made

\* ClientSessionList's constructor: a session for each of these, in this order.
PortList(line) ==
  IF line.s.form # "other"
  THEN Lists(SourceRanges(line))[Len(SourceRanges(line))] ELSE Refused

\* What the usage text promises of -s and -n: the ports of all the ranges of a
\* descriptor, or as many as -n says from a starting port on.
DescribedPorts(line) ==
  IF line.s.form = "number" /\ line.n # Absent
  THEN line.s.ranges[1][1] .. (line.s.ranges[1][1] + line.n - 1)
  ELSE UNION {Low(range) .. High(range) : range \in Range(line.s.ranges)}

----------------------------------------------------------------------------
(* Interfaces.                                                             *)

\* Where getIfInfo's walk of the interfaces ends: at the first with the address,
\* or with none at all, whose null pointer it follows; 0 if it finds nothing.
FoundInterface(addr) ==
  LET found == {k \in DOMAIN Interfaces : Interfaces[k].addr \in {addr, Absent}}
  IN  IF found = {} THEN 0 ELSE Min(found)
=============================================================================
