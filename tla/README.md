# A TLA+ development of UDPing

UDPing measures one-way latency and loss between hosts. A client (`src/src/client.cc`)
sends numbered pings from several source ports, in measurement periods that each have an
id; a server (`src/src/server.cc`) groups the pings it receives by id into sessions and
publishes for each one how many pings it received and how many it expected. The specifications here
are translated from the code; constants such as the width of a sequence number are
parameters, so that TLC can check small values and TLAPS can prove for all.

## 1. Inventory

| part | code | state | operations | modelled in |
|---|---|---|---|---|
| server program | `server.cc` | options, the timer, the socket | `main` | `Server`, `Options` |
| session manager | `serversession.cc` | `sessionMap` (id to session), `sourceMap` (source to last session), `hostMap`, `intervalPacketsReceived` | `readNextPacket`, `receivePing`, `getServerSession`, `sweepServerSessions`, `handleAlarm` | `ServerSessions`; step by step in `Server` |
| server session | `serversession.cc` | `minSeq`, `maxSeq`, `successor`, `lastArrival`, statistics | `recordSeq`, `setSuccessor`, `writeStats` | `SeqWindow`, `SessionSpan`, `ServerSessions` |
| stats writer | `statswriter.cc` | destinations, stdio's buffer | constructor, `writeStats` | `StatsWriter` |
| client program | `client.cc` | options, user | `main` | `ClientMain`, `ClientStart` |
| client sessions | `clientsession.cc` | a cursor over the sessions, one for each port named; per session the id, the next number, the last period | constructor, `getNextSession`, `rollover`, `reset`, `sendPingPacket`, `sendPacket`, `increment` | `ClientStart`, `Client`, `ClientMain` |
| MAC list | `maclist.cc` | a cursor over the next hops, one per session | `nextMac` | `Client` |
| interface lookup | `ifinfo.cc` | none after start | `getIfInfo` | `ClientStart` |
| framing, sockets | `protocol.cc` | none | `buildFrame`, `checksum`, `udp4_checksum2`, `sendMessage`, `getSockAddr`, `makeSocket` | `Frame`, `ClientMain`, `StatsWriter`, `Server` |
| options | `options.cc` | none after start | `getStringOption`, `parseIntOption` | `Options` |
| pacing, timer | `delay.cc` | the interval timer | `doRandomPause`, `setIntervalTimer` | in `Client` and `ServerSessions` |
| statistics | `stats.cc` | count, target, sums | `addDataPoint` | the count and target in `ServerSessions` |
| ping senders | `otel/ping_otelsender.go`, `otel/ping_reader.go` | counters, a ring of 1024 marks | a line of ping's output, export callback | the lines in `PingSender` |
| agent | `agent/udping_agent` | the table of child processes | `update`, `synchronize`, `launch...`, `killChild`, `checkForOrphans`, `shutdown` | `Agent` |
| udping sender | `otel/udping_otelsender.go` | totals per pair of hosts under a mutex | a report, export callback | no |
| Go agent | `agent/agent.go` | a map of children shared by goroutines | `synchronize`, `launch` | no |
| controller | `controller/database.js`, `public/js/udping.js` | three tables; the view of each page | the API's requests, the pages' pairs of requests | no |
| pinger, controller stub, tests, build | | | | no: not part of the measuring system |

**How they interact.** The client's only message is the ping: id, sequence number, start
time of the client, time stamps. Nothing goes back. The server handles one packet at a
time; a SIGALRM every `-k` seconds runs a sweep when no packet came since the last alarm.
The server hands a report per session to `printf`, and may send it to statsd. Nothing flushes standard
output: a terminal gets each line at once, while in a pipe, such as the one the agent runs the server in, reports wait in
stdio's buffer until later ones fill it. `udping_otelsender` reads them there. The agent starts clients, servers and pings from the list the controller serves.

**What is hard.** Sessions are created late, early and again by whatever the network
delivers; links between sessions go through a map of pointers that is never cleaned, into
memory that is freed and reused; a sweep looks other sessions up in the map it is erasing from, and the
signal handler may start another sweep between any two steps of the program;
the numbers wrap; the loss at the end of a period shows only in the next
period's first ping; the last report depends on a timer that often does nothing, and then on a buffer; the client
reads its clock twice per ping; its command line is checked in three places; the agent
kills what `ps` showed a moment ago, and is interrupted anywhere.

**What makes each part correct.** A session's two numbers are the ends of what arrived
(`SpanTracked`). The manager frees each session once (`SessionsOwned`), reports each ping
once (`PingsConserved`), not too early and not too late (`LedgerSpec`, `ReportedInTime`). The server
does so with signals anywhere (`PointersHold`, `PingsAccounted`, `PromiseKept`), and hands every ping to `printf` in the end (`EventuallyPrinted`); that it is then published holds on a terminal only. The
client's loop is entered only as it should be (`LoopReady`); its paths are probed evenly
(`PathsBalanced`), the numbers of a session have no break (`SequenceContinues`), its ids stay in their
period up to the last ping (`OnlyLastStrays`), its frames reach the receiving program (`FrameAccepted`). Together, every loss is charged once, to the
id that owes it (`LossCharged`). The agent's processes are those of its table (`ChildrenTracked`), and those the controller
asks for (`AsConfigured`, `Converges`), and end with it (`CleanExit`).

## 2. Modules

The server:

- **`SeqWindow`**: the arithmetic of `seqnum_t`, `recordSeq` and `writeStats`. `SeqMod` is
  2^32 in the code and `Window` the literal 10. The subtraction wraps as the C++ one does.
- **`SessionSpan`**: one session under a network that reorders, duplicates and loses, but never
  skips `Window` or more pings past either end of what has arrived. Ghosts hold the true ends.
- **`ServerSessions`**: the session manager. One action per entry point: `ReadNextPacket` (with
  `receivePing`, `getServerSession` and the sweep it ends with), `HandleAlarm`, and `Tick` for the clock.
  *Memory*: `heap` maps addresses to sessions, `new` returns any free address, and `sourceMap`
  keeps addresses of freed sessions as the code does. A freed session's first field,
  `clientStartTime`, is overwritten by the allocator's free list, so the comparison of line
  67 fails on it; when the address has been given to a new session the comparison reads that session.
  *The order of the sweep*: sessions leave the map in the order of their ids; the lookup of a
  successor that expires in the same sweep fails if its id is smaller (`SuccessorFound`).
  That a session may be its own successor, and be found, is covered.
  *Time*: a session keeps its seconds of silence in place of two absolute times.
  *The ghost* `published` sums the reports of an id, which may have several.
- **`PingLedger`**: what the server promises, with no sessions: pings accepted, pings reported, silence, and
  the `Longest` time a ping may wait for its report.
- **`StatsWriter`**: which destinations the options give a report and which it reaches. `Sendable` is the kernel's
  answer to `sendto`; pointers that were never set are `Garbage`. Standard output is a terminal or not; when it is not, `Printed` puts the
  report into stdio's buffer, which holds `BufReports` reports and goes out when one more finds it full.
- **`Server`**: the whole program. It extends `ServerSessions` and takes `ReadNextPacket` apart: the counter, the lookup, the record,
  the sweep session by session, with the writing and the freeing of one apart. `DeliverAlarm` is `HandleAlarm` of `ServerSessions`,
  and may come between any two of them; it runs to its end, as the program does nothing
  while it does. `it` is the sweep's iterator, `now` how old the sweep's reading of the clock is.

The client:

- **`Options`**, **`ClientStart`**: what the checks of `client.cc`, `clientsession.cc`, `maclist.cc` and `ifinfo.cc` make of
  a command line: ports, next hops, interface, or the end of the client. The argument of `-s` is its ranges and its form, since `-n` counts
  only beside a text of digits alone: "5000" is a number, "5000," a list of one port, "," a list of none. `DescribedPorts` is the usage text's view of `-s` and `-n`.
- **`Client`**: the send loop, over sessions: a port named twice in `-s` has two, and `ports` tells which port a session sends from. A turn is two actions, `ChooseSession` (`getNextSession`, `rollover`,
  `reset`) and `SendPingPacket` (`sendPingPacket`, `nextMac`, `increment`), because the code reads the
  clock in each. The random pause is any time that passes between turns.
- **`Frame`**: `buildFrame` and its checksums over bytes of `ByteMod` values, and the receiver's test (RFC 1071, RFC 768).
- **`ClientMain`**: the whole program: `phase` goes from the options to the list, the change of user and the loop of `Client`, with
  an exit or a crash where the code has one. A frame `sendto` does not take changes nothing else.

Together, and around:

- **`UDPing`**: `ServerSessions` extended by one instance of `Client` and a network that keeps the order, loses at
  most `MaxBurst` pings of a port in a row and delivers some twice. `Second` ticks both clocks. Ghosts number the pings of a port without wrapping:
  the first that arrived of each id, the last that arrived.
- **`PingSender`**: the reader of `ping -O`'s output: `ringBuf`, `curSeq`, the two counts, one action per kind of line, with ghosts
  for what ping printed. A late line may be of a ping the ring has passed, and an answer may come twice; the ghost `strays` counts these, up to `MaxStrays`. `Ring` is 1024, `Slack` 1000, `ParseLimit` 2^15 and `PingMod` 2^16 in the code.
- **`Agent`**: the main thread of the agent, its children and one SIGINT. `pc` names the function the agent is in; a fork and
  its entry in the table, and `waitpid` and the `del` after it, are steps of their own, since SIGINT may come between. A child shows `ps` a command, or is between two, or has ended.
  An answer of the controller that is not the JSON it should be is read outside the `try`, and ends the agent with its children alive.
- **`...MC`** modules and `.cfg` files hold the values for TLC; **`...Proofs`** the theorems (those of `Client`, `ClientStart` and
  `ClientMain` are in `ClientProofs`).

Definitions introduced as plausible bugs (`...NoWrap`, `...Early`, `SweepWithout...`) stand beside the
definition they would replace; no specification uses them. Replacing the definition by one of them makes
the property named in `PROJECT.json` fail.

## 3. What the runs show

| run | question | bounds |
|---|---|---|
| `span` | does a session know its true ends? | 16 numbers, window 4, spans up to 8, every starting number |
| `manager` | is every ping counted and reported once, in time, with memory intact? | two machines that may share a name, three ids, two pings of each, three addresses, keepalive 1 |
| `manager_successor` (fails) | is a successor the next session of its own source? | as `manager` |
| `server` | does all this hold with the signal anywhere, and is every ping handed to `printf`? | two ids, two pings of each, two addresses, keepalive 2, at most one second in a packet, a buffer of two reports, terminal and pipe |
| `server_outputs` (fails) | is every ping published somewhere? | as `server`, with `-s`, terminal and pipe |
| `client` | does the loop start only as it should; are paths balanced, the numbers of a session unbroken, ids in their period, frames accepted? | 19 command lines, up to 3 ports, 2 hops, periods of 2 s, 7 pings, counter of 3, bytes of 8 values |
| `udping` | is every loss charged to the right id? | 1 port, 3 ids in every order, 6 pings, one copy, bursts of 2, window 4, keepalive 3 |
| `udping_burst` (fails) | does a report never count more than it expects? | bursts of 3, window 4 |
| `udping_order` (fails) | is a loss between two ids always seen? | as `udping`, ids in any order, no copies |
| `agent` | are the processes those of the table and of the controller's list? | two lists, up to three children, one SIGINT |
| `sender` | are the drops of the pinged hosts exact until a line strays? | ring of 4 turned more than twice, every pattern of misses and answers, one stray line |
| `sender_parse` (fails) | does every new number start a fresh entry? | as `sender`, numbers past the parse's limit |

**Why the bounds are enough.** In `manager`, three ids are the least at which a
successor sorts before its predecessor while another source runs, three addresses are one per session alive,
so every session after the first to be freed may get a recycled address, and two pings of an id are the least that let one
arrive after its report. In `server`, two ids are the least at which a packet's sweep frees a session other than its own, and a
keepalive of two the least that is longer than a packet's second. In `client`, two ports by two hops is the least at which cursors in step
would leave paths unused, and the counter wraps twice; the frames are the header alone, one byte more (odd) and two, the last longer than the link takes,
and at eight values a byte both checksums carry. In `udping`, a burst of two with the ping after it
makes a step of three, the longest below the window, and a silence of three seconds, the
longest the keepalive allows; a period of two pings can be lost whole. In `agent`, the two lists differ by a changed setting, an unwanted child, and
a mechanism the agent does not know. In `server`, two reports in the buffer and up to four in all let it go out and hold some again. In `sender`, one stray line
is enough to undo the counts. Time is not bounded: a
session's silence is bounded by the sweeps and the client's clock is not followed after its last ping. `MaxPings` and
`MaxSends` bound the pings (`MaxPings` also those of `sender`), `MaxCopies` the duplicates and `MaxSpan` the span of a session. `MaxSpan + 2 * Window <= SeqMod` is necessary: a
session that spans the whole counter cannot be told from one that starts again; at 2^32 numbers no session gets there.

**Findings.** The failing runs are disagreements between the code and what its comments or its README say, described in `PROJECT.json` with
the lines: a session that becomes its own successor through a dangling pointer (`manager_successor`); reports that stay in the
buffer of standard output when the traffic stops, and statsd output that never leaves because the port of its address is zero (`server_outputs`: in one trace both outputs
are without the last report, and either repair would make the property hold); a burst of
losses that makes the loss negative (`udping_burst`); a loss between two ids that is not seen when the sweep meets the successor first (`udping_order`); a sequence number parsed in too
few bits (`sender_parse`).

Two more are shown by properties of `client` that hold. The comment above `reset` says that it works "by resetting the sequence number" (clientsession.cc:160), and
`SequenceContinues` that the numbers run on over a new id. There the code is what the rest of the system needs: the server finds the losses between two ids by numbers that run on, and
`LossCharged` relies on it. And `LoopReady` says that the loop begins without a session exactly when `-s` names no range: `udping_client -s ,` passes every check, because the test for "No ports
defined" is inside the loop over the ranges, and reads past the end of an empty list (`NoSession`).

Disagreements that no property states: README.md:67 says of the number "Monotonically increasing sequence number per client port", but a port named twice in `-s` has
two sessions, and sends every number twice. ping_otelsender.go:86 says that a mark "is zero if no misses or a response has been received", but a response leaves it as it is, so that a second answer takes a
second drop off (`SecondAnswer`). A line of a ping from before the wrap of the ring, as the answer to 1023 after that to 1024, is taken for a new number: its ping is counted again, and the numbers
after it are taken for old ones until they catch up (`LaterLine`). `CountsExact` and `NewSequenceReset` speak of the lines before such a one.

Other things the models made plain, which the properties are worded around:
the README says the pings of a period and a port share an id (README.md:38), while a ping may be stamped in a new period under the old
id, as `OnlyLastStrays` allows; its control packet, with the "zero expected count" when it is missing, is not in the code: the target is
computed from the numbers. The exit of `clientsession.cc:206-209` cannot be taken, as `sendMessage` returns the length it was given. With `-s 5000,` the
option `-n` is ignored, as `SinglePort` has it, and the interface walk may follow a null pointer (`FollowsNull`). The agent goes on after SIGINT if it came during a
request, because a bare `except` catches its exit (`AfterExit`); it ends with its children alive on an answer it cannot read (`Update`); it waits for ever for a child that was between two commands when `ps` looked (`Converges`).

**Conditions of `LossCharged`.** Bursts of at most `Window - 2`; ids that sort in the order of their periods
(`Ascending`); a ping from each port in every second and a keepalive that outlasts a burst; a copy within the second of its ping;
a network that keeps the order; a list that names each port once; numbers that do not come round within a period (`ShortPeriods` of section 4). Outside the first two, `udping_burst` and `udping_order` show what happens. When a port is
slower than the keepalive, as the agent's `-i 1` and `-k 1` allow, the predecessor is reported before its successor is heard: the loss between them is charged to
neither, and `manager_successor` shows the rest.

**Fairness.** `server` assumes `WF(Step)`, `WF(PassSecond)` and `WF(DeliverAlarm)`: the program runs once it has a packet, time passes, and the kernel delivers the interval
timer's signal (`setIntervalTimer`). Nothing is assumed of packets: they may all stop. `agent` assumes that the agent runs (`WF`), that its sleeps hit a multiple of
ten seconds again and again, and that the controller answers again and again (`SF`); it assumes nothing of the children, which may die or hang at any time. The other runs check safety only.

**Assumed of the server.** A packet, once counted, is dealt with in less than a keepalive (`BusyAssumption`): a report blocked by a full pipe for longer would let the next alarm sweep
under it. The `Longest` wait of `PromiseKept` is tight: with three keepalives and no more, TLC finds a report that is late by the second the packet took.

## 4. What is proved

Every safety property that passes in a run is proved, for all values of the constants.
Each proof about a component rests on one inductive invariant, which TLC also finds true of the instance of its run.

**The session manager** (`ServerSessionsProofs`): `TypeOK`, `SessionsOwned`, `PingsConserved`, `ReportedInTime`, and that the manager
implements `PingLedger`, for every set of sources, ids, addresses and headers, every keepalive and every window. The inductive
invariant is `TypeOK /\ SessionsOwned /\ PingsConserved /\ NoEmptySession /\ SilenceBound`:

- `SessionsOwned` comes first, since every other conjunct needs it: a sweep reads `heap[sessionMap[g]]`.
- `SilenceBound` ties a session's silence to the timer and to the alarm's counter. `ReportedInTime` alone is not
  inductive: a session could be at the limit with the alarm about to skip its sweep.
- `NoEmptySession` makes a live session of the code a pending id of the ledger.

A sweep is treated as a function of any map and heap that own each other (`Owns`), so that the same lemmas
serve the sweep at the end of `receivePing`, over the map with the new session in it, and the alarm's. The
refinement maps `published[g].count` to `reported[g]` and a live session's silence to `quiet[g]`; each action of the manager is one
action of the ledger.

**The server, step by step** (`ServerProofs`): `PointersHold`, `PingsAccounted` and the refinement `PromiseKept`, with the handler between
any two steps. What makes `PointersHold` inductive is `AlarmAway`: a packet is counted before anything is looked up, the first alarm inside
it finds the count and sets it back, and the next is a keepalive away, more than the packet takes (`BusyAssumption`); so no alarm
sweeps while the loop holds a pointer. Between packets the manager's lemmas apply to the alarm unchanged. `SilentFor` bounds a session's silence by the timer and
by what the alarm's counter and the packet in hand still allow (`Quietest`), and `SweptSoFar` says of a sweep half done that the sessions it has passed are within
the keepalive by the clock it read: the two together bound the wait. `CountedOnce` says that a session has counted a ping, but for the one being made. In the refinement
`Record` accepts a ping, `SweepWrite` and the alarm report ids, the clock passes, and every other step is a stutter.

**The client** (`ClientProofs`): all six properties of `client`, for every set of command lines, list of ports, next hops, table of interfaces,
width of the counter and size of a byte.

- `LoopReady` and the types come from what the parts promise: `Lists` is defined range by range, and the lemmas show
  that a list that is not refused holds the ports of its ranges, allowed, no more than allowed, and is empty exactly if there is no range.
- `Numbered` (a session's number is the count of its pings, wrapped), `Identified` (the ids in use differ, and the pings of one are of
  one session) and `Dated` (the pings under a session's id are stamped in the period it was drawn for, but for the last) support `SequenceContinues` and `OnlyLastStrays`.
- `PathsBalanced` is not inductive, since it says nothing of the cursors. `Balanced` is what makes it so: for some round `r` and hop `m`, each session from the cursor on
  has used every hop up to `m` one time more than the `r` times it has used the others, and the sessions before the cursor are one hop ahead.
- `FrameAccepted` needs the frame of the last turn only; the work is in `FrameProofs`.

**Frames** (`FrameProofs`): folding a sum keeps it modulo `WordMod - 1` and ends in one word; the complement of a folded sum
added to the sum folds to all ones; the words of a concatenation are the words of its parts when the first has an even length; bytes of zero after the
summed ones add nothing, which is why a checksum over the header alone is right for a padded ping. Sums, folds and lists are
recursive functions on `Nat`. The library's rule of induction takes an operator as parameter, which
the provers here cannot instantiate, so each such lemma takes the least number at which it would fail (`LeastNumber`, from the
library's fact that a well-founded set has a least element) and refutes it by the number before.

**The agent** (`AgentProofs`): `ChildrenTracked`, `AsConfigured` and `CleanExit` for every set of lists and processes. The invariant adds
where the agent is and for whom it kills (`ControlOK`), that after a SIGINT no bare `except` has caught it only shuts down (`CannotGoOn`), that the search for orphans has only entries of the table to visit (`OrphansVisited`),
that a target `synchronize` has visited has its child (`Synchronizing`), and that `AsConfigured` lasts through the search for orphans until one is found (`Settled`).

**The ping sender** (`PingSenderProofs`): `CountsExact` and `NewSequenceReset` for every ring and slack, of the lines up to the first that strays, one of a ping the
ring has passed or a second answer, and while the pings stay below the limit of the parse (`MaxPings < ParseLimit`, a hypothesis of the theorems). Neither condition is one that ping keeps: section 3 says what
goes wrong beyond each. `Marks` says that the marks of this turn's spaces are
those of the pings printed, and `AtLastPrinted` that `curSeq` is the last one's space; both are claimed while `strays = 0`.

**One session** (`SessionSpanProofs`): `SpanTracked` for every `SeqMod`, `Window` and `MaxSpan` that satisfy the two named assumptions. The invariant
`Ends` says that each number is the shift of the first ping's number by the true position; the lemmas say what `RecordMax`
and `RecordMin` return on shifts of one base.

**Client, network and server together** (`UDPingProofs`): `CountWithinTarget` and `LossCharged`, for any number of ports, next hops, ids,
periods, pings, losses and copies, every window and every width of the counter, and that the server in the composition is the session manager
of `ServerSessions` (`ServerServes`, for every keepalive and burst). Two conditions are stated in the theorems, not assumed by the model:

- `ShortBursts`: `MaxBurst <= Window - 2` and `MaxBurst + 1 <= Keepalive`. With the ping that ends it a run of losses is a step shorter than the window and a
  silence within the keepalive. In the code the window is 10, so runs of up to 8; `udping_burst` shows the next one fail.
- `[]ShortPeriods`: from one ping of an id to another there are at most `SeqMod - Window - MaxBurst` pings of the port, as 2^32 numbers are for any period one can run.
  `AmplyAccounted` replaces it by a condition on the constants, which those of `udping` satisfy: a counter with values for all pings sent, a window and a burst.

Neither property is inductive, and the session manager's invariant does not know what a number means. The argument has four layers:

- *By id.* `live` is the map from ids to sessions without the addresses. `RecordLive`, `CreateLive`, `SweepLive` and `TickLive` say what the manager's own operators
  do to it, whatever addresses `new` returns; ownership (`IInv`) is what makes that possible. `CreateLive` needs the pointer in `sourceMap` to be that of a live session.
- *The wire.* `Ordered`: a ping's number is the count of the pings of its port, wrapped, and the pings of an id follow each other on one port (`ClientOrder`);
  the last ping heard and the losses after it make up what has left the network, and it was of the latest id (`Heard`). It is inductive by itself, and gives `ServerServes`.
- *Awake, Sources.* While there is something left to hear, the latest id of a port has a session, silent for no more seconds than it has lost pings, plus the second in
  progress (`Allowed`), and `sourceMap` holds it. So no sweep takes it, and the next id finds its predecessor. This is where the keepalive has to outlast a burst.
- *Accounts.* A live session's `minSeq` and `maxSeq` are its id's first and last ping heard; its successor is the id that follows, alive, silent no longer than it, and begun within a burst of its last ping
  (`Spans`). So a sweep that frees the successor frees the session too, and looks the successor up in vain only when that one's id sorts first: `LossCharged` needs `Ascending`, `CountWithinTarget` does not.
  What was reported is the distance to the next id's first ping, or to the last ping heard (`Settled`). The arithmetic is in `WrappedDistance`, `MaxMoves`, `MinStays` and
  `TargetOfEnds`: a step forward shorter than the window moves `maxSeq` and leaves `minSeq`, until the counter comes round.

`AccountsClose` reads `LossCharged` off `Settled` when nothing is in flight or alive, and `AccountsBound` the other.

**Assumptions.** The proofs use the named assumptions of the modules, which the code justifies and TLC evaluates: a positive keepalive, a window smaller than half the
counter, headers over the given sets; `Nil`, `Absent` and `Refused` distinct from what they stand apart from; ids as naturals, which stand for their order; a packet done in less than a keepalive (`BusyAssumption`); the client's clock
past its first period since 1970 (`ClockAssumption`: a session that has had no turn is told by a period of 0); arguments that are numbers and lists of them (`StartAssumption`);
one client whose sessions begin in its first second (`ClientAssumption`); a header that fits the buffer and ports that fit a word (`SizeAssumption`: `MAXBUF` is 2000, ports end at 60000); a buffer of standard
output that holds a report (`BufAssumption`).

**Only model-checked.** `EventuallyPrinted` and `Converges`: liveness under fairness is beyond the proof system used here, as is `ENABLED`.
The five failing runs show counterexamples and prove nothing general.

## 5. What is not modelled

- In the server: what `delete` and `printf` do when a handler interrupts them (each is one step here); the bytes of stdio's buffer, which is counted in
  whole reports, while the code's may break off in the middle of a line; the sums of the delays; failure of `new`; memory
  corruption after a write through a dangling pointer whose target holds something other than a session.
- In the client: steps of the wall clock; colliding random ids; how `getopt` and `atoi` read a text; a source port descriptor longer than its buffer.
- In the senders: the round-trip sums; the exports.
- In the agent: an answer that is JSON but lacks only some fields, which is taken for one it cannot read at all; its options, a second SIGINT, one that reaches the children too, and two meshes whose servers want the same port.
- The udping sender adds up lines under one mutex; the Go agent is a draft of the Python one with a fixed controller; each request of the
  controller is one SQL statement, over a schema whose rules are the database's; the pages are callbacks around single requests. Their hazards are listed in `PROJECT.json`.

## 6. Plan

Done: the server from its sessions to its program, the client from its command line to its frames, their composition, the
agent, the ping sender, and the proofs about each of them.

1. `Server` in place of `ServerSessions` in `UDPing`, to charge losses with signals anywhere.
2. The exports of the senders, and the controller's tables under two pages.

The order is that of the harm a mistake does to what the system measures.
