----------------------------- MODULE ClientMain -----------------------------
(***************************************************************************)
(* The program udping_client (src/src/client.cc): it checks its options,   *)
(* makes the list of sessions while it is root, becomes nobody, and runs   *)
(* the loop of Client, each turn of which hands a frame (Frame) to sendto  *)
(* (src/src/protocol.cc, src/src/clientsession.cc:180-214).                *)
(***************************************************************************)
EXTENDS ClientStart, Frame

CONSTANTS
  Guid, SeqMod, FirstSecond, LastSecond, MaxSends,   \* of Client
  CommandLines,   \* the command lines the client may be given
  Mtu,            \* bytes of an IP packet the link takes
  NoFrame         \* the last ping was not taken by sendto, or none was sent

ASSUME ClientAssumption ==
  /\ SeqMod \in Nat \ {0} /\ MaxSends \in Nat
  /\ FirstSecond \in Nat /\ LastSecond \in Nat /\ FirstSecond <= LastSecond
  /\ \A line \in CommandLines : CommandLine(line)

\* The clock shows more seconds since 1970 than a measurement period has, 900 at
\* most, so that no period is taken for the 0 of a session that has had no turn.
ASSUME ClockAssumption ==
  \A line \in CommandLines : OptionsAccepted(line) => line.i <= FirstSecond

\* The bytes of the header: stamp, number and size.
HeaderBytes == 6

\* The buffer holds the header, and a port fits its field.
ASSUME SizeAssumption == HeaderBytes <= MaxBuf /\ MaxPort < WordMod

VARIABLES
  opts,         \* the command line
  user,         \* who the process is
  list,         \* the source ports, in the order of the list of sessions
  ifIndex,      \* the interface frames are sent from
  frame,        \* the last frame sendto took
  now, phase, curSession, chosen, sessions, used, sent    \* of Client

start == <<opts, user, list, ifIndex>>
loop == <<now, curSession, chosen, sessions, used, sent>>
vars == <<start, loop, phase, frame>>

Loop == INSTANCE Client WITH
  ports <- list, numMacs <- NumMacs(opts), interval <- opts.i

Running == phase \in {"choose", "send"}

\* The type invariant; in the loop, Client's own.
TypeOK ==
  /\ opts \in CommandLines
  /\ user \in {"root", "other", "nobody"}
  /\ phase \in {"options", "list", "user", "choose", "send", "exited", "crashed"}
  /\ ifIndex \in {0} \cup {entry.index : entry \in Range(Interfaces)}
  /\ frame # NoFrame => frame.message \in Seq(0 .. (ByteMod - 1))
  /\ Running /\ list # <<>> => Loop!TypeOK

Init ==
  /\ opts \in CommandLines
  /\ user \in {"root", "other"}
  /\ list = <<>>
  /\ ifIndex = 0
  /\ frame = NoFrame
  /\ phase = "options"
  /\ now = FirstSecond
  /\ curSession = 1
  /\ chosen = 1
  /\ sessions = <<>>
  /\ used = {}
  /\ sent = <<>>

----------------------------------------------------------------------------
(* Before the loop.                                                        *)

\* The root check, the options and the MAC list.
ReadOptions ==
  /\ phase = "options"
  /\ phase' = IF user = "root" /\ OptionsAccepted(opts) THEN "list" ELSE "exited"
  /\ UNCHANGED <<start, loop, frame>>

\* ClientSessionList's constructor: the interface, then the sessions, each with
\* an id of its own.
MakeList ==
  /\ phase = "list"
  /\ LET found == FoundInterface(opts.l)
         ports == PortList(opts)
     IN  /\ found # 0
         /\ Interfaces[found].addr # Absent
         /\ ports # Refused
         /\ list' = ports
         /\ ifIndex' = Interfaces[found].index
         /\ \E id \in Loop!FirstIds(Len(ports)) :
              /\ sessions' = Loop!NewSessions(id, NumMacs(opts))
              /\ used' = Range(id)
  /\ phase' = "user"
  /\ UNCHANGED <<opts, user, now, curSession, chosen, sent, frame>>

\* The walk of the interfaces comes to one without an address.
FollowsNull ==
  /\ phase = "list"
  /\ FoundInterface(opts.l) # 0
  /\ Interfaces[FoundInterface(opts.l)].addr = Absent
  /\ phase' = "crashed"
  /\ UNCHANGED <<start, loop, frame>>

\* setgid and setuid.
DropRoot ==
  /\ phase = "user"
  /\ user' = "nobody"
  /\ phase' = "choose"
  /\ UNCHANGED <<opts, list, ifIndex, loop, frame>>

\* A name that does not resolve, a system call that fails, no user nobody, ports
\* or an address that are refused: whatever else may happen, the client exits.
GiveUp ==
  /\ phase \in {"list", "user"}
  /\ phase' = "exited"
  /\ UNCHANGED <<start, loop, frame>>

----------------------------------------------------------------------------
(* The loop.                                                               *)

ChooseSession ==
  /\ list # <<>>
  /\ UNCHANGED start
  /\ Loop!ChooseSession
  /\ frame' = NoFrame

\* getNextSession on an empty list reads past its end.
NoSession ==
  /\ phase = "choose"
  /\ list = <<>>
  /\ phase' = "crashed"
  /\ UNCHANGED <<start, loop, frame>>

\* The fields of the header that tell pings apart, stamp, number and size, and
\* the zeros that follow the header in every session's packet.
Header(s, size) == Field(now) \o Field(s.seqNum) \o Field(size)
Message(s, size) == Header(s, size) \o [k \in 1 .. MaxBuf |-> 0]

\* sendPacket: the random size, or the header's if that is more.
Sizes == {IF r < HeaderBytes THEN HeaderBytes ELSE r : r \in 0 .. (opts.m - 1)}

FrameFor(i, size) ==
  BuildFrame(Loop!NextMac(i), list[i], opts.p, Message(sessions[i], size), size,
             HeaderBytes)

\* sendPingPacket: sendto takes the frame, if the link can carry it.
SendPingPacket ==
  /\ UNCHANGED start
  /\ Loop!SendPingPacket
  /\ \E size \in Sizes :
       /\ FrameFor(chosen, size).ipLen <= Mtu
       /\ frame' = FrameFor(chosen, size)

\* sendto fails: an error is printed and the turn ends as any other.
SendFails ==
  /\ UNCHANGED start
  /\ Loop!SendPingPacket
  /\ frame' = NoFrame

\* A second passes.  The clock is followed from the first turn on.
Tick ==
  /\ Running /\ list # <<>>
  /\ UNCHANGED <<start, frame>>
  /\ Loop!Tick

Next ==
  \/ ReadOptions \/ MakeList \/ FollowsNull \/ DropRoot \/ GiveUp
  \/ ChooseSession \/ NoSession \/ SendPingPacket \/ SendFails \/ Tick

Spec == Init /\ [][Next]_vars

----------------------------------------------------------------------------
(* Properties.                                                             *)

\* Every path is probed as often as every other, whatever sendto fails on: see
\* Client (clientsession.cc:114-121, maclist.cc:51-55).
PathsBalanced == Running => Loop!PathsBalanced

\* The numbers of a session are consecutive over all its ids and over failed sends:
\* see Client (clientsession.cc:163-173).
SequenceContinues == Loop!SequenceContinues

\* Any two pings of an id that a third follows are of one period: see Client
\* (clientsession.cc:146-185).
OnlyLastStrays == Loop!OnlyLastStrays

\* A command line that the checks of three files let through finds the loop ready
\* for it: the process has given up root, divides by no zero (Period, Sizes,
\* NextMac), sends from the ports the usage text describes, all of them allowed and
\* no more than allowed, and out of the interface of its address.  One line is let
\* through that should not be: the test "No ports defined" is inside the loop over
\* the ranges, and the loop begins without a session, to crash (NoSession), exactly
\* when -s names no range (client.cc:35-86, clientsession.cc:69-102,
\* ifinfo.cc:44-52).
LoopReady ==
  Running =>
    /\ user = "nobody"
    /\ opts.i > 0 /\ opts.m > 0 /\ NumMacs(opts) > 0
    /\ Range(list) = DescribedPorts(opts)
    /\ Range(list) \subseteq MinPort .. MaxPort
    /\ Len(list) <= MaxSockets
    /\ (list = <<>>) <=> (opts.s.ranges = <<>>)
    /\ \E entry \in Range(Interfaces) : entry.addr = opts.l /\ entry.index = ifIndex

\* The receiver takes every frame that went out, of every size, odd ones included,
\* for what was sent: both checksums hold although the second leaves out the
\* padding, and the length, the size and the port pass the server's own tests
\* (protocol.cc:135-241, serversession.cc:128-133).
FrameAccepted ==
  frame # NoFrame =>
    LET n == Len(frame.message)
    IN  /\ Accepted(frame)
        /\ HeaderBytes <= n /\ n <= MaxBuf
        /\ SubSeq(frame.message, HeaderBytes - 1, HeaderBytes) = Field(n)
        /\ frame.source \in DescribedPorts(opts)
        /\ opts.p < WordMod => frame.dest = opts.p
=============================================================================
