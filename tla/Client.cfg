\* Two ports and two next hops (the sizes at which a shared MAC cursor would
\* pair each port with one hop for ever), periods of two seconds from the
\* middle of one, seven pings and three periods, a counter that wraps within a
\* session; command lines of every kind the checks tell apart; frames of the
\* header alone, of one byte more and of two, the last too long for the link.
CONSTANTS
  Guid = {g1, g2, g3, g4, g5, g6}
  SeqMod = 3
  FirstSecond = 5
  LastSecond = 8
  MaxSends = 7
  CommandLines <- MCCommandLines
  Interfaces <- MCInterfaces
  IpWords <- MCIpWords
  AddrWords <- MCAddrWords
  ByteMod = 8
  MinPort = 3
  MaxPort = 8
  MaxSockets = 3
  MaxBuf = 9
  MaxDstPort = 64
  Mtu = 35
  Absent = Absent
  Refused = Refused
  NoFrame = NoFrame
SPECIFICATION Spec
SYMMETRY Ids
INVARIANTS
  TypeOK
  PathsBalanced
  SequenceContinues
  OnlyLastStrays
  LoopReady
  FrameAccepted
\* The client may exit or crash, and the clock and the sends are bounded.
CHECK_DEADLOCK FALSE
