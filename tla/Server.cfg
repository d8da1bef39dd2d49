\* Two ids, two pings of each, two addresses; a keepalive of two seconds, in one
\* of which the server may be busy with a packet.
CONSTANTS
  SeqMod = 32
  Window = 10
  Ip = {1}
  Host = {"h1"}
  Names <- MCNames
  Port = {1}
  Guid = {1, 2}
  StartTime = {1}
  Addr = {a1, a2}
  Ping <- MCPing
  Keepalive = 2
  MaxPings = 2
  Nil = Nil
  Absent = Absent
  Null = Null
  Garbage = Garbage
  BufReports = 2
  CommandLines <- MCCommandLines
  MaxBusy = 1
SPECIFICATION ServerSpec
INVARIANTS
  PointersHold
  PingsAccounted
PROPERTIES
  PromiseKept
  EventuallyPrinted
\* The server may exit before it reads its first packet.
CHECK_DEADLOCK FALSE
