\* Three ids, two pings of each, three addresses (one per session that can be
\* alive at once, so that a freed one is reused), keepalive of one second.
CONSTANTS
  SeqMod = 32
  Window = 10
  Ip = {1, 2}
  Host = {"h1", "h2"}
  Names <- MCNames
  Port = {1}
  Guid = {1, 2, 3}
  StartTime = {1}
  Addr = {a1, a2, a3}
  Ping <- MCPing
  Keepalive = 1
  MaxPings = 2
  Nil = Nil
SPECIFICATION Spec
SYMMETRY Addresses
INVARIANTS
  TypeOK
  SessionsOwned
  PingsConserved
  ReportedInTime
PROPERTIES
  LedgerSpec
