\* The instance of UDPing.cfg with as many pings lost in a row as the window
\* less one.
CONSTANTS
  NumPorts = 1
  NumMacs = 1
  Interval = 2
  Ip = {1}
  Host = {"client"}
  Names <- MCNames
  Port = {1}
  StartTime = {2}
  Ping <- MCPing
  MaxPings = 6
  Guid = {1, 2, 3}
  SeqMod = 12
  FirstSecond = 2
  LastSecond = 9
  MaxSends = 6
  Window = 4
  Addr = {a1, a2, a3}
  Keepalive = 3
  Nil = Nil
  MaxBurst = 3
  MaxCopies = 0
SPECIFICATION UDPingSpec
SYMMETRY Addresses
INVARIANT CountWithinTarget
\* The bounds on ids and sends stop the client.
CHECK_DEADLOCK FALSE
