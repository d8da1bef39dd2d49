\* One port, periods of two seconds, six pings under up to three ids, in every
\* order of the ids.  Up to two pings in a row are lost: with the ping that
\* arrives next that is a step of three, the longest below the window of four,
\* and a silence of three seconds, the longest within the keepalive.  A period
\* of two pings may be lost whole.  Six pings are too few to wrap a counter of
\* twelve values around a window of four.
CONSTANTS
  NumPorts = 1
  NumMacs = 1
  Interval = 2
  Ip = {1}
  Host = {"client"}
  Names <- MCNames
  Port = {1}
  StartTime = {2}
  Ping <- MCPing
  MaxPings = 7
  Guid = {1, 2, 3}
  SeqMod = 12
  FirstSecond = 2
  LastSecond = 9
  MaxSends = 6
  Window = 4
  Addr = {a1, a2, a3}
  Keepalive = 3
  Nil = Nil
  MaxBurst = 2
  MaxCopies = 1
SPECIFICATION UDPingSpec
SYMMETRY Addresses
INVARIANTS
  CountWithinTarget
  LossCharged
\* The bounds on ids and sends stop the client.
CHECK_DEADLOCK FALSE
