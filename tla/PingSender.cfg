\* A ring of four entries turned more than twice, every pattern of misses and
\* late answers, one of them astray; the numbers stay below the limit of the
\* parse.
CONSTANTS
  Ring = 4
  Slack = 2
  ParseLimit = 12
  PingMod = 24
  MaxPings = 9
  MaxStrays = 1
SPECIFICATION Spec
INVARIANT CountsExact
PROPERTY NewSequenceReset
\* The pings are bounded.
CHECK_DEADLOCK FALSE
