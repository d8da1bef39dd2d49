\* The ring of PingSender.cfg, with pings past the limit of the parse.
CONSTANTS
  Ring = 4
  Slack = 2
  ParseLimit = 8
  PingMod = 16
  MaxPings = 10
  MaxStrays = 0
SPECIFICATION Spec
PROPERTY NewSequenceReset
CHECK_DEADLOCK FALSE
