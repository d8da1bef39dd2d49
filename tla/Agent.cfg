\* A client, its server and a ping, at most three children at a time.
CONSTANTS
  Lists <- MCLists
  Pid = {1, 2, 3}
  Nil = Nil
SPECIFICATION Spec
INVARIANTS
  ChildrenTracked
  AsConfigured
  CleanExit
PROPERTY Converges
