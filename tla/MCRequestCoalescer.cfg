SPECIFICATION FairSpec
CONSTANTS
  Callers = {c1, c2, c3, c4}
  Keys = {k1, k2}
  NoKey = NoKey
INVARIANTS OneLeader OneCallback OwnFlight
PROPERTY WaiterAnswered
