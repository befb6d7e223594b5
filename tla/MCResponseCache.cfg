SPECIFICATION Spec
CONSTANTS
  Keys = {k1, k2, k3}
  Responses = {r1, r2}
  Capacity = 2
  Ttl = 2
  MaxTime = 4
  MaxUses = 5
INVARIANTS ListMatchesEntries WithinCapacity HitsAreFresh
PROPERTIES EvictsLeastRecent KeepsContract
