SPECIFICATION Spec
CONSTANTS
  Sessions = {s1, s2, s3}
  Targets = {t1}
  Requests <- Cacheable
  MaxRequests = 2
  Nothing = Nothing
SYMMETRY Symmetry
INVARIANTS OneFetchPerTarget
PROPERTIES NeverOlder KeepsProtocol
