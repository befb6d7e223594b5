SPECIFICATION FairSpec
CONSTANTS
  Sessions = {s1, s2}
  Targets = {t1}
  Requests <- Cacheable
  MaxRequests = 1
  Nothing = Nothing
PROPERTIES ColdMissesCollapse
