SPECIFICATION FairSpec
CONSTANTS
  Sessions = {s1, s2, s3}
  Targets = {t1, t2}
  Requests <- AllKinds
  MaxRequests = 1
  Nothing = Nothing
INVARIANTS OwnAnswer CacheIsShareable OwedOnce
PROPERTIES RequestAnswered
