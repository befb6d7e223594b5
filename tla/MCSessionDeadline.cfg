SPECIFICATION FairSpec
CONSTANTS
  SessionTimeout = 7
  ConnectTimeout = 1
  WriteTimeout = 2
  ReadTimeout = 3
  MaxResolve = 2
  MaxRequests = 2
INVARIANTS WritesInTime HeldBounded
PROPERTIES TimeoutsAreEarned StepsEnd
