SPECIFICATION FairSpec
CONSTANTS
  WorkerCount = 3
  MaxDescriptors = 2
INVARIANTS AcceptLoopLives EndsForCause
PROPERTIES NoSessionAfterClose ShutsDown
