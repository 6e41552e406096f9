\* Two calls of one user, one worker and one place in the queue: the first call is being
\* served or still waiting when the second comes, which waits or finds the queue full.
CONSTANTS
  u1 = u1
  w1 = w1
  Idle = Idle
  NumCalls = 2
  Users <- MCUsers
  Workers <- MCWorkers
  Gaps <- MCGaps
  Capacity = 2
  Rate = 1
  Token = 2
  Limit = 1
  Window = 3
  RedisFaults = TRUE
  PatternsLoaded = TRUE
  QueueMax = 1
  MaxTokens = 2
SPECIFICATION Spec
INVARIANTS TypeOK WindowLimit BurstBound AnswerIsWhole
PROPERTIES EveryCallEnds ImplementsBoundedService
