SPECIFICATION Spec
CONSTANTS
  Jobs = {1, 2, 3}
  Users = {u1}
  UserOf <- MCUserOf
  Workers = {w1, w2}
  NoNode = NoNode
  NoJob = NoJob
  MaxQueued = 1
  MaxAttempts = 2
  MaxClaims = 2
  MaxMishaps = 2
  MaxBots = 1
  Enqueuers = 2
INVARIANTS TypeOK OneHolder NodeWithinCapacity RunningHasContainer OpenKeepsToken QueueOvershoot SettledDropsToken FailedOnlyExhausted
PROPERTIES SettledIsFinal ImplementsJobBoard
SYMMETRY MCWorkerSymmetry
CONSTRAINT MCBounds
