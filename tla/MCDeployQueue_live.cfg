SPECIFICATION FairSpec
CONSTANTS
  Jobs = {1, 2}
  Users = {u1}
  UserOf <- MCUserOf
  Workers = {w1}
  NoNode = NoNode
  NoJob = NoJob
  MaxQueued = 1
  MaxAttempts = 2
  MaxClaims = 6
  MaxMishaps = 4
  MaxBots = 1
  Enqueuers = 2
PROPERTIES EveryJobSettles
