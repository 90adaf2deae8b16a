SPECIFICATION FairSpec
CONSTANTS
  r1 = r1  r2 = r2  r3 = r3  u1 = u1
  Runs = {r1}
  Users = {u1}
  Anonymous = Anonymous
  UserOf <- MCUserOf
  NoRun = NoRun
  Limit = 1
  UserLimit = 1
  MaxAttempts = 2
  Threshold = 2
  Vague = {r1}
  Fragile = {}
PROPERTIES LoopEnds
