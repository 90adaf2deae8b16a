SPECIFICATION FairSpec
CONSTANTS
  Replicas = {r1, r2, r3, r4}
  MultiReplica = FALSE
  NoOwner = NoOwner
  Gone = Gone
INVARIANTS TypeOK OnePoller
PROPERTIES LeaseMoves StartEnds
