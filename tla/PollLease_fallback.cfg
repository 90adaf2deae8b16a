SPECIFICATION Spec
CONSTANTS
  Replicas = {r1, r2}
  MultiReplica = FALSE
  NoOwner = NoOwner
  Gone = Gone
INVARIANTS OwnerPollsAlone
