SPECIFICATION Spec
CONSTANTS
  Nobody = Nobody
  Requests = {r1, r2}
  People = {ann, bob}
  Roles = {0, 1}
  MaxMoment = 2
  MaxProposals = 2
  Kinds = {"schedule", "scheduler"}
  Faults = {}
SYMMETRY SameKind
INVARIANT GrantNamesScheduler
CHECK_DEADLOCK FALSE
