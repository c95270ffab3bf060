SPECIFICATION Spec
CONSTANTS
  Nobody = Nobody
  Requests = {r1, r2, r3}
  People = {ann, bob}
  Roles = {0, 1}
  MaxMoment = 1
  MaxProposals = 2
  Kinds = {"schedule", "scheduler", "trash"}
  Faults = {"unreadable", "dies"}
SYMMETRY SameKind
INVARIANTS TypeOK GrantNamesScheduler GrantWeakest
