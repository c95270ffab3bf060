\* Upgrades and wakes under fairness, one part after the other.
SPECIFICATION FairSpec
CONSTANTS
  old = old
  new = new
  repair = repair
  Runners = {old, new, repair}
  Repairers = {repair}
  Last = 2
  Version <- Versions
  MayFail = TRUE
  WakeAttempts = {a1, a2}
  WakeLimit = 2
  MaxDeliveries = 2
INVARIANTS TypeOK OldestFirst RecordedRan DoneMeansRun
PROPERTIES UpgradesComeToEnd PaidComesToOrder
CHECK_DEADLOCK FALSE
