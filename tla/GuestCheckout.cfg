SPECIFICATION Spec
CONSTANTS
  t1 = t1
  t2 = t2
  l1 = l1
  l2 = l2
  Tabs = {t1}
  Lines = {l1, l2}
  MaxQuantity = 2
  MaxLines = 2
  MaxCapabilities = 2
  MaxAttempts = 3
  Faults = {"lost"}
SYMMETRY TabAndLineSymmetry
INVARIANTS AttemptRecoverable AsksCurrent
PROPERTIES ClearsOnceWhatItRead NewIntentKept
