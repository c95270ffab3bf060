SPECIFICATION Spec
CONSTANTS
  t1 = t1
  t2 = t2
  l1 = l1
  l2 = l2
  Tabs = {t1}
  Lines = {l1}
  MaxQuantity = 1
  MaxLines = 1
  MaxCapabilities = 1
  MaxAttempts = 1
  Faults = {"unwritable"}
SYMMETRY TabAndLineSymmetry
PROPERTY NewIntentKept
