\* What serves shoppers and playground visitors, one part after the other.
SPECIFICATION ServicesSpec
CONSTANTS
  Clicks = {a1, a2}
  MaxSessions = 3
  MaxCodes = 3
  AccountFaults = {"lost", "noEmail", "unrecorded", "unrevoked", "expires"}
  Lines = {l1, l2}
  MaxQuantity = 2
  MaxLines = 2
  MaxCartEdits = 3
  Checkouts <- CheckoutForms
  Orders <- OrderForms
  Retentions <- RetentionForms
  MaxChecks = 2
  MaxOrderLines = 2
  MaxOrderQuantity = 2
  Steps = {a1, a2}
  Attempts = {p1}
  StoreKeys = {k1, k2}
  Margin = 2
  Session = 2
  MaxNow = 3
  Isolates = {a1, a2}
  DemoProducts = {d1}
  MaxOrders = 1
  Looks = {q1}
  CheckoutOpen = TRUE
  MaxVersion = 1
  MaxExamples = 2
SYMMETRY Interchangeable
VIEW PartView
INVARIANTS ServicesTypeOK SessionHasLead PricesAreTold RelayLosesOnly DeniedOnlyLate OrdersApartAlone TicksAreEarned
PROPERTIES LiveSessionKept PassLasts
CHECK_DEADLOCK FALSE
CONSTRAINT OneStepWorkedOn
