\* The store's own services, one after the other.
SPECIFICATION ServicesSpec
CONSTANTS
  MaxCalls = 3
  CommandIds = {1, 2}
  Balances = {b1, b2}
  TransferRows = {t1, t2}
  Locations = {l1}
  Skus = {s1, s2}
  SkuNames = {n1}
  ReferenceKeys = {f1}
  Confirmations = {k1}
  Reservations = {r1, r2}
  CallKinds = {"opening", "adjust", "location", "sku", "confirm", "bound", "transfer", "reserve", "batch", "read"}
  MaxRequests = 4
  StockCommands = {a1, a2}
  Opening = 4
  RecordIds = {i1, i2}
  FieldValues = {v1, v2}
  Writers = {a1, a2}
  MaxRevision = 3
  Storages <- ProofStorages
  Transfers = {1, 2, 3}
  MaxDate = 2
  Limit = 1
  MaxChanges = 1
  Slots = {a1, a2}
  SaleProducts = {p1, p2}
  MaxPuts = 4
  SweepFaults = {"refused", "lost", "unread", "dies"}
  ShipOrders = {o1}
  Mailable = {o1}
  ShipCalls = {a1, a2}
  LabelPage = 2
  MaxLabels = 3
  MaxEdits = 1
  Lines = {l1}
  MaxQuantity = 2
  MaxLines = 1
  Tabs = {t1, t2}
  AgentTabs = {t1}
  ToolCalls = {a1, a2}
  MaxStores = 2
  CartFaults = {"writeFails", "unpriced"}
SYMMETRY Interchangeable
VIEW PartView
CONSTRAINT Answerable
INVARIANTS ServicesTypeOK EachCommandOnce NoWriteLost WalkMissesNothing SweepSaleOwed LabelAndOrderAgree HandsOverReviewed NewestKeepsCart StoreAgrees CallsGoOn
PROPERTY StoreIsAtomic
CHECK_DEADLOCK FALSE
