\* Two overlapping requests of every kind and every fault.
SPECIFICATION Spec
CONSTANTS
  r1 = r1
  r2 = r2
  p1 = p1
  p2 = p2
  NoProduct = NoProduct
  Seed = NoProduct
  Requests = {r1, r2}
  Products = {p1}
  Actions = {"publish", "unpublish", "trash", "permanent"}
  Faults = {"refused", "lost", "unread", "dies", "relink"}
  MaxTitle = 1
  NameWrites = 1
SYMMETRY RequestSymmetry
INVARIANT OffSaleOwed
