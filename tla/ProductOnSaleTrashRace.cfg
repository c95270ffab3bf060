\* Nothing fails: a trash that found its page already in the trash.
SPECIFICATION Spec
CONSTANTS
  r1 = r1
  r2 = r2
  p1 = p1
  p2 = p2
  NoProduct = NoProduct
  Seed = NoProduct
  Requests = {r1, r2}
  Products = {p1}
  Actions = {"publish", "trash"}
  Faults = {}
  MaxTitle = 1
  NameWrites = 1
SYMMETRY RequestSymmetry
INVARIANT NeverLeftBuyable
