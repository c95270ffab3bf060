\* Fair requests, two titles, a Commerce that may refuse, a demonstration page.
SPECIFICATION FairSpec
CONSTANTS
  r1 = r1
  r2 = r2
  p1 = p1
  p2 = p2
  NoProduct = NoProduct
  Seed = p2
  Requests = {r1, r2}
  Products = {p1}
  Actions = {"publish", "unpublish"}
  Faults = {"refused"}
  MaxTitle = 2
  NameWrites = 1
INVARIANTS TypeOK NewestTitle FailedChangeKeepsSale
PROPERTY ExposureEnds
