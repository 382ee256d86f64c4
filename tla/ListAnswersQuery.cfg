SPECIFICATION CatalogSpec
CONSTANTS
  Categories = {c1, c2}
  Services = {}
  Labels = {l1, l2}
  Providers = {}
  Stewards = {w1}
  Readers = {r1, r2}
  Unset = Unset
INVARIANTS ListAnswersQuery
CHECK_DEADLOCK FALSE
