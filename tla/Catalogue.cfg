CONSTANTS
  Owners = {o1, o2}
  Companies = {d1, d2}
  Categories = {k1, k2}
  Items = {i1}
  Calls = {c1, c2}
  None = None
  o1 = o1
  o2 = o2
  d1 = d1
  d2 = d2
  k1 = k1
  k2 = k2
  i1 = i1
  c1 = c1
  c2 = c2

SPECIFICATION Spec
SYMMETRY Symmetry
INVARIANT TypeOK
INVARIANT CatalogueInv
INVARIANT CategoryIntegrity
PROPERTY TransferIntegrity
PROPERTY ImplementsFiling
