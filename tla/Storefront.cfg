CONSTANTS
  Owners = {o1, o2}
  Companies = {d1, d2}
  Items = {i1}
  Calls = {c1, c2}
  None = None
  idShopOwner <- OneOwner
  MAX_ITEMS_PER_CALL = 1
  o1 = o1
  o2 = o2
  d1 = d1
  d2 = d2
  i1 = i1
  c1 = c1
  c2 = c2

SPECIFICATION Spec
SYMMETRY Symmetry
INVARIANT TypeOK
INVARIANT ClosedDarkUnlessLate
PROPERTY ClosedOnce
PROPERTY OnlyOwnFlags
PROPERTY ImplementsShowcase
