CONSTANTS
  Owners = {o1}
  Companies = {d1}
  Categories = {k1}
  Items = {i1}
  Calls = {c1, c2}
  None = None
  o1 = o1
  d1 = d1
  k1 = k1
  i1 = i1
  c1 = c1
  c2 = c2

SPECIFICATION Spec
SYMMETRY Symmetry
PROPERTY CompanyStampedOnce
