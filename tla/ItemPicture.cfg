\* Every _id may be spent on adds that failed: then nothing more is added.
CONSTANTS
  Companies = {d1, d2, d3}
  Items = {i1, i2}
  Calls = {c1, c2, c3}
  None = None

SPECIFICATION Spec
SYMMETRY Symmetry
INVARIANT TypeOK
INVARIANT PictureKept
INVARIANT PublicIsCommitted
INVARIANT InPlaceUnlessCrossed

CHECK_DEADLOCK FALSE
