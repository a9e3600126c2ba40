CONSTANTS
  Refreshes = {s1, s2, s3}
  Accesses = {a1, a2, a3, x1}
  Foreign = {x1}
  Calls = {c1, c2}
  None = None

SPECIFICATION Spec
SYMMETRY Symmetry
INVARIANT TypeOK
INVARIANT ClosedMeansOut
INVARIANT SafeResidue
PROPERTY LoggedOutOnlyWhenClosed
PROPERTY OtherTiersUntouched
