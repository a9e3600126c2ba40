CONSTANTS
  dev = dev
  test = test
  Databases = {dev, test}
  Environments <- EitherHalf

SPECIFICATION Spec
INVARIANT ServesWhole
PROPERTY MissingBeforeShape
PROPERTY KeepsLiveData
PROPERTY ComesUp
