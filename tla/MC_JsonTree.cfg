CONSTANTS
  Nodes = {n1, n2, n3, n4}
  Names = {k1}
  NULL = NULL
SPECIFICATION Spec
INVARIANT LinksAgree
INVARIANT NoDangling
PROPERTY ImplementsForest
PROPERTY DeleteEnds
