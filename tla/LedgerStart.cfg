SPECIFICATION FairSpec
CONSTANTS
  p1 = p1
  p2 = p2
  Starters = {p1, p2}
  Found <- MCFound
  NoId = NoId
INVARIANTS ServingIsWhole ForeignIsUntouched
PROPERTIES IdIsStable AllOpen
