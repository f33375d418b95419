SPECIFICATION Spec
CONSTANTS
  Runs = {r1, r2}
  NoRun = NoRun
  Gpus = {g1, g2}
  Host = {g1}
  MaxFree = 1
  Full = 2
INVARIANTS ForeignIsUnavailable
