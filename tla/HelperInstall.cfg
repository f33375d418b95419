SPECIFICATION Spec
CONSTANTS
  t1 = t1
  t2 = t2
  t3 = t3
  old = old
  new = new
  Threads = {t1, t2, t3}
  Versions = {old, new}
  VersionOf <- MCVersionOf
  NoHelper = NoHelper
  Part = Part
INVARIANTS HelperIsWhole RunsItsOwn
