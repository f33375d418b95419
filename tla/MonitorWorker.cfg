SPECIFICATION FairSpec
CONSTANTS
  Threads = {t1, t2, t3}
  NoThread = NoThread
  MayRaise = TRUE
CHECK_DEADLOCK FALSE
INVARIANTS OnlyLateIsExtra
PROPERTIES KeepsWatching StopIsObeyed
