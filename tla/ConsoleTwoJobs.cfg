SPECIFICATION Spec
CONSTANTS
  NoJob = NoJob
  NoRequest = NoRequest
  Jobs = {j1, j2}
  RequestIds = {q1, q2}
  Payloads = {p1}
  Gpus = {g1}
  GpusOf <- MCGpusOf
  Clients = {}
  Monitor = monitor
  MaxCrashes = 1
CHECK_DEADLOCK FALSE
INVARIANTS OneLaunchPerRequest SharedOnlyAfterFalseEnd
