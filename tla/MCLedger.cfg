SPECIFICATION LedgerSpec
CONSTANTS
  j1 = j1  j2 = j2  j3 = j3
  q1 = q1  q2 = q2
  wide = wide  narrow = narrow  cpu = cpu
  g1 = g1  g2 = g2
  NoJob = NoJob
  NoRequest = NoRequest
  Jobs = {j1, j2, j3}
  RequestIds = {q1, q2}
  Payloads = {wide, narrow, cpu}
  Gpus = {g1, g2}
  GpusOf <- MCGpusOf
INVARIANTS LockDiscipline EndIsNotified
PROPERTIES HistoryIsKept LeaseSpec
