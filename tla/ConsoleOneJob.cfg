SPECIFICATION FairSpec
CONSTANTS
  NoJob = NoJob
  NoRequest = NoRequest
  Jobs = {j1}
  RequestIds = {q1}
  Payloads = {p1}
  Gpus = {g1}
  GpusOf <- MCGpusOf
  Clients = {c1, c2}
  Monitor = monitor
  MaxCrashes = 1
CHECK_DEADLOCK FALSE
INVARIANTS ConsoleTypeOK VerdictIsTrue KillsAreAsked
PROPERTIES RemoteContract EndIsFinal OnlyLaunchForgetsCancel EndIsSettled CancelComesTrue
