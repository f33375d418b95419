SPECIFICATION MCSpec
CONSTANTS
  Clients = {c1, c2}
  Readers = {r1}
  NoClient = NoClient
  Bytes = {Lead, Trail}
  Lead = Lead
  Trail = Trail
  Replaced = Replaced
  MaxLen = 2
  FetchLimit = 1
  LogLimit = 2
  MaxBytes = 2
CHECK_DEADLOCK FALSE
INVARIANTS CopyIsFaithful DestinationIsFaithful FoundIsKept LogContinues
PROPERTIES FetchEnds
