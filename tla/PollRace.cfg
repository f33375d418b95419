SPECIFICATION Spec
CONSTANTS
  Helpers = {h1, h2}
CHECK_DEADLOCK FALSE
INVARIANTS PollFindsSuccess
