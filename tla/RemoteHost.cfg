SPECIFICATION FairSpec
CONSTANTS
  Helpers = {h1, h2}
CHECK_DEADLOCK FALSE
INVARIANTS OneSupervisor CancelReachesChild AnswersAreSound EndsAreOver
PROPERTIES KeepsContract CancelStops
