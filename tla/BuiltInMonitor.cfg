SPECIFICATION Spec
CONSTANTS
  Sagas = {"root", "child"}
  NoSaga = "none"
  Parent <- MCParent
  Kinds = {"list", "detail"}
  Target = "root"
  Gaps = {0, 1}
  HistorySize = 1
  Period = 1
  MaxEvents = 2
  MaxInFlight = 1
  MaxFaults = 2
INVARIANTS
  GroupStatusIsTrue
  FeedMissesOnlyTheGap
CHECK_DEADLOCK FALSE
