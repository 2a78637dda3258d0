SPECIFICATION FairSpec
CONSTANTS
  Sagas = {"root"}
  NoSaga = "none"
  Parent <- MCParent
  Kinds = {"dashboard"}
  Target = "root"
  Gaps = {1}
  HistorySize = 2
  Period = 2
  MaxEvents = 2
  MaxInFlight = 1
  MaxFaults = 1
PROPERTY
  DashboardCatchesUp
CHECK_DEADLOCK FALSE
