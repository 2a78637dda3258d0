SPECIFICATION FairSpec
CONSTANTS
  Lines = {0, 1, 3}
  MaxFaults = 1
INVARIANTS
  CompletionCoversLines
  RestShowsOutcome
PROPERTIES
  FinalIsLast
  FlowsEnd
CHECK_DEADLOCK FALSE
