SPECIFICATION FairServiceSpec
CONSTANTS
  Participants <- MCParticipants
  Topics = {"t1"}
  MaxAttempts = 2
  AutoCreate = TRUE
INVARIANTS
  OneConsumerRuns
  EveryHandlerIsRouted
PROPERTY
  StartAndStopEnd
CHECK_DEADLOCK FALSE
