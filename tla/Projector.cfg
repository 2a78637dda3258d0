SPECIFICATION FairSpec
CONSTANTS
    w1 = w1
    w2 = w2
    Workers <- MCWorkers
    Partitions <- MCPartitions
    Log <- MCLog
    Sagas <- MCSagas
    SagaOf <- MCSagaOf
    NoSaga = "nosaga"
    HintOf <- MCHintOf
    NoWorker = NoWorker
    MaxFaults = 2
\* Everything has been consumed.
CHECK_DEADLOCK FALSE
INVARIANTS
    OneRowPerEvent
    CompletedIsLogged
    CountCoversLog
PROPERTIES
    ImplementsReadModel
    RegressNeedsRace
    EventsAreProjected
