SPECIFICATION Spec
CONSTANTS
    w1 = w1
    w2 = w2
    Workers <- MCWorkers
    Partitions <- MCPartitions
    Log <- MCLog
    Sagas <- MCSagas
    SagaOf <- MCSagaOf
    NoSaga = "nosaga"
    HintOf <- MCHintOf
    NoWorker = NoWorker
    MaxFaults = 1
INVARIANT
    FailedBatchIsRetried
