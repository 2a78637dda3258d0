SPECIFICATION FairSpec

CONSTANTS
    Messages <- MCMessages
    RouteOf <- MCRouteOf
    MaxRetries = 1
    MaxRejections = 1

\* Every message has ended and the runner is stopped.
CHECK_DEADLOCK FALSE

INVARIANTS
    RetryBudget
    HookAfterBudget
PROPERTIES
    ImplementsErrorFlow
    MessagesEnd
