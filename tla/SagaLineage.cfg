SPECIFICATION Spec
CONSTANTS
    MaxSagas = 3
    MaxContexts = 3
    GivenKeys = {k, l}
    NoKey = NoKey
INVARIANTS
    RootIsTrue
    AncestryIsTrue
    StartKeySticks
CHECK_DEADLOCK FALSE
