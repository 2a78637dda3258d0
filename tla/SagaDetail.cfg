SPECIFICATION DetailSpec
CONSTANTS
    History <- MCHistory
    Views = {"a", "b"}
    None = None
    PageSize = 2
    MaxSpan = 10
    Now = 40
    MaxFetches = 3
INVARIANTS
    PagesCoverLog
    TimelineIsWhole
    SpansTile
CHECK_DEADLOCK FALSE
