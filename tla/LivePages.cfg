\* The page and another browser; two updates of a saga.
SPECIFICATION FairSpec
CONSTANTS
  Clients = {"viewer", "other"}
  Viewer = "viewer"
  Sagas = {"s1"}
  MaxCommands = 1
  MaxSeen = 1
  MaxUpdates = 2
  MaxFaults = 2
INVARIANTS
  SubscriptionsMatch
  PageFollows
PROPERTY
  Reconnects
\* The database may have no more updates, the page nothing to do.
CHECK_DEADLOCK FALSE
