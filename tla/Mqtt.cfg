SPECIFICATION FairSpec
CONSTANTS
  Positions = {1, 2}
  KeptEvents = 1
  MaxVersions = 3
  MaxLosses = 2
  SlowReconnect = TRUE
INVARIANTS
  EventsInOrder
  HealthFollowsLink
  OfflineUnlessUnsent
  ObsoleteDeletedUnlessLost
PROPERTIES
  OnlineIsComplete
  ConnectedIsServed
