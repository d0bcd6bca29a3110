\* Two events of one order, product or shop: deliveries, errors, stalls, double runs.
SPECIFICATION FairSpec
CONSTANTS
  first = first
  second = second
  Events = {first, second}
  Rank <- MCRank
  Scenarios <- MCScenarios
  Slots = {s1, s2}
  Sends = 1
  MaxAttempts = 2
  MaxStalled = 0
  MaxPosts <- MCPosts
  MaxFailures = 1
  NoEvent = NoEvent
  NoSlot = NoSlot
INVARIANTS
  TypeOK
  RecordedRunsAreQueued
  QueuedMessagesAreBounded
  RowIsLatestInOrder
PROPERTY EventsEnd
\* Every job ends: nothing is left to do.
CHECK_DEADLOCK FALSE
