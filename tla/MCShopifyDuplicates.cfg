\* A transaction fails after its message was queued.
SPECIFICATION Spec
CONSTANTS
  first = first
  second = second
  Events = {first}
  Rank <- MCRank
  Scenarios <- MCOrders
  Slots = {s1}
  Sends = 1
  MaxAttempts = 2
  MaxStalled = 1
  MaxPosts <- MCPosts
  MaxFailures = 1
  NoEvent = NoEvent
  NoSlot = NoSlot
INVARIANT MessagesOncePerEvent
\* Every job ends: nothing is left to do.
CHECK_DEADLOCK FALSE
