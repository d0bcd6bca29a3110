\* Checkout events, an order and the recovery job of one cart, interleaved.
SPECIFICATION FairSpec
CONSTANTS
  t1 = t1
  created = created
  updated = updated
  completed = completed
  order1 = order1
  order2 = order2
  Carts = {t1}
  Events = {created, updated, order1}
  EventOf <- MCEventOf
  Slots = {s1, s2}
  Runners = {r1, r2}
  MaxStalled = 1
  MaxFailures = 1
  NoEvent = NoEvent
  NoCart = NoCart
  NoRunner = NoRunner
INVARIANTS
  TypeOK
  ScheduledHasJob
  OneMessagePerCart
  MessagesAreCommitted
  RecoveredWasSent
PROPERTY JobsEnd
\* The bounds let the instance come to rest once everything is handled.
CHECK_DEADLOCK FALSE
