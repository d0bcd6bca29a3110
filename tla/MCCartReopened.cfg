\* A checkout event handled after the order that completed its cart.
SPECIFICATION Spec
CONSTANTS
  t1 = t1
  created = created
  updated = updated
  completed = completed
  order1 = order1
  order2 = order2
  Carts = {t1}
  Events = {created, updated, order1}
  EventOf <- MCEventOf
  Slots = {s1}
  Runners = {r1}
  MaxStalled = 1
  MaxFailures = 0
  NoEvent = NoEvent
  NoCart = NoCart
  NoRunner = NoRunner
INVARIANT NoMessageAfterOrder
\* The bounds let the instance come to rest once everything is handled.
CHECK_DEADLOCK FALSE
