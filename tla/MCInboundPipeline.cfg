\* Two deliveries of a POST of two messages of one contact: double runs, evictions, a human agent.
SPECIFICATION Spec
CONSTANTS
  m1 = m1
  m2 = m2
  m3 = m3
  s1 = s1
  n1 = n1
  n2 = n2
  c1 = c1
  c2 = c2
  w1 = w1
  w2 = w2
  Msgs = {m1, m2, m3}
  Statuses = {s1}
  Contacts = {c1, c2}
  Numbers = {n1, n2}
  Channels = {n1}
  FromOf <- MCFrom
  TsOf <- MCTs
  Payloads <- MCPayloadsWithUnknown
  Handlers = {h1}
  Workers = {w1, w2}
  Workflows <- MCWorkflows
  MaxAttempts = 1
  MaxStalled = 0
  MaxPosts = 2
  MaxCrashes = 0
  MaxHuman = 1
  NoMsg = NoMsg
  NoWorker = NoWorker
SYMMETRY MCSymmetry
INVARIANTS
  TypeOK
  EffectsAtMostOnce
  CompletedIsCommitted
  OneOpenConversation
  HumanOwnedIsSilent
  RepliesOnceInOrder
PROPERTY ImplementsLog
\* The bounds let the instance come to rest once everything is handled.
CHECK_DEADLOCK FALSE
