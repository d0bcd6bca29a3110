\* A failed enqueue or a crash after the commit.
SPECIFICATION Spec
CONSTANTS
  m1 = m1
  m2 = m2
  m3 = m3
  s1 = s1
  n1 = n1
  n2 = n2
  c1 = c1
  c2 = c2
  w1 = w1
  w2 = w2
  Msgs = {m1, m2, m3}
  Statuses = {s1}
  Contacts = {c1, c2}
  Numbers = {n1, n2}
  Channels = {n1}
  FromOf <- MCFrom
  TsOf <- MCTs
  Payloads <- MCPayloadsWithUnknown
  Handlers = {h1}
  Workers = {w1}
  Workflows <- MCNoWorkflow
  MaxAttempts = 2
  MaxStalled = 1
  MaxPosts = 1
  MaxCrashes = 1
  MaxHuman = 0
  NoMsg = NoMsg
  NoWorker = NoWorker
INVARIANT CommittedRepliesAreQueued
\* The bounds let the instance come to rest once everything is handled.
CHECK_DEADLOCK FALSE
