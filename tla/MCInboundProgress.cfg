\* Two slots contend for the locks of one contact: errors and retries, stalls, a crash.
SPECIFICATION FairSpec
CONSTANTS
  m1 = m1
  m2 = m2
  m3 = m3
  s1 = s1
  n1 = n1
  n2 = n2
  c1 = c1
  c2 = c2
  w1 = w1
  w2 = w2
  Msgs = {m1, m2}
  Statuses = {s1}
  Contacts = {c1}
  Numbers = {n1, n2}
  Channels = {n1}
  FromOf <- MCFrom
  TsOf <- MCTs
  Payloads <- MCPayloadsWithStatus
  Handlers = {h1}
  Workers = {w1, w2}
  Workflows <- MCHandoffWorkflow
  MaxAttempts = 2
  MaxStalled = 1
  MaxPosts = 1
  MaxCrashes = 1
  MaxHuman = 0
  NoMsg = NoMsg
  NoWorker = NoWorker
PROPERTY AckedIsHandled
\* The bounds let the instance come to rest once everything is handled.
CHECK_DEADLOCK FALSE
