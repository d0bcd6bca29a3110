\* A reply and a recovery template: errors, crashes, stalls, a moving window.
SPECIFICATION FairSpec
CONSTANTS
  reply = reply
  recovery = recovery
  Jobs = {reply, recovery}
  Senders = {s1, s2}
  Window = 1
  MaxStalled = 1
  MaxClock = 2
  MaxFailures = 1
  KindOf <- MCKindOf
  FindsContact = {reply, recovery}
  InTranscript = {reply}
  NoJob = NoJob
  NoSender = NoSender
INVARIANTS
  TypeOK
  DeliveriesAreBounded
  NeverOverbilled
  CompletedIsAccounted
PROPERTIES
  WindowIsSound
  JobsEnd
\* Every job ends and nothing is left to do.
CHECK_DEADLOCK FALSE
