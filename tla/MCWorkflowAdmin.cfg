\* A list and a builder with what they loaded, and two slots running events.
SPECIFICATION Spec
CONSTANTS
  Initial <- MCInitial
  MaxRows = 2
  MaxActions = 2
  Events = {e1, e2}
  EventType <- MCEventType
  Workers = {w1, w2}
  MaxAttempts = 2
  MaxStalled = 0
  MaxFaults = 1
  MaxEdits = 2
  None = None
  Null = Null
SYMMETRY MCSymmetry
INVARIANTS
  TypeOK
  BuilderKeepsWorkflows
  RunCountMatchesLog
  LostAttemptsArePaid
PROPERTY DeletedStaysDeleted
