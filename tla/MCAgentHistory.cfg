\* A reply to an earlier message recorded before the transcript is read.
SPECIFICATION Spec
CONSTANTS
  f1 = f1
  invented = invented
  Facts = {f1}
  Invented = invented
  Deployments <- MCAnthropicOnly
  Tools <- MCTools
  MaxIterations = 2
  HistoryWindow = 2
  Earlier = 1
  HasText = TRUE
  MaxAttempts = 2
  MaxCalls = 2
  MaxReplies = 1
INVARIANT HistoryLeavesOutCurrent
