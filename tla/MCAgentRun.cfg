\* Two attempts of up to two completions; errors, failed statements,
\* the other provider's route at the retry.
SPECIFICATION FairSpec
CONSTANTS
  f1 = f1
  invented = invented
  Facts = {f1}
  Invented = invented
  Deployments <- MCDeployments
  Tools <- MCTools
  MaxIterations = 2
  HistoryWindow = 2
  Earlier = 1
  HasText = TRUE
  MaxAttempts = 2
  MaxCalls = 2
  MaxReplies = 1
INVARIANTS
  TypeOK
  OneRunIsCommitted
  NoAnswerAfterFailedStatement
  UnsupportedClaimsAreFlagged
  TranscriptAnswersEveryCall
PROPERTY RunEnds
\* The job ends and nothing is left to do.
CHECK_DEADLOCK FALSE
