SPECIFICATION StreamSpec
CONSTANTS
  Answers <- MCAnswers
  OwnIds <- MCOwnIds
  Attempts = 2
  MaxLines = 2
  MaxEvents = 2
  Cap = 1
  MaxPending = 16
  MaxFollowUp = 6
  MaxToolBlock = 6
INVARIANTS
  OneText
  CleanEndComplete
  SplitInvariant
