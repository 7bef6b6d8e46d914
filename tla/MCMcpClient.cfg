SPECIFICATION FairSpec
CONSTANTS
  c1 = c1
  c2 = c2
  Calls = {c1, c2}
  NoLine = NoLine
  Forms = {"result", "malformed", "broken"}
  MaxNoise = 1
INVARIANTS
  OwnAnswer
  GarbledExplained
  AwaitedAnswerKept
PROPERTIES
  CancelledCallAborts
  QueueMoves
CHECK_DEADLOCK FALSE
