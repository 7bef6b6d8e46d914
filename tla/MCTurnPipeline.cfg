SPECIFICATION FairSpec
CONSTANTS
  a = a
  b = b
  f = f
  NoCall = NoCall
  Calls = {a, b, f}
  Actions = {f}
  MaxRounds = 2
  MaxCallsPerRound = 2
  MaxCallsPerTurn = 2
  MaxItems = 2
  MaxLag = 2
INVARIANTS
  SequenceUnbroken
  LeaseSettled
  ResponseAgrees
  HistoryPaired
  OneExecutionAfterCancel
PROPERTIES
  KeepsContract
  CancelledTurnAnswered
CHECK_DEADLOCK FALSE
