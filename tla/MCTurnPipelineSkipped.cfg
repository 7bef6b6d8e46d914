SPECIFICATION Spec
CONSTANTS
  a = a
  b = b
  f = f
  NoCall = NoCall
  Calls = {a, b, f}
  Actions = {f}
  MaxRounds = 2
  MaxCallsPerRound = 2
  MaxCallsPerTurn = 2
  MaxItems = 3
  MaxLag = 2
INVARIANTS
  SkippedCallsRecorded
CHECK_DEADLOCK FALSE
