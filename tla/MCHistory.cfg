SPECIFICATION Spec
CONSTANTS
  UserTexts <- MCUserTexts
  Texts <- MCTexts
  c = c
  d = d
  Ids = {c, d}
  Names = {"read"}
  Words = {c, d, "a", "b", "read", "legacy", ""}
  Files <- MCFiles
  MaxMessages = 2
  MaxPromptChars = 9
  Threshold = 12
  Emergency = 8
  PreserveTurns = 1
  MaxRounds = 2
  MaxCalls = 2
  MaxLog = 7
SYMMETRY Symmetry
INVARIANTS PromptFaithful WindowRight
PROPERTIES CompactionRight
CHECK_DEADLOCK FALSE
