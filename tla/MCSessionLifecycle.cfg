SPECIFICATION FairSpec
CONSTANTS
  Sessions = {"s1", "s2"}
  Prompted = {"s1"}
  Modes = {"default", "accept"}
  Servers = {"mcp", "broken"}
  MaxInbox = 1
INVARIANTS SettledFirst BindingsSound ShutdownComplete
PROPERTIES RulesHonoured DispatchMoves
