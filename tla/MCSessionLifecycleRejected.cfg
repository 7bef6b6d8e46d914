SPECIFICATION Spec
CONSTANTS
  Sessions = {"s1", "s2"}
  Prompted = {"s1"}
  Modes = {"default", "accept", "bypass"}
  Servers = {"mcp", "broken"}
  MaxInbox = 1
PROPERTIES RejectRouted
