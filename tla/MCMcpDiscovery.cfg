SPECIFICATION FairSpec
CONSTANTS
  Forwarded <- Lists
  Sanitized <- Clean
  Reserved = {"mcp-method"}
  Builtins = {"read_file"}
  Attempts = 3
  MaxPages = 3
INVARIANTS
  CallsReachTheirServer
  OmittedForCause
  OneDialect
PROPERTIES
  DiscoveryEnds
CHECK_DEADLOCK FALSE
