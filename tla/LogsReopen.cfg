CONSTANTS
  Handler = {h1}
  Managed = {"error"}
  MaxOpens = 7
  MaxFiles = 3
SPECIFICATION LogsSpec
INVARIANTS
  HandlerLinesKept
