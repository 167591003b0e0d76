CONSTANTS
  Names <- MCNames
  PrimaryOf <- MCPrimaryOf
  Below <- MCBelow
  Remote = {"b"}
  Queries = {"short", "long"}
  Starts <- InOrder
  Procs = {1, 2}
  Cached = 1
  MaxRequests = 3
  MaxFlushes = 1
  MaxFaults = 1
  None = None
SPECIFICATION StatusSpec
INVARIANTS IndexIsTrue NoCircularWait
CHECK_DEADLOCK FALSE
