CONSTANTS
  Jobs = {j1}
  MaxAttempts = 2
  DataFiles = 2
  Orders = {"control", "data", "block", "pair"}
  MaxNumber = 2
  DiscardLarge = TRUE
  QuickRetry = FALSE
  MaxFaults = 1
  Nobody = Nobody
SPECIFICATION TransferSpec
INVARIANTS QueuedIsWhole TicketIsMine KeptIsAnnounced AckedIsKept
PROPERTY TransferEnds
CHECK_DEADLOCK FALSE
