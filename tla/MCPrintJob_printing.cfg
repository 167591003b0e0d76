CONSTANTS
  Files = 2
  Copies = 2
  Outputs = {"device", "pipe", "bounce", "filter"}
  SendTry = 2
  MaxFaults = 2
SPECIFICATION PrintSpec
INVARIANTS OutputInOrder SuccessIsPrinted 
PROPERTY PrintEnds
CHECK_DEADLOCK FALSE
