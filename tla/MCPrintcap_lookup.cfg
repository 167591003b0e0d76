CONSTANTS
  Contents <- PrintcapContents
  Setups = {3, 4, 5}
  MaxSetups = 2
  ThisHost = {1}
  None = None
SPECIFICATION PrintcapSpec
INVARIANTS SetupIsMeant
CHECK_DEADLOCK FALSE
