SPECIFICATION FairFlow
CONSTANTS
  Device = {1, 2}
  AutoOn = {1, 2}
  Known <- MCKnown
  MaxClicks = 0
  MaxTrouble = 3
INVARIANTS OneExchange AutoAcceptIsSilent
PROPERTIES AutoConnects
CHECK_DEADLOCK FALSE
