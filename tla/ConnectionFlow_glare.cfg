SPECIFICATION FlowSpec
CONSTANTS
  Device = {1, 2}
  AutoOn = {1, 2}
  Known <- MCKnown
  MaxClicks = 1
  MaxTrouble = 0
INVARIANTS SingleInitiator
CHECK_DEADLOCK FALSE
