SPECIFICATION FairFlow
CONSTANTS
  Device = {1, 2}
  AutoOn = {}
  Known <- MCKnown
  MaxClicks = 2
  MaxTrouble = 0
INVARIANTS FlowTypeOK AutoAcceptIsSilent
PROPERTIES WaitingEnds
CHECK_DEADLOCK FALSE
