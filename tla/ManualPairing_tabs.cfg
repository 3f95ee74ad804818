SPECIFICATION FairPairing
CONSTANTS
  Inviting = {i1, i2}
  Joining = {j1, j2}
  OpenTab = {i1, j1}
  MaxCarries = 2
  MaxGiveUps = 1
INVARIANTS PairingTypeOK AnswerIsLive HandedIsHandled
PROPERTIES PairingCompletes
CHECK_DEADLOCK FALSE
