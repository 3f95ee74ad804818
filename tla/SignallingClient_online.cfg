SPECIFICATION FairClient
CONSTANTS
  Url = {home, other, bad, none}
  BadUrl = {bad}
  DefaultUrl = home
  Socket = {s1, s2, s3}
  NoSocket = NoSocket
  NoUrl = none
  MaxEdits = 3
  MaxTroubles = 2
INVARIANTS ClientTypeOK OneSocket StateIsTrue ListIsOfSocket RegistrationIsCurrent
PROPERTIES ComesBack
CHECK_DEADLOCK FALSE
