SPECIFICATION Spec
CONSTANTS
  Slots = {1, 2}
  Codes = {c1, c2}
  MaxFailed = 2
  MaxQueries = 2
  MaxToken = 2
  MaxUpset = 2
INVARIANTS
  TypeOK
  ReadyAgrees
  SurvivesReboot
  ListedIsLive
PROPERTIES
  PairingSticks
  ComesBack
CHECK_DEADLOCK FALSE
