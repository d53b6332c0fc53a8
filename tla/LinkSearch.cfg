SPECIFICATION Spec
CONSTANTS
  Slots = {1}
  Codes = {c1}
  MaxFailed = 2
  MaxQueries = 2
  MaxToken = 1
  MaxUpset = 1
PROPERTY
  CallerDecides
CHECK_DEADLOCK FALSE
