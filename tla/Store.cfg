SPECIFICATION Spec
CONSTANTS
  Keys <- MCKeys
  KeyOrder <- MCKeyOrder
  Texts = {"device_name"}
  Lo <- MCLo
  Hi <- MCHi
  Default <- MCDefault
  Raw = {0, 1, 2}
  Missing = Missing
  Tasks = {"ui"}
  Tickers = {"ui"}
  Resetters = {"ui"}
  Backends = {"file", "nvs"}
  Period = 2
  Delay = 1
  Wrap = 4
  MaxSets = 2
INVARIANTS
  TypeOK
  PendingNoticed
  CleanMeansSaved
  CommittedSurvives
PROPERTIES
  Debounced
  WrittenBack
