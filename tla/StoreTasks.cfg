SPECIFICATION Spec
CONSTANTS
  Keys <- MCKeys
  KeyOrder <- MCKeyOrder
  Texts = {"device_name"}
  Lo <- MCLo
  Hi <- MCHi
  Default <- MCDefault
  Raw = {0, 1, 2}
  Missing = Missing
  Tasks = {"ui", "net"}
  Tickers = {"ui"}
  Resetters = {}
  Backends = {"nvs"}
  Period = 2
  Delay = 1
  Wrap = 4
  MaxSets = 2
INVARIANT
  PendingNoticed
