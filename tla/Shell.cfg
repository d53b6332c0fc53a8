SPECIFICATION Spec
CONSTANTS
  Apps <- MCApps
  NoApp = NoApp
  MaxLive = 3
  NeedsBridge = {"agent"}
  Fragile = {"snake"}
  Opens <- MCOpens
  Modals = {"settings", "wifi"}
  Leavers = {"settings"}
  MaxNow = 5
INVARIANTS
  TypeOK
  OneInFront
  SomethingShows
  ComesBackToFront
PROPERTY
  ImplementsAppLife
