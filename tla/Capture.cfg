SPECIFICATION Spec
CONSTANTS
  Apps = {"agent", "notes", "meeting", "settings"}
  TalkApps = {"agent", "notes"}
  KindOf <- MCKindOf
  NoApp = NoApp
  Room = 2
  Arm = 3
  MinSpeech = 3
  MaxHold = 6
  Frame = 2
  Wrap = 256
  MaxTurn = 2
INVARIANTS
  TypeOK
  OwnerIsLive
  CeilingInFront
  OneReplyAtATime
PROPERTIES
  OnlyALaunchOrphans
  MeetingEndsByHand
