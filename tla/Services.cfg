SPECIFICATION MCSpec
CONSTANTS
  Unused = Unused
  Absent = Absent
  Buttons = {0, 1}
  Timeouts = {3, 6}
  Debounce = 1
  Networks = {"home", "work"}
  MaxDoubling = 2
  Offers <- MCOffers
  Current <- MCCurrent
  Partition = 2
  ImageBytes = {"a", "b"}
  NoOffer = NoOffer
  Slice = 3
  Totals = {2, 7, 11}
  Room = 4
  GameStep = 2
  FrameTimes = {1, 3, 13}
  FrameWrap = 16
  MaxSteps = 3
  MaxScore = 4
  Conns = {1, 2}
  RingDepth = 2
  MaxUtterance = 1
  MaxQueued = 1
  MaxSession = 2
  MaxSeq = 2
  RecordIds = {"r1", "r2"}
  MaxTurn = 2
  MaxPieces = 2
  MaxParts = 2
  MaxHistory = 2
  MsWrap = 8
  Second = 2
  Holds = {0, 2}
  Hints = {"happy"}
  Preset = 2
  MaxFrame = 2
  Grid = 4
  StartLen = 3
  MaxLen = 4
  TurnQueue = 2
  Rows = 2
  Cols = 2
  Colours = {0, 1, 2, 3}
  Run = 2
  Coyote = 2
  Buffer = 3
  Bricks = {1, 2, 3}
  Upper = {1}
  Lives = 2
  MostLives = 3
  MaxDrops = 2
  MaxLevel = 2
  Rounds = 2
  Delays = {1, 3}
  Feedback = 2
  Floor = 2
  Ceiling = 4
  Responses <- MCResponses
  Inbound <- MCInbound
  Outbound <- MCOutbound
  Short = 1
  RxCap = 6
  MaxIn = 2
  MaxOut = 2
  Streams <- MCStreams
  MaxLine = 2
  Radix = 80
  Widths <- MCWidths
  Ais = 10
  Inline = 4
  EncodeCap = 4300
  SentOf <- MCMessages
  NewFields <- MCNewer
  Caps = {24, 4300}
  FrameLimit = 8192
  Strange <- MCStrange
  Packets <- MCPackets
  MaxJumps = 2
  OutCap = 4
  WrittenNames <- MCKnown
  Answered <- MCAnswered
  Instances = {"i1", "i2"}
  MaxQueries = 2
INVARIANTS
  TypeOK
  DeviceAgrees
  SpeechArrives
  DaemonAgrees
  DeskAgrees
  BytesArrive
  MessagesAgree
CHECK_DEADLOCK FALSE
