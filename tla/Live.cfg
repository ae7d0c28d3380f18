CONSTANTS
  MaxRetries = 2
  DegradationTtl = 3
  NoEntry = NoEntry
  NotDegraded = NotDegraded
  Resolutions <- SomeAnswers
  MaxResolves = 3
  NoPath = NoPath
  DeadAge = 5
  AliveAge = 3
  TriggerWindows = 3
  RecoverWindows = 5
  OnLoss = 30
  OffLoss = 5
  OnWindows = 2
  OffWindows = 5
  MinExpected = 2
  CeilBps = 64
  FloorMin = 16
  RttInfl = 250
  LossOn = 30
  MinRttExpiry = 10
  AltProbeInterval = 8
  FramesPerRound = 2
  NeverHeard = 6
  RingBits = 3
  ChordNodes = {0, 3, 5}
  FirstNode = 0
  DhtAddrs = {"p"}
  RegionOf <- OneRegion
  MaxPuts = 0
  FsShards = 2
  Flows = {"x", "y"}
  FlowHash <- TwoFlows
  BatchMax = 2
  InFrames <- SomeFrames
  MaxFsSends = 2
  MaxFsFeeds = 1
  MaxRetires = 1
  TunPackets = {"p", "q", "r"}
  Processed = {"p", "q"}
  MaxTunFeeds = 3
  Editors = {"cli", "web"}
  RuleForms <- OneRule
  SourcePorts = {80, 50000}
  MaxEdits = 2
  MaxConns = 1
  MaxFwKills = 1
  RecvSlots = 1
  SendSlots = 2
  SmallSlots = 1
  DequeueBatch = 2
  Callers = {"p", "q"}
  MaxRioIn = 1
  MaxRioSends = 2
  MaxRioTun = 1
  MaxRioFaults = 1
  MaxRioEvents = 3
  UntilOk = 1
  MaxWsSessions = 3
  MaxWsEvents = 3
SPECIFICATION LiveSpec
INVARIANTS LiveTypesOK PlainOnlyWhenExhausted SlotsSound ReadInOrder
PROPERTIES TunnelRetried  RingConverges  RetireFinishes
  ShutdownReturns  SlotsComeBack ClosedSessionsEnd
CHECK_DEADLOCK FALSE
