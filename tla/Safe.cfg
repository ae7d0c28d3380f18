CONSTANTS
  FragSenders = {"a", "b"}
  FragPackets <- TwoSizes
  FragIds = 1
  MaxFragSends = 2
  Mtu = 68
  MaxGroups = 1
  MaxGroupBytes = 40
  MaxPayloadLen = 40
  MaxPacketLen = 100
  MaxExtChain = 3
  ReassemblyTimeout = 2
  Lifetime = 1
  MaxFragTime = 4
  Routers = {"a", "b", "r", "s"}
  Forwarders = {"b", "r", "s"}
  MaxHops = 3
  InitHopLimits = {2, 3}
  MaxLinks = 3
  MaxMhSends = 1
  MaxFaults = 1
  NeighHosts = {"a", "b"}
  BoundHosts = {}
  TsWindow = 0
  NonceRing = 1
  PendingTtl = 0
  PendingMax = 1
  HelloWait = 1
  MaxHellos = 2
  MaxNeighTime = 1
  MaxMishaps = 1
  MaxRemoves = 1
  Evaluators = {"e"}
  HookClients = {"c", "d"}
  HookPackets <- BothWays
  DefaultAction = "Accept"
  HookTimeout = 1
  TtlCap = 1
  DispatchCapacity = 1
  ClientQueue = 1
  PendingCap = 0
  Ttls = {0, 2}
  VerdictActions = {"Drop"}
  MaxEvents = 2
  MaxHookTime = 1
  FecK = 2
  FecCacheLimit = 3
  MaxSeenGroups = 1
  FecLens = {74}
  DataMinFrame = 74
  MaxFecFrames = 5
  MaxFecLives = 2
  MaxFecArrivals = 3
  DeadAge = 5
  AliveAge = 3
  TriggerWindows = 3
  RecoverWindows = 5
  OnLoss = 30
  OffLoss = 5
  OnWindows = 2
  OffWindows = 5
  MinExpected = 2
  CeilBps = 64
  FloorMin = 16
  RttInfl = 250
  LossOn = 30
  MinRttExpiry = 10
  WindowBits = 2
  JumpGuard = 2
  MaxSas = 1
  ReportInterval = 1
  DualPath = TRUE
  Offset <- SomeOffsets
  Wrap = 1000
  NeverSeen = 9
  ObsKeys = 2
  MaxObsCtr = 3
  ObsBudgets <- SomeBudgets
  Relays = 3
  FailThreshold = 1
  RecoverThreshold = 2
  RecoverDebounce = 1
  CheckInterval = 1
  Latencies = {1}
  MaxRelayTime = 3
  AbuseNodes = {"n"}
  PktSizes = {1, 3}
  RateWindow = 1
  PpsWarn = 2
  BpsBan = 3
  SmallPkt = 2
  SmallFlood = 1
  FailureRate = 50
  MinAttempts = 2
  WarnToBan = 2
  TempToPerm = 2
  TempBanTime = 1
  MaxIdle = 1
  MaxAbuseTime = 2
  MaxAbuseEvents = 5
  ResAddrs = {"x"}
  ResKeys = {"k1", "k2"}
  Endpoints = {"e1"}
  ReqTtls = {0, 1}
  DefaultTtl = 2
  MaxTtl = 5
  ObservedMaxAge = 1
  MaxBack = 1
  MaxResTime = 3
  MaxResOps = 3
  MaxDbFaults = 1
  MaxResRestarts = 1
  CacheAddrs = {"x", "y"}
  Readers = {"r", "s"}
  MaxEntries = 1
  NegativeTtl = 2
  EntryTtl = 1
  MaxCacheTime = 3
  MaxWrites = 3
  ZoneAddrs = {"x"}
  Parties = {"p", "q"}
  KeysOf <- SomeKeys
  CertTtl = 2
  TokenTtl = 1
  MaxZoneTime = 2
  MaxZoneOps = 4
  MaxZoneRestarts = 1
  AgentAddrs = {1, 2}
  AgentNames = {"m", "n"}
  BadNames = {""}
  AgentTags = {"t"}
  AnsRequests <- SomeRequests
  CardLives = {1, 3}
  AnsTasks <- OneTask
  MaxLeaseSecs = 3
  MaxAnsTime = 2
  MaxAnsOps = 3
  MaxPlans = 2
  MaxAnsRestarts = 1
  L2Senders = {"s", "u"}
  Stations = {"m1", "m2"}
  Broadcast = "ff"
  MaxL2In = 2
  MaxL2Sends = 2
  MaxLate = 1
  RingBits = 3
  ChordNodes = {0, 3, 5}
  FirstNode = 0
  DhtAddrs = {"p"}
  RegionOf <- OneRegion
  MaxPuts = 1
SPECIFICATION SafeSpec
INVARIANTS SafeTypesOK FragmentsFaithful PathHonoured TrustIsEarned
    StuckOnlyAfterBlackout LastBanIsForGood RegistryFaithful
  CacheFaithful OneHolderPerAnchor AgentsSound L2RequestsPaired PutIsFound
PROPERTIES LoneLossRepaired
CHECK_DEADLOCK FALSE
