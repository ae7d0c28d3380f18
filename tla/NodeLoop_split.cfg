CONSTANTS
  Auth = TRUE
  None = None
  MaxRetries = 0
  DegradationTtl = 1
  NoEntry = NoEntry
  NotDegraded = NotDegraded
  Nodes = {"i", "p"}
  Initiators = {"i"}
  FallbackOn = TRUE
  Shards = 2
  AltEntries <- NoAlts
  FirstTicks = 2
  CachedTicks = 1
  FirstPacketTicks = 1
  EphPool = {1, 2, 3, 4}
  MaxData = 2
  Senders = {"i", "p"}
  MaxRestarts = 0
SPECIFICATION Spec
INVARIANT NoncesSurviveSplit
