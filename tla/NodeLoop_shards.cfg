CONSTANTS
  Auth = FALSE
  None = None
  MaxRetries = 0
  DegradationTtl = 1
  NoEntry = NoEntry
  NotDegraded = NotDegraded
  Nodes = {"i", "p"}
  Initiators = {"i"}
  FallbackOn = FALSE
  Shards = 2
  AltEntries <- NoAlts
  FirstTicks = 1
  CachedTicks = 1
  FirstPacketTicks = 1
  EphPool = {1, 2, 3, 4, 5, 6, 7, 8, 9, 10}
  MaxData = 1
  Senders = {"p"}
  MaxRestarts = 1
SPECIFICATION Spec
INVARIANT TypeOK
PROPERTY StaleShardsRetire
