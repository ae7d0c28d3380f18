CONSTANTS
  Auth = TRUE
  None = None
  MaxRetries = 0
  DegradationTtl = 1
  NoEntry = NoEntry
  NotDegraded = NotDegraded
  Nodes = {"i", "p"}
  Initiators = {"i"}
  FallbackOn = TRUE
  Shards = 2
  AltEntries <- NoAlts
  FirstTicks = 1
  CachedTicks = 1
  FirstPacketTicks = 1
  EphPool = {1, 2, 3, 4, 5}
  MaxData = 1
  Senders = {"i", "p"}
  MaxRestarts = 0
SPECIFICATION Spec
INVARIANTS SoleOwner NoPanic
