CONSTANTS
  Auth = TRUE
  None = None
  MaxRetries = 0
  DegradationTtl = 1
  NoEntry = NoEntry
  NotDegraded = NotDegraded
  Nodes = {"i", "p"}
  Initiators = {"i"}
  FallbackOn = TRUE
  Shards = 1
  AltEntries <- NoAlts
  FirstTicks = 2
  CachedTicks = 1
  FirstPacketTicks = 1
  EphPool = {1, 2, 3, 4, 5, 6, 7, 8, 9, 10}
  MaxData = 1
  Senders = {"i", "p"}
  MaxRestarts = 0
SPECIFICATION Spec
PROPERTY ResetConverges
