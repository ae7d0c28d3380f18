CONSTANTS
  MaxRetries = 2
  DegradationTtl = 3
  NoEntry = NoEntry
  NotDegraded = NotDegraded
  Resolutions <- SomeAnswers
  MaxResolves = 3
  NoPath = NoPath
SPECIFICATION Spec
INVARIANT IncapableNeverTunnelled
