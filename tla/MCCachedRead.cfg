SPECIFICATION FairSpec
CONSTANTS
  c1 = c1
  c2 = c2
  c3 = c3
  Calls = {c1, c2, c3}
  Timed = {c1}
  Cancellable = {c2}
  Levels = 3
  LocalEnd = 2
  Writable = {1, 2, 3}
  MaxAttempts = 2
  MaxVersion = 2
  MaxDisruptions = 2
  None = None
INVARIANTS FlightRuns DownstreamIsOwed GivingUpIsPrivate
PROPERTIES BackfillNeverRegresses CallsEnd
