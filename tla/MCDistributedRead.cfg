SPECIFICATION FairSpec
CONSTANTS
  f1 = f1
  f2 = f2
  f3 = f3
  o1 = o1
  o2 = o2
  None = None
  Flights = {f1, f2}
  Owners = {o1, o2}
  OwnerOf <- MCShared
  Escaped = {}
  MaxVersion = 2
  MaxDisruptions = 2
INVARIANTS SourceExecutionsAreOwed NoLostWakeup OneHolder
PROPERTIES LeaseFence RunsSettle
