SPECIFICATION PromptSpec
CONSTANTS
  f1 = f1
  f2 = f2
  f3 = f3
  o1 = o1
  o2 = o2
  None = None
  Flights = {f1, f2, f3}
  Owners = {o1, o2}
  OwnerOf <- MCOwnerOf
  Escaped = {o2}
  MaxVersion = 2
  MaxDisruptions = 1
INVARIANT HealthyOwnersHold
PROPERTY CacheNeverRegresses
