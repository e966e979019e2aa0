SPECIFICATION Spec
CONSTANTS
  c1 = c1
  c2 = c2
  d1 = d1
  d2 = d2
  e1 = e1
  e2 = e2
  b1 = b1
  None = None
  Invocations = {c1, c2}
  Owners = {e1, e2}
  Causes = {b1}
  Slots <- TwoSlots
  Reaction = "start-fulfillment"
  Snapshots = {"o1", "o2"}
  Invoked <- MCRetry
INVARIANTS ExecutionsAgree ResultsAreDecided
PROPERTY RunnerSuffices
