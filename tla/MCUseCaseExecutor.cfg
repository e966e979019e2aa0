SPECIFICATION FairSpec
CONSTANTS
  c1 = c1
  c2 = c2
  c3 = c3
  c4 = c4
  e1 = e1
  e2 = e2
  u1 = u1
  u2 = u2
  x1 = x1
  None = None
  Invocations = {c1, c2, c3, c4}
  Intents = {u1, u2}
  ExecutionIds = {x1}
  ExecutionIdOf <- MCExecutionIdOf
  Owners = {e1, e2}
  Results = {"a", "b"}
  Request <- MCRequest
INVARIANTS OneDurableOwner
PROPERTIES CompletesOnce ClaimsFence LostInvocationsReclaimable
