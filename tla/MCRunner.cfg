SPECIFICATION FairSpec
CONSTANTS
  c1 = c1
  c2 = c2
  c3 = c3
  r1 = r1
  r2 = r2
  i1 = i1
  i2 = i2
  o1 = o1
  o2 = o2
  None = None
  Operations = {o1, o2}
  LeaseOwners = {r1, r2}
  Intents = {i1}
  Calls = {c1, c2, c3}
  Command <- MCPolicies
INVARIANTS OutcomeIsAtomic AdmissionOnce CallersAgree OneHolder RetryOnlyAfterRecording
PROPERTIES LeasesFence DecidesOnce CallsSettle AbandonedIsReclaimable
