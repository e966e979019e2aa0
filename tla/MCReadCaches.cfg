SPECIFICATION Spec
CONSTANTS
  Chars <- MCChars
  Plain <- MCPlain
  EscapeOf <- MCEscapeOf
  Letters <- MCLetters
  Numbers <- MCNumbers
  Decimal <- MCDecimal
  Absent = Absent
  Keys <- MCKeys
  LogicalKey <- SameForAll
  Capacity = 2
  LocalTtl = 2
  TtlMs = 1
  JitterNum = 3
  JitterDen = 4
  Randoms = 8
  MaxSkew = 1
  None = None
INVARIANTS TypeOK StalenessIsBounded TenantsApart ExpiryFollowsInsertion
