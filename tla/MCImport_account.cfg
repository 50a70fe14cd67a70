CONSTANTS
  u = u
  t1 = t1
  t2 = t2
  User = {u}
  Me = u
  Tab = {t1, t2}
  Request = {1, 2, 3, 4}
  Name = {"A", "B"}
  AccountType = {"chequing"}
  Kind = {"income", "expense"}
  Date <- MCDate
  Payee <- MCPayee
  Untitled <- Blank
  TransferWord <- Transfer
  Normalized <- MCNormalized
  StartDB <- MCStartDB
  NULL = NULL
  None = None
  Width = 24
  SampleRows = 2
  SampleDates = 2
  Sessions <- AccountSessions
SPECIFICATION Spec
INVARIANT ReviewedForAccount
CHECK_DEADLOCK FALSE
