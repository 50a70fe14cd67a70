CONSTANTS
  u1 = u1
  u2 = u2
  User = {u1, u2}
  Request = {r1, r2}
  Name = {"A", "B", "C", "D"}
  AccountType = {"chequing", "tfsa"}
  Kind = {"income", "expense"}
  Date = {1}
  Payee = {"", "transfer", "cafe", "CAFE 1"}
  Untitled = ""
  TransferWord = "transfer"
  NULL = NULL
  Normalized <- MCNormalized
  InitialDB <- TwoHouseholds
  Menu <- CategoryMenu
SPECIFICATION FairSpec
PROPERTY MergeKeepsCategory
