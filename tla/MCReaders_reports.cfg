CONSTANTS
  u = u
  v = v
  User = {u, v}
  Me = u
  Request = {1}
  Name = {"1", "2", "3", "4", "5", "Job", "Food", "Rent", "Fun", "Gifts", "Other"}
  AccountType = {"chequing", "tfsa", "non_registered"}
  Kind = {"income", "expense"}
  Date = {1, 2, 3, 4}
  MonthOf <- MCMonthOf
  YearOf <- MCYearOf
  Payee = {"", "shop", "transfer"}
  Untitled = ""
  TransferWord = "transfer"
  Normalized <- MCNormalized
  NULL = NULL
  MaxExpenseNodes = 2
  TopCategories = 1
  PageSize = 2
  Sessions <- MCSessions
SPECIFICATION Spec
INVARIANTS
  TypeOK
  ReportsAgree
  SankeyTellsNet
  SankeyLayered
  ContributionsAddUp
  NetWorthMatchesAccounts
  UncategorizedListed
  PagesShowAll
  EmptyOnlyAfterLoss
PROPERTIES
  ReportsPrivate
  TransferNeutral
CHECK_DEADLOCK FALSE
