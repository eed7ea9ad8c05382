CONSTANTS
  Base = 3
  Scale = 2
  MaxInt = 31
  Supported = {"BRL", "EUR"}
  None = None
  MaxLength = 6
  Other = Other
  Point = Point
  Minus = Minus
  Wallets = {w1}
  Elsewhere = Elsewhere
  Amounts = {1, 16}
  MaxEntries = 3
  MaxTampers = 1
  MaxWrites = 1
  Limits = {0, 1, 5}
  defaultLedgerPage = 1
  maxLedgerPage = 2
  Nil = Nil
  NULL = NULL
  MaxBalance = 3
  MaxAttempts = 2
  TTL = 1
  Currencies = {"BRL", "EUR"}
  Home = "BRL"
  MaxClock = 2
SPECIFICATION StoredSpec
INVARIANTS PagesTellTheLedger AuditIsTrue AmountsAreExact StoredReadsBack 
