\* Three executions contend for one lease row that changes hands up to 5 times; the pieces
\* that share no state with it run beside it, each from an initial state of its own.
CONSTANTS
  r1 = r1
  r2 = r2
  r3 = r3
  Runner <- MCRunner
  MaxToken = 5
  LedgerRow = {"x", "y", "z"}
  InScope = {"x", "y"}
  Incoming = {"x", "z"}
  PlanRow = {"y", "z"}
  LedgerStart <- PiecesLedgers
  MaxEdits = 1
  MaxToolRuns = 3
  BootConfig <- PiecesBootConfig
  Budgets <- PiecesBudgets
  Manual = "none"
  MaxBoots = 3
  MaxTouches = 1
  SourceRows <- PiecesSourceRows
  Null = Null
  LegacyIdentity <- PiecesLegacyIdentity
  MaxRowWrites = 5
  Owner = {"o1", "o2"}
  Inventory <- PiecesInventory
  CursorVersion = {1}
  MaxFence = 3
  Chain <- PiecesChain
  Page <- PiecesPage
  Message <- PiecesMessage
  CardRequest <- PiecesCardRequest
  CardAnswer <- PiecesCardAnswer
  None = None
  DayLength = 2
  Scale = 10
  MaxNow = 5
  MaxPages = 2
  SourceRow <- PiecesSourceRow
  RuleBook <- PiecesRuleBook
  History <- PiecesHistory
  Policy <- PiecesPolicy
  Response <- PiecesResponse
  Property <- PiecesProperty
  MaxRuleEdits = 1
  Observation <- PiecesObservation
  SettlementDays = 1
  Reason = {"unique", "missing"}
  Target = {"channel"}
  Suggested = {"channel"}
  MaxLedgerEdits = 1
  MaxCandidates = 1
  MonthStart <- PiecesMonthStart
  Version <- PiecesVersion
  Mail <- PiecesMail
  CardPeriod <- PiecesCardPeriod
  Spend = {11, 12, 17}
  NoDay <- PiecesNoDay
  CardProgram <- PiecesCardProgram
  RouteProfile <- PiecesRouteProfile
  RoutePolicy <- PiecesRoutePolicy
  PayIntent <- PiecesPayIntent
  HeldOnly = {2}
  CycleDays = 4
  WeekDays = 2
  TolerancePercent = 20
  MinTolerance = 1
  RiskWeeks = 1
  CloseDays = 1
  Unlimited <- PiecesUnlimited
  MaxSpend = 3
  Profile <- PiecesProfile
  Fixture = {"a", "b"}
  MaxDay = 5
  Corpora <- PiecesCorpora
  BookedRows <- PiecesBookedRows
  TechnicalTag = {"primary"}
  ForeignDoc <- PiecesForeignDoc
  OwnerCategory = {"Gifts"}
  OwnerNote <- PiecesOwnerNote
  MaxOwnerEdits = 1
  BrowserDoc <- PiecesBrowserDoc
  BrowserRules <- PiecesBrowserRules
  AccountTypes <- PiecesAccountTypes
  RefundDays = 3
  MaxConfigured = 2
SPECIFICATION PiecesSpec
SYMMETRY RunnerSymmetry
CHECK_DEADLOCK FALSE
INVARIANTS
  OneValidHolder
  DecisionsAgree
  RoutesAreHonest
  FiguresAreRight
  PlansAreSound
PROPERTIES
  LostStaysLost
  OnlyHolderEndsLease
  PieceSteps
