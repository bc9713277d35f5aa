SPECIFICATION PartsSpec
CONSTANTS
 Notification <- PartsNotification
 Statement <- PartsStatement
 Alias <- PartsAlias
 NoMerchant = ""
 OldRun <- PartsOldRun
 NoReference = "none"
 MaxRecCorrections = 1
 Handler = {h1}
 Refresher = timer
 Device = {d1}
 Route = {ra, rb}
 Alert = {x}
 NoRoute = NoRoute
 Nobody = Nobody
 MaxWrites = 2
 MaxPushFaults = 1
 Candidate <- PartsCandidate
 Field = {"f", "g"}
 NoRelation = NoRelation
 Relation = {NoRelation, "r"}
 FeedbackId = {1, 2}
 NoEvent = NoEvent
 NoApproval = NoApproval
 MaxLockChanges = 1
 MaxFeedback = 2
 SweepRun = {r1, r2}
 NoSweepRun = NoSweepRun
 MaxTime = 3
 DeliveryStart <- PartsDeliveryStart
 MaxTries = 1
 OldVersion = 0
 Program <- PartsProgram
 Bucket = {"g", "o"}
 Amount = {1, 3}
 Instant = {1, 2}
 RefundId = {1, 2}
 NoRefundId = 0
 MaxFacts = 4
 Repeat = 2
 MaxSignals = 2
 MaxDrillFaults = 2
 MonthStart <- PartsMonthStart
 Version <- PartsVersion
 Bought = {9, 13, 16, 19, 20}
 StoredPeriod <- PartsStoredPeriod
 Shopping <- PartsShopping
 Capture <- PartsCapture
 Billing <- PartsBilling
 MaxImports = 4
INVARIANTS
 PartsTypeOK
 StatementIsCounted
 PushIsHonest
 ChainsAreWhatWasSeen
 CursorIsEarned
 RefundsFitEarnings
 DrillIsHonest
 HistoryCounts
 CapturesCountOnce
PROPERTIES
 ReconcileSettles
 AlertsGetThrough
 AcceptanceIsConfirmed
 AdviceIsKept
CHECK_DEADLOCK FALSE
