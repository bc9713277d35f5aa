------------------------------- MODULE MCParts -------------------------------
(***************************************************************************)
(* One model of the parts that share no state.  The initial state chooses  *)
(* a part; that part runs by itself, the others stay as they are.          *)
(***************************************************************************)
EXTENDS EventReconcile, DashboardPush, RuleReview, StatementSweep, CashbackReward,
        RestoreDrill, PeriodHistory, BrowserCapture

VARIABLE part

partsVars == <<part, recVars, pushVars, reviewVars, sweepMailVars, rewardVars, drillVars, pastVars,
              captureVars>>

\* Statement reconciliation: notifications with an alias and without a merchant; a
\* statement, its reordered form, one that has its purchases under another reference,
\* and one with a refund that only its direction keeps from a notification.
Buy(id, time, merchant) ==
  [id |-> id, at |-> time, amount |-> 1, merchant |-> merchant, type |-> "PURCHASE"]
Line(id, time, made, merchant) ==
  [id |-> id, at |-> time, made |-> made, amount |-> 1, merchant |-> merchant, type |-> "PURCHASE"]
StatementOne(lines) == [ref |-> "R1", first |-> 1, last |-> 3, lines |-> lines]

PartsNotification ==
  {Buy("n1", 3, "SHOP"), Buy("n3", 4, "SHOP DUBAI"), Buy("n4", 6, "")}
PartsOldRun == {StatementOne(<<Line("c", 4, 2, "SHOP DUBAI"), Line("a", 4, 1, "SHOP")>>)}
PartsStatement ==
  PartsOldRun \cup
  {StatementOne(<<Line("a", 4, 1, "SHOP"), Line("c", 4, 2, "SHOP DUBAI"), Line("b", 4, 2, "SHOP")>>),
   [ref |-> "R2", first |-> 4, last |-> 6,
    lines |-> <<[Line("b", 9, 2, "SHOP") EXCEPT !.type = "REFUND"], Line("a", 8, 3, "SHOP")>>],
   [ref |-> "R3", first |-> 1, last |-> 3,
    lines |-> <<Line("c", 4, 2, "SHOP DUBAI"), Line("a", 6, 3, "")>>]}
PartsAlias == {<<"SHOP", "SHOP DUBAI">>}

\* Rule review: one observation read in two ways.
PartsCandidate ==
  {[id |-> "a", outcome |-> "accepted", ambiguous |-> FALSE, fields |-> {"f"}, locked |-> {}],
   [id |-> "a", outcome |-> "review_only", ambiguous |-> TRUE, fields |-> {"g"}, locked |-> {}]}

\* Sweep: two delivery months; mail of the first may come after its last run.
PartsDeliveryStart == [t \in 0..3 |-> IF t < 2 THEN 0 ELSE 2]

\* Cashback: capped tiers with a bucket minimum, and a programme that rounds down.
Tier(minimum, needs, rates, caps) ==
  [minimum |-> minimum, needs |-> needs, rates |-> rates, caps |-> caps]
PartsProgram ==
  {[floor |-> FALSE,
    tiers |-> {Tier(0, <<>>, <<>>, <<>>),
               Tier(3, <<>>, [b \in {"g", "o"} |-> 3], [b \in {"g"} |-> 7]),
               Tier(5, [b \in {"g"} |-> 2], [b \in {"g", "o"} |-> 5], [b \in {"g"} |-> 12])}],
   [floor |-> TRUE,
    tiers |-> {Tier(0, <<>>, [b \in {"g"} |-> 6], <<>>),
               Tier(4, <<>>, [b \in {"g", "o"} |-> 60], [b \in {"o"} |-> 130])}]}

\* History: a month that is too short for a close day, and programmes that begin on the
\* last day of a cycle and within a cycle of another close day.
PartsMonthStart == <<0, 4, 7, 11, 14, 17>>
PartsVersion == {[from |-> 4, close |-> 2], [from |-> 8, close |-> 2], [from |-> 10, close |-> 31]}
PartsStoredPeriod == {[start |-> 10, end |-> 15], [start |-> 12, end |-> 19]}

\* Captures: two purchases alike, two that share a reference, and two of which one is
\* posted on the other's day; captures of each with and without references.
Shop(n, made, posted, ref, text) ==
  [n |-> n, made |-> made, posted |-> posted, ref |-> ref, text |-> text]
TwinOne == Shop(1, 1, 1, "r1", "x")
TwinTwo == Shop(2, 1, 1, "r2", "x")
Single == Shop(3, 1, 1, "r3", "y")
Fee == Shop(4, 2, 2, "r3", "z")
Late == Shop(5, 2, 3, "r5", "w")
OnThatDay == Shop(6, 3, 3, "r6", "w")
Alone == Shop(7, 2, 2, "r7", "v")
Slow == Shop(8, 1, 4, "r8", "u")
PartsShopping == {TwinOne, TwinTwo, Single, Fee, Late, OnThatDay, Alone, Slow}
PartsCapture ==
  {[lines |-> <<TwinTwo, Alone>>, refs |-> FALSE], [lines |-> <<TwinOne, TwinTwo, Alone>>, refs |-> FALSE],
   [lines |-> <<TwinOne, Alone>>, refs |-> TRUE], [lines |-> <<Single, TwinTwo, Slow>>, refs |-> TRUE],
   [lines |-> <<Fee, OnThatDay>>, refs |-> TRUE]}
PartsBilling == {<<TwinOne, TwinTwo, Alone>>, <<Alone, Late, Single, Slow>>, <<TwinTwo, Fee, OnThatDay>>}

-----------------------------------------------------------------------------
Part == {"reconciliation", "push", "review", "sweep", "reward", "drill", "history", "capture"}

RecOff == rows = <<>> /\ reconciliations = <<>> /\ recCorrections = 0

PushOff ==
  /\ store = BlankPayload /\ file = BlankPayload
  /\ thread = [t \in Thread |-> Idle] /\ pushLock = Nobody
  /\ routingMap = NoRoute /\ subscription = [d \in Device |-> "none"]
  /\ delivery = [p \in Pair |-> "none"]
  /\ serving = FALSE /\ writes = 0 /\ pushFaults = 0
  /\ sent = [p \in Pair |-> 0] /\ unrecorded = {} /\ audience = {} /\ dropped = {}

RewardOff == program = (CHOOSE p \in Program : TRUE) /\ facts = {}

\* The other parts have one initial state.
PartsInit ==
  /\ part \in Part
  /\ IF part = "reconciliation" THEN RecInit ELSE RecOff
  /\ IF part = "push" THEN PushInit ELSE PushOff
  /\ IF part = "reward" THEN RewardInit ELSE RewardOff
  /\ ReviewInit /\ MailInit /\ DrillInit /\ HistoryInit /\ CaptureInit

PartsNext ==
  \/ part = "reconciliation" /\ RecNext
     /\ UNCHANGED <<part, captureVars, pushVars, reviewVars, sweepMailVars, rewardVars, drillVars, pastVars>>
  \/ part = "push" /\ PushNext
     /\ UNCHANGED <<part, captureVars, recVars, reviewVars, sweepMailVars, rewardVars, drillVars, pastVars>>
  \/ part = "review" /\ ReviewNext
     /\ UNCHANGED <<part, captureVars, recVars, pushVars, sweepMailVars, rewardVars, drillVars, pastVars>>
  \/ part = "sweep" /\ MailNext
     /\ UNCHANGED <<part, captureVars, recVars, pushVars, reviewVars, rewardVars, drillVars, pastVars>>
  \/ part = "reward" /\ RewardNext
     /\ UNCHANGED <<part, captureVars, recVars, pushVars, reviewVars, sweepMailVars, drillVars, pastVars>>
  \/ part = "drill" /\ DrillNext
     /\ UNCHANGED <<part, captureVars, recVars, pushVars, reviewVars, sweepMailVars, rewardVars, pastVars>>
  \/ part = "history" /\ HistoryNext
     /\ UNCHANGED <<part, captureVars, recVars, pushVars, reviewVars, sweepMailVars, rewardVars, drillVars>>
  \/ part = "capture" /\ CaptureNext
     /\ UNCHANGED <<part, recVars, pushVars, reviewVars, sweepMailVars, rewardVars, drillVars, pastVars>>

PartsSpec == PartsInit /\ [][PartsNext]_partsVars /\ PushFairness

\* The type invariant of the part that runs.
PartsTypeOK ==
  CASE part = "reconciliation" -> RecTypeOK
    [] part = "push" -> PushTypeOK
    [] part = "review" -> ReviewTypeOK
    [] part = "sweep" -> MailTypeOK
    [] part = "reward" -> RewardTypeOK
    [] part = "drill" -> DrillTypeOK
    [] part = "history" -> HistoryTypeOK
    [] part = "capture" -> CaptureTypeOK
==============================================================================
