----------------------------- MODULE PlanProofs ------------------------------
(***************************************************************************)
(* What is planned and run once, for any value of the constants: the       *)
(* ledger tools, programme configurations, notes and the corpus, the table *)
(* migration with the inventory fence, and the bootstrap of the budget.    *)
(***************************************************************************)
EXTENDS LedgerTools, ProgramVersions, CorpusMigration, TableMigration, Bootstrap,
        CalendarProofs

(* The ledger tools.                                                        *)

Pending(r) == \E t \in Tool : r \in written[t]

\* What the copy holds while a replacement rewrites it, from the snapshot b on.
Deleted(b, r) == r \in Targets(b) /\ (tool.step # "deleting" \/ r \notin tool.left)
CopyWhileDeleting(b) ==
  \A r \in LedgerRow : copy[r] = IF Deleted(b, r) THEN "gone" ELSE b[r]
CopyWhileImporting(b) ==
  \A r \in LedgerRow :
    copy[r] = IF r \in DOMAIN tool.kept THEN b[r]
              ELSE IF r \in Incoming /\ r \notin tool.left THEN "managed" ELSE "gone"

\* A replacement that rewrites its copy has a backup of it as it was opened, whose report
\* nothing blocks or somebody approved.
Replacing(b) ==
  /\ tool.kept = Preserved(b)
  /\ BlockingRows(b) = {} \/ \E c \in approved : PreservationReport(c) = PreservationReport(b)
  /\ \A r \in LedgerRow \ edited : b[r] = ledger[r]
  /\ tool.step \in {"deleting", "deleted"} => CopyWhileDeleting(b)
  /\ tool.step = "deleting" => tool.left \subseteq Targets(b)
  /\ tool.step \in {"importing", "written"} => CopyWhileImporting(b)
  /\ tool.step = "importing" => tool.left \subseteq Incoming
  /\ tool.step = "written" => tool.left = {}

Final(r) ==
  IF r \in DOMAIN tool.kept THEN tool.kept[r]
  ELSE IF r \in Incoming THEN "managed" ELSE "gone"

ToolStep ==
  /\ tool = [name |-> tool.name, step |-> tool.step, left |-> tool.left, kept |-> tool.kept]
  /\ tool.step = "opened" => \A r \in LedgerRow : ~Pending(r)
  /\ tool.step \in {"deleting", "deleted", "importing"} => tool.name = "replacement"
  /\ tool.name = "replacement" /\ tool.step \in {"deleting", "deleted", "importing", "written"} =>
       \E b \in backups : Replacing(b)
  /\ tool.step = "writing" =>
       /\ tool.name \in {"repair", "deletion"} /\ tool.left \subseteq PlanRow
       /\ \A r \in tool.left \ edited : ledger[r] = "drift"
  /\ tool.name = "replacement" /\ tool.step = "synced" =>
       /\ \A r \in LedgerRow : ~Pending(r)
       /\ \A r \in LedgerRow \ edited : ledger[r] = Final(r)

ToolsInv ==
  /\ ToolsTypeOK
  /\ \A r \in LedgerRow \ edited : Pending(r) \/ copy[r] = ledger[r]
  /\ \A r \in LedgerRow : Pending(r) => OverwriteIsKnown(r)
  /\ ToolStep

LEMMA MergedTyped ==
  ASSUME ToolsInv
  PROVE  /\ Merged \in [LedgerRow -> RowState]
         /\ \A r \in LedgerRow : Merged[r] = IF Pending(r) THEN copy[r] ELSE ledger[r]
BY DEF Merged, Pending, ToolsInv, ToolsTypeOK

\* What is written of a row that somebody edited meanwhile, or that was as it is now in an
\* approved report, may be overwritten.
LEMMA TargetIsReviewed ==
  ASSUME NEW b, NEW r \in Targets(b), b[r] = ledger[r],
         BlockingRows(b) = {} \/ \E c \in approved : PreservationReport(c) = PreservationReport(b)
  PROVE  Reviewed(r)
<1>1. CASE r \notin BlockingRows(b) BY <1>1 DEF BlockingRows, Reviewed
<1>2. CASE r \in BlockingRows(b)
  <2>1. PICK c \in approved : PreservationReport(c) = PreservationReport(b) BY <1>2
  <2>2. [x \in BlockingRows(c) |-> BlockReason(c, x)] = [x \in BlockingRows(b) |-> BlockReason(b, x)]
    BY <2>1 DEF PreservationReport
  <2>3. BlockingRows(c) = BlockingRows(b) BY <2>2
  <2>4. BlockReason(c, r) = BlockReason(b, r) BY <1>2, <2>2, <2>3
  <2>5. /\ (c[r] \in Split) = (b[r] \in Split)
        /\ (IF r \in Incoming /\ c[r] \notin Split THEN c[r] ELSE "managed")
             = (IF r \in Incoming /\ b[r] \notin Split THEN b[r] ELSE "managed")
    BY <2>4 DEF BlockReason
  <2>6. CASE b[r] \in Split \/ r \notin Incoming
    <3>1. Unbound(r) BY <2>6 DEF Unbound
    <3> QED BY <1>2, <2>1, <2>3, <3>1 DEF Reviewed
  <2>7. CASE b[r] \notin Split /\ r \in Incoming
    <3>1. c[r] = ledger[r] BY <2>5, <2>7
    <3> QED BY <2>1, <3>1 DEF Reviewed
  <2> QED BY <2>6, <2>7
<1> QED BY <1>1, <1>2

LEMMA ToolsInitInv == ToolsInit => ToolsInv
<1> SUFFICES ASSUME ToolsInit PROVE ToolsInv OBVIOUS
<1>1. /\ ledger \in LedgerStart /\ copy = ledger /\ written = [t \in Tool |-> {}]
      /\ tool = [name |-> "none", step |-> "idle", left |-> {}, kept |-> <<>>]
      /\ backups = {} /\ approved = {} /\ edited = {} /\ edits = 0 /\ toolRuns = 0
  BY DEF ToolsInit, Nothing, NoTool
<1>2. tool.name = "none" /\ tool.step = "idle" /\ tool.left = {} /\ tool.kept = <<>> BY <1>1
<1>3. ledger \in [LedgerRow -> RowState] BY <1>1, LedgerToolsAssumption
<1>4. written \in [Tool -> SUBSET LedgerRow] /\ \A r : ~Pending(r) BY <1>1 DEF Pending
<1>5. edits \in 0 .. MaxEdits /\ toolRuns \in 0 .. MaxToolRuns
  <2>1. MaxEdits \in Nat /\ MaxToolRuns \in Nat /\ edits = 0 /\ toolRuns = 0
    BY <1>1, LedgerToolsAssumption
  <2> QED BY <2>1
<1>6. ToolsTypeOK BY <1>1, <1>2, <1>3, <1>4, <1>5 DEF ToolsTypeOK
<1>7. ToolStep BY <1>1, <1>2 DEF ToolStep
<1> QED BY <1>1, <1>4, <1>6, <1>7 DEF ToolsInv

LEMMA AfterSync ==
  ASSUME ToolsInv, Synced
  PROVE  /\ ledger' \in [LedgerRow -> RowState] /\ copy' = ledger'
         /\ written' \in [Tool -> SUBSET LedgerRow] /\ \A r : ~Pending(r)'
         /\ \A r \in LedgerRow : ledger'[r] = IF Pending(r) THEN copy[r] ELSE ledger[r]
<1>1. written' = [t \in Tool |-> {}] BY DEF Synced, Nothing
<1>2. \A r : ~Pending(r)' BY <1>1 DEF Pending
<1> QED BY <1>1, <1>2, MergedTyped DEF Synced

LEMMA IdleStep ==
  ASSUME tool = NoTool
  PROVE  ToolStep /\ tool.name = "none" /\ tool.step = "idle" /\ tool.left = {}
BY DEF ToolStep, NoTool

LEMMA UserEditsStep ==
  ASSUME ToolsInv, NEW r \in LedgerRow, NEW to \in RowState, UserEdits(r, to)
  PROVE  ToolsInv'
<1>1. /\ ledger' = [ledger EXCEPT ![r] = to]
      /\ written' = [written EXCEPT !["repair"] = @ \ {r}]
      /\ edited' = edited \cup {r} /\ edits < MaxEdits /\ edits' = edits + 1
      /\ UNCHANGED <<copy, tool, backups, approved, toolRuns>>
  BY DEF UserEdits
<1>2. ToolsTypeOK
  BY DEF ToolsInv
<1>3. /\ ledger \in [LedgerRow -> RowState] /\ written \in [Tool -> SUBSET LedgerRow]
  BY <1>2 DEF ToolsTypeOK
<1>4. \A q \in LedgerRow : q # r => ledger'[q] = ledger[q] BY <1>1, <1>3
<1>5. written' \in [Tool -> SUBSET LedgerRow] /\ ledger' \in [LedgerRow -> RowState] BY <1>1, <1>3
<1>6. \A t \in Tool : written'[t] \subseteq written[t] /\ written[t] \subseteq written'[t] \cup {r}
  BY <1>1, <1>3
<1>7. /\ \A q : Pending(q)' => Pending(q)
      /\ \A q : q # r => (Pending(q)' <=> Pending(q))
  BY <1>6 DEF Pending
<1>8. ToolsTypeOK'
  <2>1. edits' \in 0 .. MaxEdits BY <1>1, <1>2, LedgerToolsAssumption DEF ToolsTypeOK
  <2> QED BY <1>1, <1>2, <1>5, <2>1 DEF ToolsTypeOK
<1>9. \A q \in LedgerRow \ edited' : Pending(q)' \/ copy'[q] = ledger'[q]
  BY <1>1, <1>4, <1>7 DEF ToolsInv
<1>10. ASSUME NEW q \in LedgerRow, Pending(q)' PROVE OverwriteIsKnown(q)'
  <2>1. CASE q = r BY <1>1, <2>1 DEF OverwriteIsKnown
  <2>2. CASE q # r
    <3>1. OverwriteIsKnown(q) BY <1>7, <1>10 DEF ToolsInv
    <3>2. \A t \in Tool : q \in written[t] <=> q \in written'[t] BY <1>6, <2>2
    <3>3. Reviewed(q) => Reviewed(q)' BY <1>1, <1>4, <2>2 DEF Reviewed, Unbound
    <3> QED BY <1>1, <1>4, <2>2, <3>1, <3>2, <3>3 DEF OverwriteIsKnown, Tool
  <2> QED BY <2>1, <2>2
<1>11. ToolStep'
  <2>1. ToolStep BY DEF ToolsInv
  <2>2. ASSUME NEW b, Replacing(b) PROVE Replacing(b)'
    <3>1. \A q \in LedgerRow \ edited' : b[q] = ledger'[q] BY <1>1, <1>4, <2>2 DEF Replacing
    <3>2. CopyWhileDeleting(b)' = CopyWhileDeleting(b) /\ CopyWhileImporting(b)' = CopyWhileImporting(b)
      BY <1>1 DEF CopyWhileDeleting, CopyWhileImporting, Deleted
    <3> QED BY <1>1, <2>2, <3>1, <3>2 DEF Replacing
  <2>3. \A q : Final(q)' = Final(q) BY <1>1 DEF Final
  <2>4. \A q \in LedgerRow \ edited' : q \in LedgerRow \ edited /\ ledger'[q] = ledger[q] BY <1>1, <1>4
  <2>5. tool'.step = "writing" =>
          /\ tool'.name \in {"repair", "deletion"} /\ tool'.left \subseteq PlanRow
          /\ \A q \in tool'.left \ edited' : ledger'[q] = "drift"
    BY <1>1, <2>1, <2>4, LedgerToolsAssumption DEF ToolStep
  <2>6. tool'.name = "replacement" /\ tool'.step \in {"deleting", "deleted", "importing", "written"} =>
          \E b \in backups' : Replacing(b)'
    BY <1>1, <2>1, <2>2 DEF ToolStep
  <2>7. tool'.name = "replacement" /\ tool'.step = "synced" =>
          /\ \A q \in LedgerRow : ~Pending(q)'
          /\ \A q \in LedgerRow \ edited' : ledger'[q] = Final(q)'
    BY <1>1, <1>7, <2>1, <2>3, <2>4 DEF ToolStep
  <2> QED BY <1>1, <1>7, <2>1, <2>5, <2>6, <2>7 DEF ToolStep
<1> QED BY <1>8, <1>9, <1>10, <1>11 DEF ToolsInv

\* A step that only moves on from one phase of a tool to another.
LEMMA MoveOn ==
  ASSUME ToolsInv, UNCHANGED <<ledger, copy, written, approved, edited, edits, toolRuns>>,
         backups \subseteq backups', backups' \subseteq [LedgerRow -> RowState], ToolStep',
         tool'.name \in Tool \cup {"none"}, tool'.left \subseteq LedgerRow
  PROVE  ToolsInv'
<1>1. \A r : Pending(r)' <=> Pending(r) BY DEF Pending
<1>2. ToolsTypeOK' BY DEF ToolsInv, ToolsTypeOK
<1>3. \A r : OverwriteIsKnown(r) => OverwriteIsKnown(r)' BY DEF OverwriteIsKnown, Reviewed, Unbound
<1> QED BY <1>1, <1>2, <1>3 DEF ToolsInv

LEMMA SyncStep ==
  ASSUME ToolsInv, Synced, UNCHANGED backups, edited' \in {edited, {}},
         edits' = edits, toolRuns' \in 0 .. MaxToolRuns,
         approved' \in {{}} \cup {{c} : c \in [LedgerRow -> RowState]},
         tool'.name \in Tool \cup {"none"}, tool'.left \subseteq LedgerRow, ToolStep'
  PROVE  ToolsInv'
<1>1. /\ ledger' \in [LedgerRow -> RowState] /\ copy' = ledger'
      /\ written' \in [Tool -> SUBSET LedgerRow] /\ \A r : ~Pending(r)'
  BY AfterSync
<1>2. ToolsTypeOK' BY <1>1 DEF ToolsInv, ToolsTypeOK
<1> QED BY <1>1, <1>2 DEF ToolsInv

LEMMA WriteTool ==
  ASSUME ToolsInv, NEW t \in Tool, NEW r \in LedgerRow, NEW value, NEW step, Write(t, r, value, step)
  PROVE  /\ tool' = [name |-> tool.name, step |-> IF tool.left = {r} THEN step ELSE tool.step,
                     left |-> tool.left \ {r}, kept |-> tool.kept]
         /\ \A q \in LedgerRow : copy'[q] = IF q = r THEN value ELSE copy[q]
         /\ \A u \in Tool : written'[u] = IF u = t THEN written[u] \cup {r} ELSE written[u]
         /\ UNCHANGED <<ledger, backups, approved, edited, edits, toolRuns>>
<1>1. tool = [name |-> tool.name, step |-> tool.step, left |-> tool.left, kept |-> tool.kept]
  BY DEF ToolsInv, ToolStep
<1>2. tool' = [tool EXCEPT !.left = @ \ {r}, !.step = IF tool.left = {r} THEN step ELSE @]
  BY DEF Write
<1>3. tool' = [name |-> tool.name, step |-> IF tool.left = {r} THEN step ELSE tool.step,
               left |-> tool.left \ {r}, kept |-> tool.kept]
  BY <1>1, <1>2
<1>4. copy \in [LedgerRow -> RowState] /\ written \in [Tool -> SUBSET LedgerRow]
  BY DEF ToolsInv, ToolsTypeOK
<1>5. /\ copy' = [copy EXCEPT ![r] = value] /\ written' = [written EXCEPT ![t] = @ \cup {r}]
      /\ UNCHANGED <<ledger, backups, approved, edited, edits, toolRuns>>
  BY DEF Write
<1> QED BY <1>3, <1>4, <1>5

LEMMA WriteInv ==
  ASSUME ToolsInv, NEW t \in Tool, NEW r \in LedgerRow, NEW value \in RowState, NEW step,
         Write(t, r, value, step), OverwriteIsKnown(r)', ToolStep'
  PROVE  ToolsInv'
<1>1. /\ tool'.name = tool.name /\ tool'.left = tool.left \ {r}
      /\ \A q \in LedgerRow : q # r => copy'[q] = copy[q]
      /\ \A u \in Tool : written[u] \subseteq written'[u]
      /\ \A u \in Tool, q \in LedgerRow : q # r => (q \in written'[u] <=> q \in written[u])
      /\ Pending(r)'
      /\ UNCHANGED <<ledger, backups, approved, edited, edits, toolRuns>>
  <2>1. /\ tool' = [name |-> tool.name, step |-> IF tool.left = {r} THEN step ELSE tool.step,
                     left |-> tool.left \ {r}, kept |-> tool.kept]
        /\ \A q \in LedgerRow : copy'[q] = IF q = r THEN value ELSE copy[q]
        /\ \A u \in Tool : written'[u] = IF u = t THEN written[u] \cup {r} ELSE written[u]
        /\ UNCHANGED <<ledger, backups, approved, edited, edits, toolRuns>>
    BY WriteTool
  <2>2. Pending(r)' BY <2>1 DEF Pending
  <2>3. tool'.name = tool.name /\ tool'.left = tool.left \ {r} BY <2>1
  <2> QED BY <2>1, <2>2, <2>3
<1>2. ToolsTypeOK BY DEF ToolsInv
<1>3. copy' \in [LedgerRow -> RowState] /\ written' \in [Tool -> SUBSET LedgerRow]
  BY <1>2 DEF Write, ToolsTypeOK
<1>4. ToolsTypeOK' BY <1>1, <1>2, <1>3 DEF ToolsTypeOK
<1>5. \A q \in LedgerRow : q # r => (Pending(q)' <=> Pending(q)) BY <1>1 DEF Pending
<1>6. \A q \in LedgerRow \ edited' : Pending(q)' \/ copy'[q] = ledger'[q]
  BY <1>1, <1>5 DEF ToolsInv
<1>7. \A q \in LedgerRow : OverwriteIsKnown(q) => OverwriteIsKnown(q)'
  BY <1>1 DEF OverwriteIsKnown, Reviewed, Unbound, Tool
<1>8. \A q \in LedgerRow : Pending(q)' => OverwriteIsKnown(q)' BY <1>5, <1>7 DEF ToolsInv
<1> QED BY <1>4, <1>6, <1>8 DEF ToolsInv

LEMMA OpenBudgetStep ==
  ASSUME ToolsInv, NEW t \in Tool, OpenBudget(t)
  PROVE  ToolsInv'
<1>1. /\ Synced /\ edited' = {} /\ toolRuns < MaxToolRuns /\ toolRuns' = toolRuns + 1
      /\ UNCHANGED <<backups, approved, edits>>
  BY DEF OpenBudget
<1>2. tool' = [name |-> t, step |-> "opened", left |-> {}, kept |-> <<>>]
  BY DEF OpenBudget, NoTool
<1>3. tool'.name = t /\ tool'.step = "opened" /\ tool'.left = {} /\ tool'.kept = <<>> BY <1>2
<1>4. \A r : ~Pending(r)' BY <1>1, AfterSync
<1>5. ToolStep' BY <1>2, <1>3, <1>4 DEF ToolStep
<1>6. toolRuns' \in 0 .. MaxToolRuns
  BY <1>1, LedgerToolsAssumption DEF ToolsInv, ToolsTypeOK
<1>7. approved' \in {{}} \cup {{c} : c \in [LedgerRow -> RowState]} BY <1>1 DEF ToolsInv, ToolsTypeOK
<1> QED BY <1>1, <1>3, <1>5, <1>6, <1>7, SyncStep

LEMMA ApproveReportStep ==
  ASSUME ToolsInv, ApproveReport
  PROVE  ToolsInv'
<1>1. /\ Synced /\ edited' = {} /\ toolRuns < MaxToolRuns /\ toolRuns' = toolRuns + 1
      /\ tool = NoTool /\ approved' = {Merged} /\ UNCHANGED <<tool, backups, edits>>
  BY DEF ApproveReport
<1>2. ToolStep' /\ tool'.name = "none" /\ tool'.left = {} BY <1>1 DEF ToolStep, NoTool
<1>3. toolRuns' \in 0 .. MaxToolRuns
  BY <1>1, LedgerToolsAssumption DEF ToolsInv, ToolsTypeOK
<1>4. approved' \in {{}} \cup {{c} : c \in [LedgerRow -> RowState]} BY <1>1, MergedTyped
<1> QED BY <1>1, <1>2, <1>3, <1>4, SyncStep

LEMMA WriteBackupStep ==
  ASSUME ToolsInv, WriteBackup
  PROVE  ToolsInv'
<1>1. /\ At("replacement", "opened") /\ backups' = backups \cup {copy}
      /\ BlockingRows(copy) = {} \/ \E c \in approved : PreservationReport(c) = PreservationReport(copy)
      /\ UNCHANGED <<ledger, copy, written, approved, edited, edits, toolRuns>>
  BY DEF WriteBackup, PreservationGate
<1>2. ToolStep /\ copy \in [LedgerRow -> RowState] /\ backups \subseteq [LedgerRow -> RowState]
  BY DEF ToolsInv, ToolsTypeOK
<1>3. tool' = [name |-> "replacement", step |-> "deleting", left |-> Targets(copy), kept |-> Preserved(copy)]
  BY <1>1, <1>2 DEF WriteBackup, ToolStep, At
<1>4. /\ tool'.name = "replacement" /\ tool'.step = "deleting"
      /\ tool'.left = Targets(copy) /\ tool'.kept = Preserved(copy)
  BY <1>3
<1>5. \A r \in LedgerRow \ edited : copy[r] = ledger[r] BY <1>1, <1>2 DEF At, ToolStep, ToolsInv
<1>6. Replacing(copy)'
  <2>1. CopyWhileDeleting(copy)' BY <1>1, <1>4 DEF CopyWhileDeleting, Deleted
  <2>2. /\ Preserved(copy)' = Preserved(copy) /\ BlockingRows(copy)' = BlockingRows(copy)
        /\ Targets(copy)' = Targets(copy)
    BY <1>1 DEF Preserved, BlockingRows, Targets
  <2>3. BlockingRows(copy)' = {}
          \/ \E c \in approved' : PreservationReport(c) = PreservationReport(copy)'
    BY <1>1, <2>2 DEF PreservationReport
  <2> QED BY <1>1, <1>4, <1>5, <2>1, <2>2, <2>3 DEF Replacing
<1>7. \E b \in backups' : Replacing(b)' BY <1>1, <1>6
<1>8. ToolStep' BY <1>3, <1>4, <1>7 DEF ToolStep
<1>9. tool'.name \in Tool /\ tool'.left \subseteq LedgerRow
  BY <1>4, LedgerToolsAssumption DEF Tool, Targets
<1> QED BY <1>1, <1>2, <1>8, <1>9, MoveOn

\* The steps that rewrite the copy.
LEMMA DeleteTargetStep ==
  ASSUME ToolsInv, NEW r \in LedgerRow, DeleteTarget(r)
  PROVE  ToolsInv'
<1>1. /\ tool.name = "replacement" /\ tool.step = "deleting" /\ r \in tool.left
      /\ Write("replacement", r, "gone", "deleted")
  BY DEF DeleteTarget, At
<1>2. /\ tool' = [name |-> tool.name, step |-> IF tool.left = {r} THEN "deleted" ELSE tool.step,
                  left |-> tool.left \ {r}, kept |-> tool.kept]
      /\ \A q \in LedgerRow : copy'[q] = IF q = r THEN "gone" ELSE copy[q]
      /\ \A u \in Tool : written'[u] = IF u = "replacement" THEN written[u] \cup {r} ELSE written[u]
      /\ UNCHANGED <<ledger, backups, approved, edited, edits, toolRuns>>
  BY <1>1, WriteTool DEF Tool
<1>3. /\ tool'.name = "replacement" /\ tool'.left = tool.left \ {r} /\ tool'.kept = tool.kept
      /\ tool'.step = IF tool.left = {r} THEN "deleted" ELSE "deleting"
  BY <1>1, <1>2
<1>4. PICK b \in backups : Replacing(b) BY <1>1 DEF ToolsInv, ToolStep
<1>5. Targets(b)' = Targets(b) /\ Preserved(b)' = Preserved(b) /\ BlockingRows(b)' = BlockingRows(b)
  BY DEF Targets, Preserved, BlockingRows
<1>6. Replacing(b)'
  <2>1. CopyWhileDeleting(b) /\ r \in Targets(b) /\ tool.left \subseteq Targets(b)
    BY <1>1, <1>4 DEF Replacing
  <2>2. CopyWhileDeleting(b)'
    <3> SUFFICES ASSUME NEW q \in LedgerRow
                 PROVE  copy'[q] = IF Deleted(b, q)' THEN "gone" ELSE b[q]
      BY DEF CopyWhileDeleting
    <3>1. CASE q = r BY <1>2, <1>3, <1>5, <2>1, <3>1 DEF Deleted
    <3>2. CASE q # r
      <4>1. Deleted(b, q)' <=> Deleted(b, q)
        BY <1>1, <1>3, <1>5, <3>2 DEF Deleted
      <4> QED BY <1>2, <2>1, <3>2, <4>1 DEF CopyWhileDeleting
    <3> QED BY <3>1, <3>2
  <2>3. /\ tool'.kept = Preserved(b)' /\ tool'.left \subseteq Targets(b)'
        /\ tool'.step \in {"deleting", "deleted"}
        /\ \A q \in LedgerRow \ edited' : b[q] = ledger'[q]
    BY <1>2, <1>3, <1>4, <1>5, <2>1 DEF Replacing
  <2>4. BlockingRows(b)' = {} \/ \E c \in approved' : PreservationReport(c)' = PreservationReport(b)'
    BY <1>2, <1>4 DEF Replacing, PreservationReport, BlockingRows, Targets, Preserved, BlockReason
  <2> QED BY <2>2, <2>3, <2>4 DEF Replacing
<1>7. ToolStep' BY <1>2, <1>3, <1>4, <1>6 DEF ToolStep
<1>8. OverwriteIsKnown(r)'
  <2>1. CASE r \in edited BY <1>2, <2>1 DEF OverwriteIsKnown
  <2>2. CASE r \notin edited
    <3>1. b[r] = ledger[r] /\ r \in Targets(b)
          /\ (BlockingRows(b) = {} \/ \E c \in approved : PreservationReport(c) = PreservationReport(b))
      BY <1>1, <1>4, <2>2 DEF Replacing
    <3>2. Reviewed(r) BY <3>1, TargetIsReviewed
    <3>3. Reviewed(r)' BY <1>2, <3>2 DEF Reviewed, Unbound
    <3>4. r \in written'["replacement"] BY <1>2 DEF Tool
    <3> QED BY <1>2, <1>4, <3>1, <3>3, <3>4 DEF OverwriteIsKnown
  <2> QED BY <2>1, <2>2
<1>9. "replacement" \in Tool /\ "gone" \in RowState BY DEF Tool, RowState
<1> QED BY <1>1, <1>7, <1>8, <1>9, WriteInv

LEMMA StartImportsStep ==
  ASSUME ToolsInv, StartImports
  PROVE  ToolsInv'
<1>1. /\ tool.name = "replacement"
      /\ tool.step = "deleted" \/ (tool.step = "deleting" /\ tool.left = {})
      /\ UNCHANGED <<ledger, copy, written, backups, approved, edited, edits, toolRuns>>
  BY DEF StartImports, At
<1>2. tool' = [name |-> "replacement", step |-> IF Incoming = {} THEN "written" ELSE "importing",
               left |-> Incoming, kept |-> tool.kept]
  BY <1>1 DEF StartImports, ToolsInv, ToolStep
<1>3. /\ tool'.name = "replacement" /\ tool'.left = Incoming /\ tool'.kept = tool.kept
      /\ tool'.step = IF Incoming = {} THEN "written" ELSE "importing"
  BY <1>2
<1>4. PICK b \in backups : Replacing(b) BY <1>1 DEF ToolsInv, ToolStep
<1>5. Replacing(b)'
  <2>1. CopyWhileDeleting(b) /\ tool.kept = Preserved(b) BY <1>1, <1>4 DEF Replacing
  <2>2. CopyWhileImporting(b)'
    <3> SUFFICES ASSUME NEW q \in LedgerRow
                 PROVE  copy'[q] = IF q \in DOMAIN tool'.kept THEN b[q]
                                   ELSE IF q \in Incoming /\ q \notin tool'.left THEN "managed" ELSE "gone"
      BY DEF CopyWhileImporting
    <3>1. copy'[q] = IF q \in Targets(b) THEN "gone" ELSE b[q]
      BY <1>1, <2>1 DEF CopyWhileDeleting, Deleted
    <3>2. q \in DOMAIN tool'.kept <=> q \notin Targets(b) /\ b[q] # "gone"
      BY <1>3, <2>1 DEF Preserved
    <3> QED BY <1>3, <3>1, <3>2
  <2>3. /\ tool'.kept = Preserved(b)'
        /\ \A q \in LedgerRow \ edited' : b[q] = ledger'[q]
    BY <1>1, <1>3, <1>4 DEF Replacing, Preserved, Targets
  <2>4. BlockingRows(b)' = {} \/ \E c \in approved' : PreservationReport(c)' = PreservationReport(b)'
    BY <1>1, <1>4 DEF Replacing, PreservationReport, BlockingRows, Targets, Preserved, BlockReason
  <2> QED BY <1>3, <2>2, <2>3, <2>4 DEF Replacing
<1>6. ToolStep' BY <1>1, <1>2, <1>3, <1>4, <1>5 DEF ToolStep
<1>7. tool'.name \in Tool /\ tool'.left \subseteq LedgerRow /\ backups' \subseteq [LedgerRow -> RowState]
  BY <1>1, <1>3, LedgerToolsAssumption DEF Tool, ToolsInv, ToolsTypeOK
<1> QED BY <1>1, <1>6, <1>7, MoveOn

\* An import leaves a row to the next one, with the manifests' content.
LEMMA ImportingGoesOn ==
  ASSUME ToolsInv, NEW r \in LedgerRow, At("replacement", "importing"), r \in tool.left,
         tool' = [name |-> tool.name, step |-> IF tool.left = {r} THEN "written" ELSE tool.step,
                  left |-> tool.left \ {r}, kept |-> tool.kept],
         UNCHANGED <<ledger, backups, approved, edited>>, copy[r] \in {"gone", "managed"},
         \A q \in LedgerRow : copy'[q] = IF q = r THEN "managed" ELSE copy[q]
  PROVE  ToolStep'
<1>1. tool.name = "replacement" /\ tool.step = "importing" BY DEF At
<1>2. /\ tool'.name = "replacement" /\ tool'.left = tool.left \ {r} /\ tool'.kept = tool.kept
      /\ tool'.step = IF tool.left = {r} THEN "written" ELSE "importing"
  BY <1>1
<1>3. PICK b \in backups : Replacing(b) BY <1>1 DEF ToolsInv, ToolStep
<1>4. CopyWhileImporting(b) /\ tool.left \subseteq Incoming BY <1>1, <1>3 DEF Replacing
<1>5. Replacing(b)'
  <2>1. CopyWhileImporting(b)'
    <3> SUFFICES ASSUME NEW q \in LedgerRow
                 PROVE  copy'[q] = IF q \in DOMAIN tool'.kept THEN b[q]
                                   ELSE IF q \in Incoming /\ q \notin tool'.left THEN "managed" ELSE "gone"
      BY DEF CopyWhileImporting
    <3>1. copy[q] = IF q \in DOMAIN tool.kept THEN b[q]
                    ELSE IF q \in Incoming /\ q \notin tool.left THEN "managed" ELSE "gone"
      BY <1>4 DEF CopyWhileImporting
    <3>2. CASE q # r BY <1>2, <3>1, <3>2
    <3>3. CASE q = r
      <4>1. copy'[q] = "managed" /\ q \in Incoming /\ q \notin tool'.left BY <1>2, <1>4, <3>3
      <4>2. q \in DOMAIN tool.kept => b[q] = copy[q] /\ b[q] # "gone"
        BY <1>3, <3>1 DEF Replacing, Preserved
      <4> QED BY <1>2, <3>3, <4>1, <4>2
    <3> QED BY <3>2, <3>3
  <2>2. /\ tool'.kept = Preserved(b)' /\ tool'.left \subseteq Incoming
        /\ tool'.step = "written" => tool'.left = {}
        /\ \A q \in LedgerRow \ edited' : b[q] = ledger'[q]
    BY <1>2, <1>3, <1>4 DEF Replacing, Preserved, Targets
  <2>3. BlockingRows(b)' = {} \/ \E c \in approved' : PreservationReport(c)' = PreservationReport(b)'
    BY <1>3 DEF Replacing, PreservationReport, BlockingRows, Targets, Preserved, BlockReason
  <2> QED BY <1>2, <2>1, <2>2, <2>3 DEF Replacing
<1> QED BY <1>1, <1>2, <1>3, <1>5 DEF ToolStep

LEMMA ImportRowStep ==
  ASSUME ToolsInv, NEW r \in LedgerRow, ImportRow(r)
  PROVE  ToolsInv'
<1>1. /\ At("replacement", "importing") /\ r \in tool.left /\ copy[r] = "gone"
      /\ Write("replacement", r, "managed", "written")
  BY DEF ImportRow
<1>2. /\ tool' = [name |-> tool.name, step |-> IF tool.left = {r} THEN "written" ELSE tool.step,
                  left |-> tool.left \ {r}, kept |-> tool.kept]
      /\ \A q \in LedgerRow : copy'[q] = IF q = r THEN "managed" ELSE copy[q]
      /\ \A u \in Tool : written'[u] = IF u = "replacement" THEN written[u] \cup {r} ELSE written[u]
      /\ UNCHANGED <<ledger, backups, approved, edited, edits, toolRuns>>
  BY <1>1, WriteTool DEF Tool
<1>3. ToolStep' BY <1>1, <1>2, ImportingGoesOn
<1>4. OverwriteIsKnown(r)'
  <2>1. CASE r \in edited \/ ledger[r] = "gone" BY <1>2, <2>1 DEF OverwriteIsKnown
  <2>2. CASE r \notin edited /\ ledger[r] # "gone"
    <3>1. OverwriteIsKnown(r) BY <1>1, <2>2 DEF ToolsInv
    <3> QED BY <1>2, <3>1 DEF OverwriteIsKnown, Reviewed, Unbound, Tool
  <2> QED BY <2>1, <2>2
<1>5. "replacement" \in Tool /\ "managed" \in RowState BY DEF Tool, RowState
<1> QED BY <1>1, <1>3, <1>4, <1>5, WriteInv

LEMMA KeepRowStep ==
  ASSUME ToolsInv, NEW r \in LedgerRow, KeepRow(r)
  PROVE  ToolsInv'
<1>1. /\ At("replacement", "importing") /\ r \in tool.left /\ copy[r] = "managed"
      /\ UNCHANGED <<ledger, copy, written, backups, approved, edited, edits, toolRuns>>
  BY DEF KeepRow
<1>2. tool = [name |-> tool.name, step |-> tool.step, left |-> tool.left, kept |-> tool.kept]
  BY DEF ToolsInv, ToolStep
<1>3. tool' = [name |-> tool.name, step |-> IF tool.left = {r} THEN "written" ELSE tool.step,
               left |-> tool.left \ {r}, kept |-> tool.kept]
  BY <1>2 DEF KeepRow
<1>4. ToolStep' BY <1>1, <1>3, ImportingGoesOn
<1>5. tool'.name = tool.name /\ tool'.left = tool.left \ {r} BY <1>3
<1>6. tool'.name \in Tool \cup {"none"} /\ tool'.left \subseteq LedgerRow
      /\ backups' \subseteq [LedgerRow -> RowState]
  BY <1>1, <1>5 DEF ToolsInv, ToolsTypeOK
<1> QED BY <1>1, <1>4, <1>6, MoveOn

\* The plans.
LEMMA CheckPlanStep ==
  ASSUME ToolsInv, CheckPlan
  PROVE  ToolsInv'
<1>1. /\ tool.step = "opened" /\ tool.name \in {"repair", "deletion"}
      /\ UNCHANGED <<ledger, copy, written, backups, approved, edited, edits, toolRuns>>
  BY DEF CheckPlan
<1>2. tool = [name |-> tool.name, step |-> tool.step, left |-> tool.left, kept |-> tool.kept]
  BY DEF ToolsInv, ToolStep
<1> DEFINE pending == {r \in PlanRow : copy[r] = "drift"}
<1>3. tool' = [name |-> tool.name, step |-> "writing", left |-> pending, kept |-> tool.kept]
  BY <1>2 DEF CheckPlan
<1>4. pending \subseteq PlanRow /\ pending \subseteq LedgerRow BY LedgerToolsAssumption
<1>5. \A r \in pending \ edited : ledger[r] = "drift" BY <1>1, <1>4 DEF ToolsInv, ToolStep
<1> HIDE DEF pending
<1>6. tool'.name = tool.name /\ tool'.step = "writing" /\ tool'.left = pending BY <1>3
<1>7. ToolStep' BY <1>1, <1>3, <1>4, <1>5, <1>6 DEF ToolStep
<1>8. backups' \subseteq [LedgerRow -> RowState] BY <1>1 DEF ToolsInv, ToolsTypeOK
<1>9. tool'.name \in Tool /\ tool'.left \subseteq LedgerRow BY <1>1, <1>4, <1>6 DEF Tool
<1> QED BY <1>1, <1>7, <1>8, <1>9, MoveOn

LEMMA WritePlannedStep ==
  ASSUME ToolsInv, NEW r \in LedgerRow, WritePlanned(r)
  PROVE  ToolsInv'
<1> DEFINE value == IF tool.name = "repair" THEN "managed" ELSE "gone"
<1>1. tool.step = "writing" /\ r \in tool.left /\ Write(tool.name, r, value, "written")
  BY DEF WritePlanned
<1>2. /\ tool.name \in {"repair", "deletion"} /\ tool.left \subseteq PlanRow
      /\ \A q \in tool.left \ edited : ledger[q] = "drift"
  BY <1>1 DEF ToolsInv, ToolStep
<1>3. tool.name \in Tool /\ value \in RowState BY <1>2 DEF Tool, RowState
<1> HIDE DEF value
<1>4. /\ tool' = [name |-> tool.name, step |-> IF tool.left = {r} THEN "written" ELSE tool.step,
                  left |-> tool.left \ {r}, kept |-> tool.kept]
      /\ \A u \in Tool : written'[u] = IF u = tool.name THEN written[u] \cup {r} ELSE written[u]
      /\ UNCHANGED <<ledger, backups, approved, edited, edits, toolRuns>>
  BY <1>1, <1>3, WriteTool
<1>5. /\ tool'.name = tool.name /\ tool'.left = tool.left \ {r}
      /\ tool'.step = IF tool.left = {r} THEN "written" ELSE "writing"
  BY <1>1, <1>4
<1>6. ToolStep' BY <1>1, <1>2, <1>4, <1>5 DEF ToolStep
<1>7. OverwriteIsKnown(r)'
  <2>1. CASE r \in edited BY <1>4, <2>1 DEF OverwriteIsKnown
  <2>2. CASE r \notin edited
    <3>1. r \in PlanRow /\ ledger'[r] = "drift" BY <1>1, <1>2, <1>4, <2>2
    <3>2. r \in written'["repair"] \cup written'["deletion"] BY <1>2, <1>3, <1>4
    <3> QED BY <3>1, <3>2 DEF OverwriteIsKnown
  <2> QED BY <2>1, <2>2
<1> QED BY <1>1, <1>3, <1>6, <1>7, WriteInv

LEMMA NothingPendingStep ==
  ASSUME ToolsInv, NothingPending
  PROVE  ToolsInv'
<1>1. /\ tool.step = "writing"
      /\ UNCHANGED <<ledger, copy, written, backups, approved, edited, edits, toolRuns>>
  BY DEF NothingPending
<1>2. tool = [name |-> tool.name, step |-> tool.step, left |-> tool.left, kept |-> tool.kept]
      /\ tool.name \in {"repair", "deletion"}
  BY <1>1 DEF ToolsInv, ToolStep
<1>3. tool' = [name |-> tool.name, step |-> "synced", left |-> tool.left, kept |-> tool.kept]
  BY <1>2 DEF NothingPending
<1>4. tool'.name = tool.name /\ tool'.step = "synced" /\ tool'.left = tool.left BY <1>3
<1>5. ToolStep' BY <1>1, <1>2, <1>3, <1>4 DEF ToolStep
<1>6. /\ tool'.name \in Tool \cup {"none"} /\ tool'.left \subseteq LedgerRow
      /\ backups' \subseteq [LedgerRow -> RowState]
  BY <1>1, <1>4 DEF ToolsInv, ToolsTypeOK
<1> QED BY <1>1, <1>5, <1>6, MoveOn

LEMMA SyncLedgerStep ==
  ASSUME ToolsInv, SyncLedger
  PROVE  ToolsInv'
<1>1. /\ tool.step = "written" /\ Synced
      /\ UNCHANGED <<backups, approved, edited, edits, toolRuns>>
  BY DEF SyncLedger
<1>2. tool = [name |-> tool.name, step |-> tool.step, left |-> tool.left, kept |-> tool.kept]
  BY DEF ToolsInv, ToolStep
<1>3. tool' = [name |-> tool.name, step |-> "synced", left |-> tool.left, kept |-> tool.kept]
  BY <1>2 DEF SyncLedger
<1>4. tool'.name = tool.name /\ tool'.step = "synced" /\ tool'.left = tool.left /\ tool'.kept = tool.kept
  BY <1>3
<1>5. /\ \A r : ~Pending(r)'
      /\ \A r \in LedgerRow : ledger'[r] = IF Pending(r) THEN copy[r] ELSE ledger[r]
  BY <1>1, AfterSync
<1>6. ASSUME tool.name = "replacement", NEW r \in LedgerRow \ edited
      PROVE  ledger'[r] = Final(r)'
  <2>1. PICK b \in backups : Replacing(b) BY <1>1, <1>6 DEF ToolsInv, ToolStep
  <2>2. copy[r] = IF r \in DOMAIN tool.kept THEN b[r]
                  ELSE IF r \in Incoming /\ r \notin tool.left THEN "managed" ELSE "gone"
    BY <1>1, <2>1 DEF Replacing, CopyWhileImporting
  <2>3. tool.left = {} /\ tool.kept = Preserved(b) BY <1>1, <2>1 DEF Replacing
  <2>4. r \in DOMAIN tool.kept => tool.kept[r] = b[r] BY <2>3 DEF Preserved
  <2>5. copy[r] = Final(r) BY <2>2, <2>3, <2>4 DEF Final
  <2>6. ledger'[r] = copy[r] BY <1>5 DEF ToolsInv
  <2> QED BY <1>4, <2>5, <2>6 DEF Final
<1>7. ToolStep' BY <1>1, <1>3, <1>4, <1>5, <1>6 DEF ToolStep
<1>8. /\ tool'.name \in Tool \cup {"none"} /\ tool'.left \subseteq LedgerRow
      /\ toolRuns' \in 0 .. MaxToolRuns
      /\ approved' \in {{}} \cup {{c} : c \in [LedgerRow -> RowState]}
  BY <1>1, <1>4 DEF ToolsInv, ToolsTypeOK
<1> QED BY <1>1, <1>7, <1>8, SyncStep

\* A tool that ends, well or not, leaves its copy to be pushed or pushes it.
LEMMA EndStep ==
  ASSUME ToolsInv, Finish \/ Throw
  PROVE  ToolsInv'
<1>1. /\ Synced \/ UNCHANGED <<ledger, copy, written>>
      /\ tool' = NoTool /\ UNCHANGED <<backups, approved, edited, edits, toolRuns>>
  BY DEF Finish, Throw
<1>2. ToolStep' /\ tool'.name = "none" /\ tool'.left = {} BY <1>1 DEF ToolStep, NoTool
<1>3. /\ toolRuns' \in 0 .. MaxToolRuns
      /\ approved' \in {{}} \cup {{c} : c \in [LedgerRow -> RowState]}
      /\ backups' \subseteq [LedgerRow -> RowState]
  BY <1>1 DEF ToolsInv, ToolsTypeOK
<1>4. CASE Synced BY <1>1, <1>2, <1>3, <1>4, SyncStep
<1>5. CASE UNCHANGED <<ledger, copy, written>> BY <1>1, <1>2, <1>3, <1>5, MoveOn
<1> QED BY <1>1, <1>4, <1>5

LEMMA LoseCopyStep ==
  ASSUME ToolsInv, LoseCopy
  PROVE  ToolsInv'
<1>1. /\ tool = NoTool /\ written' = [t \in Tool |-> {}] /\ copy' = ledger
      /\ UNCHANGED <<ledger, tool, backups, approved, edited, edits, toolRuns>>
  BY DEF LoseCopy, Nothing
<1>2. ToolStep' BY <1>1 DEF ToolStep, NoTool
<1>3. \A r : ~Pending(r)' BY <1>1 DEF Pending
<1>4. ToolsTypeOK' BY <1>1 DEF ToolsInv, ToolsTypeOK
<1> QED BY <1>1, <1>2, <1>3, <1>4 DEF ToolsInv

LEMMA ToolsStep ==
  ASSUME ToolsInv, [ToolsNext]_toolVars
  PROVE  ToolsInv'
<1>1. CASE UNCHANGED toolVars
  <2>1. UNCHANGED <<ledger, copy, written, tool, backups, approved, edited, edits, toolRuns>>
    BY <1>1 DEF toolVars
  <2>2. ToolStep'
    <3>1. ToolStep BY DEF ToolsInv
    <3>2. ASSUME NEW b, Replacing(b) PROVE Replacing(b)'
      <4>1. CopyWhileDeleting(b)' = CopyWhileDeleting(b) /\ CopyWhileImporting(b)' = CopyWhileImporting(b)
        BY <2>1 DEF CopyWhileDeleting, CopyWhileImporting, Deleted
      <4> QED BY <2>1, <3>2, <4>1 DEF Replacing
    <3>3. \A q : Final(q)' = Final(q) /\ (Pending(q)' <=> Pending(q)) BY <2>1 DEF Final, Pending
    <3> QED BY <2>1, <3>1, <3>2, <3>3 DEF ToolStep
  <2>3. /\ tool'.name \in Tool \cup {"none"} /\ tool'.left \subseteq LedgerRow
        /\ backups' \subseteq [LedgerRow -> RowState]
    BY <2>1 DEF ToolsInv, ToolsTypeOK
  <2> QED BY <2>1, <2>2, <2>3, MoveOn
<1>2. CASE ToolsNext
  BY <1>2, UserEditsStep, OpenBudgetStep, ApproveReportStep, WriteBackupStep, StartImportsStep,
     CheckPlanStep, NothingPendingStep, DeleteTargetStep, ImportRowStep, KeepRowStep, WritePlannedStep,
     SyncLedgerStep, EndStep, LoseCopyStep DEF ToolsNext
<1> QED BY <1>1, <1>2

LEMMA ToolsAccount ==
  ASSUME ToolsInv, [ToolsNext]_toolVars
  PROVE  ToolsAreAccountable
<1>1. ASSUME edits' = edits, NEW r \in LedgerRow, ledger'[r] # ledger[r] PROVE OverwriteIsKnown(r)
  <2>1. ~\E q \in LedgerRow, to \in RowState : UserEdits(q, to)
    <3>1. edits \in Nat BY LedgerToolsAssumption DEF ToolsInv, ToolsTypeOK
    <3> QED BY <1>1, <3>1 DEF UserEdits
  <2>2. Synced \/ UNCHANGED ledger
    BY <2>1 DEF ToolsNext, toolVars, OpenBudget, ApproveReport, WriteBackup, StartImports, CheckPlan,
         NothingPending, DeleteTarget, ImportRow, KeepRow, WritePlanned, Write, SyncLedger, Finish, Throw, LoseCopy
  <2>3. Synced BY <1>1, <2>2
  <2>4. Pending(r) BY <1>1, <2>3, AfterSync
  <2> QED BY <2>4 DEF ToolsInv
<1>2. ASSUME Finish, tool.name = "replacement" PROVE ReplacementIsComplete
  <2>1. /\ \A r \in LedgerRow : ~Pending(r)
        /\ \A r \in LedgerRow \ edited : ledger[r] = Final(r)
    BY <1>2 DEF ToolsInv, ToolStep, Finish
  <2>2. \A r \in LedgerRow : ledger'[r] = ledger[r]
    <3>1. Synced \/ UNCHANGED ledger BY <1>2 DEF Finish
    <3> QED BY <2>1, <3>1, AfterSync
  <2> QED BY <2>1, <2>2 DEF ReplacementIsComplete, Final
<1> QED BY <1>1, <1>2 DEF ToolsAreAccountable

LEMMA ToolsAlways == ToolsSpec => []ToolsInv
BY ToolsInitInv, ToolsStep, PTL DEF ToolsSpec

(* The transactions, the plans and the backups of the ledger tools keep      *)
(* their types.                                                              *)
THEOREM ToolsTyped == ToolsSpec => []ToolsTypeOK
<1>1. ToolsInv => ToolsTypeOK BY DEF ToolsInv
<1> QED BY <1>1, ToolsAlways, PTL

(* What a ledger tool overwrites was as its plan says, or is in a backup,    *)
(* also after a tool failed halfway; a replacement that ends well leaves in  *)
(* its scope exactly what the manifests have.                                *)
THEOREM ToolsAlwaysAccountable == ToolsSpec => [][ToolsAreAccountable]_toolVars
BY ToolsAccount, ToolsAlways, PTL DEF ToolsSpec

-----------------------------------------------------------------------------
(* Programmes.                                                              *)

LEMMA Today ==
  ASSUME ProfileTypeOK
  PROVE  MaxDay \in Nat /\ today \in 1 .. MaxDay /\ today \in Nat /\ 1 <= today /\ today # NoDate
<1>1. MaxDay \in Nat BY ProfileAssumption
<1>2. today \in 1 .. MaxDay BY DEF ProfileTypeOK
<1>3. today \in Nat /\ 1 <= today BY <1>1, <1>2
<1> QED BY <1>1, <1>2, <1>3 DEF NoDate

\* Versions as many as their cards have a card each.
LEMMA CardEach ==
  ASSUME NEW F, IsFiniteSet(F), Cardinality({v.card : v \in F}) = Cardinality(F),
         NEW v \in F, NEW w \in F, v.card = w.card
  PROVE  v = w
<1> DEFINE T == {x.card : x \in F}
           f == [x \in F |-> x.card]
<1>1. f \in [F -> T] OBVIOUS
<1>2. \A t \in T : \E x \in F : f[x] = t OBVIOUS
<1>3. f \in Surjection(F, T) BY <1>1, <1>2 DEF Surjection
<1>4. f[v] = v.card /\ f[w] = w.card OBVIOUS
<1> HIDE DEF f, T
<1>5. Cardinality(T) = Cardinality(F) => f \in Injection(F, T) BY <1>3, FS_Surjection
<1>6. f \in Injection(F, T) BY <1>5 DEF T
<1> QED BY <1>4, <1>6 DEF Injection, IsInjective

LEMMA VersionTyped ==
  ASSUME ProfileTypeOK, NEW v \in deployed.versions
  PROVE  /\ v.from \in Nat /\ v.to \in Nat
         /\ \A c \in v.claims : c.from \in Nat /\ c.to \in Nat
         /\ \A r \in v.references : r.from \in Nat /\ r.to \in Nat
BY ProfileAssumption DEF ProfileTypeOK

\* Every claim of an authoritative version that loads is backed on the days the version is
\* in force, up to the day it is judged on.
LEMMA ClaimIsBacked ==
  ASSUME ProfileTypeOK, NEW v \in deployed.versions, v.authoritative, NEW judged \in Nat, Backed(v, judged),
         NEW on \in 1 .. judged, v.from <= on, v.to = NoDate \/ on <= v.to,
         NEW path \in Paths(v)
  PROVE  \E c \in v.claims : c.path = path /\
           \E r \in v.references : r.id \in c.ids /\ Evidences(r, on)
<1>1. ReferencesAreValid(v) /\ ClaimsAreValid(v, judged) /\ FixturesAreValid(v) BY DEF Backed
<1>2. PICK c \in v.claims : c.path = path BY <1>1 DEF ClaimsAreValid
<1> DEFINE last == IF c.to # NoDate THEN c.to ELSE EndOf(v, judged)
<1>3. /\ c.from = v.from
      /\ c.to \in (IF v.to # NoDate THEN {v.to} ELSE {NoDate, judged})
      /\ \E r \in v.references : r.id \in c.ids /\ ReferenceCovers(r, c.from, last)
      /\ \A r \in v.references : r.id \in c.ids => r.authoritative
  BY <1>1 DEF ClaimsAreValid, ClaimIsValid
<1>4. PICK r \in v.references : r.id \in c.ids /\ ReferenceCovers(r, c.from, last) BY <1>3
<1>5. r.authoritative BY <1>3, <1>4
<1>6. r.from # NoDate /\ evidence[r.fixture] = "as cited" BY <1>1, <1>5 DEF FixturesAreValid
<1>7. /\ v.from \in Nat /\ v.to \in Nat /\ c.from \in Nat /\ c.to \in Nat
      /\ r.from \in Nat /\ r.to \in Nat /\ on \in Nat
  BY VersionTyped
<1>8. last \in Nat /\ on <= last BY <1>3, <1>7 DEF EndOf, NoDate
<1> HIDE DEF last
<1>9. r.from <= on /\ (r.to = NoDate \/ on <= r.to) BY <1>3, <1>4, <1>7, <1>8 DEF ReferenceCovers
<1> QED BY <1>2, <1>4, <1>5, <1>6, <1>9 DEF Evidences

LEMMA GivenIsBacked ==
  ASSUME ProfileTypeOK, NEW asOf \in 0 .. MaxDay, NEW on \in 1 .. JudgedOn(asOf), GivesFor(on, asOf)
  PROVE  /\ \A v, w \in InForceOn(on) : v.card = w.card => v = w
         /\ \A v \in {w \in InForceOn(on) : w.authoritative} : \A path \in Paths(v) :
              \E c \in v.claims : c.path = path /\
                \E r \in v.references : r.id \in c.ids /\ Evidences(r, on)
<1>1. MaxDay \in Nat /\ today \in 1 .. MaxDay /\ IsFiniteSet(deployed.versions)
  BY ProfileAssumption DEF ProfileTypeOK
<1>2. IsFiniteSet(InForceOn(on)) BY <1>1, FS_Subset DEF InForceOn
<1>3. \A v, w \in InForceOn(on) : v.card = w.card => v = w BY <1>2, CardEach DEF GivesFor
<1>4. JudgedOn(asOf) \in Nat /\ (asOf # NoDate => JudgedOn(asOf) = asOf) BY <1>1 DEF JudgedOn, NoDate
<1>5. ASSUME NEW v \in InForceOn(on), v.authoritative, NEW path \in Paths(v)
      PROVE  \E c \in v.claims : c.path = path /\
                \E r \in v.references : r.id \in c.ids /\ Evidences(r, on)
  <2>1. /\ v \in deployed.versions /\ (v.from = NoDate \/ v.from <= on)
        /\ v.to = NoDate \/ on <= v.to
    BY DEF InForceOn
  <2>2. v.from \in Nat BY <2>1, VersionTyped
  <2>3. v.from <= on BY <1>4, <2>1, <2>2 DEF NoDate
  <2>4. ~Skipped(v, asOf) BY <1>4, <2>2, <2>3 DEF Skipped
  <2>5. Backed(v, JudgedOn(asOf)) BY <2>1, <2>4 DEF GivesFor, Loads, ProvenanceIsValid
  <2> QED BY <1>4, <1>5, <2>1, <2>3, <2>5, ClaimIsBacked
<1> QED BY <1>3, <1>5

\* What is backed on one day is backed on an earlier one that knows the version and all that
\* is claimed of it.
LEMMA BackedBefore ==
  ASSUME ProfileTypeOK, NEW v \in deployed.versions, NEW later \in Nat, Backed(v, later),
         NEW judged \in 1 .. later, ~Skipped(v, judged), ~ClaimedLater(v, judged)
  PROVE  Backed(v, judged)
<1>1. ReferencesAreValid(v) /\ ClaimsAreValid(v, later) /\ FixturesAreValid(v) BY DEF Backed
<1>2. /\ v.from \in Nat /\ v.to \in Nat /\ judged \in Nat /\ judged <= later /\ judged # NoDate
      /\ \A c \in v.claims : c.from \in Nat /\ c.to \in Nat
      /\ \A r \in v.references : r.from \in Nat /\ r.to \in Nat
  BY VersionTyped DEF NoDate
<1>3. v.from <= judged BY <1>2 DEF Skipped, NoDate
<1>4. v.to # NoDate => EndOf(v, judged) = v.to /\ EndOf(v, later) = v.to BY DEF EndOf
<1>5. v.to = NoDate => EndOf(v, judged) = judged /\ EndOf(v, later) = later BY DEF EndOf
<1>6. v.to = NoDate => \A c \in v.claims : c.from <= judged /\ c.to <= judged
  BY <1>2 DEF ClaimedLater
<1>7. ASSUME NEW c \in v.claims PROVE ClaimIsValid(v, c, judged)
  <2>1. ClaimIsValid(v, c, later) BY <1>1 DEF ClaimsAreValid
  <2> DEFINE End(d) == IF c.to # NoDate THEN c.to ELSE EndOf(v, d)
  <2>2. CASE v.to # NoDate BY <1>4, <2>1, <2>2 DEF ClaimIsValid
  <2>3. CASE v.to = NoDate
    <3>1. c.from <= EndOf(v, judged) /\ c.to <= judged BY <1>5, <1>6, <2>3
    <3>2. ASSUME v.authoritative, NEW r \in v.references, ReferenceCovers(r, c.from, End(later))
          PROVE  ReferenceCovers(r, c.from, End(judged)) /\ c.to \in {NoDate, judged}
      <4>1. c.to \in {NoDate, later} BY <2>1, <2>3, <3>2 DEF ClaimIsValid
      <4>2. c.to \in {NoDate, judged} BY <1>2, <3>1, <4>1
      <4>3. End(judged) = judged /\ End(later) = later BY <1>2, <1>5, <2>3, <4>1, <4>2, <3>1
      <4> QED BY <1>2, <3>2, <4>2, <4>3 DEF ReferenceCovers, NoDate
    <3>3. v.authoritative =>
            /\ c.from = v.from
            /\ \A r \in v.references : r.id \in c.ids => r.authoritative
            /\ \E r \in v.references : r.id \in c.ids /\ ReferenceCovers(r, c.from, End(later))
      BY <2>1 DEF ClaimIsValid
    <3>4. v.authoritative =>
            /\ c.to \in {NoDate, judged}
            /\ \E r \in v.references : r.id \in c.ids /\ ReferenceCovers(r, c.from, End(judged))
      BY <3>2, <3>3
    <3> HIDE DEF End
    <3>5. v.authoritative =>
            \E r \in {s \in v.references : s.id \in c.ids} : ReferenceCovers(r, c.from, End(judged))
      BY <3>4
    <3>6. v.authoritative => \A r \in {s \in v.references : s.id \in c.ids} : r.authoritative BY <3>3
    <3>7. /\ c.from # NoDate /\ (c.to # NoDate => c.from <= c.to)
          /\ v.from # NoDate => v.from <= c.from
          /\ c.ids # {} /\ c.ids \subseteq {r.id : r \in v.references}
      BY <2>1 DEF ClaimIsValid
    <3> QED BY <2>3, <3>1, <3>3, <3>4, <3>5, <3>6, <3>7 DEF ClaimIsValid, End
  <2> QED BY <2>2, <2>3
<1>8. v.from # NoDate => v.from <= EndOf(v, judged) BY <1>1, <1>3, <1>4, <1>5 DEF ClaimsAreValid
<1>9. ClaimsAreValid(v, judged) BY <1>1, <1>7, <1>8 DEF ClaimsAreValid
<1> QED BY <1>1, <1>9 DEF Backed

\* What is backed on a day is backed on the next one, unless it expires.
LEMMA BackedAfter ==
  ASSUME ProfileTypeOK, NEW v \in deployed.versions, Backed(v, today), ~Expires(v)
  PROVE  Backed(v, today + 1)
<1> DEFINE next == today + 1
<1>1. ReferencesAreValid(v) /\ ClaimsAreValid(v, today) /\ FixturesAreValid(v) BY DEF Backed
<1>2. /\ v.from \in Nat /\ v.to \in Nat /\ today \in Nat /\ today # NoDate /\ next \in Nat /\ today < next
      /\ next # NoDate
      /\ \A c \in v.claims : c.from \in Nat /\ c.to \in Nat
      /\ \A r \in v.references : r.from \in Nat /\ r.to \in Nat
  <2>1. today \in Nat /\ 1 <= today /\ today # NoDate BY Today
  <2>2. next \in Nat /\ today < next /\ next # NoDate BY <2>1 DEF NoDate
  <2> QED BY <2>1, <2>2, VersionTyped
<1>3. v.to # NoDate => EndOf(v, today) = v.to /\ EndOf(v, next) = v.to BY DEF EndOf
<1>4. v.to = NoDate => EndOf(v, today) = today /\ EndOf(v, next) = next BY DEF EndOf
<1>5. v.authoritative /\ v.to = NoDate =>
        /\ \A c \in v.claims : c.to # today
        /\ \A r \in v.references : r.to # NoDate => next <= r.to
  <2>1. \A r \in v.references : ~(r.to <= today) => next <= r.to BY <1>2
  <2> HIDE DEF next
  <2> QED BY <2>1 DEF Expires
<1>6. today + 1 = next OBVIOUS
<1> HIDE DEF next
<1>7. ASSUME NEW c \in v.claims PROVE ClaimIsValid(v, c, next)
  <2>1. ClaimIsValid(v, c, today) BY <1>1 DEF ClaimsAreValid
  <2> DEFINE End(d) == IF c.to # NoDate THEN c.to ELSE EndOf(v, d)
  <2>2. CASE v.to # NoDate BY <1>3, <2>1, <2>2 DEF ClaimIsValid
  <2>3. CASE v.to = NoDate
    <3>1. c.from <= EndOf(v, next) /\ (c.to = NoDate \/ c.to <= next)
      BY <1>2, <1>4, <2>1, <2>3 DEF ClaimIsValid
    <3>2. ASSUME v.authoritative, NEW r \in v.references, ReferenceCovers(r, c.from, End(today))
          PROVE  ReferenceCovers(r, c.from, End(next)) /\ c.to \in {NoDate, next}
      <4>1. c.to \in {NoDate, today} BY <2>1, <2>3, <3>2 DEF ClaimIsValid
      <4>2. c.to = NoDate BY <1>5, <2>3, <3>2, <4>1
      <4>3. End(next) = next BY <1>4, <2>3, <4>2
      <4>4. r.to = NoDate \/ next <= r.to BY <1>5, <2>3, <3>2
      <4> QED BY <1>2, <3>2, <4>2, <4>3, <4>4 DEF ReferenceCovers
    <3>3. v.authoritative =>
            /\ c.from = v.from
            /\ \A r \in v.references : r.id \in c.ids => r.authoritative
            /\ \E r \in v.references : r.id \in c.ids /\ ReferenceCovers(r, c.from, End(today))
      BY <2>1 DEF ClaimIsValid
    <3>4. v.authoritative =>
            /\ c.to \in {NoDate, next}
            /\ \E r \in v.references : r.id \in c.ids /\ ReferenceCovers(r, c.from, End(next))
      BY <3>2, <3>3
    <3> HIDE DEF End
    <3>5. v.authoritative =>
            \E r \in {s \in v.references : s.id \in c.ids} : ReferenceCovers(r, c.from, End(next))
      BY <3>4
    <3>6. v.authoritative => \A r \in {s \in v.references : s.id \in c.ids} : r.authoritative BY <3>3
    <3>7. /\ c.from # NoDate /\ (c.to # NoDate => c.from <= c.to)
          /\ v.from # NoDate => v.from <= c.from
          /\ c.ids # {} /\ c.ids \subseteq {r.id : r \in v.references}
      BY <2>1 DEF ClaimIsValid
    <3> QED BY <2>3, <3>1, <3>3, <3>4, <3>5, <3>6, <3>7 DEF ClaimIsValid, End
  <2> QED BY <2>2, <2>3
<1>8. v.from # NoDate => v.from <= EndOf(v, next) BY <1>1, <1>2, <1>3, <1>4 DEF ClaimsAreValid
<1>9. ClaimsAreValid(v, next) BY <1>1, <1>7, <1>8 DEF ClaimsAreValid
<1> QED BY <1>1, <1>6, <1>9 DEF Backed

LEMMA ProfilesSound ==
  ASSUME ProfileTypeOK
  PROVE  ProfilesAreSound
<1>1. today \in Nat /\ today # NoDate /\ 1 <= today BY Today
<1>2. \A v \in deployed.versions : ~Skipped(v, NoDate) BY DEF Skipped
<1>3. JudgedOn(NoDate) = today /\ JudgedOn(today) = today BY DEF JudgedOn
<1>4. ASSUME NEW judged \in 1 .. today, Loads(NoDate), \A v \in deployed.versions : ~ClaimedLater(v, judged)
      PROVE  Loads(judged)
  <2>1. judged # NoDate BY <1>1 DEF NoDate
  <2>2. JudgedOn(judged) = judged BY <2>1 DEF JudgedOn
  <2>3. \A v \in deployed.versions : Backed(v, today) BY <1>2, <1>3, <1>4 DEF Loads, ProvenanceIsValid
  <2>4. \A v \in deployed.versions : ~Skipped(v, judged) => Backed(v, judged) BY <1>1, <1>4, <2>3, BackedBefore
  <2>5. ProvenanceIsValid(judged) BY <2>2, <2>4 DEF ProvenanceIsValid
  <2> QED BY <1>4, <2>5 DEF Loads
<1>5. ASSUME Loads(today), \A v \in deployed.versions : ~Announced(v, today)
      PROVE  Loads(NoDate)
  <2>1. ASSUME NEW v \in deployed.versions PROVE Backed(v, today)
    <3>1. CASE Skipped(v, today)
      <4>1. today < v.from BY <3>1 DEF Skipped
      <4> QED BY <1>5, <4>1 DEF Announced
    <3>2. CASE ~Skipped(v, today) BY <1>3, <1>5, <3>2 DEF Loads, ProvenanceIsValid
    <3> QED BY <3>1, <3>2
  <2>2. ProvenanceIsValid(NoDate) BY <1>3, <2>1 DEF ProvenanceIsValid
  <2> QED BY <1>5, <2>2 DEF Loads
<1> QED BY <1>4, <1>5, GivenIsBacked DEF ProfilesAreSound

LEMMA DaysKeep ==
  ASSUME ProfileTypeOK, [ProfileNext]_profileVars
  PROVE  DaysKeepProfiles
<1> SUFFICES ASSUME today' # today PROVE DaysKeepProfiles BY DEF DaysKeepProfiles
<1>1. today' = today + 1 /\ UNCHANGED <<deployed, evidence>>
  BY DEF ProfileNext, profileVars, Deploy, EvidenceChanges, NextDay
<1>2. \A v \in deployed.versions, judged \in Nat : Backed(v, judged)' = Backed(v, judged)
  BY <1>1 DEF Backed, FixturesAreValid
<1>3. \A asOf : asOf # NoDate => ProvenanceIsValid(asOf)' = ProvenanceIsValid(asOf)
  BY <1>1 DEF ProvenanceIsValid, JudgedOn, Backed, FixturesAreValid
<1>4. RoutesAreValid' = RoutesAreValid BY <1>1 DEF RoutesAreValid
<1>5. \A asOf \in 1 .. MaxDay : asOf # NoDate BY DEF NoDate
<1>6. ASSUME NEW asOf \in 1 .. MaxDay PROVE Loads(asOf)' = Loads(asOf)
  BY <1>1, <1>3, <1>4, <1>5 DEF Loads
<1>7. ASSUME Loads(NoDate), \A v \in deployed.versions : ~Expires(v)
      PROVE  Loads(NoDate)'
  <2>1. JudgedOn(NoDate) = today /\ JudgedOn(NoDate)' = today + 1 BY <1>1 DEF JudgedOn
  <2>2. \A v \in deployed.versions : ~Skipped(v, NoDate) BY DEF Skipped
  <2>3. \A v \in deployed.versions : Backed(v, today) BY <1>7, <2>1, <2>2 DEF Loads, ProvenanceIsValid
  <2>4. \A v \in deployed.versions : Backed(v, today + 1) BY <1>7, <2>3, BackedAfter
  <2>5. ProvenanceIsValid(NoDate)'
    BY <1>1, <2>1, <2>4 DEF ProvenanceIsValid, Backed, FixturesAreValid
  <2> QED BY <1>1, <1>4, <1>7, <2>5 DEF Loads
<1> QED BY <1>6, <1>7 DEF DaysKeepProfiles

LEMMA ProfileInitType == ProfileInit => ProfileTypeOK
<1>1. MaxDay \in Nat /\ 1 <= MaxDay
  <2>1. MaxDay \in Nat \ {0} BY ProfileAssumption
  <2> QED BY <2>1
<1> SUFFICES ASSUME ProfileInit PROVE ProfileTypeOK OBVIOUS
<1>2. deployed \in Profile /\ evidence = [f \in Fixture |-> "as cited"] /\ today = 1 BY DEF ProfileInit
<1>3. evidence \in [Fixture -> {"as cited", "other", "missing"}] BY <1>2
<1>4. today \in 1 .. MaxDay
  <2>1. today = 1 BY <1>2
  <2> QED BY <1>1, <2>1
<1> QED BY <1>2, <1>3, <1>4 DEF ProfileTypeOK

LEMMA ProfileStepType == ProfileTypeOK /\ [ProfileNext]_profileVars => ProfileTypeOK'
<1> SUFFICES ASSUME ProfileTypeOK, [ProfileNext]_profileVars PROVE ProfileTypeOK' OBVIOUS
<1>1. MaxDay \in Nat /\ today \in 1 .. MaxDay BY Today
<1>2. deployed \in Profile /\ evidence \in [Fixture -> {"as cited", "other", "missing"}] BY DEF ProfileTypeOK
<1>3. ASSUME NEW profile \in Profile, Deploy(profile) PROVE ProfileTypeOK'
  BY <1>1, <1>2, <1>3 DEF Deploy, ProfileTypeOK
<1>4. ASSUME NEW f \in Fixture, EvidenceChanges(f) PROVE ProfileTypeOK'
  BY <1>1, <1>2, <1>4 DEF EvidenceChanges, ProfileTypeOK
<1>5. ASSUME NextDay PROVE ProfileTypeOK'
  <2>1. today' \in 1 .. MaxDay BY <1>1, <1>5 DEF NextDay
  <2> QED BY <1>2, <1>5, <2>1 DEF NextDay, ProfileTypeOK
<1>6. ASSUME UNCHANGED profileVars PROVE ProfileTypeOK'
  BY <1>1, <1>2, <1>6 DEF profileVars, ProfileTypeOK
<1> QED BY <1>3, <1>4, <1>5, <1>6 DEF ProfileNext

(* The versions, the evidence and the day keep their types, through any      *)
(* deployment of a configuration and any change of the evidence.             *)
THEOREM ProfileTyped == ProfileSpec => []ProfileTypeOK
BY ProfileInitType, ProfileStepType, PTL DEF ProfileSpec

(* Whatever configuration is deployed: on every day each card has one        *)
(* version, and each rate, cap, tier and exclusion of an authoritative one   *)
(* is backed for that day by evidence that has not changed.                  *)
THEOREM ProfilesAlwaysSound == ProfileSpec => []ProfilesAreSound
BY ProfilesSound, ProfileTyped, PTL

(* The days that pass change nothing for a caller that names its day, and a  *)
(* configuration stops loading for the others only when it expires.          *)
THEOREM ProfilesOutlastDays == ProfileSpec => [][DaysKeepProfiles]_profileVars
BY DaysKeep, ProfileTyped, PTL DEF ProfileSpec

-----------------------------------------------------------------------------
(* Notes and the corpus.                                                    *)

(* What the notes say.                                                      *)

LEMMA RetaggedNote ==
  ASSUME NEW n, n = [tags |-> n.tags, details |-> n.details, loose |-> n.loose, fields |-> n.fields, tidy |-> n.tidy],
         NEW tags
  PROVE  [n EXCEPT !.tags = tags] =
           [tags |-> tags, details |-> n.details, loose |-> n.loose, fields |-> n.fields, tidy |-> n.tidy]
OBVIOUS

LEMMA NoteWithTags ==
  ASSUME NEW note, NEW tags
  PROVE  WithTags(note, tags) =
           [tags |-> ((note.tags \ TechnicalTag) \ SemanticTag) \cup tags,
            details |-> note.details \cup {<<"Memo", text>> : text \in note.loose},
            loose |-> {}, fields |-> {}, tidy |-> TRUE]
<1> DEFINE n == Canonical(note)
<1>1. /\ n = [tags |-> n.tags, details |-> n.details, loose |-> n.loose, fields |-> n.fields, tidy |-> n.tidy]
      /\ n.tags = note.tags \ TechnicalTag /\ n.loose = {} /\ n.fields = {} /\ n.tidy = TRUE
      /\ n.details = note.details \cup {<<"Memo", text>> : text \in note.loose}
  BY DEF Canonical
<1> DEFINE new == (n.tags \ SemanticTag) \cup tags
<1>2. WithTags(note, tags) = [n EXCEPT !.tags = new] BY DEF WithTags
<1> HIDE DEF n
<1>3. new = ((note.tags \ TechnicalTag) \ SemanticTag) \cup tags BY <1>1
<1> HIDE DEF new
<1>4. n = [tags |-> n.tags, details |-> n.details, loose |-> n.loose, fields |-> n.fields, tidy |-> n.tidy]
  BY <1>1
<1>5. [n EXCEPT !.tags = new] =
        [tags |-> new, details |-> n.details, loose |-> n.loose, fields |-> n.fields, tidy |-> n.tidy]
  BY <1>4, RetaggedNote
<1> QED BY <1>1, <1>2, <1>3, <1>5

\* Tagging a second time with the same tags changes nothing.
LEMMA TagsOnce ==
  ASSUME NEW note, NEW tags
  PROVE  WithTags(WithTags(note, tags), tags) = WithTags(note, tags)
<1> DEFINE once == WithTags(note, tags)
           twice == WithTags(once, tags)
<1>1. /\ once = [tags |-> once.tags, details |-> once.details, loose |-> {}, fields |-> {}, tidy |-> TRUE]
      /\ once.tags = ((note.tags \ TechnicalTag) \ SemanticTag) \cup tags
  BY NoteWithTags
<1> HIDE DEF once
<1>2. twice = [tags |-> ((once.tags \ TechnicalTag) \ SemanticTag) \cup tags,
               details |-> once.details \cup {<<"Memo", text>> : text \in once.loose},
               loose |-> {}, fields |-> {}, tidy |-> TRUE]
  BY NoteWithTags
<1>3. ((once.tags \ TechnicalTag) \ SemanticTag) \cup tags = once.tags BY <1>1
<1>4. once.loose = {} BY <1>1
<1>5. once.details \cup {<<"Memo", text>> : text \in once.loose} = once.details BY <1>4
<1>6. twice = [tags |-> once.tags, details |-> once.details, loose |-> {}, fields |-> {}, tidy |-> TRUE]
  BY <1>2, <1>3, <1>5
<1> QED BY <1>1, <1>6 DEF once

LEMMA TaggedKeeps ==
  ASSUME NEW note, NEW tags
  PROVE  KeepsWhatWasWritten(note, WithTags(note, tags))
<1> DEFINE to == WithTags(note, tags)
<1>1. /\ to.details = note.details \cup {<<"Memo", text>> : text \in note.loose}
      /\ to.tags = ((note.tags \ TechnicalTag) \ SemanticTag) \cup tags
  BY NoteWithTags
<1> HIDE DEF to
<1>2. note.details \subseteq to.details BY <1>1
<1>3. \A text \in note.loose : <<"Memo", text>> \in to.details BY <1>1
<1>4. note.tags \ (TechnicalTag \cup SemanticTag) \subseteq to.tags BY <1>1
<1>5. KeepsWhatWasWritten(note, to) BY <1>2, <1>3, <1>4 DEF KeepsWhatWasWritten
<1> QED BY <1>5 DEF to

LEMMA CanonicalKeeps ==
  ASSUME NEW note
  PROVE  KeepsWhatWasWritten(note, Canonical(note))
BY DEF KeepsWhatWasWritten, Canonical

LEMMA CanonicalNote ==
  ASSUME NEW note
  PROVE  IsNote(Canonical(note))
BY DEF IsNote, Canonical

-----------------------------------------------------------------------------
(* The classifier.                                                          *)

LEMMA ManifestWith ==
  ASSUME NEW r, NEW category, NEW n,
         r = [id |-> r.id, card |-> r.card, amount |-> r.amount, category |-> r.category,
              says |-> r.says, topic |-> r.topic, note |-> r.note]
  PROVE  [r EXCEPT !.category = category, !.note = n] =
           [id |-> r.id, card |-> r.card, amount |-> r.amount, category |-> category,
            says |-> r.says, topic |-> r.topic, note |-> n]
<1> DEFINE c == [r EXCEPT !.category = category]
<1>1. c = [id |-> r.id, card |-> r.card, amount |-> r.amount, category |-> category,
           says |-> r.says, topic |-> r.topic, note |-> r.note]
  OBVIOUS
<1>2. [r EXCEPT !.category = category, !.note = n] = [c EXCEPT !.note = n] OBVIOUS
<1> HIDE DEF c
<1>3. [c EXCEPT !.note = n] =
        [id |-> r.id, card |-> r.card, amount |-> r.amount, category |-> category,
         says |-> r.says, topic |-> r.topic, note |-> n]
  BY <1>1
<1> QED BY <1>2, <1>3

LEMMA RegeneratedIs ==
  ASSUME NEW r, IsManifest(r)
  PROVE  Regenerated(r) =
           [id |-> r.id, card |-> r.card, amount |-> r.amount,
            category |-> IF Classify(r).category = "" THEN r.category ELSE Classify(r).category,
            says |-> r.says, topic |-> r.topic, note |-> WithTags(r.note, Classify(r).tags)]
<1> DEFINE category == IF Classify(r).category = "" THEN r.category ELSE Classify(r).category
           n == WithTags(r.note, Classify(r).tags)
<1>1. Regenerated(r) = [r EXCEPT !.category = category, !.note = n] BY DEF Regenerated
<1> HIDE DEF category, n
<1>2. r = [id |-> r.id, card |-> r.card, amount |-> r.amount, category |-> r.category,
            says |-> r.says, topic |-> r.topic, note |-> r.note]
  BY DEF IsManifest
<1>3. [r EXCEPT !.category = category, !.note = n] =
        [id |-> r.id, card |-> r.card, amount |-> r.amount, category |-> category,
         says |-> r.says, topic |-> r.topic, note |-> n]
  BY <1>2, ManifestWith
<1> QED BY <1>1, <1>3 DEF category, n

LEMMA Decided ==
  ASSUME NEW topic, NEW category, NEW tags, NEW d, d = Decision(topic, category, tags)
  PROVE  d.category = category
BY DEF Decision

LEMMA CreditedAs ==
  ASSUME NEW r
  PROVE  Credited(r).category \in
           {"Refunds & Reimbursements", "Cashback & Rewards", "Other Income", "Needs Review", r.category}
<1>1. \E topic, category, tags :
        /\ Credited(r) = Decision(topic, category, tags)
        /\ category \in {"Refunds & Reimbursements", "Cashback & Rewards", "Other Income", "Needs Review",
                         r.category}
  BY DEF Credited
<1>2. PICK topic, category, tags :
        /\ Credited(r) = Decision(topic, category, tags)
        /\ category \in {"Refunds & Reimbursements", "Cashback & Rewards", "Other Income", "Needs Review",
                         r.category}
  BY <1>1
<1> DEFINE d == Credited(r)
<1>3. d = Decision(topic, category, tags) BY <1>2
<1> HIDE DEF d
<1>4. d.category = category BY <1>3, Decided
<1> QED BY <1>2, <1>4 DEF d

\* g is what the regeneration makes of r, or has its classifying fields.
Reclassifies(g, r) ==
  /\ g.says = r.says /\ g.topic = r.topic /\ g.card = r.card /\ g.amount = r.amount
  /\ g.category = IF Classify(r).category = "" THEN r.category ELSE Classify(r).category

\* What a manifest says after it has been classified is classified as it was.
LEMMA ClassifiedOnce ==
  ASSUME NEW r, NEW g, Reclassifies(g, r)
  PROVE  Classify(g) = Classify(r)
<1>0. /\ g.says = r.says /\ g.topic = r.topic /\ g.card = r.card /\ g.amount = r.amount
      /\ Classify(r).category = "" => g.category = r.category
      /\ Classify(r).category # "" => g.category = Classify(r).category
  BY DEF Reclassifies
<1> DEFINE transfer == r.topic \in {"PAYMENT", "TRANSFER"} \/ r.category = "Card Payments"
                       \/ "transfer" \in r.says
<1>1. CASE transfer
  <2>1. Classify(r) = Decision("TRANSFER", "Card Payments", {"card-payment", "transfer"})
    BY <1>1 DEF Classify
  <2>2. Classify(r).category = "Card Payments" BY <2>1, Decided
  <2>3. g.category = "Card Payments" BY <1>0, <2>2
  <2> QED BY <1>0, <2>1, <2>3 DEF Classify
<1>2. CASE ~transfer /\ ~(r.amount > 0)
  <2>1. Classify(r) = Debited(r) BY <1>2 DEF Classify
  <2>2. g.category = r.category
    <3>1. Classify(r).category = r.category BY <2>1, Decided DEF Debited
    <3> QED BY <1>0, <3>1
  <2>3. Classify(g) = Debited(g) BY <1>0, <1>2, <2>2 DEF Classify
  <2>4. Debited(g) = Debited(r) BY <1>0, <2>2 DEF Debited
  <2> QED BY <2>1, <2>3, <2>4
<1>3. CASE ~transfer /\ r.amount > 0
  <2>1. Classify(r) = Credited(r) BY <1>3 DEF Classify
  <2>2. g.category # "Card Payments"
    <3>1. Classify(r).category \in
            {"Refunds & Reimbursements", "Cashback & Rewards", "Other Income", "Needs Review", r.category}
      BY <2>1, CreditedAs
    <3> QED BY <1>0, <1>3, <3>1
  <2>3. Classify(g) = Credited(g) BY <1>0, <1>3, <2>2 DEF Classify
  <2>4. CASE "reversal" \in r.says
    BY <1>0, <2>1, <2>3, <2>4 DEF Credited
  <2>5. CASE /\ "reversal" \notin r.says
             /\ r.topic \in {"REWARD", "AMAZON_CREDIT"} \/ "reward" \in r.says
    BY <1>0, <2>1, <2>3, <2>5 DEF Credited
  <2>6. CASE /\ "reversal" \notin r.says
             /\ ~(r.topic \in {"REWARD", "AMAZON_CREDIT"} \/ "reward" \in r.says)
    <3>1. CASE r.category \in IncomeCategory \/ "salary" \in r.says
      <4> DEFINE category == IF r.category = "" THEN "Other Income" ELSE r.category
      <4>1. Credited(r) = Decision("INCOME", category, {}) BY <2>6, <3>1 DEF Credited
      <4>2. Classify(r).category = category
        <5> HIDE DEF category
        <5> QED BY <2>1, <4>1, Decided
      <4>3. category # "" /\ (r.category \in IncomeCategory => category \in IncomeCategory)
        BY DEF IncomeCategory
      <4>4. g.category = category BY <1>0, <4>2, <4>3
      <4>5. (IF g.category = "" THEN "Other Income" ELSE g.category) = category BY <4>3, <4>4
      <4>6. g.category \in IncomeCategory \/ "salary" \in g.says BY <1>0, <3>1, <4>3, <4>4
      <4> HIDE DEF category
      <4>7. Credited(g) = Decision("INCOME", category, {}) BY <1>0, <2>6, <4>5, <4>6 DEF Credited
      <4> QED BY <2>1, <2>3, <4>1, <4>7
    <3>2. CASE /\ ~(r.category \in IncomeCategory \/ "salary" \in r.says)
               /\ r.card \/ r.category \notin {"", "Needs Review"}
      <4>1. Credited(r) = Decision("REFUND", "Refunds & Reimbursements", {"refund"})
        BY <2>6, <3>2 DEF Credited
      <4>2. g.category = "Refunds & Reimbursements"
        <5>1. Classify(r).category = "Refunds & Reimbursements" BY <2>1, <4>1, Decided
        <5> QED BY <1>0, <5>1
      <4>3. g.category \notin IncomeCategory /\ g.category \notin {"", "Needs Review"}
        BY <4>2 DEF IncomeCategory
      <4>4. Credited(g) = Decision("REFUND", "Refunds & Reimbursements", {"refund"})
        BY <1>0, <2>6, <3>2, <4>3 DEF Credited
      <4> QED BY <2>1, <2>3, <4>1, <4>4
    <3>3. CASE /\ ~(r.category \in IncomeCategory \/ "salary" \in r.says)
               /\ ~(r.card \/ r.category \notin {"", "Needs Review"})
      <4>1. Credited(r) = Decision("UNRESOLVED_CREDIT", "Needs Review", {"review"})
        BY <2>6, <3>3 DEF Credited
      <4>2. g.category = "Needs Review"
        <5>1. Classify(r).category = "Needs Review" BY <2>1, <4>1, Decided
        <5> QED BY <1>0, <5>1
      <4>3. g.category \notin IncomeCategory BY <4>2 DEF IncomeCategory
      <4>4. Credited(g) = Decision("UNRESOLVED_CREDIT", "Needs Review", {"review"})
        BY <1>0, <2>6, <3>3, <4>2, <4>3 DEF Credited
      <4> QED BY <2>1, <2>3, <4>1, <4>4
    <3> QED BY <3>1, <3>2, <3>3
  <2> QED BY <2>4, <2>5, <2>6
<1> QED BY <1>1, <1>2, <1>3

LEMMA RegeneratedOnce ==
  ASSUME NEW r, IsManifest(r)
  PROVE  Regenerated(Regenerated(r)) = Regenerated(r)
<1> DEFINE g == Regenerated(r)
<1>1. /\ g.id = r.id /\ g.says = r.says /\ g.topic = r.topic /\ g.card = r.card /\ g.amount = r.amount
      /\ g.category = IF Classify(r).category = "" THEN r.category ELSE Classify(r).category
      /\ g.note = WithTags(r.note, Classify(r).tags)
      /\ g = [id |-> g.id, card |-> g.card, amount |-> g.amount, category |-> g.category,
              says |-> g.says, topic |-> g.topic, note |-> g.note]
  <2> DEFINE category == IF Classify(r).category = "" THEN r.category ELSE Classify(r).category
             n == WithTags(r.note, Classify(r).tags)
  <2>1. g = [id |-> r.id, card |-> r.card, amount |-> r.amount, category |-> category,
             says |-> r.says, topic |-> r.topic, note |-> n]
    BY RegeneratedIs
  <2> HIDE DEF g, category, n
  <2>2. /\ g.id = r.id /\ g.says = r.says /\ g.topic = r.topic /\ g.card = r.card /\ g.amount = r.amount
        /\ g.category = category /\ g.note = n
    BY <2>1
  <2>3. g = [id |-> g.id, card |-> g.card, amount |-> g.amount, category |-> g.category,
             says |-> g.says, topic |-> g.topic, note |-> g.note]
    BY <2>1, <2>2
  <2> QED BY <2>2, <2>3 DEF category, n
<1>2. IsNote(g.note)
  <2> DEFINE n == WithTags(r.note, Classify(r).tags)
  <2>1. IsNote(n) BY NoteWithTags DEF IsNote
  <2> HIDE DEF n
  <2>2. g.note = n BY <1>1 DEF n
  <2> QED BY <2>1, <2>2
<1> HIDE DEF g
<1>3. IsManifest(g) BY <1>1, <1>2 DEF IsManifest
<1>4. Classify(g) = Classify(r) BY <1>1, ClassifiedOnce DEF Reclassifies
<1>5. Regenerated(g) =
        [id |-> g.id, card |-> g.card, amount |-> g.amount,
         category |-> IF Classify(g).category = "" THEN g.category ELSE Classify(g).category,
         says |-> g.says, topic |-> g.topic, note |-> WithTags(g.note, Classify(g).tags)]
  BY <1>3, RegeneratedIs
<1>6. WithTags(g.note, Classify(g).tags) = g.note BY <1>1, <1>4, TagsOnce
<1>7. (IF Classify(g).category = "" THEN g.category ELSE Classify(g).category) = g.category
  BY <1>1, <1>4
<1>8. Regenerated(g) = g BY <1>1, <1>5, <1>6, <1>7
<1> QED BY <1>8 DEF g

-----------------------------------------------------------------------------
(* Plans.                                                                   *)

\* What a change was made of: a row the corpus knows, as it was.
Planable(k) ==
  /\ \E r \in corpus : r.id = k.id
  /\ ~k.structural /\ SameAmount(k)
  /\ k.note # Change(k).note \/ k.category # Change(k).category

CorpusInv ==
  /\ CorpusTypeOK
  /\ \A k, other \in booked : k.key = other.key => k = other
  /\ \A c \in cleanupPlan : c.to = Canonical(c.from)
  /\ \A c, d \in cleanupPlan : c.id = d.id => c = d
  /\ corpusPlan # NoPlan => \A c \in corpusPlan.changes : \E k : Planable(k) /\ c = Change(k)

LEMMA ChangeIs ==
  ASSUME NEW k
  PROVE  /\ Change(k).id = k.id /\ Change(k).guard = Guard(k)
         /\ Change(k).note = WithTags(k.note, Classify(SourceOf(k)).tags)
         /\ ManualCategory(k) => Change(k).category = k.category
         /\ ~ManualCategory(k) => Change(k).category = Regenerated(SourceOf(k)).category
BY DEF Change

LEMMA SameSource ==
  ASSUME NEW k, NEW other, k.id = other.id
  PROVE  SourceOf(k) = SourceOf(other)
BY DEF SourceOf

LEMMA GuardIs ==
  ASSUME NEW k, NEW other, Guard(k) = Guard(other)
  PROVE  k.amount = other.amount /\ k.category = other.category /\ k.note = other.note
BY DEF Guard

LEMMA KnownSource ==
  ASSUME NEW k, \E r \in corpus : r.id = k.id
  PROVE  SourceOf(k) \in corpus /\ SourceOf(k).id = k.id
BY DEF SourceOf

\* Rows that the guard does not tell apart are changed alike.
LEMMA ChangedAlike ==
  ASSUME NEW k, NEW other, k.id = other.id, Guard(k) = Guard(other)
  PROVE  Change(k) = Change(other) /\ SameAmount(k) = SameAmount(other)
<1>1. SourceOf(k) = SourceOf(other) BY SameSource
<1>2. k.amount = other.amount /\ k.category = other.category /\ k.note = other.note BY GuardIs
<1>3. ManualCategory(k) = ManualCategory(other) BY <1>1, <1>2 DEF ManualCategory
<1>4. Change(k) = Change(other) BY <1>1, <1>2, <1>3 DEF Change
<1>5. SameAmount(k) = SameAmount(other) BY <1>1, <1>2 DEF SameAmount
<1> QED BY <1>4, <1>5

\* What has been changed needs no change.
LEMMA ChangedOnce ==
  ASSUME NEW k, NEW new, new.id = k.id, new.note = Change(k).note, new.category = Change(k).category
  PROVE  Change(new).note = new.note /\ Change(new).category = new.category
<1>1. SourceOf(new) = SourceOf(k) BY SameSource
<1>2. Change(new).note = new.note BY <1>1, ChangeIs, TagsOnce
<1>3. CASE ManualCategory(k)
  <2>1. new.category = k.category BY <1>3, ChangeIs
  <2>2. ManualCategory(new) BY <1>1, <1>3, <2>1 DEF ManualCategory
  <2> QED BY <1>2, <2>2, ChangeIs
<1>4. CASE ~ManualCategory(k)
  <2>1. new.category = Regenerated(SourceOf(k)).category BY <1>4, ChangeIs
  <2>2. ~ManualCategory(new) BY <1>1, <2>1 DEF ManualCategory
  <2>3. Change(new).category = Regenerated(SourceOf(new)).category BY <2>2, ChangeIs
  <2> QED BY <1>1, <1>2, <2>1, <2>3
<1> QED BY <1>3, <1>4

LEMMA BookedWith ==
  ASSUME NEW k, NEW n, NEW category, IsBooked(k)
  PROVE  [k EXCEPT !.note = n, !.category = category] =
           [key |-> k.key, id |-> k.id, amount |-> k.amount, category |-> category,
            note |-> n, structural |-> k.structural]
<1> DEFINE c == [k EXCEPT !.note = n]
<1>0. k = [key |-> k.key, id |-> k.id, amount |-> k.amount, category |-> k.category,
             note |-> k.note, structural |-> k.structural]
  BY DEF IsBooked
<1>1. c = [key |-> k.key, id |-> k.id, amount |-> k.amount, category |-> k.category,
           note |-> n, structural |-> k.structural]
  BY <1>0
<1>2. [k EXCEPT !.note = n, !.category = category] = [c EXCEPT !.category = category] OBVIOUS
<1> HIDE DEF c
<1>3. [c EXCEPT !.category = category] =
        [key |-> k.key, id |-> k.id, amount |-> k.amount, category |-> category,
         note |-> n, structural |-> k.structural]
  BY <1>1
<1> QED BY <1>2, <1>3

LEMMA NothingLeftToPlan ==
  ASSUME CorpusInv, corpusPlan # NoPlan, NEW c \in Changes(Applied(booked)), NEW d \in corpusPlan.changes
  PROVE  c.id # d.id
<1> SUFFICES ASSUME c.id = d.id PROVE FALSE
  OBVIOUS
<1>1. PICK new \in Applied(booked) :
        c = Change(new) /\ (new.note # Change(new).note \/ new.category # Change(new).category)
  BY DEF Changes, Changeable, InCorpus
<1>2. PICK k \in booked :
        new = IF \E e \in corpusPlan.changes : e.id = k.id
              THEN LET e == CHOOSE e \in corpusPlan.changes : e.id = k.id
                   IN [k EXCEPT !.note = e.note, !.category = e.category]
              ELSE k
  BY DEF Applied
<1>3. new.id = c.id BY <1>1, ChangeIs
<1>4. IsBooked(k) BY DEF CorpusInv, CorpusTypeOK
<1> DEFINE e == CHOOSE e \in corpusPlan.changes : e.id = k.id
<1>5. (\E x \in corpusPlan.changes : x.id = k.id) =>
         /\ e \in corpusPlan.changes /\ e.id = k.id
         /\ new = [k EXCEPT !.note = e.note, !.category = e.category]
  BY <1>2
<1> HIDE DEF e
<1>6. (\E x \in corpusPlan.changes : x.id = k.id) =>
         new.id = k.id /\ new.note = e.note /\ new.category = e.category
  BY <1>4, <1>5, BookedWith
<1>7. ~(\E x \in corpusPlan.changes : x.id = k.id) => new = k BY <1>2
<1>8. \E x \in corpusPlan.changes : x.id = k.id BY <1>3, <1>7
<1>9. /\ e \in corpusPlan.changes /\ e.id = k.id
      /\ new.id = k.id /\ new.note = e.note /\ new.category = e.category
  BY <1>5, <1>6, <1>8
<1>10. PICK old : e = Change(old) BY <1>9 DEF CorpusInv
<1>11. old.id = new.id BY <1>9, <1>10, ChangeIs
<1> QED BY <1>1, <1>9, <1>10, <1>11, ChangedOnce

LEMMA StillPlanned ==
  ASSUME CorpusInv, corpusPlan # NoPlan, Preflight(booked), NEW c \in corpusPlan.changes,
         ~\E k \in booked : k.id = c.id /\ k.structural
  PROVE  c \in Changes(booked)
<1>1. PICK old : Planable(old) /\ c = Change(old) BY DEF CorpusInv
<1>2. PICK k \in booked : k.id = c.id /\ Guard(k) = c.guard BY DEF Preflight
<1>3. k.id = old.id /\ Guard(k) = Guard(old) BY <1>1, <1>2, ChangeIs
<1>4. Change(k) = Change(old) /\ SameAmount(k) = SameAmount(old) BY <1>3, ChangedAlike
<1>5. k.note = old.note /\ k.category = old.category BY <1>3, GuardIs
<1>6. ~k.structural BY <1>2
<1>7. /\ \E r \in corpus : r.id = k.id
      /\ SameAmount(k) /\ (k.note # Change(k).note \/ k.category # Change(k).category)
  BY <1>1, <1>3, <1>4, <1>5 DEF Planable
<1>8. k \in Changeable(booked) BY <1>6, <1>7 DEF Changeable, InCorpus
<1>9. Change(k) \in Changes(booked) BY <1>7, <1>8 DEF Changes
<1> QED BY <1>1, <1>4, <1>9

LEMMA PlansKeep ==
  ASSUME CorpusInv
  PROVE  PlansKeepTheOwnersWork
<1>1. ASSUME NEW r \in corpus PROVE Regenerated(Regenerated(r)) = Regenerated(r)
  BY RegeneratedOnce, CorpusAssumption DEF CorpusInv, CorpusTypeOK
<1>2. ASSUME corpusPlan # NoPlan, NEW c \in corpusPlan.changes
      PROVE  /\ KeepsWhatWasWritten(c.guard.note, c.note)
             /\ c.category # c.guard.category => \E r \in corpus : r.id = c.id /\ c.guard.category = r.category
  <2>1. PICK k : Planable(k) /\ c = Change(k) BY <1>2 DEF CorpusInv
  <2> DEFINE tags == Classify(SourceOf(k)).tags
  <2>0. Guard(k).note = k.note /\ Guard(k).category = k.category BY DEF Guard
  <2>2. /\ c.id = k.id /\ c.guard.note = k.note /\ c.guard.category = k.category
        /\ c.note = WithTags(k.note, tags)
    BY <2>0, <2>1, ChangeIs
  <2> HIDE DEF tags
  <2>3. KeepsWhatWasWritten(c.guard.note, c.note) BY <2>2, TaggedKeeps
  <2>4. ASSUME c.category # k.category PROVE k.category = SourceOf(k).category
    BY <2>1, <2>4, ChangeIs DEF ManualCategory
  <2>5. SourceOf(k) \in corpus /\ SourceOf(k).id = k.id BY <2>1, KnownSource DEF Planable
  <2> QED BY <2>2, <2>3, <2>4, <2>5
<1> QED BY <1>1, <1>2, StillPlanned, NothingLeftToPlan DEF PlansKeepTheOwnersWork

-----------------------------------------------------------------------------
(* Steps.                                                                   *)

LEMMA CorpusInitInv == CorpusInit => CorpusInv
<1> SUFFICES ASSUME CorpusInit PROVE CorpusInv
  OBVIOUS
<1>1. CorpusTypeOK BY CorpusAssumption DEF CorpusInit, CorpusTypeOK
<1>2. \A k, other \in booked : k.key = other.key => k = other BY CorpusAssumption DEF CorpusInit
<1> QED BY <1>1, <1>2 DEF CorpusInit, CorpusInv

LEMMA PlanMigrationStep ==
  ASSUME CorpusInv, PlanMigration
  PROVE  CorpusInv'
<1>1. UNCHANGED <<corpus, booked, cleanupPlan, ownerEdits>> BY DEF PlanMigration
<1>2. \A k : Planable(k)' = Planable(k) /\ Change(k)' = Change(k)
  BY <1>1 DEF Planable, Change, SameAmount, SourceOf, ManualCategory
<1>3. corpusPlan'.changes = Changes(booked) BY DEF PlanMigration
<1>4. ASSUME NEW c \in corpusPlan'.changes PROVE \E k : Planable(k)' /\ c = Change(k)'
  <2>1. PICK k \in Changeable(booked) :
          c = Change(k) /\ (k.note # Change(k).note \/ k.category # Change(k).category)
    BY <1>3, <1>4 DEF Changes
  <2>2. Planable(k) BY <2>1 DEF Planable, Changeable, InCorpus
  <2> QED BY <1>2, <2>1, <2>2
<1>5. CorpusTypeOK' BY <1>1 DEF CorpusInv, CorpusTypeOK
<1> QED BY <1>1, <1>4, <1>5 DEF CorpusInv

\* Steps that leave the corpus and its plan alone.
LEMMA SamePlan ==
  ASSUME CorpusInv, UNCHANGED <<corpus, corpusPlan>>
  PROVE  (corpusPlan # NoPlan => \A c \in corpusPlan.changes : \E k : Planable(k) /\ c = Change(k))'
<1>1. \A k : Planable(k)' = Planable(k) /\ Change(k)' = Change(k)
  BY DEF Planable, Change, SameAmount, SourceOf, ManualCategory
<1> QED BY <1>1 DEF CorpusInv

LEMMA PlanCleanupStep ==
  ASSUME CorpusInv, PlanCleanup
  PROVE  CorpusInv'
<1>1. UNCHANGED <<corpus, booked, corpusPlan, ownerEdits>> BY DEF PlanCleanup
<1>2. CorpusTypeOK' BY <1>1 DEF CorpusInv, CorpusTypeOK
<1>3. ASSUME NEW c \in cleanupPlan'
      PROVE  \E k \in Cleanable(booked) :
               c = [id |-> k.id, amount |-> k.amount, from |-> k.note, to |-> Canonical(k.note)]
  BY <1>3 DEF PlanCleanup
<1>4. \A c \in cleanupPlan' : c.to = Canonical(c.from)
  <2> TAKE c \in cleanupPlan'
  <2>1. PICK k \in Cleanable(booked) :
          c = [id |-> k.id, amount |-> k.amount, from |-> k.note, to |-> Canonical(k.note)]
    BY <1>3
  <2>2. c.to = Canonical(k.note) /\ c.from = k.note BY <2>1
  <2> QED BY <2>2
<1>5. \A c, d \in cleanupPlan' : c.id = d.id => c = d
  <2> TAKE c, d \in cleanupPlan'
  <2> HAVE c.id = d.id
  <2>1. PICK k \in Cleanable(booked) :
          c = [id |-> k.id, amount |-> k.amount, from |-> k.note, to |-> Canonical(k.note)]
    BY <1>3
  <2>2. PICK other \in Cleanable(booked) :
          d = [id |-> other.id, amount |-> other.amount, from |-> other.note, to |-> Canonical(other.note)]
    BY <1>3
  <2>3. k.id = other.id BY <2>1, <2>2
  <2>4. k = other BY <2>3 DEF PlanCleanup, Unique
  <2> QED BY <2>1, <2>2, <2>4
<1>6. (corpusPlan # NoPlan => \A c \in corpusPlan.changes : \E k : Planable(k) /\ c = Change(k))'
  BY <1>1, SamePlan
<1> QED BY <1>1, <1>2, <1>4, <1>5, <1>6 DEF CorpusInv

\* A row as a run of the cleanup leaves it.
Cleaned(cleaned, k) ==
  IF k \in cleaned THEN [k EXCEPT !.note = (CHOOSE c \in cleanupPlan : c.id = k.id).to] ELSE k

LEMMA CleanedIs ==
  ASSUME CorpusInv, MayClean, NEW cleaned \in SUBSET UNION {Due(c) : c \in cleanupPlan},
         NEW k \in booked
  PROVE  /\ IsBooked(Cleaned(cleaned, k)) /\ Cleaned(cleaned, k).key = k.key
         /\ WithoutNote(Cleaned(cleaned, k)) = WithoutNote(k)
         /\ Cleaned(cleaned, k) # k =>
              ~k.structural /\ Cleaned(cleaned, k).note = Canonical(k.note)
<1>1. IsBooked(k) BY DEF CorpusInv, CorpusTypeOK
<1>2. CASE k \notin cleaned
  BY <1>1, <1>2 DEF Cleaned
<1>3. CASE k \in cleaned
  <2>1. PICK c \in cleanupPlan : k \in Due(c) BY <1>3
  <2>2. k.id = c.id /\ k \in Aimed(c) /\ k.note # c.to BY <2>1 DEF Due, Aimed
  <2>3. ~k.structural /\ k.note = c.from BY <2>2 DEF MayClean
  <2>4. (CHOOSE d \in cleanupPlan : d.id = k.id) = c BY <2>2 DEF CorpusInv
  <2>5. c.to = Canonical(k.note) BY <2>3 DEF CorpusInv
  <2> DEFINE new == Cleaned(cleaned, k)
             note == Canonical(k.note)
  <2>6. new = [k EXCEPT !.note = note] BY <1>3, <2>4, <2>5 DEF Cleaned
  <2>7. IsNote(note) BY CanonicalNote
  <2> HIDE DEF new, note
  <2>8. k = [key |-> k.key, id |-> k.id, amount |-> k.amount, category |-> k.category,
               note |-> k.note, structural |-> k.structural]
    BY <1>1 DEF IsBooked
  <2>9. new = [key |-> k.key, id |-> k.id, amount |-> k.amount, category |-> k.category,
               note |-> note, structural |-> k.structural]
    BY <2>6, <2>8
  <2>10. IsBooked(new) /\ new.key = k.key BY <1>1, <2>7, <2>9 DEF IsBooked
  <2>11. WithoutNote(new) = WithoutNote(k) BY <2>9 DEF WithoutNote
  <2>12. new.note = note BY <2>9
  <2> QED BY <2>3, <2>10, <2>11, <2>12 DEF new, note
<1> QED BY <1>2, <1>3

LEMMA ApplyCleanupStep ==
  ASSUME CorpusInv, ApplyCleanup
  PROVE  /\ CorpusInv'
         /\ {WithoutNote(k) : k \in booked'} = {WithoutNote(k) : k \in booked}
         /\ \A k \in booked, new \in booked' :
              k.key = new.key /\ k # new =>
                ~k.structural /\ new.note = Canonical(k.note) /\ KeepsWhatWasWritten(k.note, new.note)
<1>1. UNCHANGED <<corpus, corpusPlan, cleanupPlan, ownerEdits>> BY DEF ApplyCleanup
<1>2. MayClean BY DEF ApplyCleanup
<1>3. PICK cleaned \in SUBSET UNION {Due(c) : c \in cleanupPlan} :
        booked' = {Cleaned(cleaned, k) : k \in booked}
  BY DEF ApplyCleanup, Cleaned
<1>4. ASSUME NEW new \in booked' PROVE \E k \in booked : new = Cleaned(cleaned, k)
  BY <1>3, <1>4
<1>5. ASSUME NEW k \in booked
      PROVE  /\ IsBooked(Cleaned(cleaned, k)) /\ Cleaned(cleaned, k).key = k.key
             /\ WithoutNote(Cleaned(cleaned, k)) = WithoutNote(k)
             /\ Cleaned(cleaned, k) # k =>
                  ~k.structural /\ Cleaned(cleaned, k).note = Canonical(k.note)
  BY <1>2, <1>5, CleanedIs
<1>6. \A k \in booked' : IsBooked(k) BY <1>4, <1>5
<1>7. \A k, other \in booked : k.key = other.key => k = other BY DEF CorpusInv
<1>8. \A k, other \in booked' : k.key = other.key => k = other BY <1>4, <1>5, <1>7
<1>9. CorpusTypeOK' BY <1>1, <1>6 DEF CorpusInv, CorpusTypeOK
<1>10. (corpusPlan # NoPlan => \A c \in corpusPlan.changes : \E k : Planable(k) /\ c = Change(k))'
  BY <1>1, SamePlan
<1>11. CorpusInv' BY <1>1, <1>8, <1>9, <1>10 DEF CorpusInv
<1>12. {WithoutNote(k) : k \in booked'} = {WithoutNote(k) : k \in booked}
  <2>1. \A new \in booked' : \E k \in booked : WithoutNote(new) = WithoutNote(k) BY <1>4, <1>5
  <2>2. \A k \in booked : \E new \in booked' : WithoutNote(new) = WithoutNote(k) BY <1>3, <1>5
  <2> QED BY <2>1, <2>2
<1>13. ASSUME NEW k \in booked, NEW new \in booked', k.key = new.key, k # new
       PROVE  ~k.structural /\ new.note = Canonical(k.note) /\ KeepsWhatWasWritten(k.note, new.note)
  <2>1. PICK from \in booked : new = Cleaned(cleaned, from) BY <1>4
  <2>2. from = k BY <1>5, <1>7, <1>13, <2>1
  <2>3. ~k.structural /\ new.note = Canonical(k.note) BY <1>5, <1>13, <2>1, <2>2
  <2> QED BY <2>3, CanonicalKeeps
<1> QED BY <1>11, <1>12, <1>13

LEMMA OwnerStep ==
  ASSUME CorpusInv, NEW k \in booked, NEW by, Replace(k, by), ownerEdits' = ownerEdits + 1,
         \A new \in by : IsBooked(new) /\ new.key = k.key,
         \A new, other \in by : new = other
  PROVE  CorpusInv'
<1>1. UNCHANGED <<corpus, corpusPlan, cleanupPlan>> /\ booked' = (booked \ {k}) \cup by
  BY DEF Replace
<1>2. ownerEdits' \in 0 .. MaxOwnerEdits BY CorpusAssumption DEF Replace, CorpusInv, CorpusTypeOK
<1>3. \A other \in booked' : IsBooked(other) BY <1>1 DEF CorpusInv, CorpusTypeOK
<1>4. \A one, other \in booked' : one.key = other.key => one = other BY <1>1 DEF CorpusInv
<1>5. CorpusTypeOK' BY <1>1, <1>2, <1>3 DEF CorpusInv, CorpusTypeOK
<1>6. (corpusPlan # NoPlan => \A c \in corpusPlan.changes : \E x : Planable(x) /\ c = Change(x))'
  BY <1>1, SamePlan
<1> QED BY <1>1, <1>4, <1>5, <1>6 DEF CorpusInv

LEMMA OwnerEdit ==
  ASSUME CorpusInv, NEW k \in booked,
         Recategorize(k) \/ Annotate(k) \/ Restructure(k) \/ RemoveRow(k)
  PROVE  CorpusInv' /\ ownerEdits' # ownerEdits
<1>1. IsBooked(k) BY DEF CorpusInv, CorpusTypeOK
<1> DEFINE Is(x) == x = [key |-> x.key, id |-> x.id, amount |-> x.amount, category |-> x.category,
                         note |-> x.note, structural |-> x.structural]
<1>2. Is(k) /\ k.amount \in Int /\ k.structural \in BOOLEAN /\ IsNote(k.note) BY <1>1 DEF IsBooked
<1>3. ASSUME NEW c PROVE IsBooked([k EXCEPT !.category = c]) /\ [k EXCEPT !.category = c].key = k.key
  <2>1. [k EXCEPT !.category = c] = [key |-> k.key, id |-> k.id, amount |-> k.amount, category |-> c,
                                       note |-> k.note, structural |-> k.structural]
    BY <1>2
  <2> QED BY <1>2, <2>1 DEF IsBooked
<1>4. ASSUME NEW n, IsNote(n)
      PROVE  IsBooked([k EXCEPT !.note = n]) /\ [k EXCEPT !.note = n].key = k.key
  <2>1. [k EXCEPT !.note = n] = [key |-> k.key, id |-> k.id, amount |-> k.amount, category |-> k.category,
                                   note |-> n, structural |-> k.structural]
    BY <1>2
  <2> QED BY <1>2, <1>4, <2>1 DEF IsBooked
<1>5. ASSUME NEW b \in BOOLEAN
      PROVE  IsBooked([k EXCEPT !.structural = b]) /\ [k EXCEPT !.structural = b].key = k.key
  <2>1. [k EXCEPT !.structural = b] =
          [key |-> k.key, id |-> k.id, amount |-> k.amount, category |-> k.category,
           note |-> k.note, structural |-> b]
    BY <1>2
  <2> QED BY <1>2, <2>1 DEF IsBooked
<1>6. ASSUME NEW by, Replace(k, by) PROVE ownerEdits' = ownerEdits + 1 /\ ownerEdits \in Nat
  BY <1>6, CorpusAssumption DEF Replace, CorpusInv, CorpusTypeOK
<1>7. CASE Recategorize(k)
  <2>1. PICK c : Replace(k, {[k EXCEPT !.category = c]}) BY <1>7 DEF Recategorize
  <2> DEFINE new == [k EXCEPT !.category = c]
  <2>2. IsBooked(new) /\ new.key = k.key BY <1>3
  <2> HIDE DEF new
  <2>3. Replace(k, {new}) BY <2>1 DEF new
  <2> QED BY <1>6, <2>2, <2>3, OwnerStep
<1>8. CASE Annotate(k)
  <2>1. PICK n \in OwnerNote : Replace(k, {[k EXCEPT !.note = n]}) BY <1>8 DEF Annotate
  <2>2. IsNote(n) BY <2>1, CorpusAssumption
  <2> DEFINE new == [k EXCEPT !.note = n]
  <2>3. IsBooked(new) /\ new.key = k.key BY <1>4, <2>2
  <2> HIDE DEF new
  <2>4. Replace(k, {new}) BY <2>1 DEF new
  <2> QED BY <1>6, <2>3, <2>4, OwnerStep
<1>9. CASE Restructure(k)
  <2> DEFINE b == TRUE
             new == [k EXCEPT !.structural = b]
  <2>1. IsBooked(new) /\ new.key = k.key
    <3> b \in BOOLEAN OBVIOUS
    <3> HIDE DEF b
    <3> QED BY <1>5
  <2>2. Replace(k, {new}) BY <1>9 DEF Restructure
  <2> HIDE DEF new
  <2> QED BY <1>6, <2>1, <2>2, OwnerStep
<1>10. CASE RemoveRow(k)
  <2>1. Replace(k, {}) BY <1>10 DEF RemoveRow
  <2> QED BY <1>6, <2>1, OwnerStep
<1> QED BY <1>7, <1>8, <1>9, <1>10

LEMMA CorpusStep == CorpusInv /\ [CorpusNext]_corpusVars => CorpusInv'
<1> SUFFICES ASSUME CorpusInv, [CorpusNext]_corpusVars PROVE CorpusInv'
  OBVIOUS
<1>1. CASE UNCHANGED corpusVars
  <2>1. CorpusTypeOK' BY <1>1 DEF CorpusInv, CorpusTypeOK, corpusVars
  <2>2. (corpusPlan # NoPlan => \A c \in corpusPlan.changes : \E x : Planable(x) /\ c = Change(x))'
    BY <1>1, SamePlan DEF corpusVars
  <2> QED BY <1>1, <2>1, <2>2 DEF CorpusInv, corpusVars
<1> QED BY <1>1, PlanMigrationStep, PlanCleanupStep, ApplyCleanupStep, OwnerEdit DEF CorpusNext

LEMMA CleanupTidies == CorpusInv /\ [CorpusNext]_corpusVars => CleanupOnlyTidies
<1> SUFFICES ASSUME CorpusInv, [CorpusNext]_corpusVars PROVE CleanupOnlyTidies
  OBVIOUS
<1>1. ASSUME booked' = booked PROVE CleanupOnlyTidies
  <2>1. \A k, other \in booked : k.key = other.key => k = other BY DEF CorpusInv
  <2> QED BY <1>1, <2>1 DEF CleanupOnlyTidies
<1>2. CASE ApplyCleanup BY <1>2, ApplyCleanupStep DEF CleanupOnlyTidies
<1>3. CASE PlanMigration \/ PlanCleanup \/ UNCHANGED corpusVars
  BY <1>1, <1>3 DEF PlanMigration, PlanCleanup, corpusVars
<1>4. CASE \E k \in booked : Recategorize(k) \/ Annotate(k) \/ Restructure(k) \/ RemoveRow(k)
  BY <1>4, OwnerEdit DEF CleanupOnlyTidies
<1> QED BY <1>2, <1>3, <1>4 DEF CorpusNext

LEMMA CorpusAlways == CorpusSpec => []CorpusInv
BY CorpusInitInv, CorpusStep, PTL DEF CorpusSpec

(* The shape of rows and plans, in every reachable state.                   *)
THEOREM CorpusTyped == CorpusSpec => []CorpusTypeOK
<1>1. CorpusInv => CorpusTypeOK BY DEF CorpusInv
<1> QED BY <1>1, CorpusAlways, PTL

(* Whatever the owner does between a plan and its use: a plan loses nothing *)
(* that was written by hand, replaces no category that was chosen, and when *)
(* it still passes its preflight it is the plan that would be made now.     *)
THEOREM PlansAlwaysKeep == CorpusSpec => []PlansKeepTheOwnersWork
<1>1. CorpusInv => PlansKeepTheOwnersWork BY PlansKeep
<1> QED BY <1>1, CorpusAlways, PTL

(* However often a cleanup is cut off and run again: it rewrites the notes  *)
(* of rows that are as it found them, and nothing else.                     *)
THEOREM CleanupsOnlyTidy == CorpusSpec => [][CleanupOnlyTidies]_corpusVars
<1>1. CorpusInv /\ [CorpusNext]_corpusVars => [CleanupOnlyTidies]_corpusVars BY CleanupTidies
<1> QED BY <1>1, CorpusAlways, PTL DEF CorpusSpec

-----------------------------------------------------------------------------
(* The table migration and the inventory fence.                             *)

(* Finite sets.                                                             *)

LEMMA FiniteGreatest ==
  ASSUME NEW S, S \subseteq Int, S # {}, IsFiniteSet(S)
  PROVE  \E m \in S : \A x \in S : x <= m
<1> DEFINE NoGreatest(U) == U # {} /\ \A m \in U : \E x \in U : ~(x <= m)
           Sizes == {Cardinality(U) : U \in {V \in SUBSET S : NoGreatest(V)}}
<1> SUFFICES ASSUME NoGreatest(S) PROVE FALSE
  OBVIOUS
<1> HIDE DEF NoGreatest
<1>1. ASSUME NEW U \in SUBSET S PROVE IsFiniteSet(U) /\ Cardinality(U) \in Nat
  BY FS_Subset, FS_CardinalityType
<1>2. Sizes \subseteq Nat BY <1>1
<1>3. Cardinality(S) \in Sizes OBVIOUS
<1>4. Sizes # {} BY <1>3
<1>5. PICK n \in Sizes : \A m \in Sizes : n <= m BY <1>2, <1>4, LeastNumber
<1>6. PICK U \in SUBSET S : NoGreatest(U) /\ n = Cardinality(U) BY <1>5
<1>7. PICK x \in U : TRUE BY <1>6 DEF NoGreatest
<1> DEFINE V == U \ {x}
<1>8. Cardinality(V) = n - 1 BY <1>1, <1>6, <1>7, FS_RemoveElement
<1>9. ~NoGreatest(V)
  <2>1. SUFFICES ASSUME NoGreatest(V) PROVE FALSE
    OBVIOUS
  <2>2. Cardinality(V) \in Sizes BY <1>6, <2>1
  <2>3. n <= Cardinality(V) /\ n \in Nat BY <1>2, <1>5, <2>2
  <2> QED BY <1>8, <2>3
<1>10. x \in Int /\ U \subseteq Int BY <1>6, <1>7
<1>11. CASE V = {}
  <2>1. \A y \in U : y = x BY <1>11
  <2>2. \A y \in U : y <= x BY <1>10, <2>1
  <2> QED BY <1>6, <1>7, <2>2 DEF NoGreatest
<1>12. CASE V # {}
  <2>1. PICK m \in V : \A y \in V : y <= m BY <1>9, <1>12 DEF NoGreatest
  <2>2. m \in U /\ m \in Int BY <1>10, <2>1
  <2>3. CASE x <= m
    <3>1. \A y \in U : y <= m BY <2>1, <2>3
    <3> QED BY <1>6, <2>2, <3>1 DEF NoGreatest
  <2>4. CASE ~(x <= m)
    <3>1. \A y \in U : y <= x
      <4> TAKE y \in U
      <4>1. y \in Int /\ (y # x => y <= m) BY <1>10, <2>1
      <4> QED BY <1>10, <2>2, <2>4, <4>1
    <3> QED BY <1>6, <1>7, <3>1 DEF NoGreatest
  <2> QED BY <2>3, <2>4
<1> QED BY <1>11, <1>12

LEMMA OneAtMost ==
  ASSUME NEW S, IsFiniteSet(S), Cardinality(S) <= 1
  PROVE  \A x, y \in S : x = y
<1>1. Cardinality(S) \in Nat BY FS_CardinalityType
<1>2. CASE Cardinality(S) = 0 BY <1>2, FS_EmptySet
<1>3. CASE Cardinality(S) = 1
  <2>1. \E x : S = {x} BY <1>3, FS_Singleton
  <2> QED BY <2>1
<1> QED BY <1>1, <1>2, <1>3

LEMMA ExactlyOne ==
  ASSUME NEW S, NEW x \in S, \A y \in S : y = x
  PROVE  Cardinality(S) = 1
<1>1. S = {x} OBVIOUS
<1>2. Cardinality({x}) = 1 BY FS_Singleton
<1> QED BY <1>1, <1>2

-----------------------------------------------------------------------------
(* merge_non_null.                                                          *)

LEMMA MergeIs ==
  ASSUME NEW V, NEW v \in V, v # Null, \A w \in V : w = v \/ w = Null
  PROVE  Merge(V) = v
BY DEF Merge

LEMMA MergeOf ==
  ASSUME NEW V
  PROVE  Merge(V) = Null \/ Merge(V) \in V
BY DEF Merge

LEMMA MergeFinds ==
  ASSUME NEW V, Merge(V) = Null
  PROVE  \A v \in V : v = Null
BY DEF Merge

LEMMA MergeAgreed ==
  ASSUME NEW V, IsFiniteSet(V), Agree(V), NEW v \in V, v # Null
  PROVE  Merge(V \cup {Null}) = v
<1>1. IsFiniteSet(V \ {Null}) BY FS_Subset
<1>2. \A x, y \in V \ {Null} : x = y BY <1>1, OneAtMost DEF Agree
<1>3. \A w \in V \cup {Null} : w = v \/ w = Null BY <1>2
<1> HIDE DEF Agree
<1> QED BY <1>3, MergeIs

-----------------------------------------------------------------------------
(* Rows.                                                                    *)

SoundRows(old) ==
  /\ \A rows \in {old.outbox, old.verification, old.reconciliation, old.cursor, old.receipt, old.archive,
                  old.operation} : IsFiniteSet(rows)
  /\ \A o \in old.outbox : o.at \in Nat
  /\ \A v \in old.verification \cup old.reconciliation : v.version \in Nat
  /\ \A r \in old.receipt : r.at \in Nat

LEMMA SourceSound ==
  ASSUME MigrationTypeOK
  PROVE  SoundRows(source)
<1> DEFINE Tables == {"outbox", "verification", "reconciliation", "cursor", "receipt", "archive", "operation"}
<1>1. /\ writable = [table \in Tables |-> writable[table]]
      /\ \A table \in DOMAIN writable : IsFiniteSet(writable[table])
      /\ \A o \in writable.outbox : o.at \in Nat
      /\ \A v \in writable.verification \cup writable.reconciliation : v.version \in Nat
      /\ \A r \in writable.receipt : r.at \in Nat
  BY MigrationAssumption DEF MigrationTypeOK
<1>2. \A table \in Tables : source[table] \subseteq writable[table]
  BY <1>1 DEF MigrationTypeOK
<1>3. \A table \in Tables : IsFiniteSet(source[table])
  <2> TAKE table \in Tables
  <2>1. IsFiniteSet(writable[table]) /\ source[table] \in SUBSET writable[table] BY <1>1, <1>2
  <2> QED BY <2>1, FS_Subset
<1> QED BY <1>1, <1>2, <1>3 DEF SoundRows

-----------------------------------------------------------------------------
(* Batches.                                                                 *)

LEMMA PrecedenceNat ==
  ASSUME NEW o
  PROVE  /\ Precedence(o) \in 0 .. 4
         /\ Precedence(o) = 4 <=> o.state = "COMMITTED"
BY DEF Precedence

\* One row of an imported id outranks the others.
LEMMA OneCommitted ==
  ASSUME NEW old, SoundRows(old), NEW a \in CommittedOutboxes(old.outbox),
         NEW b \in CommittedOutboxes(old.outbox), a.imported = b.imported
  PROVE  a = b
<1> SUFFICES ASSUME a # b PROVE FALSE
  OBVIOUS
<1>1. Outranks(a, b) /\ Outranks(b, a) BY DEF CommittedOutboxes
<1>2. a.at \in Nat /\ b.at \in Nat BY DEF SoundRows, CommittedOutboxes
<1> QED BY <1>1, <1>2, PrecedenceNat DEF Outranks

BatchOf(old, o) ==
  LET outboxes == CommittedOutboxes(old.outbox)
  IN [imported |-> o.imported, batch |-> o.id, state |-> o.state,
      verification |-> Merge({v.version : v \in Latest(old.verification, o)} \cup {Null}),
      reconciliation |->
        Merge({r.version : r \in {s \in Winners(old.reconciliation) :
                                    o \in Matches(s, outboxes, old.verification)}} \cup {Null})]

LEMMA BatchesAre ==
  ASSUME NEW old
  PROVE  Batches(old) = {BatchOf(old, o) : o \in CommittedOutboxes(old.outbox)}
BY DEF Batches, BatchOf

LEMMA BatchFields ==
  ASSUME NEW old, NEW o
  PROVE  LET b == BatchOf(old, o)
             outboxes == CommittedOutboxes(old.outbox)
         IN /\ b.imported = o.imported /\ b.batch = o.id /\ b.state = o.state
            /\ b.verification = Merge({v.version : v \in Latest(old.verification, o)} \cup {Null})
            /\ b.reconciliation =
                 Merge({r.version : r \in {s \in Winners(old.reconciliation) :
                                             o \in Matches(s, outboxes, old.verification)}} \cup {Null})
<1> DEFINE V == Merge({v.version : v \in Latest(old.verification, o)} \cup {Null})
           R == Merge({r.version : r \in {s \in Winners(old.reconciliation) :
                         o \in Matches(s, CommittedOutboxes(old.outbox), old.verification)}} \cup {Null})
<1>1. BatchOf(old, o) = [imported |-> o.imported, batch |-> o.id, state |-> o.state,
                         verification |-> V, reconciliation |-> R]
  BY DEF BatchOf
<1> HIDE DEF V, R
<1>2. /\ BatchOf(old, o).imported = o.imported /\ BatchOf(old, o).batch = o.id /\ BatchOf(old, o).state = o.state
      /\ BatchOf(old, o).verification = V /\ BatchOf(old, o).reconciliation = R
  BY <1>1
<1> QED BY <1>2 DEF V, R

LEMMA OneBatch ==
  ASSUME NEW old, SoundRows(old), OutboxesAreClear(old.outbox), NEW o \in old.outbox
  PROVE  /\ Cardinality({b \in Batches(old) : b.imported = o.imported}) = 1
         /\ o.state = "COMMITTED" =>
              \E b \in Batches(old) : b.imported = o.imported /\ b.state = "COMMITTED"
<1>1. PICK a \in CommittedOutboxes(old.outbox) : a.imported = o.imported BY DEF OutboxesAreClear
<1>2. BatchOf(old, a) \in {b \in Batches(old) : b.imported = o.imported} BY <1>1, BatchesAre, BatchFields
<1>3. ASSUME NEW b \in {c \in Batches(old) : c.imported = o.imported} PROVE b = BatchOf(old, a)
  <2>1. PICK c \in CommittedOutboxes(old.outbox) : b = BatchOf(old, c) BY <1>3, BatchesAre
  <2>2. c.imported = a.imported BY <1>1, <1>3, <2>1, BatchFields
  <2> QED BY <2>1, <2>2, OneCommitted
<1>4. Cardinality({b \in Batches(old) : b.imported = o.imported}) = 1 BY <1>2, <1>3, ExactlyOne
<1>5. ASSUME o.state = "COMMITTED" PROVE a.state = "COMMITTED"
  <2>1. CASE a = o BY <1>5, <2>1
  <2>2. CASE a # o
    <3>1. Outranks(a, o) BY <1>1, <2>2 DEF CommittedOutboxes
    <3>2. Precedence(o) = 4 BY <1>5, PrecedenceNat
    <3>3. Precedence(a) \in 0 .. 4 BY PrecedenceNat
    <3>4. Precedence(a) = 4 BY <3>1, <3>2, <3>3 DEF Outranks
    <3> QED BY <3>4, PrecedenceNat
  <2> QED BY <2>1, <2>2
<1> DEFINE batch == BatchOf(old, a)
<1>6. batch.state = a.state /\ batch.imported = a.imported BY BatchFields
<1>7. batch \in Batches(old) BY <1>2
<1> HIDE DEF batch
<1> QED BY <1>1, <1>4, <1>5, <1>6, <1>7

\* The latest verification of a selected row.
LEMMA OneLatest ==
  ASSUME NEW old, SoundRows(old), NEW outboxes, VerificationsAreClear(old.verification, outboxes),
         NEW o \in outboxes, NEW v \in Latest(old.verification, o)
  PROVE  Merge({w.version : w \in Latest(old.verification, o)} \cup {Null}) = v.version
<1>1. IsFiniteSet(Latest(old.verification, o)) BY FS_Subset DEF Latest, SoundRows
<1>2. \A w \in Latest(old.verification, o) : w = v BY <1>1, OneAtMost DEF VerificationsAreClear
<1>3. v.version \in Nat BY DEF Latest, SoundRows
<1>4. v.version # Null BY <1>3, MigrationAssumption
<1> DEFINE V == {w.version : w \in Latest(old.verification, o)} \cup {Null}
<1>5. v.version \in V OBVIOUS
<1>6. \A w \in V : w = v.version \/ w = Null BY <1>2
<1> HIDE DEF V
<1>7. Merge(V) = v.version BY <1>4, <1>5, <1>6, MergeIs
<1> QED BY <1>7 DEF V

\* A reconciliation loses to a later one of its period at most.
LEMMA WinnerExists ==
  ASSUME NEW old, SoundRows(old), NEW r \in old.reconciliation
  PROVE  \E s \in Winners(old.reconciliation) : s.period = r.period /\ s.version >= r.version
<1> DEFINE rivals == {s \in old.reconciliation : s.period = r.period}
           versions == {s.version : s \in rivals}
<1>1. \A s \in rivals : s.version \in Nat BY DEF SoundRows
<1>2. IsFiniteSet(rivals) BY FS_Subset DEF SoundRows
<1>3. IsFiniteSet(versions)
  <2> DEFINE f == [s \in rivals |-> s.version]
  <2>1. f \in Surjection(rivals, versions) BY DEF Surjection
  <2> HIDE DEF f, rivals, versions
  <2> QED BY <1>2, <2>1, FS_Surjection
<1>4. versions \subseteq Int /\ r.version \in versions BY <1>1
<1>5. PICK m \in versions : \A n \in versions : n <= m
  <2> HIDE DEF versions
  <2> QED BY <1>3, <1>4, FiniteGreatest
<1>6. PICK s \in rivals : s.version = m BY <1>5
<1>7. \A t \in rivals : t.version <= s.version BY <1>5, <1>6
<1>8. s \in Winners(old.reconciliation) BY <1>7 DEF Winners
<1>9. s.version >= r.version BY <1>1, <1>7
<1> QED BY <1>8, <1>9

LEMMA OneMatch ==
  ASSUME NEW old, SoundRows(old), NEW r \in old.reconciliation,
         ReconciliationsAreClear(old.reconciliation, CommittedOutboxes(old.outbox), old.verification)
  PROVE  \E o \in CommittedOutboxes(old.outbox) :
           Matches(r, CommittedOutboxes(old.outbox), old.verification) = {o}
<1> DEFINE M == Matches(r, CommittedOutboxes(old.outbox), old.verification)
<1>1. IsFiniteSet(M) BY FS_Subset DEF Matches, CommittedOutboxes, SoundRows
<1>2. Cardinality(M) = 1 BY DEF ReconciliationsAreClear
<1>3. M \subseteq CommittedOutboxes(old.outbox) BY DEF Matches
<1> HIDE DEF M
<1>4. PICK o : M = {o} BY <1>1, <1>2, FS_Singleton
<1> QED BY <1>3, <1>4 DEF M

LEMMA ReconciliationKept ==
  ASSUME NEW old, SoundRows(old), BatchesAreClear(old), NEW r \in old.reconciliation
  PROVE  \/ \E b \in Batches(old) :
              /\ b.reconciliation # Null /\ b.reconciliation >= r.version
              /\ \E v \in old.verification :
                   v.outbox = b.batch /\ v.version = b.verification /\ v.sha = r.sha
         \/ \E o \in CommittedOutboxes(old.outbox) : o.period = r.period /\ PeriodShared(old, o)
<1> DEFINE outboxes == CommittedOutboxes(old.outbox)
<1>1. /\ VerificationsAreClear(old.verification, outboxes)
      /\ ReconciliationsAreClear(old.reconciliation, outboxes, old.verification)
  BY DEF BatchesAreClear
<1>2. PICK o \in outboxes : Matches(r, outboxes, old.verification) = {o} BY <1>1, OneMatch
<1>3. PICK v \in Latest(old.verification, o) : v.sha = r.sha BY <1>2 DEF Matches
<1>4. o.period = r.period BY <1>2 DEF Matches
<1>5. PICK s \in Winners(old.reconciliation) : s.period = r.period /\ s.version >= r.version
  BY WinnerExists
<1>6. s \in old.reconciliation BY DEF Winners
<1>7. PICK p \in outboxes : Matches(s, outboxes, old.verification) = {p} BY <1>1, <1>6, OneMatch
<1>8. p.period = r.period BY <1>5, <1>7 DEF Matches
<1>9. CASE p # o
  BY <1>2, <1>4, <1>7, <1>8, <1>9 DEF PeriodShared
<1>10. CASE p = o
  <2> DEFINE b == BatchOf(old, o)
             won == {t \in Winners(old.reconciliation) : o \in Matches(t, outboxes, old.verification)}
             V == {t.version : t \in won} \cup {Null}
  <2>1. b \in Batches(old) BY BatchesAre
  <2>2. b.batch = o.id /\ b.verification = v.version
    <3> DEFINE W == {w.version : w \in Latest(old.verification, o)} \cup {Null}
    <3>1. Merge(W) = v.version BY <1>1, <1>3, OneLatest
    <3>2. b.batch = o.id /\ b.verification = Merge(W) BY BatchFields
    <3> HIDE DEF W, b
    <3> QED BY <3>1, <3>2
  <2>3. s \in won BY <1>7, <1>10
  <2>4. \A t \in won : t = s
    <3> TAKE t \in won
    <3>1. t.period = o.period BY DEF Matches
    <3> QED BY <1>1, <1>4, <1>5, <3>1 DEF ReconciliationsAreClear
  <2>5. s.version \in Nat /\ s.version # Null BY <1>6, MigrationAssumption DEF SoundRows
  <2>6. s.version \in V /\ \A w \in V : w = s.version \/ w = Null BY <2>3, <2>4
  <2>7. b.reconciliation = Merge(V) BY BatchFields
  <2> HIDE DEF V, b, won
  <2>8. b.reconciliation = s.version BY <2>5, <2>6, <2>7, MergeIs
  <2>9. v \in old.verification /\ v.outbox = o.id BY <1>3 DEF Latest
  <2> QED BY <1>3, <1>5, <2>1, <2>2, <2>5, <2>8, <2>9
<1> QED BY <1>9, <1>10

LEMMA BatchesFaithful ==
  ASSUME NEW old, SoundRows(old), BatchesAreClear(old)
  PROVE  BatchesAreFaithful(old)
<1>1. \A o \in old.outbox :
        /\ Cardinality({b \in Batches(old) : b.imported = o.imported}) = 1
        /\ o.state = "COMMITTED" =>
             \E b \in Batches(old) : b.imported = o.imported /\ b.state = "COMMITTED"
  BY OneBatch DEF BatchesAreClear
<1> QED BY <1>1, ReconciliationKept DEF BatchesAreFaithful

-----------------------------------------------------------------------------
(* Ingestion.                                                               *)

LEMMA LatestExists ==
  ASSUME NEW old, SoundRows(old), NEW code, Verified(old.receipt, code) # {}
  PROVE  LatestReceipt(old.receipt, code) # {}
<1> DEFINE given == Verified(old.receipt, code)
           instants == {r.at : r \in given}
<1>1. \A r \in given : r.at \in Nat BY DEF SoundRows, Verified
<1>2. IsFiniteSet(given) BY FS_Subset DEF SoundRows, Verified
<1>3. IsFiniteSet(instants)
  <2> DEFINE f == [r \in given |-> r.at]
  <2>1. f \in Surjection(given, instants) BY DEF Surjection
  <2> HIDE DEF f, given, instants
  <2> QED BY <1>2, <2>1, FS_Surjection
<1>4. instants \subseteq Int /\ instants # {} BY <1>1
<1>5. PICK m \in instants : \A n \in instants : n <= m
  <2> HIDE DEF instants
  <2> QED BY <1>3, <1>4, FiniteGreatest
<1>6. PICK r \in given : r.at = m BY <1>5
<1>7. \A s \in given : s.at <= r.at BY <1>5, <1>6
<1> QED BY <1>7 DEF LatestReceipt

IngestionOf(old, code) ==
  LET cursors == {c \in old.cursor : c.source = code}
      heard == ReceiptOf(old.cursor, old.receipt, code)
  IN [source |-> code,
      run |-> Merge({c.run : c \in cursors} \cup {r.run : r \in heard} \cup {Null}),
      heartbeat |-> Merge({r.at : r \in heard} \cup {Null})]

LEMMA IngestionFields ==
  ASSUME NEW old, NEW code
  PROVE  LET cursors == {c \in old.cursor : c.source = code}
             heard == ReceiptOf(old.cursor, old.receipt, code)
             i == IngestionOf(old, code)
         IN /\ i.source = code
            /\ i.run = Merge({c.run : c \in cursors} \cup {r.run : r \in heard} \cup {Null})
            /\ i.heartbeat = Merge({r.at : r \in heard} \cup {Null})
<1> DEFINE R == Merge({c.run : c \in {c \in old.cursor : c.source = code}}
                        \cup {r.run : r \in ReceiptOf(old.cursor, old.receipt, code)} \cup {Null})
           H == Merge({r.at : r \in ReceiptOf(old.cursor, old.receipt, code)} \cup {Null})
<1>1. IngestionOf(old, code) = [source |-> code, run |-> R, heartbeat |-> H] BY DEF IngestionOf
<1> HIDE DEF R, H
<1>2. /\ IngestionOf(old, code).source = code /\ IngestionOf(old, code).run = R
      /\ IngestionOf(old, code).heartbeat = H
  BY <1>1
<1> QED BY <1>2 DEF R, H

LEMMA IngestionFaithful ==
  ASSUME NEW old, SoundRows(old), IngestionIsClear(old)
  PROVE  IngestionIsFaithful(old)
<1> SUFFICES ASSUME NEW c \in old.cursor, c.run # Null
             PROVE  \E i \in Ingestion(old) :
                      /\ i.source = c.source /\ i.run = c.run
                      /\ i.heartbeat # Null =>
                           \E r \in Verified(old.receipt, c.source) : r.run = c.run /\ r.at = i.heartbeat
                      /\ (\E r \in Verified(old.receipt, c.source) : r.run = c.run) /\ i.heartbeat = Null
                           => \E s \in Verified(old.receipt, c.source) : s.run # c.run
  BY DEF IngestionIsFaithful
<1> DEFINE code == c.source
           heard == ReceiptOf(old.cursor, old.receipt, code)
           i == IngestionOf(old, code)
           R == {d.run : d \in {d \in old.cursor : d.source = code}} \cup {r.run : r \in heard} \cup {Null}
           H == {r.at : r \in heard} \cup {Null}
<1>1. i \in Ingestion(old)
  <2>1. code \in {d.source : d \in old.cursor} OBVIOUS
  <2> QED BY <2>1 DEF Ingestion, IngestionOf
<1>2. i.source = code /\ i.run = Merge(R) /\ i.heartbeat = Merge(H) BY IngestionFields
<1>3. \A r \in heard : r \in Verified(old.receipt, code) /\ r.run = c.run
  BY DEF ReceiptOf, LatestReceipt
<1>4. c.run \in R OBVIOUS
<1>5. \A w \in R : w = c.run \/ w = Null BY <1>3 DEF IngestionIsClear
<1> HIDE DEF R
<1>6. i.run = c.run BY <1>2, <1>4, <1>5, MergeIs
<1>7. ASSUME i.heartbeat # Null
      PROVE  \E r \in Verified(old.receipt, code) : r.run = c.run /\ r.at = i.heartbeat
  <2>1. i.heartbeat \in H
    <3> HIDE DEF H, i
    <3> QED BY <1>2, <1>7, MergeOf
  <2>2. PICK r \in heard : r.at = i.heartbeat BY <1>7, <2>1
  <2> QED BY <1>3, <2>2
<1>8. ASSUME NEW r \in Verified(old.receipt, code), i.heartbeat = Null
      PROVE  \E s \in Verified(old.receipt, code) : s.run # c.run
  <2>1. PICK l \in LatestReceipt(old.receipt, code) : TRUE BY LatestExists
  <2>2. \A w \in H : w = Null
    <3> HIDE DEF H, i
    <3> QED BY <1>2, <1>8, MergeFinds
  <2>3. l.at \in Nat BY DEF LatestReceipt, Verified, SoundRows
  <2>4. l \notin heard BY <2>2, <2>3, MigrationAssumption
  <2>5. PICK d \in old.cursor : d.source = code /\ d.run \notin {Null, l.run} BY <2>4 DEF ReceiptOf
  <2>6. d = c BY <2>5 DEF IngestionIsClear
  <2>7. l \in Verified(old.receipt, code) BY DEF LatestReceipt
  <2> QED BY <2>5, <2>6, <2>7
<1> HIDE DEF i
<1> QED BY <1>1, <1>2, <1>6, <1>7, <1>8

-----------------------------------------------------------------------------
(* Documents.                                                               *)

DocumentOf(old, id) ==
  [id |-> id, archived |-> Archived(old, id) # {},
   profile |-> Merge({o.profile : o \in Operated(old, id)} \cup {Null}),
   code |-> Merge({r.code : r \in Archived(old, id) \cup Operated(old, id)} \cup {Null})]

LEMMA DocumentFields ==
  ASSUME NEW old, NEW id
  PROVE  LET d == DocumentOf(old, id)
         IN /\ d.id = id /\ d.archived = (Archived(old, id) # {})
            /\ d.profile = Merge({o.profile : o \in Operated(old, id)} \cup {Null})
            /\ d.code = Merge({r.code : r \in Archived(old, id) \cup Operated(old, id)} \cup {Null})
<1> DEFINE A == Archived(old, id) # {}
           P == Merge({o.profile : o \in Operated(old, id)} \cup {Null})
           C == Merge({r.code : r \in Archived(old, id) \cup Operated(old, id)} \cup {Null})
<1>1. DocumentOf(old, id) = [id |-> id, archived |-> A, profile |-> P, code |-> C] BY DEF DocumentOf
<1> HIDE DEF A, P, C
<1>2. /\ DocumentOf(old, id).id = id /\ DocumentOf(old, id).archived = A
      /\ DocumentOf(old, id).profile = P /\ DocumentOf(old, id).code = C
  BY <1>1
<1> QED BY <1>2 DEF A, P, C

LEMMA DocumentsAre ==
  ASSUME NEW old
  PROVE  Documents(old) = {DocumentOf(old, id) : id \in DocumentIds(old)}
BY DEF Documents, DocumentOf

\* One document for an identity.
LEMMA OneDocument ==
  ASSUME NEW old, NEW id \in DocumentIds(old), NEW D, DocumentOf(old, id) \in D,
         \A d \in D : d \in Documents(old) /\ d.id = id
  PROVE  Cardinality(D) = 1
<1> DEFINE doc == DocumentOf(old, id)
<1>1. ASSUME NEW d \in D PROVE d = doc
  <2>1. PICK other \in DocumentIds(old) : d = DocumentOf(old, other) BY DocumentsAre
  <2>2. d.id = other BY <2>1, DocumentFields
  <2> QED BY <2>1, <2>2
<1> HIDE DEF doc
<1>2. doc \in D BY DEF doc
<1> QED BY <1>1, <1>2, ExactlyOne

LEMMA ArchivedDocument ==
  ASSUME NEW old, NEW id, Archived(old, id) # {}
  PROVE  DocumentOf(old, id).archived
<1> DEFINE A == Archived(old, id) # {}
           P == Merge({o.profile : o \in Operated(old, id)} \cup {Null})
           C == Merge({r.code : r \in Archived(old, id) \cup Operated(old, id)} \cup {Null})
<1>1. DocumentOf(old, id) = [id |-> id, archived |-> A, profile |-> P, code |-> C] BY DEF DocumentOf
<1>2. A OBVIOUS
<1> HIDE DEF A, P, C
<1> QED BY <1>1, <1>2

LEMMA FiniteDocument ==
  ASSUME NEW old, SoundRows(old), NEW id
  PROVE  /\ IsFiniteSet({r.code : r \in Archived(old, id) \cup Operated(old, id)})
         /\ IsFiniteSet({o.profile : o \in Operated(old, id)})
<1> DEFINE rows == Archived(old, id) \cup Operated(old, id)
<1>1. IsFiniteSet(Archived(old, id)) /\ IsFiniteSet(Operated(old, id))
  BY FS_Subset DEF SoundRows, Archived, Operated
<1>2. IsFiniteSet(rows) BY <1>1, FS_Union
<1>3. IsFiniteSet({r.code : r \in rows})
  <2> DEFINE f == [r \in rows |-> r.code]
             T == {r.code : r \in rows}
  <2>1. f \in Surjection(rows, T) BY DEF Surjection
  <2> HIDE DEF f, rows, T
  <2>2. IsFiniteSet(T) BY <1>2, <2>1, FS_Surjection
  <2> QED BY <2>2 DEF T
<1>4. IsFiniteSet({o.profile : o \in Operated(old, id)})
  <2> DEFINE f == [o \in Operated(old, id) |-> o.profile]
             T == {o.profile : o \in Operated(old, id)}
  <2>1. f \in Surjection(Operated(old, id), T) BY DEF Surjection
  <2> HIDE DEF f, T
  <2>2. IsFiniteSet(T) BY <1>1, <2>1, FS_Surjection
  <2> QED BY <2>2 DEF T
<1> QED BY <1>3, <1>4

LEMMA ArchiveInOne ==
  ASSUME NEW old, SoundRows(old), DocumentsAreClear(old), NEW a \in old.archive
  PROVE  Cardinality({d \in Documents(old) : d.id = ArchiveIdentity(a) /\ d.archived /\ d.code = a.code}) = 1
<1> DEFINE id == ArchiveIdentity(a)
           doc == DocumentOf(old, id)
           codes == {r.code : r \in Archived(old, id) \cup Operated(old, id)}
<1>1. id \in DocumentIds(old) BY DEF DocumentIds
<1>2. a \in Archived(old, id) BY DEF Archived
<1>3. a.code \in codes /\ a.code # Null BY <1>2 DEF DocumentsAreClear
<1>4. Agree(codes) BY <1>1 DEF DocumentsAreClear
<1>4a. IsFiniteSet(codes)
  <2> HIDE DEF id
  <2> QED BY FiniteDocument
<1>5a. doc.code = Merge(codes \cup {Null})
  <2> HIDE DEF id
  <2> QED BY DocumentFields
<1> HIDE DEF codes, doc
<1>6. doc.code = a.code BY <1>3, <1>4, <1>4a, <1>5a, MergeAgreed
<1>7. doc.archived
  <2>1. Archived(old, id) # {} BY <1>2
  <2> HIDE DEF id
  <2> QED BY <2>1, ArchivedDocument DEF doc
<1> DEFINE D == {d \in Documents(old) : d.id = id /\ d.archived /\ d.code = a.code}
<1>8. doc \in Documents(old) /\ doc.id = id BY <1>1, DocumentsAre, DocumentFields DEF doc
<1>9. doc \in D BY <1>6, <1>7, <1>8
<1>10. \A d \in D : d \in Documents(old) /\ d.id = id OBVIOUS
<1> HIDE DEF D
<1>11. Cardinality(D) = 1 BY <1>1, <1>9, <1>10, OneDocument DEF doc
<1> QED BY <1>11 DEF D

LEMMA OperationInOne ==
  ASSUME NEW old, SoundRows(old), DocumentsAreClear(old), NEW o \in old.operation
  PROVE  /\ Identity(o) \in DocumentIds(old) /\ DocumentOf(old, Identity(o)).profile = o.profile
         /\ Cardinality({d \in Documents(old) : d.id = Identity(o) /\ d.profile = o.profile}) = 1
<1> DEFINE id == Identity(o)
           doc == DocumentOf(old, id)
           profiles == {p.profile : p \in Operated(old, id)}
<1>1. id \in DocumentIds(old) BY DEF DocumentIds
<1>2. o \in Operated(old, id) BY DEF Operated
<1>3. o.profile \in profiles /\ o.profile # Null BY <1>2 DEF DocumentsAreClear
<1>4. IsFiniteSet(profiles) /\ Agree(profiles) BY <1>1, FiniteDocument DEF DocumentsAreClear
<1>5. doc.profile = Merge(profiles \cup {Null}) BY DocumentFields
<1> HIDE DEF profiles, doc
<1>6. doc.profile = o.profile BY <1>3, <1>4, <1>5, MergeAgreed
<1> DEFINE D == {d \in Documents(old) : d.id = id /\ d.profile = o.profile}
<1>8. doc \in Documents(old) /\ doc.id = id BY <1>1, DocumentsAre, DocumentFields DEF doc
<1>9. doc \in D BY <1>6, <1>8
<1>10. \A d \in D : d \in Documents(old) /\ d.id = id OBVIOUS
<1> HIDE DEF D
<1>11. Cardinality(D) = 1 BY <1>1, <1>9, <1>10, OneDocument DEF doc
<1> QED BY <1>1, <1>6, <1>11 DEF doc, D

\* A document has no profile but of an operation.
LEMMA FewProfiles ==
  ASSUME NEW old, SoundRows(old)
  PROVE  Cardinality({d.profile : d \in Documents(old)} \ {Null}) <= Cardinality(old.operation)
<1> DEFINE known == {o.profile : o \in old.operation}
           shown == {d.profile : d \in Documents(old)} \ {Null}
           f == [o \in old.operation |-> o.profile]
<1>1. IsFiniteSet(old.operation) BY DEF SoundRows
<1>2. f \in Surjection(old.operation, known) BY DEF Surjection
<1>3. shown \subseteq known
  <2>1. ASSUME NEW d \in Documents(old), d.profile # Null PROVE d.profile \in known
    <3>1. PICK id : d = DocumentOf(old, id) BY DocumentsAre
    <3> DEFINE profiles == {o.profile : o \in Operated(old, id)}
    <3>2. d.profile = Merge(profiles \cup {Null}) BY <3>1, DocumentFields
    <3>3. profiles \subseteq known BY DEF Operated
    <3> HIDE DEF profiles, known
    <3>4. d.profile \in profiles \cup {Null} BY <2>1, <3>2, MergeOf
    <3> QED BY <2>1, <3>3, <3>4
  <2> QED BY <2>1
<1> HIDE DEF f, known, shown
<1>4. IsFiniteSet(known) /\ Cardinality(known) <= Cardinality(old.operation) BY <1>1, <1>2, FS_Surjection
<1>5. IsFiniteSet(shown) /\ Cardinality(shown) <= Cardinality(known) BY <1>3, <1>4, FS_Subset
<1>6. Cardinality(shown) \in Nat /\ Cardinality(known) \in Nat /\ Cardinality(old.operation) \in Nat
  BY <1>1, <1>4, <1>5, FS_CardinalityType
<1>7. Cardinality(shown) <= Cardinality(old.operation) BY <1>4, <1>5, <1>6
<1> QED BY <1>7 DEF shown

LEMMA DocumentsFaithful ==
  ASSUME NEW old, SoundRows(old), DocumentsAreClear(old)
  PROVE  DocumentsAreFaithful(old)
BY ArchiveInOne, OperationInOne, FewProfiles DEF DocumentsAreFaithful

LEMMA MigrationFaithful ==
  ASSUME MigrationTypeOK
  PROVE  MigrationIsFaithful
BY SourceSound, BatchesFaithful, IngestionFaithful, DocumentsFaithful DEF MigrationIsFaithful

-----------------------------------------------------------------------------
(* Steps.                                                                   *)

MigrationInv ==
  /\ MigrationTypeOK
  /\ fence = [owner |-> fence.owner, token |-> fence.token]
  /\ fence.owner # Null => fence.token >= 1
  /\ \A i \in inventoryReceipts : i.token <= fence.token

LEMMA MigrationInitInv == MigrationInit => MigrationInv
<1> SUFFICES ASSUME MigrationInit PROVE MigrationInv
  OBVIOUS
<1>1. /\ fence = [owner |-> Null, token |-> 0] /\ inventoryReceipts = {} /\ rowWrites = 0
      /\ source = [table \in DOMAIN writable |-> {}] /\ writable \in SourceRows
      /\ holding = [o \in Owner |-> 0]
  BY DEF MigrationInit, NoFence
<1>2. fence.owner = Null /\ fence.token = 0 BY <1>1
<1>3. 0 \in 0 .. MaxFence /\ 0 \in 0 .. MaxRowWrites BY MigrationAssumption
<1>4. \A table \in DOMAIN writable : source[table] = {} BY <1>1
<1> QED BY <1>1, <1>2, <1>3, <1>4 DEF MigrationInv, MigrationTypeOK

LEMMA UpsertStep ==
  ASSUME MigrationInv, NEW table \in DOMAIN writable, NEW new \in writable[table], UpsertRow(table, new)
  PROVE  MigrationInv'
<1>1. UNCHANGED <<writable, target, inventoryVars>> /\ rowWrites' \in 0 .. MaxRowWrites
  BY MigrationAssumption DEF UpsertRow, MigrationInv, MigrationTypeOK
<1>2. /\ source = [t \in DOMAIN writable |-> source[t]]
      /\ \A t \in DOMAIN writable : source[t] \subseteq writable[t]
  BY DEF MigrationInv, MigrationTypeOK
<1>3. PICK rows : source' = [source EXCEPT ![table] = rows] /\ rows \subseteq writable[table]
  <2> DEFINE one == {r \in source[table] : TableKey(table, r) # TableKey(table, new)} \cup {new}
             two == source[table] \cup {new}
  <2>1. source' = [source EXCEPT ![table] = one] \/ source' = [source EXCEPT ![table] = two]
    BY DEF UpsertRow
  <2>2. one \subseteq writable[table] /\ two \subseteq writable[table] BY <1>2
  <2> HIDE DEF one, two
  <2> QED BY <2>1, <2>2
<1>4. /\ source' = [t \in DOMAIN writable |-> source'[t]]
      /\ \A t \in DOMAIN writable : source'[t] \subseteq writable[t]
  BY <1>2, <1>3
<1> QED BY <1>1, <1>4 DEF MigrationInv, MigrationTypeOK, inventoryVars

LEMMA FenceStep ==
  ASSUME MigrationInv, NEW o \in Owner, AcquireFence(o) \/ ReleaseFence(o)
  PROVE  MigrationInv' /\ UNCHANGED inventoryReceipts
<1>1. UNCHANGED <<migrationVars, inventoryReceipts>> BY DEF AcquireFence, ReleaseFence
<1>2. /\ fence.token \in 0 .. MaxFence /\ holding \in [Owner -> 0 .. MaxFence] /\ MaxFence \in Nat
      /\ \A i \in inventoryReceipts : i.token \in 1 .. MaxFence /\ i.token <= fence.token
  BY MigrationAssumption DEF MigrationInv, MigrationTypeOK
<1>3. /\ fence' = [owner |-> fence'.owner, token |-> fence'.token] /\ fence'.token \in 0 .. MaxFence
      /\ fence'.token >= fence.token /\ fence'.owner \in Owner \cup {Null}
      /\ fence'.owner # Null => fence'.token >= 1
      /\ holding' \in [Owner -> 0 .. MaxFence]
  <2>1. CASE AcquireFence(o)
    <3>1. /\ fence' = [owner |-> o, token |-> fence.token + 1] /\ fence.token < MaxFence
          /\ holding' = [holding EXCEPT ![o] = fence.token + 1]
      BY <2>1 DEF AcquireFence
    <3>2. fence'.owner = o /\ fence'.token = fence.token + 1 BY <3>1
    <3>3. fence.token + 1 \in 0 .. MaxFence BY <1>2, <3>1
    <3> QED BY <1>2, <3>1, <3>2, <3>3
  <2>2. CASE ReleaseFence(o)
    <3>1. fence' = [fence EXCEPT !.owner = Null] /\ UNCHANGED holding BY <2>2 DEF ReleaseFence
    <3>2. fence = [owner |-> fence.owner, token |-> fence.token] BY DEF MigrationInv
    <3>3. fence' = [owner |-> Null, token |-> fence.token] BY <3>1, <3>2
    <3>4. fence'.owner = Null /\ fence'.token = fence.token BY <3>3
    <3>5. fence' = [owner |-> fence'.owner, token |-> fence'.token] BY <3>3
    <3>6. fence'.owner \in Owner \cup {Null} /\ fence'.token >= fence.token /\ ~(fence'.owner # Null)
      BY <1>2, <3>4
    <3>7. holding' \in [Owner -> 0 .. MaxFence] /\ fence'.token \in 0 .. MaxFence BY <1>2, <3>1, <3>4
    <3> QED BY <3>5, <3>6, <3>7
  <2> QED BY <2>1, <2>2
<1>4. \A i \in inventoryReceipts : i.token <= fence'.token BY <1>2, <1>3
<1>5. MigrationTypeOK' BY <1>1, <1>2, <1>3 DEF MigrationInv, MigrationTypeOK, migrationVars
<1> QED BY <1>1, <1>3, <1>4, <1>5 DEF MigrationInv

LEMMA CommitStep ==
  ASSUME MigrationInv, NEW o \in Owner, NEW i \in Inventory, NEW v \in CursorVersion, CommitInventory(o, i, v)
  PROVE  MigrationInv' /\ InventoryIsKept
<1> DEFINE new == Receipt(o, i, v)
<1>1. /\ UNCHANGED <<migrationVars, fence, holding>> /\ inventoryReceipts' = inventoryReceipts \cup {new}
      /\ \A j \in inventoryReceipts : j.run # i.run
      /\ fence.owner = o /\ fence.token = holding[o]
  BY DEF CommitInventory, Current
<1>2. new.run = i.run /\ new.token = holding[o] BY DEF Receipt
<1> HIDE DEF new
<1>3. o # Null /\ fence.token \in 1 .. MaxFence
  BY <1>1, MigrationAssumption DEF MigrationInv, MigrationTypeOK
<1>4. new.token \in 1 .. MaxFence /\ new.token <= fence.token BY <1>1, <1>2, <1>3
<1>5. \A j \in inventoryReceipts : j.token <= new.token BY <1>1, <1>2 DEF MigrationInv
<1>6. MigrationInv' BY <1>1, <1>4 DEF MigrationInv, MigrationTypeOK, migrationVars
<1>7. InventoryIsKept BY <1>1, <1>2, <1>5 DEF InventoryIsKept
<1> QED BY <1>6, <1>7

LEMMA MigrationStep ==
  MigrationInv /\ [MigrationNext \/ InventoryNext]_<<migrationVars, inventoryVars>> =>
    MigrationInv' /\ InventoryIsKept
<1> SUFFICES ASSUME MigrationInv, [MigrationNext \/ InventoryNext]_<<migrationVars, inventoryVars>>
             PROVE  MigrationInv' /\ InventoryIsKept
  OBVIOUS
<1>1. ASSUME UNCHANGED inventoryReceipts PROVE InventoryIsKept BY <1>1 DEF InventoryIsKept
<1>2. CASE \E table \in DOMAIN writable : \E new \in writable[table] : UpsertRow(table, new)
  <2>1. UNCHANGED inventoryReceipts BY <1>2 DEF UpsertRow, inventoryVars
  <2> QED BY <1>1, <1>2, <2>1, UpsertStep
<1>3. CASE RunMigration \/ UNCHANGED <<migrationVars, inventoryVars>>
  <2>1. UNCHANGED <<writable, source, rowWrites, fence, holding, inventoryReceipts>>
    BY <1>3 DEF RunMigration, migrationVars, inventoryVars
  <2>2. MigrationTypeOK' BY <2>1 DEF MigrationInv, MigrationTypeOK
  <2> QED BY <1>1, <2>1, <2>2 DEF MigrationInv
<1>4. CASE \E o \in Owner : AcquireFence(o) \/ ReleaseFence(o)
  BY <1>1, <1>4, FenceStep
<1>5. CASE \E o \in Owner, i \in Inventory, v \in CursorVersion : CommitInventory(o, i, v)
  BY <1>5, CommitStep
<1> QED BY <1>2, <1>3, <1>4, <1>5 DEF MigrationNext, InventoryNext

LEMMA MigrationAlways == MigrationSpec => []MigrationInv
<1>1. MigrationInv /\ [MigrationNext \/ InventoryNext]_<<migrationVars, inventoryVars>> => MigrationInv'
  BY MigrationStep
<1> QED BY <1>1, MigrationInitInv, PTL DEF MigrationSpec

(* The types of both machines, in every reachable state.                    *)
THEOREM MigrationTyped == MigrationSpec => []MigrationTypeOK
<1>1. MigrationInv => MigrationTypeOK BY DEF MigrationInv
<1> QED BY <1>1, MigrationAlways, PTL

(* Whatever rows workflows race for in the old tables: a migration that is  *)
(* not refused has one batch for each imported id, the one that got         *)
(* furthest, gives a reconciliation to the batch it verified, keeps the run *)
(* of each source and puts each archive and operation into one document.    *)
THEOREM MigrationAlwaysFaithful == MigrationSpec => []MigrationIsFaithful
<1>1. MigrationInv => MigrationIsFaithful BY MigrationFaithful DEF MigrationInv
<1> QED BY <1>1, MigrationAlways, PTL

(* However often owners lose their fence and commit again: the first        *)
(* inventory of a run stays, and fences never go backwards.                 *)
THEOREM InventoryAlwaysKept ==
  MigrationSpec => [][InventoryIsKept]_<<migrationVars, inventoryVars>>
<1>1. MigrationInv /\ [MigrationNext \/ InventoryNext]_<<migrationVars, inventoryVars>> =>
        [InventoryIsKept]_<<migrationVars, inventoryVars>>
  BY MigrationStep
<1> QED BY <1>1, MigrationAlways, PTL DEF MigrationSpec

-----------------------------------------------------------------------------
(* The bootstrap of the budget.                                             *)

(* Tables of rows with an id.                                               *)

Keyed(T) == IsFiniteSet(T) /\ \A x, y \in T : x.id = y.id => x = y
AtMostOne(S) == \A x, y \in S : x = y

LEMMA FreshIsNew ==
  ASSUME NEW T, IsFiniteSet(T)
  PROVE  \A x \in T : x.id # Fresh(T)
<1> DEFINE n == Cardinality(T) + 1
           ids == {x.id : x \in T}
           f == [x \in T |-> x.id]
<1>1. Cardinality(T) \in Nat BY FS_CardinalityType
<1>2. f \in Surjection(T, ids) BY DEF Surjection
<1> HIDE DEF f
<1>3. IsFiniteSet(ids) /\ Cardinality(ids) <= Cardinality(T) BY <1>2, FS_Surjection
<1>4. IsFiniteSet(1 .. n) /\ Cardinality(1 .. n) = n
  <2> HIDE DEF n
  <2>1. n \in Nat BY <1>1 DEF n
  <2> QED BY <2>1, FS_Interval
<1>5. ~(1 .. n \subseteq ids)
  <2>1. SUFFICES ASSUME 1 .. n \subseteq ids PROVE FALSE
    OBVIOUS
  <2> HIDE DEF ids, n
  <2>2. Cardinality(1 .. n) <= Cardinality(ids) BY <1>3, <2>1, FS_Subset
  <2>3. Cardinality(ids) \in Nat BY <1>3, FS_CardinalityType
  <2> QED BY <1>1, <1>3, <1>4, <2>2, <2>3 DEF n
<1>6. \E m \in 1 .. n : \A x \in T : x.id # m BY <1>5
<1> QED BY <1>6 DEF Fresh

LEMMA KeyedAdded ==
  ASSUME NEW T, Keyed(T), NEW x, x.id = Fresh(T)
  PROVE  Keyed(T \cup {x})
<1>1. \A y \in T : y.id # x.id BY FreshIsNew DEF Keyed
<1>2. IsFiniteSet(T \cup {x}) BY FS_AddElement DEF Keyed
<1> QED BY <1>1, <1>2 DEF Keyed

LEMMA KeyedLess ==
  ASSUME NEW T, Keyed(T), NEW U, U \subseteq T
  PROVE  Keyed(U)
BY FS_Subset DEF Keyed

LEMMA KeyedReplaced ==
  ASSUME NEW T, Keyed(T), NEW x \in T, NEW y, y.id = x.id
  PROVE  Keyed((T \ {x}) \cup {y})
<1>1. IsFiniteSet(T \ {x}) BY FS_Subset DEF Keyed
<1>2. IsFiniteSet((T \ {x}) \cup {y}) BY <1>1, FS_AddElement
<1>3. \A z \in T \ {x} : z.id # y.id BY DEF Keyed
<1> QED BY <1>2, <1>3 DEF Keyed

LEMMA KeyedMapped ==
  ASSUME NEW T, Keyed(T), NEW f, DOMAIN f = T, \A x \in T : f[x].id = x.id,
         NEW U, U = {f[x] : x \in T}
  PROVE  Keyed(U)
<1> DEFINE g == [x \in T |-> f[x]]
<1>1. g \in Surjection(T, U) BY DEF Surjection
<1> HIDE DEF g
<1>2. IsFiniteSet(U) BY <1>1, FS_Surjection DEF Keyed
<1> QED BY <1>2 DEF Keyed

LEMMA OneOrNone ==
  ASSUME NEW S, IsFiniteSet(S)
  PROVE  Cardinality(S) <= 1 <=> AtMostOne(S)
<1>1. Cardinality(S) \in Nat BY FS_CardinalityType
<1>2. CASE S = {}
  <2>1. Cardinality(S) = 0 BY <1>2, FS_EmptySet
  <2> QED BY <1>2, <2>1 DEF AtMostOne
<1>3. CASE S # {}
  <2>1. PICK x \in S : TRUE BY <1>3
  <2>2. Cardinality({x}) = 1 BY FS_Singleton
  <2>3. ASSUME AtMostOne(S) PROVE Cardinality(S) <= 1
    <3>1. S = {x} BY <2>1, <2>3 DEF AtMostOne
    <3> QED BY <2>2, <3>1
  <2>4. ASSUME Cardinality(S) <= 1 PROVE AtMostOne(S)
    <3>1. {x} \subseteq S BY <2>1
    <3>2. Cardinality(S) = 1 => S = {x}
      <4>1. IsFiniteSet({x}) BY FS_Singleton
      <4>2. Cardinality(S) = Cardinality({x}) => {x} = S BY <3>1, FS_Subset
      <4> QED BY <2>2, <4>2
    <3>3. Cardinality(S) # 0 BY <1>3, FS_EmptySet
    <3> QED BY <1>1, <2>4, <3>2, <3>3 DEF AtMostOne
  <2> QED BY <2>3, <2>4
<1> QED BY <1>2, <1>3

(* The shapes of the tables and of a run.                                   *)

IsAccount(a) ==
  /\ a = [id |-> a.id, name |-> a.name, closed |-> a.closed, empty |-> a.empty]
  /\ a.closed \in BOOLEAN
IsRule(r) == r = [id |-> r.id, rule |-> r.rule]
IsSchedule(s) == s = [id |-> s.id, owner |-> s.owner, name |-> s.name, terms |-> s.terms]
IsBoot(b) == b = [phase |-> b.phase, left |-> b.left, read |-> b.read, made |-> b.made]

BootShape ==
  /\ config \in BootConfig
  /\ boot.phase \in {"none", "accounts", "retired accounts", "names", "retired rules", "rules",
                     "retired schedules", "schedules", "done"}
  /\ IsBoot(boot) /\ boots \in 0 .. MaxBoots /\ touches \in 0 .. MaxTouches
  /\ Keyed(accountRows) /\ Keyed(bookRules) /\ Keyed(schedules)
  /\ \A a \in accountRows : IsAccount(a)
  /\ \A r \in bookRules : IsRule(r)
  /\ \A s \in schedules : IsSchedule(s)

LEMMA BootLeft ==
  ASSUME NEW b, IsBoot(b), NEW left
  PROVE  [b EXCEPT !.left = left] = [phase |-> b.phase, left |-> left, read |-> b.read, made |-> b.made]
BY DEF IsBoot

LEMMA BootMade ==
  ASSUME NEW b, IsBoot(b), NEW made
  PROVE  [b EXCEPT !.made = made] = [phase |-> b.phase, left |-> b.left, read |-> b.read, made |-> made]
BY DEF IsBoot

LEMMA BootRead ==
  ASSUME NEW b, IsBoot(b), NEW read
  PROVE  [b EXCEPT !.read = read] = [phase |-> b.phase, left |-> b.left, read |-> read, made |-> b.made]
BY DEF IsBoot

LEMMA BootPhase ==
  ASSUME NEW b, IsBoot(b), NEW phase
  PROVE  [b EXCEPT !.phase = phase] = [phase |-> phase, left |-> b.left, read |-> b.read, made |-> b.made]
BY DEF IsBoot

LEMMA LookedIs ==
  ASSUME IsBoot(boot), NEW e, Looked(e)
  PROVE  /\ boot' = [phase |-> boot.phase, left |-> boot.left \ {e}, read |-> boot.read, made |-> boot.made]
         /\ IsBoot(boot') /\ boot'.phase = boot.phase /\ boot'.left = boot.left \ {e}
         /\ boot'.read = boot.read /\ boot'.made = boot.made
<1> DEFINE rest == boot.left \ {e}
<1>1. boot' = [boot EXCEPT !.left = rest] BY DEF Looked
<1> HIDE DEF rest
<1>2. boot' = [phase |-> boot.phase, left |-> rest, read |-> boot.read, made |-> boot.made]
  BY <1>1, BootLeft
<1>3. /\ IsBoot(boot') /\ boot'.phase = boot.phase /\ boot'.left = rest
      /\ boot'.read = boot.read /\ boot'.made = boot.made
  BY <1>2 DEF IsBoot
<1> QED BY <1>2, <1>3 DEF rest

Made(e, id) == boot' = [boot EXCEPT !.left = @ \ {e}, !.made = @ \cup {id}]

LEMMA MadeIs ==
  ASSUME IsBoot(boot), NEW e, NEW id, Made(e, id)
  PROVE  /\ IsBoot(boot') /\ boot'.phase = boot.phase /\ boot'.left = boot.left \ {e}
         /\ boot'.read = boot.read /\ boot'.made = boot.made \cup {id}
<1> DEFINE rest == boot.left \ {e}
           made == boot.made \cup {id}
           b == [boot EXCEPT !.left = rest]
<1>1. boot' = [b EXCEPT !.made = made]
  <2>1. boot' = [boot EXCEPT !.left = rest, !.made = made] BY DEF Made
  <2> HIDE DEF rest, made
  <2> QED BY <2>1
<1> HIDE DEF rest, made
<1>2. b = [phase |-> boot.phase, left |-> rest, read |-> boot.read, made |-> boot.made]
  BY BootLeft
<1> HIDE DEF b
<1>3. IsBoot(b) /\ b.phase = boot.phase /\ b.left = rest /\ b.read = boot.read BY <1>2 DEF IsBoot
<1>4. boot' = [phase |-> b.phase, left |-> b.left, read |-> b.read, made |-> made]
  BY <1>1, <1>3, BootMade
<1>5. /\ boot'.phase = b.phase /\ boot'.left = b.left /\ boot'.read = b.read /\ boot'.made = made
  BY <1>4
<1>6. IsBoot(boot') BY <1>4, <1>5 DEF IsBoot
<1> QED BY <1>3, <1>5, <1>6 DEF rest, made

LEMMA ToIs ==
  ASSUME IsBoot(boot), NEW phase, NEW left, NEW read, To(phase, left, read)
  PROVE  /\ IsBoot(boot') /\ boot'.phase = phase /\ boot'.left = left /\ boot'.read = read
         /\ boot'.made = boot.made
<1> DEFINE b == [boot EXCEPT !.phase = phase]
           c == [b EXCEPT !.left = left]
<1>1. boot' = [c EXCEPT !.read = read] BY DEF To
<1>2. b = [phase |-> phase, left |-> boot.left, read |-> boot.read, made |-> boot.made]
  BY BootPhase
<1> HIDE DEF b
<1>3. IsBoot(b) /\ b.phase = phase /\ b.made = boot.made BY <1>2 DEF IsBoot
<1>4. c = [phase |-> b.phase, left |-> left, read |-> b.read, made |-> b.made] BY <1>3, BootLeft
<1> HIDE DEF c
<1>5. IsBoot(c) /\ c.phase = phase /\ c.left = left /\ c.made = boot.made BY <1>3, <1>4 DEF IsBoot
<1>6. boot' = [phase |-> c.phase, left |-> c.left, read |-> read, made |-> c.made]
  BY <1>1, <1>5, BootRead
<1> QED BY <1>5, <1>6 DEF IsBoot

LEMMA NoBootIs ==
  /\ IsBoot(NoBoot) /\ NoBoot.phase = "none" /\ NoBoot.left = {} /\ NoBoot.read = {} /\ NoBoot.made = {}
BY DEF NoBoot, IsBoot

LEMMA StartIs ==
  ASSUME StartBoot
  PROVE  /\ IsBoot(boot') /\ boot'.phase = "accounts" /\ boot'.left = config.accounts
         /\ boot'.read = accountRows /\ boot'.made = {}
BY DEF StartBoot, IsBoot

LEMMA DesiredIs ==
  ASSUME NEW a, IsAccount(a), NEW e, e.closed \in BOOLEAN
  PROVE  /\ Desired(e, a) = [id |-> a.id, name |-> e.name, closed |-> e.closed, empty |-> a.empty]
         /\ IsAccount(Desired(e, a)) /\ Desired(e, a).id = a.id /\ Desired(e, a).name = e.name
         /\ Desired(e, a).closed = e.closed
<1> DEFINE b == [a EXCEPT !.name = e.name]
<1>1. Desired(e, a) = [b EXCEPT !.closed = e.closed] BY DEF Desired
<1>2. b = [id |-> a.id, name |-> e.name, closed |-> a.closed, empty |-> a.empty] BY DEF IsAccount
<1> HIDE DEF b
<1>3. Desired(e, a) = [id |-> a.id, name |-> e.name, closed |-> e.closed, empty |-> a.empty]
  BY <1>1, <1>2
<1> QED BY <1>3 DEF IsAccount

(* What the maps over a table do to its rows.                               *)

ClosedIn(ids, a) == IF a.id \in ids THEN [a EXCEPT !.closed = TRUE] ELSE a

LEMMA EditedIs ==
  ASSUME NEW a, IsAccount(a), NEW closed \in BOOLEAN
  PROVE  LET c == [a EXCEPT !.closed = closed]
         IN IsAccount(c) /\ c.id = a.id /\ c.name = a.name /\ c.closed = closed /\ c.empty = a.empty
<1> DEFINE c == [a EXCEPT !.closed = closed]
<1>1. c = [id |-> a.id, name |-> a.name, closed |-> closed, empty |-> a.empty] BY DEF IsAccount
<1> HIDE DEF c
<1>2. c.id = a.id /\ c.name = a.name /\ c.closed = closed /\ c.empty = a.empty BY <1>1
<1>3. IsAccount(c) BY <1>1, <1>2 DEF IsAccount
<1> QED BY <1>2, <1>3 DEF c

LEMMA ClosedInIs ==
  ASSUME NEW a, IsAccount(a), NEW ids
  PROVE  LET c == ClosedIn(ids, a)
         IN /\ IsAccount(c) /\ c.id = a.id /\ c.name = a.name
            /\ a.closed => c.closed
            /\ a.id \in ids => c.closed
            /\ a.id \notin ids => c = a
<1> DEFINE closed == TRUE
           c == [a EXCEPT !.closed = closed]
<1>1. closed \in BOOLEAN /\ closed = TRUE OBVIOUS
<1>2. ClosedIn(ids, a) = IF a.id \in ids THEN c ELSE a BY DEF ClosedIn
<1> HIDE DEF closed
<1>3. IsAccount(c) /\ c.id = a.id /\ c.name = a.name /\ c.closed = closed BY <1>1, EditedIs
<1> HIDE DEF c
<1>4. c.closed BY <1>1, <1>3
<1>5. CASE a.id \in ids BY <1>2, <1>3, <1>4, <1>5
<1>6. CASE a.id \notin ids BY <1>2, <1>6
<1> QED BY <1>5, <1>6

LEMMA ClosedRows ==
  ASSUME BootShape, NEW ids, accountRows' = {ClosedIn(ids, a) : a \in accountRows}
  PROVE  Keyed(accountRows') /\ \A x \in accountRows' : IsAccount(x)
<1> DEFINE f == [a \in accountRows |-> ClosedIn(ids, a)]
<1>1. \A a \in accountRows : IsAccount(ClosedIn(ids, a)) /\ ClosedIn(ids, a).id = a.id
  BY ClosedInIs DEF BootShape
<1>2. Keyed(accountRows) BY DEF BootShape
<1>3. DOMAIN f = accountRows /\ \A a \in accountRows : f[a].id = a.id BY <1>1
<1>4. accountRows' = {f[a] : a \in accountRows} OBVIOUS
<1> HIDE DEF f
<1>5. Keyed(accountRows') BY <1>2, <1>3, <1>4, KeyedMapped
<1> QED BY <1>1, <1>5

RenamedIn(rows, e, s) == IF s \in rows THEN [s EXCEPT !.name = e.name, !.terms = e.terms] ELSE s

LEMMA RenamedInIs ==
  ASSUME NEW s, IsSchedule(s), NEW rows, NEW e
  PROVE  LET c == RenamedIn(rows, e, s)
         IN /\ IsSchedule(c) /\ c.id = s.id /\ c.owner = s.owner
            /\ s \in rows => c.name = e.name /\ c.terms = e.terms
            /\ s \notin rows => c = s
<1> DEFINE name == e.name
           terms == e.terms
           b == [s EXCEPT !.name = name]
           c == [b EXCEPT !.terms = terms]
<1>1. RenamedIn(rows, e, s) = IF s \in rows THEN c ELSE s BY DEF RenamedIn
<1> HIDE DEF name, terms
<1>2. b = [id |-> s.id, owner |-> s.owner, name |-> name, terms |-> s.terms] BY DEF IsSchedule
<1> HIDE DEF b
<1>3. c = [id |-> s.id, owner |-> s.owner, name |-> name, terms |-> terms] BY <1>2
<1> HIDE DEF c
<1>4. c.id = s.id /\ c.owner = s.owner /\ c.name = name /\ c.terms = terms BY <1>3
<1>5. IsSchedule(c) BY <1>3, <1>4 DEF IsSchedule
<1>6. CASE s \in rows BY <1>1, <1>4, <1>5, <1>6 DEF name, terms
<1>7. CASE s \notin rows BY <1>1, <1>7
<1> QED BY <1>6, <1>7

LEMMA RenamedRows ==
  ASSUME BootShape, NEW rows, NEW e, schedules' = {RenamedIn(rows, e, s) : s \in schedules}
  PROVE  Keyed(schedules') /\ \A x \in schedules' : IsSchedule(x)
<1> DEFINE f == [s \in schedules |-> RenamedIn(rows, e, s)]
<1>1. \A s \in schedules : IsSchedule(RenamedIn(rows, e, s)) /\ RenamedIn(rows, e, s).id = s.id
  BY RenamedInIs DEF BootShape
<1>2. Keyed(schedules) BY DEF BootShape
<1>3. DOMAIN f = schedules /\ \A s \in schedules : f[s].id = s.id BY <1>1
<1> DEFINE U == schedules'
<1>4. U = {f[s] : s \in schedules} OBVIOUS
<1> HIDE DEF f, U
<1>5. Keyed(U) BY <1>2, <1>3, <1>4, KeyedMapped
<1> QED BY <1>1, <1>5 DEF U

(* The shapes are kept.                                                     *)

LEMMA ShapeInit == BootInit => BootShape
<1> SUFFICES ASSUME BootInit PROVE BootShape
  OBVIOUS
<1>1. PICK b \in Budgets : accountRows = b.accounts /\ bookRules = b.rules /\ schedules = b.schedules
  BY DEF BootInit
<1>2. /\ Keyed(b.accounts) /\ Keyed(b.rules) /\ Keyed(b.schedules)
      /\ \A a \in b.accounts : IsAccount(a)
      /\ \A r \in b.rules : IsRule(r)
      /\ \A s \in b.schedules : IsSchedule(s)
  BY BootstrapAssumption DEF Keyed, IsAccount, IsRule, IsSchedule
<1>3. boot = NoBoot /\ boots = 0 /\ touches = 0 /\ config \in BootConfig BY DEF BootInit
<1>4. boots \in 0 .. MaxBoots /\ touches \in 0 .. MaxTouches BY <1>3, BootstrapAssumption
<1> QED BY <1>1, <1>2, <1>3, <1>4, NoBootIs DEF BootShape

LEMMA AccountMade ==
  ASSUME BootShape, NEW e,
         accountRows' = accountRows \cup {[id |-> Fresh(accountRows), name |-> e.name, closed |-> FALSE, empty |-> TRUE]}
  PROVE  Keyed(accountRows') /\ \A x \in accountRows' : IsAccount(x)
<1> DEFINE new == [id |-> Fresh(accountRows), name |-> e.name, closed |-> FALSE, empty |-> TRUE]
<1>1. new.id = Fresh(accountRows) /\ IsAccount(new) BY DEF IsAccount
<1>2. accountRows' = accountRows \cup {new} /\ Keyed(accountRows) BY DEF BootShape
<1> HIDE DEF new
<1>3. Keyed(accountRows') BY <1>1, <1>2, KeyedAdded
<1> QED BY <1>1, <1>2, <1>3 DEF BootShape

LEMMA RuleMade ==
  ASSUME BootShape, NEW r, bookRules' = bookRules \cup {[id |-> Fresh(bookRules), rule |-> r]}
  PROVE  Keyed(bookRules') /\ \A x \in bookRules' : IsRule(x)
<1> DEFINE new == [id |-> Fresh(bookRules), rule |-> r]
<1>1. new.id = Fresh(bookRules) /\ IsRule(new) BY DEF IsRule
<1>2. bookRules' = bookRules \cup {new} /\ Keyed(bookRules) BY DEF BootShape
<1> HIDE DEF new
<1>3. Keyed(bookRules') BY <1>1, <1>2, KeyedAdded
<1> QED BY <1>1, <1>2, <1>3 DEF BootShape

LEMMA ScheduleMade ==
  ASSUME BootShape, NEW e,
         schedules' = schedules \cup {[id |-> Fresh(schedules), owner |-> e.owner, name |-> e.name, terms |-> e.terms]}
  PROVE  Keyed(schedules') /\ \A x \in schedules' : IsSchedule(x)
<1> DEFINE new == [id |-> Fresh(schedules), owner |-> e.owner, name |-> e.name, terms |-> e.terms]
<1>1. new.id = Fresh(schedules) /\ IsSchedule(new) BY DEF IsSchedule
<1>2. schedules' = schedules \cup {new} /\ Keyed(schedules) BY DEF BootShape
<1> HIDE DEF new
<1>3. Keyed(schedules') BY <1>1, <1>2, KeyedAdded
<1> QED BY <1>1, <1>2, <1>3 DEF BootShape

TouchedAccount(a, b) == IsAccount(b) /\ b.id = a.id /\ b.name = a.name

LEMMA TouchAccountIs ==
  ASSUME NEW a, IsAccount(a), NEW closed \in BOOLEAN, NEW empty
  PROVE  TouchedAccount(a, [a EXCEPT !.closed = closed, !.empty = empty])
<1> DEFINE b == [a EXCEPT !.closed = closed]
           c == [b EXCEPT !.empty = empty]
<1>1. [a EXCEPT !.closed = closed, !.empty = empty] = c OBVIOUS
<1>2. IsAccount(b) /\ b.id = a.id /\ b.name = a.name /\ b.closed = closed BY EditedIs
<1> HIDE DEF b
<1>3. c = [id |-> b.id, name |-> b.name, closed |-> b.closed, empty |-> empty] BY <1>2 DEF IsAccount
<1> HIDE DEF c
<1>4. IsAccount(c) /\ c.id = b.id /\ c.name = b.name BY <1>2, <1>3 DEF IsAccount
<1> QED BY <1>1, <1>2, <1>4 DEF TouchedAccount

LEMMA CopiedRuleIs ==
  ASSUME NEW r, IsRule(r), NEW id
  PROVE  LET c == [r EXCEPT !.id = id] IN IsRule(c) /\ c.id = id /\ c.rule = r.rule
<1> DEFINE c == [r EXCEPT !.id = id]
<1>1. c = [id |-> id, rule |-> r.rule] BY DEF IsRule
<1> HIDE DEF c
<1>2. IsRule(c) /\ c.id = id /\ c.rule = r.rule BY <1>1 DEF IsRule
<1> QED BY <1>2 DEF c

CopiedSchedule(new, id, owner) == IsSchedule(new) /\ new.id = id /\ new.owner = owner

LEMMA CopiedScheduleIs ==
  ASSUME NEW s, IsSchedule(s), NEW id, NEW owner
  PROVE  CopiedSchedule([s EXCEPT !.id = id, !.owner = owner], id, owner)
<1> DEFINE b == [s EXCEPT !.id = id]
           c == [b EXCEPT !.owner = owner]
<1>1. [s EXCEPT !.id = id, !.owner = owner] = c OBVIOUS
<1>2. b = [id |-> id, owner |-> s.owner, name |-> s.name, terms |-> s.terms] BY DEF IsSchedule
<1> HIDE DEF b
<1>3. c = [id |-> id, owner |-> owner, name |-> s.name, terms |-> s.terms] BY <1>2
<1> HIDE DEF c
<1>4. IsSchedule(c) /\ c.id = id /\ c.owner = owner BY <1>3 DEF IsSchedule
<1> QED BY <1>1, <1>4 DEF CopiedSchedule

\* What people do between runs keeps the ids, makes no account and no owned schedule.
LEMMA TouchIs ==
  ASSUME BootShape, Touch
  PROVE  /\ boot' = NoBoot /\ touches' \in 0 .. MaxTouches /\ UNCHANGED <<config, names, boots>>
         /\ \/ /\ UNCHANGED <<bookRules, schedules>>
               /\ \E a \in accountRows : \E b : /\ accountRows' = (accountRows \ {a}) \cup {b}
                                                /\ TouchedAccount(a, b)
            \/ /\ UNCHANGED <<accountRows, schedules>>
               /\ \E b : /\ bookRules' = bookRules \cup {b}
                         /\ IsRule(b) /\ b.id = Fresh(bookRules)
            \/ /\ UNCHANGED <<accountRows, bookRules>>
               /\ \E b : /\ schedules' = schedules \cup {b}
                         /\ IsSchedule(b) /\ b.id = Fresh(schedules) /\ b.owner = Manual
<1>1. boot' = NoBoot /\ UNCHANGED <<config, names, boots>> BY DEF Touch
<1>2. touches' \in 0 .. MaxTouches
  <2>1. touches < MaxTouches /\ touches' = touches + 1 /\ touches \in 0 .. MaxTouches /\ MaxTouches \in Nat
    BY BootstrapAssumption DEF Touch, BootShape
  <2> QED BY <2>1
<1>3. CASE /\ \E a \in accountRows, closed, empty \in BOOLEAN :
                accountRows' = (accountRows \ {a}) \cup {[a EXCEPT !.closed = closed, !.empty = empty]}
           /\ UNCHANGED <<bookRules, schedules>>
  <2>1. PICK a \in accountRows, closed \in BOOLEAN, empty \in BOOLEAN :
          accountRows' = (accountRows \ {a}) \cup {[a EXCEPT !.closed = closed, !.empty = empty]}
    BY <1>3
  <2> DEFINE b == [a EXCEPT !.closed = closed, !.empty = empty]
  <2>2. TouchedAccount(a, b) BY TouchAccountIs DEF BootShape
  <2>3. accountRows' = (accountRows \ {a}) \cup {b} BY <2>1
  <2> HIDE DEF b
  <2> QED BY <1>1, <1>2, <1>3, <2>2, <2>3
<1>4. CASE /\ \E r \in bookRules : bookRules' = bookRules \cup {[r EXCEPT !.id = Fresh(bookRules)]}
           /\ UNCHANGED <<accountRows, schedules>>
  <2>1. PICK r \in bookRules : bookRules' = bookRules \cup {[r EXCEPT !.id = Fresh(bookRules)]}
    BY <1>4
  <2> DEFINE id == Fresh(bookRules)
             b == [r EXCEPT !.id = id]
  <2>2. bookRules' = bookRules \cup {b} BY <2>1
  <2>3. IsRule(r) BY DEF BootShape
  <2> HIDE DEF id
  <2>4. IsRule(b) /\ b.id = id BY <2>3, CopiedRuleIs
  <2> HIDE DEF b
  <2> QED BY <1>1, <1>2, <1>4, <2>2, <2>4 DEF id
<1>5. CASE /\ \E s \in schedules :
                schedules' = schedules \cup {[s EXCEPT !.id = Fresh(schedules), !.owner = Manual]}
           /\ UNCHANGED <<accountRows, bookRules>>
  <2>1. PICK s \in schedules :
          schedules' = schedules \cup {[s EXCEPT !.id = Fresh(schedules), !.owner = Manual]}
    BY <1>5
  <2> DEFINE id == Fresh(schedules)
             b == [s EXCEPT !.id = id, !.owner = Manual]
  <2>2. schedules' = schedules \cup {b} BY <2>1
  <2>3. IsSchedule(s) BY DEF BootShape
  <2> HIDE DEF id
  <2>5. CopiedSchedule(b, id, Manual) BY <2>3, CopiedScheduleIs
  <2> HIDE DEF b
  <2>4. IsSchedule(b) /\ b.id = id /\ b.owner = Manual BY <2>5 DEF CopiedSchedule
  <2> QED BY <1>1, <1>2, <1>5, <2>2, <2>4 DEF id
<1> QED BY <1>3, <1>4, <1>5 DEF Touch

\* The two ways an account of the configuration is applied.
AccountCreated(e) ==
  /\ Called(boot.read, e) = {}
  /\ \E new : /\ IsAccount(new) /\ new.id = Fresh(accountRows) /\ new.name = e.name /\ new.closed = FALSE
              /\ accountRows' = accountRows \cup {new} /\ boot'.made = boot.made \cup {new.id}
AccountUpdated(e) ==
  \E a \in accountRows :
    /\ {b.id : b \in Called(boot.read, e)} = {a.id}
    /\ accountRows' = (accountRows \ {a}) \cup {Desired(e, a)} /\ boot'.made = boot.made

LEMMA ApplyAccountIs ==
  ASSUME BootShape, NEW e \in config.accounts, ApplyAccount(e)
  PROVE  /\ boot.phase = "accounts" /\ e \in boot.left /\ IsBoot(boot')
         /\ boot'.phase = boot.phase /\ boot'.left = boot.left \ {e} /\ boot'.read = boot.read
         /\ UNCHANGED <<config, names, bookRules, schedules, boots, touches>>
         /\ AccountCreated(e) \/ AccountUpdated(e)
<1>1. /\ boot.phase = "accounts" /\ e \in boot.left
      /\ UNCHANGED <<config, names, bookRules, schedules, boots, touches>>
  BY DEF ApplyAccount
<1>2. CASE /\ Called(boot.read, e) = {}
           /\ LET made == [id |-> Fresh(accountRows), name |-> e.name, closed |-> FALSE, empty |-> TRUE]
              IN /\ accountRows' = accountRows \cup {made}
                 /\ boot' = [boot EXCEPT !.left = @ \ {e}, !.made = @ \cup {made.id}]
  <2> DEFINE new == [id |-> Fresh(accountRows), name |-> e.name, closed |-> FALSE, empty |-> TRUE]
             id == new.id
  <2>1. accountRows' = accountRows \cup {new} /\ Made(e, id) BY <1>2 DEF Made
  <2>2. IsAccount(new) /\ id = Fresh(accountRows) /\ new.name = e.name /\ new.closed = FALSE
    BY DEF IsAccount
  <2> HIDE DEF new
  <2>3. id = new.id OBVIOUS
  <2> HIDE DEF id
  <2>4. /\ IsBoot(boot') /\ boot'.phase = boot.phase /\ boot'.left = boot.left \ {e}
        /\ boot'.read = boot.read /\ boot'.made = boot.made \cup {id}
    BY <2>1, MadeIs DEF BootShape
  <2>5. AccountCreated(e) BY <1>2, <2>1, <2>2, <2>3, <2>4 DEF AccountCreated
  <2> QED BY <1>1, <2>4, <2>5
<1>3. CASE \E a \in accountRows :
             /\ {b.id : b \in Called(boot.read, e)} = {a.id}
             /\ a.closed = e.closed
             /\ accountRows' = (accountRows \ {a}) \cup {Desired(e, a)}
             /\ Looked(e)
  <2>1. Looked(e) BY <1>3
  <2>2. /\ IsBoot(boot') /\ boot'.phase = boot.phase /\ boot'.left = boot.left \ {e}
        /\ boot'.read = boot.read /\ boot'.made = boot.made
    BY <2>1, LookedIs DEF BootShape
  <2>3. AccountUpdated(e) BY <1>3, <2>2 DEF AccountUpdated
  <2> QED BY <1>1, <2>2, <2>3
<1> QED BY <1>2, <1>3 DEF ApplyAccount

\* Opened or closed: the account keeps its id and its name.
AccountMoved(e, a, b) ==
  /\ {c.id : c \in Called(boot.read, e)} = {a.id}
  /\ accountRows' = (accountRows \ {a}) \cup {b}
  /\ IsAccount(b) /\ b.id = a.id /\ b.name = a.name

LEMMA OpenOrCloseIs ==
  ASSUME BootShape, NEW e \in config.accounts, e.closed \in BOOLEAN, OpenOrCloseAccount(e)
  PROVE  /\ boot.phase = "accounts" /\ e \in boot.left
         /\ UNCHANGED <<config, names, bookRules, schedules, boot, boots, touches>>
         /\ \E a \in accountRows : \E b : AccountMoved(e, a, b)
<1>1. /\ boot.phase = "accounts" /\ e \in boot.left
      /\ UNCHANGED <<config, names, bookRules, schedules, boot, boots, touches>>
  BY DEF OpenOrCloseAccount
<1>2. PICK a \in accountRows :
        /\ {c.id : c \in Called(boot.read, e)} = {a.id}
        /\ accountRows' = (accountRows \ {a}) \cup {[a EXCEPT !.closed = e.closed]}
  BY DEF OpenOrCloseAccount
<1> DEFINE b == [a EXCEPT !.closed = e.closed]
<1>3. IsAccount(a) BY DEF BootShape
<1>4. IsAccount(b) /\ b.id = a.id /\ b.name = a.name BY <1>3, EditedIs
<1>5. accountRows' = (accountRows \ {a}) \cup {b} BY <1>2
<1> HIDE DEF b
<1>6. AccountMoved(e, a, b) BY <1>2, <1>4, <1>5 DEF AccountMoved
<1> QED BY <1>1, <1>6

LEMMA RetireAccountIs ==
  ASSUME BootShape, NEW n, RetireAccount(n)
  PROVE  /\ boot.phase = "retired accounts" /\ n \in boot.left /\ n \notin ActiveNames
         /\ accountRows' = {ClosedIn({b.id : b \in Retiring(boot.read, n)}, a) : a \in accountRows}
         /\ IsBoot(boot') /\ boot'.phase = boot.phase /\ boot'.left = boot.left \ {n}
         /\ boot'.read = boot.read /\ boot'.made = boot.made
         /\ UNCHANGED <<config, names, bookRules, schedules, boots, touches>>
<1>1. /\ boot.phase = "retired accounts" /\ n \in boot.left /\ n \notin ActiveNames /\ Looked(n)
      /\ UNCHANGED <<config, names, bookRules, schedules, boots, touches>>
  BY DEF RetireAccount
<1>2. accountRows' = {ClosedIn({b.id : b \in Retiring(boot.read, n)}, a) : a \in accountRows}
  BY DEF RetireAccount, ClosedIn
<1>3. /\ IsBoot(boot') /\ boot'.phase = boot.phase /\ boot'.left = boot.left \ {n}
      /\ boot'.read = boot.read /\ boot'.made = boot.made
  BY <1>1, LookedIs DEF BootShape
<1> QED BY <1>1, <1>2, <1>3

\* A step of a run that looks at one thing, and what it leaves alone.
StepsBy(e) ==
  /\ e \in boot.left /\ IsBoot(boot') /\ boot'.phase = boot.phase /\ boot'.left = boot.left \ {e}
  /\ boot'.read = boot.read /\ boot'.made = boot.made
  /\ UNCHANGED <<config, accountRows, boots, touches>>

LEMMA CreateNameIs ==
  ASSUME BootShape, NEW n, CreateName(n)
  PROVE  /\ boot.phase = "names" /\ StepsBy(n)
         /\ names' = names \cup {n} /\ UNCHANGED <<bookRules, schedules>>
<1>1. Looked(n) /\ IsBoot(boot) BY DEF CreateName, BootShape
<1> QED BY <1>1, LookedIs DEF CreateName, StepsBy

LEMMA DeleteRuleIs ==
  ASSUME BootShape, NEW r, DeleteRule(r)
  PROVE  /\ boot.phase = "retired rules" /\ StepsBy(r)
         /\ bookRules' = bookRules \ {r} /\ UNCHANGED <<names, schedules>>
<1>1. Looked(r) /\ IsBoot(boot) BY DEF DeleteRule, BootShape
<1> QED BY <1>1, LookedIs DEF DeleteRule, StepsBy

LEMMA CreateRuleIs ==
  ASSUME BootShape, NEW r, CreateRule(r)
  PROVE  /\ boot.phase = "rules" /\ StepsBy(r) /\ UNCHANGED <<names, schedules>>
         /\ \/ ~RuleIsWanted(bookRules, r) /\ bookRules' = bookRules
            \/ bookRules' = bookRules \cup {[id |-> Fresh(bookRules), rule |-> r]}
<1>1. Looked(r) /\ IsBoot(boot) BY DEF CreateRule, BootShape
<1>2. /\ IsBoot(boot') /\ boot'.phase = boot.phase /\ boot'.left = boot.left \ {r}
      /\ boot'.read = boot.read /\ boot'.made = boot.made
  BY <1>1, LookedIs
<1>3. boot.phase = "rules" /\ r \in boot.left /\ UNCHANGED <<config, accountRows, names, schedules, boots, touches>>
  BY DEF CreateRule
<1>4. \/ ~RuleIsWanted(bookRules, r) /\ bookRules' = bookRules
      \/ bookRules' = bookRules \cup {[id |-> Fresh(bookRules), rule |-> r]}
  BY DEF CreateRule
<1> QED BY <1>2, <1>3, <1>4 DEF StepsBy

LEMMA DeleteScheduleIs ==
  ASSUME BootShape, NEW s, DeleteSchedule(s)
  PROVE  /\ boot.phase = "retired schedules" /\ StepsBy(s)
         /\ schedules' = schedules \ {s} /\ UNCHANGED <<names, bookRules>>
<1>1. Looked(s) /\ IsBoot(boot) BY DEF DeleteSchedule, BootShape
<1> QED BY <1>1, LookedIs DEF DeleteSchedule, StepsBy

LEMMA ApplyScheduleIs ==
  ASSUME BootShape, NEW e, ApplySchedule(e)
  PROVE  /\ boot.phase = "schedules" /\ StepsBy(e) /\ UNCHANGED <<names, bookRules>>
         /\ \/ /\ OwnersRows(boot.read, e) = {}
               /\ schedules' = schedules \cup {[id |-> Fresh(schedules), owner |-> e.owner, name |-> e.name,
                                                terms |-> e.terms]}
            \/ /\ OwnersRows(boot.read, e) # {}
               /\ schedules' = {RenamedIn(OwnersRows(boot.read, e), e, s) : s \in schedules}
<1>1. Looked(e) /\ IsBoot(boot) BY DEF ApplySchedule, BootShape
<1>2. /\ IsBoot(boot') /\ boot'.phase = boot.phase /\ boot'.left = boot.left \ {e}
      /\ boot'.read = boot.read /\ boot'.made = boot.made
  BY <1>1, LookedIs
<1>3. boot.phase = "schedules" /\ e \in boot.left /\ UNCHANGED <<config, accountRows, names, bookRules, boots, touches>>
  BY DEF ApplySchedule
<1>4. CASE OwnersRows(boot.read, e) = {}
  BY <1>2, <1>3, <1>4 DEF ApplySchedule, StepsBy
<1>5. CASE OwnersRows(boot.read, e) # {}
  <2>1. schedules' = {RenamedIn(OwnersRows(boot.read, e), e, s) : s \in schedules}
    BY <1>5 DEF ApplySchedule, RenamedIn
  <2> QED BY <1>2, <1>3, <1>5, <2>1 DEF StepsBy
<1> QED BY <1>4, <1>5

Enters(phase, left, read) == boot'.phase = phase /\ boot'.left = left /\ boot'.read = read

LEMMA NextPhaseIs ==
  ASSUME BootShape, NextPhase
  PROVE  /\ boot.left = {} /\ IsBoot(boot') /\ boot'.made = boot.made
         /\ UNCHANGED <<config, tables, boots, touches>>
         /\ \/ boot.phase = "accounts" /\ Enters("retired accounts", config.retiredAccounts, boot.read)
            \/ boot.phase = "retired accounts" /\ Enters("names", config.names \ names, {})
            \/ boot.phase = "names"
               /\ Enters("retired rules", {r \in bookRules : r.rule \in RetiredRules}, {})
            \/ boot.phase = "retired rules" /\ Enters("rules", config.rules, {})
            \/ boot.phase = "rules" /\ SchedulesAreClear(schedules)
               /\ Enters("retired schedules", RetiredSchedules(schedules), schedules)
            \/ boot.phase = "retired schedules" /\ Enters("schedules", EnabledSchedules, boot.read)
            \/ boot.phase = "schedules" /\ Enters("done", {}, {})
<1>1. IsBoot(boot) BY DEF BootShape
<1>2. ASSUME NEW phase, NEW left, NEW read, To(phase, left, read)
      PROVE  IsBoot(boot') /\ boot'.made = boot.made /\ Enters(phase, left, read)
  BY <1>1, <1>2, ToIs DEF Enters
<1>3. boot.left = {} /\ UNCHANGED <<config, tables, boots, touches>> BY DEF NextPhase
<1> QED BY <1>2, <1>3 DEF NextPhase

LEMMA ConfigIs ==
  ASSUME config \in BootConfig
  PROVE  /\ \A e \in config.accounts : e.closed \in BOOLEAN
         /\ \A e \in config.schedules : e.owner # Manual
<1> DEFINE c == config
<1>1. c \in BootConfig OBVIOUS
<1> HIDE DEF c
<1>2. \A e \in c.accounts : e.closed \in BOOLEAN BY <1>1, BootstrapAssumption
<1>3. \A e \in c.schedules : e.owner # Manual BY <1>1, BootstrapAssumption
<1> QED BY <1>2, <1>3 DEF c

LEMMA ShapeStep == BootShape /\ [BootNext]_bootVars => BootShape'
<1> SUFFICES ASSUME BootShape, [BootNext]_bootVars PROVE BootShape'
  OBVIOUS
<1>1. CASE StartBoot
  <2>1. boots' \in 0 .. MaxBoots
    <3>1. boots < MaxBoots /\ boots' = boots + 1 /\ boots \in 0 .. MaxBoots /\ MaxBoots \in Nat
      BY <1>1, BootstrapAssumption DEF StartBoot, BootShape
    <3> QED BY <3>1
  <2>2. UNCHANGED <<config, tables, touches>> BY <1>1 DEF StartBoot
  <2> QED BY <1>1, <2>1, <2>2, StartIs DEF BootShape, tables
<1>2. CASE NextPhase
  <2>1. IsBoot(boot') /\ UNCHANGED <<config, tables, boots, touches>> BY <1>2, NextPhaseIs
  <2>2. boot'.phase \in {"retired accounts", "names", "retired rules", "rules",
                         "retired schedules", "schedules", "done"}
    BY <1>2, NextPhaseIs DEF Enters
  <2> QED BY <2>1, <2>2 DEF BootShape, tables
<1>3. CASE StopBoot
  <2>1. boot' = NoBoot /\ UNCHANGED <<config, tables, boots, touches>> BY <1>3 DEF StopBoot
  <2> QED BY <2>1, NoBootIs DEF BootShape, tables
<1>4. CASE Touch
  <2>1. boot' = NoBoot /\ touches' \in 0 .. MaxTouches /\ UNCHANGED <<config, boots>> BY <1>4, TouchIs
  <2>2. CASE /\ UNCHANGED <<bookRules, schedules>>
             /\ \E a \in accountRows : \E b : /\ accountRows' = (accountRows \ {a}) \cup {b}
                                              /\ TouchedAccount(a, b)
    <3>1. PICK a \in accountRows : \E b : accountRows' = (accountRows \ {a}) \cup {b} /\ TouchedAccount(a, b)
      BY <2>2
    <3>5. PICK b : accountRows' = (accountRows \ {a}) \cup {b} /\ TouchedAccount(a, b) BY <3>1
    <3>2. IsAccount(b) /\ b.id = a.id BY <3>5 DEF TouchedAccount
    <3>3. Keyed(accountRows') BY <3>5, <3>2, KeyedReplaced DEF BootShape
    <3>4. \A x \in accountRows' : IsAccount(x) BY <3>5, <3>2 DEF BootShape
    <3> QED BY <2>1, <2>2, <3>3, <3>4, NoBootIs DEF BootShape
  <2>3. CASE /\ UNCHANGED <<accountRows, schedules>>
             /\ \E b : /\ bookRules' = bookRules \cup {b}
                       /\ IsRule(b) /\ b.id = Fresh(bookRules)
    <3>1. Keyed(bookRules') BY <2>3, KeyedAdded DEF BootShape
    <3>2. \A x \in bookRules' : IsRule(x) BY <2>3 DEF BootShape
    <3> QED BY <2>1, <2>3, <3>1, <3>2, NoBootIs DEF BootShape
  <2>4. CASE /\ UNCHANGED <<accountRows, bookRules>>
             /\ \E b : /\ schedules' = schedules \cup {b}
                       /\ IsSchedule(b) /\ b.id = Fresh(schedules) /\ b.owner = Manual
    <3>1. Keyed(schedules') BY <2>4, KeyedAdded DEF BootShape
    <3>2. \A x \in schedules' : IsSchedule(x) BY <2>4 DEF BootShape
    <3> QED BY <2>1, <2>4, <3>1, <3>2, NoBootIs DEF BootShape
  <2> QED BY <1>4, <2>2, <2>3, <2>4, TouchIs
<1>5. CASE \E e \in config.accounts : ApplyAccount(e)
  <2>1. PICK e \in config.accounts : ApplyAccount(e) BY <1>5
  <2>2. /\ IsBoot(boot') /\ boot'.phase = boot.phase
        /\ UNCHANGED <<config, names, bookRules, schedules, boots, touches>>
        /\ AccountCreated(e) \/ AccountUpdated(e)
    BY <2>1, ApplyAccountIs
  <2>3. Keyed(accountRows') /\ \A x \in accountRows' : IsAccount(x)
    <3>1. CASE AccountCreated(e)
      <4>1. PICK new : IsAccount(new) /\ new.id = Fresh(accountRows) /\ accountRows' = accountRows \cup {new}
        BY <3>1 DEF AccountCreated
      <4>2. Keyed(accountRows') BY <4>1, KeyedAdded DEF BootShape
      <4> QED BY <4>1, <4>2 DEF BootShape
    <3>2. CASE AccountUpdated(e)
      <4>1. PICK a \in accountRows : accountRows' = (accountRows \ {a}) \cup {Desired(e, a)}
        BY <3>2 DEF AccountUpdated
      <4>2. IsAccount(a) /\ e.closed \in BOOLEAN
        <5>1. config \in BootConfig /\ IsAccount(a) BY DEF BootShape
        <5> QED BY <5>1, ConfigIs
      <4>3. IsAccount(Desired(e, a)) /\ Desired(e, a).id = a.id BY <4>2, DesiredIs
      <4> QED BY <4>1, <4>3, KeyedReplaced DEF BootShape
    <3> QED BY <2>2, <3>1, <3>2
  <2> QED BY <2>2, <2>3 DEF BootShape
<1>6. CASE \E n \in config.retiredAccounts : RetireAccount(n)
  <2>1. PICK n \in config.retiredAccounts : RetireAccount(n) BY <1>6
  <2> DEFINE ids == {b.id : b \in Retiring(boot.read, n)}
  <2>2. /\ IsBoot(boot') /\ boot'.phase = boot.phase
        /\ UNCHANGED <<config, names, bookRules, schedules, boots, touches>>
        /\ accountRows' = {ClosedIn(ids, a) : a \in accountRows}
    BY <2>1, RetireAccountIs
  <2> HIDE DEF ids
  <2>3. Keyed(accountRows') /\ \A x \in accountRows' : IsAccount(x) BY <2>2, ClosedRows
  <2> QED BY <2>2, <2>3 DEF BootShape
<1>7. CASE \E n \in config.names : CreateName(n)
  BY <1>7, CreateNameIs DEF BootShape, StepsBy
<1>8. CASE \E r \in bookRules : DeleteRule(r)
  <2>1. PICK r \in bookRules : DeleteRule(r) BY <1>8
  <2>2. StepsBy(r) /\ bookRules' = bookRules \ {r} /\ UNCHANGED <<names, schedules>> BY <2>1, DeleteRuleIs
  <2>3. Keyed(bookRules') BY <2>2, KeyedLess DEF BootShape
  <2> QED BY <2>2, <2>3 DEF BootShape, StepsBy
<1>9. CASE \E r \in config.rules : CreateRule(r)
  <2>1. PICK r \in config.rules : CreateRule(r) BY <1>9
  <2>2. Keyed(bookRules') /\ \A x \in bookRules' : IsRule(x)
    BY <2>1, CreateRuleIs, RuleMade DEF BootShape
  <2> QED BY <2>1, <2>2, CreateRuleIs DEF BootShape, StepsBy
<1>10. CASE \E s \in schedules : DeleteSchedule(s)
  <2>1. PICK s \in schedules : DeleteSchedule(s) BY <1>10
  <2>2. StepsBy(s) /\ schedules' = schedules \ {s} /\ UNCHANGED <<names, bookRules>> BY <2>1, DeleteScheduleIs
  <2>3. Keyed(schedules') BY <2>2, KeyedLess DEF BootShape
  <2> QED BY <2>2, <2>3 DEF BootShape, StepsBy
<1>11. CASE \E e \in config.schedules : ApplySchedule(e)
  <2>1. PICK e \in config.schedules : ApplySchedule(e) BY <1>11
  <2>2. Keyed(schedules') /\ \A x \in schedules' : IsSchedule(x)
    BY <2>1, ApplyScheduleIs, ScheduleMade, RenamedRows
  <2> QED BY <2>1, <2>2, ApplyScheduleIs DEF BootShape, StepsBy
<1>12. CASE UNCHANGED bootVars BY <1>12 DEF BootShape, bootVars
<1>13. CASE \E e \in config.accounts : OpenOrCloseAccount(e)
  <2>1. PICK e \in config.accounts : OpenOrCloseAccount(e) BY <1>13
  <2>2. e.closed \in BOOLEAN BY ConfigIs DEF BootShape
  <2>3. UNCHANGED <<config, names, bookRules, schedules, boot, boots, touches>>
    BY <2>1, <2>2, OpenOrCloseIs
  <2>4. PICK a \in accountRows : \E b : AccountMoved(e, a, b) BY <2>1, <2>2, OpenOrCloseIs
  <2>5. PICK b : AccountMoved(e, a, b) BY <2>4
  <2>6. Keyed(accountRows') BY <2>5, KeyedReplaced DEF BootShape, AccountMoved
  <2>7. \A x \in accountRows' : IsAccount(x) BY <2>5 DEF BootShape, AccountMoved
  <2> QED BY <2>3, <2>6, <2>7 DEF BootShape
<1> QED BY <1>1, <1>2, <1>3, <1>4, <1>5, <1>6, <1>7, <1>8, <1>9, <1>10, <1>11, <1>12, <1>13 DEF BootNext

-----------------------------------------------------------------------------
(* Accounts.                                                                *)

NamesOf(e) == {e.name} \cup e.aliases

\* An entry that was applied: one account, as wanted but perhaps open.
EntryDone(e) ==
  \E a \in accountRows :
    /\ Called(accountRows, e) = {a} /\ a.name = e.name
    /\ a.closed = e.closed \/ (e.closed /\ a.id \in boot.made)

\* What a run changes of the accounts that it read: those of the configuration, and it
\* closes some of the others.
KeepsRead ==
  /\ \A b \in boot.read : \E a \in accountRows :
       a.id = b.id /\ (b.name \notin ActiveNames => a.name = b.name)
  /\ \A a \in accountRows :
       a.name \in ActiveNames \/ \E b \in boot.read : b.id = a.id /\ b.name = a.name /\ (b.closed => a.closed)

OneAccount(e) ==
  (\A b \in Budgets : AtMostOne(Called(b.accounts, e))) => AtMostOne(Called(accountRows, e))

IdsOf(rows, e) == {a.id : a \in Called(rows, e)}

AccountsInv ==
  /\ boot.phase \in {"accounts", "retired accounts"} => KeepsRead
  /\ boot.phase = "accounts" =>
       \A e \in config.accounts :
         IF e \in boot.left THEN IdsOf(accountRows, e) = IdsOf(boot.read, e) ELSE EntryDone(e)
  /\ boot.phase \notin {"none", "accounts"} => \A e \in config.accounts : EntryDone(e)
  /\ boot.phase = "retired accounts" =>
       \A n \in config.retiredAccounts \ boot.left : Retiring(accountRows, n) = {}
  /\ boot.phase \notin {"none", "accounts", "retired accounts"} =>
       \A n \in config.retiredAccounts : Retiring(accountRows, n) = {}
  /\ \A e \in config.accounts : OneAccount(e)

LEMMA CalledIs == \A rows, e, a : a \in Called(rows, e) <=> a \in rows /\ a.name \in NamesOf(e)
BY DEF Called, NamesOf

LEMMA NamesApart ==
  ASSUME Coherent, NEW e \in config.accounts, NEW f \in config.accounts, e # f
  PROVE  NamesOf(e) \cap NamesOf(f) = {}
BY DEF Coherent, NamesOf

LEMMA NamesActive ==
  ASSUME NEW e \in config.accounts
  PROVE  NamesOf(e) \subseteq ActiveNames /\ e.name \in NamesOf(e)
BY DEF NamesOf, ActiveNames

LEMMA AccountsInit == BootInit => AccountsInv
<1> SUFFICES ASSUME BootInit PROVE AccountsInv
  OBVIOUS
<1>1. boot.phase = "none" BY NoBootIs DEF BootInit
<1>2. PICK b \in Budgets : accountRows = b.accounts BY DEF BootInit
<1>3. \A e \in config.accounts : OneAccount(e) BY <1>2 DEF OneAccount
<1> QED BY <1>1, <1>3 DEF AccountsInv

\* What is done of the accounts stays done once their phases are over.
LEMMA AccountsKept ==
  ASSUME AccountsInv, UNCHANGED <<config, accountRows>>, boot'.made = boot.made,
         boot.phase \notin {"none", "accounts", "retired accounts"},
         boot'.phase \notin {"none", "accounts", "retired accounts"}
  PROVE  AccountsInv'
<1>1. \A e \in config.accounts : EntryDone(e) /\ OneAccount(e) BY DEF AccountsInv
<1>2. \A e \in config.accounts : EntryDone(e)' /\ OneAccount(e)' BY <1>1 DEF EntryDone, OneAccount
<1>3. \A n \in config.retiredAccounts : Retiring(accountRows, n) = {} BY DEF AccountsInv
<1> QED BY <1>2, <1>3 DEF AccountsInv

LEMMA AccountsStopped ==
  ASSUME AccountsInv, UNCHANGED <<config, accountRows>>, boot'.phase = "none"
  PROVE  AccountsInv'
<1>1. \A e \in config.accounts : OneAccount(e) BY DEF AccountsInv
<1>2. \A e \in config.accounts : OneAccount(e)' BY <1>1 DEF OneAccount
<1> QED BY <1>2 DEF AccountsInv

LEMMA AccountsStarted ==
  ASSUME AccountsInv, StartBoot
  PROVE  AccountsInv'
<1>1. /\ boot'.phase = "accounts" /\ boot'.left = config.accounts /\ boot'.read = accountRows
      /\ UNCHANGED <<config, accountRows>>
  BY StartIs DEF StartBoot, tables
<1>2. \A e \in config.accounts : OneAccount(e)' BY <1>1 DEF AccountsInv, OneAccount
<1>3. KeepsRead' BY <1>1 DEF KeepsRead
<1> QED BY <1>1, <1>2, <1>3 DEF AccountsInv

\* An entry is applied: the accounts of the others are not its accounts.
LEMMA EntryApplied ==
  ASSUME AccountsInv, boot.phase = "accounts", boot'.phase = "accounts", config' = config,
         NEW e \in config.accounts, boot'.left = boot.left \ {e}, boot'.read = boot.read,
         boot.made \subseteq boot'.made,
         \A f \in config.accounts : f # e => Called(accountRows', f) = Called(accountRows, f),
         EntryDone(e)', KeepsRead'
  PROVE  AccountsInv'
<1>1. ASSUME NEW f \in config.accounts, f # e, EntryDone(f) PROVE EntryDone(f)'
  <2>1. PICK a \in accountRows : /\ Called(accountRows, f) = {a} /\ a.name = f.name
                                 /\ a.closed = f.closed \/ (f.closed /\ a.id \in boot.made)
    BY <1>1 DEF EntryDone
  <2>2. Called(accountRows', f) = {a} BY <1>1, <2>1
  <2>3. a \in accountRows' BY <2>2, CalledIs
  <2> QED BY <2>1, <2>2, <2>3 DEF EntryDone
<1>2. ASSUME NEW f \in config.accounts
      PROVE  IF f \in boot'.left THEN IdsOf(accountRows', f) = IdsOf(boot'.read, f) ELSE EntryDone(f)'
  <2>1. IF f \in boot.left THEN IdsOf(accountRows, f) = IdsOf(boot.read, f) ELSE EntryDone(f)
    BY DEF AccountsInv
  <2>2. f # e => IdsOf(accountRows', f) = IdsOf(accountRows, f) BY DEF IdsOf
  <2> QED BY <1>1, <2>1, <2>2
<1>3. \A f \in config.accounts : OneAccount(f)'
  <2> TAKE f \in config.accounts
  <2>1. OneAccount(f) BY DEF AccountsInv
  <2>2. CASE f = e
    <3>1. AtMostOne(Called(accountRows', f)) BY <2>2 DEF EntryDone, AtMostOne
    <3> QED BY <3>1 DEF OneAccount
  <2>3. CASE f # e BY <2>1, <2>3 DEF OneAccount
  <2> QED BY <2>2, <2>3
<1> QED BY <1>2, <1>3 DEF AccountsInv

LEMMA AccountApplied ==
  ASSUME BootShape, Coherent, AccountsInv, NEW e \in config.accounts, ApplyAccount(e)
  PROVE  AccountsInv'
<1>1. /\ boot.phase = "accounts" /\ e \in boot.left
      /\ boot'.phase = boot.phase /\ boot'.left = boot.left \ {e} /\ boot'.read = boot.read
      /\ config' = config
      /\ AccountCreated(e) \/ AccountUpdated(e)
  BY ApplyAccountIs
<1>2. KeepsRead /\ IdsOf(accountRows, e) = IdsOf(boot.read, e) BY <1>1 DEF AccountsInv
<1>3. \A f \in config.accounts : f # e => NamesOf(e) \cap NamesOf(f) = {} BY NamesApart
<1>4. NamesOf(e) \subseteq ActiveNames /\ e.name \in NamesOf(e) BY NamesActive
<1>5. ActiveNames' = ActiveNames BY <1>1 DEF ActiveNames
<1>6. e.closed \in BOOLEAN BY ConfigIs DEF BootShape
<1>7. CASE AccountCreated(e)
  <2>1. PICK new : /\ IsAccount(new) /\ new.id = Fresh(accountRows) /\ new.name = e.name /\ new.closed = FALSE
                   /\ accountRows' = accountRows \cup {new} /\ boot'.made = boot.made \cup {new.id}
    BY <1>7 DEF AccountCreated
  <2>2. Called(accountRows, e) = {} BY <1>2, <1>7 DEF AccountCreated, IdsOf
  <2>3. ASSUME NEW f \in config.accounts, f # e PROVE Called(accountRows', f) = Called(accountRows, f)
    <3>1. new.name \notin NamesOf(f) BY <1>3, <1>4, <2>1, <2>3
    <3>2. \A a : a \in Called(accountRows', f) <=> a \in Called(accountRows, f) BY <2>1, <3>1, CalledIs
    <3> QED BY <3>2 DEF Called
  <2>4. Called(accountRows', e) = {new}
    <3>1. \A a : a \in Called(accountRows', e) <=> a = new BY <1>4, <2>1, <2>2, CalledIs
    <3> QED BY <3>1
  <2>5. EntryDone(e)' BY <1>6, <2>1, <2>4 DEF EntryDone
  <2>6. KeepsRead' BY <1>1, <1>2, <1>4, <1>5, <2>1 DEF KeepsRead
  <2> QED BY <1>1, <2>1, <2>3, <2>5, <2>6, EntryApplied
<1>8. CASE AccountUpdated(e)
  <2>1. PICK a \in accountRows : /\ {b.id : b \in Called(boot.read, e)} = {a.id}
                                 /\ accountRows' = (accountRows \ {a}) \cup {Desired(e, a)}
                                 /\ boot'.made = boot.made
    BY <1>8 DEF AccountUpdated
  <2> DEFINE d == Desired(e, a)
  <2>2. IsAccount(a) BY DEF BootShape
  <2>3. d.id = a.id /\ d.name = e.name /\ d.closed = e.closed BY <1>6, <2>2, DesiredIs
  <2> HIDE DEF d
  <2>4. \A x, y \in accountRows : x.id = y.id => x = y BY DEF BootShape, Keyed
  <2>5. Called(accountRows, e) = {a}
    <3>1. \A b \in Called(accountRows, e) : b.id = a.id BY <1>2, <2>1 DEF IdsOf
    <3>2. \A b \in Called(accountRows, e) : b = a BY <2>4, <3>1, CalledIs
    <3>3. Called(accountRows, e) # {} BY <1>2, <2>1 DEF IdsOf
    <3> QED BY <3>2, <3>3
  <2>6. a.name \in NamesOf(e) BY <2>5, CalledIs
  <2>7. accountRows' = (accountRows \ {a}) \cup {d} BY <2>1 DEF d
  <2>8. ASSUME NEW f \in config.accounts, f # e PROVE Called(accountRows', f) = Called(accountRows, f)
    <3>1. d.name \notin NamesOf(f) /\ a.name \notin NamesOf(f) BY <1>3, <1>4, <2>3, <2>6, <2>8
    <3>2. \A x : x \in Called(accountRows', f) <=> x \in Called(accountRows, f) BY <2>7, <3>1, CalledIs
    <3> QED BY <3>2 DEF Called
  <2>9. Called(accountRows', e) = {d}
    <3>1. \A x : x \in Called(accountRows', e) <=> x = d BY <1>4, <2>3, <2>5, <2>7, CalledIs
    <3> QED BY <3>1
  <2>10. EntryDone(e)' BY <2>3, <2>7, <2>9 DEF EntryDone
  <2>11. KeepsRead'
    <3>1. ASSUME NEW b \in boot.read
          PROVE  \E x \in accountRows' : x.id = b.id /\ (b.name \notin ActiveNames => x.name = b.name)
      <4>1. PICK x \in accountRows : x.id = b.id /\ (b.name \notin ActiveNames => x.name = b.name)
        BY <1>2 DEF KeepsRead
      <4>2. CASE x = a
        <5>1. b.name \in ActiveNames BY <1>4, <2>6, <4>1, <4>2
        <5> QED BY <2>3, <2>7, <4>1, <4>2, <5>1
      <4>3. CASE x # a BY <2>7, <4>1, <4>3
      <4> QED BY <4>2, <4>3
    <3>2. ASSUME NEW x \in accountRows'
          PROVE  x.name \in ActiveNames \/ \E b \in boot.read : b.id = x.id /\ b.name = x.name /\ (b.closed => x.closed)
      <4>1. CASE x = d BY <1>4, <2>3, <4>1
      <4>2. CASE x # d BY <1>2, <2>7, <4>2 DEF KeepsRead
      <4> QED BY <4>1, <4>2
    <3> QED BY <1>1, <1>5, <3>1, <3>2 DEF KeepsRead
  <2> QED BY <1>1, <2>1, <2>8, <2>10, <2>11, EntryApplied
<1> QED BY <1>1, <1>7, <1>8

\* An account is opened or closed: it stays the one account of its entry.
LEMMA AccountOpenedOrClosed ==
  ASSUME BootShape, Coherent, AccountsInv, NEW e \in config.accounts, OpenOrCloseAccount(e)
  PROVE  AccountsInv'
<1>1. e.closed \in BOOLEAN BY ConfigIs DEF BootShape
<1>2. boot.phase = "accounts" /\ e \in boot.left /\ UNCHANGED <<config, boot>>
  BY <1>1, OpenOrCloseIs
<1>3. PICK a \in accountRows : \E b : AccountMoved(e, a, b) BY <1>1, OpenOrCloseIs
<1>4. PICK b : AccountMoved(e, a, b) BY <1>3
<1>5. /\ {c.id : c \in Called(boot.read, e)} = {a.id}
      /\ accountRows' = (accountRows \ {a}) \cup {b}
      /\ b.id = a.id /\ b.name = a.name
  BY <1>4 DEF AccountMoved
<1>6. KeepsRead /\ IdsOf(accountRows, e) = IdsOf(boot.read, e) BY <1>2 DEF AccountsInv
<1>7. Called(accountRows, e) = {a}
  <2>1. \A c \in Called(accountRows, e) : c.id = a.id BY <1>5, <1>6 DEF IdsOf
  <2>2. \A c \in Called(accountRows, e) : c = a BY <2>1, CalledIs DEF BootShape, Keyed
  <2>3. Called(accountRows, e) # {} BY <1>5, <1>6 DEF IdsOf
  <2> QED BY <2>2, <2>3
<1>8. a.name \in NamesOf(e) /\ NamesOf(e) \subseteq ActiveNames BY <1>7, CalledIs, NamesActive
<1>9. Called(accountRows', e) = {b}
  <2>1. \A x : x \in Called(accountRows', e) <=> x = b BY <1>5, <1>7, <1>8, CalledIs
  <2> QED BY <2>1
<1>10. ASSUME NEW f \in config.accounts, f # e
       PROVE  Called(accountRows', f) = Called(accountRows, f)
  <2>1. a.name \notin NamesOf(f) BY <1>8, <1>10, NamesApart
  <2>2. \A x : x \in Called(accountRows', f) <=> x \in Called(accountRows, f) BY <1>5, <2>1, CalledIs
  <2> QED BY <2>2 DEF Called
<1>11. ASSUME NEW f \in config.accounts
       PROVE  IF f \in boot'.left THEN IdsOf(accountRows', f) = IdsOf(boot'.read, f) ELSE EntryDone(f)'
  <2>1. IF f \in boot.left THEN IdsOf(accountRows, f) = IdsOf(boot.read, f) ELSE EntryDone(f)
    BY <1>2 DEF AccountsInv
  <2>2. CASE f = e
    <3>1. IdsOf(accountRows', e) = {b.id} BY <1>9 DEF IdsOf
    <3> QED BY <1>2, <1>5, <2>2, <3>1 DEF IdsOf
  <2>3. CASE f # e /\ f \in boot.left
    <3>1. IdsOf(accountRows', f) = IdsOf(accountRows, f) BY <1>10, <2>3 DEF IdsOf
    <3> QED BY <1>2, <2>1, <2>3, <3>1
  <2>4. CASE f # e /\ f \notin boot.left
    <3>1. PICK c \in accountRows : /\ Called(accountRows, f) = {c} /\ c.name = f.name
                                   /\ c.closed = f.closed \/ (f.closed /\ c.id \in boot.made)
      BY <2>1, <2>4 DEF EntryDone
    <3>2. Called(accountRows', f) = {c} BY <1>10, <2>4, <3>1
    <3>3. c \in accountRows' BY <3>2, CalledIs
    <3>4. EntryDone(f)' BY <1>2, <3>1, <3>2, <3>3 DEF EntryDone
    <3> QED BY <1>2, <2>4, <3>4
  <2> QED BY <2>2, <2>3, <2>4
<1>12. ASSUME NEW f \in config.accounts PROVE OneAccount(f)'
  <2>1. OneAccount(f) BY DEF AccountsInv
  <2>2. CASE f = e
    <3>1. AtMostOne(Called(accountRows', f)) BY <1>9, <2>2 DEF AtMostOne
    <3> QED BY <3>1 DEF OneAccount
  <2>3. CASE f # e BY <1>10, <2>1, <2>3 DEF OneAccount
  <2> QED BY <2>2, <2>3
<1>13. KeepsRead'
  <2>1. ActiveNames' = ActiveNames BY <1>2 DEF ActiveNames
  <2>2. ASSUME NEW c \in boot.read
        PROVE  \E x \in accountRows' : x.id = c.id /\ (c.name \notin ActiveNames => x.name = c.name)
    <3>1. PICK x \in accountRows : x.id = c.id /\ (c.name \notin ActiveNames => x.name = c.name)
      BY <1>6 DEF KeepsRead
    <3> QED BY <1>5, <3>1
  <2>3. ASSUME NEW x \in accountRows'
        PROVE  x.name \in ActiveNames \/ \E c \in boot.read : c.id = x.id /\ c.name = x.name /\ (c.closed => x.closed)
    <3>1. CASE x = b BY <1>5, <1>8, <3>1
    <3>2. CASE x # b BY <1>5, <1>6, <3>2 DEF KeepsRead
    <3> QED BY <3>1, <3>2
  <2> QED BY <1>2, <2>1, <2>2, <2>3 DEF KeepsRead
<1> QED BY <1>2, <1>11, <1>12, <1>13 DEF AccountsInv

\* An account that is retired is none of the configuration's.
LEMMA AccountRetired ==
  ASSUME BootShape, AccountsInv, NEW n \in config.retiredAccounts, RetireAccount(n)
  PROVE  AccountsInv'
<1> DEFINE ids == {b.id : b \in Retiring(boot.read, n)}
<1>1. /\ boot.phase = "retired accounts" /\ n \in boot.left /\ n \notin ActiveNames
      /\ accountRows' = {ClosedIn(ids, a) : a \in accountRows}
      /\ boot'.phase = boot.phase /\ boot'.left = boot.left \ {n}
      /\ boot'.read = boot.read /\ boot'.made = boot.made /\ config' = config
  BY RetireAccountIs
<1>2. ASSUME NEW i \in ids PROVE \E b \in boot.read : b.id = i /\ b.name = n
  BY DEF Retiring
<1>3. \A b \in boot.read :
        (b.name = n /\ ~b.closed /\ \A c \in boot.read : c.name = n => b.id <= c.id) => b.id \in ids
  BY DEF Retiring
<1> HIDE DEF ids
<1>4. KeepsRead /\ \A e \in config.accounts : EntryDone(e) /\ OneAccount(e) BY <1>1 DEF AccountsInv
<1>5. \A x, y \in accountRows : x.id = y.id => x = y BY DEF BootShape, Keyed
<1>6. ActiveNames' = ActiveNames BY <1>1 DEF ActiveNames
<1>7. ASSUME NEW a \in accountRows
      PROVE  LET c == ClosedIn(ids, a)
             IN /\ c \in accountRows' /\ c.id = a.id /\ c.name = a.name
                /\ a.closed => c.closed
                /\ a.id \in ids => c.closed
                /\ a.id \notin ids => c = a
  BY <1>1, ClosedInIs DEF BootShape
<1>8. ASSUME NEW x \in accountRows' PROVE \E a \in accountRows : x = ClosedIn(ids, a)
  BY <1>1
<1>9. ASSUME NEW a \in accountRows, a.id \in ids PROVE a.name = n
  <2>1. PICK b \in boot.read : b.id = a.id /\ b.name = n BY <1>2, <1>9
  <2>2. PICK c \in accountRows : c.id = b.id /\ c.name = b.name BY <1>1, <1>4, <2>1 DEF KeepsRead
  <2> QED BY <1>5, <2>1, <2>2
<1>10. ASSUME NEW e \in config.accounts PROVE Called(accountRows', e) = Called(accountRows, e)
  <2>1. NamesOf(e) \subseteq ActiveNames BY NamesActive
  <2>2. ASSUME NEW a \in accountRows, a.name \in NamesOf(e) PROVE ClosedIn(ids, a) = a
    BY <1>1, <1>7, <1>9, <2>1, <2>2
  <2>3. ASSUME NEW x \in Called(accountRows', e) PROVE x \in Called(accountRows, e)
    <3>1. x \in accountRows' /\ x.name \in NamesOf(e) BY CalledIs
    <3>2. PICK a \in accountRows : x = ClosedIn(ids, a) BY <1>8, <3>1
    <3>3. a.name \in NamesOf(e) BY <1>7, <3>1, <3>2
    <3> QED BY <2>2, <3>1, <3>2, <3>3, CalledIs
  <2>4. ASSUME NEW a \in Called(accountRows, e) PROVE a \in Called(accountRows', e)
    <3>1. a \in accountRows /\ a.name \in NamesOf(e) BY CalledIs
    <3>2. a \in accountRows' BY <1>7, <2>2, <3>1
    <3> QED BY <3>1, <3>2, CalledIs
  <2> QED BY <2>3, <2>4
<1>11. \A e \in config.accounts : EntryDone(e)' /\ OneAccount(e)'
  <2> TAKE e \in config.accounts
  <2>1. PICK a \in accountRows : /\ Called(accountRows, e) = {a} /\ a.name = e.name
                                 /\ a.closed = e.closed \/ (e.closed /\ a.id \in boot.made)
    BY <1>4 DEF EntryDone
  <2>2. Called(accountRows', e) = {a} BY <1>10, <2>1
  <2>3. a \in accountRows' BY <2>2, CalledIs
  <2>4. EntryDone(e)' BY <1>1, <2>1, <2>2, <2>3 DEF EntryDone
  <2>5. OneAccount(e)' BY <1>4, <1>10 DEF OneAccount
  <2> QED BY <2>4, <2>5
<1>12. KeepsRead'
  <2>1. ASSUME NEW b \in boot.read
        PROVE  \E x \in accountRows' : x.id = b.id /\ (b.name \notin ActiveNames => x.name = b.name)
    <3>1. PICK a \in accountRows : a.id = b.id /\ (b.name \notin ActiveNames => a.name = b.name)
      BY <1>4 DEF KeepsRead
    <3> QED BY <1>7, <3>1
  <2>2. ASSUME NEW x \in accountRows'
        PROVE  x.name \in ActiveNames \/ \E b \in boot.read : b.id = x.id /\ b.name = x.name /\ (b.closed => x.closed)
    <3>1. PICK a \in accountRows : x = ClosedIn(ids, a) BY <1>8
    <3>2. x.id = a.id /\ x.name = a.name /\ (a.closed => x.closed) BY <1>7, <3>1
    <3>3. a.name \in ActiveNames \/ \E b \in boot.read : b.id = a.id /\ b.name = a.name /\ (b.closed => a.closed)
      BY <1>4 DEF KeepsRead
    <3> QED BY <3>2, <3>3
  <2> QED BY <1>1, <1>6, <2>1, <2>2 DEF KeepsRead
<1>13. Retiring(accountRows', n) = {}
  <2>1. SUFFICES ASSUME NEW x \in Retiring(accountRows', n) PROVE FALSE
    OBVIOUS
  <2>2. /\ x \in accountRows' /\ x.name = n /\ ~x.closed
        /\ \A y \in accountRows' : y.name = n => x.id <= y.id
    BY DEF Retiring
  <2>3. PICK a \in accountRows : x = ClosedIn(ids, a) BY <1>8, <2>2
  <2>4. x.id = a.id /\ a.name = n /\ ~a.closed /\ a.id \notin ids BY <1>7, <2>2, <2>3
  <2>5. PICK b \in boot.read : b.id = a.id /\ b.name = n /\ (b.closed => a.closed)
    BY <1>1, <1>4, <2>4 DEF KeepsRead
  <2>6. ASSUME NEW c \in boot.read, c.name = n PROVE b.id <= c.id
    <3>1. PICK k \in accountRows : k.id = c.id /\ k.name = n BY <1>1, <1>4, <2>6 DEF KeepsRead
    <3>2. ClosedIn(ids, k) \in accountRows' /\ ClosedIn(ids, k).id = c.id /\ ClosedIn(ids, k).name = n
      BY <1>7, <3>1
    <3> QED BY <2>2, <2>4, <2>5, <3>2
  <2>7. b.id \in ids BY <1>3, <2>4, <2>5, <2>6
  <2> QED BY <2>4, <2>5, <2>7
<1>14. ASSUME NEW m, Retiring(accountRows, m) = {} PROVE Retiring(accountRows', m) = {}
  <2>1. SUFFICES ASSUME NEW x \in Retiring(accountRows', m) PROVE FALSE
    OBVIOUS
  <2>2. /\ x \in accountRows' /\ x.name = m /\ ~x.closed
        /\ \A y \in accountRows' : y.name = m => x.id <= y.id
    BY DEF Retiring
  <2>3. PICK a \in accountRows : x = ClosedIn(ids, a) BY <1>8, <2>2
  <2>4. x.id = a.id /\ a.name = m /\ ~a.closed BY <1>7, <2>2, <2>3
  <2>5. ASSUME NEW b \in accountRows, b.name = m PROVE a.id <= b.id
    <3>1. ClosedIn(ids, b) \in accountRows' /\ ClosedIn(ids, b).id = b.id /\ ClosedIn(ids, b).name = m
      BY <1>7, <2>5
    <3> QED BY <2>2, <2>4, <3>1
  <2>6. a \in Retiring(accountRows, m) BY <2>4, <2>5 DEF Retiring
  <2> QED BY <1>14, <2>6
<1>15. \A m \in config.retiredAccounts \ boot'.left : Retiring(accountRows', m) = {}
  <2> TAKE m \in config.retiredAccounts \ boot'.left
  <2>1. CASE m = n BY <1>13, <2>1
  <2>2. CASE m # n
    <3>1. m \in config.retiredAccounts \ boot.left BY <1>1, <2>2
    <3>2. Retiring(accountRows, m) = {} BY <1>1, <3>1 DEF AccountsInv
    <3> QED BY <1>14, <3>2
  <2> QED BY <2>1, <2>2
<1> QED BY <1>1, <1>11, <1>12, <1>15 DEF AccountsInv

LEMMA AccountsNextPhase ==
  ASSUME BootShape, AccountsInv, NextPhase
  PROVE  AccountsInv'
<1>1. /\ boot.left = {} /\ boot'.made = boot.made /\ UNCHANGED <<config, accountRows>>
  BY NextPhaseIs DEF tables
<1>2. \A e \in config.accounts : OneAccount(e)' BY <1>1 DEF AccountsInv, OneAccount
<1>3. CASE boot.phase = "accounts"
  <2>1. boot'.phase = "retired accounts" /\ boot'.left = config.retiredAccounts /\ boot'.read = boot.read
    BY <1>3, NextPhaseIs DEF Enters
  <2>2. KeepsRead BY <1>3 DEF AccountsInv
  <2>3. KeepsRead' BY <1>1, <2>1, <2>2 DEF KeepsRead, ActiveNames
  <2>4. \A e \in config.accounts : EntryDone(e) BY <1>1, <1>3 DEF AccountsInv
  <2>5. \A e \in config.accounts : EntryDone(e)' BY <1>1, <2>4 DEF EntryDone
  <2> QED BY <1>1, <1>2, <2>1, <2>3, <2>5 DEF AccountsInv
<1>4. CASE boot.phase = "retired accounts"
  <2>1. boot'.phase = "names" BY <1>4, NextPhaseIs DEF Enters
  <2>2. \A e \in config.accounts : EntryDone(e) BY <1>4 DEF AccountsInv
  <2>3. \A e \in config.accounts : EntryDone(e)' BY <1>1, <2>2 DEF EntryDone
  <2>4. \A n \in config.retiredAccounts : Retiring(accountRows, n) = {} BY <1>1, <1>4 DEF AccountsInv
  <2> QED BY <1>1, <1>2, <2>1, <2>3, <2>4 DEF AccountsInv
<1>5. CASE boot.phase \notin {"accounts", "retired accounts"}
  <2>1. boot.phase \notin {"none", "accounts", "retired accounts"} BY <1>5, NextPhaseIs
  <2>2. boot'.phase \notin {"none", "accounts", "retired accounts"} BY <1>5, NextPhaseIs DEF Enters
  <2> QED BY <1>1, <2>1, <2>2, AccountsKept
<1> QED BY <1>3, <1>4, <1>5

LEMMA AccountsTouched ==
  ASSUME BootShape, AccountsInv, Touch
  PROVE  AccountsInv'
<1>1. boot'.phase = "none" /\ config' = config BY TouchIs, NoBootIs
<1>2. CASE accountRows' = accountRows BY <1>1, <1>2, AccountsStopped
<1>3. CASE \E a \in accountRows : \E b : accountRows' = (accountRows \ {a}) \cup {b} /\ TouchedAccount(a, b)
  <2>1. PICK a \in accountRows : \E b : accountRows' = (accountRows \ {a}) \cup {b} /\ TouchedAccount(a, b)
    BY <1>3
  <2>4. PICK b : accountRows' = (accountRows \ {a}) \cup {b} /\ TouchedAccount(a, b) BY <2>1
  <2>2. b.name = a.name BY <2>4 DEF TouchedAccount
  <2>3. \A e \in config.accounts : OneAccount(e)'
    <3> TAKE e \in config.accounts
    <3>1. OneAccount(e) BY DEF AccountsInv
    <3>2. AtMostOne(Called(accountRows, e)) => AtMostOne(Called(accountRows', e))
      BY <2>4, <2>2, CalledIs DEF AtMostOne
    <3> QED BY <3>1, <3>2 DEF OneAccount
  <2> QED BY <1>1, <2>3 DEF AccountsInv
<1> QED BY <1>2, <1>3, TouchIs

LEMMA AccountsStep ==
  ASSUME BootShape, Coherent, AccountsInv, [BootNext]_bootVars
  PROVE  AccountsInv'
<1>1. CASE StopBoot
  <2>1. boot'.phase = "none" /\ UNCHANGED <<config, accountRows>> BY <1>1, NoBootIs DEF StopBoot, tables
  <2> QED BY <2>1, AccountsStopped
<1>2. ASSUME NEW x, StepsBy(x), boot.phase \notin {"none", "accounts", "retired accounts"} PROVE AccountsInv'
  BY <1>2, AccountsKept DEF StepsBy
<1>3. CASE \E n \in config.names : CreateName(n)
  <2>1. PICK n : CreateName(n) BY <1>3
  <2> QED BY <1>2, <2>1, CreateNameIs
<1>4. CASE \E r \in bookRules : DeleteRule(r)
  <2>1. PICK r : DeleteRule(r) BY <1>4
  <2> QED BY <1>2, <2>1, DeleteRuleIs
<1>5. CASE \E r \in config.rules : CreateRule(r)
  <2>1. PICK r : CreateRule(r) BY <1>5
  <2> QED BY <1>2, <2>1, CreateRuleIs
<1>6. CASE \E s \in schedules : DeleteSchedule(s)
  <2>1. PICK s : DeleteSchedule(s) BY <1>6
  <2> QED BY <1>2, <2>1, DeleteScheduleIs
<1>7. CASE \E e \in config.schedules : ApplySchedule(e)
  <2>1. PICK e : ApplySchedule(e) BY <1>7
  <2> QED BY <1>2, <2>1, ApplyScheduleIs
<1>8. CASE UNCHANGED bootVars
  <2>1. UNCHANGED <<config, accountRows, boot>> BY <1>8 DEF bootVars
  <2>2. ActiveNames' = ActiveNames BY <2>1 DEF ActiveNames
  <2>3. KeepsRead => KeepsRead' BY <2>1, <2>2 DEF KeepsRead
  <2>4. \A e : (EntryDone(e) => EntryDone(e)') /\ (OneAccount(e) => OneAccount(e)')
    BY <2>1 DEF EntryDone, OneAccount
  <2> QED BY <2>1, <2>3, <2>4 DEF AccountsInv
<1> QED BY <1>1, <1>3, <1>4, <1>5, <1>6, <1>7, <1>8, AccountsStarted, AccountsNextPhase, AccountsTouched,
           AccountOpenedOrClosed, AccountApplied, AccountRetired DEF BootNext

-----------------------------------------------------------------------------
(* Names and rules.                                                         *)

HasRule(r) == \E x \in bookRules : x.rule = r
NoneRetired == \A x \in bookRules : x.rule \notin RetiredRules

RulesInv ==
  /\ boot.phase = "names" => config.names \ boot.left \subseteq names
  /\ boot.phase \notin {"none", "accounts", "retired accounts", "names"} => config.names \subseteq names
  /\ boot.phase = "retired rules" => \A x \in bookRules : x.rule \in RetiredRules => x \in boot.left
  /\ boot.phase \in {"rules", "retired schedules", "schedules", "done"} => NoneRetired
  /\ boot.phase = "rules" => \A r \in config.rules \ boot.left : HasRule(r)
  /\ boot.phase \in {"retired schedules", "schedules", "done"} => \A r \in config.rules : HasRule(r)

LEMMA SameRetiredRules ==
  ASSUME config' = config
  PROVE  RetiredRules' = RetiredRules
BY DEF RetiredRules

LEMMA RulesInit == BootInit => RulesInv
<1> SUFFICES ASSUME BootInit PROVE RulesInv
  OBVIOUS
<1>1. boot.phase = "none" BY NoBootIs DEF BootInit
<1> QED BY <1>1 DEF RulesInv

LEMMA RulesKept ==
  ASSUME RulesInv, UNCHANGED <<config, names, bookRules>>, boot'.phase = boot.phase,
         boot.phase \notin {"names", "retired rules", "rules"}
  PROVE  RulesInv'
<1>1. RetiredRules' = RetiredRules BY SameRetiredRules
<1> QED BY <1>1 DEF RulesInv, NoneRetired, HasRule

LEMMA RulesUnread ==
  ASSUME boot'.phase \in {"none", "accounts", "retired accounts"}
  PROVE  RulesInv'
BY DEF RulesInv

LEMMA RulesNextPhase ==
  ASSUME BootShape, RulesInv, NextPhase
  PROVE  RulesInv'
<1>1. /\ boot.left = {} /\ UNCHANGED <<config, names, bookRules>>
  BY NextPhaseIs DEF tables
<1>2. RetiredRules' = RetiredRules BY <1>1, SameRetiredRules
<1>3. /\ NoneRetired => NoneRetired'
      /\ \A r : HasRule(r) => HasRule(r)'
  BY <1>1, <1>2 DEF NoneRetired, HasRule
<1>4. CASE boot.phase = "accounts"
  <2>1. boot'.phase = "retired accounts" BY <1>4, NextPhaseIs DEF Enters
  <2> QED BY <2>1, RulesUnread
<1>5. CASE boot.phase = "retired accounts"
  <2>1. boot'.phase = "names" /\ boot'.left = config.names \ names BY <1>5, NextPhaseIs DEF Enters
  <2> QED BY <1>1, <2>1 DEF RulesInv
<1>6. CASE boot.phase = "names"
  <2>1. /\ boot'.phase = "retired rules"
        /\ boot'.left = {x \in bookRules : x.rule \in RetiredRules}
    BY <1>6, NextPhaseIs DEF Enters
  <2>2. config.names \subseteq names BY <1>1, <1>6 DEF RulesInv
  <2> QED BY <1>1, <1>2, <2>1, <2>2 DEF RulesInv
<1>7. CASE boot.phase = "retired rules"
  <2>1. boot'.phase = "rules" /\ boot'.left = config.rules BY <1>7, NextPhaseIs DEF Enters
  <2>2. config.names \subseteq names /\ NoneRetired BY <1>1, <1>7 DEF RulesInv, NoneRetired
  <2> QED BY <1>1, <1>3, <2>1, <2>2 DEF RulesInv
<1>8. CASE boot.phase = "rules"
  <2>1. boot'.phase = "retired schedules" BY <1>8, NextPhaseIs DEF Enters
  <2>2. config.names \subseteq names /\ NoneRetired /\ \A r \in config.rules : HasRule(r)
    BY <1>1, <1>8 DEF RulesInv
  <2> QED BY <1>1, <1>3, <2>1, <2>2 DEF RulesInv
<1>9. CASE boot.phase \in {"retired schedules", "schedules"}
  <2>1. boot'.phase \in {"schedules", "done"} BY <1>9, NextPhaseIs DEF Enters
  <2>2. config.names \subseteq names /\ NoneRetired /\ \A r \in config.rules : HasRule(r)
    BY <1>9 DEF RulesInv
  <2> QED BY <1>1, <1>3, <2>1, <2>2 DEF RulesInv
<1> QED BY <1>4, <1>5, <1>6, <1>7, <1>8, <1>9, NextPhaseIs

LEMMA RulesStep ==
  ASSUME BootShape, Coherent, RulesInv, [BootNext]_bootVars
  PROVE  RulesInv'
<1>1. CASE StartBoot BY <1>1, StartIs, RulesUnread
<1>2. CASE StopBoot
  <2>1. boot'.phase = "none" BY <1>2, NoBootIs DEF StopBoot
  <2> QED BY <2>1, RulesUnread
<1>3. CASE Touch
  <2>1. boot'.phase = "none" BY <1>3, NoBootIs, TouchIs
  <2> QED BY <2>1, RulesUnread
<1>4. CASE \E e \in config.accounts : ApplyAccount(e)
  <2>1. boot'.phase = "accounts" BY <1>4, ApplyAccountIs
  <2> QED BY <2>1, RulesUnread
<1>12. CASE \E e \in config.accounts : OpenOrCloseAccount(e)
  <2>1. boot'.phase = "accounts" BY <1>12 DEF OpenOrCloseAccount
  <2> QED BY <2>1, RulesUnread
<1>5. CASE \E n \in config.retiredAccounts : RetireAccount(n)
  <2>1. boot'.phase = "retired accounts" BY <1>5, RetireAccountIs
  <2> QED BY <2>1, RulesUnread
<1>6. CASE \E n \in config.names : CreateName(n)
  <2>1. PICK n : CreateName(n) BY <1>6
  <2>2. /\ boot.phase = "names" /\ boot'.phase = "names" /\ boot'.left = boot.left \ {n}
        /\ config' = config /\ names' = names \cup {n}
    BY <2>1, CreateNameIs DEF StepsBy
  <2>3. config.names \ boot.left \subseteq names BY <2>2 DEF RulesInv
  <2> QED BY <2>2, <2>3 DEF RulesInv
<1>7. CASE \E r \in bookRules : DeleteRule(r)
  <2>1. PICK r : DeleteRule(r) BY <1>7
  <2>2. /\ boot.phase = "retired rules" /\ boot'.phase = "retired rules" /\ boot'.left = boot.left \ {r}
        /\ UNCHANGED <<config, names>> /\ bookRules' = bookRules \ {r}
    BY <2>1, DeleteRuleIs DEF StepsBy
  <2>3. RetiredRules' = RetiredRules BY <2>2, SameRetiredRules
  <2>4. config.names \subseteq names /\ \A x \in bookRules : x.rule \in RetiredRules => x \in boot.left
    BY <2>2 DEF RulesInv
  <2> QED BY <2>2, <2>3, <2>4 DEF RulesInv
<1>8. CASE \E r \in config.rules : CreateRule(r)
  <2>1. PICK r \in config.rules : CreateRule(r) BY <1>8
  <2>2. /\ boot.phase = "rules" /\ boot'.phase = "rules" /\ boot'.left = boot.left \ {r}
        /\ UNCHANGED <<config, names>>
        /\ \/ ~RuleIsWanted(bookRules, r) /\ bookRules' = bookRules
           \/ bookRules' = bookRules \cup {[id |-> Fresh(bookRules), rule |-> r]}
    BY <2>1, CreateRuleIs DEF StepsBy
  <2>3. RetiredRules' = RetiredRules BY <2>2, SameRetiredRules
  <2>4. config.names \subseteq names /\ NoneRetired /\ \A s \in config.rules \ boot.left : HasRule(s)
    BY <2>2 DEF RulesInv
  <2>5. r \notin RetiredRules BY DEF Coherent
  <2>6. PICK new : new.rule = r /\ new \in bookRules' /\ bookRules' = bookRules \cup {new}
    <3>1. CASE ~RuleIsWanted(bookRules, r) /\ bookRules' = bookRules
      BY <3>1 DEF RuleIsWanted
    <3>2. CASE bookRules' = bookRules \cup {[id |-> Fresh(bookRules), rule |-> r]}
      BY <3>2
    <3> QED BY <2>2, <3>1, <3>2
  <2>7. NoneRetired' BY <2>3, <2>4, <2>5, <2>6 DEF NoneRetired
  <2>8. HasRule(r)' BY <2>6 DEF HasRule
  <2>9. \A s : HasRule(s) => HasRule(s)' BY <2>6 DEF HasRule
  <2> QED BY <2>2, <2>4, <2>7, <2>8, <2>9 DEF RulesInv
<1>9. CASE \E s \in schedules : DeleteSchedule(s)
  <2>1. PICK s : DeleteSchedule(s) BY <1>9
  <2>2. /\ boot.phase = "retired schedules" /\ boot'.phase = boot.phase
        /\ UNCHANGED <<config, names, bookRules>>
    BY <2>1, DeleteScheduleIs DEF StepsBy
  <2> QED BY <2>2, RulesKept
<1>10. CASE \E e \in config.schedules : ApplySchedule(e)
  <2>1. PICK e : ApplySchedule(e) BY <1>10
  <2>2. /\ boot.phase = "schedules" /\ boot'.phase = boot.phase
        /\ UNCHANGED <<config, names, bookRules>>
    BY <2>1, ApplyScheduleIs DEF StepsBy
  <2> QED BY <2>2, RulesKept
<1>11. CASE UNCHANGED bootVars
  <2>1. UNCHANGED <<config, names, bookRules, boot>> BY <1>11 DEF bootVars
  <2>2. RetiredRules' = RetiredRules BY <2>1, SameRetiredRules
  <2>3. /\ NoneRetired => NoneRetired'
        /\ \A r : HasRule(r) => HasRule(r)'
    BY <2>1, <2>2 DEF NoneRetired, HasRule
  <2> QED BY <2>1, <2>2, <2>3 DEF RulesInv
<1> QED BY <1>1, <1>2, <1>3, <1>4, <1>5, <1>6, <1>7, <1>8, <1>9, <1>10, <1>11, <1>12, RulesNextPhase DEF BootNext

-----------------------------------------------------------------------------
(* Schedules.                                                               *)

EnabledIn(c) == {e \in c.schedules : e.enabled}
OwnersIn(c) == {e.owner : e \in EnabledIn(c)}
RetiredIn(c, rows) ==
  {s \in rows : /\ s.owner # Manual
                /\ s.owner \notin OwnersIn(c) \/ s.owner \in c.retiredSchedules \/ s.name \in c.retiredSchedules}
StaysIn(c, rows) == \A s \in rows : s.owner \in OwnersIn(c) => s.name \notin c.retiredSchedules
AwayIn(c) ==
  {s \in UNION {b.schedules : b \in Budgets} : s.name \in c.retiredSchedules /\ s.owner \in OwnersIn(c)}
OwnersApart(c) == \A e, f \in c.schedules : e # f => e.owner # f.owner

\* The rows that the retirement leaves of those that were read.
Unretired(c, rows) == rows \ RetiredIn(c, rows)

EntryApplies(e) == \E s \in OwnersRows(schedules, e) : ~Differs(s, e)
OneSchedule(e) ==
  (\A b \in Budgets : AtMostOne(OwnersRows(b.schedules, e))) => AtMostOne(OwnersRows(schedules, e))

SchedulesInv ==
  /\ \A e \in config.schedules : OneSchedule(e)
  /\ AwayIn(config) = {} => StaysIn(config, schedules)
  /\ boot.phase \in {"retired schedules", "schedules"} =>
       OwnersApart(config) /\ (AwayIn(config) = {} => StaysIn(config, boot.read))
  /\ boot.phase = "retired schedules" =>
       /\ boot.left \subseteq RetiredIn(config, boot.read)
       /\ schedules = Unretired(config, boot.read) \cup boot.left
  /\ boot.phase \in {"schedules", "done"} => RetiredIn(config, schedules) = {}
  /\ boot.phase = "schedules" =>
       /\ boot.left \subseteq EnabledIn(config)
       /\ \A e \in EnabledIn(config) :
            IF e \in boot.left THEN OwnersRows(schedules, e) = OwnersRows(Unretired(config, boot.read), e)
            ELSE AwayIn(config) = {} => EntryApplies(e)
  /\ boot.phase = "done" => (AwayIn(config) = {} => \A e \in EnabledIn(config) : EntryApplies(e))

LEMMA ScheduleWords ==
  /\ EnabledSchedules = EnabledIn(config)
  /\ \A rows : RetiredSchedules(rows) = RetiredIn(config, rows)
  /\ RenamedAway = AwayIn(config)
<1>1. EnabledSchedules = EnabledIn(config) BY DEF EnabledSchedules, EnabledIn
<1>2. {e.owner : e \in EnabledSchedules} = OwnersIn(config) BY <1>1 DEF OwnersIn
<1>3. \A rows : RetiredSchedules(rows) = RetiredIn(config, rows)
  BY <1>2 DEF RetiredSchedules, RetiredIn, Owned
<1>4. RenamedAway = AwayIn(config) BY <1>2 DEF RenamedAway, AwayIn
<1> QED BY <1>1, <1>3, <1>4

LEMMA OwnersRowsAre == \A rows, e, s : s \in OwnersRows(rows, e) <=> s \in rows /\ s.owner = e.owner
BY DEF OwnersRows

LEMMA WantedStays ==
  ASSUME Coherent, NEW e \in EnabledIn(config)
  PROVE  /\ e.owner \in OwnersIn(config)
         /\ e.owner \notin config.retiredSchedules /\ e.name \notin config.retiredSchedules
<1>1. e \in EnabledSchedules BY ScheduleWords
<1> QED BY <1>1 DEF Coherent, OwnersIn

LEMMA SchedulesInit == BootInit => SchedulesInv
<1> SUFFICES ASSUME BootInit PROVE SchedulesInv
  OBVIOUS
<1>1. boot.phase = "none" BY NoBootIs DEF BootInit
<1>2. PICK b \in Budgets : schedules = b.schedules BY DEF BootInit
<1>3. \A e : OneSchedule(e) BY <1>2 DEF OneSchedule
<1>4. AwayIn(config) = {} => StaysIn(config, schedules) BY <1>2 DEF AwayIn, StaysIn
<1> QED BY <1>1, <1>3, <1>4 DEF SchedulesInv

LEMMA SchedulesUnread ==
  ASSUME SchedulesInv, UNCHANGED <<config, schedules>>,
         boot'.phase \notin {"retired schedules", "schedules", "done"}
  PROVE  SchedulesInv'
<1>1. \A e : OneSchedule(e) => OneSchedule(e)' BY DEF OneSchedule
<1> QED BY <1>1 DEF SchedulesInv

LEMMA SchedulesNextPhase ==
  ASSUME BootShape, SchedulesInv, NextPhase
  PROVE  SchedulesInv'
<1>1. boot.left = {} /\ UNCHANGED <<config, schedules>> BY NextPhaseIs DEF tables
<1>2. \A e : (OneSchedule(e) => OneSchedule(e)') /\ (EntryApplies(e) => EntryApplies(e)')
  BY <1>1 DEF OneSchedule, EntryApplies
<1>3. CASE boot.phase = "rules"
  <2>1. /\ boot'.phase = "retired schedules" /\ boot'.left = RetiredIn(config, schedules)
        /\ boot'.read = schedules /\ SchedulesAreClear(schedules)
    BY <1>3, ScheduleWords, NextPhaseIs DEF Enters
  <2>2. OwnersApart(config) BY <2>1 DEF SchedulesAreClear, OwnersApart
  <2>3. schedules = Unretired(config, schedules) \cup RetiredIn(config, schedules)
    BY DEF Unretired, RetiredIn
  <2> QED BY <1>1, <1>2, <2>1, <2>2, <2>3 DEF SchedulesInv
<1>4. CASE boot.phase = "retired schedules"
  <2>1. boot'.phase = "schedules" /\ boot'.left = EnabledIn(config) /\ boot'.read = boot.read
    BY <1>4, ScheduleWords, NextPhaseIs DEF Enters
  <2>2. schedules = Unretired(config, boot.read) BY <1>1, <1>4 DEF SchedulesInv
  <2>3. RetiredIn(config, schedules) = {} BY <2>2 DEF Unretired, RetiredIn
  <2>4. \A e \in EnabledIn(config) : OwnersRows(schedules, e) = OwnersRows(Unretired(config, boot.read), e)
    BY <2>2
  <2>5. OwnersApart(config) /\ (AwayIn(config) = {} => StaysIn(config, boot.read))
    BY <1>4 DEF SchedulesInv
  <2> QED BY <1>1, <1>2, <2>1, <2>3, <2>4, <2>5 DEF SchedulesInv
<1>5. CASE boot.phase = "schedules"
  <2>1. boot'.phase = "done" BY <1>5, NextPhaseIs DEF Enters
  <2>2. RetiredIn(config, schedules) = {} BY <1>5 DEF SchedulesInv
  <2>3. AwayIn(config) = {} => \A e \in EnabledIn(config) : EntryApplies(e) BY <1>1, <1>5 DEF SchedulesInv
  <2> QED BY <1>1, <1>2, <2>1, <2>2, <2>3 DEF SchedulesInv
<1>6. CASE boot.phase \notin {"rules", "retired schedules", "schedules"}
  <2>1. boot'.phase \notin {"retired schedules", "schedules", "done"} BY <1>6, NextPhaseIs DEF Enters
  <2> QED BY <1>1, <2>1, SchedulesUnread
<1> QED BY <1>3, <1>4, <1>5, <1>6

LEMMA ScheduleDeleted ==
  ASSUME BootShape, SchedulesInv, NEW s, DeleteSchedule(s)
  PROVE  SchedulesInv'
<1>1. /\ boot.phase = "retired schedules" /\ s \in boot.left /\ boot'.phase = boot.phase
      /\ boot'.left = boot.left \ {s} /\ boot'.read = boot.read
      /\ config' = config /\ schedules' = schedules \ {s}
  BY DeleteScheduleIs DEF StepsBy
<1>2. \A e : OneSchedule(e) => OneSchedule(e)'
  <2> TAKE e
  <2>1. OwnersRows(schedules', e) \subseteq OwnersRows(schedules, e) BY <1>1, OwnersRowsAre
  <2> QED BY <2>1 DEF OneSchedule, AtMostOne
<1>3. AwayIn(config) = {} => StaysIn(config, schedules') BY <1>1 DEF SchedulesInv, StaysIn
<1>4. /\ boot.left \subseteq RetiredIn(config, boot.read)
      /\ schedules = Unretired(config, boot.read) \cup boot.left
      /\ OwnersApart(config) /\ (AwayIn(config) = {} => StaysIn(config, boot.read))
      /\ \A e \in config.schedules : OneSchedule(e)
  BY <1>1 DEF SchedulesInv
<1>5. schedules' = Unretired(config, boot'.read) \cup boot'.left BY <1>1, <1>4 DEF Unretired
<1> QED BY <1>1, <1>2, <1>3, <1>4, <1>5 DEF SchedulesInv

LEMMA SchedulesTouched ==
  ASSUME BootShape, SchedulesInv, Touch
  PROVE  SchedulesInv'
<1>1. boot'.phase = "none" /\ config' = config BY TouchIs, NoBootIs
<1>2. CASE schedules' = schedules BY <1>1, <1>2, SchedulesUnread
<1>3. CASE \E b : schedules' = schedules \cup {b} /\ b.owner = Manual
  <2>1. PICK b : schedules' = schedules \cup {b} /\ b.owner = Manual BY <1>3
  <2>2. \A e \in config.schedules : e.owner # Manual BY ConfigIs DEF BootShape
  <2>3. ASSUME NEW e \in config.schedules PROVE OneSchedule(e)'
    <3>1. OneSchedule(e) BY DEF SchedulesInv
    <3>2. \A s : s \in OwnersRows(schedules', e) <=> s \in OwnersRows(schedules, e)
      BY <2>1, <2>2, OwnersRowsAre
    <3>3. OwnersRows(schedules', e) = OwnersRows(schedules, e) BY <3>2 DEF OwnersRows
    <3> QED BY <3>1, <3>3 DEF OneSchedule
  <2>4. Manual \notin OwnersIn(config) BY <2>2 DEF OwnersIn, EnabledIn
  <2>5. AwayIn(config) = {} => StaysIn(config, schedules') BY <2>1, <2>4 DEF SchedulesInv, StaysIn
  <2> QED BY <1>1, <2>3, <2>5 DEF SchedulesInv
<1> QED BY <1>2, <1>3, TouchIs

LEMMA ScheduleApplied ==
  ASSUME BootShape, Coherent, SchedulesInv, NEW e \in config.schedules, ApplySchedule(e)
  PROVE  SchedulesInv'
<1> DEFINE rows == OwnersRows(boot.read, e)
<1>1. /\ boot.phase = "schedules" /\ e \in boot.left /\ boot'.phase = boot.phase
      /\ boot'.left = boot.left \ {e} /\ boot'.read = boot.read /\ config' = config
  BY ApplyScheduleIs DEF StepsBy
<1>2. \/ /\ rows = {}
         /\ schedules' = schedules \cup {[id |-> Fresh(schedules), owner |-> e.owner, name |-> e.name,
                                          terms |-> e.terms]}
      \/ /\ rows # {}
         /\ schedules' = {RenamedIn(rows, e, s) : s \in schedules}
  BY ApplyScheduleIs
<1>3. \A s : s \in rows <=> s \in boot.read /\ s.owner = e.owner BY OwnersRowsAre
<1> HIDE DEF rows
<1>4. /\ e \in EnabledIn(config) /\ OwnersApart(config)
      /\ AwayIn(config) = {} => StaysIn(config, boot.read) /\ StaysIn(config, schedules)
      /\ RetiredIn(config, schedules) = {} /\ boot.left \subseteq EnabledIn(config)
      /\ OwnersRows(schedules, e) = OwnersRows(Unretired(config, boot.read), e)
  BY <1>1 DEF SchedulesInv
<1>5. /\ e.owner \in OwnersIn(config)
      /\ e.owner \notin config.retiredSchedules /\ e.name \notin config.retiredSchedules
  BY <1>4, WantedStays
<1>6. ASSUME NEW s \in schedules
      PROVE  LET c == RenamedIn(rows, e, s)
             IN /\ c.owner = s.owner
                /\ s \in rows => c.name = e.name /\ c.terms = e.terms
                /\ s \notin rows => c = s
  <2>1. IsSchedule(s) BY DEF BootShape
  <2> QED BY <2>1, RenamedInIs
<1>7. ASSUME NEW x \in schedules' PROVE x \in schedules \/ (x.owner = e.owner /\ x.name = e.name)
  BY <1>2, <1>3, <1>6
<1>8. ASSUME NEW f \in config.schedules, f # e PROVE OwnersRows(schedules', f) = OwnersRows(schedules, f)
  <2>1. f.owner # e.owner BY <1>4, <1>8 DEF OwnersApart
  <2>2. \A s : s \in OwnersRows(schedules', f) <=> s \in OwnersRows(schedules, f)
    <3>1. CASE schedules' = schedules \cup {[id |-> Fresh(schedules), owner |-> e.owner, name |-> e.name,
                                             terms |-> e.terms]}
      BY <2>1, <3>1, OwnersRowsAre
    <3>2. CASE schedules' = {RenamedIn(rows, e, s) : s \in schedules}
      <4>1. ASSUME NEW x \in OwnersRows(schedules', f) PROVE x \in OwnersRows(schedules, f)
        <5>1. x \in schedules' /\ x.owner = f.owner BY OwnersRowsAre
        <5>2. PICK s \in schedules : x = RenamedIn(rows, e, s) BY <3>2, <5>1
        <5>3. s.owner = f.owner /\ s \notin rows BY <1>3, <1>6, <2>1, <5>1, <5>2
        <5>4. x = s BY <1>6, <5>2, <5>3
        <5> QED BY <5>3, <5>4, OwnersRowsAre
      <4>2. ASSUME NEW s \in OwnersRows(schedules, f) PROVE s \in OwnersRows(schedules', f)
        <5>1. s \in schedules /\ s.owner = f.owner BY OwnersRowsAre
        <5>2. RenamedIn(rows, e, s) = s BY <1>3, <1>6, <2>1, <5>1
        <5>3. s \in schedules' BY <3>2, <5>1, <5>2
        <5> QED BY <5>1, <5>3, OwnersRowsAre
      <4> QED BY <4>1, <4>2
    <3> QED BY <1>2, <3>1, <3>2
  <2> QED BY <2>2 DEF OwnersRows
<1>9. OneSchedule(e)'
  <2>1. AtMostOne(OwnersRows(schedules, e)) => AtMostOne(OwnersRows(schedules', e))
    <3>1. CASE rows = {}
      <4> DEFINE new == [id |-> Fresh(schedules), owner |-> e.owner, name |-> e.name, terms |-> e.terms]
      <4>1. schedules' = schedules \cup {new} BY <1>2, <3>1
      <4>2. OwnersRows(schedules, e) = {} BY <1>3, <1>4, <3>1, OwnersRowsAre DEF Unretired
      <4> HIDE DEF new
      <4>3. \A x \in OwnersRows(schedules', e) : x = new BY <4>1, <4>2, OwnersRowsAre
      <4> QED BY <4>3 DEF AtMostOne
    <3>2. CASE rows # {}
      <4>1. SUFFICES ASSUME AtMostOne(OwnersRows(schedules, e)),
                            NEW x \in OwnersRows(schedules', e), NEW y \in OwnersRows(schedules', e)
                     PROVE  x = y
        BY DEF AtMostOne
      <4>2. x \in schedules' /\ x.owner = e.owner /\ y \in schedules' /\ y.owner = e.owner BY OwnersRowsAre
      <4>3. PICK s \in schedules : x = RenamedIn(rows, e, s) BY <1>2, <3>2, <4>2
      <4>4. PICK t \in schedules : y = RenamedIn(rows, e, t) BY <1>2, <3>2, <4>2
      <4>5. s.owner = e.owner /\ t.owner = e.owner BY <1>6, <4>2, <4>3, <4>4
      <4>6. s \in OwnersRows(schedules, e) /\ t \in OwnersRows(schedules, e) BY <4>5, OwnersRowsAre
      <4>7. s = t BY <4>1, <4>6 DEF AtMostOne
      <4> QED BY <4>3, <4>4, <4>7
    <3> QED BY <3>1, <3>2
  <2> QED BY <2>1 DEF OneSchedule, SchedulesInv
<1>10. ASSUME AwayIn(config) = {} PROVE EntryApplies(e)'
  <2>1. CASE rows = {}
    <3> DEFINE new == [id |-> Fresh(schedules), owner |-> e.owner, name |-> e.name, terms |-> e.terms]
    <3>1. new \in schedules' /\ new.owner = e.owner /\ new.name = e.name /\ new.terms = e.terms
      BY <1>2, <2>1
    <3> HIDE DEF new
    <3>2. new \in OwnersRows(schedules', e) /\ ~Differs(new, e) BY <3>1, OwnersRowsAre DEF Differs
    <3> QED BY <3>2 DEF EntryApplies
  <2>2. CASE rows # {}
    <3>1. PICK s \in rows : TRUE BY <2>2
    <3>2. s \in boot.read /\ s.owner = e.owner BY <1>3, <3>1
    <3>3. s \notin RetiredIn(config, boot.read) BY <1>4, <1>5, <1>10, <3>2 DEF RetiredIn, StaysIn
    <3>4. s \in OwnersRows(schedules, e) BY <1>4, <3>2, <3>3, OwnersRowsAre DEF Unretired
    <3>5. s \in schedules BY <3>4, OwnersRowsAre
    <3> DEFINE new == RenamedIn(rows, e, s)
    <3>6. new \in schedules' BY <1>2, <2>2, <3>5
    <3>7. new.owner = e.owner /\ new.name = e.name /\ new.terms = e.terms BY <1>6, <3>1, <3>2, <3>5
    <3> HIDE DEF new
    <3>8. new \in OwnersRows(schedules', e) /\ ~Differs(new, e) BY <3>6, <3>7, OwnersRowsAre DEF Differs
    <3> QED BY <3>8 DEF EntryApplies
  <2> QED BY <2>1, <2>2
<1>11. ASSUME NEW f \in config.schedules, f # e
       PROVE  (OneSchedule(f) => OneSchedule(f)') /\ (EntryApplies(f) => EntryApplies(f)')
  <2>1. OwnersRows(schedules', f) = OwnersRows(schedules, f) BY <1>8, <1>11
  <2> QED BY <2>1 DEF OneSchedule, EntryApplies
<1>12. \A f \in config.schedules : OneSchedule(f)' BY <1>9, <1>11 DEF SchedulesInv
<1>13. AwayIn(config) = {} => StaysIn(config, schedules') BY <1>4, <1>5, <1>7 DEF StaysIn
<1>14. RetiredIn(config, schedules') = {} BY <1>4, <1>5, <1>7 DEF RetiredIn
<1>15. ASSUME NEW f \in EnabledIn(config)
       PROVE  IF f \in boot'.left THEN OwnersRows(schedules', f) = OwnersRows(Unretired(config, boot'.read), f)
              ELSE AwayIn(config) = {} => EntryApplies(f)'
  <2>1. IF f \in boot.left THEN OwnersRows(schedules, f) = OwnersRows(Unretired(config, boot.read), f)
        ELSE AwayIn(config) = {} => EntryApplies(f)
    BY <1>1 DEF SchedulesInv
  <2>2. f \in config.schedules BY DEF EnabledIn
  <2>3. CASE f = e BY <1>1, <1>10, <2>3
  <2>4. CASE f # e BY <1>1, <1>8, <1>11, <2>1, <2>2, <2>4
  <2> QED BY <2>3, <2>4
<1> QED BY <1>1, <1>4, <1>12, <1>13, <1>14, <1>15 DEF SchedulesInv

LEMMA SchedulesStep ==
  ASSUME BootShape, Coherent, SchedulesInv, [BootNext]_bootVars
  PROVE  SchedulesInv'
<1>1. CASE StartBoot
  <2>1. boot'.phase = "accounts" /\ UNCHANGED <<config, schedules>> BY <1>1, StartIs DEF StartBoot, tables
  <2> QED BY <2>1, SchedulesUnread
<1>2. CASE StopBoot
  <2>1. boot'.phase = "none" /\ UNCHANGED <<config, schedules>> BY <1>2, NoBootIs DEF StopBoot, tables
  <2> QED BY <2>1, SchedulesUnread
<1>3. CASE \E e \in config.accounts : ApplyAccount(e)
  <2>1. boot'.phase = "accounts" /\ UNCHANGED <<config, schedules>> BY <1>3, ApplyAccountIs
  <2> QED BY <2>1, SchedulesUnread
<1>9. CASE \E e \in config.accounts : OpenOrCloseAccount(e)
  <2>1. boot'.phase = "accounts" /\ UNCHANGED <<config, schedules>> BY <1>9 DEF OpenOrCloseAccount
  <2> QED BY <2>1, SchedulesUnread
<1>4. CASE \E n \in config.retiredAccounts : RetireAccount(n)
  <2>1. boot'.phase = "retired accounts" /\ UNCHANGED <<config, schedules>> BY <1>4, RetireAccountIs
  <2> QED BY <2>1, SchedulesUnread
<1>5. CASE \E n \in config.names : CreateName(n)
  <2>1. boot'.phase = "names" /\ UNCHANGED <<config, schedules>> BY <1>5, CreateNameIs DEF StepsBy
  <2> QED BY <2>1, SchedulesUnread
<1>6. CASE \E r \in bookRules : DeleteRule(r)
  <2>1. boot'.phase = "retired rules" /\ UNCHANGED <<config, schedules>> BY <1>6, DeleteRuleIs DEF StepsBy
  <2> QED BY <2>1, SchedulesUnread
<1>7. CASE \E r \in config.rules : CreateRule(r)
  <2>1. boot'.phase = "rules" /\ UNCHANGED <<config, schedules>> BY <1>7, CreateRuleIs DEF StepsBy
  <2> QED BY <2>1, SchedulesUnread
<1>8. CASE UNCHANGED bootVars
  <2>1. UNCHANGED <<config, schedules, boot>> BY <1>8 DEF bootVars
  <2>2. \A e : (OneSchedule(e) => OneSchedule(e)') /\ (EntryApplies(e) => EntryApplies(e)')
    BY <2>1 DEF OneSchedule, EntryApplies
  <2> QED BY <2>1, <2>2 DEF SchedulesInv
<1> QED BY <1>1, <1>2, <1>3, <1>4, <1>5, <1>6, <1>7, <1>8, <1>9, SchedulesNextPhase, SchedulesTouched,
           ScheduleDeleted, ScheduleApplied DEF BootNext

-----------------------------------------------------------------------------
BootInv == BootShape /\ (Coherent => AccountsInv /\ RulesInv /\ SchedulesInv)

LEMMA BootInitInv == BootInit => BootInv
BY ShapeInit, AccountsInit, RulesInit, SchedulesInit DEF BootInv

LEMMA BootStep == BootInv /\ [BootNext]_bootVars => BootInv'
<1> SUFFICES ASSUME BootInv, [BootNext]_bootVars PROVE BootInv'
  OBVIOUS
<1>1. BootShape /\ BootShape' BY ShapeStep DEF BootInv
<1>2. config' = config
  <2>1. CASE \E e \in config.accounts : ApplyAccount(e) BY <1>1, <2>1, ApplyAccountIs
  <2>2. CASE \E n \in config.retiredAccounts : RetireAccount(n) BY <1>1, <2>2, RetireAccountIs
  <2>3. CASE \E n \in config.names : CreateName(n) BY <2>3 DEF CreateName
  <2>4. CASE \E r \in bookRules : DeleteRule(r) BY <2>4 DEF DeleteRule
  <2>5. CASE \E r \in config.rules : CreateRule(r) BY <2>5 DEF CreateRule
  <2>6. CASE \E s \in schedules : DeleteSchedule(s) BY <2>6 DEF DeleteSchedule
  <2>7. CASE \E e \in config.schedules : ApplySchedule(e) BY <2>7 DEF ApplySchedule
  <2>8. CASE StartBoot \/ NextPhase \/ StopBoot BY <2>8 DEF StartBoot, NextPhase, StopBoot
  <2>9. CASE Touch BY <1>1, <2>9, TouchIs
  <2>10. CASE UNCHANGED bootVars BY <2>10 DEF bootVars
  <2>11. CASE \E e \in config.accounts : OpenOrCloseAccount(e) BY <2>11 DEF OpenOrCloseAccount
  <2> QED BY <2>1, <2>2, <2>3, <2>4, <2>5, <2>6, <2>7, <2>8, <2>9, <2>10, <2>11 DEF BootNext
<1>3. Coherent' => Coherent
  BY <1>2, SameRetiredRules DEF Coherent, EnabledSchedules
<1>4. Coherent => AccountsInv' /\ RulesInv' /\ SchedulesInv'
  BY <1>1, AccountsStep, RulesStep, SchedulesStep DEF BootInv
<1> QED BY <1>1, <1>3, <1>4 DEF BootInv

LEMMA BootQuiet ==
  ASSUME BootInv, Coherent, boot.phase = "done", OpenedOnly = {}, RenamedAway = {}
  PROVE  Quiet
<1>1. BootShape /\ AccountsInv /\ RulesInv /\ SchedulesInv BY DEF BootInv
<1>2. \A e \in config.accounts : ~AccountChange(accountRows, e)
  <2> TAKE e \in config.accounts
  <2>1. EntryDone(e) BY <1>1 DEF AccountsInv
  <2>2. PICK a \in accountRows :
          /\ Called(accountRows, e) = {a} /\ a.name = e.name
          /\ a.closed = e.closed \/ (e.closed /\ a.id \in boot.made)
    BY <2>1 DEF EntryDone
  <2>3. a.closed = e.closed BY <2>2 DEF OpenedOnly
  <2>4. IsAccount(a) /\ e.closed \in BOOLEAN BY <1>1, ConfigIs DEF BootShape
  <2>5. Desired(e, a) = [id |-> a.id, name |-> e.name, closed |-> e.closed, empty |-> a.empty]
    BY <2>4, DesiredIs
  <2>6. Desired(e, a) = a BY <2>2, <2>3, <2>4, <2>5 DEF IsAccount
  <2> QED BY <2>2, <2>6 DEF AccountChange
<1>3. \A n \in config.retiredAccounts : Retiring(accountRows, n) = {} BY <1>1 DEF AccountsInv
<1>4. /\ config.names \subseteq names
      /\ \A r \in bookRules : r.rule \notin RetiredRules
      /\ \A r \in config.rules : ~RuleIsWanted(bookRules, r)
  BY <1>1 DEF RulesInv, NoneRetired, HasRule, RuleIsWanted
<1>5. RetiredSchedules(schedules) = {} BY <1>1, ScheduleWords DEF SchedulesInv
<1>6. \A e \in EnabledSchedules : \E s \in OwnersRows(schedules, e) : ~Differs(s, e)
  BY <1>1, ScheduleWords DEF SchedulesInv, EntryApplies
<1> QED BY <1>2, <1>3, <1>4, <1>5, <1>6 DEF Quiet

LEMMA BootSettled == BootInv => BootTypeOK /\ BootstrapSettles
<1> SUFFICES ASSUME BootInv PROVE BootTypeOK /\ BootstrapSettles
  OBVIOUS
<1>1. BootShape BY DEF BootInv
<1>2. BootTypeOK BY <1>1 DEF BootShape, BootTypeOK, Keyed
<1>3. ASSUME Coherent, NEW e \in config.accounts,
             \A b \in Budgets : Cardinality(Called(b.accounts, e)) <= 1
      PROVE  Cardinality(Called(accountRows, e)) <= 1
  <2>1. ASSUME NEW b \in Budgets PROVE AtMostOne(Called(b.accounts, e))
    <3>1. IsFiniteSet(b.accounts) BY BootstrapAssumption
    <3>2. IsFiniteSet(Called(b.accounts, e))
      <4>1. Called(b.accounts, e) \in SUBSET b.accounts BY CalledIs
      <4> QED BY <3>1, <4>1, FS_Subset
    <3> QED BY <1>3, <3>2, OneOrNone
  <2>2. AtMostOne(Called(accountRows, e)) BY <1>3, <2>1 DEF BootInv, AccountsInv, OneAccount
  <2>3. IsFiniteSet(Called(accountRows, e))
    <3>1. Called(accountRows, e) \in SUBSET accountRows BY CalledIs
    <3> QED BY <1>1, <3>1, FS_Subset DEF BootShape, Keyed
  <2> QED BY <2>2, <2>3, OneOrNone
<1>4. ASSUME Coherent, NEW e \in config.schedules,
             \A b \in Budgets : Cardinality(OwnersRows(b.schedules, e)) <= 1
      PROVE  Cardinality(OwnersRows(schedules, e)) <= 1
  <2>1. ASSUME NEW b \in Budgets PROVE AtMostOne(OwnersRows(b.schedules, e))
    <3>1. IsFiniteSet(b.schedules) BY BootstrapAssumption
    <3>2. IsFiniteSet(OwnersRows(b.schedules, e))
      <4>1. OwnersRows(b.schedules, e) \in SUBSET b.schedules BY OwnersRowsAre
      <4> QED BY <3>1, <4>1, FS_Subset
    <3> QED BY <1>4, <3>2, OneOrNone
  <2>2. AtMostOne(OwnersRows(schedules, e)) BY <1>4, <2>1 DEF BootInv, SchedulesInv, OneSchedule
  <2>3. IsFiniteSet(OwnersRows(schedules, e))
    <3>1. OwnersRows(schedules, e) \in SUBSET schedules BY OwnersRowsAre
    <3> QED BY <1>1, <3>1, FS_Subset DEF BootShape, Keyed
  <2> QED BY <2>2, <2>3, OneOrNone
<1>5. BootstrapSettles BY <1>3, <1>4, BootQuiet DEF BootstrapSettles
<1> QED BY <1>2, <1>5

(* The tables keep their ids, whatever runs, stops, restarts and edits of    *)
(* people come between one another.                                         *)
THEOREM BootTyped == BootSpec => []BootTypeOK
<1> QED BY BootInitInv, BootStep, BootSettled, PTL DEF BootSpec

(* A run of a bootstrap that ends leaves nothing to do, from whatever runs   *)
(* before it left when they stopped, and no run makes a second account or    *)
(* schedule of an entry.                                                    *)
THEOREM BootstrapAlwaysSettles == BootSpec => []BootstrapSettles
<1> QED BY BootInitInv, BootStep, BootSettled, PTL DEF BootSpec
==============================================================================
