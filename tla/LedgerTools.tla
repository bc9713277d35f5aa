------------------------------ MODULE LedgerTools ------------------------------
(***************************************************************************)
(* The command line tools that rewrite the Actual ledger: the replacement  *)
(* of statement rows (integrations/actual/production-rebuild.mjs), the     *)
(* repair and enrichment plans and the deletion plans (actualctl.mjs).     *)
(* A tool opens a local copy, checks it, writes it row by row and syncs.   *)
(* Users go on editing the ledger meanwhile, and a tool can fail or be     *)
(* killed at any point; what it wrote to its copy by then is pushed when   *)
(* it shuts down, by the next tool that opens the copy, or never.          *)
(*                                                                         *)
(* A row is "gone", as the manifests have it ("managed"), as the plans     *)
(* expect it ("drift"), changed otherwise ("other"), or split in one of    *)
(* two ways.  Other rows' identities are their imported ids.               *)
(***************************************************************************)
EXTENDS Naturals, FiniteSets

CONSTANTS
  LedgerRow,
  InScope,       \* rows of the accounts and prefixes of snapshot_scope
  Incoming,      \* rows the manifests have a record of
  PlanRow,       \* rows of the repair, enrichment and deletion plans
  LedgerStart,   \* ledgers to start from
  MaxEdits,      \* bound: edits of users
  MaxToolRuns    \* bound: runs of tools

Split == {"split one", "split two"}
RowState == {"gone", "managed", "drift", "other"} \cup Split
Tool == {"replacement", "repair", "deletion"}

ASSUME LedgerToolsAssumption ==
  /\ InScope \subseteq LedgerRow /\ Incoming \subseteq LedgerRow /\ PlanRow \subseteq LedgerRow
  /\ LedgerStart # {} /\ LedgerStart \subseteq [LedgerRow -> RowState]
  /\ MaxEdits \in Nat /\ MaxToolRuns \in Nat

VARIABLES
  ledger,        \* the rows on the Actual server
  copy,          \* the rows of the local copy
  written,       \* what each tool wrote to the copy and nobody pushed
  tool,          \* the tool that runs
  backups,       \* the exports on disk
  approved,      \* the copy the approved preservation report was made of
  edited,        \* rows users changed since the copy was last opened
  edits, toolRuns

toolVars == <<ledger, copy, written, tool, backups, approved, edited, edits, toolRuns>>

NoTool == [name |-> "none", step |-> "idle", left |-> {}, kept |-> <<>>]
Nothing == [t \in Tool |-> {}]

ToolsTypeOK ==
  /\ ledger \in [LedgerRow -> RowState] /\ copy \in [LedgerRow -> RowState]
  /\ written \in [Tool -> SUBSET LedgerRow]
  /\ tool.name \in Tool \cup {"none"} /\ tool.left \subseteq LedgerRow
  /\ backups \subseteq [LedgerRow -> RowState]
  /\ approved \in {{}} \cup {{c} : c \in [LedgerRow -> RowState]}
  /\ edited \subseteq LedgerRow /\ edits \in 0 .. MaxEdits /\ toolRuns \in 0 .. MaxToolRuns

ToolsInit ==
  /\ ledger \in LedgerStart
  /\ copy = ledger /\ written = Nothing /\ tool = NoTool /\ backups = {} /\ approved = {}
  /\ edited = {} /\ edits = 0 /\ toolRuns = 0

-----------------------------------------------------------------------------
\* A sync pushes what was written to the copy and pulls the rest.
Merged == [r \in LedgerRow |-> IF \E t \in Tool : r \in written[t] THEN copy[r] ELSE ledger[r]]
Synced == /\ ledger' = Merged /\ copy' = Merged /\ written' = Nothing

\* A user's edit is later than an update of the same row that was not pushed, and wins;
\* it does not bring back a row that was deleted.
UserEdits(r, to) ==
  /\ edits < MaxEdits
  /\ ledger[r] \notin {"gone", to} /\ to # "gone"
  /\ ledger' = [ledger EXCEPT ![r] = to]
  /\ written' = [written EXCEPT !["repair"] = @ \ {r}]
  /\ edited' = edited \cup {r} /\ edits' = edits + 1
  /\ UNCHANGED <<copy, tool, backups, approved, toolRuns>>

OpenBudget(t) ==
  /\ tool = NoTool /\ toolRuns < MaxToolRuns
  /\ Synced
  /\ tool' = [NoTool EXCEPT !.name = t, !.step = "opened"]
  /\ edited' = {} /\ toolRuns' = toolRuns + 1
  /\ UNCHANGED <<backups, approved, edits>>

At(t, step) == tool.name = t /\ tool.step = step

-----------------------------------------------------------------------------
(* The preservation report: the number of targets, the targets that hold   *)
(* state a person made, with the reasons, and all other rows as they are.  *)

Targets(c) == {r \in InScope : c[r] # "gone"}
BlockingRows(c) == {r \in Targets(c) : r \notin Incoming \/ c[r] # "managed"}
BlockReason(c, r) ==
  [structure |-> c[r] \in Split, missing |-> r \notin Incoming,
   differs |-> IF r \in Incoming /\ c[r] \notin Split THEN c[r] ELSE "managed"]
Preserved(c) == [r \in {q \in LedgerRow \ Targets(c) : c[q] # "gone"} |-> c[r]]
PreservationReport(c) ==
  <<Cardinality(Targets(c)), [r \in BlockingRows(c) |-> BlockReason(c, r)], Preserved(c)>>

PreservationGate ==
  /\ At("replacement", "opened")
  /\ \/ BlockingRows(copy) = {}
     \/ \E c \in approved : PreservationReport(c) = PreservationReport(copy)

\* A run without --apply: it opens the copy, and somebody approves the report.
ApproveReport ==
  /\ tool = NoTool /\ toolRuns < MaxToolRuns
  /\ Synced /\ approved' = {Merged} /\ edited' = {} /\ toolRuns' = toolRuns + 1
  /\ UNCHANGED <<tool, backups, edits>>

WriteBackup ==
  /\ PreservationGate
  /\ backups' = backups \cup {copy}
  /\ tool' = [tool EXCEPT !.step = "deleting", !.left = Targets(copy), !.kept = Preserved(copy)]
  /\ UNCHANGED <<ledger, copy, written, approved, edited, edits, toolRuns>>

\* Write(t, r, v): tool t sets row r of the copy; step says what comes when all are written.
Write(t, r, value, step) ==
  /\ copy' = [copy EXCEPT ![r] = value]
  /\ written' = [written EXCEPT ![t] = @ \cup {r}]
  /\ tool' = [tool EXCEPT !.left = @ \ {r},
                          !.step = IF tool.left = {r} THEN step ELSE @]
  /\ UNCHANGED <<ledger, backups, approved, edited, edits, toolRuns>>

DeleteTarget(r) ==
  /\ At("replacement", "deleting") /\ r \in tool.left
  /\ Write("replacement", r, "gone", "deleted")

StartImports ==
  /\ \/ At("replacement", "deleted")
     \/ At("replacement", "deleting") /\ tool.left = {}
  /\ tool' = [tool EXCEPT !.step = IF Incoming = {} THEN "written" ELSE "importing", !.left = Incoming]
  /\ UNCHANGED <<ledger, copy, written, backups, approved, edited, edits, toolRuns>>

\* What the manifests have and the copy has not is added; a row that is there must be as
\* the manifest has it, or the verification of the import throws.
ImportRow(r) ==
  /\ At("replacement", "importing") /\ r \in tool.left
  /\ copy[r] = "gone"
  /\ Write("replacement", r, "managed", "written")

KeepRow(r) ==
  /\ At("replacement", "importing") /\ r \in tool.left
  /\ copy[r] = "managed"
  /\ tool' = [tool EXCEPT !.left = @ \ {r}, !.step = IF tool.left = {r} THEN "written" ELSE @]
  /\ UNCHANGED <<ledger, copy, written, backups, approved, edited, edits, toolRuns>>

-----------------------------------------------------------------------------
(* The plans.  A repair or an enrichment leaves out rows that are as it    *)
(* wants them; a deletion wants every row there and as the plan says.      *)

CheckPlan ==
  /\ tool.step = "opened" /\ tool.name \in {"repair", "deletion"}
  /\ \A r \in PlanRow : copy[r] = "drift" \/ (tool.name = "repair" /\ copy[r] = "managed")
  /\ tool' = [tool EXCEPT !.step = "writing", !.left = {r \in PlanRow : copy[r] = "drift"}]
  /\ UNCHANGED <<ledger, copy, written, backups, approved, edited, edits, toolRuns>>

WritePlanned(r) ==
  /\ tool.step = "writing" /\ r \in tool.left
  /\ Write(tool.name, r, IF tool.name = "repair" THEN "managed" ELSE "gone", "written")

NothingPending ==
  /\ tool.step = "writing" /\ tool.left = {}
  /\ tool' = [tool EXCEPT !.step = "synced"]
  /\ UNCHANGED <<ledger, copy, written, backups, approved, edited, edits, toolRuns>>

-----------------------------------------------------------------------------
SyncLedger ==
  /\ tool.step = "written"
  /\ Synced /\ tool' = [tool EXCEPT !.step = "synced"]
  /\ UNCHANGED <<backups, approved, edited, edits, toolRuns>>

\* Each tool looks at its copy again.
ReadBack ==
  CASE tool.name = "replacement" ->
         \A r \in DOMAIN tool.kept : copy[r] = tool.kept[r]
    [] tool.name = "repair" -> \A r \in PlanRow : copy[r] = "managed"
    [] OTHER -> \A r \in PlanRow : copy[r] = "gone"

\* A tool shuts down when it is done and when anything throws; that may push the copy.
Finish ==
  /\ tool.step = "synced" /\ ReadBack
  /\ \/ Synced
     \/ UNCHANGED <<ledger, copy, written>>
  /\ tool' = NoTool
  /\ UNCHANGED <<backups, approved, edited, edits, toolRuns>>

Throw ==
  /\ tool # NoTool
  /\ \/ Synced
     \/ UNCHANGED <<ledger, copy, written>>
  /\ tool' = NoTool
  /\ UNCHANGED <<backups, approved, edited, edits, toolRuns>>

\* The directory of the copy can go, too.
LoseCopy ==
  /\ tool = NoTool /\ written # Nothing
  /\ written' = Nothing /\ copy' = ledger
  /\ UNCHANGED <<ledger, tool, backups, approved, edited, edits, toolRuns>>

ToolsNext ==
  \/ \E r \in LedgerRow, to \in RowState : UserEdits(r, to)
  \/ \E t \in Tool : OpenBudget(t)
  \/ ApproveReport \/ WriteBackup \/ StartImports \/ CheckPlan \/ NothingPending
  \/ \E r \in LedgerRow : DeleteTarget(r) \/ ImportRow(r) \/ KeepRow(r) \/ WritePlanned(r)
  \/ SyncLedger \/ Finish \/ Throw \/ LoseCopy

ToolsSpec == ToolsInit /\ [][ToolsNext]_toolVars

-----------------------------------------------------------------------------
(* Two things the report leaves out: how a row is split, and what a row    *)
(* holds that no manifest has.  An approval does not bind them.            *)

Unbound(r) == ledger[r] \in Split \/ r \notin Incoming

Reviewed(r) ==
  \/ r \in Incoming /\ ledger[r] = "managed"
  \/ Unbound(r) /\ \E c \in approved : r \in BlockingRows(c)
  \/ \E c \in approved : c[r] = ledger[r]

OverwriteIsKnown(r) ==
  \/ ledger[r] = "gone" \/ r \in edited
  \/ r \in written["replacement"] /\ Reviewed(r) /\ \E b \in backups : b[r] = ledger[r]
  \/ r \in written["repair"] \cup written["deletion"] /\ r \in PlanRow /\ ledger[r] = "drift"

ReplacementIsComplete ==
  \A r \in LedgerRow \ edited :
    ledger'[r] = IF r \in DOMAIN tool.kept THEN tool.kept[r]
                 ELSE IF r \in Incoming THEN "managed" ELSE "gone"

\* Whatever a tool overwrites on the server was as its plan says, or was in a backup and
\* managed or reviewed -- also when the tool failed halfway and a later one pushed what it
\* had written.  A replacement that ends well leaves in its scope exactly what the
\* manifests have, and all other rows of its snapshot as they were.  The exception are rows
\* a user edited after the tool opened its copy.
ToolsAreAccountable ==
  /\ edits' = edits => \A r \in LedgerRow : ledger'[r] # ledger[r] => OverwriteIsKnown(r)
  /\ Finish /\ tool.name = "replacement" => ReplacementIsComplete
==============================================================================
