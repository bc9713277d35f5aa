--------------------------- MODULE StatementSweep ---------------------------
(***************************************************************************)
(* The Outlook sweep of one statement source and the commit of its cursor  *)
(* (integrations/n8n/workflows/12-outlook-message-sweep.json, called by    *)
(* 22-shared-monthly-statement-cycle.json).  Everything a source knows is  *)
(* one row of finance_ingestion_state: the cursor, the receipt of the last *)
(* enumeration and one readback_verified column both of them use.  Every   *)
(* data-table node is one call, runs of the same source may overlap, and   *)
(* an execution may end between any two nodes; it is tried again from the  *)
(* enumeration, or from the commit.                                        *)
(*                                                                         *)
(* A run stands for its frozen window and for the hash of its archive      *)
(* barrier; a message for the time it was received.  A window runs from    *)
(* the start of the delivery month to the instant of its run, so mail of   *)
(* an earlier month that no run of that month has seen is in no window     *)
(* (docs/monthly-statement-delivery-window.md).                            *)
(*                                                                         *)
(* A write and the read back that confirms it are one step: where another  *)
(* run gets between them, the read back fails and the execution ends.      *)
(***************************************************************************)
EXTENDS Naturals, FiniteSets, SequencesExt

CONSTANTS
  SweepRun, NoSweepRun, MaxTime, MaxTries,
  DeliveryStart, \* DeliveryStart[t]: start of the month the instant t is in
  OldVersion     \* cursor_version of the source in finance_source_cursors

ASSUME SweepRunAssumption ==
  NoSweepRun \notin SweepRun /\ MaxTime \in Nat \ {0} /\ MaxTries \in Nat /\ OldVersion \in Nat
ASSUME DeliveryAssumption ==
  DeliveryStart \in [0..MaxTime -> 0..MaxTime] /\ \A t \in 0..MaxTime : DeliveryStart[t] <= t

VARIABLES
  mail,        \* trusted messages received so far
  clock,
  row,         \* the row of the source
  upper,       \* run_upper_bound of each run, 0 before it starts
  stage,       \* the next node of each run's execution
  expected,    \* expected_cursor_version of its COMMIT request
  tries,
  archive,     \* messages W01 holds with verified evidence
  processed,   \* runs whose statement pipeline has a verified receipt
  commits      \* history: the runs the cursor was moved for

sweepMailVars == <<mail, clock, row, upper, stage, expected, tries, archive, processed, commits>>

\* What the receipt said when a COMMIT request was validated: archived, terminal, or
\* terminal and read back.
Proof == {"proofArchived", "proofTerminal", "proofVerified"}

\* The cursor is verified after a CAS or for an archived receipt, or for one of the others.
Verifying == {"verifyCursor", "verifyTerminal", "verifyReplay"}

Stage == {"new", "enumerate", "readEnumerated", "archive", "markArchived", "readArchived",
          "verifyArchived", "pipeline", "request", "resume", "cas", "readCas",
          "markDownstream", "readDownstream", "verifyDownstream", "readReplay",
          "committed", "ended"} \cup Proof \cup Verifying

MailTypeOK ==
  /\ mail \subseteq 0..MaxTime /\ clock \in 0..MaxTime
  /\ row \in [cursor : 0..MaxTime, version : Nat, committed : SweepRun \cup {NoSweepRun},
              run : SweepRun \cup {NoSweepRun}, hash : SweepRun \cup {NoSweepRun},
              state : {"none", "ENUMERATED", "ARCHIVED", "DOWNSTREAM_VERIFIED"},
              verified : BOOLEAN]
  /\ upper \in [SweepRun -> 0..MaxTime] /\ stage \in [SweepRun -> Stage]
  /\ expected \in [SweepRun -> Nat] /\ tries \in [SweepRun -> 0..MaxTries]
  /\ archive \subseteq mail /\ processed \subseteq SweepRun /\ commits \in Seq(SweepRun)

\* After INITIALIZE: version 0 at the start of the first delivery month.
MailInit ==
  /\ mail = {} /\ clock = 0
  /\ row = [cursor |-> 0, version |-> 0, committed |-> NoSweepRun, run |-> NoSweepRun,
            hash |-> NoSweepRun, state |-> "none", verified |-> TRUE]
  /\ upper = [r \in SweepRun |-> 0] /\ stage = [r \in SweepRun |-> "new"]
  /\ expected = [r \in SweepRun |-> 0] /\ tries = [r \in SweepRun |-> 0]
  /\ archive = {} /\ processed = {} /\ commits = <<>>

-----------------------------------------------------------------------------
Go(r, next) == stage' = [stage EXCEPT ![r] = next]

\* A node that throws, or finds no row to go on with, ends the execution.
GoIf(r, condition, next) == Go(r, IF condition THEN next ELSE "ended")

Window(r) == {m \in mail : DeliveryStart[upper[r]] <= m /\ m < upper[r]}

Receive ==
  /\ clock < MaxTime
  /\ clock' = clock + 1
  /\ mail' \in {mail, mail \cup {clock}}
  /\ UNCHANGED <<row, upper, stage, expected, tries, archive, processed, commits>>

\* The monthly workflow freezes the window of a run; Freeze Trusted Cursor Window.
Start(r) ==
  /\ stage[r] = "new"
  /\ DeliveryStart[clock] < clock
  /\ upper' = [upper EXCEPT ![r] = clock]
  /\ Go(r, "enumerate")
  /\ UNCHANGED <<mail, clock, row, expected, tries, archive, processed, commits>>

\* Upsert ENUMERATED Receipt: by source_code alone.
Enumerate(r) ==
  /\ stage[r] = "enumerate"
  /\ row' = [row EXCEPT !.run = r, !.state = "ENUMERATED", !.hash = NoSweepRun, !.verified = FALSE]
  /\ Go(r, "readEnumerated")
  /\ UNCHANGED <<mail, clock, upper, expected, tries, archive, processed, commits>>

ReadEnumerated(r) ==
  /\ stage[r] = "readEnumerated"
  /\ GoIf(r, row.state = "ENUMERATED" /\ row.run = r, "archive")
  /\ UNCHANGED <<mail, clock, row, upper, expected, tries, archive, processed, commits>>

\* Archive Enumerated Messages in W01, up to Verify Attachment Archive Barrier.
Archive(r) ==
  /\ stage[r] = "archive"
  /\ archive' = archive \cup Window(r)
  /\ Go(r, "markArchived")
  /\ UNCHANGED <<mail, clock, row, upper, expected, tries, processed, commits>>

\* Mark Acquisition ARCHIVED: whichever run's receipt is ENUMERATED.
MarkArchived(r) ==
  /\ stage[r] = "markArchived"
  /\ row' = IF row.state = "ENUMERATED"
            THEN [row EXCEPT !.state = "ARCHIVED", !.hash = r, !.verified = FALSE] ELSE row
  /\ Go(r, "readArchived")
  /\ UNCHANGED <<mail, clock, upper, expected, tries, archive, processed, commits>>

ReadArchived(r) ==
  /\ stage[r] = "readArchived"
  /\ GoIf(r, row.state = "ARCHIVED" /\ row.hash = r /\ row.run = r /\ ~row.verified,
          "verifyArchived")
  /\ UNCHANGED <<mail, clock, row, upper, expected, tries, archive, processed, commits>>

\* Mark ARCHIVED Receipt Readback Verified, and the two nodes that read it back.
VerifyArchived(r) ==
  /\ stage[r] = "verifyArchived"
  /\ row' = IF row.state = "ARCHIVED" /\ row.hash = r THEN [row EXCEPT !.verified = TRUE] ELSE row
  /\ GoIf(r, row.state = "ARCHIVED" /\ row.hash = r /\ row.run = r, "pipeline")
  /\ UNCHANGED <<mail, clock, upper, expected, tries, archive, processed, commits>>

\* Run Shared Statement Pipeline.
Process(r) ==
  /\ stage[r] = "pipeline"
  /\ processed' = processed \cup {r}
  /\ Go(r, "request")
  /\ UNCHANGED <<mail, clock, row, upper, expected, tries, archive, commits>>

Committed(r) == row.committed = r /\ row.cursor = upper[r]

\* Read Source Cursor Before Commit, Build W12 COMMIT Request.  The version comes from
\* finance_source_cursors, which nothing writes any more (without a row there the
\* execution ends), or, once this node is cut over like all of workflow 12, from the row.
Request(r) ==
  /\ stage[r] = "request"
  /\ \/ expected' = [expected EXCEPT ![r] = OldVersion]
     \/ expected' = [expected EXCEPT ![r] = IF Committed(r) THEN row.version - 1 ELSE row.version]
  /\ Go(r, "resume")
  /\ UNCHANGED <<mail, clock, row, upper, tries, archive, processed, commits>>

\* Read Acquisition Receipt for Commit Resume to Require Verified Attachment Barrier: the
\* receipt has to be of this run, and what it says is remembered.
Resume(r) ==
  /\ stage[r] = "resume"
  /\ GoIf(r, /\ row.run = r /\ row.hash = r
             /\ \/ row.state = "ARCHIVED" /\ row.verified
                \/ row.state = "DOWNSTREAM_VERIFIED",
          CASE row.state = "ARCHIVED" -> "proofArchived"
            [] row.state # "ARCHIVED" /\ ~row.verified -> "proofTerminal"
            [] OTHER -> "proofVerified")
  /\ UNCHANGED <<mail, clock, row, upper, expected, tries, archive, processed, commits>>

\* Read Authoritative Source Cursor to Build Cursor CAS Update: the cursor is read afresh,
\* the receipt is the remembered one.  A commit of this run is gone on with, its cursor
\* verified first where the column does not say so; else the cursor has to be behind.
Determine(r) ==
  LET recovered == row.committed = r
      recoverable == Committed(r) /\ row.version = expected[r] + 1
      ahead == [proofArchived |-> "markDownstream", proofTerminal |-> "readDownstream",
                proofVerified |-> "readReplay"]
      verifying == [proofArchived |-> "verifyCursor", proofTerminal |-> "verifyTerminal",
                    proofVerified |-> "verifyReplay"]
  IN /\ stage[r] \in Proof
     /\ \/ recovered /\ GoIf(r, recoverable, IF row.verified THEN ahead[stage[r]]
                                              ELSE verifying[stage[r]])
        \/ ~recovered /\ GoIf(r, /\ stage[r] = "proofArchived"
                                /\ row.version = expected[r] /\ upper[r] > row.cursor, "cas")
     /\ UNCHANGED <<mail, clock, row, upper, expected, tries, archive, processed, commits>>

\* A variant that does not filter on the version.
CasUnfiltered(r) ==
  /\ stage[r] = "cas"
  /\ row' = [row EXCEPT !.committed = r, !.cursor = upper[r], !.version = @ + 1,
                        !.verified = FALSE]
  /\ commits' = Append(commits, r)
  /\ Go(r, "readCas")
  /\ UNCHANGED <<mail, clock, upper, expected, tries, archive, processed>>

\* CAS Update Source Cursor
Cas(r) ==
  /\ stage[r] = "cas"
  /\ IF row.version = expected[r]
     THEN /\ row' = [row EXCEPT !.committed = r, !.cursor = upper[r], !.version = @ + 1,
                                !.verified = FALSE]
          /\ commits' = Append(commits, r)
     ELSE UNCHANGED <<row, commits>>
  /\ Go(r, "readCas")
  /\ UNCHANGED <<mail, clock, upper, expected, tries, archive, processed>>

ReadCas(r) ==
  /\ stage[r] = "readCas"
  /\ GoIf(r, row.version = expected[r] + 1 /\ Committed(r), "verifyCursor")
  /\ UNCHANGED <<mail, clock, row, upper, expected, tries, archive, processed, commits>>

\* Mark Source Cursor Readback Verified and its readback; then the terminal mark, or the
\* verification of a receipt that is terminal.  A replay wants the cursor to have been
\* verified when it was read, so that it ends here.
VerifyCursor(r) ==
  LET seen == row.version = expected[r] + 1 /\ Committed(r)
      ahead == [verifyCursor |-> "markDownstream", verifyTerminal |-> "readDownstream",
                verifyReplay |-> "ended"]
  IN /\ stage[r] \in Verifying
     /\ row' = IF seen THEN [row EXCEPT !.verified = TRUE] ELSE row
     /\ GoIf(r, seen, ahead[stage[r]])
     /\ UNCHANGED <<mail, clock, upper, expected, tries, archive, processed, commits>>

\* Mark Acquisition DOWNSTREAM_VERIFIED, after a CAS or a recovery.
MarkDownstream(r) ==
  /\ stage[r] = "markDownstream"
  /\ row' = IF row.state = "ARCHIVED" /\ row.hash = r
            THEN [row EXCEPT !.state = "DOWNSTREAM_VERIFIED", !.verified = FALSE] ELSE row
  /\ Go(r, "readDownstream")
  /\ UNCHANGED <<mail, clock, upper, expected, tries, archive, processed, commits>>

ReadDownstream(r) ==
  /\ stage[r] = "readDownstream"
  /\ GoIf(r, row.state = "DOWNSTREAM_VERIFIED" /\ row.run = r /\ row.hash = r /\ ~row.verified,
          "verifyDownstream")
  /\ UNCHANGED <<mail, clock, row, upper, expected, tries, archive, processed, commits>>

VerifyDownstream(r) ==
  /\ stage[r] = "verifyDownstream"
  /\ row' = IF row.state = "DOWNSTREAM_VERIFIED" /\ row.hash = r
            THEN [row EXCEPT !.verified = TRUE] ELSE row
  /\ Go(r, "committed")
  /\ UNCHANGED <<mail, clock, upper, expected, tries, archive, processed, commits>>

\* Read Back DOWNSTREAM_VERIFIED Receipt for Replay to Return Replayed Cursor Commit.
ReadReplay(r) ==
  /\ stage[r] = "readReplay"
  /\ GoIf(r, /\ row.state = "DOWNSTREAM_VERIFIED" /\ row.run = r /\ row.hash = r
             /\ row.verified /\ row.cursor = upper[r], "committed")
  /\ UNCHANGED <<mail, clock, row, upper, expected, tries, archive, processed, commits>>

\* An execution ends anywhere; the run is tried again from the enumeration, or,
\* once its pipeline has succeeded, from the commit.
End(r) ==
  /\ stage[r] \notin {"new", "ended", "committed"}
  /\ Go(r, "ended")
  /\ UNCHANGED <<mail, clock, row, upper, expected, tries, archive, processed, commits>>

Again(r) ==
  /\ stage[r] \in {"ended", "committed"} /\ tries[r] < MaxTries
  /\ tries' = [tries EXCEPT ![r] = @ + 1]
  /\ \/ Go(r, "enumerate")
     \/ r \in processed /\ Go(r, "request")
  /\ UNCHANGED <<mail, clock, row, upper, expected, archive, processed, commits>>

MailNext ==
  \/ Receive
  \/ \E r \in SweepRun :
       \/ Start(r) \/ Enumerate(r) \/ ReadEnumerated(r) \/ Archive(r) \/ MarkArchived(r)
       \/ ReadArchived(r) \/ VerifyArchived(r) \/ Process(r) \/ Request(r) \/ Resume(r)
       \/ Determine(r) \/ Cas(r) \/ ReadCas(r) \/ VerifyCursor(r) \/ MarkDownstream(r)
       \/ ReadDownstream(r) \/ VerifyDownstream(r) \/ ReadReplay(r) \/ End(r) \/ Again(r)

MailSpec == MailInit /\ [][MailNext]_sweepMailVars

-----------------------------------------------------------------------------
(* Overlapping runs write each other's receipt, yet the cursor moves only  *)
(* forward, one version at a time and once per run, and never over the end *)
(* of a window whose mail is not archived and processed.  A commit that    *)
(* reports success has moved the cursor for its own run.                   *)
CursorIsEarned ==
  /\ row.version = Len(commits)
  /\ \A i \in DOMAIN commits :
       /\ commits[i] \in processed /\ Window(commits[i]) \subseteq archive
       /\ \A j \in DOMAIN commits : i < j => upper[commits[i]] < upper[commits[j]]
  /\ row.cursor = IF commits = <<>> THEN 0 ELSE upper[Last(commits)]
  /\ \A r \in SweepRun : stage[r] = "committed" => \E i \in DOMAIN commits : commits[i] = r
=============================================================================
