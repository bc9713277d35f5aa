--------------------------- MODULE IngestionProofs ---------------------------
(***************************************************************************)
(* What reaches the ledger and the archive from outside.                   *)
(*                                                                         *)
(* StatementSweep: the statement cursor moves only over what is archived   *)
(* and processed, for any number of overlapping runs and of retries.       *)
(*                                                                         *)
(* StatementPeriods: a period follows the one before it and is closed and  *)
(* finalized once, for every set of periods, mails, statements and         *)
(* finalizations.                                                          *)
(*                                                                         *)
(* BrowserCapture: purchases are neither lost nor booked twice, for any    *)
(* purchases, captures and statements and any number of imports.           *)
(***************************************************************************)
EXTENDS StatementSweep, StatementPeriods, BrowserCapture, SequenceTheorems,
        FiniteSetTheorems, TLAPS

(* The sweep of the statement mailbox.                                      *)

HasCommitted(r) == \E i \in DOMAIN commits : commits[i] = r

AfterArchive == {"markArchived", "readArchived", "verifyArchived", "pipeline"}
AfterCommit ==
  Verifying \cup {"markDownstream", "readDownstream", "verifyDownstream", "readReplay", "committed"}
AfterPipeline == {"request", "resume", "cas", "readCas"} \cup Proof \cup AfterCommit

\* The cursor, its version and its run are those of the last commit.
CursorInv ==
  /\ row.version = Len(commits)
  /\ commits = <<>> => row.cursor = 0 /\ row.committed = NoSweepRun
  /\ commits # <<>> =>
       row.cursor = upper[commits[Len(commits)]] /\ row.committed = commits[Len(commits)]

CommitsInv ==
  /\ \A i \in DOMAIN commits : commits[i] \in processed
  /\ \A i, j \in DOMAIN commits : i < j => upper[commits[i]] < upper[commits[j]]

\* Mail that arrives is never part of a window that is frozen.
ClockInv == \A r \in SweepRun : upper[r] <= clock

WindowInv ==
  \A r \in SweepRun :
    /\ r \in processed \/ stage[r] \in AfterArchive => Window(r) \subseteq archive
    /\ stage[r] = "new" => r \notin processed

\* A version that is still the expected one has kept its cursor.
StageOK(r) ==
  /\ stage[r] \in AfterPipeline => r \in processed
  /\ stage[r] = "cas" =>
       expected[r] <= row.version /\ (expected[r] = row.version => row.cursor < upper[r])
  /\ stage[r] \in AfterCommit => HasCommitted(r)

StageInv == \A r \in SweepRun : StageOK(r)

MailInv == MailTypeOK /\ CursorInv /\ CommitsInv /\ ClockInv /\ WindowInv /\ StageInv

USE SweepRunAssumption

-----------------------------------------------------------------------------
(* The steps that neither commit nor add to what commits rest on.          *)

\* Such a step of a run leaves the cursor, the windows and the commits alone.
Quiet(r) ==
  /\ row'.cursor = row.cursor /\ row'.version = row.version /\ row'.committed = row.committed
  /\ UNCHANGED <<mail, clock, upper, archive, processed, commits>>
  /\ stage' = [stage EXCEPT ![r] = stage'[r]]
  /\ stage'[r] \in Stage \ {"new"}
  /\ stage'[r] \in AfterArchive => stage[r] \in AfterArchive

QuietAction(r) ==
  \/ Enumerate(r) \/ ReadEnumerated(r) \/ MarkArchived(r) \/ ReadArchived(r)
  \/ VerifyArchived(r) \/ Request(r) \/ Resume(r) \/ Determine(r) \/ ReadCas(r)
  \/ VerifyCursor(r) \/ MarkDownstream(r) \/ ReadDownstream(r) \/ VerifyDownstream(r)
  \/ ReadReplay(r) \/ End(r) \/ Again(r)

\* Where the cursor that was read leads to, and where its verification does.
LEMMA DetermineLeads ==
  ASSUME NEW r \in SweepRun, MailTypeOK, Determine(r)
  PROVE  \E next \in Verifying \cup {"markDownstream", "readDownstream", "readReplay", "cas", "ended"} :
           /\ stage[r] \in Proof /\ stage' = [stage EXCEPT ![r] = next]
           /\ next = "cas" => expected[r] = row.version /\ row.cursor < upper[r]
           /\ next \notin {"cas", "ended"} => Committed(r)
           /\ UNCHANGED <<mail, clock, row, upper, expected, tries, archive, processed, commits>>
<1> DEFINE ahead == [proofArchived |-> "markDownstream", proofTerminal |-> "readDownstream",
                     proofVerified |-> "readReplay"]
           verifying == [proofArchived |-> "verifyCursor", proofTerminal |-> "verifyTerminal",
                         proofVerified |-> "verifyReplay"]
<1>1. /\ stage[r] \in Proof
      /\ UNCHANGED <<mail, clock, row, upper, expected, tries, archive, processed, commits>>
  BY DEF Determine
<1>2. /\ ahead[stage[r]] \in {"markDownstream", "readDownstream", "readReplay"}
      /\ verifying[stage[r]] \in Verifying
  BY <1>1 DEF Proof, Verifying
<1>3. \/ row.committed = r /\ GoIf(r, Committed(r) /\ row.version = expected[r] + 1,
                                    IF row.verified THEN ahead[stage[r]] ELSE verifying[stage[r]])
      \/ GoIf(r, /\ stage[r] = "proofArchived"
                 /\ row.version = expected[r] /\ upper[r] > row.cursor, "cas")
  BY DEF Determine
<1>4. upper[r] \in Nat /\ row.cursor \in Nat BY DEF MailTypeOK
<1> HIDE DEF ahead, verifying
<1>5. "cas" \notin Verifying \cup {"markDownstream", "readDownstream", "readReplay", "ended"}
  BY DEF Verifying
<1> QED BY <1>1, <1>2, <1>3, <1>4, <1>5 DEF GoIf, Go

LEMMA VerifyLeads ==
  ASSUME NEW r \in SweepRun, MailTypeOK, VerifyCursor(r)
  PROVE  /\ stage[r] \in Verifying
         /\ \E next \in {"markDownstream", "readDownstream", "ended"} :
              stage' = [stage EXCEPT ![r] = next]
         /\ row'.cursor = row.cursor /\ row'.version = row.version
         /\ row'.committed = row.committed
         /\ row' \in [cursor : 0..MaxTime, version : Nat, committed : SweepRun \cup {NoSweepRun},
                      run : SweepRun \cup {NoSweepRun}, hash : SweepRun \cup {NoSweepRun},
                      state : {"none", "ENUMERATED", "ARCHIVED", "DOWNSTREAM_VERIFIED"},
                      verified : BOOLEAN]
         /\ UNCHANGED <<mail, clock, upper, expected, tries, archive, processed, commits>>
<1> DEFINE ahead == [verifyCursor |-> "markDownstream", verifyTerminal |-> "readDownstream",
                     verifyReplay |-> "ended"]
           seen == row.version = expected[r] + 1 /\ Committed(r)
<1>1. /\ stage[r] \in Verifying /\ GoIf(r, seen, ahead[stage[r]])
      /\ row' = IF seen THEN [row EXCEPT !.verified = TRUE] ELSE row
      /\ UNCHANGED <<mail, clock, upper, expected, tries, archive, processed, commits>>
  BY DEF VerifyCursor
<1>2. ahead[stage[r]] \in {"markDownstream", "readDownstream", "ended"}
  BY <1>1 DEF Verifying
<1> HIDE DEF ahead, seen
<1>3. \E next \in {"markDownstream", "readDownstream", "ended"} :
        stage' = [stage EXCEPT ![r] = next]
  BY <1>1, <1>2 DEF GoIf, Go
<1>4. row' = row \/ row' = [row EXCEPT !.verified = TRUE] BY <1>1
<1>5. /\ row'.cursor = row.cursor /\ row'.version = row.version
      /\ row'.committed = row.committed
      /\ row' \in [cursor : 0..MaxTime, version : Nat, committed : SweepRun \cup {NoSweepRun},
                   run : SweepRun \cup {NoSweepRun}, hash : SweepRun \cup {NoSweepRun},
                   state : {"none", "ENUMERATED", "ARCHIVED", "DOWNSTREAM_VERIFIED"},
                   verified : BOOLEAN]
  BY <1>4 DEF MailTypeOK
<1> QED BY <1>1, <1>3, <1>5

LEMMA QuietActions ==
  ASSUME NEW r \in SweepRun, MailTypeOK, QuietAction(r)
  PROVE  Quiet(r)
<1> USE DEF MailTypeOK, Quiet, AfterArchive, Stage, Proof, Verifying, Go, GoIf
<1>1. CASE Enumerate(r) BY <1>1 DEF Enumerate
<1>2. CASE ReadEnumerated(r) BY <1>2 DEF ReadEnumerated
<1>3. CASE MarkArchived(r) BY <1>3 DEF MarkArchived
<1>4. CASE ReadArchived(r) BY <1>4 DEF ReadArchived
<1>5. CASE VerifyArchived(r) BY <1>5 DEF VerifyArchived
<1>6. CASE Request(r) BY <1>6 DEF Request
<1>7. CASE Resume(r) BY <1>7 DEF Resume
<1>8. CASE ReadCas(r) BY <1>8 DEF ReadCas
<1>9. CASE VerifyCursor(r) BY <1>9, VerifyLeads
<1>10. CASE MarkDownstream(r) BY <1>10 DEF MarkDownstream
<1>11. CASE ReadDownstream(r) BY <1>11 DEF ReadDownstream
<1>12. CASE VerifyDownstream(r) BY <1>12 DEF VerifyDownstream
<1>13. CASE End(r) BY <1>13 DEF End
<1>14. CASE Again(r) BY <1>14 DEF Again
<1>15. CASE Determine(r) BY <1>15, DetermineLeads
<1>16. CASE ReadReplay(r) BY <1>16 DEF ReadReplay
<1> QED BY <1>1, <1>2, <1>3, <1>4, <1>5, <1>6, <1>7, <1>8, <1>9, <1>10, <1>11, <1>12, <1>13,
           <1>14, <1>15, <1>16 DEF QuietAction

LEMMA QuietKeeps ==
  ASSUME NEW r \in SweepRun, MailInv, Quiet(r)
  PROVE  CursorInv' /\ CommitsInv' /\ ClockInv' /\ WindowInv'
<1> USE DEF MailInv, Quiet
<1>1. CursorInv' BY DEF CursorInv
<1>2. CommitsInv' BY DEF CommitsInv
<1>3. ClockInv' BY DEF ClockInv
<1>4. WindowInv' BY DEF WindowInv, Window, MailTypeOK
<1> QED BY <1>1, <1>2, <1>3, <1>4

\* What the stage a quiet step leads to asks for.
LEMMA QuietStages ==
  ASSUME NEW r \in SweepRun, MailInv, QuietAction(r)
  PROVE  /\ stage'[r] \in AfterPipeline => r \in processed
         /\ stage'[r] = "cas" => expected'[r] = row.version /\ row.cursor < upper[r]
         /\ stage'[r] \in AfterCommit => HasCommitted(r)
         /\ \A s \in SweepRun \ {r} : expected'[s] = expected[s]
<1> USE DEF MailInv, MailTypeOK, StageInv, StageOK, AfterPipeline, AfterCommit, Stage, Proof,
            Verifying, Go, GoIf
<1>0. Committed(r) => HasCommitted(r)
  BY DEF Committed, CursorInv, HasCommitted
<1>1. CASE Enumerate(r) BY <1>1 DEF Enumerate
<1>2. CASE ReadEnumerated(r) BY <1>2 DEF ReadEnumerated
<1>3. CASE MarkArchived(r) BY <1>3 DEF MarkArchived
<1>4. CASE ReadArchived(r) BY <1>4 DEF ReadArchived
<1>5. CASE VerifyArchived(r) BY <1>5 DEF VerifyArchived
<1>6. CASE Request(r) BY <1>6 DEF Request
<1>7. CASE Resume(r) BY <1>0, <1>7 DEF Resume
<1>8. CASE ReadCas(r) BY <1>0, <1>8 DEF ReadCas
<1>9. CASE VerifyCursor(r) BY <1>9, VerifyLeads
<1>10. CASE MarkDownstream(r) BY <1>10 DEF MarkDownstream
<1>11. CASE ReadDownstream(r) BY <1>11 DEF ReadDownstream
<1>12. CASE VerifyDownstream(r) BY <1>12 DEF VerifyDownstream
<1>13. CASE End(r) BY <1>13 DEF End
<1>14. CASE Again(r) BY <1>14 DEF Again
<1>15. CASE Determine(r)
  <2>1. PICK next \in Verifying \cup {"markDownstream", "readDownstream", "readReplay", "cas", "ended"} :
          /\ stage[r] \in Proof /\ stage' = [stage EXCEPT ![r] = next]
          /\ next = "cas" => expected[r] = row.version /\ row.cursor < upper[r]
          /\ next \notin {"cas", "ended"} => Committed(r)
          /\ UNCHANGED <<mail, clock, row, upper, expected, tries, archive, processed, commits>>
    BY <1>15, DetermineLeads
  <2>2. stage'[r] = next /\ r \in processed BY <2>1
  <2> QED BY <1>0, <2>1, <2>2
<1>16. CASE ReadReplay(r) BY <1>16 DEF ReadReplay
<1> QED BY <1>1, <1>2, <1>3, <1>4, <1>5, <1>6, <1>7, <1>8, <1>9, <1>10, <1>11, <1>12, <1>13,
           <1>14, <1>15, <1>16 DEF QuietAction

LEMMA QuietTypes ==
  ASSUME NEW r \in SweepRun, MailInv, QuietAction(r)
  PROVE  MailTypeOK'
<1> USE DEF MailInv, MailTypeOK, Stage, Proof, Verifying, Go, GoIf
<1>1. CASE Enumerate(r) BY <1>1 DEF Enumerate
<1>2. CASE ReadEnumerated(r) BY <1>2 DEF ReadEnumerated
<1>3. CASE MarkArchived(r) BY <1>3 DEF MarkArchived
<1>4. CASE ReadArchived(r) BY <1>4 DEF ReadArchived
<1>5. CASE VerifyArchived(r) BY <1>5 DEF VerifyArchived
<1>6. CASE Request(r)
  <2>1. Committed(r) => row.version - 1 \in Nat
    BY DEF Committed, CursorInv
  <2>2. PICK version \in Nat : expected' = [expected EXCEPT ![r] = version]
    <3>1. row.version \in Nat BY DEF CursorInv
    <3> QED BY <1>6, <2>1, <3>1 DEF Request
  <2>3. expected' \in [SweepRun -> Nat] BY <2>2
  <2>4. stage' \in [SweepRun -> Stage] BY <1>6 DEF Request
  <2>5. UNCHANGED <<mail, clock, row, upper, tries, archive, processed, commits>>
    BY <1>6 DEF Request
  <2> QED BY <2>3, <2>4, <2>5
<1>7. CASE Resume(r) BY <1>7 DEF Resume
<1>8. CASE ReadCas(r) BY <1>8 DEF ReadCas
<1>9. CASE VerifyCursor(r)
  <2>1. PICK next \in {"markDownstream", "readDownstream", "ended"} :
          stage' = [stage EXCEPT ![r] = next]
    BY <1>9, VerifyLeads
  <2>2. stage' \in [SweepRun -> Stage] BY <2>1
  <2>3. row' \in [cursor : 0..MaxTime, version : Nat, committed : SweepRun \cup {NoSweepRun},
                 run : SweepRun \cup {NoSweepRun}, hash : SweepRun \cup {NoSweepRun},
                 state : {"none", "ENUMERATED", "ARCHIVED", "DOWNSTREAM_VERIFIED"},
                 verified : BOOLEAN]
    BY <1>9, VerifyLeads
  <2>4. UNCHANGED <<mail, clock, upper, expected, tries, archive, processed, commits>>
    BY <1>9, VerifyLeads
  <2> QED BY <2>2, <2>3, <2>4
<1>10. CASE MarkDownstream(r) BY <1>10 DEF MarkDownstream
<1>11. CASE ReadDownstream(r) BY <1>11 DEF ReadDownstream
<1>12. CASE VerifyDownstream(r) BY <1>12 DEF VerifyDownstream
<1>13. CASE End(r) BY <1>13 DEF End
<1>14. CASE Again(r)
  <2>1. tries' \in [SweepRun -> 0..MaxTries]
    <3>1. tries[r] < MaxTries /\ tries' = [tries EXCEPT ![r] = @ + 1] BY <1>14 DEF Again
    <3>2. tries[r] \in 0..MaxTries /\ MaxTries \in Nat OBVIOUS
    <3>3. tries[r] + 1 \in 0..MaxTries BY ONLY <3>1, <3>2
    <3> QED BY <3>1, <3>3
  <2>2. stage' \in [SweepRun -> Stage] BY <1>14 DEF Again
  <2>3. UNCHANGED <<mail, clock, row, upper, expected, archive, processed, commits>>
    BY <1>14 DEF Again
  <2> QED BY <2>1, <2>2, <2>3
<1>15. CASE Determine(r)
  <2>1. PICK next \in Verifying \cup {"markDownstream", "readDownstream", "readReplay", "cas", "ended"} :
          /\ stage' = [stage EXCEPT ![r] = next]
          /\ UNCHANGED <<mail, clock, row, upper, expected, tries, archive, processed, commits>>
    BY <1>15, DetermineLeads
  <2>2. stage' \in [SweepRun -> Stage] BY <2>1
  <2> QED BY <2>1, <2>2
<1>16. CASE ReadReplay(r) BY <1>16 DEF ReadReplay
<1> QED BY <1>1, <1>2, <1>3, <1>4, <1>5, <1>6, <1>7, <1>8, <1>9, <1>10, <1>11, <1>12, <1>13,
           <1>14, <1>15, <1>16 DEF QuietAction

LEMMA QuietStep ==
  ASSUME NEW r \in SweepRun, MailInv, QuietAction(r)
  PROVE  MailInv'
<1>1. Quiet(r) BY QuietActions DEF MailInv
<1>2. StageInv'
  <2> SUFFICES ASSUME NEW s \in SweepRun PROVE StageOK(s)'
    BY DEF StageInv
  <2>1. /\ row'.version = row.version /\ row'.cursor = row.cursor
        /\ UNCHANGED <<upper, processed, commits>>
    BY <1>1 DEF Quiet
  <2>2. HasCommitted(s)' <=> HasCommitted(s)
    BY <2>1 DEF HasCommitted
  <2>3. CASE s = r
    <3>1. row.version \in Nat BY DEF MailInv, MailTypeOK
    <3> QED BY <2>1, <2>2, <2>3, <3>1, QuietStages DEF StageOK
  <2>4. CASE s # r
    <3>1. stage'[s] = stage[s] /\ expected'[s] = expected[s]
      BY <1>1, <2>4, QuietStages DEF Quiet, MailInv, MailTypeOK
    <3>2. StageOK(s) BY DEF MailInv, StageInv
    <3> QED BY <2>1, <2>2, <3>1, <3>2 DEF StageOK
  <2> QED BY <2>3, <2>4
<1>3. MailTypeOK' BY QuietTypes
<1> QED BY <1>1, <1>2, <1>3, QuietKeeps DEF MailInv
-----------------------------------------------------------------------------
(* The steps that do.                                                      *)

LEMMA ReceiveStep ==
  ASSUME MailInv, Receive
  PROVE  MailInv'
<1> USE DEF MailInv
<1>1. ASSUME NEW r \in SweepRun PROVE Window(r)' = Window(r)
  <2>1. upper[r] \in Nat /\ clock \in Nat /\ upper[r] <= clock BY DEF MailTypeOK, ClockInv
  <2>2. upper' = upper /\ (mail' = mail \/ mail' = mail \cup {clock}) BY DEF Receive
  <2>3. ~(clock < upper[r]) BY <2>1
  <2> QED BY <2>2, <2>3 DEF Window
<1>2. MailTypeOK' BY DEF MailTypeOK, Receive
<1>3. CursorInv' /\ CommitsInv' BY DEF CursorInv, CommitsInv, Receive
<1>4. ClockInv' BY DEF ClockInv, Receive, MailTypeOK
<1>5. WindowInv' BY <1>1 DEF WindowInv, Receive
<1>6. StageInv' BY DEF StageInv, StageOK, HasCommitted, Receive
<1> QED BY <1>2, <1>3, <1>4, <1>5, <1>6

LEMMA StartStep ==
  ASSUME NEW r \in SweepRun, MailInv, Start(r)
  PROVE  MailInv'
<1> USE DEF MailInv
<1>1. r \notin processed /\ \A i \in DOMAIN commits : commits[i] # r
  BY DEF Start, WindowInv, CommitsInv
<1>2. /\ UNCHANGED <<mail, clock, row, expected, tries, archive, processed, commits>>
      /\ upper' = [upper EXCEPT ![r] = clock] /\ stage' = [stage EXCEPT ![r] = "enumerate"]
  BY DEF Start, Go
<1>3. MailTypeOK' BY <1>2 DEF MailTypeOK, Stage
<1>4. \A i \in DOMAIN commits : upper'[commits[i]] = upper[commits[i]]
  BY <1>1, <1>2 DEF MailTypeOK
<1>5. CursorInv'
  <2>1. commits # <<>> => Len(commits) \in DOMAIN commits BY DEF MailTypeOK
  <2> QED BY <1>2, <1>4, <2>1 DEF CursorInv
<1>6. CommitsInv' BY <1>2, <1>4 DEF CommitsInv
<1>7. ClockInv' BY <1>2 DEF ClockInv, MailTypeOK
<1>8. WindowInv' BY <1>1, <1>2 DEF WindowInv, Window, MailTypeOK, AfterArchive
<1>9. StageInv'
  <2> SUFFICES ASSUME NEW s \in SweepRun PROVE StageOK(s)'
    BY DEF StageInv
  <2>1. StageOK(s) BY DEF StageInv
  <2>2. HasCommitted(s)' <=> HasCommitted(s) BY <1>2 DEF HasCommitted
  <2> QED BY <1>2, <2>1, <2>2 DEF StageOK, MailTypeOK, AfterPipeline, AfterCommit, Proof, Verifying
<1> QED BY <1>3, <1>5, <1>6, <1>7, <1>8, <1>9

LEMMA ArchiveStep ==
  ASSUME NEW r \in SweepRun, MailInv, Archive(r)
  PROVE  MailInv'
<1> USE DEF MailInv
<1>1. /\ UNCHANGED <<mail, clock, row, upper, expected, tries, processed, commits>>
      /\ archive' = archive \cup Window(r) /\ stage' = [stage EXCEPT ![r] = "markArchived"]
  BY DEF Archive, Go
<1>2. MailTypeOK' BY <1>1 DEF MailTypeOK, Stage, Window
<1>3. CursorInv' /\ CommitsInv' /\ ClockInv' BY <1>1 DEF CursorInv, CommitsInv, ClockInv
<1>4. WindowInv' BY <1>1 DEF WindowInv, Window, MailTypeOK
<1>5. StageInv'
  <2> SUFFICES ASSUME NEW s \in SweepRun PROVE StageOK(s)'
    BY DEF StageInv
  <2>1. StageOK(s) BY DEF StageInv
  <2>2. HasCommitted(s)' <=> HasCommitted(s) BY <1>1 DEF HasCommitted
  <2> QED BY <1>1, <2>1, <2>2 DEF StageOK, MailTypeOK, AfterPipeline, AfterCommit, Proof, Verifying
<1> QED BY <1>2, <1>3, <1>4, <1>5

LEMMA ProcessStep ==
  ASSUME NEW r \in SweepRun, MailInv, Process(r)
  PROVE  MailInv'
<1> USE DEF MailInv
<1>1. /\ UNCHANGED <<mail, clock, row, upper, expected, tries, archive, commits>>
      /\ stage[r] = "pipeline"
      /\ processed' = processed \cup {r} /\ stage' = [stage EXCEPT ![r] = "request"]
  BY DEF Process, Go
<1>2. MailTypeOK' BY <1>1 DEF MailTypeOK, Stage
<1>3. CursorInv' /\ CommitsInv' /\ ClockInv' BY <1>1 DEF CursorInv, CommitsInv, ClockInv
<1>4. WindowInv' BY <1>1 DEF WindowInv, Window, MailTypeOK, AfterArchive
<1>5. StageInv'
  <2> SUFFICES ASSUME NEW s \in SweepRun PROVE StageOK(s)'
    BY DEF StageInv
  <2>1. StageOK(s) BY DEF StageInv
  <2>2. HasCommitted(s)' <=> HasCommitted(s) BY <1>1 DEF HasCommitted
  <2> QED BY <1>1, <2>1, <2>2 DEF StageOK, MailTypeOK, AfterPipeline, AfterCommit, Proof, Verifying
<1> QED BY <1>2, <1>3, <1>4, <1>5

LEMMA CasStep ==
  ASSUME NEW r \in SweepRun, MailInv, Cas(r)
  PROVE  MailInv'
<1> USE DEF MailInv
<1>1. /\ UNCHANGED <<mail, clock, upper, expected, tries, archive, processed>>
      /\ stage[r] = "cas" /\ stage' = [stage EXCEPT ![r] = "readCas"]
  BY DEF Cas, Go
<1>2. r \in processed /\ expected[r] <= row.version
      /\ (expected[r] = row.version => row.cursor < upper[r])
  BY <1>1 DEF StageInv, StageOK, AfterPipeline
<1>3. WindowInv' BY <1>1 DEF WindowInv, Window, MailTypeOK, AfterArchive
<1>4. ClockInv' BY <1>1 DEF ClockInv
<1>5. CASE row.version = expected[r]
  <2>1. /\ row' = [row EXCEPT !.committed = r, !.cursor = upper[r], !.version = @ + 1,
                              !.verified = FALSE]
        /\ commits' = Append(commits, r)
    BY <1>5 DEF Cas
  <2>2. commits \in Seq(SweepRun) /\ Len(commits) \in Nat /\ DOMAIN commits = 1..Len(commits)
    BY DEF MailTypeOK
  <2>3. /\ commits' \in Seq(SweepRun) /\ Len(commits') = Len(commits) + 1
        /\ DOMAIN commits' = 1..(Len(commits) + 1)
        /\ \A i \in DOMAIN commits : commits'[i] = commits[i]
        /\ commits'[Len(commits) + 1] = r
    <3> DEFINE longer == Append(commits, r)
    <3>1. longer \in Seq(SweepRun) /\ Len(longer) = Len(commits) + 1
      BY <2>2, AppendProperties
    <3>2. \A i \in 1..Len(commits) : longer[i] = commits[i]
      BY <2>2, AppendProperties
    <3>3. longer[Len(commits) + 1] = r BY <2>2, AppendProperties
    <3>4. DOMAIN longer = 1..(Len(commits) + 1) BY <3>1
    <3>5. commits' = longer BY <2>1
    <3> HIDE DEF longer
    <3>6. commits' \in Seq(SweepRun) /\ Len(commits') = Len(commits) + 1 BY <3>1, <3>5
    <3>7. DOMAIN commits' = 1..(Len(commits) + 1) BY <3>4, <3>5
    <3>8. \A i \in DOMAIN commits : commits'[i] = commits[i] BY <2>2, <3>2, <3>5
    <3>9. commits'[Len(commits) + 1] = r BY <3>3, <3>5
    <3> QED BY <3>6, <3>7, <3>8, <3>9
  <2>4. MailTypeOK'
    <3>1. commits' \in Seq(SweepRun) BY <2>3
    <3>2. row' \in [cursor : 0..MaxTime, version : Nat, committed : SweepRun \cup {NoSweepRun},
                    run : SweepRun \cup {NoSweepRun}, hash : SweepRun \cup {NoSweepRun},
                    state : {"none", "ENUMERATED", "ARCHIVED", "DOWNSTREAM_VERIFIED"},
                    verified : BOOLEAN]
      <4>1. upper[r] \in 0..MaxTime /\ row.version + 1 \in Nat BY DEF MailTypeOK
      <4> QED BY ONLY <2>1, <4>1, r \in SweepRun, MailTypeOK DEF MailTypeOK
    <3>3. stage' \in [SweepRun -> Stage] BY <1>1 DEF MailTypeOK, Stage
    <3> QED BY <1>1, <3>1, <3>2, <3>3 DEF MailTypeOK
  <2>5. CursorInv' BY <1>1, <2>1, <2>2, <2>3 DEF CursorInv, MailTypeOK
  <2>6. \A i \in DOMAIN commits : upper[commits[i]] <= row.cursor
    <3> SUFFICES ASSUME NEW i \in DOMAIN commits PROVE upper[commits[i]] <= row.cursor
      OBVIOUS
    <3>1. row.cursor = upper[commits[Len(commits)]] /\ row.cursor \in Nat
      BY <2>2 DEF CursorInv, MailTypeOK
    <3>2. CASE i = Len(commits) BY <3>1, <3>2
    <3>3. CASE i # Len(commits)
      <4>1. i < Len(commits) /\ Len(commits) \in DOMAIN commits BY <2>2, <3>3
      <4>2. upper[commits[i]] < upper[commits[Len(commits)]] BY <4>1 DEF CommitsInv
      <4>3. upper[commits[i]] \in Nat BY <2>2 DEF MailTypeOK
      <4> QED BY <3>1, <4>2, <4>3
    <3> QED BY <3>2, <3>3
  <2>7. \A i \in DOMAIN commits : upper[commits[i]] < upper[r]
    BY <1>2, <1>5, <2>2, <2>6 DEF MailTypeOK
  <2>8. CommitsInv'
    <3>1. \A i \in DOMAIN commits' : commits'[i] \in processed'
      BY <1>1, <1>2, <2>2, <2>3 DEF CommitsInv
    <3>2. ASSUME NEW i \in DOMAIN commits', NEW j \in DOMAIN commits', i < j
          PROVE  upper'[commits'[i]] < upper'[commits'[j]]
      <4>1. i \in DOMAIN commits BY <2>2, <2>3, <3>2
      <4>2. CASE j \in DOMAIN commits BY <1>1, <2>3, <3>2, <4>1, <4>2 DEF CommitsInv
      <4>3. CASE j = Len(commits) + 1 BY <1>1, <2>3, <2>7, <4>1, <4>3
      <4> QED BY <2>2, <2>3, <4>2, <4>3
    <3> QED BY <3>1, <3>2 DEF CommitsInv
  <2>9. StageInv'
    <3> SUFFICES ASSUME NEW s \in SweepRun PROVE StageOK(s)'
      BY DEF StageInv
    <3>1. StageOK(s) BY DEF StageInv
    <3>2. HasCommitted(s) => HasCommitted(s)' BY <2>2, <2>3 DEF HasCommitted
    <3>3. row'.version = row.version + 1 BY <2>1 DEF MailTypeOK
    <3> QED BY <1>1, <3>1, <3>2, <3>3
         DEF StageOK, MailTypeOK, AfterPipeline, AfterCommit, Proof, Verifying
  <2> QED BY <1>3, <1>4, <2>4, <2>5, <2>8, <2>9
<1>6. CASE row.version # expected[r]
  <2>1. UNCHANGED <<row, commits>> BY <1>6 DEF Cas
  <2>2. MailTypeOK' BY <1>1, <2>1 DEF MailTypeOK, Stage
  <2>3. CursorInv' /\ CommitsInv' BY <1>1, <2>1 DEF CursorInv, CommitsInv
  <2>4. StageInv'
    <3> SUFFICES ASSUME NEW s \in SweepRun PROVE StageOK(s)'
      BY DEF StageInv
    <3>1. StageOK(s) BY DEF StageInv
    <3>2. HasCommitted(s)' <=> HasCommitted(s) BY <2>1 DEF HasCommitted
    <3> QED BY <1>1, <2>1, <3>1, <3>2 DEF StageOK, MailTypeOK, AfterPipeline, AfterCommit, Proof, Verifying
  <2> QED BY <1>3, <1>4, <2>2, <2>3, <2>4
<1> QED BY <1>5, <1>6

-----------------------------------------------------------------------------
LEMMA MailInitInv == MailInit => MailInv
<1> SUFFICES ASSUME MailInit PROVE MailInv
  OBVIOUS
<1> USE DEF MailInit
<1>1. MailTypeOK BY DEF MailTypeOK, Stage
<1>2. CursorInv /\ CommitsInv /\ ClockInv BY DEF CursorInv, CommitsInv, ClockInv
<1>3. WindowInv BY DEF WindowInv, AfterArchive
<1>4. StageInv BY DEF StageInv, StageOK, AfterPipeline, AfterCommit, Proof, Verifying
<1> QED BY <1>1, <1>2, <1>3, <1>4 DEF MailInv

LEMMA MailNextInv == MailInv /\ [MailNext]_sweepMailVars => MailInv'
<1> SUFFICES ASSUME MailInv, [MailNext]_sweepMailVars PROVE MailInv'
  OBVIOUS
<1>1. CASE Receive BY <1>1, ReceiveStep
<1>2. ASSUME NEW r \in SweepRun, Start(r) PROVE MailInv' BY <1>2, StartStep
<1>3. ASSUME NEW r \in SweepRun, Archive(r) PROVE MailInv' BY <1>3, ArchiveStep
<1>4. ASSUME NEW r \in SweepRun, Process(r) PROVE MailInv' BY <1>4, ProcessStep
<1>5. ASSUME NEW r \in SweepRun, Cas(r) PROVE MailInv' BY <1>5, CasStep
<1>6. ASSUME NEW r \in SweepRun, QuietAction(r) PROVE MailInv' BY <1>6, QuietStep
<1>7. CASE UNCHANGED sweepMailVars
  BY <1>7 DEF sweepMailVars, MailInv, MailTypeOK, CursorInv, CommitsInv, ClockInv, WindowInv,
              Window, StageInv, StageOK, HasCommitted
<1> QED BY <1>1, <1>2, <1>3, <1>4, <1>5, <1>6, <1>7 DEF MailNext, QuietAction

(* Every state of the sweep satisfies the inductive invariant.             *)
THEOREM MailInvariant == MailSpec => []MailInv
BY MailInitInv, MailNextInv, PTL DEF MailSpec

LEMMA MailInvEarned == MailInv => CursorIsEarned
<1> SUFFICES ASSUME MailInv PROVE CursorIsEarned
  OBVIOUS
<1> USE DEF MailInv
<1>1. row.version = Len(commits) BY DEF CursorInv
<1>2. \A i \in DOMAIN commits :
        /\ commits[i] \in processed /\ Window(commits[i]) \subseteq archive
        /\ \A j \in DOMAIN commits : i < j => upper[commits[i]] < upper[commits[j]]
  BY DEF CommitsInv, WindowInv, MailTypeOK
<1>3. row.cursor = IF commits = <<>> THEN 0 ELSE upper[Last(commits)]
  BY DEF CursorInv, Last
<1>4. \A r \in SweepRun : stage[r] = "committed" => \E i \in DOMAIN commits : commits[i] = r
  BY DEF StageInv, StageOK, AfterCommit, HasCommitted
<1> QED BY <1>1, <1>2, <1>3, <1>4 DEF CursorIsEarned

(* The types of the sweep, for any number of runs, retries and messages.   *)
THEOREM MailTypes == MailSpec => []MailTypeOK
BY MailInvariant, PTL DEF MailInv

(* Whatever runs overlap, end anywhere and are tried again: the cursor     *)
(* moves forward only, once per run and never over a window whose mail is  *)
(* not archived and processed, and a reported commit has moved it.         *)
THEOREM CursorEarned == MailSpec => []CursorIsEarned
BY MailInvariant, MailInvEarned, PTL

-----------------------------------------------------------------------------
(* The captures of a bank portal.                                           *)

\* What is imported, and the records it is turned into.
Imported == [kind : {"capture"}, of : Capture] \cup [kind : {"statement"}, of : Billing]
RecordsOf(source) ==
  IF source.kind = "capture" THEN CaptureRecords(source.of) ELSE StatementRecords(source.of)

\* Of these the property speaks.
Plain(p) == ~SharedReference(p) /\ ~PostedOnAnothersDay(p)
Alone(p) == Twins(p) = {p} /\ p.made = p.posted /\ ~MixedExports(p) /\ ~CapturedLate(p)

\* Every row is a record of something imported, one of each imported_id.
RowsInv ==
  /\ imports \in Seq(Imported) /\ Len(imports) <= MaxImports
  /\ IsFiniteSet(booked)
  /\ \A r \in booked : \E i \in 1..Len(imports) : r \in RecordsOf(imports[i])
  /\ \A r, q \in booked : r.id = q.id => r = q

\* No purchase an import lists is lost.
ListedInv ==
  \A p \in Shopping : Plain(p) =>
    \A i \in 1..Len(imports) :
      Cardinality(LinesIn(imports[i]) \cap Twins(p)) <= Cardinality(BookedAs(p))

\* A purchase of its own is not booked from both sides.
SidesInv ==
  \A p \in Shopping : Plain(p) /\ Alone(p) =>
    ~\E b, r \in BookedAs(p) : FromBrowser(b) /\ ~FromBrowser(r)

CaptureInv == RowsInv /\ ListedInv /\ SidesInv

-----------------------------------------------------------------------------
(* Records.                                                                 *)

\* The lines of something imported.
LEMMA SourceLines ==
  ASSUME NEW source \in Imported
  PROVE  /\ LinesOf(source) \in Seq(Shopping) /\ Len(LinesOf(source)) \in Nat
         /\ DOMAIN LinesOf(source) = 1..Len(LinesOf(source))
         /\ \A i \in 1..Len(LinesOf(source)) : LinesOf(source)[i] \in Shopping
         /\ LinesIn(source) = {LinesOf(source)[i] : i \in 1..Len(LinesOf(source))}
         /\ LinesIn(source) \subseteq Shopping /\ IsFiniteSet(LinesIn(source))
<1> DEFINE lines == LinesOf(source)
<1>1. lines \in Seq(Shopping) BY BrowserAssumption DEF Imported, LinesOf
<1>2. LinesIn(source) = {lines[i] : i \in DOMAIN lines} BY DEF LinesIn
<1> HIDE DEF lines
<1>3. /\ Len(lines) \in Nat /\ DOMAIN lines = 1..Len(lines)
      /\ \A i \in 1..Len(lines) : lines[i] \in Shopping
  BY <1>1, LenProperties, ElementOfSeq
<1>4. IsFiniteSet(LinesIn(source))
  <2> DEFINE f == [i \in 1..Len(lines) |-> lines[i]]
  <2>1. f \in Surjection(1..Len(lines), LinesIn(source)) BY <1>2, <1>3 DEF Surjection
  <2>2. IsFiniteSet(1..Len(lines)) BY <1>3, FS_Interval
  <2> HIDE DEF f
  <2> QED BY <2>1, <2>2, FS_Surjection
<1> QED BY <1>1, <1>2, <1>3, <1>4 DEF lines

\* The record of a line.
RecordOf(source, i) ==
  LET p == LinesOf(source)[i] IN
  IF source.kind = "capture"
  THEN [id |-> TransactionId(source.of, i), date |-> p.made, of |-> p]
  ELSE [id |-> <<"statement", p.n>>, date |-> p.posted, of |-> p]

LEMMA Records ==
  ASSUME NEW source \in Imported
  PROVE  RecordsOf(source) = {RecordOf(source, i) : i \in 1..Len(LinesOf(source))}
<1>1. DOMAIN LinesOf(source) = 1..Len(LinesOf(source)) BY SourceLines
<1>2. CASE source.kind = "capture"
  <2>1. LinesOf(source) = source.of.lines BY <1>2 DEF LinesOf
  <2> QED BY <1>1, <1>2, <2>1 DEF RecordsOf, RecordOf, CaptureRecords
<1>3. CASE source.kind = "statement"
  <2>1. LinesOf(source) = source.of BY <1>3 DEF LinesOf
  <2> QED BY <1>1, <1>3, <2>1 DEF RecordsOf, RecordOf, StatementRecords
<1> QED BY <1>2, <1>3 DEF Imported

\* What an imported_id is made of.
LEMMA RecordFacts ==
  ASSUME NEW source \in Imported, NEW i \in 1..Len(LinesOf(source)), NEW r,
         r = RecordOf(source, i)
  PROVE  /\ r.of = LinesOf(source)[i] /\ r.of \in Shopping /\ r.of \in LinesIn(source)
         /\ FromBrowser(r) <=> source.kind = "capture"
         /\ FromBrowser(r) => r.date = r.of.made
         /\ ~FromBrowser(r) => r.date = r.of.posted /\ r.id = <<"statement", r.of.n>>
         /\ FromBrowser(r) /\ source.of.refs => r.id = <<"browser", r.of.ref>>
         /\ FromBrowser(r) /\ ~source.of.refs =>
              r.id = <<"browser", r.of.made, r.of.text, Occurrence(source.of, i)>>
<1>1. LinesOf(source)[i] \in Shopping /\ LinesOf(source)[i] \in LinesIn(source) BY SourceLines
<1>2. CASE source.kind = "capture"
  <2>1. LinesOf(source) = source.of.lines BY <1>2 DEF LinesOf
  <2>2. r.of = LinesOf(source)[i] /\ r.date = r.of.made /\ r.id = TransactionId(source.of, i)
    BY <1>2 DEF RecordOf
  <2>3. /\ source.of.refs => r.id = <<"browser", r.of.ref>>
        /\ ~source.of.refs =>
             r.id = <<"browser", r.of.made, r.of.text, Occurrence(source.of, i)>>
    BY <2>1, <2>2 DEF TransactionId
  <2>4. r.id[1] = "browser" BY <2>3
  <2> QED BY <1>1, <1>2, <2>2, <2>3, <2>4 DEF FromBrowser
<1>3. CASE source.kind = "statement"
  <2>1. r.of = LinesOf(source)[i] /\ r.date = r.of.posted /\ r.id = <<"statement", r.of.n>>
    BY <1>3 DEF RecordOf
  <2> QED BY <1>1, <1>3, <2>1 DEF FromBrowser
<1> QED BY <1>2, <1>3 DEF Imported

\* Lines have records of their own unless the import throws.
LEMMA DistinctIds ==
  ASSUME NEW source \in Imported,
         Cardinality({r.id : r \in RecordsOf(source)}) = Len(LinesOf(source)),
         NEW i \in 1..Len(LinesOf(source)), NEW j \in 1..Len(LinesOf(source)),
         RecordOf(source, i).id = RecordOf(source, j).id
  PROVE  i = j
<1> DEFINE N == Len(LinesOf(source))
           ids == {r.id : r \in RecordsOf(source)}
           f == [k \in 1..N |-> RecordOf(source, k).id]
<1>1. N \in Nat BY SourceLines
<1>2. ids = {RecordOf(source, k).id : k \in 1..N} BY Records
<1>3. Cardinality(ids) = N OBVIOUS
<1> HIDE DEF ids
<1>4. f \in [1..N -> ids] /\ \A x \in ids : \E k \in 1..N : f[k] = x BY <1>2
<1>5. IsFiniteSet(1..N) /\ Cardinality(1..N) = N BY <1>1, FS_Interval
<1>6. f[i] = f[j] OBVIOUS
<1> HIDE DEF f
<1>7. f \in Surjection(1..N, ids) BY <1>4 DEF Surjection
<1> HIDE DEF N
<1>8. f \in Injection(1..N, ids) BY <1>3, <1>5, <1>7, FS_Surjection
<1> QED BY <1>6, <1>8 DEF Injection, IsInjective, N

\* A line is the how-manieth of at most so many.
LEMMA OccurrenceFacts ==
  ASSUME NEW source \in Imported, source.kind = "capture", ~source.of.refs,
         NEW i \in 1..Len(LinesOf(source)), NEW p \in Shopping,
         SameRow(p, LinesOf(source)[i])
  PROVE  Occurrence(source.of, i) \in 1..Cardinality(LinesIn(source) \cap Twins(p))
<1> DEFINE lines == LinesOf(source)
           S == {j \in 1..i : SameRow(lines[j], lines[i])}
           T == LinesIn(source) \cap Twins(p)
<1>1. /\ Len(lines) \in Nat /\ DOMAIN lines = 1..Len(lines)
      /\ \A j \in 1..Len(lines) : lines[j] \in Shopping /\ lines[j] \in LinesIn(source)
      /\ IsFiniteSet(LinesIn(source))
  BY SourceLines
<1>2. source.of \in Capture /\ lines = source.of.lines BY DEF Imported, LinesOf
<1>3. Occurrence(source.of, i) = Cardinality(S) BY <1>2 DEF Occurrence
<1>4. \A j, k \in 1..Len(lines) : lines[j] = lines[k] => j = k BY <1>1, <1>2, BrowserAssumption
<1>5. 1..i \subseteq 1..Len(lines) /\ i \in Nat \ {0} /\ i \in 1..i BY <1>1
<1>6. S \subseteq 1..i /\ i \in S BY <1>5 DEF SameRow
<1>7. \A j \in S : lines[j] \in T BY <1>1, <1>5 DEF SameRow, Twins
<1> HIDE DEF lines
<1> DEFINE f == [j \in S |-> lines[j]]
<1>8. f \in Injection(S, T) BY <1>4, <1>5, <1>6, <1>7 DEF Injection, IsInjective
<1> HIDE DEF f, S
<1>9. IsFiniteSet(T) BY <1>1, FS_Subset
<1>10. IsFiniteSet(S) /\ Cardinality(S) <= Cardinality(T) BY <1>8, <1>9, FS_Injection
<1>11. Cardinality(S) \in Nat /\ Cardinality(T) \in Nat BY <1>9, <1>10, FS_CardinalityType
<1>12. Cardinality(S) # 0 BY <1>6, <1>10, FS_EmptySet
<1> QED BY <1>3, <1>10, <1>11, <1>12

-----------------------------------------------------------------------------
(* Rows.                                                                    *)

\* Where a row comes from.
LEMMA Rows ==
  ASSUME RowsInv, NEW b \in booked
  PROVE  /\ b.of \in Shopping
         /\ \E n \in 1..Len(imports) :
              /\ imports[n] \in Imported
              /\ \E i \in 1..Len(LinesOf(imports[n])) : b = RecordOf(imports[n], i)
<1>1. PICK n \in 1..Len(imports) : b \in RecordsOf(imports[n]) BY DEF RowsInv
<1>2. imports[n] \in Imported BY ElementOfSeq DEF RowsInv
<1>3. PICK i \in 1..Len(LinesOf(imports[n])) : b = RecordOf(imports[n], i) BY <1>1, <1>2, Records
<1> QED BY <1>2, <1>3, RecordFacts

LEMMA RowsOfTwins ==
  ASSUME RowsInv, NEW p \in Shopping
  PROVE  /\ BookedAs(p) = {b \in booked : b.of \in Twins(p)}
         /\ IsFiniteSet(BookedAs(p)) /\ Cardinality(BookedAs(p)) \in Nat
         /\ p \in Twins(p)
<1>1. \A b \in booked : b.of \in Shopping BY Rows
<1>2. BookedAs(p) = {b \in booked : b.of \in Twins(p)} BY <1>1 DEF BookedAs, Twins, SameRow
<1>3. BookedAs(p) \subseteq booked /\ IsFiniteSet(booked) BY <1>2 DEF RowsInv
<1>4. IsFiniteSet(BookedAs(p)) BY <1>3, FS_Subset
<1> QED BY <1>2, <1>4, FS_CardinalityType DEF Twins, SameRow

\* The captures have listed finitely many purchases.
CapturedTwins(p) == (UNION {LinesIn(s) : s \in Captures}) \cap Twins(p)

LEMMA CapturedFinite ==
  ASSUME RowsInv, NEW p \in Shopping
  PROVE  IsFiniteSet(CapturedTwins(p)) /\ Cardinality(CapturedTwins(p)) \in Nat
<1> DEFINE D == {j \in DOMAIN imports : imports[j].kind = "capture"}
           C == {LinesIn(s) : s \in Captures}
           f == [j \in D |-> LinesIn(imports[j])]
<1>1. Len(imports) \in Nat /\ DOMAIN imports = 1..Len(imports) BY LenProperties DEF RowsInv
<1>2. \A j \in D : imports[j] \in Imported BY <1>1, ElementOfSeq DEF RowsInv
<1>3. IsFiniteSet(1..Len(imports)) BY <1>1, FS_Interval
<1>4. IsFiniteSet(D) BY <1>1, <1>3, FS_Subset
<1>5. C = {LinesIn(imports[j]) : j \in D} BY DEF Captures
<1>6. \A j \in D : IsFiniteSet(LinesIn(imports[j])) BY <1>2, SourceLines
<1> HIDE DEF D, C
<1>7. f \in Surjection(D, C) BY <1>5 DEF Surjection
<1> HIDE DEF f
<1>8. IsFiniteSet(C) BY <1>4, <1>7, FS_Surjection
<1>9. IsFiniteSet(UNION C) BY <1>5, <1>6, <1>8, FS_UNION
<1>10. CapturedTwins(p) \subseteq UNION C BY DEF C, CapturedTwins
<1>11. IsFiniteSet(CapturedTwins(p)) BY <1>9, <1>10, FS_Subset
<1> QED BY <1>11, FS_CardinalityType

\* A row of a portal, and the capture that listed it.
LEMMA CapturedRow ==
  ASSUME RowsInv, NEW p \in Shopping, NEW b \in BookedAs(p), FromBrowser(b)
  PROVE  /\ b \in booked /\ b.of \in CapturedTwins(p) /\ b.date = p.made
         /\ \E s \in Captures :
              /\ s.of.refs \in BOOLEAN /\ b.of \in LinesIn(s) \cap Twins(p)
              /\ s.of.refs => b.id = <<"browser", b.of.ref>>
              /\ ~s.of.refs => \E k \in 1..Cardinality(CapturedTwins(p)) :
                                 b.id = <<"browser", p.made, p.text, k>>
<1>1. b \in booked /\ b.of \in Twins(p) BY RowsOfTwins
<1>2. b.of.made = p.made /\ b.of.text = p.text BY <1>1 DEF Twins, SameRow
<1>3. PICK n \in 1..Len(imports) :
         /\ imports[n] \in Imported
         /\ \E i \in 1..Len(LinesOf(imports[n])) : b = RecordOf(imports[n], i)
  BY <1>1, Rows
<1> DEFINE s == imports[n]
<1>4. PICK i \in 1..Len(LinesOf(s)) : b = RecordOf(s, i) BY <1>3
<1>5. n \in DOMAIN imports BY LenProperties DEF RowsInv
<1> HIDE DEF s
<1>6. /\ b.of = LinesOf(s)[i] /\ b.of \in LinesIn(s) /\ s.kind = "capture" /\ b.date = b.of.made
      /\ s.of.refs => b.id = <<"browser", b.of.ref>>
      /\ ~s.of.refs => b.id = <<"browser", b.of.made, b.of.text, Occurrence(s.of, i)>>
  BY <1>3, <1>4, RecordFacts DEF s
<1>7. s \in Captures BY <1>5, <1>6 DEF s, Captures
<1>8. s.of.refs \in BOOLEAN
  <2>1. s \in Imported BY <1>3 DEF s
  <2>2. s.of \in Capture BY <1>6, <2>1 DEF Imported
  <2>3. \A c \in Capture : c.refs \in BOOLEAN BY BrowserAssumption, Zenon
  <2> QED BY <2>2, <2>3, Zenon
<1>9. LinesIn(s) \cap Twins(p) \subseteq CapturedTwins(p) BY <1>7 DEF CapturedTwins
<1>10. ASSUME ~s.of.refs PROVE Occurrence(s.of, i) \in 1..Cardinality(CapturedTwins(p))
  <2>1. SameRow(p, LinesOf(s)[i]) BY <1>2, <1>6 DEF SameRow
  <2>2. Occurrence(s.of, i) \in 1..Cardinality(LinesIn(s) \cap Twins(p))
    BY <1>3, <1>6, <1>10, <2>1, OccurrenceFacts DEF s
  <2>3. IsFiniteSet(CapturedTwins(p)) /\ Cardinality(CapturedTwins(p)) \in Nat BY CapturedFinite
  <2>4. /\ IsFiniteSet(LinesIn(s) \cap Twins(p))
        /\ Cardinality(LinesIn(s) \cap Twins(p)) <= Cardinality(CapturedTwins(p))
    BY <1>9, <2>3, FS_Subset
  <2>5. Cardinality(LinesIn(s) \cap Twins(p)) \in Nat BY <2>4, FS_CardinalityType
  <2> QED BY <2>2, <2>3, <2>4, <2>5
<1> QED BY <1>1, <1>2, <1>6, <1>7, <1>8, <1>9, <1>10

\* The captures never book more than they list.
LEMMA CapturedOnce ==
  ASSUME RowsInv, NEW p \in Shopping, ~MixedExports(p)
  PROVE  Cardinality({r \in BookedAs(p) : FromBrowser(r)}) <= Cardinality(CapturedTwins(p))
<1> DEFINE B == {r \in BookedAs(p) : FromBrowser(r)}
           L == CapturedTwins(p)
           K == Cardinality(L)
<1>1. IsFiniteSet(L) /\ K \in Nat BY CapturedFinite
<1>2. \A a, b \in booked : a.id = b.id => a = b BY DEF RowsInv
<1>3. \A b \in B : b \in booked /\ b.of \in L BY CapturedRow
<1>4. CASE \A b \in B : b.id = <<"browser", b.of.ref>>
  <2> DEFINE f == [b \in B |-> b.of]
  <2>1. f \in [B -> L] BY <1>3
  <2>2. \A a, b \in B : a.of = b.of => a = b BY <1>2, <1>3, <1>4
  <2> HIDE DEF B, L
  <2>3. f \in Injection(B, L) BY <2>1, <2>2 DEF Injection, IsInjective
  <2> HIDE DEF f
  <2> QED BY <1>1, <2>3, FS_Injection DEF B, L
<1>5. CASE \A b \in B : \E k \in 1..K : b.id = <<"browser", p.made, p.text, k>>
  <2> HIDE DEF B, K
  <2> DEFINE f == [b \in B |-> CHOOSE k \in 1..K : b.id = <<"browser", p.made, p.text, k>>]
  <2>1. \A b \in B : f[b] \in 1..K /\ b.id = <<"browser", p.made, p.text, f[b]>> BY <1>5
  <2>2. f \in [B -> 1..K] BY <2>1
  <2> HIDE DEF f
  <2>3. \A a, b \in B : f[a] = f[b] => a = b BY <1>2, <1>3, <2>1
  <2>4. f \in Injection(B, 1..K) BY <2>2, <2>3 DEF Injection, IsInjective
  <2>5. IsFiniteSet(1..K) /\ Cardinality(1..K) = K BY <1>1, FS_Interval
  <2>6. Cardinality(B) <= K BY <2>4, <2>5, FS_Injection
  <2> QED BY <2>6 DEF B, K
<1>6. (\A b \in B : b.id = <<"browser", b.of.ref>>)
        \/ (\A b \in B : \E k \in 1..K : b.id = <<"browser", p.made, p.text, k>>)
  <2> SUFFICES ASSUME NEW a \in B, NEW b \in B,
                      a.id # <<"browser", a.of.ref>>,
                      ~\E k \in 1..K : b.id = <<"browser", p.made, p.text, k>>
               PROVE  FALSE
    OBVIOUS
  <2>1. PICK s \in Captures : ~s.of.refs /\ a.of \in LinesIn(s) \cap Twins(p) BY CapturedRow
  <2>2. PICK t \in Captures : /\ t.of.refs \in BOOLEAN /\ t.of.refs
                              /\ b.of \in LinesIn(t) \cap Twins(p)
    BY CapturedRow
  <2>3. s.of.refs # t.of.refs BY <2>1, <2>2
  <2> QED BY <2>1, <2>2, <2>3 DEF MixedExports
<1> QED BY <1>4, <1>5, <1>6

-----------------------------------------------------------------------------
(* An import.                                                               *)

New(source) ==
  {r \in RecordsOf(source) : r.id \notin BookedIds /\ ~Suppressed(RecordsOf(source), r)}

Import(source) ==
  /\ source \in Imported
  /\ Len(imports) < MaxImports
  /\ Cardinality({r.id : r \in RecordsOf(source)}) = Len(LinesOf(source))
  /\ booked' = booked \cup New(source)
  /\ imports' = Append(imports, source)

LEMMA EachImports ==
  ASSUME CaptureNext
  PROVE  \E source : Import(source)
<1>1. CASE \E c \in Capture : ImportCapture(c)
  <2>1. PICK c \in Capture : ImportCapture(c) BY <1>1
  <2> DEFINE source == [kind |-> "capture", of |-> c]
  <2>2. source \in Imported BY DEF Imported
  <2>3. RecordsOf(source) = CaptureRecords(c) /\ LinesOf(source) = c.lines
    BY DEF RecordsOf, LinesOf
  <2>4. imports' = Append(imports, source) BY <2>1 DEF ImportCapture
  <2> HIDE DEF source
  <2>5. Import(source) BY <2>1, <2>2, <2>3, <2>4 DEF Import, New, ImportCapture, ImportRecords
  <2> QED BY <2>5
<1>2. CASE \E s \in Billing : ImportStatement(s)
  <2>1. PICK s \in Billing : ImportStatement(s) BY <1>2
  <2> DEFINE source == [kind |-> "statement", of |-> s]
  <2>2. source \in Imported BY DEF Imported
  <2>3. RecordsOf(source) = StatementRecords(s) /\ LinesOf(source) = s
    BY DEF RecordsOf, LinesOf
  <2>4. imports' = Append(imports, source) BY <2>1 DEF ImportStatement
  <2> HIDE DEF source
  <2>5. Import(source) BY <2>1, <2>2, <2>3, <2>4 DEF Import, New, ImportStatement, ImportRecords
  <2> QED BY <2>5
<1> QED BY <1>1, <1>2 DEF CaptureNext

\* What an import leaves, adds and leaves out.
LEMMA Imports ==
  ASSUME RowsInv, NEW source, Import(source)
  PROVE  /\ booked \subseteq booked'
         /\ \A r \in booked' \ booked :
              /\ r.id \notin BookedIds /\ ~Suppressed(RecordsOf(source), r)
              /\ \E i \in 1..Len(LinesOf(source)) : r = RecordOf(source, i)
         /\ \A i \in 1..Len(LinesOf(source)) :
              \/ RecordOf(source, i) \in booked'
              \/ RecordOf(source, i).id \in BookedIds
              \/ Suppressed(RecordsOf(source), RecordOf(source, i))
         /\ Len(imports) \in Nat /\ Len(imports') = Len(imports) + 1
         /\ DOMAIN imports = 1..Len(imports) /\ DOMAIN imports' = 1..Len(imports')
         /\ \A n \in 1..Len(imports) : n \in 1..Len(imports') /\ imports'[n] = imports[n]
         /\ imports'[Len(imports')] = source
         /\ imports' \in Seq(Imported)
<1>1. RecordsOf(source) = {RecordOf(source, i) : i \in 1..Len(LinesOf(source))}
  BY Records DEF Import
<1>2. New(source) \subseteq RecordsOf(source) /\ booked' = booked \cup New(source)
  BY DEF Import, New
<1>3. \A r \in New(source) : r.id \notin BookedIds /\ ~Suppressed(RecordsOf(source), r)
  BY DEF New
<1>4. \A r \in RecordsOf(source) :
        r \in New(source) \/ r.id \in BookedIds \/ Suppressed(RecordsOf(source), r)
  BY DEF New
<1>5. imports \in Seq(Imported) /\ source \in Imported /\ imports' = Append(imports, source)
  BY DEF RowsInv, Import
<1>6. /\ Len(imports) \in Nat /\ DOMAIN imports = 1..Len(imports)
      /\ imports' \in Seq(Imported) /\ Len(imports') = Len(imports) + 1
      /\ \A n \in 1..Len(imports) : imports'[n] = imports[n]
      /\ imports'[Len(imports) + 1] = source
  BY <1>5, LenProperties, AppendProperties
<1>7. DOMAIN imports' = 1..Len(imports') BY <1>6, LenProperties
<1>8. booked \subseteq booked' BY <1>2
<1>9. ASSUME NEW r \in booked' \ booked
      PROVE  /\ r.id \notin BookedIds /\ ~Suppressed(RecordsOf(source), r)
             /\ \E i \in 1..Len(LinesOf(source)) : r = RecordOf(source, i)
  <2>1. r \in New(source) BY <1>2
  <2> QED BY <1>1, <1>2, <1>3, <2>1
<1>10. ASSUME NEW i \in 1..Len(LinesOf(source))
       PROVE  \/ RecordOf(source, i) \in booked'
              \/ RecordOf(source, i).id \in BookedIds
              \/ Suppressed(RecordsOf(source), RecordOf(source, i))
  <2>1. RecordOf(source, i) \in RecordsOf(source) BY <1>1
  <2> QED BY <1>2, <1>4, <2>1
<1>11. \A n \in 1..Len(imports) : n \in 1..Len(imports') BY <1>6
<1> QED BY <1>6, <1>7, <1>8, <1>9, <1>10, <1>11

LEMMA RowsKept ==
  ASSUME RowsInv, NEW source, Import(source)
  PROVE  RowsInv'
<1> USE Imports
<1>1. imports' \in Seq(Imported) /\ Len(imports') <= MaxImports
  BY BrowserAssumption DEF Import
<1>2. IsFiniteSet(booked')
  <2> DEFINE f == [i \in 1..Len(LinesOf(source)) |-> RecordOf(source, i)]
             R == RecordsOf(source)
  <2>1. source \in Imported BY DEF Import
  <2>2. Len(LinesOf(source)) \in Nat BY <2>1, SourceLines
  <2>3. R = {RecordOf(source, i) : i \in 1..Len(LinesOf(source))} BY <2>1, Records
  <2>4. IsFiniteSet(1..Len(LinesOf(source))) BY <2>2, FS_Interval
  <2>5. booked' \subseteq booked \cup R BY DEF Import, New
  <2> HIDE DEF R
  <2>6. f \in Surjection(1..Len(LinesOf(source)), R) BY <2>3 DEF Surjection
  <2> HIDE DEF f
  <2>7. IsFiniteSet(R) BY <2>4, <2>6, FS_Surjection
  <2>8. IsFiniteSet(booked) BY DEF RowsInv
  <2>9. IsFiniteSet(booked \cup R) BY <2>7, <2>8, FS_Union
  <2> QED BY <2>5, <2>9, FS_Subset
<1>3. ASSUME NEW r \in booked'
      PROVE  \E n \in 1..Len(imports') : r \in RecordsOf(imports'[n])
  <2>1. CASE r \in booked
    <3>1. PICK n \in 1..Len(imports) : r \in RecordsOf(imports[n]) BY <2>1 DEF RowsInv
    <3> QED BY <3>1
  <2>2. CASE r \notin booked
    <3>1. r \in RecordsOf(source) BY <2>2 DEF Import, New
    <3>2. Len(imports') \in 1..Len(imports') OBVIOUS
    <3> QED BY <3>1, <3>2
  <2> QED BY <2>1, <2>2
<1>4. ASSUME NEW r \in booked', NEW q \in booked', r.id = q.id
      PROVE  r = q
  <2>1. CASE r \in booked /\ q \in booked BY <1>4, <2>1 DEF RowsInv
  <2>2. CASE r \in booked /\ q \notin booked BY <1>4, <2>2 DEF BookedIds
  <2>3. CASE r \notin booked /\ q \in booked BY <1>4, <2>3 DEF BookedIds
  <2>4. CASE r \notin booked /\ q \notin booked
    <3>1. PICK i \in 1..Len(LinesOf(source)) : r = RecordOf(source, i) BY <2>4
    <3>2. PICK j \in 1..Len(LinesOf(source)) : q = RecordOf(source, j) BY <2>4
    <3>3. i = j BY <1>4, <3>1, <3>2, DistinctIds DEF Import
    <3> QED BY <3>1, <3>2, <3>3
  <2> QED BY <2>1, <2>2, <2>3, <2>4
<1> QED BY <1>1, <1>2, <1>3, <1>4 DEF RowsInv

-----------------------------------------------------------------------------
(* No purchase is lost.                                                     *)

\* A row that stands for a line: it has its imported_id, or the statement's record was taken
\* for it.
StandsFor(source, i, b) ==
  \/ b.id = RecordOf(source, i).id
  \/ /\ Suppressed(RecordsOf(source), RecordOf(source, i))
     /\ FromBrowser(b) /\ EconomicKey(b) = EconomicKey(RecordOf(source, i))

\* A portal's reference is of one purchase.
LEMMA OneReference ==
  ASSUME NEW p \in Shopping, Plain(p), NEW q \in Twins(p), NEW b \in Shopping, b.ref = q.ref
  PROVE  b = q
<1>1. b.n = q.n BY DEF Plain, SharedReference
<1>2. q \in Shopping BY DEF Twins
<1> QED BY <1>1, <1>2, BrowserAssumption

\* A purchase made on the day another of its text was posted is its twin.
LEMMA OneDay ==
  ASSUME NEW p \in Shopping, Plain(p), NEW t \in Twins(p), NEW q \in Shopping,
         q.text = t.text, {q.made, q.posted} \cap {t.made, t.posted} # {}
  PROVE  q \in Twins(p)
<1>1. q.made = t.made BY DEF Plain, PostedOnAnothersDay
<1> QED BY <1>1 DEF Twins, SameRow

LEMMA SuppressedFacts ==
  ASSUME RowsInv, NEW source \in Imported, NEW i \in 1..Len(LinesOf(source)), NEW r,
         r = RecordOf(source, i), Suppressed(RecordsOf(source), r)
  PROVE  /\ ~FromBrowser(r)
         /\ \E b \in booked : FromBrowser(b) /\ EconomicKey(b) = EconomicKey(r)
         /\ \A j \in 1..Len(LinesOf(source)) :
              EconomicKey(RecordOf(source, j)) = EconomicKey(r) => RecordOf(source, j) = r
<1> DEFINE R == RecordsOf(source)
           Same == {q \in R : EconomicKey(q) = EconomicKey(r)}
           B == {b \in booked : FromBrowser(b) /\ EconomicKey(b) = EconomicKey(r)}
           f == [k \in 1..Len(LinesOf(source)) |-> RecordOf(source, k)]
<1>1. ~FromBrowser(r) /\ Cardinality(Same) = 1 /\ Cardinality(B) = 1 BY DEF Suppressed
<1>2. R = {RecordOf(source, k) : k \in 1..Len(LinesOf(source))} BY Records
<1>3. IsFiniteSet(1..Len(LinesOf(source)))
  <2>1. Len(LinesOf(source)) \in Nat BY SourceLines
  <2> QED BY <2>1, FS_Interval
<1>4. Same \subseteq R BY DEF Same
<1>5. B \subseteq booked /\ IsFiniteSet(booked) BY DEF RowsInv
<1> HIDE DEF R
<1>6. f \in Surjection(1..Len(LinesOf(source)), R) BY <1>2 DEF Surjection
<1> HIDE DEF f
<1>7. IsFiniteSet(R) BY <1>3, <1>6, FS_Surjection
<1>8. r \in Same /\ \A j \in 1..Len(LinesOf(source)) :
        EconomicKey(RecordOf(source, j)) = EconomicKey(r) => RecordOf(source, j) \in Same
  BY <1>2
<1>9. \A x \in B : x \in booked /\ FromBrowser(x) /\ EconomicKey(x) = EconomicKey(r) OBVIOUS
<1> HIDE DEF Same, B
<1>10. IsFiniteSet(Same) /\ IsFiniteSet(B) BY <1>4, <1>5, <1>7, FS_Subset
<1>11. (\E x : Same = {x}) /\ (\E x : B = {x}) BY <1>1, <1>10, FS_Singleton
<1> QED BY <1>1, <1>8, <1>9, <1>11

\* A row, wherever it comes from.
IsRow(b) == \E s \in Imported : \E i \in 1..Len(LinesOf(s)) : b = RecordOf(s, i)

LEMMA RowFacts ==
  ASSUME NEW b, IsRow(b)
  PROVE  /\ b.of \in Shopping
         /\ FromBrowser(b) =>
              /\ b.date = b.of.made
              /\ \/ b.id = <<"browser", b.of.ref>>
                 \/ \E k : b.id = <<"browser", b.of.made, b.of.text, k>>
         /\ ~FromBrowser(b) => b.date = b.of.posted /\ b.id = <<"statement", b.of.n>>
<1>1. PICK s \in Imported : \E i \in 1..Len(LinesOf(s)) : b = RecordOf(s, i) BY DEF IsRow
<1>2. PICK i \in 1..Len(LinesOf(s)) : b = RecordOf(s, i) BY <1>1
<1> QED BY <1>2, RecordFacts

LEMMA RowsAfter ==
  ASSUME RowsInv, NEW source, Import(source), NEW b \in booked'
  PROVE  IsRow(b) /\ b.of \in Shopping
<1>1. CASE b \in booked BY <1>1, Rows, RowFacts DEF IsRow
<1>2. CASE b \notin booked BY <1>2, Imports, RowFacts DEF IsRow, Import
<1> QED BY <1>1, <1>2

LEMMA Parts ==
  ASSUME NEW id, NEW x, NEW a, NEW b, NEW c
  PROVE  /\ id = <<x, a>> => Len(id) = 2 /\ id[2] = a
         /\ id = <<x, a, b, c>> => Len(id) = 4 /\ id[2] = a /\ id[3] = b
OBVIOUS

\* Rows with one imported_id are of twins.
LEMMA SameId ==
  ASSUME NEW p \in Shopping, Plain(p), NEW r, IsRow(r), NEW b, IsRow(b),
         b.id = r.id, r.of \in Twins(p)
  PROVE  b.of \in Twins(p)
<1>1. b.of \in Shopping /\ r.of \in Shopping BY RowFacts
<1>2. CASE ~FromBrowser(r)
  <2>1. ~FromBrowser(b) BY <1>2 DEF FromBrowser
  <2>2. b.id = <<"statement", b.of.n>> /\ r.id = <<"statement", r.of.n>>
    BY <1>2, <2>1, RowFacts
  <2>3. b.of.n = r.of.n
    <3> DEFINE id == b.id
    <3>1. id = <<"statement", b.of.n>> /\ id = <<"statement", r.of.n>> BY <2>2
    <3> HIDE DEF id
    <3> QED BY <3>1
  <2> QED BY <1>1, <2>3, BrowserAssumption
<1>3. CASE FromBrowser(r)
  <2>1. FromBrowser(b) BY <1>3 DEF FromBrowser
  <2>2. /\ \/ b.id = <<"browser", b.of.ref>>
           \/ \E k : b.id = <<"browser", b.of.made, b.of.text, k>>
        /\ \/ r.id = <<"browser", r.of.ref>>
           \/ \E k : r.id = <<"browser", r.of.made, r.of.text, k>>
    BY <1>3, <2>1, RowFacts
  <2>3. b.of.ref = r.of.ref \/ (b.of.made = r.of.made /\ b.of.text = r.of.text)
    <3> DEFINE id == b.id
    <3>1. /\ (Len(id) = 2 /\ id[2] = b.of.ref)
             \/ (Len(id) = 4 /\ id[2] = b.of.made /\ id[3] = b.of.text)
          /\ (Len(id) = 2 /\ id[2] = r.of.ref)
             \/ (Len(id) = 4 /\ id[2] = r.of.made /\ id[3] = r.of.text)
      BY <2>2, Parts
    <3> HIDE DEF id
    <3> QED BY <3>1
  <2>4. CASE b.of.ref = r.of.ref BY <1>1, <2>4, OneReference
  <2>5. CASE b.of.made = r.of.made /\ b.of.text = r.of.text BY <1>1, <2>5 DEF Twins, SameRow
  <2> QED BY <2>3, <2>4, <2>5
<1> QED BY <1>2, <1>3

LEMMA LineStands ==
  ASSUME RowsInv, NEW source, Import(source), NEW p \in Shopping, Plain(p),
         NEW i \in 1..Len(LinesOf(source)), LinesOf(source)[i] \in Twins(p)
  PROVE  \E b \in BookedAs(p)' : StandsFor(source, i, b)
<1> DEFINE r == RecordOf(source, i)
<1>1. source \in Imported BY DEF Import
<1>2. IsRow(r) /\ r.of \in Twins(p) BY <1>1, RecordFacts DEF IsRow
<1>3. ASSUME NEW b \in booked', b.of \in Twins(p)
      PROVE  b \in BookedAs(p)'
  BY <1>3 DEF BookedAs, Twins, SameRow
<1>4. CASE r \in booked' BY <1>2, <1>3, <1>4 DEF StandsFor
<1>5. CASE r.id \in BookedIds
  <2>1. PICK b \in booked : b.id = r.id BY <1>5 DEF BookedIds
  <2>2. b \in booked' /\ IsRow(b) BY Imports, RowsAfter
  <2>3. b.of \in Twins(p) BY <1>2, <2>1, <2>2, SameId
  <2> QED BY <1>3, <2>1, <2>2, <2>3 DEF StandsFor
<1>6. CASE Suppressed(RecordsOf(source), r)
  <2>1. ~FromBrowser(r) BY <1>1, <1>6, SuppressedFacts
  <2>2. PICK b \in booked : FromBrowser(b) /\ EconomicKey(b) = EconomicKey(r)
    BY <1>1, <1>6, SuppressedFacts
  <2>3. b \in booked' /\ IsRow(b) /\ b.of \in Shopping BY Imports, RowsAfter
  <2>4. b.date = r.date /\ b.of.text = r.of.text BY <2>2 DEF EconomicKey
  <2>5. b.of.made = r.of.posted BY <1>2, <2>1, <2>2, <2>3, <2>4, RowFacts
  <2>6. b.of \in Twins(p) BY <1>2, <2>3, <2>4, <2>5, OneDay
  <2> QED BY <1>3, <1>6, <2>2, <2>3, <2>6 DEF StandsFor
<1> QED BY <1>4, <1>5, <1>6, Imports

LEMMA LineStandsOnce ==
  ASSUME RowsInv, NEW source, Import(source), NEW b,
         NEW i \in 1..Len(LinesOf(source)), NEW j \in 1..Len(LinesOf(source)),
         StandsFor(source, i, b), StandsFor(source, j, b)
  PROVE  i = j
<1>1. /\ source \in Imported
      /\ Cardinality({r.id : r \in RecordsOf(source)}) = Len(LinesOf(source))
  BY DEF Import
<1>2. SUFFICES RecordOf(source, i).id = RecordOf(source, j).id BY <1>1, DistinctIds
<1>3. ASSUME NEW k \in 1..Len(LinesOf(source)), NEW l \in 1..Len(LinesOf(source)),
             b.id = RecordOf(source, k).id,
             Suppressed(RecordsOf(source), RecordOf(source, l)), FromBrowser(b)
      PROVE  FALSE
  <2>1. FromBrowser(RecordOf(source, k)) BY <1>3 DEF FromBrowser
  <2>2. ~FromBrowser(RecordOf(source, l)) BY <1>1, <1>3, SuppressedFacts
  <2> QED BY <1>1, <2>1, <2>2, RecordFacts
<1>4. CASE b.id = RecordOf(source, i).id /\ b.id = RecordOf(source, j).id BY <1>4
<1>5. CASE /\ Suppressed(RecordsOf(source), RecordOf(source, i))
           /\ EconomicKey(b) = EconomicKey(RecordOf(source, i))
           /\ EconomicKey(b) = EconomicKey(RecordOf(source, j))
  <2>1. EconomicKey(RecordOf(source, j)) = EconomicKey(RecordOf(source, i)) BY <1>5
  <2>2. RecordOf(source, j) = RecordOf(source, i) BY <1>1, <1>5, <2>1, SuppressedFacts
  <2> QED BY <2>2
<1> QED BY <1>3, <1>4, <1>5 DEF StandsFor

\* An import leaves a row for each purchase it lists.
LEMMA LinesAreBooked ==
  ASSUME RowsInv, NEW source, Import(source), NEW p \in Shopping, Plain(p)
  PROVE  /\ IsFiniteSet(BookedAs(p)') /\ Cardinality(BookedAs(p)') \in Nat
         /\ Cardinality(LinesIn(source) \cap Twins(p)) <= Cardinality(BookedAs(p)')
<1> DEFINE T == LinesIn(source) \cap Twins(p)
           B == BookedAs(p)'
           I == 1..Len(LinesOf(source))
<1>1. IsFiniteSet(booked') BY RowsKept DEF RowsInv
<1>2. B \subseteq booked' BY DEF BookedAs
<1>3. IsFiniteSet(B) BY <1>1, <1>2, FS_Subset
<1>4. \A q \in T : \E i \in I : LinesOf(source)[i] = q BY SourceLines DEF Import
<1>5. \A i \in I : LinesOf(source)[i] \in Twins(p) => \E b \in B : StandsFor(source, i, b)
  BY LineStands
<1>6. \A b \in B : \A i, j \in I : StandsFor(source, i, b) /\ StandsFor(source, j, b) => i = j
  BY LineStandsOnce
<1>7. T \subseteq Twins(p) OBVIOUS
<1> HIDE DEF T, B, I
<1> DEFINE Stands(q, b) == \E i \in I : LinesOf(source)[i] = q /\ StandsFor(source, i, b)
           f == [q \in T |-> CHOOSE b \in B : Stands(q, b)]
<1>8. \A q \in T : \E b \in B : Stands(q, b) BY <1>4, <1>5, <1>7
<1>9. \A q, t \in T : \A b \in B : Stands(q, b) /\ Stands(t, b) => q = t BY <1>6
<1> HIDE DEF Stands
<1>10. \A q \in T : f[q] \in B /\ Stands(q, f[q]) BY <1>8
<1>11. f \in [T -> B] BY <1>10
<1> HIDE DEF f
<1>12. f \in Injection(T, B) BY <1>9, <1>10, <1>11 DEF Injection, IsInjective
<1>13. Cardinality(T) <= Cardinality(B) BY <1>3, <1>12, FS_Injection
<1> QED BY <1>3, <1>13, FS_CardinalityType DEF T, B

LEMMA ListedKept ==
  ASSUME RowsInv, ListedInv, NEW source, Import(source)
  PROVE  ListedInv'
<1> SUFFICES ASSUME NEW p \in Shopping, Plain(p), NEW n \in 1..Len(imports')
             PROVE  Cardinality(LinesIn(imports'[n]) \cap Twins(p)) <= Cardinality(BookedAs(p)')
  BY DEF ListedInv
<1>1. /\ IsFiniteSet(BookedAs(p)') /\ Cardinality(BookedAs(p)') \in Nat
      /\ Cardinality(LinesIn(source) \cap Twins(p)) <= Cardinality(BookedAs(p)')
  BY LinesAreBooked
<1>2. CASE n \in 1..Len(imports)
  <2>1. imports'[n] = imports[n] BY <1>2, Imports
  <2>2. Cardinality(LinesIn(imports[n]) \cap Twins(p)) <= Cardinality(BookedAs(p))
    BY <1>2 DEF ListedInv
  <2>3. BookedAs(p) \subseteq BookedAs(p)' BY Imports DEF BookedAs
  <2>4. Cardinality(BookedAs(p)) <= Cardinality(BookedAs(p)') BY <1>1, <2>3, FS_Subset
  <2>5. imports[n] \in Imported BY <1>2, ElementOfSeq DEF RowsInv
  <2>6. IsFiniteSet(LinesIn(imports[n])) BY <2>5, SourceLines
  <2>7. IsFiniteSet(LinesIn(imports[n]) \cap Twins(p)) BY <2>6, FS_Subset
  <2>8. Cardinality(LinesIn(imports[n]) \cap Twins(p)) \in Nat BY <2>7, FS_CardinalityType
  <2>9. Cardinality(BookedAs(p)) \in Nat BY RowsOfTwins
  <2> QED BY <1>1, <2>1, <2>2, <2>4, <2>8, <2>9
<1>3. CASE n \notin 1..Len(imports)
  <2>1. Len(imports) \in Nat /\ Len(imports') = Len(imports) + 1 BY Imports
  <2>2. n = Len(imports') BY <1>3, <2>1
  <2>3. imports'[n] = source BY <2>2, Imports
  <2> QED BY <1>1, <2>3
<1> QED BY <1>2, <1>3

-----------------------------------------------------------------------------
(* A purchase is not booked from both sides.                                *)

\* What an import leaves of the two exceptions stays.
LEMMA ExceptionsStay ==
  ASSUME RowsInv, NEW source, Import(source), NEW p \in Shopping
  PROVE  /\ Captures \subseteq Captures'
         /\ MixedExports(p) => MixedExports(p)'
         /\ CapturedLate(p) => CapturedLate(p)'
<1>1. Captures \subseteq Captures' BY Imports DEF Captures
<1>2. MixedExports(p) => MixedExports(p)' BY <1>1 DEF MixedExports
<1>3. ASSUME CapturedLate(p) PROVE CapturedLate(p)'
  <2>1. PICK i \in DOMAIN imports, j \in DOMAIN imports :
          /\ i < j /\ imports[i].kind = "statement" /\ imports[j].kind = "capture"
          /\ p \in LinesIn(imports[i]) \cap LinesIn(imports[j])
    BY <1>3 DEF CapturedLate
  <2>2. /\ i \in DOMAIN imports' /\ j \in DOMAIN imports'
        /\ imports'[i] = imports[i] /\ imports'[j] = imports[j]
    BY Imports
  <2> QED BY <2>1, <2>2 DEF CapturedLate
<1> QED BY <1>1, <1>2, <1>3

\* The rows of a purchase without a twin are rows of that purchase.
LEMMA OwnRows ==
  ASSUME RowsInv, NEW p \in Shopping, Twins(p) = {p}
  PROVE  /\ \A b \in BookedAs(p) : b \in booked /\ b.of = p /\ IsRow(b)
         /\ IsFiniteSet({b \in BookedAs(p) : FromBrowser(b)})
         /\ Cardinality({b \in BookedAs(p) : FromBrowser(b)}) \in Nat
         /\ ~MixedExports(p) => Cardinality({b \in BookedAs(p) : FromBrowser(b)}) <= 1
<1> DEFINE B == {b \in BookedAs(p) : FromBrowser(b)}
<1>1. \A b \in BookedAs(p) : b \in booked /\ b.of = p BY RowsOfTwins
<1>2. \A b \in booked : IsRow(b) BY Rows DEF IsRow
<1>3. B \subseteq BookedAs(p) /\ IsFiniteSet(BookedAs(p)) BY RowsOfTwins
<1>4. IsFiniteSet(B) BY <1>3, FS_Subset
<1>5. Cardinality(B) \in Nat BY <1>4, FS_CardinalityType
<1>6. ASSUME ~MixedExports(p) PROVE Cardinality(B) <= 1
  <2>1. Cardinality(B) <= Cardinality(CapturedTwins(p)) BY <1>6, CapturedOnce
  <2>2. CapturedTwins(p) \subseteq {p} BY DEF CapturedTwins
  <2>3. IsFiniteSet({p}) /\ Cardinality({p}) = 1 BY FS_Singleton
  <2>4. Cardinality(CapturedTwins(p)) <= 1 BY <2>2, <2>3, FS_Subset
  <2>5. Cardinality(CapturedTwins(p)) \in Nat BY CapturedFinite
  <2> QED BY <1>5, <2>1, <2>4, <2>5
<1> QED BY <1>1, <1>2, <1>4, <1>5, <1>6

\* A row of a portal keeps the statement's from being booked: they say the same, and no
\* other record and no other row of a portal does.
LEMMA StatementSuppressed ==
  ASSUME RowsInv, NEW source, Import(source), source.kind = "statement",
         NEW p \in Shopping, Plain(p), Twins(p) = {p}, p.made = p.posted, ~MixedExports(p),
         NEW b \in BookedAs(p), FromBrowser(b),
         NEW i \in 1..Len(LinesOf(source)), NEW r, r = RecordOf(source, i), r.of = p,
         r.id \notin BookedIds
  PROVE  Suppressed(RecordsOf(source), r)
<1> DEFINE R == RecordsOf(source)
           Same == {q \in R : EconomicKey(q) = EconomicKey(r)}
           B == {x \in booked : FromBrowser(x) /\ EconomicKey(x) = EconomicKey(r)}
           Own == {x \in BookedAs(p) : FromBrowser(x)}
<1>1. source \in Imported BY DEF Import
<1>2. ~FromBrowser(r) /\ r.date = p.made BY <1>1, RecordFacts
<1>3. p \in Twins(p) /\ \A q \in Twins(p) : q = p OBVIOUS
<1>4. ASSUME NEW q \in Same PROVE q = r
  <2>1. PICK j \in 1..Len(LinesOf(source)) : q = RecordOf(source, j) BY <1>1, Records
  <2>2. ~FromBrowser(q) /\ q.date = q.of.posted /\ q.of \in Shopping
    BY <1>1, <2>1, RecordFacts
  <2>3. q.of.posted = p.made /\ q.of.text = p.text BY <1>2, <2>2 DEF EconomicKey
  <2>4. {q.of.made, q.of.posted} \cap {p.made, p.posted} # {} BY <2>3
  <2>5. q.of \in Twins(p) BY <1>3, <2>2, <2>3, <2>4, OneDay
  <2>6. q.of = p BY <1>3, <2>5
  <2>7. q.id = <<"statement", p.n>> /\ r.id = <<"statement", p.n>>
    BY <1>1, <2>1, <2>6, RecordFacts
  <2>8. RecordOf(source, j).id = RecordOf(source, i).id BY <2>1, <2>7
  <2>9. j = i BY <1>1, <2>8, DistinctIds DEF Import
  <2> QED BY <2>1, <2>9
<1>5. r \in Same BY <1>1, Records
<1>6. ASSUME NEW x \in B PROVE x \in Own
  <2>1. IsRow(x) /\ x.of \in Shopping BY Rows DEF IsRow
  <2>2. x.date = x.of.made BY <2>1, RowFacts
  <2>3. x.of.made = p.made /\ x.of.text = p.text BY <1>2, <2>2 DEF EconomicKey
  <2> QED BY <2>3 DEF BookedAs, SameRow
<1>7. b \in B
  <2>1. b \in booked /\ b.of = p /\ IsRow(b) BY OwnRows
  <2>2. b.date = p.made BY <2>1, RowFacts
  <2> QED BY <1>2, <2>1, <2>2 DEF EconomicKey
<1>8. IsFiniteSet(Own) /\ Cardinality(Own) \in Nat /\ Cardinality(Own) <= 1 BY OwnRows
<1>9. B \subseteq Own BY <1>6
<1> HIDE DEF Same, B, Own
<1>10. Same = {r} BY <1>4, <1>5
<1>11. Cardinality(Same) = 1 BY <1>10, FS_Singleton
<1>12. IsFiniteSet(B) /\ Cardinality(B) <= Cardinality(Own) BY <1>8, <1>9, FS_Subset
<1>13. Cardinality(B) \in Nat /\ Cardinality(B) # 0 BY <1>7, <1>12, FS_EmptySet, FS_CardinalityType
<1>14. Cardinality(B) = 1 BY <1>8, <1>12, <1>13
<1> QED BY <1>2, <1>11, <1>14 DEF Suppressed, Same, B

LEMMA SidesKept ==
  ASSUME RowsInv, SidesInv, NEW source, Import(source)
  PROVE  SidesInv'
<1> SUFFICES ASSUME NEW p \in Shopping, Plain(p), Twins(p) = {p}, p.made = p.posted,
                    ~MixedExports(p)', ~CapturedLate(p)',
                    NEW b \in BookedAs(p)', NEW r \in BookedAs(p)',
                    FromBrowser(b), ~FromBrowser(r)
             PROVE  FALSE
  BY DEF SidesInv, Alone
<1>1. ~MixedExports(p) /\ ~CapturedLate(p) BY ExceptionsStay
<1>2. Alone(p) BY <1>1 DEF Alone
<1>3. source \in Imported BY DEF Import
<1>4. /\ b \in booked' /\ SameRow(b.of, p) /\ r \in booked' /\ SameRow(r.of, p)
      /\ b.of = p /\ r.of = p
  <2>1. b \in booked' /\ SameRow(b.of, p) /\ r \in booked' /\ SameRow(r.of, p)
    BY DEF BookedAs
  <2>2. b.of \in Shopping /\ r.of \in Shopping BY <2>1, RowsAfter
  <2>3. b.of \in Twins(p) /\ r.of \in Twins(p) BY <2>1, <2>2 DEF Twins, SameRow
  <2> QED BY <2>1, <2>3
<1>5. CASE b \in booked /\ r \in booked
  <2>1. b \in BookedAs(p) /\ r \in BookedAs(p) BY <1>4, <1>5 DEF BookedAs
  <2> QED BY <1>2, <2>1 DEF SidesInv
<1>6. CASE b \notin booked /\ r \notin booked BY <1>3, <1>4, <1>6, Imports, RecordFacts
<1>7. CASE b \in booked /\ r \notin booked
  <2>1. PICK i \in 1..Len(LinesOf(source)) : r = RecordOf(source, i) BY <1>4, <1>7, Imports
  <2>2. r.id \notin BookedIds /\ ~Suppressed(RecordsOf(source), r) BY <1>4, <1>7, Imports
  <2>3. source.kind = "statement" BY <1>3, <2>1, RecordFacts DEF Imported
  <2>4. b \in BookedAs(p) BY <1>4, <1>7 DEF BookedAs
  <2> QED BY <1>1, <1>4, <2>1, <2>2, <2>3, <2>4, StatementSuppressed
<1>8. CASE b \notin booked /\ r \in booked
  <2>1. PICK j \in 1..Len(LinesOf(source)) : b = RecordOf(source, j) BY <1>4, <1>8, Imports
  <2>2. source.kind = "capture" /\ p \in LinesIn(source) BY <1>3, <1>4, <2>1, RecordFacts
  <2>3. PICK n \in 1..Len(imports) :
           /\ imports[n] \in Imported
           /\ \E i \in 1..Len(LinesOf(imports[n])) : r = RecordOf(imports[n], i)
    BY <1>8, Rows
  <2>4. imports[n].kind = "statement" /\ p \in LinesIn(imports[n])
    BY <1>4, <2>3, RecordFacts DEF Imported
  <2>5. /\ n \in DOMAIN imports' /\ imports'[n] = imports[n]
        /\ Len(imports') \in DOMAIN imports' /\ n < Len(imports')
        /\ imports'[Len(imports')] = source
    BY Imports
  <2> QED BY <2>2, <2>4, <2>5 DEF CapturedLate
<1> QED BY <1>5, <1>6, <1>7, <1>8

-----------------------------------------------------------------------------
LEMMA CaptureInit_Inv ==
  ASSUME CaptureInit
  PROVE  CaptureInv
<1>1. imports = << >> /\ booked = {} BY DEF CaptureInit
<1>2. imports \in Seq(Imported) /\ Len(imports) = 0 BY <1>1
<1>3. IsFiniteSet(booked) BY <1>1, FS_EmptySet
<1>4. Len(imports) <= MaxImports BY <1>2, BrowserAssumption
<1>5. RowsInv BY <1>1, <1>2, <1>3, <1>4 DEF RowsInv
<1>6. ListedInv BY <1>2 DEF ListedInv
<1>7. SidesInv BY <1>1 DEF SidesInv, BookedAs
<1> QED BY <1>5, <1>6, <1>7 DEF CaptureInv

LEMMA CaptureInv_Step ==
  ASSUME CaptureInv, [CaptureNext]_captureVars
  PROVE  CaptureInv'
<1>1. CASE CaptureNext
  <2>1. PICK source : Import(source) BY <1>1, EachImports
  <2> QED BY <2>1, RowsKept, ListedKept, SidesKept DEF CaptureInv
<1>2. CASE UNCHANGED captureVars
  BY <1>2 DEF captureVars, CaptureInv, RowsInv, ListedInv, SidesInv, Alone, BookedAs,
              MixedExports, CapturedLate, Captures
<1> QED BY <1>1, <1>2

LEMMA CaptureInv_Always == CaptureSpec => []CaptureInv
<1>1. CaptureInit => CaptureInv BY CaptureInit_Inv
<1>2. CaptureInv /\ [CaptureNext]_captureVars => CaptureInv' BY CaptureInv_Step
<1> QED BY <1>1, <1>2, PTL DEF CaptureSpec

LEMMA CaptureInv_Counts ==
  ASSUME CaptureInv
  PROVE  CapturesCountOnce
<1> SUFFICES ASSUME NEW p \in Shopping, Plain(p)
             PROVE  /\ \A i \in DOMAIN imports :
                         Cardinality(LinesIn(imports[i]) \cap Twins(p))
                           <= Cardinality(BookedAs(p))
                    /\ MixedExports(p) \/
                         Cardinality({r \in BookedAs(p) : FromBrowser(r)})
                           <= Cardinality(CapturedTwins(p))
                    /\ Alone(p) => Cardinality(BookedAs(p)) <= 1
  BY DEF CapturesCountOnce, Plain, CapturedTwins, Alone
<1>1. RowsInv /\ ListedInv /\ SidesInv BY DEF CaptureInv
<1>2. DOMAIN imports = 1..Len(imports) BY <1>1, LenProperties DEF RowsInv
<1>3. ASSUME Alone(p) PROVE Cardinality(BookedAs(p)) <= 1
  <2> DEFINE Own == {r \in BookedAs(p) : FromBrowser(r)}
  <2>1. Twins(p) = {p} /\ ~MixedExports(p) BY <1>3 DEF Alone
  <2>2. \A b \in BookedAs(p) : b \in booked /\ b.of = p /\ IsRow(b) BY <1>1, <2>1, OwnRows
  <2>3. Cardinality(Own) <= 1 BY <1>1, <2>1, OwnRows
  <2>4. CASE \E b \in BookedAs(p) : FromBrowser(b)
    <3>1. \A r \in BookedAs(p) : FromBrowser(r) BY <1>1, <1>3, <2>4 DEF SidesInv
    <3>2. BookedAs(p) = Own BY <3>1
    <3> QED BY <2>3, <3>2
  <2>5. CASE ~\E b \in BookedAs(p) : FromBrowser(b)
    <3>1. \A b \in BookedAs(p) : b.id = <<"statement", p.n>> BY <2>2, <2>5, RowFacts
    <3>2. \A a, b \in BookedAs(p) : a = b BY <1>1, <2>2, <3>1 DEF RowsInv
    <3>3. BookedAs(p) = {} \/ \E x : BookedAs(p) = {x} BY <3>2
    <3>4. Cardinality(BookedAs(p)) = 0 \/ Cardinality(BookedAs(p)) = 1
      BY <3>3, FS_EmptySet, FS_Singleton
    <3> QED BY <3>4
  <2> QED BY <2>4, <2>5
<1> QED BY <1>1, <1>2, <1>3, CapturedOnce DEF ListedInv

LEMMA CaptureInv_Types ==
  ASSUME CaptureInv
  PROVE  CaptureTypeOK
<1>1. RowsInv BY DEF CaptureInv
<1>2. ASSUME NEW r \in booked PROVE r.of \in Shopping /\ r.date \in Nat
  <2>1. IsRow(r) /\ r.of \in Shopping BY <1>1, Rows DEF IsRow
  <2>2. r.date = r.of.made \/ r.date = r.of.posted BY <2>1, RowFacts
  <2> QED BY <2>1, <2>2, BrowserAssumption
<1> QED BY <1>1, <1>2 DEF CaptureTypeOK, RowsInv

\* Rows are of the account's purchases and dated by them, and imports are bounded.
THEOREM CaptureTypes == CaptureSpec => []CaptureTypeOK
<1>1. CaptureInv => CaptureTypeOK BY CaptureInv_Types
<1> QED BY <1>1, CaptureInv_Always, PTL

\* Through captures and statements in any order, with and without references, imported
\* again and again: no purchase an import lists is lost, the captures never book more than
\* they list, and a purchase that is alone is booked once from both sides.
THEOREM CapturesCounted == CaptureSpec => []CapturesCountOnce
<1>1. CaptureInv => CapturesCountOnce BY CaptureInv_Counts
<1> QED BY <1>1, CaptureInv_Always, PTL

-----------------------------------------------------------------------------
(* The periods of a card.                                                   *)

PeriodRow == [status : Statuses, closedBy : Receipt \cup {None},
              statement : Reference \cup {None}, evidence : Evidence \cup {None}]

\* A finalization opens the period after the one it finalizes.
Opens(p) == ~Exists(p) /\ periods'[p] = [NoPeriod EXCEPT !.status = "OPEN"]

-----------------------------------------------------------------------------
(* What each request does to the rows.                                      *)

LEMMA EnsureRow ==
  ASSUME TypeOK, NEW p \in Period, EnsurePeriod(p)
  PROVE  /\ periods' \in [Period -> PeriodRow]
         /\ periods'[p] = [periods[p] EXCEPT !.status = "OPEN"]
         /\ \A n \in Period \ {p} : periods'[n] = periods[n]
<1>1. periods \in [Period -> PeriodRow]
  BY DEF TypeOK, PeriodRow
<1>2. periods' = [periods EXCEPT ![p] = [periods[p] EXCEPT !.status = "OPEN"]]
  BY <1>1 DEF EnsurePeriod
<1>3. [periods[p] EXCEPT !.status = "OPEN"] \in PeriodRow
  BY <1>1 DEF PeriodRow, Statuses
<1> QED
  BY <1>1, <1>2, <1>3

\* Closing: the mail was bound to no period and the period closed by no mail.
LEMMA CloseRow ==
  ASSUME TypeOK, OneClosingReceipt, NEW q \in Receipt, NEW p \in Period,
         RecordNamed(q, p) \/ (receipts[q].period = None /\ Matching(q) = {p} /\ Close(q, p))
  PROVE  /\ periods' \in [Period -> PeriodRow]
         /\ periods'[p] = [periods[p] EXCEPT !.status = "CLOSED", !.closedBy = q]
         /\ \A n \in Period \ {p} : periods'[n] = periods[n]
         /\ receipts' \in [Receipt -> [stored : BOOLEAN, period : Period \cup {None}]]
         /\ receipts'[q] = [stored |-> TRUE, period |-> p] /\ ReceivedAt[q] = p.to
         /\ \A m \in Receipt \ {q} : receipts'[m] = receipts[m]
         /\ receipts[q].period = None /\ periods[p].closedBy = None
         /\ periods[p].status \in {"NONE", "OPEN"}
         /\ UNCHANGED <<runs, work>>
<1>1. periods \in [Period -> PeriodRow]
  BY DEF TypeOK, PeriodRow
<1>2. Close(q, p) /\ receipts[q].period = None
  BY DEF RecordNamed
<1>3. periods[p].status \in {"NONE", "OPEN"}
  <2>1. CASE RecordNamed(q, p)
    BY <2>1 DEF RecordNamed, BindsWaiting, BindsNew, IsOpen, Exists
  <2>2. CASE Matching(q) = {p}
    BY <2>2 DEF Matching, IsOpen
  <2> QED
    BY <2>1, <2>2
<1>4. periods' = [periods EXCEPT ![p] = [periods[p] EXCEPT !.status = "CLOSED", !.closedBy = q]]
  BY <1>1, <1>2 DEF Close
<1>5. [periods[p] EXCEPT !.status = "CLOSED", !.closedBy = q] \in PeriodRow
  BY <1>1 DEF PeriodRow, Statuses
<1>6. receipts' = [receipts EXCEPT ![q] = [stored |-> TRUE, period |-> p]]
  BY <1>2 DEF Close
<1>7. receipts' \in [Receipt -> [stored : BOOLEAN, period : Period \cup {None}]]
  BY <1>6 DEF TypeOK
<1>8. periods[p].closedBy = None
  BY <1>3 DEF OneClosingReceipt
<1> QED
  BY <1>1, <1>2, <1>3, <1>4, <1>5, <1>6, <1>7, <1>8 DEF Close, TypeOK

LEMMA FinalTyped ==
  ASSUME NEW given \in PeriodRow, NEW f \in Finalizer,
         work[f].statement \in Reference \cup {None}, work[f].evidence \in Evidence \cup {None}
  PROVE  Final(given, f) \in PeriodRow
<1> DEFINE done == [given EXCEPT !.status = "FINALIZED"]
           named == [done EXCEPT !.statement = work[f].statement]
<1>1. done \in PeriodRow
  BY DEF PeriodRow, Statuses
<1> HIDE DEF done
<1>2. named \in PeriodRow
  BY <1>1 DEF PeriodRow
<1> HIDE DEF named
<1>3. [named EXCEPT !.evidence = work[f].evidence] \in PeriodRow
  BY <1>2 DEF PeriodRow
<1> QED
  BY <1>3 DEF Final, done, named

\* Finalizing: rolled back, or the period of the run is finalized and the next
\* of the cycle is stored.
LEMMA FinalizeRow ==
  ASSUME TypeOK, WorkInv, NEW f \in Finalizer, FinalizeWrite(f), periods' # periods
  PROVE  /\ periods' \in [Period -> PeriodRow]
         /\ runs[work[f].statement].period \in Period
         /\ work[f].statement \in Reference /\ work[f].evidence \in Evidence
         /\ periods'[runs[work[f].statement].period]
              = Final(periods[runs[work[f].statement].period], f)
         /\ \A n \in Period \ {runs[work[f].statement].period} :
              \/ periods'[n] = periods[n]
              \/ Opens(n)
         /\ \E n \in Following(runs[work[f].statement].period) : Exists(n)'
<1> DEFINE p == runs[work[f].statement].period
<1>1. periods \in [Period -> PeriodRow]
  BY DEF TypeOK, PeriodRow
<1>2. work[f].statement \in Reference /\ work[f].evidence \in Evidence /\ p \in Period
  BY NoneAssumption DEF TypeOK, WorkInv, FinalizeWrite
<1>3. /\ Following(p) # {}
      /\ periods' = [n \in Period |->
           IF n = p THEN Final(periods[n], f)
           ELSE IF n \in Following(p) /\ ~Exists(n)
           THEN [NoPeriod EXCEPT !.status = "OPEN"] ELSE periods[n]]
  BY Zenon DEF FinalizeWrite
<1>4. Final(periods[p], f) \in PeriodRow
  <2>1. /\ periods[p] \in PeriodRow /\ "FINALIZED" \in Statuses
        /\ work[f].statement \in Reference \cup {None} /\ work[f].evidence \in Evidence \cup {None}
    BY <1>1, <1>2 DEF Statuses
  <2> QED
    BY <2>1, FinalTyped
<1>5. [NoPeriod EXCEPT !.status = "OPEN"] \in PeriodRow
  BY DEF NoPeriod, PeriodRow, Statuses
<1>6. periods' \in [Period -> PeriodRow]
  BY <1>1, <1>2, <1>3, <1>4, <1>5
<1>7. periods'[p] = Final(periods[p], f)
  BY <1>2, <1>3
<1>8. \A n \in Period \ {p} : periods'[n] = periods[n] \/ Opens(n)
  BY <1>3 DEF Opens
<1>9. PICK n \in Following(p) : TRUE
  BY <1>3
<1>10. n \in Period /\ n # p
  BY <1>2, <1>9, CycleAssumption, PeriodAssumption DEF Following
<1>11. Exists(n)'
  BY <1>3, <1>10 DEF Exists, NoPeriod
<1> QED
  BY <1>2, <1>6, <1>7, <1>8, <1>9, <1>11

-----------------------------------------------------------------------------
(* The inductive invariant, request by request.                            *)

LEMMA InitPeriodInv == Init => PeriodInv
<1> SUFFICES ASSUME Init PROVE PeriodInv
  OBVIOUS
<1>1. TypeOK
  BY DEF Init, TypeOK, NoPeriod, NoWork, Statuses
<1>2. WorkInv
  BY DEF Init, WorkInv, NoWork
<1>3. OneClosingReceipt
  BY NoneAssumption DEF Init, OneClosingReceipt, NoPeriod
<1>4. FinalizedIsReconciled /\ HistoryContinues
  BY DEF Init, FinalizedIsReconciled, HistoryContinues, Finalized, NoPeriod
<1> QED
  BY <1>1, <1>2, <1>3, <1>4 DEF PeriodInv

LEMMA EnsurePeriodStep ==
  ASSUME PeriodInv, NEW p \in Period, EnsurePeriod(p)
  PROVE  PeriodInv'
<1>1. TypeOK /\ WorkInv /\ OneClosingReceipt /\ FinalizedIsReconciled /\ HistoryContinues
  BY DEF PeriodInv
<1>2. /\ periods' \in [Period -> PeriodRow]
      /\ periods'[p] = [periods[p] EXCEPT !.status = "OPEN"]
      /\ \A n \in Period \ {p} : periods'[n] = periods[n]
  BY <1>1, EnsureRow
<1>3. periods[p] \in PeriodRow /\ periods[p].status = "NONE" /\ UNCHANGED <<receipts, runs, work>>
  BY <1>1 DEF TypeOK, PeriodRow, EnsurePeriod, Exists
<1>4. /\ periods'[p].status = "OPEN"
      /\ \A n \in Period : periods'[n].closedBy = periods[n].closedBy
      /\ \A n \in Period : periods'[n].status = periods[n].status \/ n = p
  BY <1>2, <1>3 DEF PeriodRow
<1>5. TypeOK' /\ WorkInv'
  BY <1>1, <1>2, <1>3 DEF TypeOK, WorkInv, PeriodRow
<1>6. OneClosingReceipt'
  BY <1>1, <1>3, <1>4 DEF OneClosingReceipt
<1>7. FinalizedIsReconciled'
  <2> SUFFICES ASSUME NEW n \in Period, periods'[n].status = "FINALIZED"
               PROVE  /\ periods'[n].evidence # None /\ periods'[n].statement # None
                      /\ runs'[periods'[n].statement].period = n
    BY DEF FinalizedIsReconciled, Finalized
  <2>1. n # p
    BY <1>4
  <2> QED
    BY <1>1, <1>2, <1>3, <2>1 DEF FinalizedIsReconciled, Finalized
<1>8. HistoryContinues'
  BY <1>1, <1>4, CycleAssumption DEF HistoryContinues, Finalized, Exists, Following
<1> QED
  BY <1>5, <1>6, <1>7, <1>8 DEF PeriodInv

LEMMA CloseStep ==
  ASSUME PeriodInv, NEW q \in Receipt, NEW p \in Period,
         RecordNamed(q, p) \/ (receipts[q].period = None /\ Matching(q) = {p} /\ Close(q, p))
  PROVE  PeriodInv'
<1>1. TypeOK /\ WorkInv /\ OneClosingReceipt /\ FinalizedIsReconciled /\ HistoryContinues
  BY DEF PeriodInv
<1>2. /\ periods' \in [Period -> PeriodRow]
      /\ periods'[p] = [periods[p] EXCEPT !.status = "CLOSED", !.closedBy = q]
      /\ \A n \in Period \ {p} : periods'[n] = periods[n]
      /\ receipts' \in [Receipt -> [stored : BOOLEAN, period : Period \cup {None}]]
      /\ receipts'[q] = [stored |-> TRUE, period |-> p] /\ ReceivedAt[q] = p.to
      /\ \A m \in Receipt \ {q} : receipts'[m] = receipts[m]
      /\ receipts[q].period = None /\ periods[p].closedBy = None
      /\ periods[p].status \in {"NONE", "OPEN"}
      /\ UNCHANGED <<runs, work>>
  BY <1>1, CloseRow
<1>3. periods[p] \in PeriodRow
  BY <1>1 DEF TypeOK, PeriodRow
<1>4. periods'[p].status = "CLOSED" /\ periods'[p].closedBy = q /\ receipts'[q].period = p
  BY <1>2, <1>3 DEF PeriodRow
<1>5. TypeOK' /\ WorkInv'
  BY <1>1, <1>2 DEF TypeOK, WorkInv, PeriodRow
<1>6. OneClosingReceipt'
  <2>1. ASSUME NEW m \in Receipt, NEW n \in Period
        PROVE  receipts'[m].period = n <=> periods'[n].closedBy = m
    <3>1. receipts[m].period = n <=> periods[n].closedBy = m
      BY <1>1 DEF OneClosingReceipt
    <3>2. n # None /\ m # None
      BY NoneAssumption
    <3>3. CASE m = q /\ n = p
      BY <1>4, <3>3
    <3>4. CASE m = q /\ n # p
      BY <1>2, <3>1, <3>2, <3>4
    <3>5. CASE m # q /\ n = p
      BY <1>2, <1>4, <3>1, <3>2, <3>5
    <3>6. CASE m # q /\ n # p
      BY <1>2, <3>1, <3>6
    <3> QED
      BY <3>3, <3>4, <3>5, <3>6
  <2>2. \A m \in Receipt : receipts'[m].period # None =>
          receipts'[m].stored /\ ReceivedAt[m] = receipts'[m].period.to
    BY <1>1, <1>2 DEF OneClosingReceipt
  <2>3. \A n \in Period : periods'[n].closedBy # None =>
          periods'[n].status \in {"CLOSED", "FINALIZED"}
    <3> SUFFICES ASSUME NEW n \in Period, periods'[n].closedBy # None
                 PROVE  periods'[n].status \in {"CLOSED", "FINALIZED"}
      OBVIOUS
    <3>1. CASE n = p
      BY <1>4, <3>1
    <3>2. CASE n # p
      BY <1>1, <1>2, <3>2 DEF OneClosingReceipt
    <3> QED
      BY <3>1, <3>2
  <2> QED
    BY <2>1, <2>2, <2>3 DEF OneClosingReceipt
<1>7. FinalizedIsReconciled'
  <2> SUFFICES ASSUME NEW n \in Period, periods'[n].status = "FINALIZED"
               PROVE  /\ periods'[n].evidence # None /\ periods'[n].statement # None
                      /\ runs'[periods'[n].statement].period = n
    BY DEF FinalizedIsReconciled, Finalized
  <2>1. n # p
    BY <1>4
  <2>2. periods'[n] = periods[n] /\ UNCHANGED runs
    BY <1>2, <2>1
  <2> QED
    BY <1>1, <2>2 DEF FinalizedIsReconciled, Finalized
<1>8. HistoryContinues'
  <2> SUFFICES ASSUME NEW n \in Period, periods'[n].status = "FINALIZED"
               PROVE  \E x \in Following(n) : periods'[x].status # "NONE"
    BY DEF HistoryContinues, Finalized, Exists, Following
  <2>1. n # p
    BY <1>4
  <2>2. periods[n].status = "FINALIZED"
    BY <1>2, <2>1
  <2>3. PICK x \in Following(n) : periods[x].status # "NONE"
    BY <1>1, <2>2 DEF HistoryContinues, Finalized, Exists
  <2>4. x \in Period
    BY <2>3, CycleAssumption DEF Following
  <2>5. x = p \/ periods'[x] = periods[x]
    BY <1>2, <2>4
  <2> QED
    BY <1>4, <2>3, <2>5
<1> QED
  BY <1>5, <1>6, <1>7, <1>8 DEF PeriodInv

LEMMA RecordWaitingStep ==
  ASSUME PeriodInv, NEW q \in Receipt, RecordWaiting(q)
  PROVE  PeriodInv'
<1>1. TypeOK /\ WorkInv /\ OneClosingReceipt /\ FinalizedIsReconciled /\ HistoryContinues
  BY DEF PeriodInv
<1>2. receipts[q] \in [stored : BOOLEAN, period : Period \cup {None}]
      /\ receipts' = [receipts EXCEPT ![q] = [receipts[q] EXCEPT !.stored = TRUE]]
  BY <1>1 DEF TypeOK, RecordWaiting
<1>3. receipts' \in [Receipt -> [stored : BOOLEAN, period : Period \cup {None}]]
  BY <1>1, <1>2 DEF TypeOK
<1>4. /\ \A m \in Receipt : receipts'[m].period = receipts[m].period
      /\ receipts'[q].stored /\ \A m \in Receipt \ {q} : receipts'[m] = receipts[m]
  BY <1>1, <1>2 DEF TypeOK
<1>5. UNCHANGED <<periods, runs, work>>
  BY DEF RecordWaiting
<1>6. TypeOK' /\ WorkInv'
  BY <1>1, <1>3, <1>5 DEF TypeOK, WorkInv
<1>7. OneClosingReceipt'
  <2>1. ASSUME NEW m \in Receipt, NEW n \in Period
        PROVE  receipts'[m].period = n <=> periods'[n].closedBy = m
    <3>1. receipts[m].period = n <=> periods[n].closedBy = m
      BY <1>1 DEF OneClosingReceipt
    <3>2. receipts'[m].period = receipts[m].period /\ periods'[n] = periods[n]
      BY <1>4, <1>5
    <3> QED
      BY <3>1, <3>2
  <2>2. \A m \in Receipt : receipts'[m].period # None =>
          receipts'[m].stored /\ ReceivedAt[m] = receipts'[m].period.to
    <3> SUFFICES ASSUME NEW m \in Receipt, receipts'[m].period # None
                 PROVE  receipts'[m].stored /\ ReceivedAt[m] = receipts'[m].period.to
      OBVIOUS
    <3>1. receipts'[m].period = receipts[m].period
      BY <1>4
    <3>2. receipts[m].stored /\ ReceivedAt[m] = receipts[m].period.to
      BY <1>1, <3>1 DEF OneClosingReceipt
    <3>3. receipts'[m].stored
      BY <1>4, <3>2
    <3> QED
      BY <3>1, <3>2, <3>3
  <2>3. \A n \in Period : periods'[n].closedBy # None =>
          periods'[n].status \in {"CLOSED", "FINALIZED"}
    BY <1>1, <1>5 DEF OneClosingReceipt
  <2> QED
    BY <2>1, <2>2, <2>3 DEF OneClosingReceipt
<1>8. FinalizedIsReconciled' /\ HistoryContinues'
  BY <1>1, <1>5 DEF FinalizedIsReconciled, HistoryContinues, Finalized, Exists
<1> QED
  BY <1>6, <1>7, <1>8 DEF PeriodInv

LEMMA ReconcileStep ==
  ASSUME PeriodInv, NEW t \in Reference, NEW p \in Period, NEW v \in BOOLEAN, Reconcile(t, p, v)
  PROVE  PeriodInv'
<1>1. TypeOK /\ WorkInv /\ OneClosingReceipt /\ FinalizedIsReconciled /\ HistoryContinues
  BY DEF PeriodInv
<1>2. runs' = [runs EXCEPT ![t] = [period |-> p, variances |-> v]] /\ runs[t].period = None
      /\ UNCHANGED <<periods, receipts, work>>
  BY DEF Reconcile
<1>3. \A x \in Reference : runs[x].period # None => runs'[x] = runs[x]
  BY <1>1, <1>2 DEF TypeOK
<1>4. TypeOK'
  BY <1>1, <1>2 DEF TypeOK
<1>5. WorkInv'
  <2> SUFFICES ASSUME NEW f \in Finalizer, work[f].pc = "write"
               PROVE  /\ work[f].evidence # None /\ work[f].statement # None
                      /\ runs'[work[f].statement].period # None
    BY <1>2 DEF WorkInv
  <2>1. work[f].evidence # None /\ work[f].statement # None /\ runs[work[f].statement].period # None
    BY <1>1 DEF WorkInv
  <2>2. work[f].statement \in Reference
    BY <1>1, <2>1 DEF TypeOK
  <2> QED
    BY <1>3, <2>1, <2>2
<1>6. OneClosingReceipt' /\ HistoryContinues'
  BY <1>1, <1>2 DEF OneClosingReceipt, HistoryContinues, Finalized, Exists
<1>7. FinalizedIsReconciled'
  <2> SUFFICES ASSUME NEW n \in Period, periods[n].status = "FINALIZED"
               PROVE  /\ periods[n].evidence # None /\ periods[n].statement # None
                      /\ runs'[periods[n].statement].period = n
    BY <1>2 DEF FinalizedIsReconciled, Finalized
  <2>1. periods[n].evidence # None /\ periods[n].statement # None
        /\ runs[periods[n].statement].period = n
    BY <1>1 DEF FinalizedIsReconciled, Finalized
  <2>2. periods[n].statement \in Reference /\ n # None
    BY <1>1, <2>1, NoneAssumption DEF TypeOK
  <2> QED
    BY <1>3, <2>1, <2>2
<1> QED
  BY <1>4, <1>5, <1>6, <1>7 DEF PeriodInv

LEMMA FinalizeCheckStep ==
  ASSUME PeriodInv, NEW f \in Finalizer, NEW t \in Reference, NEW e \in Evidence, NEW a \in BOOLEAN,
         FinalizeCheck(f, t, e, a)
  PROVE  PeriodInv'
<1>1. TypeOK /\ WorkInv /\ OneClosingReceipt /\ FinalizedIsReconciled /\ HistoryContinues
  BY DEF PeriodInv
<1>2. /\ work' = [work EXCEPT ![f] = [pc |-> "write", statement |-> t, evidence |-> e]]
      /\ runs[t].period # None /\ UNCHANGED <<periods, receipts, runs>>
  BY DEF FinalizeCheck
<1>3. TypeOK'
  BY <1>1, <1>2 DEF TypeOK
<1>4. WorkInv'
  <2> SUFFICES ASSUME NEW g \in Finalizer, work'[g].pc = "write"
               PROVE  /\ work'[g].evidence # None /\ work'[g].statement # None
                      /\ runs[work'[g].statement].period # None
    BY <1>2 DEF WorkInv
  <2>1. CASE g = f
    <3>1. work'[g].statement = t /\ work'[g].evidence = e
      BY <1>1, <1>2, <2>1 DEF TypeOK
    <3> QED
      BY <1>2, <3>1, NoneAssumption
  <2>2. CASE g # f
    <3>1. work'[g] = work[g]
      BY <1>1, <1>2, <2>2 DEF TypeOK
    <3> QED
      BY <1>1, <3>1 DEF WorkInv
  <2> QED
    BY <2>1, <2>2
<1>5. OneClosingReceipt' /\ FinalizedIsReconciled' /\ HistoryContinues'
  BY <1>1, <1>2 DEF OneClosingReceipt, FinalizedIsReconciled, HistoryContinues, Finalized, Exists
<1> QED
  BY <1>3, <1>4, <1>5 DEF PeriodInv

\* What a finalization forgets leaves the rest of the work as it was.
LEMMA ForgetWork ==
  ASSUME TypeOK, WorkInv, UNCHANGED runs, NEW F \in SUBSET Finalizer,
         work' = [g \in Finalizer |-> IF g \in F THEN NoWork ELSE work[g]]
  PROVE  /\ WorkInv'
         /\ work' \in [Finalizer -> [pc : {"idle", "write"}, statement : Reference \cup {None},
                                     evidence : Evidence \cup {None}]]
<1>1. work' \in [Finalizer -> [pc : {"idle", "write"}, statement : Reference \cup {None},
                              evidence : Evidence \cup {None}]]
  BY DEF TypeOK, NoWork
<1>2. \A g \in Finalizer : work'[g].pc = "write" => work'[g] = work[g]
  BY DEF NoWork
<1> QED
  BY <1>1, <1>2 DEF WorkInv

LEMMA FinalizeWriteStep ==
  ASSUME PeriodInv, NEW f \in Finalizer, FinalizeWrite(f)
  PROVE  PeriodInv'
<1> DEFINE p == runs[work[f].statement].period
<1>1. TypeOK /\ WorkInv /\ OneClosingReceipt /\ FinalizedIsReconciled /\ HistoryContinues
  BY DEF PeriodInv
<1>2. UNCHANGED <<receipts, runs>> /\ work' = [work EXCEPT ![f] = NoWork] /\ work[f].pc = "write"
  BY DEF FinalizeWrite
<1>3. WorkInv' /\ work' \in [Finalizer -> [pc : {"idle", "write"}, statement : Reference \cup {None},
                                           evidence : Evidence \cup {None}]]
  <2>1. work' = [g \in Finalizer |-> IF g \in {f} THEN NoWork ELSE work[g]]
    BY <1>1, <1>2 DEF TypeOK
  <2> QED
    BY <1>1, <1>2, <2>1, ForgetWork
<1>4. CASE periods' = periods
  BY <1>1, <1>2, <1>3, <1>4 DEF PeriodInv, TypeOK, OneClosingReceipt, FinalizedIsReconciled,
     HistoryContinues, Finalized, Exists
<1>5. CASE periods' # periods
  <2>1. /\ periods' \in [Period -> PeriodRow]
        /\ p \in Period
        /\ work[f].statement \in Reference /\ work[f].evidence \in Evidence
        /\ periods'[p] = Final(periods[p], f)
        /\ \A n \in Period \ {p} : periods'[n] = periods[n] \/ Opens(n)
        /\ \E n \in Following(p) : Exists(n)'
    BY <1>1, <1>5, FinalizeRow
  <2>2. periods[p] \in PeriodRow
    BY <1>1, <2>1 DEF TypeOK, PeriodRow
  <2>3. /\ periods'[p].status = "FINALIZED" /\ periods'[p].statement = work[f].statement
        /\ periods'[p].evidence = work[f].evidence /\ periods'[p].closedBy = periods[p].closedBy
    BY <2>1, <2>2 DEF Final, PeriodRow
  <2>4. \A n \in Period \ {p} :
          \/ periods'[n] = periods[n]
          \/ /\ periods[n].status = "NONE" /\ periods'[n].status = "OPEN"
             /\ periods'[n].closedBy = None
    BY <2>1 DEF Opens, Exists, NoPeriod
  <2>5. \A n \in Period : periods'[n].closedBy = periods[n].closedBy
    BY <1>1, <2>3, <2>4 DEF OneClosingReceipt
  <2>6. \A n \in Period : Exists(n) => Exists(n)'
    BY <2>3, <2>4 DEF Exists
  <2>7. TypeOK'
    BY <1>1, <1>2, <1>3, <2>1 DEF TypeOK, PeriodRow
  <2>8. OneClosingReceipt'
    <3>1. \A q \in Receipt, n \in Period : receipts'[q].period = n <=> periods'[n].closedBy = q
      BY <1>1, <1>2, <2>5 DEF OneClosingReceipt
    <3>2. \A q \in Receipt : receipts'[q].period # None =>
            receipts'[q].stored /\ ReceivedAt[q] = receipts'[q].period.to
      BY <1>1, <1>2 DEF OneClosingReceipt
    <3>3. \A n \in Period : periods'[n].closedBy # None =>
            periods'[n].status \in {"CLOSED", "FINALIZED"}
      BY <1>1, <2>3, <2>4 DEF OneClosingReceipt
    <3> QED
      BY <3>1, <3>2, <3>3 DEF OneClosingReceipt
  <2>9. FinalizedIsReconciled'
    <3> SUFFICES ASSUME NEW n \in Period, periods'[n].status = "FINALIZED"
                 PROVE  /\ periods'[n].evidence # None /\ periods'[n].statement # None
                        /\ runs'[periods'[n].statement].period = n
      BY ZenonT(40) DEF FinalizedIsReconciled, Finalized
    <3> UNCHANGED runs
      BY <1>2
    <3>1. CASE n = p
      BY <2>1, <2>3, <3>1, NoneAssumption
    <3>2. CASE n # p
      <4>1. periods'[n] = periods[n]
        BY <2>4, <3>2
      <4> QED
        BY <1>1, <4>1 DEF FinalizedIsReconciled, Finalized
    <3> QED
      BY <3>1, <3>2
  <2>10. HistoryContinues'
    <3> SUFFICES ASSUME NEW n \in Period, periods'[n].status = "FINALIZED"
                 PROVE  \E x \in Following(n) : Exists(x)'
      BY DEF HistoryContinues, Finalized, Exists, Following
    <3>1. CASE n = p
      BY <2>1, <3>1
    <3>2. CASE n # p
      <4>1. periods'[n] = periods[n]
        BY <2>4, <3>2
      <4>2. PICK x \in Following(n) : Exists(x)
        BY <1>1, <4>1 DEF HistoryContinues, Finalized
      <4>3. x \in Period
        BY <4>2, CycleAssumption DEF Following
      <4> QED
        BY <2>6, <4>2, <4>3
    <3> QED
      BY <3>1, <3>2
  <2> QED
    BY <1>3, <2>7, <2>8, <2>9, <2>10 DEF PeriodInv
<1> QED
  BY <1>4, <1>5

LEMMA RestartStep ==
  ASSUME PeriodInv, Restart
  PROVE  PeriodInv'
<1>1. TypeOK /\ WorkInv
  BY DEF PeriodInv
<1>2. UNCHANGED <<periods, receipts, runs>>
      /\ work' = [g \in Finalizer |-> IF g \in Finalizer THEN NoWork ELSE work[g]]
  BY DEF Restart
<1>3. WorkInv' /\ TypeOK'
  BY <1>1, <1>2, ForgetWork DEF TypeOK
<1> QED
  BY <1>2, <1>3 DEF PeriodInv, OneClosingReceipt, FinalizedIsReconciled, HistoryContinues,
     Finalized, Exists

LEMMA NextPeriodInv == PeriodInv /\ [Next]_vars => PeriodInv'
<1> SUFFICES ASSUME PeriodInv, [Next]_vars PROVE PeriodInv'
  OBVIOUS
<1>1. CASE \E p \in Period : EnsurePeriod(p)
  BY <1>1, EnsurePeriodStep
<1>2. CASE \E q \in Receipt, p \in Period : RecordNamed(q, p)
  BY <1>2, CloseStep
<1>3. CASE \E q \in Receipt : RecordUnnamed(q)
  BY <1>3, CloseStep DEF RecordUnnamed
<1>4. CASE \E q \in Receipt : RecordWaiting(q)
  BY <1>4, RecordWaitingStep
<1>5. CASE \E t \in Reference, p \in Period, v \in BOOLEAN : Reconcile(t, p, v)
  BY <1>5, ReconcileStep
<1>6. CASE \E f \in Finalizer, t \in Reference, e \in Evidence, a \in BOOLEAN :
             FinalizeCheck(f, t, e, a)
  BY <1>6, FinalizeCheckStep
<1>7. CASE \E f \in Finalizer : FinalizeWrite(f)
  BY <1>7, FinalizeWriteStep
<1>8. CASE Restart
  BY <1>8, RestartStep
<1>9. CASE UNCHANGED vars
  BY <1>9 DEF vars, PeriodInv, TypeOK, WorkInv, OneClosingReceipt, FinalizedIsReconciled,
     HistoryContinues, Finalized, Exists
<1> QED
  BY <1>1, <1>2, <1>3, <1>4, <1>5, <1>6, <1>7, <1>8, <1>9 DEF Next

-----------------------------------------------------------------------------
(* PeriodInv holds in every reachable state of the store.                  *)
THEOREM PeriodInvariant == Spec => []PeriodInv
<1> QED
  BY InitPeriodInv, NextPeriodInv, PTL DEF Spec

(* The columns of the three tables hold what the schema says they hold.    *)
THEOREM PeriodTypes == Spec => []TypeOK
<1>1. PeriodInv => TypeOK
  BY DEF PeriodInv
<1> QED
  BY <1>1, PeriodInvariant, PTL

(* record_statement_receipt never closes a period with two mails, nor two  *)
(* periods with one.                                                       *)
THEOREM ReceiptsCloseOnce == Spec => []OneClosingReceipt
<1>1. PeriodInv => OneClosingReceipt
  BY DEF PeriodInv
<1> QED
  BY <1>1, PeriodInvariant, PTL

(* finalize_period finalizes on a reconciliation of the same bounds,       *)
(* however long before its transaction it read the run.                    *)
THEOREM FinalizedRestsOnRun == Spec => []FinalizedIsReconciled
<1>1. PeriodInv => FinalizedIsReconciled
  BY DEF PeriodInv
<1> QED
  BY <1>1, PeriodInvariant, PTL

(* finalize_period leaves the next period of the cycle behind every        *)
(* finalized one.                                                          *)
THEOREM CycleContinues == Spec => []HistoryContinues
<1>1. PeriodInv => HistoryContinues
  BY DEF PeriodInv
<1> QED
  BY <1>1, PeriodInvariant, PTL

-----------------------------------------------------------------------------
(* How the rows of card_periods change in one step.                        *)

\* Every step either leaves a row alone or takes it forward.
LEMMA RowForward ==
  ASSUME PeriodInv, [Next]_vars, NEW n \in Period
  PROVE  \/ periods'[n] = periods[n]
         \/ periods[n].status = "NONE" /\ periods'[n].status = "OPEN" /\ periods[n].closedBy = None
         \/ /\ periods[n].status \in {"NONE", "OPEN"} /\ periods'[n].status = "CLOSED"
            /\ periods[n].closedBy = None
         \/ /\ periods'[n].status = "FINALIZED" /\ periods'[n].closedBy = periods[n].closedBy
            /\ \E f \in Finalizer : FinalizeWrite(f) /\ n = runs[work[f].statement].period
<1>1. TypeOK /\ WorkInv /\ OneClosingReceipt
  BY DEF PeriodInv
<1>2. periods[n] \in PeriodRow
  BY <1>1 DEF TypeOK, PeriodRow
<1>3. ASSUME NEW p \in Period, EnsurePeriod(p) PROVE
        \/ periods'[n] = periods[n]
        \/ periods[n].status = "NONE" /\ periods'[n].status = "OPEN" /\ periods[n].closedBy = None
  <2>1. periods'[p] = [periods[p] EXCEPT !.status = "OPEN"]
        /\ \A m \in Period \ {p} : periods'[m] = periods[m]
    BY <1>1, <1>3, EnsureRow
  <2>2. periods[p].status = "NONE"
    BY <1>3 DEF EnsurePeriod, Exists
  <2>3. periods[p].closedBy = None
    BY <1>1, <2>2 DEF OneClosingReceipt
  <2> QED
    BY <1>2, <2>1, <2>2, <2>3 DEF PeriodRow
<1>4. ASSUME NEW q \in Receipt, NEW p \in Period,
             RecordNamed(q, p) \/ (receipts[q].period = None /\ Matching(q) = {p} /\ Close(q, p))
      PROVE  \/ periods'[n] = periods[n]
             \/ /\ periods[n].status \in {"NONE", "OPEN"} /\ periods'[n].status = "CLOSED"
                /\ periods[n].closedBy = None
  <2>1. /\ periods'[p] = [periods[p] EXCEPT !.status = "CLOSED", !.closedBy = q]
        /\ \A m \in Period \ {p} : periods'[m] = periods[m]
        /\ periods[p].closedBy = None /\ periods[p].status \in {"NONE", "OPEN"}
    BY <1>1, <1>4, CloseRow
  <2> QED
    BY <1>2, <2>1 DEF PeriodRow
<1>5. ASSUME NEW f \in Finalizer, FinalizeWrite(f) PROVE
        \/ periods'[n] = periods[n]
        \/ periods[n].status = "NONE" /\ periods'[n].status = "OPEN" /\ periods[n].closedBy = None
        \/ /\ periods'[n].status = "FINALIZED" /\ periods'[n].closedBy = periods[n].closedBy
           /\ n = runs[work[f].statement].period
  <2>1. CASE periods' = periods
    BY <2>1
  <2>2. CASE periods' # periods
    <3>1. /\ periods'[runs[work[f].statement].period]
               = Final(periods[runs[work[f].statement].period], f)
          /\ \A m \in Period \ {runs[work[f].statement].period} :
               periods'[m] = periods[m] \/ Opens(m)
      BY <1>1, <1>5, <2>2, FinalizeRow
    <3>2. CASE n = runs[work[f].statement].period
      BY <1>2, <3>1, <3>2 DEF Final, PeriodRow
    <3>3. CASE n # runs[work[f].statement].period
      <4>1. CASE Opens(n)
        <5>1. periods[n].status = "NONE" /\ periods'[n].status = "OPEN"
          BY <4>1 DEF Opens, Exists, NoPeriod
        <5> QED
          BY <1>1, <5>1 DEF OneClosingReceipt
      <4> QED
        BY <3>1, <3>3, <4>1
    <3> QED
      BY <3>2, <3>3
  <2> QED
    BY <2>1, <2>2
<1>6. CASE UNCHANGED periods
  BY <1>6
<1>7. \/ UNCHANGED periods
      \/ \E p \in Period : EnsurePeriod(p)
      \/ \E q \in Receipt, p \in Period : RecordNamed(q, p)
      \/ \E q \in Receipt, p \in Period :
           receipts[q].period = None /\ Matching(q) = {p} /\ Close(q, p)
      \/ \E f \in Finalizer : FinalizeWrite(f)
  BY DEF Next, vars, RecordUnnamed, RecordWaiting, Reconcile, FinalizeCheck, Restart
<1> QED
  BY <1>3, <1>4, <1>5, <1>6, <1>7

(* A period is opened, closed and finalized in this order, and what closed *)
(* it stays; neither a late mail nor a slow finalization takes it back.    *)
THEOREM PeriodsAdvance == Spec => PeriodsMoveForward
<1>1. PeriodInv /\ [Next]_vars =>
        [\A p \in Period :
           /\ Progress(periods'[p].status) >= Progress(periods[p].status)
           /\ periods[p].closedBy # None => periods'[p].closedBy = periods[p].closedBy]_vars
  <2> SUFFICES ASSUME PeriodInv, [Next]_vars, NEW p \in Period
               PROVE  /\ Progress(periods'[p].status) >= Progress(periods[p].status)
                      /\ periods[p].closedBy # None => periods'[p].closedBy = periods[p].closedBy
    OBVIOUS
  <2>1. periods[p].status \in Statuses
    BY DEF PeriodInv, TypeOK
  <2>2. \/ periods'[p] = periods[p]
        \/ periods[p].status = "NONE" /\ periods'[p].status = "OPEN" /\ periods[p].closedBy = None
        \/ /\ periods[p].status \in {"NONE", "OPEN"} /\ periods'[p].status = "CLOSED"
           /\ periods[p].closedBy = None
        \/ periods'[p].status = "FINALIZED" /\ periods'[p].closedBy = periods[p].closedBy
    BY RowForward
  <2>3. Progress("NONE") = 0 /\ Progress("OPEN") = 1 /\ Progress("CLOSED") = 2
        /\ Progress("FINALIZED") = 3
    BY DEF Progress
  <2> QED
    BY <2>1, <2>2, <2>3 DEF Statuses
<1> QED
  BY <1>1, PeriodInvariant, PTL DEF Spec, PeriodsMoveForward

-----------------------------------------------------------------------------
(* Finalizations that race, any number of them.                            *)

\* A step lets a finalization past the check, ends it, or leaves what it read.
LEMMA WorkKept ==
  ASSUME PeriodInv, [Next]_vars, NEW f \in Finalizer, work'[f].pc = "write"
  PROVE  \/ \E t \in Reference, e \in Evidence, a \in BOOLEAN : FinalizeCheck(f, t, e, a)
         \/ /\ work'[f] = work[f]
            /\ runs'[work[f].statement] = runs[work[f].statement]
<1>1. TypeOK /\ WorkInv
  BY DEF PeriodInv
<1>2. CASE \E g \in Finalizer, t \in Reference, e \in Evidence, a \in BOOLEAN :
             FinalizeCheck(g, t, e, a)
  <2>1. PICK g \in Finalizer, t \in Reference, e \in Evidence, a \in BOOLEAN :
          FinalizeCheck(g, t, e, a)
    BY <1>2
  <2>2. CASE g # f
    BY <1>1, <2>1, <2>2 DEF TypeOK, FinalizeCheck
  <2> QED
    BY <2>1, <2>2
<1>3. CASE \E g \in Finalizer : FinalizeWrite(g)
  <2>1. PICK g \in Finalizer : FinalizeWrite(g)
    BY <1>3
  <2>2. work' = [work EXCEPT ![g] = NoWork] /\ UNCHANGED runs
    BY <2>1 DEF FinalizeWrite
  <2>3. g # f
    BY <1>1, <2>2 DEF TypeOK, NoWork
  <2> QED
    BY <1>1, <2>2, <2>3 DEF TypeOK
<1>4. CASE Restart
  BY <1>4 DEF Restart, NoWork
<1>5. CASE \E t \in Reference, q \in Period, v \in BOOLEAN : Reconcile(t, q, v)
  <2>1. PICK t \in Reference, q \in Period, v \in BOOLEAN : Reconcile(t, q, v)
    BY <1>5
  <2>2. UNCHANGED work /\ runs[work[f].statement].period # None /\ work[f].statement \in Reference
    BY <1>1, <2>1 DEF Reconcile, WorkInv, TypeOK
  <2> QED
    BY <1>1, <2>1, <2>2 DEF Reconcile, TypeOK
<1>6. CASE UNCHANGED <<runs, work>>
  BY <1>6
<1>7. /\ (\E q \in Receipt, p \in Period : RecordNamed(q, p)) => UNCHANGED <<runs, work>>
      /\ (\E q \in Receipt : RecordUnnamed(q) \/ RecordWaiting(q)) => UNCHANGED <<runs, work>>
      /\ (\E p \in Period : EnsurePeriod(p)) => UNCHANGED <<runs, work>>
      /\ UNCHANGED vars => UNCHANGED <<runs, work>>
  BY DEF RecordNamed, RecordUnnamed, RecordWaiting, Close, EnsurePeriod, vars
<1> QED
  BY <1>2, <1>3, <1>4, <1>5, <1>6, <1>7 DEF Next

\* No finalization joins those that race for a finalized period.
LEMMA NoNewRacer ==
  ASSUME PeriodInv, [Next]_vars, NEW p \in Period, Finalized(p)
  PROVE  Racing(p)' \subseteq Racing(p)
<1> SUFFICES ASSUME NEW f \in Finalizer, work'[f].pc = "write",
                    runs'[work'[f].statement].period = p
             PROVE  work[f].pc = "write" /\ runs[work[f].statement].period = p
  BY DEF Racing
<1>1. ASSUME NEW t \in Reference, NEW e \in Evidence, NEW a \in BOOLEAN, FinalizeCheck(f, t, e, a)
      PROVE  FALSE
  <2>1. work'[f].statement = t /\ UNCHANGED runs
    BY <1>1 DEF PeriodInv, TypeOK, FinalizeCheck
  <2> QED
    BY <1>1, <2>1 DEF FinalizeCheck
<1> QED
  BY <1>1, WorkKept

\* The row of a finalized period is replaced by a racer, which is then done.
LEMMA ReplacedByRacer ==
  ASSUME PeriodInv, [Next]_vars, NEW p \in Period, Finalized(p), periods'[p] # periods[p]
  PROVE  \E f \in Racing(p) \ Racing(p)' : periods'[p] = Final(periods[p], f)
<1>1. TypeOK /\ WorkInv
  BY DEF PeriodInv
<1>2. PICK f \in Finalizer : FinalizeWrite(f) /\ p = runs[work[f].statement].period
  BY RowForward DEF Finalized
<1>3. periods'[p] = Final(periods[p], f)
  BY <1>1, <1>2, FinalizeRow
<1>4. work[f].pc = "write" /\ work'[f].pc = "idle"
  BY <1>1, <1>2 DEF FinalizeWrite, TypeOK, NoWork
<1> QED
  BY <1>2, <1>3, <1>4 DEF Racing

(* However many finalizations run at once, a finalized period is replaced  *)
(* only by those that had passed the check of finalize_period before it    *)
(* was finalized, by each at most once; with none of them left it is final.*)
THEOREM ReplacedByRacersOnly == Spec => OnlyRacersReplace
<1>1. PeriodInv /\ [Next]_vars =>
        [\A p \in Period : Finalized(p) =>
           /\ Racing(p)' \subseteq Racing(p)
           /\ \/ periods'[p] = periods[p]
              \/ \E f \in Racing(p) \ Racing(p)' : periods'[p] = Final(periods[p], f)]_vars
  BY NoNewRacer, ReplacedByRacer
<1> QED
  BY <1>1, PeriodInvariant, PTL DEF Spec, OnlyRacersReplace
==============================================================================
