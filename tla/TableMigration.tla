----------------------------- MODULE TableMigration -----------------------------
(***************************************************************************)
(* The migration of the old n8n data tables to the new ones                *)
(* (integrations/n8n/generate_data_table_migration.py).  Workflows go on   *)
(* upserting rows of the old tables between two runs; two of them that     *)
(* race can leave two rows of a key.  A run either maps all tables or      *)
(* throws and leaves the new ones as they were: the conditions under which *)
(* it does not throw are the guard of RunMigration.                        *)
(*                                                                         *)
(* The second machine here is the commit of mail inventories under a       *)
(* fence, by owners that share the artifact store and can restart.         *)
(***************************************************************************)
EXTENDS Naturals, FiniteSets

CONSTANTS
  SourceRows,     \* the rows that can be written, for each old table; no two receipts of a
                  \* source are updated at the same instant
  Null,
  LegacyIdentity, \* identity that the alias bundle has for a legacy document id
  MaxRowWrites,   \* bound: writes of old rows
  Owner, Inventory, CursorVersion,  \* who commits inventories, of [run, bytes], for which cursor
  MaxFence        \* bound: fencing tokens

\* Instants and versions are numbers: a version below 0 stops a run.
ASSUME MigrationAssumption ==
  /\ Null \notin Nat /\ Null \notin Owner /\ MaxRowWrites \in Nat /\ MaxFence \in Nat
  /\ \A rows \in SourceRows :
       /\ rows = [table \in {"outbox", "verification", "reconciliation", "cursor", "receipt", "archive",
                            "operation"} |-> rows[table]]
       /\ \A table \in DOMAIN rows : IsFiniteSet(rows[table])
       /\ \A o \in rows.outbox : o.at \in Nat
       /\ \A v \in rows.verification \cup rows.reconciliation : v.version \in Nat
       /\ \A r \in rows.receipt : r.at \in Nat

VARIABLES writable,   \* those of SourceRows that workflows write
          source, target, rowWrites,
          fence,      \* the active fence: its owner and token; token counts on
          holding,    \* the token each owner was given
          inventoryReceipts

migrationVars == <<writable, source, target, rowWrites>>
inventoryVars == <<fence, holding, inventoryReceipts>>

NoTarget == [batches |-> {}, ingestion |-> {}, documents |-> {}]
NoFence == [owner |-> Null, token |-> 0]

MigrationTypeOK ==
  /\ writable \in SourceRows
  /\ source = [table \in DOMAIN writable |-> source[table]]
  /\ \A table \in DOMAIN writable : source[table] \subseteq writable[table]
  /\ rowWrites \in 0 .. MaxRowWrites
  /\ fence.owner \in Owner \cup {Null} /\ fence.token \in 0 .. MaxFence
  /\ holding \in [Owner -> 0 .. MaxFence]
  /\ \A i \in inventoryReceipts : i.token \in 1 .. MaxFence

MigrationInit ==
  /\ writable \in SourceRows
  /\ source = [table \in DOMAIN writable |-> {}] /\ target = NoTarget /\ rowWrites = 0
  /\ fence = NoFence /\ holding = [o \in Owner |-> 0]
  /\ inventoryReceipts = {}

-----------------------------------------------------------------------------
\* merge_non_null: values that are not null must agree.
Agree(values) == Cardinality(values \ {Null}) <= 1
Merge(values) == IF values \subseteq {Null} THEN Null ELSE CHOOSE v \in values : v # Null

-----------------------------------------------------------------------------
(* Actual batches: [imported, id, state, at, file, period], verifications  *)
(* [outbox, version, sha, file, readable], reconciliations [period,        *)
(* version, sha].  A period stands for the source and its period key.      *)

Precedence(row) ==
  CASE row.state = "PREPARED" -> 1 [] row.state = "ACTUAL_OBSERVED" -> 2
    [] row.state = "VERIFIED" -> 3 [] row.state = "COMMITTED" -> 4 [] OTHER -> 0

\* A variant of Outranks: the newest row, whatever its state.
NewerRow(a, b) == a.at > b.at
Outranks(a, b) ==
  Precedence(a) > Precedence(b) \/ (Precedence(a) = Precedence(b) /\ a.at > b.at)

CommittedOutboxes(rows) ==
  {a \in rows : \A b \in rows : a # b /\ a.imported = b.imported => Outranks(a, b)}
OutboxesAreClear(rows) ==
  /\ {a.imported : a \in CommittedOutboxes(rows)} = {a.imported : a \in rows}
  /\ \A a, b \in CommittedOutboxes(rows) : a.id = b.id => a = b

\* Only verifications of a selected outbox row are looked at, of those the latest.
Latest(verifications, outbox) ==
  {v \in verifications : v.outbox = outbox.id
     /\ \A w \in verifications : w.outbox = outbox.id => w.version <= v.version}
VerificationsAreClear(verifications, outboxes) ==
  \A o \in outboxes :
    /\ Cardinality(Latest(verifications, o)) <= 1
    /\ \A v \in Latest(verifications, o) : v.readable /\ Agree({o.file, v.file})

Matches(reconciliation, outboxes, verifications) ==
  {o \in outboxes : o.period = reconciliation.period
     /\ \E v \in Latest(verifications, o) : v.sha = reconciliation.sha}
Winners(reconciled) ==
  {r \in reconciled : \A s \in reconciled : s.period = r.period => s.version <= r.version}
ReconciliationsAreClear(reconciled, outboxes, verifications) ==
  /\ \A r \in reconciled : Cardinality(Matches(r, outboxes, verifications)) = 1
  /\ \A r, s \in Winners(reconciled) : r.period = s.period => r = s

\* One batch for each selected outbox row, with the reconciliation that it won.
Batches(old) ==
  LET outboxes == CommittedOutboxes(old.outbox)
  IN {[imported |-> o.imported, batch |-> o.id, state |-> o.state,
       verification |-> Merge({v.version : v \in Latest(old.verification, o)} \cup {Null}),
       reconciliation |->
         Merge({r.version : r \in {s \in Winners(old.reconciliation) :
                                     o \in Matches(s, outboxes, old.verification)}} \cup {Null})]
      : o \in outboxes}

BatchesAreClear(old) ==
  LET outboxes == CommittedOutboxes(old.outbox)
  IN /\ OutboxesAreClear(old.outbox)
     /\ VerificationsAreClear(old.verification, outboxes)
     /\ ReconciliationsAreClear(old.reconciliation, outboxes, old.verification)

-----------------------------------------------------------------------------
(* Ingestion: cursors [source, run, counts] and receipts [source, run,     *)
(* counts, at, verified] of scans.                                         *)

Verified(receipts, code) == {r \in receipts : r.source = code /\ r.verified}

\* The receipt that was updated last.
LatestReceipt(receipts, code) ==
  {r \in Verified(receipts, code) : \A s \in Verified(receipts, code) : s.at <= r.at}

\* It is left out when the cursor names another run.
ReceiptOf(cursors, receipts, code) ==
  {r \in LatestReceipt(receipts, code) :
     \A c \in cursors : c.source = code => c.run \in {Null, r.run}}

IngestionIsClear(old) ==
  /\ \A c, d \in old.cursor : c.source = d.source => c = d
  /\ \A r, s \in old.receipt : r.source = s.source /\ r.run = s.run => r = s
  /\ \A c \in old.cursor : \A r \in ReceiptOf(old.cursor, old.receipt, c.source) :
       Agree({c.counts, r.counts})

Ingestion(old) ==
  {LET cursors == {c \in old.cursor : c.source = code}
       receipts == ReceiptOf(old.cursor, old.receipt, code)
   IN [source |-> code,
       run |-> Merge({c.run : c \in cursors} \cup {r.run : r \in receipts} \cup {Null}),
       heartbeat |-> Merge({r.at : r \in receipts} \cup {Null})]
   : code \in {c.source : c \in old.cursor} \cup {r.source : r \in {s \in old.receipt : s.verified}}}

-----------------------------------------------------------------------------
(* Documents: archives [sha, mail, code, at] and operations [sha, mail,    *)
(* profile, code, at, legacy].                                             *)

Identity(operation) ==
  IF operation.mail # Null THEN <<"MAIL_LINKED", operation.sha, operation.mail>>
  ELSE <<"PROCESSING_ONLY", operation.sha, operation.profile>>
ArchiveIdentity(archive) == <<"MAIL_LINKED", archive.sha, archive.mail>>

\* A legacy document id must be an alias of the very identity.
Resolved(operation) ==
  /\ operation.legacy \in DOMAIN LegacyIdentity
  /\ LegacyIdentity[operation.legacy] = Identity(operation)

Archived(old, id) == {a \in old.archive : ArchiveIdentity(a) = id}
Operated(old, id) == {o \in old.operation : Identity(o) = id}
DocumentIds(old) ==
  {ArchiveIdentity(a) : a \in old.archive} \cup {Identity(o) : o \in old.operation}

DocumentsAreClear(old) ==
  /\ \A a, b \in old.archive :
       a # b => <<a.code, a.mail, a.sha>> # <<b.code, b.mail, b.sha>>
  /\ \A a \in old.archive : Null \notin {a.code, a.mail, a.sha}
  /\ \A o, p \in old.operation : o # p => <<o.sha, o.profile>> # <<p.sha, p.profile>>
  /\ \A o \in old.operation : Null \notin {o.sha, o.profile}
  /\ \A o \in old.operation :
       o.legacy # Null => Resolved(o)
  /\ \A id \in DocumentIds(old) :
       LET rows == Archived(old, id) \cup Operated(old, id)
       IN /\ Agree({r.code : r \in rows}) /\ Agree({r.at : r \in rows})
          /\ Agree({o.profile : o \in Operated(old, id)})

Documents(old) ==
  {[id |-> id, archived |-> Archived(old, id) # {},
    profile |-> Merge({o.profile : o \in Operated(old, id)} \cup {Null}),
    code |-> Merge({r.code : r \in Archived(old, id) \cup Operated(old, id)} \cup {Null})]
   : id \in DocumentIds(old)}

-----------------------------------------------------------------------------
TableKey(table, row) ==
  CASE table = "outbox" -> row.imported [] table = "verification" -> <<row.outbox, row.version>>
    [] table = "reconciliation" -> <<row.period, row.version>> [] table = "cursor" -> row.source
    [] table = "receipt" -> <<row.source, row.run>>
    [] table = "archive" -> <<row.code, row.mail, row.sha>> [] OTHER -> <<row.sha, row.profile>>

UpsertRow(table, row) ==
  /\ rowWrites < MaxRowWrites
  /\ \/ source' = [source EXCEPT ![table] =
                     {r \in @ : TableKey(table, r) # TableKey(table, row)} \cup {row}]
     \/ source' = [source EXCEPT ![table] = @ \cup {row}]
  /\ rowWrites' = rowWrites + 1
  /\ UNCHANGED <<writable, target, inventoryVars>>

RunMigration ==
  /\ BatchesAreClear(source) /\ IngestionIsClear(source) /\ DocumentsAreClear(source)
  /\ target' = [batches |-> Batches(source), ingestion |-> Ingestion(source),
                documents |-> Documents(source)]
  /\ UNCHANGED <<writable, source, rowWrites, inventoryVars>>

-----------------------------------------------------------------------------
\* Owners keep their fence while they commit.
AcquireFence(o) ==
  /\ fence.owner = Null /\ fence.token < MaxFence
  /\ fence' = [owner |-> o, token |-> fence.token + 1]
  /\ holding' = [holding EXCEPT ![o] = fence.token + 1]
  /\ UNCHANGED <<migrationVars, inventoryReceipts>>

Current(o) == fence.owner = o /\ fence.token = holding[o]

ReleaseFence(o) ==
  /\ Current(o)
  /\ fence' = [fence EXCEPT !.owner = Null]
  /\ UNCHANGED <<migrationVars, holding, inventoryReceipts>>

Receipt(o, inventory, version) ==
  [run |-> inventory.run, bytes |-> inventory.bytes, cursor |-> version, token |-> holding[o]]

\* With a receipt of that run a commit is a replay of it, or throws.  Nobody else gets the
\* fence between its check and the write: only its owner releases it.
CommitInventory(o, inventory, version) ==
  /\ Current(o)
  /\ \A i \in inventoryReceipts : i.run # inventory.run
  /\ inventoryReceipts' = inventoryReceipts \cup {Receipt(o, inventory, version)}
  /\ UNCHANGED <<migrationVars, fence, holding>>

MigrationNext ==
  \/ \E table \in DOMAIN writable : \E row \in writable[table] : UpsertRow(table, row)
  \/ RunMigration

InventoryNext ==
  \/ \E o \in Owner : AcquireFence(o) \/ ReleaseFence(o)
  \/ \E o \in Owner, i \in Inventory, v \in CursorVersion : CommitInventory(o, i, v)

MigrationSpec == MigrationInit /\ [][MigrationNext \/ InventoryNext]_<<migrationVars, inventoryVars>>

-----------------------------------------------------------------------------
(* What the tables must say when a run did not throw.                      *)

\* A second batch of a period keeps its row and loses its reconciliation.
PeriodShared(old, o) ==
  \E p \in CommittedOutboxes(old.outbox) : p # o /\ p.period = o.period

\* Each imported id has one batch, the one that got furthest; nothing that was committed
\* is replaced by what was not.  A reconciliation goes to the batch whose latest
\* verification it was made of, and none is lost for a later one of another batch unless
\* the two share a period.
BatchesAreFaithful(old) ==
  LET batches == Batches(old)
  IN /\ \A o \in old.outbox : Cardinality({b \in batches : b.imported = o.imported}) = 1
     /\ \A o \in old.outbox : o.state = "COMMITTED" =>
          \E b \in batches : b.imported = o.imported /\ b.state = "COMMITTED"
     /\ \A r \in old.reconciliation :
          \/ \E b \in batches :
               /\ b.reconciliation # Null /\ b.reconciliation >= r.version
               /\ \E v \in old.verification :
                    v.outbox = b.batch /\ v.version = b.verification /\ v.sha = r.sha
          \/ \E o \in CommittedOutboxes(old.outbox) : o.period = r.period /\ PeriodShared(old, o)

\* A source with a committed run keeps it, with no other run's receipt; it loses its own
\* when a later run was verified and not committed yet.
IngestionIsFaithful(old) ==
  \A c \in old.cursor : c.run # Null =>
    \E i \in Ingestion(old) :
      /\ i.source = c.source /\ i.run = c.run
      /\ i.heartbeat # Null => \E r \in Verified(old.receipt, c.source) : r.run = c.run /\ r.at = i.heartbeat
      /\ (\E r \in Verified(old.receipt, c.source) : r.run = c.run) /\ i.heartbeat = Null
           => \E s \in Verified(old.receipt, c.source) : s.run # c.run

\* Each archived file and each operation is in one document.
DocumentsAreFaithful(old) ==
  /\ \A a \in old.archive :
       Cardinality({d \in Documents(old) : d.id = ArchiveIdentity(a) /\ d.archived /\ d.code = a.code}) = 1
  /\ \A o \in old.operation :
       Cardinality({d \in Documents(old) : d.id = Identity(o) /\ d.profile = o.profile}) = 1
  /\ Cardinality({d.profile : d \in Documents(old)} \ {Null}) <= Cardinality(old.operation)

\* A run that does not throw loses and mixes nothing, with racing rows in the old tables,
\* except as said at the parts.
MigrationIsFaithful ==
  BatchesAreClear(source) /\ IngestionIsClear(source) /\ DocumentsAreClear(source) =>
    BatchesAreFaithful(source) /\ IngestionIsFaithful(source) /\ DocumentsAreFaithful(source)

\* The inventory of a run is what was committed first, whoever commits it later, and a
\* later fence never comes before an earlier one.
InventoryIsKept ==
  /\ inventoryReceipts \subseteq inventoryReceipts'
  /\ \A i \in inventoryReceipts' \ inventoryReceipts : \A j \in inventoryReceipts :
       j.run # i.run /\ j.token <= i.token
==============================================================================
