---------------------------- MODULE WriterLease ----------------------------
(***************************************************************************)
(* The fenced writer lease of one Actual budget file: the row of table     *)
(* finance_ops.writer_leases and the three functions that touch it         *)
(* (integrations/n8n/postgres/001-finance-writer-lease.sql), as they are   *)
(* reached through workflow 18.  Acquire and assert are one SQL statement, *)
(* hence one step.  Release is an update and, when that found nothing, a   *)
(* lookup; what the lookup finds for a token only its own holder can have  *)
(* made, so the two are one step as well.                                  *)
(*                                                                         *)
(* Abstractions.  A lease_id is a fresh uuid stored together with the      *)
(* fencing token, so the token stands for the pair.  expires_at is kept    *)
(* only as far as the guards compare it with clock_timestamp(): has the    *)
(* row's deadline passed or not.  Rows of different files are independent. *)
(***************************************************************************)
EXTENDS Naturals

CONSTANTS
  Runner,     \* workflow executions that use the lease
  MaxToken    \* largest fencing token: the range of the bigint column

ASSUME MaxTokenAssumption == MaxToken \in Nat

VARIABLES
  lease,      \* the row of the resource; token 0 is "no row yet"
  held        \* held[r]: the token r was granted and still remembers, or 0

leaseVars == <<lease, held>>

NoLease == [token |-> 0, released |-> TRUE, expired |-> TRUE]

LeaseTypeOK ==
  /\ lease \in [token : 0..MaxToken, released : BOOLEAN, expired : BOOLEAN]
  /\ held \in [Runner -> 0..MaxToken]

LeaseInit ==
  /\ lease = NoLease
  /\ held = [r \in Runner |-> 0]

-----------------------------------------------------------------------------
(* What the functions compute from the row.                                *)

\* Mutant: a row that only a release frees.
AcquirableReleased == lease.released

\* WHERE released_at IS NOT NULL OR expires_at <= clock_timestamp()
Acquirable == lease.released \/ lease.expired

\* assert_writer_lease for the token r remembers.
Valid(r) ==
  /\ held[r] # 0
  /\ held[r] = lease.token
  /\ ~lease.released
  /\ ~lease.expired

\* The second half of release_writer_lease: true for the exact current row
\* whether this call or an earlier one released it, false for an older token.
ReleaseSucceeds(r) == held[r] # 0 /\ held[r] = lease.token

-----------------------------------------------------------------------------
(* The operations.                                                         *)

\* Mutants: the fencing token is not advanced; the range of the column is not
\* respected.
AcquireSameToken(r) ==
  /\ Acquirable
  /\ lease' = [token |-> IF lease.token = 0 THEN 1 ELSE lease.token,
               released |-> FALSE, expired |-> FALSE]
  /\ held' = [held EXCEPT ![r] = lease'.token]

\* acquire_writer_lease returning a row: INSERT, or take over a released or
\* expired row with the next fencing token.
Acquire(r) ==
  /\ Acquirable
  /\ lease.token < MaxToken
  /\ lease' = [token |-> lease.token + 1, released |-> FALSE, expired |-> FALSE]
  /\ held' = [held EXCEPT ![r] = lease.token + 1]

\* Mutant: the update matches the resource alone.
ReleaseAny(r) ==
  /\ held[r] # 0
  /\ lease' = [lease EXCEPT !.released = TRUE]
  /\ UNCHANGED held

\* release_writer_lease: matches the exact token, leaves any newer row alone.
Release(r) ==
  /\ held[r] # 0
  /\ lease' = IF held[r] = lease.token THEN [lease EXCEPT !.released = TRUE] ELSE lease
  /\ UNCHANGED held

\* The execution that was granted a token ends or is killed; the row stays.
Forget(r) ==
  /\ held' = [held EXCEPT ![r] = 0]
  /\ UNCHANGED lease

\* clock_timestamp() reaches expires_at (on a released row nothing reads it).
Expire ==
  /\ ~lease.released
  /\ ~lease.expired
  /\ lease' = [lease EXCEPT !.expired = TRUE]
  /\ UNCHANGED held

LeaseNext ==
  \/ \E r \in Runner : Acquire(r) \/ Release(r) \/ Forget(r)
  \/ Expire

LeaseSpec == LeaseInit /\ [][LeaseNext]_leaseVars

-----------------------------------------------------------------------------
(* Properties.                                                             *)

\* At no time do two executions pass assert_writer_lease: the mutual exclusion
\* the lease exists for.
OneValidHolder == \A r, s \in Runner : Valid(r) /\ Valid(s) => r = s

\* A token that was lost by expiry, release or takeover never passes
\* assert_writer_lease again, however the row is reused afterwards.
LostStaysLost ==
  [][\A r \in Runner :
       held[r] # 0 /\ ~Valid(r) /\ held'[r] = held[r] => ~Valid(r)']_leaseVars

\* A lease that passes assert_writer_lease ends by its deadline, or by its own
\* holder: whatever other executions acquire, release late from a token they
\* lost, release twice or forget, it goes on passing.
OnlyHolderEndsLease ==
  [][\A r, s \in Runner :
       r # s /\ Valid(s) /\ (Acquire(r) \/ Release(r) \/ Forget(r)) => Valid(s)']_leaseVars

-----------------------------------------------------------------------------
(* The inductive invariant behind the properties: tokens are handed out    *)
(* once, so two executions never remember the same one.                    *)
TokensDistinct ==
  /\ \A r \in Runner : held[r] <= lease.token
  /\ \A r, s \in Runner : r # s /\ held[r] # 0 => held[r] # held[s]

LeaseInv == LeaseTypeOK /\ TokensDistinct
=============================================================================
