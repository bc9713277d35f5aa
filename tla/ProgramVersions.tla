---------------------------- MODULE ProgramVersions ----------------------------
(***************************************************************************)
(* The cashback programmes a deployment is configured with (finance_       *)
(* tracker/cashback.py): what load_program_configuration accepts on a day, *)
(* with the evidence its authoritative programmes cite, and which version  *)
(* of each card programs_from_config gives for a date.                     *)
(*                                                                         *)
(* A caller names the day the configuration is judged on, or NoDate for    *)
(* today: most name none.  Days are numbers from 1; NoDate is 0.  The      *)
(* JSON schema, and ranges of pace and alert settings, are left out.       *)
(***************************************************************************)
EXTENDS Integers, FiniteSets

CONSTANTS
  Profile,     \* [versions, policies, routes]: the configurations that get deployed
  Fixture,     \* evidence files
  MaxDay

NoDate == 0

ASSUME ProfileAssumption ==
  /\ MaxDay \in Nat \ {0}
  /\ \A profile \in Profile : IsFiniteSet(profile.versions) /\ \A v \in profile.versions :
       /\ v.from \in Nat /\ v.to \in Nat
       /\ \A c \in v.claims : c.from \in Nat /\ c.to \in Nat
       /\ \A r \in v.references : r.from \in Nat /\ r.to \in Nat

\* A version: [card, from, to, authoritative, claims, references, tiers, buckets, targetTier];
\* a claim: [path, from, to, ids]; a reference: [id, authoritative, from, to, fixture].

VARIABLES deployed, evidence, today
profileVars == <<deployed, evidence, today>>

ProfileInit ==
  /\ deployed \in Profile /\ evidence = [f \in Fixture |-> "as cited"] /\ today = 1

-----------------------------------------------------------------------------
(* validate_program_provenance.                                            *)

\* What a programme claims, each path with its kind.
Paths(v) ==
  {<<"PROGRAMME">>}
    \cup {<<"TIER", t.code>> : t \in v.tiers}
    \cup UNION {{<<"RATE", t.code, code>> : code \in t.rates} : t \in v.tiers}
    \cup UNION {{<<"CAP", t.code, code>> : code \in t.caps} : t \in v.tiers}
    \cup {<<"CAP", b.code>> : b \in {c \in v.buckets : c.capped}}
    \cup UNION {{<<"EXCLUSION", b.code, x>> : x \in b.excluded} : b \in v.buckets}

ReferencesAreValid(v) ==
  /\ \A r, s \in v.references : r.id = s.id => r = s
  /\ \A r \in v.references : r.from # NoDate /\ r.to # NoDate => r.from <= r.to

JudgedOn(asOf) == IF asOf = NoDate THEN today ELSE asOf
EndOf(v, day) == IF v.to # NoDate THEN v.to ELSE day

ReferenceCovers(r, first, last) ==
  /\ r.from # NoDate /\ r.from <= first
  /\ r.to = NoDate \/ (last # NoDate /\ last <= r.to)

\* _validate_provenance_interval_coverage.
ClaimIsValid(v, claim, day) ==
  LET cited == {r \in v.references : r.id \in claim.ids}
      last == IF claim.to # NoDate THEN claim.to ELSE EndOf(v, day)
  IN /\ claim.from # NoDate /\ (claim.to # NoDate => claim.from <= claim.to)
     /\ v.from # NoDate => v.from <= claim.from
     /\ claim.from <= EndOf(v, day)
     /\ v.to # NoDate => claim.to # NoDate /\ claim.to <= v.to
     /\ v.to = NoDate => claim.to = NoDate \/ claim.to <= day
     /\ claim.ids # {} /\ claim.ids \subseteq {r.id : r \in v.references}
     /\ v.authoritative =>
          /\ claim.from = v.from
          /\ claim.to \in (IF v.to # NoDate THEN {v.to} ELSE {NoDate, day})
          /\ \A r \in cited : r.authoritative
          /\ \E r \in cited : ReferenceCovers(r, claim.from, last)

ClaimsAreValid(v, day) ==
  LET claimed == {c.path : c \in v.claims}
  IN /\ claimed \subseteq Paths(v)
     /\ v.from # NoDate => v.from <= EndOf(v, day)
     /\ v.authoritative =>
          /\ v.from # NoDate /\ claimed = Paths(v)
          /\ \A c, d \in v.claims : c.path = d.path => c = d
     /\ \A claim \in v.claims : ClaimIsValid(v, claim, day)

\* An authoritative reference is a file that still says what it said.
FixturesAreValid(v) ==
  \A r \in {s \in v.references : s.authoritative} :
    r.from # NoDate /\ evidence[r.fixture] = "as cited"

\* A caller that names a day is not asked for versions that start after it.
Skipped(v, asOf) == asOf # NoDate /\ v.from # NoDate /\ asOf < v.from

Backed(v, day) == ReferencesAreValid(v) /\ ClaimsAreValid(v, day) /\ FixturesAreValid(v)

ProvenanceIsValid(asOf) ==
  \A v \in deployed.versions : ~Skipped(v, asOf) => Backed(v, JudgedOn(asOf))

-----------------------------------------------------------------------------
(* validate_program_configuration and programs_from_config.                *)

BucketCodes(v) == {b.code : b \in v.buckets}
VersionIsValid(v) ==
  /\ v.buckets # {} /\ v.tiers # {}
  /\ \A b, c \in v.buckets : b.code = c.code => b = c
  /\ \A t \in v.tiers : t.rates \cup t.caps \subseteq BucketCodes(v)
  /\ v.targetTier \in {NoDate} \cup {t.code : t \in v.tiers}

\* The bucket of a route is one of the card's, in whichever version.
RoutesAreValid ==
  \A route \in deployed.routes :
    /\ route.policy \in deployed.policies
    /\ \E v \in deployed.versions : v.card = route.card /\ route.bucket \in BucketCodes(v)

Loads(asOf) ==
  /\ ProvenanceIsValid(asOf) /\ deployed.versions # {} /\ RoutesAreValid
  /\ \A v \in deployed.versions : VersionIsValid(v)

InForceOn(on) ==
  {v \in deployed.versions : /\ v.from = NoDate \/ v.from <= on
                             /\ v.to = NoDate \/ on <= v.to}

\* No programme at all, or two of one card, is an error.
GivesFor(on, asOf) ==
  /\ Loads(asOf)
  /\ \A v \in deployed.versions : v.from # NoDate /\ v.to # NoDate => v.from <= v.to
  /\ InForceOn(on) # {}
  /\ Cardinality({v.card : v \in InForceOn(on)}) = Cardinality(InForceOn(on))

-----------------------------------------------------------------------------
(* What happens to the deployment.                                         *)

Deploy(profile) ==
  profile # deployed /\ deployed' = profile /\ UNCHANGED <<evidence, today>>

EvidenceChanges(f) ==
  /\ evidence[f] = "as cited"
  /\ \E now \in {"other", "missing"} : evidence' = [evidence EXCEPT ![f] = now]
  /\ UNCHANGED <<deployed, today>>

NextDay == today < MaxDay /\ today' = today + 1 /\ UNCHANGED <<deployed, evidence>>

ProfileNext ==
  \/ \E profile \in Profile : Deploy(profile)
  \/ \E f \in Fixture : EvidenceChanges(f)
  \/ NextDay

ProfileSpec == ProfileInit /\ [][ProfileNext]_profileVars

-----------------------------------------------------------------------------
ProfileTypeOK ==
  /\ deployed \in Profile /\ today \in 1 .. MaxDay
  /\ evidence \in [Fixture -> {"as cited", "other", "missing"}]

Evidences(r, on) ==
  /\ r.authoritative /\ evidence[r.fixture] = "as cited"
  /\ r.from <= on /\ (r.to = NoDate \/ on <= r.to)

\* A version that is published before it starts, without an end or not backed yet.
Announced(v, day) == day < v.from /\ (v.to = NoDate \/ ~Backed(v, day))
\* A claim about an open-ended programme that starts or ends later.
ClaimedLater(v, day) == v.to = NoDate /\ \E c \in v.claims : c.from > day \/ c.to > day

\* Whatever is given for a date up to the day it was judged on, each card has one version,
\* and each rate, cap, tier and exclusion of an authoritative one is backed for that date by
\* evidence that has not changed.  What is accepted today is accepted by a caller that names
\* an earlier day, unless a claim starts or ends between the two; what is accepted for today's
\* date is accepted without it, unless a version has been announced that has no end or is not
\* backed.
ProfilesAreSound ==
  /\ \A asOf \in 0 .. MaxDay : \A on \in 1 .. JudgedOn(asOf) :
       GivesFor(on, asOf) =>
         /\ \A v, w \in InForceOn(on) : v.card = w.card => v = w
         /\ \A v \in {w \in InForceOn(on) : w.authoritative} : \A path \in Paths(v) :
              \E c \in v.claims : c.path = path /\
                \E r \in v.references : r.id \in c.ids /\ Evidences(r, on)
  /\ \A day \in 1 .. today :
       Loads(NoDate) => Loads(day) \/ \E v \in deployed.versions : ClaimedLater(v, day)
  /\ Loads(today) => Loads(NoDate) \/ \E v \in deployed.versions : Announced(v, today)

\* An authoritative programme without an end whose claim, or evidence, ends.
Expires(v) ==
  v.authoritative /\ v.to = NoDate /\
    \/ \E c \in v.claims : c.to = today
    \/ \E r \in v.references : r.to # NoDate /\ r.to <= today

\* The days that pass change nothing for a caller that names its day, and a configuration
\* stops loading for the others only when it expires.
DaysKeepProfiles ==
  today' # today =>
    /\ \A asOf \in 1 .. MaxDay : Loads(asOf)' = Loads(asOf)
    /\ Loads(NoDate) => Loads(NoDate)' \/ \E v \in deployed.versions : Expires(v)
==============================================================================
