------------------------------- MODULE Bootstrap -------------------------------
(***************************************************************************)
(* The bootstrap of the Actual budget from a configuration file            *)
(* (integrations/actual/bootstrap-resources.mjs): accounts, names (of      *)
(* tags, payees, categories), rules and schedules, in this order.  Each    *)
(* write is a step; a run throws or is killed after any of them, and is    *)
(* started again.  A configuration can contradict itself in ways the code  *)
(* does not look for.  Whose a schedule is, its name says: the owner is    *)
(* the id in the [finance-managed:...] marker, or Manual.                  *)
(***************************************************************************)
EXTENDS Naturals, FiniteSets

CONSTANTS
  BootConfig,    \* configurations
  Budgets,       \* what a budget can hold before
  Manual,        \* the owner of what people made
  MaxBoots,      \* bound: runs
  MaxTouches     \* bound: edits of users between runs

ASSUME BootstrapAssumption ==
  /\ BootConfig # {} /\ Budgets # {} /\ MaxBoots \in Nat /\ MaxTouches \in Nat
  /\ \A c \in BootConfig : /\ \A s \in c.schedules : s.owner # Manual
                           /\ \A e \in c.accounts : e.closed \in BOOLEAN
  /\ \A b \in Budgets :
       /\ \A table \in {b.accounts, b.rules, b.schedules} :
            IsFiniteSet(table) /\ \A x, y \in table : x.id = y.id => x = y
       /\ \A a \in b.accounts : /\ a = [id |-> a.id, name |-> a.name, closed |-> a.closed, empty |-> a.empty]
                                /\ a.closed \in BOOLEAN
       /\ \A r \in b.rules : r = [id |-> r.id, rule |-> r.rule]
       /\ \A s \in b.schedules : s = [id |-> s.id, owner |-> s.owner, name |-> s.name, terms |-> s.terms]

VARIABLES
  config,        \* the configuration
  accountRows,   \* [id, name, closed, empty]
  names,         \* names in use
  bookRules,     \* [id, rule]
  schedules,     \* [id, owner, name, terms]
  boot,          \* the run: its phase, what is left to do in it, the accounts and
                 \* schedules it read, the accounts it made
  boots, touches

tables == <<accountRows, names, bookRules, schedules>>
bootVars == <<config, accountRows, names, bookRules, schedules, boot, boots, touches>>

NoBoot == [phase |-> "none", left |-> {}, read |-> {}, made |-> {}]

BootTypeOK ==
  /\ config \in BootConfig
  /\ boot.phase \in {"none", "accounts", "retired accounts", "names", "retired rules", "rules",
                     "retired schedules", "schedules", "done"}
  /\ \A table \in {accountRows, bookRules, schedules} : \A a, b \in table : a.id = b.id => a = b
  /\ boots \in 0 .. MaxBoots /\ touches \in 0 .. MaxTouches

BootInit ==
  /\ config \in BootConfig
  /\ \E b \in Budgets : /\ accountRows = b.accounts /\ names = b.names
                        /\ bookRules = b.rules /\ schedules = b.schedules
  /\ boot = NoBoot /\ boots = 0 /\ touches = 0

Fresh(table) ==
  CHOOSE n \in 1 .. Cardinality(table) + 1 : \A x \in table : x.id # n

-----------------------------------------------------------------------------
(* What a run wants to change.  A plan without --apply lists the same.     *)

Called(rows, entry) == {a \in rows : a.name \in {entry.name} \cup entry.aliases}
Desired(entry, a) == [a EXCEPT !.name = entry.name, !.closed = entry.closed]
AccountChange(rows, entry) ==
  Called(rows, entry) = {} \/ \E a \in Called(rows, entry) : Desired(entry, a) # a

ActiveNames == UNION {{e.name} \cup e.aliases : e \in config.accounts}

\* The first account of that name; rows come in the order they were made.
Retiring(rows, name) ==
  {a \in rows : a.name = name /\ ~a.closed /\ \A b \in rows : b.name = name => a.id <= b.id}

\* A rule is retired by what it says, and when it is what a wanted rule was in the stage
\* a migration comes from.
RetiredRules ==
  config.retiredRules \cup
  UNION {{[r EXCEPT !.stage = m[1]] : m \in {x \in config.migrations : x[2] = r.stage}} : r \in config.rules}
RuleIsWanted(rows, rule) == \A r \in rows : r.rule # rule

EnabledSchedules == {s \in config.schedules : s.enabled}
Owned(rows) == {s \in rows : s.owner # Manual}
RetiredSchedules(rows) ==
  {s \in Owned(rows) : \/ s.owner \notin {e.owner : e \in EnabledSchedules}
                       \/ {s.owner, s.name} \cap config.retiredSchedules # {}}
OwnersRows(rows, entry) == {s \in rows : s.owner = entry.owner}
Differs(s, entry) == s.name # entry.name \/ s.terms # entry.terms

SchedulesAreClear(rows) ==
  /\ \A s, t \in config.schedules : s # t => s.owner # t.owner /\ s.name # t.name
  /\ \A s \in rows \ Owned(rows) : s.name \notin {e.name : e \in config.schedules}
  /\ \A s, t \in rows \ Owned(rows) : s.name = t.name => s = t
  /\ \A s, t \in Owned(rows) : s.owner = t.owner => s = t

Quiet ==
  /\ \A e \in config.accounts : ~AccountChange(accountRows, e)
  /\ \A n \in config.retiredAccounts : Retiring(accountRows, n) = {}
  /\ config.names \subseteq names
  /\ \A r \in bookRules : r.rule \notin RetiredRules
  /\ \A r \in config.rules : ~RuleIsWanted(bookRules, r)
  /\ RetiredSchedules(schedules) = {}
  /\ \A e \in EnabledSchedules :
       \E s \in OwnersRows(schedules, e) : ~Differs(s, e)

-----------------------------------------------------------------------------
StartBoot ==
  /\ boot.phase \in {"none", "done"} /\ boots < MaxBoots
  /\ boot' = [phase |-> "accounts", left |-> config.accounts, read |-> accountRows, made |-> {}]
  /\ boots' = boots + 1
  /\ UNCHANGED <<config, tables, touches>>

Looked(entry) == boot' = [boot EXCEPT !.left = @ \ {entry}]

\* An account is looked up among those read at the start.  It is opened or closed first, when
\* that is authorized and nothing is left on it.
OpenOrCloseAccount(entry) ==
  /\ boot.phase = "accounts" /\ entry \in boot.left
  /\ \E a \in accountRows :
       /\ {b.id : b \in Called(boot.read, entry)} = {a.id}
       /\ a.closed # entry.closed
       /\ entry.allowed /\ (entry.closed => a.empty)
       /\ accountRows' = (accountRows \ {a}) \cup {[a EXCEPT !.closed = entry.closed]}
  /\ UNCHANGED <<config, names, bookRules, schedules, boot, boots, touches>>

\* Then it is updated, or created when none was found; of one that is to be closed the new
\* account is open.
ApplyAccount(entry) ==
  /\ boot.phase = "accounts" /\ entry \in boot.left
  /\ \/ /\ Called(boot.read, entry) = {}
        /\ LET made == [id |-> Fresh(accountRows), name |-> entry.name, closed |-> FALSE, empty |-> TRUE]
           IN /\ accountRows' = accountRows \cup {made}
              /\ boot' = [boot EXCEPT !.left = @ \ {entry}, !.made = @ \cup {made.id}]
     \/ \E a \in accountRows :
          /\ {b.id : b \in Called(boot.read, entry)} = {a.id}
          /\ a.closed = entry.closed
          /\ accountRows' = (accountRows \ {a}) \cup {Desired(entry, a)}
          /\ Looked(entry)
  /\ UNCHANGED <<config, names, bookRules, schedules, boots, touches>>

RetireAccount(name) ==
  /\ boot.phase = "retired accounts" /\ name \in boot.left
  /\ name \notin ActiveNames
  /\ \A a \in Retiring(boot.read, name) : a.empty
  /\ accountRows' = {IF a.id \in {b.id : b \in Retiring(boot.read, name)}
                     THEN [a EXCEPT !.closed = TRUE] ELSE a : a \in accountRows}
  /\ Looked(name)
  /\ UNCHANGED <<config, names, bookRules, schedules, boots, touches>>

CreateName(name) ==
  /\ boot.phase = "names" /\ name \in boot.left
  /\ names' = names \cup {name} /\ Looked(name)
  /\ UNCHANGED <<config, accountRows, bookRules, schedules, boots, touches>>

DeleteRule(r) ==
  /\ boot.phase = "retired rules" /\ r \in boot.left
  /\ bookRules' = bookRules \ {r} /\ Looked(r)
  /\ UNCHANGED <<config, accountRows, names, schedules, boots, touches>>

CreateRule(rule) ==
  /\ boot.phase = "rules" /\ rule \in boot.left
  /\ bookRules' = IF RuleIsWanted(bookRules, rule)
                  THEN bookRules \cup {[id |-> Fresh(bookRules), rule |-> rule]} ELSE bookRules
  /\ Looked(rule)
  /\ UNCHANGED <<config, accountRows, names, schedules, boots, touches>>

DeleteSchedule(s) ==
  /\ boot.phase = "retired schedules" /\ s \in boot.left
  /\ schedules' = schedules \ {s} /\ Looked(s)
  /\ UNCHANGED <<config, accountRows, names, bookRules, boots, touches>>

\* A schedule is looked up among those read before the retirement.
ApplySchedule(entry) ==
  /\ boot.phase = "schedules" /\ entry \in boot.left
  /\ schedules' =
       IF OwnersRows(boot.read, entry) = {}
       THEN schedules \cup {[id |-> Fresh(schedules), owner |-> entry.owner, name |-> entry.name,
                             terms |-> entry.terms]}
       ELSE {IF s \in OwnersRows(boot.read, entry)
             THEN [s EXCEPT !.name = entry.name, !.terms = entry.terms] ELSE s : s \in schedules}
  /\ Looked(entry)
  /\ UNCHANGED <<config, accountRows, names, bookRules, boots, touches>>

\* When a phase has nothing left the next one reads what it looks at.
To(phase, left, read) == boot' = [boot EXCEPT !.phase = phase, !.left = left, !.read = read]

NextPhase ==
  /\ boot.left = {}
  /\ \/ boot.phase = "accounts" /\ To("retired accounts", config.retiredAccounts, boot.read)
     \/ boot.phase = "retired accounts" /\ To("names", config.names \ names, {})
     \/ boot.phase = "names"
        /\ To("retired rules", {r \in bookRules : r.rule \in RetiredRules}, {})
     \/ boot.phase = "retired rules" /\ To("rules", config.rules, {})
     \/ boot.phase = "rules" /\ SchedulesAreClear(schedules)
        /\ To("retired schedules", RetiredSchedules(schedules), schedules)
     \/ boot.phase = "retired schedules" /\ To("schedules", EnabledSchedules, boot.read)
     \/ boot.phase = "schedules" /\ To("done", {}, {})
  /\ UNCHANGED <<config, tables, boots, touches>>

\* A check throws, an API call fails, or the process is killed; what it wrote stays.
StopBoot ==
  /\ boot.phase \notin {"none", "done"}
  /\ boot' = NoBoot
  /\ UNCHANGED <<config, tables, boots, touches>>

\* People close and open accounts, move money, copy rules and schedules.
Touch ==
  /\ boot.phase \in {"none", "done"} /\ touches < MaxTouches
  /\ \/ /\ \E a \in accountRows, closed, empty \in BOOLEAN :
             accountRows' = (accountRows \ {a}) \cup {[a EXCEPT !.closed = closed, !.empty = empty]}
        /\ UNCHANGED <<bookRules, schedules>>
     \/ /\ \E r \in bookRules : bookRules' = bookRules \cup {[r EXCEPT !.id = Fresh(bookRules)]}
        /\ UNCHANGED <<accountRows, schedules>>
     \/ /\ \E s \in schedules :
             schedules' = schedules \cup {[s EXCEPT !.id = Fresh(schedules), !.owner = Manual]}
        /\ UNCHANGED <<accountRows, bookRules>>
  /\ boot' = NoBoot /\ touches' = touches + 1
  /\ UNCHANGED <<config, names, boots>>

BootNext ==
  \/ StartBoot \/ NextPhase \/ StopBoot \/ Touch
  \/ \E e \in config.accounts : OpenOrCloseAccount(e) \/ ApplyAccount(e)
  \/ \E n \in config.retiredAccounts : RetireAccount(n)
  \/ \E n \in config.names : CreateName(n)
  \/ \E r \in bookRules : DeleteRule(r)
  \/ \E r \in config.rules : CreateRule(r)
  \/ \E s \in schedules : DeleteSchedule(s)
  \/ \E e \in config.schedules : ApplySchedule(e)

BootSpec == BootInit /\ [][BootNext]_bootVars

-----------------------------------------------------------------------------
\* The configuration wants nothing that it retires, and no account twice.
Coherent ==
  /\ \A e, f \in config.accounts :
       e # f => ({e.name} \cup e.aliases) \cap ({f.name} \cup f.aliases) = {}
  /\ config.rules \cap RetiredRules = {}
  /\ \A e \in EnabledSchedules : {e.owner, e.name} \cap config.retiredSchedules = {}

\* A schedule whose name the configuration retires while it still wants its owner: it is
\* deleted, and then updated as if it were there.
RenamedAway ==
  {s \in UNION {b.schedules : b \in Budgets} :
     s.name \in config.retiredSchedules /\ s.owner \in {e.owner : e \in EnabledSchedules}}

\* An account that is to be closed is made open; the next run closes it or is refused.
OpenedOnly == {e \in config.accounts : e.closed /\ \E a \in Called(accountRows, e) : a.id \in boot.made}

\* A run that ends leaves nothing for the next one to do, from whatever earlier runs left
\* when they stopped; and no run makes a second account or schedule of an entry, on which
\* every later run would be refused as ambiguous.
BootstrapSettles ==
  Coherent =>
    /\ boot.phase = "done" /\ OpenedOnly = {} /\ RenamedAway = {} => Quiet
    /\ \A e \in config.accounts :
         (\A b \in Budgets : Cardinality(Called(b.accounts, e)) <= 1)
           => Cardinality(Called(accountRows, e)) <= 1
    /\ \A e \in config.schedules :
         (\A b \in Budgets : Cardinality(OwnersRows(b.schedules, e)) <= 1)
           => Cardinality(OwnersRows(schedules, e)) <= 1
==============================================================================
