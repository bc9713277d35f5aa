---------------------------- MODULE RestoreDrill ----------------------------
(***************************************************************************)
(* The restore drill (deploy/actual/restore-actual-disposable.py): every   *)
(* run restores a backup into a data directory, an internal network and a  *)
(* container of its own, probes it and removes all three; a receipt says   *)
(* whether that was verified.  Commands of the container runtime fail or   *)
(* are interrupted, other users of the runtime take names and remove what  *)
(* they like, and signals arrive at any time, also during a clean-up: the  *)
(* handler runs a clean-up of its own and raises SystemExit, so what it    *)
(* interrupted is never resumed, only the handlers around it run.          *)
(***************************************************************************)
EXTENDS Naturals, FiniteSets

CONSTANTS Repeat, MaxSignals, MaxDrillFaults

ASSUME DrillAssumption ==
  Repeat \in Nat /\ Repeat >= 2 /\ MaxSignals \in Nat /\ MaxDrillFaults \in Nat

VARIABLES
  world,         \* "none", "ours" or "foreign" per object
  at,            \* the next step of main
  region,        \* which handlers of main a SystemExit still meets
  known,         \* what the current_* variables name: the objects, and their ids
  cleaning,      \* the innermost clean-up
  creating,      \* objects a command has been told to create and has not reported
  drillRun,      \* run_index
  drill,         \* result: [status, verified, passed]
  receipt,       \* the one on disk, or NoReceipt
  signals, drillFaults,
  late,          \* history: created by a command a signal had interrupted
  outsiders      \* history: names other users took

drillVars == <<world, at, region, known, cleaning, creating, drillRun, drill, receipt,
               signals, drillFaults, late, outsiders>>

Named == {"container", "network"}            \* objects of the runtime, by name and id
Object == Named \cup {"data", "root"}
NoReceipt == [status |-> "none", verified |-> FALSE, passed |-> 0]
NoCleaning == [caller |-> "nobody", ok |-> TRUE, step |-> "end", absent |-> {}]
OutsideCounters == <<signals, outsiders>>

Step == {"mkdtemp", "root", "verify", "preflight", "extract", "create network", "network",
         "identify", "create container", "container", "probe", "cleanup", "finally", "outer",
         "write", "exit"}
Cleaning == [caller : {"nobody", "run", "except", "finally", "handler"}, ok : BOOLEAN,
             step : {"inspect", "remove", "verify", "data", "end"}, absent : SUBSET Named]
Knowledge ==
  {k \in [names : SUBSET Object, ids : SUBSET Named] : k.ids \subseteq k.names}
Result == [status : {"none", "failed", "passed"}, verified : BOOLEAN, passed : 0..Repeat]

DrillTypeOK ==
  /\ world \in [Object -> {"none", "ours", "foreign"}]
  /\ at \in Step /\ region \in {"try", "except", "finally"}
  /\ known \in Knowledge /\ cleaning \in Cleaning
  /\ creating \subseteq Object /\ late \subseteq Object /\ outsiders \subseteq Named
  /\ drillRun \in 1..Repeat /\ drill \in Result /\ receipt \in Result
  /\ signals \in 0..MaxSignals /\ drillFaults \in 0..MaxDrillFaults

DrillInit ==
  /\ world = [o \in Object |-> "none"]
  /\ at = "mkdtemp" /\ region = "try"
  /\ known = [names |-> {}, ids |-> {}]
  /\ cleaning = NoCleaning
  /\ creating = {} /\ drillRun = 1
  /\ drill = [status |-> "failed", verified |-> TRUE, passed |-> 0]
  /\ receipt = NoReceipt
  /\ signals = 0 /\ drillFaults = 0 /\ late = {} /\ outsiders = {}

-----------------------------------------------------------------------------
(* main, outside a clean-up.                                               *)

Running(step) == at = step /\ cleaning.caller = "nobody"

Fault == drillFaults < MaxDrillFaults /\ drillFaults' = drillFaults + 1

CleanUp(caller) ==
  [caller |-> caller, ok |-> TRUE, step |-> "inspect", absent |-> Named \ known.names]

Claimed == known.names \ {"root"} # {}

\* A DrillError in the try block: status failed, then cleanup().
Raise == region' = "except" /\ cleaning' = CleanUp("except")

Proceed(step) == at' = step /\ UNCHANGED <<region, cleaning>>

\* tempfile.mkdtemp and the assignment of temp_root_for_cleanup.
MakeRoot ==
  /\ Running("mkdtemp")
  /\ world' = [world EXCEPT !["root"] = "ours"]
  /\ creating' = creating \cup {"root"}
  /\ Proceed("root")
  /\ UNCHANGED <<known, drillRun, drill, receipt, drillFaults, late, OutsideCounters>>

KnowRoot ==
  /\ Running("root")
  /\ known' = [known EXCEPT !.names = @ \cup {"root"}]
  /\ creating' = creating \ {"root"}
  /\ Proceed("verify")
  /\ UNCHANGED <<world, drillRun, drill, receipt, drillFaults, late, OutsideCounters>>

\* backup_verify, the runtime, its image and the namespace tool.
VerifyBackup ==
  /\ Running("verify")
  /\ \/ Proceed("preflight") /\ UNCHANGED drillFaults
     \/ Fault /\ Raise /\ UNCHANGED at
  /\ UNCHANGED <<world, known, creating, drillRun, drill, receipt, late, OutsideCounters>>

\* Nothing of the run's names may exist; then the names are claimed.
Preflight ==
  /\ Running("preflight")
  /\ \/ /\ \A o \in Object \ {"root"} : world[o] = "none"
        /\ known' = [names |-> Object, ids |-> {}]
        /\ Proceed("extract") /\ UNCHANGED drillFaults
     \/ /\ \E o \in Object \ {"root"} : world[o] # "none"
        /\ Raise /\ UNCHANGED <<at, known, drillFaults>>
     \/ Fault /\ Raise /\ UNCHANGED <<at, known>>
  /\ UNCHANGED <<world, creating, drillRun, drill, receipt, late, OutsideCounters>>

Extract ==
  /\ Running("extract")
  /\ world' = [world EXCEPT !["data"] = "ours"]
  /\ \/ Proceed("create network") /\ UNCHANGED drillFaults
     \/ Fault /\ Raise /\ UNCHANGED at
  /\ UNCHANGED <<known, creating, drillRun, drill, receipt, late, OutsideCounters>>

\* network create, run -d: the command, what it does, and what it reports.
CreateStep == [network |-> "create network", container |-> "create container"]

Create(o) ==
  /\ Running(CreateStep[o])
  /\ creating' = creating \cup {o}
  /\ Proceed(o)
  /\ UNCHANGED <<world, known, drillRun, drill, receipt, drillFaults, late, OutsideCounters>>

\* The runtime creates it, whoever still waits for the command; a name that is
\* taken makes the command fail.
Created(o) ==
  /\ o \in creating /\ world[o] = "none"
  /\ world' = [world EXCEPT ![o] = "ours"]
  /\ creating' = creating \ {o}
  /\ late' = IF Running(o) THEN late ELSE late \cup {o}
  /\ UNCHANGED <<at, region, known, cleaning, drillRun, drill, receipt, drillFaults, OutsideCounters>>

\* run -d prints the container's id; the network's is looked up by its name.
Reported(o) ==
  /\ Running(o)
  /\ creating' = creating \ {o}
  /\ \/ /\ o \notin creating
        /\ IF o = "container"
           THEN Proceed("probe") /\ known' = [known EXCEPT !.ids = @ \cup {o}]
           ELSE Proceed("identify") /\ UNCHANGED known
        /\ UNCHANGED drillFaults
     \/ o \in creating /\ world[o] = "foreign" /\ Raise /\ UNCHANGED <<at, known, drillFaults>>
     \/ Fault /\ Raise /\ UNCHANGED <<at, known>>
  /\ UNCHANGED <<world, drillRun, drill, receipt, late, OutsideCounters>>

\* inspect_network_identity and inspect_network_internal: the labels are ours.
Identify ==
  /\ Running("identify")
  /\ \/ /\ world["network"] = "ours"
        /\ known' = [known EXCEPT !.ids = @ \cup {"network"}]
        /\ Proceed("create container") /\ UNCHANGED drillFaults
     \/ world["network"] # "ours" /\ Raise /\ UNCHANGED <<at, known, drillFaults>>
     \/ Fault /\ Raise /\ UNCHANGED <<at, known>>
  /\ UNCHANGED <<world, creating, drillRun, drill, receipt, late, OutsideCounters>>

\* From inspect_sidecar_namespace to the second readback.
Probe ==
  /\ Running("probe")
  /\ \/ /\ world["container"] = "ours"
        /\ at' = "cleanup" /\ cleaning' = CleanUp("run") /\ UNCHANGED <<region, drillFaults>>
     \/ world["container"] # "ours" /\ Raise /\ UNCHANGED <<at, drillFaults>>
     \/ Fault /\ Raise /\ UNCHANGED at
  /\ UNCHANGED <<world, known, creating, drillRun, drill, receipt, late, OutsideCounters>>

-----------------------------------------------------------------------------
(* cleanup(): the container, then the network, then the data directory.    *)

Target == IF "container" \in cleaning.absent THEN "network" ELSE "container"

\* What inspect says of the target: by its id, or else by its name.
Exists(o) == world[o] = "ours" \/ (o \notin known.ids /\ world[o] = "foreign")

CleanStep(step) == cleaning.caller # "nobody" /\ cleaning.step = step

\* Absent: go on.  Whatever is not found absent keeps the rest from being touched.
Gone ==
  LET absent == cleaning.absent \cup {Target} IN
  cleaning' = [cleaning EXCEPT !.absent = absent,
                               !.step = IF absent = Named THEN "data" ELSE "inspect"]

\* A variant that takes what it could not find out or remove for absent.
TakenForGone == Gone

NotGone == cleaning' = [cleaning EXCEPT !.ok = FALSE, !.step = "end"]

InspectObject ==
  /\ CleanStep("inspect")
  /\ \/ cleaning.absent = Named /\ cleaning' = [cleaning EXCEPT !.step = "data"]
        /\ UNCHANGED drillFaults
     \/ /\ cleaning.absent # Named
        /\ IF ~Exists(Target) THEN Gone
           ELSE IF Target \in known.ids THEN cleaning' = [cleaning EXCEPT !.step = "remove"]
           ELSE NotGone
        /\ UNCHANGED drillFaults
     \/ cleaning.absent # Named /\ Fault /\ NotGone
  /\ UNCHANGED <<world, at, region, known, creating, drillRun, drill, receipt, late, OutsideCounters>>

\* rm by id; it fails when the object is gone, and for a network in use.
RemoveObject ==
  /\ CleanStep("remove")
  /\ \/ /\ world' = [world EXCEPT ![Target] = IF @ = "ours" THEN "none" ELSE @]
        /\ cleaning' = [cleaning EXCEPT !.step = "verify"]
        /\ UNCHANGED drillFaults
     \/ /\ world[Target] # "ours" \/ (Target = "network" /\ world["container"] = "ours")
        /\ NotGone /\ UNCHANGED <<world, drillFaults>>
     \/ Fault /\ NotGone /\ UNCHANGED world
  /\ UNCHANGED <<at, region, known, creating, drillRun, drill, receipt, late, OutsideCounters>>

VerifyGone ==
  /\ CleanStep("verify")
  /\ \/ (IF Exists(Target) THEN NotGone ELSE Gone) /\ UNCHANGED drillFaults
     \/ Fault /\ NotGone
  /\ UNCHANGED <<world, at, region, known, creating, drillRun, drill, receipt, late, OutsideCounters>>

RemoveData ==
  /\ CleanStep("data")
  /\ \/ /\ world' = IF "data" \in known.names THEN [world EXCEPT !["data"] = "none"] ELSE world
        /\ cleaning' = [cleaning EXCEPT !.step = "end"]
        /\ known' = [names |-> known.names \cap {"root"}, ids |-> {}]
        /\ UNCHANGED drillFaults
     \/ Fault /\ NotGone /\ UNCHANGED <<world, known>>
  /\ UNCHANGED <<at, region, creating, drillRun, drill, receipt, late, OutsideCounters>>

Unverified == drill' = [drill EXCEPT !.verified = @ /\ cleaning.ok]

\* The clean-up of a run that passed.
EndOfRun ==
  /\ CleanStep("end") /\ cleaning.caller = "run"
  /\ IF cleaning.ok
     THEN /\ cleaning' = NoCleaning
          /\ IF drillRun < Repeat
             THEN /\ drillRun' = drillRun + 1 /\ at' = "preflight"
                  /\ drill' = [drill EXCEPT !.passed = @ + 1] /\ UNCHANGED region
             ELSE /\ drill' = [drill EXCEPT !.passed = @ + 1, !.status = "passed"]
                  /\ at' = "finally" /\ region' = "finally" /\ UNCHANGED drillRun
     ELSE Unverified /\ Raise /\ UNCHANGED <<at, drillRun>>
  /\ UNCHANGED <<world, known, creating, receipt, drillFaults, late, OutsideCounters>>

EndOfExcept ==
  /\ CleanStep("end") /\ cleaning.caller = "except"
  /\ Unverified
  /\ cleaning' = NoCleaning /\ at' = "finally" /\ region' = "finally"
  /\ UNCHANGED <<world, known, creating, drillRun, receipt, drillFaults, late, OutsideCounters>>

EndOfFinally ==
  /\ CleanStep("end") /\ cleaning.caller = "finally"
  /\ Unverified
  /\ cleaning' = NoCleaning /\ at' = "outer"
  /\ UNCHANGED <<world, region, known, creating, drillRun, receipt, drillFaults, late, OutsideCounters>>

\* SystemExit: the finally block runs, unless it was what the signal interrupted.
EndOfHandler ==
  /\ CleanStep("end") /\ cleaning.caller = "handler"
  /\ Unverified
  /\ cleaning' = NoCleaning
  /\ at' = IF region = "finally" THEN "exit" ELSE "finally"
  /\ region' = "finally"
  /\ UNCHANGED <<world, known, creating, drillRun, receipt, drillFaults, late, OutsideCounters>>

-----------------------------------------------------------------------------
(* The finally block of main.                                              *)

Finally ==
  /\ Running("finally")
  /\ IF Claimed
     THEN cleaning' = CleanUp("finally") /\ UNCHANGED at
     ELSE at' = "outer" /\ UNCHANGED cleaning
  /\ UNCHANGED <<world, region, known, creating, drillRun, drill, receipt, drillFaults, late,
                 OutsideCounters>>

\* cleanup_outer_root, only when nothing is claimed any more.
RemoveRoot ==
  /\ Running("outer")
  /\ at' = "write"
  /\ \/ /\ ~Claimed
        /\ world' = IF "root" \in known.names THEN [world EXCEPT !["root"] = "none"] ELSE world
        /\ UNCHANGED <<drill, drillFaults>>
     \/ /\ Claimed \/ "root" \in known.names
        /\ IF Claimed THEN UNCHANGED drillFaults ELSE Fault
        /\ drill' = [drill EXCEPT !.verified = FALSE, !.status = "failed"]
        /\ UNCHANGED world
  /\ UNCHANGED <<region, known, cleaning, creating, drillRun, receipt, late, OutsideCounters>>

WriteReceipt ==
  /\ Running("write")
  /\ at' = "exit"
  /\ \/ receipt' = drill /\ UNCHANGED drillFaults
     \/ Fault /\ UNCHANGED receipt
  /\ UNCHANGED <<world, region, known, cleaning, creating, drillRun, drill, late, OutsideCounters>>

-----------------------------------------------------------------------------
(* The outside.                                                            *)

\* SIGINT or SIGTERM: status failed, and the handler's own clean-up.
Signal ==
  /\ at # "exit" /\ signals < MaxSignals
  /\ signals' = signals + 1
  /\ cleaning' = CleanUp("handler")
  /\ drill' = IF region = "finally" THEN drill ELSE [drill EXCEPT !.status = "failed"]
  /\ late' = late \cup (creating \cap {"root"})
  /\ UNCHANGED <<world, at, region, known, creating, drillRun, receipt, drillFaults, outsiders>>

TakeName(o) ==
  /\ Fault /\ world[o] = "none"
  /\ world' = [world EXCEPT ![o] = "foreign"]
  /\ outsiders' = outsiders \cup {o}
  /\ UNCHANGED <<at, region, known, cleaning, creating, drillRun, drill, receipt, signals, late>>

RemoveOurs(o) ==
  /\ Fault /\ world[o] = "ours"
  /\ world' = [world EXCEPT ![o] = "none"]
  /\ UNCHANGED <<at, region, known, cleaning, creating, drillRun, drill, receipt, late, OutsideCounters>>

DrillNext ==
  \/ MakeRoot \/ KnowRoot \/ VerifyBackup \/ Preflight \/ Extract \/ Identify \/ Probe
  \/ \E o \in Named : Create(o) \/ Created(o) \/ Reported(o) \/ TakeName(o) \/ RemoveOurs(o)
  \/ InspectObject \/ RemoveObject \/ VerifyGone \/ RemoveData
  \/ EndOfRun \/ EndOfExcept \/ EndOfFinally \/ EndOfHandler
  \/ Finally \/ RemoveRoot \/ WriteReceipt
  \/ Signal

DrillSpec == DrillInit /\ [][DrillNext]_drillVars

-----------------------------------------------------------------------------
(* A receipt that says the clean-up was verified is true: wherever signals *)
(* and failures hit, nothing of the drill is left, except what a command   *)
(* that a signal interrupted created after the handler had looked; a drill *)
(* that passed has passed and cleaned up every run; and an object that     *)
(* took one of the names is still there.                                   *)
DrillIsHonest ==
  /\ receipt.verified => \A o \in Object : world[o] = "ours" => o \in late
  /\ receipt.status = "passed" => receipt.verified /\ receipt.passed = Repeat
  /\ \A o \in outsiders : world[o] = "foreign"
=============================================================================
