------------------------------ MODULE Install ------------------------------
(***************************************************************************)
(* The resumable step engine of scripts/lib/install_engine.sh running the  *)
(* plan of module InstallPlan: the engine lock, the ledger of step records *)
(* and the steps themselves, with installers that are started again after  *)
(* whatever happened to the last one.                                      *)
(*                                                                         *)
(* The machine is the set of facts that hold on it; what an action adds to *)
(* them, and what a step's probe reads, are the contracts of module        *)
(* Provision.                                                              *)
(***************************************************************************)
EXTENDS Provision

CONSTANTS
  Installers, \* process slots: a slot runs one installer after another
  None,       \* no owner
  Dead,       \* an owner whose process is gone, or of an earlier boot
  Fragile,    \* the facts that may be lost later
  Slots,      \* for each configuration: the slots that may run
  MaxFaults(_, _) \* how many faults are injected, given the configuration
              \* and whether the machine has its I2C device from the start

ASSUME OwnersAssumption == None \notin Installers /\ Dead \notin Installers /\ None # Dead
ASSUME SlotsAssumption == Slots \in [Configurations -> SUBSET Installers]
ASSUME FaultsAssumption ==
  \A c \in Configurations, device \in BOOLEAN : MaxFaults(c, device) \in Nat
(* There is a contract for every step of every plan: TLC looks at all of    *)
(* them.                                                                    *)
ASSUME PlansAssumption ==
  \A c \in Configurations : \A n \in 1..Len(Plan(c)) : Plan(c)[n] \in DOMAIN Contracts

VARIABLES
  conf,       \* the configuration of the source record
  plan,       \* its steps in their final order
  facts,      \* what holds on the machine
  lost,       \* what held once and does not now
  direct,     \* wired audio works: what excuses the optional Bluetooth steps
  ledger,     \* steps/<step>.record: the recorded status
  lock,       \* engine.lock: whether the directory is there, whom it names
  proc,       \* each slot: position, step number, ownership
  clean,      \* slots during whose run nobody else changed the machine
  stale,      \* some lock outlived its owner
  orphans,    \* steps whose action outlived its killed installer
  faults      \* faults that may still be injected

vars == <<conf, plan, facts, lost, direct, ledger, lock, stale, proc, clean, orphans, faults>>

machine == <<conf, plan, facts, lost, direct, stale, clean, orphans>>

AllSteps == DOMAIN ledger

Fresh == [at |-> "idle", n |-> 1, owns |-> FALSE, exit |-> "idle"]

-----------------------------------------------------------------------------
(* Helpers *)

At(i, place) == proc[i].at = place

Goto(i, place) == proc' = [proc EXCEPT ![i].at = place]

Step(i) == plan[proc[i].n]

(* The optional Bluetooth steps probe their own result or a wired fallback. *)
BluetoothSteps == {"bluetooth_audio_stack", "bluetooth_audio_pairing",
                   "bluetooth_audio_autoconnect"}

Satisfied(s) == Shows(s, conf, facts) \subseteq facts \/ (s \in BluetoothSteps /\ direct)

(* The machine becomes f by the hand of S, which nobody else expects.       *)
Becomes(f, S) == /\ facts' = f /\ lost' = (lost \cup (facts \ f)) \ f
                 /\ clean' = IF f = facts THEN clean ELSE clean \cap S

Whole(s) == After(s, conf, facts, Len(Work(s, conf, facts)))

(* What an action of s may leave when something fails in it: a prefix of    *)
(* its effects.  A reconciliation that failed records that, degraded.       *)
Leftovers(s) ==
  IF ~ Able(s, conf, facts) THEN {facts}
  ELSE LET prefixes == {After(s, conf, facts, n) : n \in 0..Len(Work(s, conf, facts))}
       IN prefixes \cup {f \cup {"reconciliation-record"} :
                             f \in {g \in prefixes : s = Reconciliation /\ "reconciled" \notin g}}

Write(s, status) == ledger' = [ledger EXCEPT ![s] = status]

(* exit: the EXIT trap first removes the lock's record, if this process     *)
(* took the lock, and then its directory.                                   *)
Leave(i, how) ==
  IF proc[i].owns
  THEN /\ proc' = [proc EXCEPT ![i].at = "unlock", ![i].exit = how]
       /\ lock' = [lock EXCEPT !.owner = None]
  ELSE proc' = [proc EXCEPT ![i] = [Fresh EXCEPT !.at = how]] /\ UNCHANGED lock

(* The process is gone without a trap: its record stays and names nobody.   *)
Gone(i) ==
  /\ proc' = [proc EXCEPT ![i] = Fresh]
  /\ lock' = IF lock.owner = i THEN [lock EXCEPT !.owner = Dead] ELSE lock
  /\ stale' = (stale \/ lock.owner = i)

Fault == faults > 0 /\ faults' = faults - 1

-----------------------------------------------------------------------------
(* The engine lock *)

Start(i) ==
  /\ i \in Slots[conf]
  /\ proc[i].at \in {"idle", "done"}
  /\ proc' = [proc EXCEPT ![i] = [Fresh EXCEPT !.at = "mkdir"]]
  /\ clean' = clean \cup {i}
  /\ UNCHANGED <<conf, plan, facts, lost, direct, stale, ledger, lock, orphans, faults>>

Mkdir(i) ==
  /\ At(i, "mkdir")
  /\ IF lock.dir
     THEN Goto(i, "read") /\ UNCHANGED lock
     ELSE Goto(i, "record") /\ lock' = [lock EXCEPT !.dir = TRUE]
  /\ UNCHANGED <<machine, ledger, faults>>

NeverRecoverable == FALSE               \* every lock is taken for a live one

TakesAnyLock == lock.dir /\ lock.owner # None

Recoverable == lock.dir /\ lock.owner = Dead

(* The owner's record decides: INSTALL_BUSY while its process lives, stale  *)
(* when it is gone; a lock without a readable record is never touched.      *)
ReadOwner(i) ==
  /\ At(i, "read")
  /\ IF Recoverable THEN Goto(i, "rm") /\ UNCHANGED lock ELSE Leave(i, "idle")
  /\ UNCHANGED <<machine, ledger, faults>>

(* Taking over a stale lock: its record, its directory, a new directory.    *)
RemoveRecord(i) ==
  /\ At(i, "rm")
  /\ lock' = [lock EXCEPT !.owner = None]
  /\ Goto(i, "rmdir")
  /\ UNCHANGED <<machine, ledger, faults>>

RemoveDirectory(i) ==
  /\ At(i, "rmdir")
  /\ IF lock.dir /\ lock.owner = None
     THEN Goto(i, "again") /\ lock' = [lock EXCEPT !.dir = FALSE]
     ELSE Leave(i, "idle")
  /\ UNCHANGED <<machine, ledger, faults>>

MkdirAgain(i) ==
  /\ At(i, "again")
  /\ IF lock.dir
     THEN Leave(i, "idle")
     ELSE Goto(i, "record") /\ lock' = [lock EXCEPT !.dir = TRUE]
  /\ UNCHANGED <<machine, ledger, faults>>

RecordOwner(i) ==
  /\ At(i, "record")
  /\ IF lock.dir
     THEN /\ lock' = [lock EXCEPT !.owner = i]
          /\ proc' = [proc EXCEPT ![i].at = "step", ![i].owns = TRUE]
     ELSE Leave(i, "idle")
  /\ UNCHANGED <<machine, ledger, faults>>

(* rmdir of the lock: it fails, silently, on a directory with a record.     *)
Unlock(i) ==
  /\ At(i, "unlock")
  /\ lock' = IF lock.owner = None THEN [lock EXCEPT !.dir = FALSE] ELSE lock
  /\ proc' = [proc EXCEPT ![i].at = proc[i].exit, ![i].owns = FALSE, ![i].exit = "idle"]
  /\ UNCHANGED <<machine, ledger, faults>>

-----------------------------------------------------------------------------
(* run_step *)

SkipIfComplete(i) ==                    \* trusts the ledger
  ledger[Step(i)] = "complete"

(* The postcondition is probed before the action, whatever the ledger says. *)
Skips(i) == Satisfied(Step(i))

(* Precondition, then postcondition: a step that holds only repairs its     *)
(* record; one that does not is announced as running.                       *)
Probe(i) ==
  /\ At(i, "step") /\ proc[i].n <= Len(plan)
  /\ LET s == Step(i) IN
     IF ~ \A t \in Needs(s, conf) : Satisfied(t)
     THEN Write(s, "failed") /\ Leave(i, "idle")               \* INSTALL_PRECONDITION
     ELSE IF Skips(i)
     THEN /\ Write(s, "complete")
          /\ proc' = [proc EXCEPT ![i].n = @ + 1] /\ UNCHANGED lock
     ELSE IF Unreadable(s, facts)
     THEN Write(s, "failed") /\ Leave(i, "idle")               \* INSTALL_PROBE
     ELSE Write(s, "running") /\ Goto(i, "act") /\ UNCHANGED lock
  /\ UNCHANGED <<machine, faults>>

(* The action returns 0 and has done what its contract says.  The device    *)
(* node of a requested I2C bus may come at once.                            *)
Act(i) ==
  /\ At(i, "act")
  /\ LET s == Step(i) IN
     /\ Able(s, conf, facts)
     /\ Becomes(Whole(s) \cup (IF s = "target_i2c_platform" THEN {"i2c-device"} ELSE {}), {i})
  /\ Goto(i, "check")
  /\ UNCHANGED <<conf, plan, direct, stale, ledger, lock, orphans, faults>>

(* Without its device node I2C was only requested: exit 78, wait for a boot. *)
Pause(i) ==
  /\ At(i, "act") /\ Step(i) = "target_i2c_platform"
  /\ Able(Step(i), conf, facts) /\ "i2c-device" \notin facts
  /\ Becomes(Whole(Step(i)), {i})
  /\ Write(Step(i), "paused") /\ Leave(i, "idle")
  /\ UNCHANGED <<conf, plan, direct, stale, orphans, faults>>

(* The action ends in an error of its own.                                  *)
Refuse(i) ==
  /\ At(i, "act")
  /\ ~ Able(Step(i), conf, facts)
  /\ Write(Step(i), "failed") /\ Leave(i, "idle")
  /\ UNCHANGED <<machine, faults>>

TrustsAction(i) == TRUE                 \* an exit status of 0 is enough

Verified(i) == Satisfied(Step(i))

(* The postcondition is probed again behind the action.                     *)
Check(i) ==
  /\ At(i, "check")
  /\ IF Verified(i)
     THEN /\ Write(Step(i), "complete")
          /\ proc' = [proc EXCEPT ![i].at = "step", ![i].n = @ + 1] /\ UNCHANGED lock
     ELSE Write(Step(i), "failed") /\ Leave(i, "idle")         \* INSTALL_POSTCONDITION
  /\ UNCHANGED <<machine, faults>>

Finish(i) ==
  /\ At(i, "step") /\ proc[i].n > Len(plan)
  /\ Leave(i, "done")
  /\ UNCHANGED <<machine, ledger, faults>>

-----------------------------------------------------------------------------
(* Faults *)

(* The action fails on the way.                                             *)
ActionFails(i) ==
  /\ Fault
  /\ At(i, "act")
  /\ \E f \in Leftovers(Step(i)) : Becomes(f, {i})
  /\ Write(Step(i), "failed") /\ Leave(i, "idle")
  /\ UNCHANGED <<conf, plan, direct, stale, orphans>>

(* The action returns 0 and did not do all of its work.                     *)
ActionLies(i) ==
  /\ Fault
  /\ At(i, "act")
  /\ \E f \in Leftovers(Step(i)) \ {Whole(Step(i))} : Becomes(f, {i})
  /\ Goto(i, "check")
  /\ UNCHANGED <<conf, plan, direct, stale, ledger, lock, orphans>>

(* SIGKILL or, before the traps are set, any signal.  The action it ran     *)
(* dies with it, or goes on without it.                                     *)
Kill(i) ==
  /\ Fault
  /\ proc[i].at \notin {"idle", "done"}
  /\ Gone(i)
  /\ \/ /\ At(i, "act")
        /\ \E f \in Leftovers(Step(i)) : Becomes(f, {i})
        /\ UNCHANGED orphans
     \/ /\ orphans' = IF At(i, "act") THEN orphans \cup {Step(i)} ELSE orphans
        /\ UNCHANGED <<facts, lost, clean>>
  /\ UNCHANGED <<conf, plan, direct, ledger>>

OrphanEnds(s) ==
  /\ s \in orphans
  /\ orphans' = orphans \ {s}
  /\ \E f \in Leftovers(s) : Becomes(f, {})
  /\ UNCHANGED <<conf, plan, direct, stale, ledger, lock, proc, faults>>

(* INT, TERM or HUP with the traps set: the step is recorded as interrupted *)
(* and the lock goes.                                                       *)
Interrupt(i) ==
  /\ Fault
  /\ proc[i].at \in {"step", "act", "check"}
  /\ \/ proc[i].n <= Len(plan) /\ Write(Step(i), "interrupted")
     \/ At(i, "step") /\ UNCHANGED ledger           \* between two steps
  /\ \E f \in IF At(i, "act") THEN Leftovers(Step(i)) ELSE {facts} : Becomes(f, {i})
  /\ Leave(i, "idle")
  /\ UNCHANGED <<conf, plan, direct, stale, orphans>>

(* A boot ends every process; what it leaves is Booted.                     *)
Boots(f) ==
  /\ Becomes(Booted(f), {})
  /\ proc' = [j \in Installers |-> Fresh]
  /\ lock' = IF lock.owner \in Installers THEN [lock EXCEPT !.owner = Dead] ELSE lock
  /\ stale' = (stale \/ lock.owner \in Installers)
  /\ orphans' = {}
  /\ UNCHANGED <<conf, plan, direct, ledger>>

(* The power fails, in the middle of whatever runs.                         *)
PowerCut ==
  /\ Fault
  /\ \E f \in {facts} \cup UNION {Leftovers(Step(i)) : i \in {j \in Installers : At(j, "act")}} :
       Boots(f)

(* What a paused installation asks for.                                     *)
Reboot ==
  /\ "target_i2c_platform" \in AllSteps /\ ledger["target_i2c_platform"] = "paused"
  /\ "i2c-device" \notin facts
  /\ Boots(facts)
  /\ UNCHANGED faults

(* A fact is lost: an administrator's edit, an upgrade of the system, a     *)
(* service that stops, a device that goes away.                             *)
Drift(fact) ==
  /\ Fault
  /\ fact \in facts
  /\ Becomes(facts \ {fact}, {})
  /\ UNCHANGED <<conf, plan, direct, stale, ledger, lock, proc, orphans>>

Unplug ==
  /\ Fault
  /\ direct
  /\ direct' = FALSE
  /\ lost' = (lost \cup UNION {Shows(s, conf, facts) : s \in BluetoothSteps}) \ facts
  /\ clean' = {}
  /\ UNCHANGED <<conf, plan, facts, stale, ledger, lock, proc, orphans>>

(* The autoconnect service asks again and again for the device of its       *)
(* record, and finds it.                                                    *)
Watches == "autoconnect-active" \in facts

Reconnect ==
  /\ Watches
  /\ {"bluetooth-record", "paired", "trusted"} \subseteq facts
  /\ "connected" \notin facts
  /\ Becomes(facts \cup {"connected"}, Installers)
  /\ UNCHANGED <<conf, plan, direct, stale, ledger, lock, proc, orphans, faults>>

(* The uninstaller, which may itself die between two removals.  Nothing     *)
(* keeps it from running beside an installer, or beside what one left       *)
(* running; here nobody does that.  Its last act with --purge-data takes    *)
(* the ledger and the lock along.                                           *)
Uninstall ==
  /\ Fault
  /\ conf.target /\ orphans = {}
  /\ \A i \in Installers : proc[i].at \in {"idle", "done"}
  /\ \/ /\ \E n \in 1..Len(Removals) :
             Becomes(facts \ UNION ToSet(SubSeq(Removals, 1, n)), {})
        /\ UNCHANGED <<ledger, lock>>
     \/ /\ Becomes(facts \ (OwnedData \cup UNION ToSet(Removals)), {})
        /\ ledger' = [s \in AllSteps |-> "none"]
        /\ lock' = [dir |-> FALSE, owner |-> None]
  /\ UNCHANGED <<conf, plan, direct, stale, proc, orphans>>

-----------------------------------------------------------------------------
(* One capture card and one playback card are there, beyond doubt which, or *)
(* not; nobody asks without Bluetooth.                                      *)
DirectAudio(c) == IF c.bluetooth = "none" THEN {FALSE} ELSE BOOLEAN

Init ==
  /\ conf \in Configurations
  /\ plan = Plan(conf)
  /\ facts \in IF ~ conf.target THEN {{"packages"}}
              ELSE IF OnTarget(conf) THEN {{}, {"i2c-device"}} ELSE {{}}
  /\ lost = {} /\ orphans = {} /\ clean = {}
  /\ direct \in DirectAudio(conf)
  /\ ledger = [s \in ToSet(Registered(conf)) |-> "none"]
  /\ lock = [dir |-> FALSE, owner |-> None]
  /\ proc = [i \in Installers |-> Fresh]
  /\ faults = MaxFaults(conf, "i2c-device" \in facts) /\ stale = FALSE

Run(i) == \/ Mkdir(i) \/ ReadOwner(i) \/ RemoveRecord(i) \/ RemoveDirectory(i)
          \/ MkdirAgain(i) \/ RecordOwner(i) \/ Unlock(i)
          \/ Probe(i) \/ Act(i) \/ Pause(i) \/ Refuse(i) \/ Check(i) \/ Finish(i)

Next ==
  \/ \E i \in Installers : Start(i) \/ Run(i)
  \/ \E i \in Installers : ActionFails(i) \/ ActionLies(i) \/ Kill(i) \/ Interrupt(i)
  \/ \E s \in AllSteps : OrphanEnds(s)
  \/ \E fact \in Fragile : Drift(fact)
  \/ Unplug \/ PowerCut \/ Reboot \/ Reconnect \/ Uninstall

Spec == Init /\ [][Next]_vars

(* A running installer makes progress, and the operator follows the        *)
(* installer's instructions: reboot when asked to, and run it again.          *)
FairSpec == /\ Spec
            /\ \A i \in Installers : WF_vars(Run(i)) /\ WF_vars(Start(i))
            /\ SF_vars(Reboot) /\ WF_vars(Reconnect)

-----------------------------------------------------------------------------
(* Properties *)

(* For every configuration the final order is accepted, loses no step, runs *)
(* every step behind the steps its precondition probes, and starts the      *)
(* voice service only behind the switch to the release it runs from.        *)
PlanOrdered ==
  (\E i \in Installers : At(i, "mkdir")) => Ordered(plan, conf)

Working(i) == proc[i].at \in {"step", "act", "check"}

(* As long as no installer died holding the lock, at most one works on the  *)
(* machine, however many are started.  (Two reruns that find the same stale *)
(* lock can both take it over.)                                             *)
OneInstaller ==
  ~ stale => \A i, j \in Installers : Working(i) /\ Working(j) => i = j

(* A record says complete only of a step that held: whatever its probe      *)
(* misses now held once and was lost afterwards.                            *)
LedgerTruth == \A s \in AllSteps :
  ledger[s] = "complete" => Satisfied(s) \/ (Shows(s, conf, facts) \ facts) \subseteq lost

(* Effects a converged machine may do without: files on the way to others,   *)
(* and a request for a device that was there.                               *)
ByProducts == {"ollama-part", "ollama-archive", "whisper-part", "i2c-requested"}

(* Effects behind which their probe does not look, and no later step does.  *)
Unprobed(c) ==
  {"headset-fragment"}
  \cup (IF c.profile = "none" THEN {"environment-directories", "environment-loaded"} ELSE {})

(* An installer that reports success leaves a converged machine, whatever   *)
(* earlier runs left half done: unless something else changed the machine   *)
(* during this very run, every planned step holds and everything any of     *)
(* them does is done, not just what its probe looks at.  The record of the  *)
(* existing thermostat's reconciliation is the exception, which the same    *)
(* run's activation outdates.                                               *)
SuccessIsConverged ==
  \A i \in clean : At(i, "done") =>
    \A s \in AllSteps \ {Reconciliation} :
      /\ Satisfied(s)
      /\ \/ s \in BluetoothSteps /\ direct
         \/ ToSet(Effects(s, conf)) \ (ByProducts \cup Unprobed(conf)) \subseteq facts

(* A lock directory without an owner's record, and nobody about to write    *)
(* or remove one: every later installer refuses it until it is removed by   *)
(* hand.                                                                    *)
Abandoned == /\ lock = [dir |-> TRUE, owner |-> None]
             /\ \A i \in Installers : proc[i].at \notin {"record", "rmdir", "unlock"}

(* A machine no rerun repairs.                                              *)
Wedged ==
  \E s \in AllSteps : Stuck(s, conf, facts) /\ ~ Satisfied(s)

(* Rerunning the installer converges: whatever was killed, interrupted,     *)
(* paused, lost or uninstalled, in the end everything holds and stays so,   *)
(* unless a process died between creating or emptying the lock directory    *)
(* and the next step, or an action left one of the states its rerun cannot  *)
(* start from.                                                              *)
Converges ==
  <>[]Abandoned \/ <>[]Wedged \/ <>[](\A s \in AllSteps : Satisfied(s))

-----------------------------------------------------------------------------
(* What the theorems take of the plans and of the machine.  PlanOrdered     *)
(* looks at the first in every configuration, MCInstall at the second.      *)

PlansOrdered == \A c \in Configurations : Ordered(Plan(c), c)

(* Effects no probe looks at: if one of them drifts, nobody sees it.        *)
Hidden == {"agent-group", "environment-loaded", "ollama-loaded", "service-loaded",
           "service-directories", "autoconnect-loaded"}

DriftIsSeen == Fragile \cap Hidden = {}
=============================================================================
