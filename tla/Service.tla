------------------------------ MODULE Service -------------------------------
(***************************************************************************)
(* The appliance as a systemd unit (packaging/systemd/gonken-agent.service) *)
(* above the releases of module Release: every start reconciles, removes    *)
(* the readiness records of the process before and runs what `current`      *)
(* points to.  The process publishes under /run whether it is ready         *)
(* (voice_runtime.py); appliance_manager.py, llm/admin.py and the command   *)
(* line believe a record only if it can be that of the process in service   *)
(* (runtime_readiness.py).  The model it talks to is selected by            *)
(* llm/admin.py and admitted by the qualification record that               *)
(* model_roster_manager.py keeps.                                           *)
(***************************************************************************)
EXTENDS Release

CONSTANTS
  Pre,        \* the slot of the reconciliation that precedes a start
  Models, Default,  \* the roster; its default, also the configured model
  Setups      \* what may happen: see MCService

Events == {"commands", "restarts", "crashes", "faults", "edits", "switches", "provisions"}

ASSUME ServiceAssumption ==
  /\ Pre \in Procs \ Updaters /\ Default \in Models /\ None \notin Models
  /\ \A s \in Setups : /\ s.commands \subseteq Commands /\ s.built \subseteq Commits
                       /\ s.installed \in Pointers /\ s.left \in [Events -> Nat]

VARIABLES
  setup, left,   \* the commands there are; how much may still happen (bounds)
  unit,          \* the state of gonken-agent.service
  owed,          \* a command has yet to restart it
  app,           \* its main process: what it runs, has read, and its place
  ready, pending, \* ready.json and readiness.json
  conf,          \* the configuration file, by the number of its edits
  sel,           \* active-model.json: the model selected, or None
  roster,        \* the qualification record and the provisioning under way
  switch         \* the model switch under way

records == <<ready, pending>>
choice == <<conf, sel, roster, switch>>
system == <<vars, setup>>
all == <<system, left, unit, owed, app, records, choice>>

NoApp == [at |-> "none", release |-> None, conf |-> 0, model |-> None]
NoSwitch == [at |-> "idle", model |-> None, prev |-> None, conf |-> 0, cut |-> FALSE]

Take(event) == left[event] > 0 /\ left' = [left EXCEPT ![event] = @ - 1]

(* A record outlives its process; its start ticks then match nobody.        *)
Orphaned(record) == IF record = None THEN None ELSE [record EXCEPT !.live = FALSE]

-----------------------------------------------------------------------------
(* Who is believed *)

\* Mutant: nobody asks whether the process is the one that wrote the record.
AnyProcess(record) == TRUE

SameProcess(record) == record.live

(* validate_record: of the release that is current, by a process that lives. *)
Valid(record) == record # None /\ record.release = current /\ SameProcess(record)

(* read_ready for a caller with configuration c.  A WAITING record of the   *)
(* same process counts unless it is older by a second.                      *)
Ready(c) ==
  /\ Valid(ready) /\ ready.conf = c
  /\ ~ (Valid(pending) /\ pending.status = "WAITING" /\ ready.sameSecond)

(* _admit_model_tools: the record is complete and admits the model's tools. *)
Admitted(m) == roster.status = "READY" /\ m \in roster.qualified

-----------------------------------------------------------------------------
(* The unit *)

\* Restart=on-failure, within the start limit.
Failure == unit' \in {"waiting", "failed"}

Usable(c) == c # None /\ Present(c)

\* ConditionPathIsDirectory, then the reconciliation of that very release.
StartPre ==
  /\ unit = "pre"
  /\ IF Usable(current) THEN unit' = "reconciling" /\ Start(Pre, "reconcile", None)
                        ELSE unit' = "skipped" /\ UNCHANGED vars
  /\ UNCHANGED <<setup, left, owed, app, records, choice>>

Reconciled ==
  \/ At(Pre, "reconcile") /\ Accepts(journal, current)
  \/ At(Pre, "verified") \/ At(Pre, "undone")

PreStep ==
  /\ unit = "reconciling" /\ Step(Pre)
  /\ IF ~ At(Pre, "idle")' THEN UNCHANGED unit
     ELSE IF Reconciled THEN unit' = "clean" ELSE Failure
  /\ UNCHANGED <<setup, left, owed, app, records, choice>>

PreDies ==
  /\ unit = "reconciling" /\ Take("crashes") /\ Kill(Pre) /\ Failure
  /\ UNCHANGED <<setup, owed, app, records, choice>>

RemoveRecords ==
  /\ unit = "clean" /\ unit' = "exec"
  /\ ready' = None /\ pending' = None
  /\ UNCHANGED <<system, left, owed, app, choice>>

Exec ==
  /\ unit = "exec"
  /\ IF Usable(current)
     THEN unit' = "running" /\ app' = [NoApp EXCEPT !.at = "load", !.release = current]
     ELSE Failure /\ UNCHANGED app
  /\ UNCHANGED <<system, left, owed, records, choice>>

\* Only a process that ends by itself takes its records with it.
Ends(orphans) ==
  /\ app' = NoApp
  /\ ready' = IF orphans THEN Orphaned(ready) ELSE None
  /\ pending' = IF orphans THEN Orphaned(pending) ELSE None

AppDies ==
  /\ unit = "running" /\ Take("crashes") /\ Ends(TRUE) /\ Failure
  /\ UNCHANGED <<system, owed, choice>>

\* systemctl restart: what runs is stopped first, a start under way broken off.
Restart ==
  /\ IF app # NoApp THEN unit' = "stopping" ELSE unit' \in {"pre", "failed"}
  /\ IF At(Pre, "idle") THEN UNCHANGED vars ELSE Kill(Pre)

\* SIGTERM and close(), or SIGKILL when that takes too long.
Stopped ==
  /\ unit = "stopping" /\ unit' \in {"pre", "failed"}
  /\ \/ Ends(FALSE) /\ UNCHANGED left
     \/ Take("crashes") /\ Ends(TRUE)
  /\ UNCHANGED <<system, owed, choice>>

\* After RestartSec; by an operator or at the next boot.
Again ==
  /\ unit \in {"waiting", "failed", "skipped"} /\ unit' = "pre"
  /\ unit = "skipped" => Usable(current)
  /\ UNCHANGED <<system, left, owed, app, records, choice>>

-----------------------------------------------------------------------------
(* The process *)

Chosen == IF sel = None THEN Default ELSE sel

Load ==
  /\ unit = "running" /\ app.at = "load"
  /\ app' = [app EXCEPT !.at = "probe", !.conf = conf, !.model = Chosen]
  /\ switch' = [switch EXCEPT !.cut = FALSE]
  /\ UNCHANGED <<system, left, unit, owed, records, conf, sel, roster>>

\* A process that is told to stop goes on until it looks.
Place(from, to) ==
  unit \in {"running", "stopping"} /\ app.at = from /\ app' = [app EXCEPT !.at = to]

\* The devices, the model, and a sentence spoken.
Probe ==
  /\ Admitted(app.model) /\ Place("probe", "publish")
  /\ UNCHANGED <<system, left, unit, owed, records, choice>>

Publish ==
  /\ Place("publish", "announce")
  /\ \E same \in IF pending = None THEN {FALSE} ELSE BOOLEAN :
       ready' = [release |-> app.release, conf |-> app.conf, model |-> app.model,
                 live |-> TRUE, sameSecond |-> same]
  /\ UNCHANGED <<system, left, unit, owed, pending, choice>>

State(status) == [status |-> status, release |-> app.release, live |-> TRUE]

Announce ==
  /\ Place("announce", "serving") /\ pending' = State("READY")
  /\ UNCHANGED <<system, left, unit, owed, ready, choice>>

\* Any failure of a probe, of a write or of a turn; the model's is no surprise
\* while its qualification is in doubt.
Trouble ==
  /\ \E place \in {"probe", "publish", "announce", "serving"} : Place(place, "clear")
  /\ IF app.at \in {"probe", "serving"} /\ ~ Admitted(app.model)
     THEN UNCHANGED left ELSE Take("faults")
  /\ UNCHANGED <<system, unit, owed, records, choice>>

ClearReady ==
  /\ Place("clear", "wait") /\ ready' = None
  /\ UNCHANGED <<system, left, unit, owed, pending, choice>>

Wait ==
  /\ Place("wait", "probe") /\ pending' = State("WAITING")
  /\ UNCHANGED <<system, left, unit, owed, ready, choice>>

-----------------------------------------------------------------------------
(* The administrator: releases, configuration, restarts *)

AdminStarts(p) ==
  /\ p # Pre /\ Take("commands")
  /\ \E cmd \in setup.commands, goal \in Pointers : Start(p, cmd, goal)
  /\ UNCHANGED <<setup, unit, owed, app, records, choice>>

\* update.sh and rollback.sh end with a restart, unless they are told not to.
Restarts(p) == /\ proc[p].cmd \in {"update", "rollback"} /\ proc[p].main
               /\ proc[p].at \in {"verified", "prune", "remove"} /\ At(p, "idle")'

AdminStep(p) ==
  /\ p # Pre /\ Step(p)
  /\ IF Restarts(p) THEN owed' \in {owed, TRUE} ELSE UNCHANGED owed
  /\ UNCHANGED <<setup, left, unit, app, records, choice>>

AdminDies(p) ==
  /\ p # Pre /\ Take("crashes") /\ Kill(p)
  /\ UNCHANGED <<setup, unit, owed, app, records, choice>>

RestartOwed ==
  /\ owed /\ owed' = FALSE /\ Restart
  /\ UNCHANGED <<setup, left, app, records, choice>>

\* appliance_manager.py activate, which takes the records away itself.
Activate ==
  /\ Take("restarts") /\ ready' = None /\ pending' = None /\ Restart
  /\ UNCHANGED <<setup, owed, app, choice>>

EditConfig ==
  /\ Take("edits") /\ conf' = conf + 1
  /\ UNCHANGED <<system, unit, owed, app, records, sel, roster, switch>>

-----------------------------------------------------------------------------
(* The model switch: select, restart, wait; undo that the same way *)

GiveUp(s) == [s EXCEPT !.at = "idle", !.cut = @ \/ s.at # "smoke"]

Only(s) == switch' = s /\ UNCHANGED <<system, left, unit, owed, app, records, conf, sel, roster>>

Begin ==
  /\ switch.at = "idle" /\ sel # None /\ Take("switches")
  /\ \E m \in Models \ {sel} :
       switch' = [switch EXCEPT !.at = "smoke", !.model = m, !.prev = sel, !.conf = conf]
  /\ UNCHANGED <<system, unit, owed, app, records, conf, sel, roster>>

SwitchSelects ==
  /\ switch.at = "smoke"
  /\ sel' = switch.model /\ switch' = [switch EXCEPT !.at = "restart"]
  /\ UNCHANGED <<system, left, unit, owed, app, records, conf, roster>>

Attempt == [restart |-> "await", return |-> "awaitback"]

SwitchRestarts ==
  /\ switch.at \in DOMAIN Attempt
  /\ Restart /\ switch' = [switch EXCEPT !.at = Attempt[@]]
  /\ UNCHANGED <<setup, left, owed, app, records, conf, sel, roster>>

\* The start job is done, and the wait for readiness begins.
SwitchAwaits ==
  \/ switch.at = "await" /\ unit = "running" /\ Only([switch EXCEPT !.at = "poll"])
  \/ switch.at = "awaitback" /\ unit = "running" /\ Only([switch EXCEPT !.at = "pollback"])

ReadyFor(m) == Ready(switch.conf) /\ ready.model = m

SwitchSucceeds ==
  /\ \/ switch.at = "poll" /\ ReadyFor(switch.model)
     \/ switch.at = "pollback" /\ ReadyFor(switch.prev)
  /\ Only([switch EXCEPT !.at = "idle"])

\* Mutant: the earlier model is selected again and no process told.
SelectedOnly == "idle"

SelectedAndRestarted == "return"

Undoing == SelectedAndRestarted

\* The start job failed, or 20 or 120 seconds are over.
Undo ==
  /\ switch.at \in {"await", "poll"}
  /\ sel' = switch.prev /\ switch' = [switch EXCEPT !.at = Undoing]
  /\ UNCHANGED <<system, left, unit, owed, app, records, conf, roster>>

\* The undoing failed as well.
SwitchFails == switch.at \in {"awaitback", "pollback"} /\ Only(GiveUp(switch))

\* A model that fails its smoke test, or the command is interrupted.
SwitchEnds ==
  \/ switch.at = "smoke" /\ Only(GiveUp(switch))
  \/ /\ switch.at # "idle" /\ Take("faults") /\ switch' = GiveUp(switch)
     /\ UNCHANGED <<system, unit, owed, app, records, conf, sel, roster>>

-----------------------------------------------------------------------------
(* Qualification: provision() of model_roster_manager.py *)

Provision(r) == roster' = r
OnlyRoster(r) ==
  Provision(r) /\ UNCHANGED <<system, left, unit, owed, app, records, conf, sel, switch>>

\* Every earlier READY is void before the first new attempt.
Qualify ==
  /\ roster.at = "idle" /\ Take("provisions")
  /\ \E default \in BOOLEAN :
       Provision([at |-> "models", status |-> "QUALIFYING", qualified |-> {},
                  default |-> default, selected |-> None])
  /\ UNCHANGED <<system, unit, owed, app, records, conf, sel, switch>>

\* Some models pass; which must, and which is kept, is read at the end.
Qualified ==
  /\ roster.at = "models"
  /\ \E q \in SUBSET Models :
       OnlyRoster([roster EXCEPT !.qualified = q, !.at = "admission", !.selected = sel])

Needed == {Default} \cup (IF roster.default THEN {} ELSE {roster.selected} \ {None})

TakesDefault == roster.selected = None \/ (roster.default /\ roster.selected # Default)

Admission ==
  /\ roster.at = "admission"
  /\ IF Needed \subseteq roster.qualified
     THEN OnlyRoster([roster EXCEPT !.at = "select"])
     ELSE OnlyRoster([roster EXCEPT !.at = "idle", !.status = "FAIL"])

\* No restart goes with it.
ProvisionSelects ==
  /\ roster.at = "select"
  /\ sel' = IF TakesDefault THEN Default ELSE sel
  /\ switch' = [switch EXCEPT !.cut = @ \/ sel' # Chosen]
  /\ Provision([roster EXCEPT !.at = "record"])
  /\ UNCHANGED <<system, left, unit, owed, app, records, conf>>

Recorded ==
  /\ roster.at = "record"
  /\ OnlyRoster([roster EXCEPT !.at = "idle", !.status = "READY"])

ProvisionEnds ==
  /\ roster.at # "idle" /\ Take("faults")
  /\ \E status \in {roster.status, "FAIL"} :
       Provision([roster EXCEPT !.at = "idle", !.status = status])
  /\ UNCHANGED <<system, unit, owed, app, records, conf, sel, switch>>

-----------------------------------------------------------------------------
PowerCycle ==
  /\ Take("crashes")
  /\ proc' = [p \in Procs |-> Idle] /\ lock' = None
  /\ app' = NoApp /\ ready' = None /\ pending' = None      \* /run is volatile
  /\ unit' = "pre" /\ owed' = FALSE
  /\ switch' = GiveUp(switch) /\ roster' = [roster EXCEPT !.at = "idle"]
  /\ UNCHANGED <<current, journal, seal, bad, setup, conf, sel>>

\* A boot of a machine that was installed and qualified, or not yet.
ServiceInit ==
  \E s \in Setups :
    /\ setup = s /\ left = s.left
    /\ current = s.installed
    /\ journal = IF s.installed = None THEN NoJournal
                 ELSE [cand |-> s.installed, prev |-> None, phase |-> "post_verified"]
    /\ seal = [c \in Commits |-> IF c \in s.built \cup {s.installed} THEN "sealed" ELSE "absent"]
    /\ lock = None /\ proc = [p \in Procs |-> Idle] /\ bad = {}
    /\ unit = "pre" /\ owed = FALSE /\ app = NoApp /\ ready = None /\ pending = None
    /\ conf = 0 /\ sel = s.selected
    /\ roster = [at |-> "idle", status |-> IF s.selected = None THEN "none" ELSE "READY",
                 qualified |-> IF s.selected = None THEN {} ELSE Models,
                 default |-> FALSE, selected |-> None]
    /\ switch = NoSwitch

Unit == StartPre \/ PreStep \/ RemoveRecords \/ Exec \/ Stopped \/ Again

App == Load \/ Probe \/ Publish \/ Announce \/ ClearReady \/ Wait

Switching == SwitchSelects \/ SwitchRestarts \/ SwitchAwaits \/ SwitchSucceeds \/ Undo \/ SwitchFails

Provisioning == Qualify \/ Qualified \/ Admission \/ ProvisionSelects \/ Recorded \/ ProvisionEnds

ServiceNext ==
  \/ Unit \/ PreDies \/ AppDies \/ App \/ Trouble
  \/ \E p \in Procs : AdminStarts(p) \/ AdminStep(p) \/ AdminDies(p)
  \/ RestartOwed \/ Activate \/ EditConfig
  \/ Begin \/ Switching \/ SwitchEnds \/ Provisioning \/ PowerCycle

(* systemd and the processes it and the administrator run go on.            *)
ServiceSpec ==
  /\ ServiceInit /\ [][ServiceNext]_all
  /\ WF_all(Unit) /\ \A p \in Procs : WF_all(AdminStep(p))

-----------------------------------------------------------------------------
(* Properties *)

(* Whoever is told that the appliance is ready is told the truth: a process *)
(* of the release that `current` leads to runs, with the caller's           *)
(* configuration and the model the record names, and has been through its   *)
(* probe.  A record never speaks for a process that died, for the release   *)
(* before an update or for the configuration before an edit.                *)
ReadyIsTrue ==
  \A c \in 0..conf : Ready(c) =>
    /\ app.at \in {"announce", "serving", "clear"}
    /\ app.release = current /\ app.conf = c /\ app.model = ready.model

(* Outside a switch the process talks to the model that is selected, however *)
(* the last switch ended: done, undone, or given up half-way with a restart  *)
(* to come.  Where none came (the command was killed, or provisioning        *)
(* selected the default) the next start mends it.                           *)
SelectionInForce ==
  switch.at = "idle" /\ ~ switch.cut /\ app.at \notin {"none", "load"} => app.model = Chosen

(* A start completes or restores whatever activation was interrupted,        *)
(* however many processes die on the way.                                   *)
StartSettles ==
  unit = "pre" /\ journal.phase \in {"prepared", "switched"} /\ Usable(current) ~>
    journal.phase \in {"post_verified", "rolled_back"}

=============================================================================
