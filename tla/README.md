# Verification of the GonKenLab agent

The repository is a voice assistant for a Raspberry Pi that also keeps a room
cool. It is several programs:

- **the environment daemon** (`src/gonken_agent/environment/`): reads a
  temperature sensor, decides whether a fan should run, drives a relay over one
  exclusive GPIO line, takes requests over a Unix socket;
- **the voice appliance** (`src/gonken_agent/voice_runtime.py` and
  `audio/`, `interaction/`, `llm/`, `retrieval/`): wakes on a keyword or a
  push-to-talk button, transcribes, answers, speaks, and is a client of the
  daemon;
- **the lifecycle tools** (`scripts/`): build immutable releases, activate
  them, update, roll back, install and remove.

This directory models what can be checked of them. Paths below are relative to
the repository; the source map of every definition is in `PROJECT.json`.

## Inventory

### Fan controller (`environment/controller.py`, `domain.py`)

- *State*: policy (mode AUTOMATIC, SEMI_AUTOMATIC, MANUAL, DISABLED; start and
  stop thresholds; minimum on and off times; generation), commanded power, the
  last valid readings, sensor quality and recovery streak, the armed stop of
  SEMI_AUTOMATIC, the time of the last change.
- *Operations*: `observe`, `tick`, `set_fan_power`, `scheduled_fan_power`,
  `set_mode`, `update_policy`, `shutdown`, `actuator_error_safe_off`.
- *Hard*: the same decision is reached from eight entries in any order; a mode
  switch keeps parts of the state of the mode before.
- *Correct when*: DISABLED is OFF, no trust in AUTOMATIC is OFF, trust takes a
  streak of valid readings, one outlier of three starts nothing, the relay is not
  short-cycled, SEMI_AUTOMATIC never starts by itself.

### Service core, automation, relay driver, policy file
(`environment/service.py`, `automation.py`, `actuators/gpiod_relay.py`, `policy.py`, `daemon.py`, `server.py`)

- *State*: the controller, the driver's acknowledged power and request of the
  line, the level of the line, the last reported command, timed jobs, the power
  hold, the closed flag, the policy file.
- *Operations*: `fan.set`, `mode.set`, `policy.update`, `sensor.read`,
  `automation.add`, `automation.cancel`, `power.prepare`, `power.release`, the
  poll with its tick of the jobs, shutdown, start. Around it: a process that
  starts (read the file, take the owner lock, clear a stale socket, bind),
  stops or dies, and clients that wait for an answer for a while only.
- *Interaction*: one lock serialises handler threads and the polling thread.
  The core calls the controller, then the driver, then the file. The tick calls
  back into the core for every write.
- *Hard*: partial failure (memory changed, line not; line changed, file not),
  requests alive after the shutdown, timers against thermostat against
  clients, a hold whose owner disappears; processes that start and end beside
  each other, requests that are served after their client gave up.
- *Correct when*: reports are true, a granted hold keeps the fan off and ends,
  nothing temporary reaches the file, a line stuck ON is driven OFF, a timed
  run ends, one daemon serves, no client's update is lost to another's.

### Release activation and updater (`scripts/release_manager.py`, `update_manager.py`)

- *State*: the link `current`, one journal record (candidate, previous,
  phase), the release directories, a non-blocking maintenance lock.
- *Operations*: `build`, `activate` with pruning, `reconcile` (systemd runs it
  as root before each start of the appliance), `rollback-previous`, `update`.
- *Hard*: two durable objects that change one after the other, death between
  any two writes, competing processes, damage to a sealed release.
- *Correct when*: every crash leaves a pair of journal and link the next
  reconciliation can finish or undo, what `current` names is whole, the
  rollback target survives, an interrupted activation settles.

### Installer (`scripts/install.sh`, `lib/install_engine.sh`, `installer_plan.py`, the managers)

- *State*: the source record (the selected configuration), a ledger with one
  record per step, a lock directory with its owner's record, and the machine.
- *Operations*: register the steps of a configuration and order them; for each
  step probe, act, probe again, record; take over a stale lock; pause for a
  reboot. `uninstall_manager.py` removes, in an order of its own.
- *Hard*: the installer may be killed, interrupted or cut off anywhere and is
  meant to be run again; a probe does not look at all its action did; a lock of
  two objects; managers whose precondition an earlier failure may have spoilt.
- *Correct when*: only one installer works, the ledger is not better than the
  machine, a reported success is a converged machine, reruns converge.

### Power session (`power.py`)

- *State*: a pending and an armed authorization, each with an expiry.
- *Operations*: `begin`, `cancel`, `handle`, `consume`, `execute_confirmed`
  (prepare the daemon's hold, check the answer, check the expiry again, record,
  call logind, release the hold on failure).
- *Correct when*: at most one host action per confirmation, never after the
  expiry, never without an acknowledged OFF.

### Voice appliance (`voice_runtime.py`, `audio/`, `interaction/`, `operational.py`)

- *State*: the main thread's place, capture threads with their bounded queues
  and temporary files, the indicator LED, the button and the hold it started,
  the announcer's marks, the receipt of the current exchange.
- *Operations*: the standby loop (capture, transcribe, announce), the turn (cue,
  listen, reply, speak, acknowledge, confirm, execute), push-to-talk, the error
  path, the stop signal.
- *Interaction*: it polls notices and events of the daemon, which may restart,
  and acknowledges what it said; it asks the daemon for a power hold.
- *Hard*: threads that do not stop in time, queues that overflow, an exception
  from any call, announcements marked before they are spoken, receipts that
  expire or are evicted while they are said.
- *Correct when*: nobody is recorded in the dark, it does not hear itself, no
  recording is left on disk, what it acknowledges was said, an event is taken
  once, a stop ends it, an error does not.

### Appliance unit, readiness and the choice of the model
(`gonken-agent.service`, `voice_runtime.py`, `runtime_readiness.py`, `appliance_manager.py`, `llm/admin.py`, `model_roster_manager.py`)

- *State*: the unit, the process and what it has read at its start, two records
  under `/run`, the configuration file, the selected model, the qualification
  record.
- *Operations*: start (condition, reconcile, remove the records, exec), probe,
  publish, withdraw, stop, restart; activate and wait; switch the model and undo
  the switch; qualify the roster; read readiness.
- *Hard*: records that outlive their process, their release or their
  configuration; several commands that restart the same unit; a switch in which
  the restart, the wait or the undoing fails.
- *Correct when*: a record that is believed is true, the model in use is the one
  selected, a start settles what an activation left behind.

### Conversation: intents, tool broker, language model client
(`operational.py`, `environment/intents.py`, `environment/automation.py` parsers, `tool_broker.py`, `llm/ollama.py`, the turn of `voice_runtime.py`)

- *State*: the words of a turn that are not recorded yet, the tail of words the
  wake matcher carries, the question put together, the reply thread with what
  its question allows it, the one connection to the model server with its
  watcher, the stop and closed flags.
- *Operations*: match the wake phrase in a window, take the rest of the window
  or a second recording, understand a sentence without a model, ask the model,
  parse and execute up to two tool calls, ask the daemon, answer, recover.
- *Interaction*: the main thread waits for a reply thread and may leave it to
  itself; a thread left alone keeps the connection and may still change things;
  the daemon does, refuses, fails half-way at or leaves open what it is asked.
- *Hard*: a sentence cut by the windows is another sentence; a model that
  proposes several calls, of which some are refused after others were done; a
  watcher that looks before there is a connection; answers of threads nobody
  waits for.
- *Correct when*: an answer is true of what is done for it and stays so, a
  question has one effect at most, a command is
  carried out whole or not at all, a wake phrase is noticed wherever it is cut,
  a question ends.

### Not to be modelled

The sensor driver is the environment of the models; simulation drives tests
only. Retrieval, diagnostics, evidence, command line, configuration and dashboard are I/O, parsing,
formatting, numerical code or read-only probes: most of the tree's lines, and
little of its state. Of the language model client the requests and their ends are
modelled, not payloads, prompts and history. The managers of packages, services, models and Bluetooth
are host configuration; `Provision` keeps a contract of each. The legacy
desktop agent at the root of the tree is not what is installed.

`PROJECT.json` lists all components with their status, and the hazards with
the properties that cover them.

## Modules

| module | models | composed from |
|---|---|---|
| `EnvController` | the controller as operators on its record | |
| `Controller` | the controller called in any order | `EnvController` |
| `EnvController_proofs` | lemmas about the controller's operators | `EnvController`, TLAPS |
| `Controller_proofs` | theorems about `Controller` | `Controller`, the lemmas |
| `EnvService` | core, jobs, hold, driver, file, lifecycle | `EnvController` |
| `EnvServer` | daemon processes, owner lock, socket, clients | `EnvService` |
| `EnvServer_proofs` | theorems about the core alone and under its processes | `EnvServer`, the lemmas |
| `Activation` | what activation promises: a pointer with transactions | |
| `Release` | releases, journal, link, lock, updater | instance of `Activation` |
| `Release_proofs` | theorems about `Release`, the refinement among them | `Release`, TLAPS |
| `Service` | the appliance as a unit, its readiness, the model selected | `Release` |
| `Service_proofs` | theorems about `Service` | `Service`, TLAPS |
| `InstallPlan` | the steps of every configuration, their order and needs | |
| `Provision` | what each step does to the machine and what it probes | `InstallPlan` |
| `Install` | the step engine, its lock and ledger, faults, reruns | `Provision` |
| `Install_proofs` | theorems about `Install` | `Install`, TLAPS |
| `WakePipeline` | one capture thread, its queue and its files | |
| `Notices` | the daemon's receipts and notices | |
| `PowerSession` | request and confirmation of a power action | |
| `Voice` | the appliance, its capture threads, the daemon it talks to | the three above |
| `Voice_proofs` | theorems about `Voice` | `Voice`, TLAPS |
| `Grammar` | what a sentence means and allows without a model | |
| `WakeWords` | the wake phrase in transcripts | |
| `Conversation` | a question from its first word to the answer | the two above |
| `Conversation_proofs` | theorems about `Conversation` | `Conversation`, TLAPS |
| `MC...` | constants for TLC | the module of that name |

**EnvController.** Each method is an operator from record to record; `Evaluate`
is `_evaluate`, one disjunct of a CASE per early return. `Transition` carries
the reasons because the properties tell a thermostat change from a user's.
Time is an age that stops counting at the longest dwell. The median is compared
as twice its value, so that an even window needs no fraction.

**Controller.** One action per method and one for time. Two history variables
serve the properties only: `recent` (the last readings) and `flipAge` (how long
the fan really kept its power).

**EnvService.** A request is one step: the core holds its lock during it, and
only the relay line and the policy file outlive the process, so a crash inside
a request, between line and file, leaves what a failing save followed by
`Reboot` leaves. A poll is a step, then one step per job that its tick visits
(`todo`), with the lock taken. `Applied` enumerates what commanding the line
can do: success, a failure repaired by a safe OFF, a failure whose safe OFF
fails as well. `Reboot` is exit or crash together with the next start. Due
times and expiries are countdowns that stop at 0.

**EnvServer.** A process is at a place of its start-up or its end (`daemon`);
`owner` and `path` are the lock file and the socket path, whose inode is told by
who listens on it. The core's variables are those of the process that serves:
`Bind` and `Dies` replace them (`NewProcess`). `Answer` is `handle` for a client
that is known by name, with every code it may get; `TimeOut` makes a request
nobody waits for, which is served all the same. `Anonymous` are the requests of
`EnvService`.

**Release.** A step is one durable write or the reads before the next one.
`at` is the position in the command, `main` tells the activation proper from
the reconciliation that opens it. A release directory is absent, mutable
(renamed but its top not yet closed), sealed (passes
`validate_release_static`) or broken. `Kill` ends a process before any of its
writes and gives its lock back; it stands for a raised I/O error too.
`Corrupt` damages a sealed release.

**Activation.** The abstract specification: `active` changes hands in
transactions that begin, move the pointer between the two releases they name,
and end kept or undone. It knows no process and no crash. `Release` maps
`current` to `active` and the journal to `transaction` ("prepared" and
"switched" are open, "post_verified" is kept, "rolled_back" undone).

**Service.** The unit goes through the `ExecStartPre` lines of its file as one
action each; the first is the `reconcile` command of `Release`, in a process
slot of its own (`Pre`). `app` is what the process has fixed at its start
(release, configuration, model) and its place in `wait_until_ready`, whose two
records are written one after the other (`Publish`, `Announce`). A record says
whose it is by `live`: it is orphaned when its process ends, for then its start
ticks match nobody. `Ready(c)` is `read_ready` for a caller with configuration
`c`. `switch` is the place of `llm/admin.py switch`, `roster` of
`model_roster_manager.py provision`. `switch.cut` is history: a switch, or a
selection by the qualification, that was left without the restart it needs.

**InstallPlan.** `Registered` is the order in which `install.sh` registers the
steps of a configuration, `Needs` the postconditions each precondition runs,
`CandidateOrder` and `Refused` the reordering of `installer_plan.py`.

**Provision.** The machine is a set of facts. What a manager does and looks at
is an operator of its own, and a step pairs what `install.sh` calls. A contract lists the facts an
action establishes, in the order of the code, and the facts its probe looks
at; the difference is what a rerun may overlook. `Clears` and `Outdates` are
what an action takes back or makes obsolete (records bound to a release, a
configuration file or a daemon's invocation). `Able` collects what an action
needs besides what its precondition has just probed, and the states from which
it cannot start at all. `Removals` and `OwnedData` are the uninstaller's.

**Install.** One action per step of the engine: the lock with its takeover
(`Mkdir` to `RecordOwner`), `Probe`, `Act`, `Check`, the exit trap. Faults are
actions of their own and counted: an action that fails or lies after any
prefix of its effects, a kill whose child may outlive it (`OrphanEnds`), a
signal with the traps set, a power cut, drift, the uninstaller. `Reboot`,
`Start` and `Reconnect` are what the installer asks of the operator. `clean` is
history: the slots during whose run nobody else changed the machine.

**WakePipeline, Notices, PowerSession** are operators on one record each, named
after the methods they translate.

**Voice.** One action per call the main thread can be suspended or fail in;
`at` is the place, `next` where it continues. `Fails` is an exception from any
of them and goes through the same path as the code's: the error handler, the
finally clause, the wait. The capture threads run beside it; a `stop()` that
gives up waiting makes a thread `late`, and it goes on. The daemon's side is
the notices, its hold and its restart. `will` is the only history that is not
in the code: what the user really asked and confirmed.

**WakeWords, Grammar** are operators on sentences, which are sequences of
words. `Found` is `_wake_match` with its three searches in their order;
`Carried` the tail of `RollingWakeTranscriptMatcher`. `Meaning` chains the
parsers as `OperationalCommands.handle` does (`??` is "else"), each a list of
the forms its expressions accept: `ParseCommand` for timers, `ParseEnvironment`
for the room. `Authorizes` is `_mutation_authorized`. A number is a word of
`Numbers`; articles, politeness and "room" are dropped before.

**Conversation.** `Window` and `FollowUp` put the question together out of the
words the user says, `Question` is `_question_after_wake`; `Ask` answers a
deterministic command on the main thread and starts a reply thread for any
other. Each thread is a record of its place, what its question means and
allows, the calls left and what it will claim. A request to the model server
goes through `Acquire`, `Connect`, `Check` and `Receive` or `Broken`, beside
its watcher (`Expire`, `CutOff`). `Parse` and `Execute` are `ToolBroker`'s
transaction. `Request` is a change asked of the daemon, with every outcome of
`service.py` and its client: done; refused before anything is touched (busy,
invalid, disabled, another generation); or failed, with nothing, all or a part
of it done (`ByHalves`), since the handlers drop timers, change the mode and
drive the line before they save, and a failing write is followed by a safe OFF.
What is said of a failure is a rejection ("failed") or "cannot verify"
(`Doubts`), or the reply breaks off: only the timers catch an answer that cannot
be read. `changed` is the log of what the daemon was made to do, for which
question and whether wholly, `answers` what was claimed, `heard` how much of the
sentence was understood: all three are history and never cleared, so a thread
that was given up is followed into later questions.

## Runs

| run | question | distinct states |
|---|---|---|
| `controller` | the controller under every order of calls | about 416,000 |
| `service` | clients, timers, poll, hold, faults, restarts | about 277,000 |
| `service_live` | rival daemons, clients that time out and retry; do holds, stuck lines and timed runs end | about 88,600 |
| `release` | two processes, crashes, damaged releases; refinement of `Activation` | about 486,000 |
| `appliance` | starts, updates, rollbacks, edits, model switches, qualification, kills: is readiness true, is the selected model in force, does a start settle an interrupted activation | about 67,400 |
| `install` | every configuration; faults and reruns | about 197,000 |
| `voice` | the appliance against threads, daemon, failures, stop | about 126,000 |
| `conversation` | questions cut by the windows, tool calls, changes that fail half-way, requests that fail or never end | about 278,000 |
| `orphaned_run`, `timer_persisted`, `late_request` | statements the daemon does not keep | stop at the violation |
| `interrupted_restore` | a statement activation does not keep | stops at the violation |

What the properties say is written above each of them in the modules.

### Bounds

- *controller*: three temperatures around two thresholds (below, between, at);
  dwells of one and two units, so that a dwell may be met, missed by one, or
  changed under way; a window of three samples (even and odd fillings) and a
  streak of two; three generations, enough for two policy changes in one
  behaviour. `Window = 3` readings of history cover window and streak.
- *service*: one control sample and one recovery sample (median and streak are
  `controller`'s question), two job slots, one fault, three generations,
  countdowns of one to three units. `MaxLate = 0`: requests served after the
  shutdown are `late_request`'s subject. With a late request the saved mode of
  a hold whose shutdown dropped it may also reach the file, because shutdown
  forgets the hold without restoring the mode (`service.py:895`);
  `HoldNotPersisted` is therefore claimed without late requests only.
  The VIEW drops the reason of the last transition and the kind of distrust,
  which no action reads; slots are symmetric.
- *service_live*: one process with every request, fault and poll (`Alone`);
  rival processes without traffic (`Rivals`); two clients, three calls and one
  more reading of the policy, without polls (`Contended`); a client's update
  beside a power hold (`PowerPending`). Two processes, two requests under way.
- *release*: three releases (active, previous, one to prune or build), two
  slots, two damages so that candidate and previous may both be lost. Releases
  are symmetric. Nothing counts, so crashes are unlimited.
- *appliance*: one setup (`MCService`) per thing an administrator does:
  activation and rollback while the appliance runs, the updater, configuration
  edits with restarts, two model switches, a switch beside a qualification, the
  first installation. One command slot beside the unit's own reconciliation,
  two releases, two models, up to two deaths. No damage and one command at a
  time: with them activations may not settle (`interrupted_restore`, and the
  updater's reconciliation below).
- *install*: every configuration runs once without a fault (`PlanOrdered` is
  about all of them). Faults (`MCMaxFaults`): one for a development host with
  two installer slots, two for a target with releases only (`Bench`), one for a
  target without an environment profile and one for the largest plan there is.
  `Fragile` facts, the ones that may drift, are one of each kind of dependence.
- *voice*: a scenario (`MCVoice`) per thing that can go wrong, each with a
  budget `left` for captures, turns, notices, readings, events, lapses and
  faults: windows faster than transcription (`Overrun`), stops that time out
  (`Stuck`), a streamed turn with events (`Streamed`), the button, reports and
  transitions (`News`), receipts that expire (`Stale`), a question among notices,
  and power with and without the daemon. Two capture threads (one may be lost),
  a queue of two, room for one notice and two receipts.
- *conversation*: an explicitly configured phrase of two words, said as it is,
  in two pieces or misheard, after none, one or two other words; sentences that
  take every way through the grammar; wake windows of two or five words, so
  that the phrase and the command are cut everywhere; two turns, so that the
  reply thread of the first may be left to itself during the second; two reply
  threads; one fault; proposals of no, one and two calls, with a contradictory
  pair and an unknown tool among them.

Only one slot builds in `release`. Builds take no lock, and two builds of one
commit can collide: one finds the directory broken and not active, the other
rebuilds and activates it, and the first deletes it. With both slots as
`Builders` TLC finds `ReleasesUsable` violated. It takes a build that stalls
between two adjacent statements for as long as another build runs, and is
listed as a hazard.

No slot updates in `release` either. The updater reconciles without the
maintenance lock and may write a stale record over another process's
activation: with two slots, `Updaters = {p1}` and no damage TLC finds
`AlwaysReconcilable` violated. `appliance` runs the updater, one command at a time.

### Fairness

- `EnvServer!ServerFairSpec` (and `EnvService!FairSpec`): weak fairness of the poll and of its tick, which the
  polling thread's loop gives (`service.py` `_run`), and strong fairness of
  time, since the loop sleeps between polls. No client is assumed to act, no process to start,
  stop or die.
- `Service!ServiceSpec`: systemd goes on with a start and starts a failed unit
  again (at the next boot, by an operator, or by `Restart=on-failure` within the
  start limit), and a command that runs makes progress. Deaths are not fair and
  bounded. Nothing makes the process ready.
- `Install!FairSpec`: a running installer progresses, the operator starts it
  again and reboots when told to, the autoconnect service retries. Faults are
  not fair, and bounded.
- `Voice!FairSpec`: the main thread goes on wherever it can; it polls the
  notices each second, so one that keeps waiting is met (strong fairness of
  `Announce`); a cancelled recorder is interrupted and reaped. Nothing makes a
  recording complete, the user speak or a failure stay away: those are bounded
  by the budgets.
- `Conversation!FairSpec`: the threads go on (`Work`), the main thread collects
  what has ended (`Serve`), the watcher's deadline passes and it looks at the
  connection (`Expire`, `CutOff`). The model server need not answer (`Receive`
  is not fair), the user need not speak, a thread need not be given up.

### Exceptions the properties name

Some properties hold only beside states the code itself can reach. They are
named in the formula, not left out of the model:

- `NoLostUpdate` holds while `fresh`: a daemon that did not read what the one
  before it had in memory (its save had failed, or the file was read before the
  owner lock was free, `daemon.py:203`) counts its generations anew, and a
  client's old generation may fit a policy it has never seen.
- `OneInstaller` says nothing once a lock has outlived its owner: two reruns
  that read the same stale record can both take it over
  (`lib/install_engine.sh:601`).
- `Converges` excepts `Abandoned` (a lock directory without an owner's record
  is refused until it is removed by hand) and `Wedged`, five states in which
  one step fails on every rerun although `lib/install_engine.sh:654` promises
  that rerunning the same command will "determine repair or completion": a
  complete `.part` download that the server answers with HTTP 416; automatic
  Bluetooth selection when the device is paired already; an activation journal
  whose pointer an uninstallation removed; an active release that no longer
  validates (documented: it is never repaired in place); an Ollama account
  without its store.
- `SuccessIsConverged` excepts the record of the thermostat's reconciliation,
  which the same run's activation outdates; by-products; and, named in
  `Unprobed`, effects that no probe of any step looks at.
- In `Voice` a thread whose stop timed out may record in the dark, or while
  the speaker is in use: `late` marks it.
- `SaidIsDone` holds up to the words for "failed". After a write or a save that
  failed, the answer is "so I did not change room-fan power" or "rejected with
  code INTERNAL_ERROR" (`responses.py:88-96`), although timers are gone, the
  mode is another, the line was driven OFF by the safe OFF
  (`service.py:847-872`), or even all that was asked for is in force and only
  not saved (`service.py:301-305`). So "did not" and "rejected" may deny what
  was done; the claim "failed" of the model says no more than that something
  did. (`docs/development/DECISIONS.md:1543` wants rejected operations to
  "produce truthful refusal wording".)
- `SaidIsDone` is about answers that are given. When a reply breaks off, the
  user hears of an error and not of what was done; and the one late change of a
  thread that was given up is announced by nobody, and may undo what a later
  question asked for.
- `OutlierCannotStart` says "half of the readings": of two, or of a single one,
  one high reading is enough.
- `NoOrphanFiles` is about recordings of standby and of the held button; the
  question and confirmation recordings of `capture_text` are not files there.
- `WholeOrNothing` says nothing of a second recording that has lost its front
  only ("partly"): of "turn the fan on in 2 minutes" it may drop "in" and keep
  "2 minutes", and what the main thread puts together then is another command,
  although `voice_runtime.py:1517` wants a delay never to be dropped.
- `SplitWakeHeard` is about phrases that no more than two windows cut: the tail
  is three words (`MaxTailWords`), and a window holds two words at least. The
  theorem says how long a phrase may be (`WakeFits`).

### Disagreements found

1. `orphaned_run`: a lost sensor drops the timed run that keeps the fan on in
   MANUAL; nothing commands OFF.
2. `timer_persisted`: a policy update saves a timer's session-local MANUAL.
3. `late_request`: a request served after an acknowledged shutdown turns the
   relay on.
4. `interrupted_restore`: a crash between the restored link and its
   "rolled_back" record, when the journal said "switched", is refused by every
   later reconciliation.

`PROJECT.json` quotes the statements they contradict.

## Proofs

Every theorem holds for all values of the constants that the named ASSUMEs
allow; the runs evaluate each ASSUME. Budgets (faults, generations, late
requests, setups, scenarios) are constants too, so the theorems hold for any
number of faults, crashes and clients. A theorem rests on an inductive
invariant, one lemma per action or per group of actions that touch the same
state, and a last step in temporal logic.

| theorem | states | for any |
|---|---|---|
| `Controller_proofs` `TypeTheorem`, `FailSafeTheorem`, `TrustTheorem`, `OutlierTheorem`, `ShortCycleTheorem`, `SemiTheorem` | all properties of `controller` | temperatures, policies, dwells, window, streak |
| `Controller_proofs` `ClockTheorem` | the controller's clock never runs ahead of the relay's | the same |
| `EnvServer_proofs` `ServiceTypes`, `ReportsAreTrue`, `HoldIsKept`, `TimersAreSlow` | `TypeOK`, `CommandTruth`, `HoldKeepsOff`, `TimersRespectDwell` | jobs, leases, faults, late requests |
| `EnvServer_proofs` `HoldIsForgotten` | `HoldNotPersisted` | the same, with `MaxLate = 0` |
| `EnvServer_proofs` `OneDaemonServes`, `UpdatesAreNotLost` | `OneDaemon`, `NoLostUpdate` | daemons, clients, requests, starts and kills |
| `EnvServer_proofs` `ServedReportsAreTrue`, `ServedTimersAreSlow` | the core's promises under its processes | the same |
| `Release_proofs` `TypeCorrect`, `PointerIsGuarded`, `ImplementsActivation` | types, the pointer's guard, the refinement of `Activation` | commits, processes, crashes, damages; `Updaters = {}` |
| `Release_proofs` `ReleasesStayUsable`, `CrashesReconcile` | `ReleasesUsable`, `Reconcilable` | the same, with one building slot |
| `Service_proofs` `ReadinessIsTrue`, `SelectionIsInForce` | `ReadyIsTrue`, `SelectionInForce` | releases, models, setups, kills |
| `Install_proofs` `OneInstallerWorks`, `LedgerIsTrue` | `OneInstaller`, `LedgerTruth` | installers, fault budgets, facts that drift |
| `Install_proofs` `SuccessConverges` | `SuccessIsConverged` | the same; ordered plans (`PlansOrdered`), drift that some probe sees (`DriftIsSeen`) |
| `Voice_proofs` `CaptureIsMonitored`, `NoFileIsLeft`, `WhatIsHeard`, `HostIsToldWhatWasConfirmed` | `MonitoredCapture`, `NoOrphanFiles`, `HeardOnce`, `PowerAuthorized` | capture threads, scenarios, queues of one to four |
| `Conversation_proofs` `AnswersAreTrue` | `SaidIsDone` | reply threads, utterances, proposals, windows, failures |
| `Conversation_proofs` `WakeIsHeard` | `SplitWakeHeard` | the same, and phrases; wake words that fit (`WakeFits`) |
| `Conversation_proofs` `CommandsAreWhole` | `WholeOrNothing` | the same, and phrases; utterances the grammar cannot mistake (`Unmistakable`) |

**Controller.** None of the invariants is inductive alone. `FailSafe` needs the
type of the controller, and a method often hands `_evaluate` a controller that
is only partly up to date (a new policy or reading, the fan of before), so the
lemmas of `EnvController_proofs` ask of it no more than an armed fan that is on,
and show that `Evaluate` repairs the rest. `NoShortCycle` needs the clock: every
change of the fan goes through `Transition`, which restarts both clocks, and
`Aged` moves both, so the controller's clock is at most `flipAge`; a thermostat
change requires the controller's clock to have passed the dwell, hence `flipAge`
has. Each method has a lemma that its result is a `SafeStep`: well typed,
fail-safe, dwell respected, SEMI_AUTOMATIC started only by command. Trust and
median need `Remembered`: the controller's samples and streak are the end of the
history of readings, in the same order. The median is then a fact about
order statistics: the `k`-th smallest reading exists (`Smallest` counts, it does
not sort), and if the mean of the two middle ones reaches a threshold then at
least half of the readings do.

**EnvService.** `IInv` joins `Actuation` (types, honest driver and reports, the
clocks), `Schedule` (jobs; no job under DISABLED; the tick's clock `since` is
zero outside a tick), `PowerHold` (while a hold stands the mode is DISABLED, and
a granted one means a line that is OFF) and `Client`. `CommandTruth` is inductive
only together with a lemma on `Applied`: no sequence of failures turns on a line
that was off unless ON was asked for, and the acknowledgement never says more
than the line. `HoldNotPersisted` needs `Persisted`: while the core runs,
DISABLED comes from a hold or from a client. It is proved for `MaxLate = 0`: a
shutdown drops the hold and leaves the mode DISABLED (`service.py:895`), so that
a `policy.update` served after it saves a mode nobody chose. TLC shows it with
`MaxLate = 1`.

**EnvServer.** `SInv` adds to the core's `IInv`: `Processes`, a process that is
past the lock is its owner and the path leads to the one that serves; `Traffic`,
the types of requests and clients; and `Freshness`, by which a policy that was
read of this daemon, or of one before it with nothing lost in between, is either
the policy in force or has an older generation (`Follows`). An accepted update
carries the generation in force, so it is the policy in force that its client
had read. `ServerInvariance` also carries the core's step properties through
`Bind` and `Dies`, which replace the core's variables.

**Release.** `IInv` joins the type; `MutualExclusion`, that a process past the
lock is its holder; `PointerAllowed`, that under an open journal `current` is
one of the two releases the journal names; and, for each process, `Knows`, what
its position says about journal and link: between its reads and its write the
holder's own copy of candidate and previous is still the journal's, because
nobody else writes. Then a step of the holder is one of `Begin`, `Move`, `End`
of `Activation`, and everything else stutters. `UInv` adds the directories:
`Linked`, what link and journal name is whole or was damaged from outside, and
`Relies`, what a process at each place may count on (a pruning process never
holds a release the journal keeps; a build clears only what is not sealed). The
hypotheses `Updaters = {}` and one builder are those of the run, and the two
counterexamples above say why they are needed.

**Service.** `ServiceInv`: the unit has a process only while it runs or stops; a
live record says what its process has read; and a process has the selected model
except between a selection and the end of the process that ran before it
(`Behind`), or after a switch that was cut. The proof groups the actions by what
they do to process, record and selection. The steps of `Release` matter only by
leaving those alone.

**Install.** `LockInv`: an installer owns the lock exactly while it works, and as
long as no lock has outlived its owner nobody takes one over and the one that
made the directory is the only one to write or remove its record. `LedgerInv`:
the plan is the one of the configuration; a record of the thermostat's repair
implies that all of it was done or lost since (`RecordedRepair`); and
`LedgerTruth` itself. Most of the proof is that the effects of every other
contract never claim that repair (`NamedSilent`), so that any prefix of them a
failure leaves is harmless. `PlansAssumption`, that every plan consists of known
steps, is a closed statement that the run evaluates completely.

`SuccessConverges` rests on `ConvergedInv`. The heart of it is `Undisturbed`: of
an installer during whose run nobody else changed the machine, every step it has
passed still holds, though the actions behind it clear and outdate facts. For
that the proof shows, contract by contract, that no action takes back what the
probe of an earlier step of an ordered plan looks at, and that a failure or an
interruption part of the way through does not either. A probe that succeeds is
not enough for "everything it does is done", because some effects no probe looks
at (`Hidden`): `Backed` says that each of these was made before a fact that a
probe does see, wherever an action was cut off, and `Directories` that the
directories of the voice service outlive the step that made them for as long as
a later action, a child left behind by a killed installer among them, may enable
the service. `Placed` counts the steps: `done` means all were passed. Two
hypotheses are explicit. `PlansOrdered` is about no constant: `PlanOrdered`
decides it in every configuration. `DriftIsSeen` says that nothing drifts that no
probe looks at; without it the statement is false, and `MCInstall` evaluates it.

**Voice.** `CaptureInv`: a thread that records and was not given up is the one in
hand, and at every place of the main thread it is known whether one may or must
be in hand, what the indicator shows and where the thread goes next. `FileInv`:
a file on disk is in a queue, just made, or the window in hand. `DaemonInv`,
`HeardInv`, `ToldInv`: notices are receipts, receipts are among the tokens handed
out, what is acknowledged was said, what was told is marked. `PowerInv`: at each
place the request in the session is the user's own at the stage of that place,
and a request about to be executed has its hold, or the daemon restarted since.

**Conversation.** `Inv` speaks of every thread, waited for or given up: a
question is in the hands of one thread (`Distinct`), nobody replies for a turn
to come (`Past`), and a probe of the model server asks for nothing else
(`Probes`). Each thread has done nothing before the one setting call, and what it
claims at the end is true of what was done for its question (`Working`). Before
a question is asked nothing has been done for it (`Unasked`); once it is
answered, the answer is true and no thread is left that could belie it
(`Given`). The log of changes grows by an entry for the question of the thread
that acts, which says nothing of another question (`LogKeeps`), so a thread that
was given up can disturb neither the answer under way nor one given. An
entry may be half a change: then the claim is not "done" (`OneClaim`). The proof
does not look into the grammar: it holds whatever sentences mean and allow.

`WakeIsHeard` rests on `Listening`. While nothing was understood, the words not
recorded are the end of what is said, the tail is the end of what is recorded
and at most one word shorter than the wake words, and wake words that lie wholly
in the recorded part are none the matcher knows (`Followed`). A window moves
the border (`WindowFollowed`): wake words that end behind the old border and not
behind the new one begin in the window or in the tail, so they are part of what
the matcher looked at, and a part that matches makes the whole match
(`PartMatched`, from lemmas on `Tokens`, for a phrase as it is, in two pieces
that are joined, or one letter off). A phrase longer than the tail and one word,
or than a window and one word, could be skipped: hence `WakeFits`.

`CommandsAreWhole` rests on `Meant`. It follows the words themselves: what a
window was matched with is a part of the sentence behind a tail that is the end
of the part before (`CarriedEnds`, `SliceOfSlice`), or of something said in vain
before; at "follow" the rest of the command is what the matcher returned for such
a window; what is put together is one of `Questions`; and the thread that
answers keeps the meaning of that while others move (`KeepsMeaning`). The
proof needs of the grammar exactly `Unmistakable`, which is about sentences and
no step: that none of these questions is another command than the whole sentence.
For arbitrary sentences that is false (with a wake phrase amid a command, its end
may be another one); `MCConversation` evaluates it, with `WakeFits` and the types
(`Said`), for every sentence of the run.

### Only model-checked

- Liveness and everything under fairness: `HoldEnds`, `StuckLineRecovers`,
  `TimedRunEnds`, `StartSettles`, `Converges`, `Stops`, `Listens`,
  `NoticeSettled`, `DarkAgain`, `QuestionsEnd`. The prover has no rule for them.
- `PlanOrdered`: it depends on no constant, and TLC decides it for every
  configuration there is. A proof would have to compute `SelectSeq`, a recursion.
- What a particular sentence means: the theorems about `Conversation` take it as
  `Unmistakable`, which TLC evaluates for the sentences of the run.

## Abstractions to keep in mind

- No time passes while the core's lock is held; jobs due at the same moment are
  visited in any order (their identifiers are random).
- The actuator is always configured; loading a broken policy file, permissions,
  socket framing and credentials are not modelled.
- The dwell is measured between commanded changes: after a failed OFF the line
  itself may change later.
- `last_decision_reason`, readings kept for display, history and journals are
  left out.
- The polling thread is assumed to survive: only the errors the core raises
  occur in a poll.
- In `Release`, reads that precede one write are one step, and validation is
  one look at the seal; a removal that fails or is interrupted leaves "broken".
- In `Service`, one update command runs per behaviour and starts from a settled
  journal; the start limit of the unit is a choice between waiting and failed.
- In `Install`, facts are relative to one commit and configuration: an upgrade
  between commits is `Release`'s subject. A probe, and one action, are atomic
  for other installers; nobody runs the uninstaller beside an installer.
  What decides whether a payload is valid (digests, sizes, versions) is one
  fact. That the source record is checked against the host again, and that the
  whole plan is probed again after its last step, is left out.
- In `Voice`, what is said and heard is one of a few kinds of utterance; the
  button is debounced; the probes of readiness, and a reply with its progress
  cues, are one step.
- In `Conversation` one call to the daemon is one step, so the broker's lock and
  its pool of readers cannot be seen, and a request the daemon comes to after
  the time-out counts as done at the time-out: the answer is "cannot verify"
  either way. A half-done change is one kind; which half is `EnvService`'s.
  History, metrics, the power session and receipts are left out; a window of
  running speech holds at least two words. A window that ends in silence is the
  end of the sentence: the code asks for 900 ms of quiet (`endpoint.py:72`), so
  a pause of that length inside a command is outside the model.

## Plan

1. *Done*: every component above that has state of its own: the controller, the
   service core with its processes and clients, release activation with its
   abstract specification and refinement, the installer with the contracts of
   its managers, the appliance with its capture threads, notices and power
   session, the unit it runs in with readiness and model, the conversation.
2. *Done*: proofs of the controller, the daemon, activation, the unit, the
   installer's lock and ledger, the appliance's safety properties and the truth
   of answers.
3. *Done*: proofs that a reported success is a converged machine, that a wake
   phrase is heard wherever it is cut and that a command is carried out whole or
   not at all.
4. *Possible*: abstract specifications for the engine lock (`Install`) and for
   the owner lock (`EnvServer`), each a mutex with a holder that may die, and the
   proof that both implement them.
5. *Possible*: the tool broker's lock and its pool of readers inside one call to
   the daemon, and history and receipts of a conversation.
