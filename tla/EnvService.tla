----------------------------- MODULE EnvService -----------------------------
(***************************************************************************)
(* The room-fan daemon: the service core that owns the controller, the     *)
(* relay driver, the policy file, the timed fan jobs and the power hold,   *)
(* with every request that changes them, the polling thread, the failures  *)
(* of the GPIO line and of the file system, shutdown, and restarts.        *)
(*                                                                         *)
(* The core serialises everything under one lock, and of what it changes   *)
(* only the relay line and the policy file outlive the process; so one     *)
(* request is one step.  A poll is one step followed by one step for each  *)
(* job its tick visits (todo), the lock staying taken in between.          *)
(* Time enters as differences: how long until a job is due, until it       *)
(* expires, until the hold ends.  No time passes while the lock is held.   *)
(***************************************************************************)
EXTENDS EnvController, FiniteSetsExt

CONSTANTS
  Slots,         \* places for fan jobs
  InitPolicies,  \* policies the file may hold at the first start
  Settings,      \* [start, stop, minOn, minOff] a client may ask for
  UserModes,     \* modes a client may ask for
  Delays,        \* delay_seconds of an automation.add
  Spans,         \* duration_seconds or interval_seconds of an automation.add
  Lease,         \* lease_seconds of a cycle
  Patience,      \* the 60 seconds of Automation.add
  Grace,         \* the 30 seconds of Automation.add and Automation.tick
  HoldTime,      \* the 30 seconds of power.prepare
  MaxGen,        \* bound: no request takes the generation beyond it
  MaxFaults,     \* bound on failing calls of the line or the file system
  MaxLate        \* bound on requests accepted but not served at shutdown

ASSUME TimingAssumption ==
  /\ Delays \subseteq Nat /\ Spans \subseteq Nat \ {0}
  /\ Lease \in Nat \ {0} /\ Patience \in Nat \ {0} /\ Grace \in Nat \ {0}
  /\ HoldTime \in Nat \ {0}
ASSUME BudgetAssumption == MaxGen \in Nat /\ MaxFaults \in Nat /\ MaxLate \in Nat
ASSUME ClientAssumption ==
  /\ InitPolicies \subseteq Policies /\ UserModes \subseteq Modes
  /\ Settings \subseteq [start : Int, stop : Int, minOn : Nat, minOff : Nat]

VARIABLES
  ctl,      \* the controller
  relay,    \* the driver: is the line requested, the acknowledged power,
            \* and the power last driven onto the line
  said,     \* what the core reports: last command, last write result
  jobs,     \* the fan jobs, by slot
  hold,     \* the power hold
  todo,     \* slots the running tick has yet to visit; the lock is free
            \* exactly when there are none
  since,    \* the tick's last_transition, as an age
  phase,    \* "running", or "closed" once shutdown_safe_off is through
  late,     \* requests still alive after shutdown
  disk,     \* the policy in the policy file
  faults,   \* failures the environment may still inject
  flipAge,  \* history: time since the process started or the fan changed
  chosen    \* history: modes a client asked for by name

actuation == <<ctl, relay, said, faults, flipAge>>
vars == <<ctl, relay, said, jobs, hold, todo, since, phase, late, disk,
          faults, flipAge, chosen>>

-----------------------------------------------------------------------------
NoJob == [kind |-> "none"]
OneShots == {"fan_on", "fan_off"}
Composites == {"fan_run", "fan_cycle"}
Jobs == [kind : OneShots \cup Composites, due : Nat, left : Nat, span : Nat,
         phase : {"waiting", "on", "off"}]

NoFanJobs == [i \in Slots |-> NoJob]
Pending == {i \in Slots : jobs[i] # NoJob}
Running(i) == jobs[i] # NoJob /\ jobs[i].phase = "on"

NoHold == [left |-> 0, prev |-> "none", granted |-> FALSE]

\* Mutants: an overdue hold no longer counts; a hold whose OFF failed does not.
HeldUntilDue == hold.left > 0
HeldIfGranted == hold.granted

Held == hold # NoHold

\* Mutant: a hold whose OFF failed never runs out.
OverdueIfGranted == hold.granted /\ hold.left = 0

Overdue == Held /\ hold.left = 0

Boot(p) ==
  [ctl |-> NewController(p),
   said |-> [last |-> "none", result |-> "NOT_ATTEMPTED"]]

Init ==
  /\ disk \in InitPolicies
  /\ ctl = Boot(disk).ctl /\ said = Boot(disk).said
  /\ relay = [open |-> FALSE, ack |-> "none", line |-> "off"]
  /\ jobs = NoFanJobs /\ hold = NoHold /\ todo = {} /\ since = 0
  /\ phase = "running" /\ late = 0 /\ faults = MaxFaults
  /\ flipAge = 0 /\ chosen = {disk.mode}

-----------------------------------------------------------------------------
(* The relay driver.  A line is requested inactive; a call that raises     *)
(* leaves no acknowledged power, and the level it tried may be driven.     *)
Opened(r) ==
  IF r.open THEN r ELSE [open |-> TRUE, ack |-> "off", line |-> "off"]

Driven(power) == [open |-> TRUE, ack |-> power, line |-> power]

OpenFails(r) == IF r.open THEN {} ELSE {[r EXCEPT !.ack = "none"]}

\* Mutant: the acknowledgement of the power before survives the failure.
WriteFailsTrusted(r, power) ==
  {[open |-> TRUE, ack |-> r.ack, line |-> l] : l \in {r.line, power}}

WriteFails(r, power) ==
  {[open |-> TRUE, ack |-> "none", line |-> l] : l \in {r.line, power}}

\* set_power: an already acknowledged power needs no write.
SetPower(r, power) ==
  IF Opened(r).ack = power THEN Opened(r) ELSE Driven(power)

SetPowerFails(r, power) ==
  OpenFails(r) \cup IF Opened(r).ack = power THEN {}
                    ELSE WriteFails(Opened(r), power)

SafeOffFails(r) == OpenFails(r) \cup WriteFails(Opened(r), "off")

Released(r) == [open |-> FALSE, ack |-> "none", line |-> r.line]

\* close: one last OFF, then the request is given up whatever happened.
CloseSucceeds(r) == Released(IF r.open THEN Driven("off") ELSE r)
CloseFails(r) ==
  IF r.open THEN {Released(q) : q \in WriteFails(r, "off")} ELSE {}

\* _apply_actuator_if_needed: what can come of commanding the power that
\* the controller c wants.
Applied(c) ==
  LET outcome(d, r, last, result, cost) ==
        [ctl |-> d, relay |-> r, said |-> [last |-> last, result |-> result],
         faults |-> faults - cost, ok |-> result = "SUCCESS"]
      broken == IF faults = 0 THEN {} ELSE SetPowerFails(relay, c.fan)
      off == ActuatorErrorSafeOff(c)
  IN  {outcome(c, SetPower(relay, c.fan), c.fan, "SUCCESS", 0)}
      \cup {outcome(off, Driven("off"), "off", "FAILED", 1) : r \in broken}
      \cup {outcome(off, q, "none", "FAILED", 1) :
              q \in UNION {SafeOffFails(r) : r \in broken}}

Enact(o, cost) ==
  /\ ctl' = o.ctl /\ relay' = o.relay /\ said' = o.said
  /\ faults' = o.faults - cost
  /\ flipAge' = IF o.ctl.fan = ctl.fan THEN flipAge ELSE 0

-----------------------------------------------------------------------------
(* Requests.  A handler thread runs one at a time under the core's lock;   *)
(* handle never asks whether the core is closed, so a request accepted     *)
(* before a shutdown is served after it if the process still lives.        *)
Serve ==
  /\ todo = {}
  /\ phase = "running" \/ late > 0
  /\ late' = IF late > 0 THEN late - 1 ELSE 0
  /\ UNCHANGED <<todo, since, phase>>

\* The common end of fan.set, mode.set and policy.update: the fan jobs are
\* gone, the fan is commanded, and only then the policy is saved.
Command(c) ==
  /\ c.policy.gen <= MaxGen
  /\ jobs' = NoFanJobs
  /\ \E o \in Applied(c) :
       \/ o.ok /\ Enact(o, 0) /\ disk' = o.ctl.policy
       \/ o.ok /\ o.faults > 0 /\ Enact(o, 1) /\ UNCHANGED disk
       \/ ~o.ok /\ Enact(o, 0) /\ UNCHANGED disk

FanSet ==
  /\ Serve /\ ~Held
  /\ \E power \in Powers :
       IF Rejects(ctl, power)
       THEN /\ jobs' = NoFanJobs
            /\ UNCHANGED <<actuation, disk, chosen>>
       ELSE /\ Command(SetFanPower(ctl, power))
            /\ chosen' = chosen \cup {SetFanPower(ctl, power).policy.mode}
  /\ UNCHANGED hold

ModeSet ==
  /\ Serve /\ ~Held
  /\ \E mode \in UserModes :
       Command(SetMode(ctl, mode)) /\ chosen' = chosen \cup {mode}
  /\ UNCHANGED hold

\* policy.update with a mode or without: a mode not named stays what it is.
PolicyUpdate ==
  /\ Serve /\ ~Held
  /\ \E named \in SUBSET UserModes, s \in Settings :
       LET mode == IF named = {} THEN ctl.policy.mode
                                 ELSE CHOOSE m \in named : TRUE
           p == [gen |-> ctl.policy.gen + 1, mode |-> mode, start |-> s.start,
                 stop |-> s.stop, minOn |-> s.minOn, minOff |-> s.minOff]
       IN  /\ Cardinality(named) <= 1
           /\ ValidPolicy(p)
           /\ Command(UpdatePolicy(ctl, p))
           /\ chosen' = chosen \cup named
  /\ UNCHANGED hold

\* sensor.read decides and commands like a poll, but ticks nothing, ends no
\* hold and leaves the jobs alone when the line fails.
SensorRead ==
  /\ Serve
  /\ \E r \in Readings : \E o \in Applied(Observe(ctl, r)) : Enact(o, 0)
  /\ UNCHANGED <<jobs, hold, disk, chosen>>

LongestDwell(p) == IF p.minOn > p.minOff THEN p.minOn ELSE p.minOff

NewJob(kind, delay, span) ==
  LET oneShot == kind \in OneShots
      margin == (IF Patience > LongestDwell(ctl.policy)
                 THEN Patience ELSE LongestDwell(ctl.policy)) + Grace
  IN  [kind |-> kind, due |-> delay, phase |-> "waiting",
       span |-> IF oneShot THEN 0 ELSE span,
       left |-> delay + CASE oneShot -> margin
                          [] kind = "fan_run" -> span + margin
                          [] kind = "fan_cycle" -> Lease]

\* Mutant: the mode is not looked at.
AdmitsAnyMode(kind, span) ==
  /\ kind = "fan_run" => span >= ctl.policy.minOn
  /\ kind = "fan_cycle" => span >= LongestDwell(ctl.policy)
  /\ kind \in Composites => Pending = {}
  /\ \A i \in Pending : jobs[i].kind \notin Composites

\* The jobs Automation.add lets in beside those already there.
Admits(kind, span) ==
  /\ ctl.policy.mode # "disabled"
  /\ kind = "fan_run" => span >= ctl.policy.minOn
  /\ kind = "fan_cycle" => span >= LongestDwell(ctl.policy)
  /\ kind \in Composites => Pending = {}
  /\ \A i \in Pending : jobs[i].kind \notin Composites

AutomationAdd ==
  /\ Serve /\ ~Held
  /\ \E i \in Slots \ Pending, kind \in OneShots \cup Composites,
        delay \in Delays, span \in Spans :
       /\ Admits(kind, span)
       /\ jobs' = [jobs EXCEPT ![i] = NewJob(kind, delay, span)]
  /\ UNCHANGED <<actuation, hold, disk, chosen>>

\* automation.cancel of one job or of all: a job that holds the fan on is
\* followed by an OFF through the timers' own path.
AutomationCancel ==
  /\ Serve
  /\ \E gone \in {Pending} \cup {{i} : i \in Pending} :
       /\ gone # {}
       /\ jobs' = [i \in Slots |-> IF i \in gone THEN NoJob ELSE jobs[i]]
       /\ IF \E i \in gone : Running(i)
          THEN \E o \in Applied(ScheduledFanPower(ctl, "off", TRUE)) :
                 Enact(o, 0)
          ELSE UNCHANGED actuation
  /\ UNCHANGED <<hold, disk, chosen>>

\* power.prepare: the hold stands before the OFF is tried, and when the OFF
\* fails its token is never handed out.
PowerPrepare ==
  /\ Serve /\ ~Held
  /\ SetMode(ctl, "disabled").policy.gen <= MaxGen
  /\ \E o \in Applied(SetMode(ctl, "disabled")) :
       /\ Enact(o, 0)
       /\ hold' = [left |-> HoldTime, prev |-> ctl.policy.mode,
                   granted |-> o.ok]
  /\ jobs' = NoFanJobs
  /\ UNCHANGED <<disk, chosen>>

PowerRelease ==
  /\ Serve
  /\ hold.granted
  /\ hold' = NoHold
  /\ \E o \in Applied(SetMode(ctl, hold.prev)) : Enact(o, 0)
  /\ UNCHANGED <<jobs, disk, chosen>>

-----------------------------------------------------------------------------
(* The polling thread.                                                     *)

\* poll_once up to its tick: a reading, the end of an overdue hold, the
\* command; a line that fails costs every fan job.
Poll ==
  /\ todo = {} /\ phase = "running"
  /\ \E r \in Readings :
       LET observed == Observe(ctl, r)
       IN  \E o \in Applied(IF Overdue THEN SetMode(observed, hold.prev)
                                       ELSE observed) :
             /\ Enact(o, 0)
             /\ hold' = IF Overdue THEN NoHold ELSE hold
             /\ jobs' = IF o.ok THEN jobs ELSE NoFanJobs
             /\ todo' = IF o.ok /\ hold' = NoHold THEN Pending ELSE {}
             /\ since' = IF todo' = {} THEN 0 ELSE o.ctl.age
  /\ UNCHANGED <<phase, late, disk, chosen>>

\* Mutant: a job that is on is turned on again.
TargetOn(j) == IF j.kind = "fan_off" THEN "off" ELSE "on"

Target(j) ==
  CASE j.kind = "fan_on" -> "on"
    [] j.kind = "fan_off" -> "off"
    [] j.kind \in Composites -> IF j.phase = "on" THEN "off" ELSE "on"

\* Mutant: the two dwells swapped.
OtherDwell == IF ctl.fan = "on" THEN ctl.policy.minOff ELSE ctl.policy.minOn

RequiredDwell == IF ctl.fan = "on" THEN ctl.policy.minOn ELSE ctl.policy.minOff

\* What is left of a job whose write went through.
AfterWrite(j) ==
  LET target == Target(j)
  IN  CASE j.kind \in OneShots \/ (j.kind = "fan_run" /\ target = "off") ->
             NoJob
        [] j.kind = "fan_run" /\ target = "on" ->
             [j EXCEPT !.phase = "on", !.due = j.span,
                       !.left = j.span + ctl.policy.minOn + Grace]
        [] j.kind = "fan_cycle" ->
             [j EXCEPT !.phase = target, !.due = j.span]

\* The tick goes on with the other slots, slot i holding j now.
Visited(i, j, age) ==
  /\ jobs' = [jobs EXCEPT ![i] = j]
  /\ todo' = todo \ {i}
  /\ since' = IF todo' = {} THEN 0 ELSE age

\* The tick writes; a line that fails ends the tick and costs every job.
Write(i, power, expired, j) ==
  \E o \in Applied(ScheduledFanPower(ctl, power, expired)) :
    /\ Enact(o, 0)
    /\ IF o.ok
       THEN Visited(i, j, IF power = ctl.fan /\ ~expired THEN since ELSE 0)
       ELSE jobs' = NoFanJobs /\ todo' = {} /\ since' = 0

\* One round of Automation.tick's loop, earliest due first; among equals the
\* order is that of random identifiers.
TickJob ==
  /\ \E i \in todo :
       LET j == jobs[i]
           tooEarly == Target(j) # ctl.fan /\ since < RequiredDwell
           untrusted == ctl.policy.mode = "disabled" \/ ctl.quality # "ready"
       IN  /\ \A k \in todo : j.due <= jobs[k].due
           /\ \/ /\ j.left = 0 /\ j.kind \in Composites /\ j.phase = "on"
                 /\ Write(i, "off", TRUE, NoJob)
              \/ /\ j.left = 0 /\ ~(j.kind \in Composites /\ j.phase = "on")
                 /\ Visited(i, NoJob, since) /\ UNCHANGED actuation
              \/ /\ j.left > 0 /\ untrusted
                 /\ Visited(i, NoJob, since) /\ UNCHANGED actuation
              \/ /\ j.left > 0 /\ ~untrusted /\ j.due > 0
                 /\ Visited(i, j, since) /\ UNCHANGED actuation
              \/ /\ j.left > 0 /\ ~untrusted /\ j.due = 0 /\ tooEarly
                 /\ Visited(i, [j EXCEPT !.due = RequiredDwell - since], since)
                 /\ UNCHANGED actuation
              \/ /\ j.left > 0 /\ ~untrusted /\ j.due = 0 /\ ~tooEarly
                 /\ Write(i, Target(j), FALSE, AfterWrite(j))
  /\ UNCHANGED <<hold, phase, late, disk, chosen>>

-----------------------------------------------------------------------------
(* Shutdown, the end of the process, and time.                             *)

\* shutdown_safe_off: OFF, then the release of the line, each of which may
\* fail on its own; some accepted requests are still to be served.
Shutdown ==
  /\ todo = {} /\ phase = "running"
  /\ phase' = "closed" /\ late' \in 0..MaxLate
  /\ ctl' = ShutdownOff(ctl)
  /\ flipAge' = IF ctl.fan = "off" THEN flipAge ELSE 0
  /\ jobs' = NoFanJobs /\ hold' = NoHold
  /\ \/ /\ relay' = CloseSucceeds(Driven("off"))
        /\ said' = [last |-> "off", result |-> "SUCCESS"]
        /\ UNCHANGED faults
     \/ /\ faults > 0 /\ faults' = faults - 1
        /\ \/ /\ relay' \in CloseFails(Driven("off"))
              /\ said' = [last |-> "none", result |-> "RELEASE_FAILED"]
           \/ \E r \in SafeOffFails(relay) :
                \/ /\ relay' = CloseSucceeds(r)
                   /\ said' = [last |-> "none", result |-> "FAILED"]
                \/ /\ relay' \in CloseFails(r)
                   /\ said' = [last |-> "none", result |-> "RELEASE_FAILED"]
  /\ UNCHANGED <<todo, since, disk, chosen>>

\* The process is gone, by exit or by a crash at any point, and another one
\* starts from the policy file; the level of the line is nobody's meanwhile.
NewProcess(p, now) ==
  /\ ctl' = Boot(p).ctl /\ said' = Boot(p).said
  /\ relay' = Released(relay)
  /\ jobs' = NoFanJobs /\ hold' = NoHold /\ todo' = {} /\ since' = 0
  /\ phase' = now /\ late' = 0 /\ flipAge' = 0
  /\ UNCHANGED <<disk, faults, chosen>>

Reboot == NewProcess(disk, "running")

\* Mutant: the countdown does not stop.
DownPast(n) == n - 1

Down(n) == IF n > 0 THEN n - 1 ELSE 0

Elapse ==
  /\ todo = {} /\ phase = "running"
  /\ ctl' = Aged(ctl)
  /\ flipAge' = IF flipAge < MaxDwell THEN flipAge + 1 ELSE flipAge
  /\ hold' = [hold EXCEPT !.left = Down(@)]
  /\ jobs' = [i \in Slots |->
                IF jobs[i] = NoJob THEN NoJob
                ELSE [jobs[i] EXCEPT !.due = Down(@), !.left = Down(@)]]
  /\ UNCHANGED <<relay, said, todo, since, phase, late, disk, faults, chosen>>

-----------------------------------------------------------------------------
\* What a request may ask for.  The operations that only read, and those of
\* the simulation, change nothing here.
Request ==
  \/ FanSet \/ ModeSet \/ PolicyUpdate \/ SensorRead \/ AutomationAdd
  \/ AutomationCancel \/ PowerPrepare \/ PowerRelease

Next == Request \/ Poll \/ TickJob \/ Shutdown \/ Reboot \/ Elapse

Spec == Init /\ [][Next]_vars

\* The polling thread and its tick keep running, and it sleeps between two
\* polls, so time goes on even if every tick finds work.
FairSpec ==
  Spec /\ WF_vars(Poll) /\ WF_vars(TickJob) /\ SF_vars(Elapse)

-----------------------------------------------------------------------------
(* The core's state has the types its code gives it, and the lock is free  *)
(* or the tick has jobs to visit (service.py, automation.py).              *)
TypeOK ==
  /\ ctl \in Controllers /\ disk \in Policies
  /\ relay \in [open : BOOLEAN, ack : Powers \cup {"none"}, line : Powers]
  /\ said \in [last : Powers \cup {"none"},
               result : {"NOT_ATTEMPTED", "SUCCESS", "FAILED",
                         "RELEASE_FAILED"}]
  /\ jobs \in [Slots -> Jobs \cup {NoJob}] /\ todo \subseteq Pending
  /\ hold \in [left : 0..HoldTime, prev : Modes, granted : BOOLEAN]
                \cup {NoHold}
  /\ since \in 0..MaxDwell /\ flipAge \in 0..MaxDwell
  /\ phase \in {"running", "closed"} /\ late \in 0..MaxLate
  /\ faults \in 0..MaxFaults /\ chosen \subseteq Modes

(* What the core reports as its last command is what the line carries and  *)
(* what the controller wants, through failed writes, a failed OFF, a       *)
(* failed release and requests served late; and the driver never           *)
(* acknowledges a power the line does not carry (service.py                *)
(* _apply_actuator_if_needed, gpiod_relay.py _write).                      *)
CommandTruth ==
  /\ said.last # "none" => said.last = relay.line /\ said.last = ctl.fan
  /\ relay.ack # "none" => relay.open /\ relay.ack = relay.line

(* While a granted power hold lasts the line is OFF and the mode DISABLED,  *)
(* whatever other clients, the poll and the sensor do meanwhile; and in     *)
(* DISABLED no fan job waits that could turn it on, then or when the mode   *)
(* is enabled again (service.py power.prepare and BUSY, mode.set,           *)
(* policy.update).                                                          *)
HoldKeepsOff ==
  /\ hold.granted => ctl.policy.mode = "disabled" /\ relay.line = "off"
  /\ ctl.policy.mode = "disabled" => Pending = {}

(* The hold's DISABLED never reaches the policy file: the next boot finds  *)
(* DISABLED only if a client asked for it (service.py _restore_power_hold, *)
(* _save_policy_if_configured).  It is claimed where no request is served  *)
(* after a shutdown (MaxLate = 0): shutdown drops the hold with the mode    *)
(* still DISABLED, and a late policy.update would save that mode.           *)
HoldNotPersisted == disk.mode = "disabled" => "disabled" \in chosen

ScheduledReasons == ThermostatReasons \cup {"TIMER_ON", "TIMER_OFF"}

(* Thermostat and timers together never short-cycle the fan: between two   *)
(* of its changes, whichever of the two made them, lies the dwell of the   *)
(* policy in force (controller.py _dwell_elapsed, automation.py tick).     *)
TimersRespectDwell ==
  [][ctl'.fan # ctl.fan /\ ctl'.reason \in ScheduledReasons
       => flipAge >= IF ctl.fan = "on" THEN ctl'.policy.minOn
                                       ELSE ctl'.policy.minOff]_vars

(* A hold ends, by release or at a poll after its 30 seconds, granted or   *)
(* not (service.py _expire_power_hold).                                    *)
HoldEnds == Held ~> ~Held

(* A line that stayed on because its OFF failed is driven OFF by a later   *)
(* poll (gpiod_relay.py set_power does not trust an unacknowledged level). *)
Stuck == phase = "running" /\ ctl.fan = "off" /\ relay.line = "on"
StuckLineRecovers == Stuck ~> ~Stuck

(* A timed run that turned the fan on does not stay so: its OFF, its       *)
(* expiry, a cancel or a failure ends it (automation.py tick).             *)
TimedRunEnds ==
  \A i \in Slots :
    Running(i) /\ jobs[i].kind = "fan_run" ~> ~Running(i)

-----------------------------------------------------------------------------
(* Three statements of the repository that the code does not keep.         *)

(* automation.py says of a job it drops for want of a trusted reading:     *)
(* "Core sensor safety already commands OFF".                              *)
SensorLossStoppedTheFan ==
  \A i \in todo : Running(i) /\ ctl.quality \in BadQualities
                    => ctl.fan = "off"

(* service.py shutdown_safe_off: "Sole-owner OFF acknowledgement, then     *)
(* line release": after an acknowledged shutdown the line stays OFF.       *)
OffAfterShutdown ==
  phase = "closed" /\ said.result = "SUCCESS" => relay.line = "off"

(* ARCHITECTURE.md: a timed manual override is not serialized as the       *)
(* policy of the next boot, so the file's mode is one a client asked for.  *)
DiskModeWasChosen == disk.mode \in chosen
=============================================================================
