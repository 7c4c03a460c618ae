-------------------------- MODULE EnvServer_proofs --------------------------
(***************************************************************************)
(* The room-fan daemon.  First its core alone, for every bound of the      *)
(* policies, every set of slots, delays and leases, and any number of      *)
(* failures and late requests: its state is typed, what it reports is what *)
(* the line carries, a granted power hold keeps the fan off, and neither   *)
(* thermostat nor timers short-cycle it.  That the hold's DISABLED stays   *)
(* out of the policy file needs one hypothesis more: no request is served  *)
(* after a shutdown.                                                       *)
(*                                                                         *)
(* Then the core under its processes, for any number of them started,      *)
(* stopped and killed against each other, any number of clients and of     *)
(* requests under way: at most one process serves and the socket leads to  *)
(* it, the core keeps under all of them what it promises alone, and no     *)
(* update overwrites a policy its client has not read.                     *)
(***************************************************************************)
EXTENDS EnvServer, EnvController_proofs, FiniteSetTheorems

-----------------------------------------------------------------------------
(* The inductive invariant.  The clocks: the controller's own transition   *)
(* clock, and the tick's, never run ahead of the time since the fan        *)
(* changed.  The hold: as long as it stands the mode is DISABLED.          *)
Relays == [open : BOOLEAN, ack : Powers \cup {"none"}, line : Powers]
Reports == [last : Powers \cup {"none"},
            result : {"NOT_ATTEMPTED", "SUCCESS", "FAILED", "RELEASE_FAILED"}]
Holds == [left : 0..HoldTime, prev : Modes, granted : BOOLEAN] \cup {NoHold}

Actuation ==
  /\ SafeState(ctl)
  /\ relay \in Relays /\ said \in Reports
  /\ faults \in 0..MaxFaults
  /\ flipAge \in 0..MaxDwell /\ ctl.age <= flipAge
  /\ CommandTruth

Schedule ==
  /\ jobs \in [Slots -> Jobs \cup {NoJob}]
  /\ todo \subseteq Pending
  /\ since \in 0..MaxDwell /\ since <= flipAge
  /\ todo = {} => since = 0
  /\ ctl.policy.mode = "disabled" => Pending = {}

PowerHold ==
  /\ hold \in Holds
  /\ Held => ctl.policy.mode = "disabled"
  /\ hold.granted => relay.line = "off"

Client ==
  /\ disk \in Policies /\ chosen \subseteq Modes
  /\ phase \in {"running", "closed"} /\ late \in 0..MaxLate

IInv == Actuation /\ Schedule /\ PowerHold /\ Client

(* Where DISABLED comes from, as long as the core is not closed.           *)
Persisted ==
  /\ HoldNotPersisted
  /\ phase = "running" =>
       /\ ctl.policy.mode = "disabled" => Held \/ "disabled" \in chosen
       /\ Held /\ hold.prev = "disabled" => "disabled" \in chosen

-----------------------------------------------------------------------------
(* The relay driver keeps the acknowledgement honest, whatever fails, and  *)
(* no failure turns a line on that was off unless ON was asked for.        *)
Truthful(r) ==
  r \in Relays /\ (r.ack # "none" => r.open /\ r.ack = r.line)

LEMMA OpenedTruth ==
  ASSUME NEW r, Truthful(r)
  PROVE  Truthful(Opened(r)) /\ Opened(r).open /\ Opened(r).line \in {r.line, "off"}
BY DEF Truthful, Relays, Opened, Powers

LEMMA DrivenTruth ==
  ASSUME NEW power \in Powers
  PROVE  Truthful(Driven(power)) /\ Driven(power).line = power
         /\ Driven(power).open
BY DEF Truthful, Relays, Driven, Powers

LEMMA OpenFailsTruth ==
  ASSUME NEW r, Truthful(r), NEW q \in OpenFails(r)
  PROVE  Truthful(q) /\ q.line = r.line
BY DEF Truthful, Relays, OpenFails, Powers

LEMMA WriteFailsTruth ==
  ASSUME NEW r, Truthful(r), NEW power \in Powers, NEW q \in WriteFails(r, power)
  PROVE  Truthful(q) /\ q.line \in {r.line, power}
<1>1. PICK l \in {r.line, power} : q = [open |-> TRUE, ack |-> "none", line |-> l]
  BY DEF WriteFails
<1>2. l \in Powers
  BY DEF Truthful, Relays
<1> QED
  BY <1>1, <1>2 DEF Truthful, Relays

LEMMA SetPowerTruth ==
  ASSUME NEW r, Truthful(r), NEW power \in Powers
  PROVE  /\ Truthful(SetPower(r, power)) /\ SetPower(r, power).line = power
         /\ \A q \in SetPowerFails(r, power) :
              Truthful(q) /\ q.line \in {r.line, "off", power}
<1>1. Truthful(Opened(r)) /\ Opened(r).line \in {r.line, "off"}
  BY OpenedTruth
<1>2. Truthful(SetPower(r, power)) /\ SetPower(r, power).line = power
  <2>1. CASE Opened(r).ack = power
    BY <1>1, <2>1 DEF SetPower, Truthful, Powers
  <2>2. CASE Opened(r).ack # power
    BY <2>2, DrivenTruth DEF SetPower
  <2> QED
    BY <2>1, <2>2
<1>3. ASSUME NEW q \in SetPowerFails(r, power)
      PROVE  Truthful(q) /\ q.line \in {r.line, "off", power}
  <2>1. q \in OpenFails(r) \/ q \in WriteFails(Opened(r), power)
    BY DEF SetPowerFails
  <2> QED
    BY <1>1, <2>1, OpenFailsTruth, WriteFailsTruth
<1> QED
  BY <1>2, <1>3

LEMMA SafeOffTruth ==
  ASSUME NEW r, Truthful(r), NEW q \in SafeOffFails(r)
  PROVE  Truthful(q) /\ q.line \in {r.line, "off"}
<1>1. q \in OpenFails(r) \/ q \in WriteFails(Opened(r), "off")
  BY DEF SafeOffFails
<1> QED
  BY <1>1, OpenedTruth, OpenFailsTruth, WriteFailsTruth DEF Powers

LEMMA ReleasedTruth ==
  ASSUME NEW r, Truthful(r)
  PROVE  Truthful(Released(r)) /\ Released(r).line = r.line
BY DEF Truthful, Relays, Released

LEMMA CloseTruth ==
  ASSUME NEW r, Truthful(r)
  PROVE  /\ Truthful(CloseSucceeds(r))
         /\ r.line = "off" => CloseSucceeds(r).line = "off"
         /\ \A q \in CloseFails(r) : Truthful(q)
<1>1. Truthful(Driven("off")) /\ Driven("off").line = "off"
  BY DrivenTruth DEF Powers
<1>2. /\ Truthful(CloseSucceeds(r))
      /\ r.line = "off" => CloseSucceeds(r).line = "off"
  BY <1>1, ReleasedTruth DEF CloseSucceeds
<1>3. ASSUME NEW q \in CloseFails(r) PROVE Truthful(q)
  <2>1. PICK p \in WriteFails(r, "off") : q = Released(p)
    BY DEF CloseFails
  <2> QED
    BY <2>1, WriteFailsTruth, ReleasedTruth DEF Powers
<1> QED
  BY <1>2, <1>3

-----------------------------------------------------------------------------
(* Commanding the power a controller wants: what every outcome has in      *)
(* common, and what a successful one adds.                                 *)
ReportsTruly(o) ==
  /\ o.said \in Reports
  /\ o.said.last # "none" => o.said.last = o.relay.line /\ o.said.last = o.ctl.fan

LEMMA AppliedCases ==
  ASSUME Truthful(relay), faults \in 0..MaxFaults,
         NEW c, SafeState(c), NEW o \in Applied(c)
  PROVE  /\ o.faults \in 0..MaxFaults /\ o.ok \in BOOLEAN
         /\ Truthful(o.relay) /\ ReportsTruly(o)
         /\ relay.line = "off" /\ c.fan = "off" => o.relay.line = "off"
         /\ \/ o.ok /\ o.ctl = c /\ o.relay.line = c.fan
            \/ ~o.ok /\ o.ctl = ActuatorErrorSafeOff(c)
<1> DEFINE outcome(d, r, last, result, cost) ==
             [ctl |-> d, relay |-> r, said |-> [last |-> last, result |-> result],
              faults |-> faults - cost, ok |-> result = "SUCCESS"]
           broken == IF faults = 0 THEN {} ELSE SetPowerFails(relay, c.fan)
           off == ActuatorErrorSafeOff(c)
<1>1. c.fan \in Powers /\ c \in Controllers
  BY DEF SafeState, Controllers
<1>2. off.fan = "off"
  <2>1. "off" \in Powers /\ "ACTUATOR_ERROR_SAFE_OFF" \in Reasons
    BY DEF Powers, Reasons
  <2>2. IsTransition(c, off, "off", FALSE, "ACTUATOR_ERROR_SAFE_OFF")
    BY <1>1, <2>1, TransitionType DEF ActuatorErrorSafeOff
  <2> QED
    BY <2>2 DEF IsTransition
<1>3. faults \in Nat /\ MaxFaults \in Nat
  BY BudgetAssumption
<1>4. \/ o = outcome(c, SetPower(relay, c.fan), c.fan, "SUCCESS", 0)
      \/ \E r \in broken : o = outcome(off, Driven("off"), "off", "FAILED", 1)
      \/ \E r \in broken : \E q \in SafeOffFails(r) :
           o = outcome(off, q, "none", "FAILED", 1)
  BY DEF Applied
<1>5. CASE o = outcome(c, SetPower(relay, c.fan), c.fan, "SUCCESS", 0)
  <2>1. /\ o.ctl = c /\ o.relay = SetPower(relay, c.fan)
        /\ o.said = [last |-> c.fan, result |-> "SUCCESS"]
        /\ o.ok = ("SUCCESS" = "SUCCESS") /\ o.faults = faults - 0
    BY <1>5, Zenon
  <2>2. o.said \in Reports
    BY <1>1, <2>1 DEF Reports
  <2>3. o.faults \in 0..MaxFaults
    BY <1>3, <2>1
  <2>4. Truthful(o.relay) /\ o.relay.line = c.fan
    BY <1>1, <2>1, SetPowerTruth
  <2>5. ReportsTruly(o)
    BY <2>1, <2>2, <2>4 DEF ReportsTruly
  <2>6. o.ok /\ o.ok \in BOOLEAN /\ o.ctl = c
    BY <2>1
  <2> QED
    BY <2>3, <2>4, <2>5, <2>6
<1>6. ASSUME NEW r \in broken, o = outcome(off, Driven("off"), "off", "FAILED", 1)
      PROVE  /\ o.faults \in 0..MaxFaults /\ o.ok \in BOOLEAN
             /\ Truthful(o.relay) /\ ReportsTruly(o) /\ o.relay.line = "off"
             /\ ~o.ok /\ o.ctl = off
  <2>1. /\ o.ctl = off /\ o.relay = Driven("off") /\ o.faults = faults - 1
        /\ o.said = [last |-> "off", result |-> "FAILED"]
        /\ ~o.ok /\ o.ok \in BOOLEAN
    BY <1>6
  <2>2. faults # 0
    OBVIOUS
  <2>3. o.said \in Reports
    BY <2>1 DEF Reports, Powers
  <2>4. Truthful(Driven("off")) /\ Driven("off").line = "off"
    BY DrivenTruth DEF Powers
  <2> QED
    BY <1>2, <1>3, <2>1, <2>2, <2>3, <2>4 DEF ReportsTruly
<1>7. ASSUME NEW r \in broken, NEW q \in SafeOffFails(r),
             o = outcome(off, q, "none", "FAILED", 1)
      PROVE  /\ o.faults \in 0..MaxFaults /\ o.ok \in BOOLEAN
             /\ Truthful(o.relay) /\ ReportsTruly(o)
             /\ relay.line = "off" /\ c.fan = "off" => o.relay.line = "off"
             /\ ~o.ok /\ o.ctl = off
  <2>1. /\ o.ctl = off /\ o.relay = q /\ o.faults = faults - 1
        /\ o.said = [last |-> "none", result |-> "FAILED"]
        /\ ~o.ok /\ o.ok \in BOOLEAN
    BY <1>7
  <2>2. faults # 0 /\ r \in SetPowerFails(relay, c.fan)
    OBVIOUS
  <2>3. o.said \in Reports
    BY <2>1 DEF Reports
  <2>4. Truthful(r) /\ r.line \in {relay.line, "off", c.fan}
    BY <1>1, <2>2, SetPowerTruth
  <2>5. Truthful(q) /\ q.line \in {r.line, "off"}
    BY <2>4, SafeOffTruth
  <2> QED
    BY <1>3, <2>1, <2>2, <2>3, <2>4, <2>5 DEF ReportsTruly
<1> HIDE DEF outcome, broken, off
<1> QED
  BY <1>4, <1>5, <1>6, <1>7 DEF off

-----------------------------------------------------------------------------
(* A decision of the controller that the core may carry out now: a safe    *)
(* step, and the timers' own only when the fan has kept its power for the  *)
(* dwell.  Enacting it keeps the actuation part of the invariant.          *)
Dwell(power, p) == IF power = "on" THEN p.minOn ELSE p.minOff

Decided(d) ==
  /\ SafeStep(ctl, d)
  /\ d.fan # ctl.fan /\ d.reason \in TimerReasons
       => flipAge >= Dwell(ctl.fan, d.policy)

DwellStep ==
  ctl'.fan # ctl.fan /\ ctl'.reason \in ScheduledReasons
    => flipAge >= Dwell(ctl.fan, ctl'.policy)

LEMMA SafeOffFrom ==
  ASSUME NEW c, SafeState(c)
  PROVE  LET off == ActuatorErrorSafeOff(c)
         IN  /\ SafeStep(c, off) /\ off.fan = "off" /\ off.policy = c.policy
             /\ off.age = 0 /\ off.reason = "ACTUATOR_ERROR_SAFE_OFF"
<1>1. /\ "off" \in Powers /\ "ACTUATOR_ERROR_SAFE_OFF" \in Reasons
      /\ "ACTUATOR_ERROR_SAFE_OFF" \in Reasons \ ThermostatReasons
      /\ c \in Controllers
  BY DEF Powers, Reasons, ThermostatReasons, SafeState
<1>2. IsTransition(c, ActuatorErrorSafeOff(c), "off", FALSE,
                   "ACTUATOR_ERROR_SAFE_OFF")
  BY <1>1, TransitionType DEF ActuatorErrorSafeOff
<1>3. SafeStep(c, ActuatorErrorSafeOff(c))
  BY <1>1, SafeOffSafe DEF ActuatorErrorSafeOff
<1> QED
  BY <1>2, <1>3 DEF IsTransition

LEMMA SafeStepState ==
  ASSUME NEW c, NEW d, SafeStep(c, d)
  PROVE  SafeState(d) /\ d \in Controllers /\ d.policy \in Policies
         /\ d.age \in {0, c.age} /\ (d.fan # c.fan => d.age = 0)
         /\ (d.policy.mode = "disabled" => d.fan = "off")
BY DEF SafeStep, Sound, SafeState, SafeController, Controllers

LEMMA DwellTypes ==
  ASSUME NEW p \in Policies, NEW power
  PROVE  Dwell(power, p) \in 0..MaxDwell
BY ConstantTypes DEF Policies, ValidPolicy, Dwell

\* What enacting an outcome o of a decision d leaves.
Enacted(d, o) ==
  /\ Actuation' /\ DwellStep
  /\ ctl' \in Controllers /\ ctl'.policy = d.policy /\ o.ctl.policy = d.policy
  /\ o.ok => ctl' = d /\ o.ctl = d
  /\ relay.line = "off" /\ d.fan = "off" => relay'.line = "off"
  /\ o.ok /\ d.fan = "off" => relay'.line = "off"
  /\ flipAge' \in 0..MaxDwell
  /\ ctl'.fan = ctl.fan => flipAge' = flipAge
  /\ ctl'.age \in 0..MaxDwell /\ ctl'.age <= flipAge'

LEMMA EnactSafe ==
  ASSUME Actuation, NEW d, Decided(d), NEW o \in Applied(d),
         NEW cost \in {0, 1}, cost <= o.faults, Enact(o, cost)
  PROVE  Enacted(d, o)
<1>1. /\ SafeState(d) /\ d \in Controllers /\ d.age \in {0, ctl.age}
      /\ d.fan # ctl.fan => d.age = 0
  BY SafeStepState DEF Decided
<1>2. Truthful(relay) /\ faults \in 0..MaxFaults
  BY DEF Actuation, Truthful, CommandTruth
<1>3. /\ o.faults \in 0..MaxFaults
      /\ Truthful(o.relay) /\ ReportsTruly(o)
      /\ relay.line = "off" /\ d.fan = "off" => o.relay.line = "off"
      /\ \/ o.ok /\ o.ctl = d /\ o.relay.line = d.fan
         \/ ~o.ok /\ o.ctl = ActuatorErrorSafeOff(d)
  BY <1>1, <1>2, AppliedCases
<1>4. /\ ctl' = o.ctl /\ relay' = o.relay /\ said' = o.said
      /\ faults' = o.faults - cost
      /\ flipAge' = IF o.ctl.fan = ctl.fan THEN flipAge ELSE 0
  BY DEF Enact
<1>5. /\ ctl \in Controllers /\ ctl.age \in 0..MaxDwell /\ ctl.age <= flipAge
      /\ flipAge \in 0..MaxDwell /\ MaxDwell \in Nat /\ MaxFaults \in Nat
  BY BudgetAssumption, ConstantTypes DEF Actuation, SafeState, Controllers
<1>6. faults' \in 0..MaxFaults
  BY <1>3, <1>4, <1>5
<1>7. /\ SafeState(o.ctl) /\ o.ctl.policy = d.policy
      /\ o.ctl.age \in {0, ctl.age} /\ (o.ctl.fan # ctl.fan => o.ctl.age = 0)
  <2>1. CASE o.ctl = d
    BY <1>1, <2>1
  <2>2. CASE o.ctl = ActuatorErrorSafeOff(d)
    BY <1>1, <2>2, SafeOffFrom, SafeStepState
  <2> QED
    BY <1>3, <2>1, <2>2
<1>8. flipAge' \in 0..MaxDwell /\ ctl'.age \in 0..MaxDwell /\ ctl'.age <= flipAge'
  BY <1>4, <1>5, <1>7
<1>9. CommandTruth' /\ relay' \in Relays /\ said' \in Reports
  BY <1>3, <1>4 DEF CommandTruth, Truthful, ReportsTruly
<1>10. Actuation'
  BY <1>4, <1>6, <1>7, <1>8, <1>9 DEF Actuation
<1>11. DwellStep
  <2> SUFFICES ASSUME ctl'.fan # ctl.fan, ctl'.reason \in ScheduledReasons
               PROVE  flipAge >= Dwell(ctl.fan, ctl'.policy)
    BY DEF DwellStep
  <2>1. ctl' = d
    BY <1>1, <1>3, <1>4, SafeOffFrom DEF ScheduledReasons, ThermostatReasons
  <2>2. CASE d.reason \in ThermostatReasons
    <3>1. ctl.age >= Dwell(ctl.fan, d.policy)
      BY <2>1, <2>2 DEF Decided, SafeStep, Sound, RespectsDwell, Dwell
    <3>2. Dwell(ctl.fan, d.policy) \in 0..MaxDwell
      BY <1>1, DwellTypes DEF Controllers
    <3> QED
      BY <1>5, <2>1, <3>1, <3>2
  <2>3. CASE d.reason \in TimerReasons
    BY <2>1, <2>3 DEF Decided
  <2> QED
    BY <2>1, <2>2, <2>3 DEF ScheduledReasons, TimerReasons
<1>12. flipAge' = flipAge \/ ctl'.fan # ctl.fan
  BY <1>4
<1>13. ctl' \in Controllers /\ ctl'.policy = d.policy
  BY <1>4, <1>7 DEF SafeState
<1>14. /\ o.ok => ctl' = d /\ o.ctl = d
       /\ relay.line = "off" /\ d.fan = "off" => relay'.line = "off"
       /\ o.ok /\ d.fan = "off" => relay'.line = "off"
  BY <1>3, <1>4
<1> QED
  BY <1>7, <1>8, <1>10, <1>11, <1>12, <1>13, <1>14 DEF Enacted

-----------------------------------------------------------------------------
(* The parts of the invariant that a request restores whatever it was.     *)
LEMMA ServeKeeps ==
  ASSUME IInv, Serve
  PROVE  /\ todo = {} /\ todo' = {} /\ since = 0 /\ since' = 0
         /\ phase' \in {"running", "closed"} /\ late' \in 0..MaxLate
<1>1. late \in 0..MaxLate /\ MaxLate \in Nat
  BY BudgetAssumption DEF IInv, Client
<1> QED
  BY <1>1 DEF IInv, Client, Schedule, Serve

LEMMA NoJobs ==
  /\ NoFanJobs \in [Slots -> Jobs \cup {NoJob}]
  /\ \A f : f = NoFanJobs => {i \in Slots : f[i] # NoJob} = {}
BY DEF NoFanJobs

LEMMA IdleSchedule ==
  ASSUME todo' = {}, since' = 0, flipAge' \in 0..MaxDwell,
         jobs' \in [Slots -> Jobs \cup {NoJob}],
         ctl'.policy.mode = "disabled" => Pending' = {}
  PROVE  Schedule'
BY ConstantTypes DEF Schedule

LEMMA ClearedSchedule ==
  ASSUME todo' = {}, since' = 0, flipAge' \in 0..MaxDwell, jobs' = NoFanJobs
  PROVE  Schedule'
<1>1. Pending' = {}
  BY NoJobs DEF Pending
<1> QED
  BY <1>1, NoJobs, IdleSchedule

LEMMA FreePower ==
  ASSUME hold' = NoHold
  PROVE  PowerHold' /\ ~Held'
BY DEF PowerHold, Holds, Held, NoHold

LEMMA HoldMeansOff ==
  ASSUME IInv
  PROVE  /\ hold.granted => Held /\ relay.line = "off"
         /\ Held => ctl.policy.mode = "disabled" /\ ctl.fan = "off"
         /\ ctl.policy.mode = "disabled" => Pending = {}
         /\ todo \subseteq Pending
         /\ hold \in Holds
BY DEF IInv, PowerHold, Schedule, Held, NoHold, Actuation, SafeState,
       SafeController

LEMMA SafeNow ==
  ASSUME IInv
  PROVE  /\ Actuation /\ SafeState(ctl) /\ ctl \in Controllers
         /\ ctl.policy \in Policies /\ ctl.policy.mode \in Modes
         /\ ctl.policy.minOn \in 0..MaxDwell /\ ctl.policy.minOff \in 0..MaxDwell
         /\ ctl.fan \in Powers
         /\ flipAge \in 0..MaxDwell /\ since \in 0..MaxDwell /\ since <= flipAge
         /\ jobs \in [Slots -> Jobs \cup {NoJob}]
         /\ disk \in Policies /\ chosen \subseteq Modes
<1>1. Actuation /\ Schedule /\ Client
  BY DEF IInv
<1>2. SafeState(ctl) /\ ctl \in Controllers
  BY <1>1 DEF Actuation, SafeState
<1>3. ctl.policy \in Policies /\ ctl.fan \in Powers
  BY <1>2 DEF Controllers
<1>4. /\ ctl.policy.mode \in Modes
      /\ ctl.policy.minOn \in 0..MaxDwell /\ ctl.policy.minOff \in 0..MaxDwell
  BY <1>3, ConstantTypes DEF Policies, ValidPolicy
<1> QED
  BY <1>1, <1>2, <1>3, <1>4 DEF Actuation, Schedule, Client

LEMMA SameActuation ==
  ASSUME Actuation, UNCHANGED actuation
  PROVE  Actuation' /\ DwellStep
<1>1. /\ ctl' = ctl /\ relay' = relay /\ said' = said /\ faults' = faults
      /\ flipAge' = flipAge
  BY DEF actuation
<1>2. Actuation'
  BY <1>1 DEF Actuation, CommandTruth
<1> QED
  BY <1>1, <1>2 DEF DwellStep

\* What a step remembers of who asked for DISABLED.
AskedBefore ==
  \/ Held /\ hold.prev = "disabled"
  \/ ~Held /\ ctl.policy.mode = "disabled"

Remembers ==
  /\ chosen \subseteq chosen'
  /\ disk'.mode = "disabled"
       => \/ disk.mode = "disabled" \/ "disabled" \in chosen'
          \/ ~Held /\ ctl.policy.mode = "disabled"
  /\ ctl'.policy.mode = "disabled"
       => \/ Held' \/ "disabled" \in chosen' \/ AskedBefore
          \/ disk.mode = "disabled"
  /\ Held' /\ hold'.prev = "disabled" => AskedBefore

LEMMA CommandRemembers ==
  ASSUME ~Held, UNCHANGED hold, chosen \subseteq chosen',
         disk' = disk \/ disk'.mode \in chosen' \cup {ctl.policy.mode},
         ctl'.policy.mode \in chosen' \cup {ctl.policy.mode}
  PROVE  Remembers
BY DEF Remembers, AskedBefore, Held

LEMMA SameHoldRemembers ==
  ASSUME Held' <=> Held, hold'.prev = hold.prev, chosen' = chosen, disk' = disk,
         ctl'.policy.mode = "disabled" => ctl.policy.mode = "disabled"
  PROVE  Remembers
BY DEF Remembers, AskedBefore

LEMMA EnactNow ==
  ASSUME IInv, NEW d, Decided(d), NEW o \in Applied(d), Enact(o, 0)
  PROVE  Enacted(d, o)
<1>1. o.faults \in 0..MaxFaults /\ MaxFaults \in Nat
  BY SafeNow, SafeStepState, AppliedCases, BudgetAssumption
  DEF Actuation, CommandTruth, Truthful, Decided
<1> QED
  BY <1>1, SafeNow, EnactSafe

-----------------------------------------------------------------------------
(* fan.set, mode.set and policy.update end alike.                          *)
LEMMA CommandStep ==
  ASSUME IInv, ~Held, Serve, UNCHANGED hold, NEW c, Decided(c), Command(c),
         chosen' \subseteq Modes
  PROVE  IInv' /\ DwellStep /\ disk' \in {disk, c.policy}
         /\ ctl'.policy = c.policy
<1>1. PICK o \in Applied(c) :
        \/ o.ok /\ Enact(o, 0) /\ disk' = o.ctl.policy
        \/ o.ok /\ o.faults > 0 /\ Enact(o, 1) /\ UNCHANGED disk
        \/ ~o.ok /\ Enact(o, 0) /\ UNCHANGED disk
  BY DEF Command
<1>2. o.faults \in 0..MaxFaults /\ MaxFaults \in Nat
  BY SafeNow, SafeStepState, AppliedCases, BudgetAssumption
  DEF Actuation, CommandTruth, Truthful, Decided
<1>3. Enacted(c, o)
  <2>1. CASE Enact(o, 0)
    BY <1>2, <2>1, SafeNow, EnactSafe
  <2>2. CASE o.faults > 0 /\ Enact(o, 1)
    BY <1>2, <2>2, SafeNow, EnactSafe
  <2> QED
    BY <1>1, <2>1, <2>2
<1>4. disk' \in {disk, c.policy} /\ c.policy \in Policies
  BY <1>1, <1>3, SafeStepState DEF Enacted, Decided
<1>5. Schedule'
  BY <1>3, ServeKeeps, ClearedSchedule DEF Command, Enacted
<1>6. PowerHold'
  BY FreePower DEF Held
<1>7. Client'
  BY <1>4, SafeNow, ServeKeeps DEF Client
<1> QED
  BY <1>3, <1>4, <1>5, <1>6, <1>7 DEF IInv, Enacted

LEMMA FanSetStep ==
  ASSUME IInv, FanSet
  PROVE  IInv' /\ DwellStep /\ Remembers
<1>1. ~Held /\ Serve /\ UNCHANGED hold
  BY DEF FanSet
<1>2. PICK power \in Powers :
        IF Rejects(ctl, power)
        THEN /\ jobs' = NoFanJobs
             /\ UNCHANGED <<actuation, disk, chosen>>
        ELSE /\ Command(SetFanPower(ctl, power))
             /\ chosen' = chosen \cup {SetFanPower(ctl, power).policy.mode}
  BY DEF FanSet
<1>3. CASE Rejects(ctl, power)
  <2>1. /\ jobs' = NoFanJobs /\ UNCHANGED actuation /\ disk' = disk
        /\ chosen' = chosen
    BY <1>2, <1>3
  <2>2. Actuation' /\ DwellStep
    BY <2>1, SafeNow, SameActuation
  <2>3. flipAge' = flipAge /\ ctl' = ctl
    BY <2>1 DEF actuation
  <2>4. Schedule'
    BY <1>1, <2>1, <2>3, SafeNow, ServeKeeps, ClearedSchedule
  <2>5. PowerHold'
    BY <1>1, FreePower DEF Held
  <2>6. Client'
    BY <1>1, <2>1, SafeNow, ServeKeeps DEF Client
  <2> QED
    BY <1>1, <2>1, <2>2, <2>3, <2>4, <2>5, <2>6,
       CommandRemembers DEF IInv
<1>4. CASE ~Rejects(ctl, power)
  <2> DEFINE c == SetFanPower(ctl, power)
  <2>1. Command(c) /\ chosen' = chosen \cup {c.policy.mode}
    BY <1>2, <1>4
  <2>2. Decided(c)
    BY <1>4, SafeNow, SetFanPowerSafe, SetFanPowerKeeps DEF Decided
  <2>3. c.policy.mode \in Modes
    BY <2>2, SafeStepState DEF Decided, Policies
  <2>4. chosen' \subseteq Modes
    BY <2>1, <2>3, SafeNow
  <2> HIDE DEF c
  <2>5. IInv' /\ DwellStep /\ disk' \in {disk, c.policy} /\ ctl'.policy = c.policy
    BY <1>1, <2>1, <2>2, <2>4, CommandStep
  <2> QED
    BY <1>1, <2>1, <2>5, CommandRemembers
<1> QED
  BY <1>3, <1>4

LEMMA ModeSetStep ==
  ASSUME IInv, ModeSet
  PROVE  IInv' /\ DwellStep /\ Remembers
<1>1. ~Held /\ Serve /\ UNCHANGED hold
  BY DEF ModeSet
<1>2. PICK mode \in UserModes :
        Command(SetMode(ctl, mode)) /\ chosen' = chosen \cup {mode}
  BY DEF ModeSet
<1> DEFINE c == SetMode(ctl, mode)
<1>3. mode \in Modes
  BY ClientAssumption
<1>4. Decided(c) /\ c.policy.mode = mode
  BY <1>3, SafeNow, SetModeMakes DEF Decided, Untimed
<1>5. Command(c) /\ chosen' = chosen \cup {mode} /\ chosen' \subseteq Modes
  BY <1>2, <1>3, SafeNow
<1> HIDE DEF c
<1>6. IInv' /\ DwellStep /\ disk' \in {disk, c.policy} /\ ctl'.policy = c.policy
  BY <1>1, <1>4, <1>5, CommandStep
<1> QED
  BY <1>1, <1>4, <1>5, <1>6, CommandRemembers

LEMMA PolicyUpdateStep ==
  ASSUME IInv, PolicyUpdate
  PROVE  IInv' /\ DwellStep /\ Remembers
<1>1. ~Held /\ Serve /\ UNCHANGED hold
  BY DEF PolicyUpdate
<1>2. PICK named \in SUBSET UserModes, s \in Settings :
        LET mode == IF named = {} THEN ctl.policy.mode
                                  ELSE CHOOSE m \in named : TRUE
            p == [gen |-> ctl.policy.gen + 1, mode |-> mode, start |-> s.start,
                  stop |-> s.stop, minOn |-> s.minOn, minOff |-> s.minOff]
        IN  /\ Cardinality(named) <= 1
            /\ ValidPolicy(p)
            /\ Command(UpdatePolicy(ctl, p))
            /\ chosen' = chosen \cup named
  BY DEF PolicyUpdate
<1> DEFINE mode == IF named = {} THEN ctl.policy.mode
                                 ELSE CHOOSE m \in named : TRUE
           p == [gen |-> ctl.policy.gen + 1, mode |-> mode, start |-> s.start,
                 stop |-> s.stop, minOn |-> s.minOn, minOff |-> s.minOff]
           c == UpdatePolicy(ctl, p)
<1>3. mode \in Modes /\ mode \in named \cup {ctl.policy.mode}
  BY SafeNow, ClientAssumption
<1>4. ctl.policy.gen + 1 \in Nat
  BY SafeNow DEF Policies
<1>5. p \in Policies /\ p.mode = mode
  <2>1. s \in [start : Int, stop : Int, minOn : Nat, minOff : Nat]
    BY ClientAssumption
  <2>2. p \in [gen : Nat, mode : Modes, start : Int, stop : Int,
               minOn : Nat, minOff : Nat]
    <3> HIDE DEF mode
    <3> QED
      BY <1>3, <1>4, <2>1
  <2>3. ValidPolicy(p)
    BY <1>2
  <2>4. p.mode = mode
    OBVIOUS
  <2> HIDE DEF p, mode
  <2> QED
    BY <2>2, <2>3, <2>4 DEF Policies
<1>6. Command(c) /\ chosen' = chosen \cup named
  BY <1>2
<1>7. chosen' \subseteq Modes
  BY <1>6, SafeNow, ClientAssumption
<1> HIDE DEF p, mode
<1>8. Decided(c) /\ c.policy = p
  BY <1>5, SafeNow, UpdatePolicySafe, UpdatePolicyMakes DEF Decided, Untimed
<1> HIDE DEF c
<1>9. IInv' /\ DwellStep /\ disk' \in {disk, c.policy} /\ ctl'.policy = c.policy
  BY <1>1, <1>6, <1>7, <1>8, CommandStep
<1> QED
  BY <1>1, <1>3, <1>5, <1>6, <1>8, <1>9, CommandRemembers

-----------------------------------------------------------------------------
(* A reading, and the jobs of the automation.                              *)
LEMMA ObserveDecided ==
  ASSUME IInv, NEW r \in Readings
  PROVE  /\ Decided(Observe(ctl, r)) /\ Observe(ctl, r).policy = ctl.policy
         /\ Held => Observe(ctl, r).fan = "off"
<1>1. Decided(Observe(ctl, r)) /\ Observe(ctl, r).policy = ctl.policy
  BY SafeNow, ObserveSafe, ObserveKeeps DEF Decided, Untimed
<1> QED
  BY <1>1, HoldMeansOff, SafeStepState DEF Decided

LEMMA SensorReadStep ==
  ASSUME IInv, SensorRead
  PROVE  IInv' /\ DwellStep /\ Remembers
<1>1. Serve /\ UNCHANGED <<jobs, hold, disk, chosen>>
  BY DEF SensorRead
<1>2. PICK r \in Readings : \E o \in Applied(Observe(ctl, r)) : Enact(o, 0)
  BY DEF SensorRead
<1> DEFINE d == Observe(ctl, r)
<1>3. PICK o \in Applied(d) : Enact(o, 0)
  BY <1>2
<1>4. Decided(d) /\ d.policy = ctl.policy /\ (Held => d.fan = "off")
  BY ObserveDecided
<1> HIDE DEF d
<1>5. Enacted(d, o)
  BY <1>3, <1>4, EnactNow
<1>6. ctl'.policy = ctl.policy /\ Actuation' /\ DwellStep /\ flipAge' \in 0..MaxDwell
  BY <1>4, <1>5 DEF Enacted
<1>7. Schedule'
  <2>1. Pending' = Pending
    BY <1>1 DEF Pending
  <2> QED
    BY <1>1, <1>6, <2>1, SafeNow, ServeKeeps, HoldMeansOff, IdleSchedule
<1>8. PowerHold'
  BY <1>1, <1>4, <1>5, <1>6, HoldMeansOff DEF PowerHold, Held, Enacted
<1>9. Client'
  BY <1>1, SafeNow, ServeKeeps DEF Client
<1> QED
  <2>1. Remembers
    BY <1>1, <1>6, SameHoldRemembers DEF Held
  <2> QED
    BY <1>6, <1>7, <1>8, <1>9, <2>1 DEF IInv

LEMMA NewJobType ==
  ASSUME IInv, NEW kind \in OneShots \cup Composites, NEW delay \in Delays,
         NEW span \in Spans
  PROVE  NewJob(kind, delay, span) \in Jobs
<1>1. LongestDwell(ctl.policy) \in Nat
  BY SafeNow, ConstantTypes DEF LongestDwell
<1>2. /\ Patience \in Nat /\ Grace \in Nat /\ Lease \in Nat
      /\ delay \in Nat /\ span \in Nat
  BY TimingAssumption
<1> DEFINE margin == (IF Patience > LongestDwell(ctl.policy)
                      THEN Patience ELSE LongestDwell(ctl.policy)) + Grace
           allowed == CASE kind \in OneShots -> margin
                     [] kind = "fan_run" -> span + margin
                     [] kind = "fan_cycle" -> Lease
<1>3. margin \in Nat
  BY <1>1, <1>2
<1>4. allowed \in Nat
  <2> HIDE DEF margin
  <2>1. CASE kind \in OneShots
    BY <1>3, <2>1 DEF OneShots
  <2>2. CASE kind = "fan_run"
    BY <1>2, <1>3, <2>2 DEF OneShots
  <2>3. CASE kind = "fan_cycle"
    BY <1>2, <2>3 DEF OneShots
  <2> QED
    BY <2>1, <2>2, <2>3 DEF Composites
<1>5. NewJob(kind, delay, span)
        = [kind |-> kind, due |-> delay, phase |-> "waiting",
           span |-> IF kind \in OneShots THEN 0 ELSE span,
           left |-> delay + allowed]
  BY DEF NewJob
<1> HIDE DEF allowed
<1>6. delay + allowed \in Nat /\ (IF kind \in OneShots THEN 0 ELSE span) \in Nat
  BY <1>2, <1>4
<1> QED
  BY <1>2, <1>5, <1>6 DEF Jobs

LEMMA AutomationAddStep ==
  ASSUME IInv, AutomationAdd
  PROVE  IInv' /\ DwellStep /\ Remembers
<1>1. Serve /\ ~Held /\ UNCHANGED <<hold, disk, chosen>> /\ UNCHANGED actuation
  BY DEF AutomationAdd
<1>2. PICK i \in Slots \ Pending, kind \in OneShots \cup Composites,
           delay \in Delays, span \in Spans :
        /\ Admits(kind, span)
        /\ jobs' = [jobs EXCEPT ![i] = NewJob(kind, delay, span)]
  BY DEF AutomationAdd
<1>3. jobs' \in [Slots -> Jobs \cup {NoJob}]
  BY <1>2, SafeNow, NewJobType
<1>4. Actuation' /\ DwellStep /\ ctl' = ctl /\ flipAge' = flipAge
  BY <1>1, SafeNow, SameActuation DEF actuation
<1>5. Schedule'
  BY <1>1, <1>2, <1>3, <1>4, SafeNow, ServeKeeps, IdleSchedule DEF Admits
<1>6. PowerHold'
  BY <1>1, FreePower DEF Held
<1>7. Client'
  BY <1>1, SafeNow, ServeKeeps DEF Client
<1>8. Remembers
  BY <1>1, <1>4, SameHoldRemembers DEF Held
<1> QED
  BY <1>4, <1>5, <1>6, <1>7, <1>8 DEF IInv

(* The timers switch the fan through the controller like a user, and the   *)
(* dwell that matters is the one of the policy before and after alike.     *)
LEMMA ScheduledDecided ==
  ASSUME IInv, NEW power \in Powers, NEW expired \in BOOLEAN,
         ~Rejects(ctl, power), expired => power = "off",
         ~expired /\ power # ctl.fan => flipAge >= RequiredDwell
  PROVE  LET d == ScheduledFanPower(ctl, power, expired)
         IN  /\ Decided(d) /\ d.fan = power
             /\ d.policy.mode = "disabled" => ctl.policy.mode = "disabled"
<1> DEFINE d == ScheduledFanPower(ctl, power, expired)
<1>1. SafeStep(ctl, d)
  BY SafeNow, ScheduledFanPowerSafe
<1>2. /\ d.fan = power /\ KeepsDwell(ctl.policy, d.policy)
      /\ (d.policy.mode = "disabled" <=> ctl.policy.mode = "disabled")
      /\ d.fan # ctl.fan /\ expired => d.reason \notin TimerReasons
  BY SafeNow, ScheduledFanPowerKeeps
<1> HIDE DEF d
<1>3. Decided(d)
  BY <1>1, <1>2 DEF Decided, RequiredDwell, Dwell, KeepsDwell
<1> QED
  BY <1>2, <1>3 DEF d

LEMMA AutomationCancelStep ==
  ASSUME IInv, AutomationCancel
  PROVE  IInv' /\ DwellStep /\ Remembers
<1>1. Serve /\ UNCHANGED <<hold, disk, chosen>>
  BY DEF AutomationCancel
<1>2. PICK gone \in {Pending} \cup {{i} : i \in Pending} :
        /\ gone # {}
        /\ jobs' = [i \in Slots |-> IF i \in gone THEN NoJob ELSE jobs[i]]
        /\ IF \E i \in gone : Running(i)
           THEN \E o \in Applied(ScheduledFanPower(ctl, "off", TRUE)) :
                  Enact(o, 0)
           ELSE UNCHANGED actuation
  BY DEF AutomationCancel
<1>3. ~Held /\ ctl.policy.mode # "disabled"
  BY <1>2, HoldMeansOff
<1>4. jobs' \in [Slots -> Jobs \cup {NoJob}]
  BY <1>2, SafeNow
<1>5. /\ Actuation' /\ DwellStep /\ flipAge' \in 0..MaxDwell
      /\ ctl'.policy.mode # "disabled"
  <2>1. CASE UNCHANGED actuation
    BY <1>3, <2>1, SafeNow, SameActuation DEF actuation
  <2>2. CASE \E o \in Applied(ScheduledFanPower(ctl, "off", TRUE)) : Enact(o, 0)
    <3> DEFINE d == ScheduledFanPower(ctl, "off", TRUE)
    <3>1. PICK o \in Applied(d) : Enact(o, 0)
      BY <2>2
    <3>2. Decided(d) /\ (d.policy.mode = "disabled" => ctl.policy.mode = "disabled")
      BY ScheduledDecided DEF Rejects, Powers
    <3> HIDE DEF d
    <3>3. Enacted(d, o)
      BY <3>1, <3>2, EnactNow
    <3> QED
      BY <1>3, <3>2, <3>3 DEF Enacted
  <2> QED
    BY <1>2, <2>1, <2>2
<1>6. Schedule'
  BY <1>1, <1>4, <1>5, ServeKeeps, IdleSchedule
<1>7. PowerHold'
  BY <1>1, <1>3, FreePower DEF Held
<1>8. Client'
  BY <1>1, SafeNow, ServeKeeps DEF Client
<1>9. Remembers
  BY <1>1, <1>5, SameHoldRemembers DEF Held
<1> QED
  BY <1>5, <1>6, <1>7, <1>8, <1>9 DEF IInv

-----------------------------------------------------------------------------
(* The power hold.                                                         *)
LEMMA PowerPrepareStep ==
  ASSUME IInv, PowerPrepare
  PROVE  IInv' /\ DwellStep /\ Remembers
<1> DEFINE d == SetMode(ctl, "disabled")
<1>1. Serve /\ ~Held /\ jobs' = NoFanJobs /\ UNCHANGED <<disk, chosen>>
  BY DEF PowerPrepare
<1>2. PICK o \in Applied(d) :
        /\ Enact(o, 0)
        /\ hold' = [left |-> HoldTime, prev |-> ctl.policy.mode, granted |-> o.ok]
  BY DEF PowerPrepare
<1>3. Decided(d) /\ d.policy.mode = "disabled" /\ d.fan = "off"
  BY SafeNow, SetModeMakes, SafeStepState DEF Decided, Untimed, Modes
<1> HIDE DEF d
<1>4. Enacted(d, o)
  BY <1>2, <1>3, EnactNow
<1>5. o.ok \in BOOLEAN
  BY <1>3, SafeNow, SafeStepState, AppliedCases
  DEF Actuation, CommandTruth, Truthful, Decided
<1>6. /\ hold' \in Holds
      /\ hold'.prev = ctl.policy.mode /\ hold'.granted = o.ok
  BY <1>2, <1>5, SafeNow, TimingAssumption DEF Holds
<1>7. hold' # NoHold
  BY <1>2, SafeNow DEF NoHold, Modes
<1>8. PowerHold'
  BY <1>3, <1>4, <1>6 DEF PowerHold, Enacted
<1>9. Schedule'
  BY <1>1, <1>4, ServeKeeps, ClearedSchedule DEF Enacted
<1>10. Client'
  BY <1>1, SafeNow, ServeKeeps DEF Client
<1>11. Remembers
  BY <1>1, <1>6, <1>7 DEF Remembers, AskedBefore, Held
<1> QED
  BY <1>4, <1>8, <1>9, <1>10, <1>11 DEF IInv, Enacted

LEMMA PowerReleaseStep ==
  ASSUME IInv, PowerRelease
  PROVE  IInv' /\ DwellStep /\ Remembers
<1> DEFINE d == SetMode(ctl, hold.prev)
<1>1. Serve /\ hold.granted /\ hold' = NoHold /\ UNCHANGED <<jobs, disk, chosen>>
  BY DEF PowerRelease
<1>2. PICK o \in Applied(d) : Enact(o, 0)
  BY DEF PowerRelease
<1>3. Held /\ ctl.policy.mode = "disabled" /\ Pending = {} /\ hold.prev \in Modes
  BY <1>1, HoldMeansOff DEF Holds, Held
<1>4. Decided(d) /\ d.policy.mode = hold.prev
  BY <1>3, SafeNow, SetModeMakes DEF Decided, Untimed
<1> HIDE DEF d
<1>5. Enacted(d, o)
  BY <1>2, <1>4, EnactNow
<1>6. PowerHold' /\ ~Held'
  BY <1>1, FreePower
<1>7. Pending' = {}
  BY <1>1, <1>3 DEF Pending
<1>8. Schedule'
  BY <1>1, <1>5, <1>7, SafeNow, ServeKeeps, IdleSchedule DEF Enacted
<1>9. Client'
  BY <1>1, SafeNow, ServeKeeps DEF Client
<1>10. Remembers
  BY <1>1, <1>3, <1>4, <1>5, <1>6 DEF Remembers, AskedBefore, Enacted
<1> QED
  BY <1>5, <1>6, <1>8, <1>9, <1>10 DEF IInv, Enacted

-----------------------------------------------------------------------------
(* The polling thread.                                                     *)
LEMMA SafeStepTrans ==
  ASSUME NEW c, SafeState(c), NEW b, SafeStep(c, b), b.fan = c.fan,
         NEW d, SafeStep(b, d)
  PROVE  SafeStep(c, d)
<1>1. /\ c.age \in 0..MaxDwell /\ MaxDwell \in Nat /\ b.age \in {0, c.age}
      /\ d.age \in {0, b.age} /\ d.policy \in Policies
  BY SafeStepState, ConstantTypes DEF SafeState, Controllers
<1>2. RespectsDwell(c, d)
  <2> SUFFICES ASSUME d.fan # c.fan, d.reason \in ThermostatReasons
               PROVE  c.age >= Dwell(c.fan, d.policy)
    BY DEF RespectsDwell, Dwell
  <2>1. b.age >= Dwell(b.fan, d.policy)
    BY DEF SafeStep, Sound, RespectsDwell, Dwell
  <2>2. Dwell(b.fan, d.policy) \in 0..MaxDwell
    BY <1>1, DwellTypes
  <2> QED
    BY <1>1, <2>1, <2>2
<1>3. SemiIsCommanded(c, d)
  BY DEF SafeStep, Sound, SemiIsCommanded
<1> QED
  BY <1>1, <1>2, <1>3 DEF SafeStep, Sound

LEMMA PollStep ==
  ASSUME IInv, Poll
  PROVE  IInv' /\ DwellStep /\ Remembers
<1>1. todo = {} /\ UNCHANGED <<phase, late, disk, chosen>>
  BY DEF Poll
<1>2. PICK r \in Readings :
        LET observed == Observe(ctl, r)
        IN  \E o \in Applied(IF Overdue THEN SetMode(observed, hold.prev)
                                        ELSE observed) :
              /\ Enact(o, 0)
              /\ hold' = IF Overdue THEN NoHold ELSE hold
              /\ jobs' = IF o.ok THEN jobs ELSE NoFanJobs
              /\ todo' = IF o.ok /\ hold' = NoHold THEN Pending ELSE {}
              /\ since' = IF todo' = {} THEN 0 ELSE o.ctl.age
  BY DEF Poll
<1> DEFINE b == Observe(ctl, r)
           d == IF Overdue THEN SetMode(b, hold.prev) ELSE b
<1>3. PICK o \in Applied(d) :
        /\ Enact(o, 0)
        /\ hold' = IF Overdue THEN NoHold ELSE hold
        /\ jobs' = IF o.ok THEN jobs ELSE NoFanJobs
        /\ todo' = IF o.ok /\ hold' = NoHold THEN Pending ELSE {}
        /\ since' = IF todo' = {} THEN 0 ELSE o.ctl.age
  BY <1>2
<1>4. Decided(b) /\ b.policy = ctl.policy /\ (Held => b.fan = "off")
  BY ObserveDecided
<1>5. ASSUME Overdue
      PROVE  /\ Held /\ Pending = {} /\ hold.prev \in Modes /\ Decided(d)
             /\ d.policy.mode = hold.prev
  <2>1. Held /\ ctl.fan = "off" /\ Pending = {} /\ hold.prev \in Modes
    BY <1>5, HoldMeansOff DEF Overdue, Holds, Held
  <2> DEFINE e == SetMode(b, hold.prev)
  <2>2. SafeState(b) /\ SafeStep(ctl, b) /\ b.fan = ctl.fan
    BY <1>4, <2>1, SafeStepState DEF Decided
  <2> HIDE DEF b
  <2>3. SafeStep(b, e) /\ Untimed(b, e) /\ e.policy.mode = hold.prev
    BY <2>1, <2>2, SetModeMakes
  <2> HIDE DEF e
  <2>4. SafeStep(ctl, e)
    BY <2>2, <2>3, SafeNow, SafeStepTrans
  <2>5. Decided(e)
    BY <2>2, <2>3, <2>4 DEF Decided, Untimed
  <2> QED
    BY <1>5, <2>1, <2>3, <2>5 DEF e
<1>6. ~Overdue => d = b
  OBVIOUS
<1> HIDE DEF b, d
<1>7. Decided(d)
  BY <1>4, <1>5, <1>6
<1>8. Enacted(d, o)
  BY <1>3, <1>7, EnactNow
<1>9. ctl'.policy = d.policy /\ (o.ok => ctl' = o.ctl)
  BY <1>8 DEF Enacted
<1>10. ctl'.policy.mode = "disabled" => Pending = {}
  BY <1>4, <1>5, <1>6, <1>9, HoldMeansOff
<1>11. Schedule'
  <2>1. jobs' \in [Slots -> Jobs \cup {NoJob}] /\ Pending' \in {Pending, {}}
        /\ (o.ok => Pending' = Pending)
    BY <1>3, SafeNow, NoJobs DEF Pending
  <2>2. todo' \subseteq Pending' /\ (todo' # {} => o.ok)
    BY <1>3, <2>1
  <2>3. since' \in 0..MaxDwell /\ since' <= flipAge' /\ (todo' = {} => since' = 0)
    BY <1>3, <1>8, <1>9, <2>2, ConstantTypes DEF Enacted
  <2> QED
    BY <1>10, <2>1, <2>2, <2>3 DEF Schedule
<1>12. PowerHold'
  <2>1. CASE Overdue
    BY <1>3, <2>1, FreePower
  <2>2. CASE ~Overdue
    <3>1. hold' = hold /\ d.policy = ctl.policy /\ (Held => d.fan = "off")
      BY <1>3, <1>4, <1>6, <2>2
    <3> QED
      BY <1>8, <1>9, <3>1, HoldMeansOff DEF PowerHold, Held, Enacted
  <2> QED
    BY <2>1, <2>2
<1>13. Client'
  BY <1>1 DEF Client, IInv
<1>14. Remembers
  <2>1. CASE Overdue
    <3>1. ~Held' /\ ctl'.policy.mode = hold.prev
      BY <1>3, <1>5, <1>9, <2>1, FreePower
    <3> QED
      BY <1>1, <1>5, <2>1, <3>1 DEF Remembers, AskedBefore
  <2>2. CASE ~Overdue
    BY <1>1, <1>3, <1>4, <1>6, <1>9, <2>2, SameHoldRemembers DEF Held
  <2> QED
    BY <2>1, <2>2
<1> QED
  BY <1>8, <1>11, <1>12, <1>13, <1>14 DEF IInv, Enacted

LEMMA VisitedSchedule ==
  ASSUME IInv, NEW i \in todo, NEW j \in Jobs \cup {NoJob}, NEW age,
         Visited(i, j, age), age \in 0..MaxDwell, age <= flipAge',
         flipAge' \in 0..MaxDwell, ctl'.policy.mode # "disabled"
  PROVE  Schedule'
<1>1. /\ jobs' = [jobs EXCEPT ![i] = j] /\ todo' = todo \ {i}
      /\ since' = IF todo' = {} THEN 0 ELSE age
  BY DEF Visited
<1>2. todo \subseteq Pending /\ Pending \subseteq Slots
  BY HoldMeansOff DEF Pending
<1>3. jobs' \in [Slots -> Jobs \cup {NoJob}] /\ Pending \ {i} \subseteq Pending'
  BY <1>1, <1>2, SafeNow DEF Pending
<1>4. since' \in 0..MaxDwell /\ since' <= flipAge' /\ (todo' = {} => since' = 0)
  BY <1>1, ConstantTypes
<1> QED
  BY <1>1, <1>2, <1>3, <1>4 DEF Schedule

LEMMA AfterWriteType ==
  ASSUME IInv, NEW j \in Jobs
  PROVE  AfterWrite(j) \in Jobs \cup {NoJob} /\ Target(j) \in Powers
<1>1. /\ j.kind \in OneShots \cup Composites /\ j.span \in Nat
      /\ ctl.policy.minOn \in Nat /\ Grace \in Nat
  BY SafeNow, TimingAssumption, ConstantTypes DEF Jobs
<1>2. Target(j) \in Powers
  BY <1>1 DEF Target, OneShots, Composites, Powers
<1> DEFINE allowed == j.span + ctl.policy.minOn + Grace
<1>3. allowed \in Nat
  BY <1>1
<1> HIDE DEF allowed
<1>4. [j EXCEPT !.phase = "on", !.due = j.span, !.left = allowed] \in Jobs
  BY <1>1, <1>3 DEF Jobs
<1>5. [j EXCEPT !.phase = Target(j), !.due = j.span] \in Jobs
  BY <1>1, <1>2 DEF Jobs, Powers
<1>6. j.kind \in OneShots => AfterWrite(j) = NoJob
  BY DEF AfterWrite, OneShots
<1>7. CASE j.kind = "fan_run"
  <2>1. Target(j) = "off" => AfterWrite(j) = NoJob
    BY <1>7 DEF AfterWrite
  <2>2. Target(j) = "on" =>
          AfterWrite(j) = [j EXCEPT !.phase = "on", !.due = j.span, !.left = allowed]
    BY <1>7 DEF AfterWrite, OneShots, allowed
  <2> QED
    BY <1>2, <1>4, <2>1, <2>2 DEF Powers
<1>8. CASE j.kind = "fan_cycle"
  <2>1. AfterWrite(j) = [j EXCEPT !.phase = Target(j), !.due = j.span]
    BY <1>8 DEF AfterWrite, OneShots
  <2> QED
    BY <1>2, <1>5, <2>1
<1> QED
  BY <1>1, <1>2, <1>6, <1>7, <1>8 DEF Composites

LEMMA WriteSafe ==
  ASSUME IInv, NEW i \in todo, NEW power \in Powers, NEW expired \in BOOLEAN,
         NEW j \in Jobs \cup {NoJob}, Write(i, power, expired, j),
         expired => power = "off",
         ~expired /\ power # ctl.fan => flipAge >= RequiredDwell
  PROVE  Actuation' /\ DwellStep /\ Schedule' /\ ctl'.policy.mode # "disabled"
<1> DEFINE d == ScheduledFanPower(ctl, power, expired)
<1>1. ctl.policy.mode # "disabled"
  BY HoldMeansOff
<1>2. /\ Decided(d) /\ d.fan = power
      /\ d.policy.mode = "disabled" => ctl.policy.mode = "disabled"
  BY <1>1, ScheduledDecided DEF Rejects
<1>3. PICK o \in Applied(d) :
        /\ Enact(o, 0)
        /\ IF o.ok
           THEN Visited(i, j, IF power = ctl.fan /\ ~expired THEN since ELSE 0)
           ELSE jobs' = NoFanJobs /\ todo' = {} /\ since' = 0
  BY DEF Write
<1> HIDE DEF d
<1>4. Enacted(d, o)
  BY <1>2, <1>3, EnactNow
<1>5. /\ ctl'.policy.mode # "disabled" /\ flipAge' \in 0..MaxDwell
      /\ Actuation' /\ DwellStep
      /\ o.ok /\ power = ctl.fan => flipAge' = flipAge
  BY <1>1, <1>2, <1>4 DEF Enacted
<1>6. CASE o.ok
  <2> DEFINE age == IF power = ctl.fan /\ ~expired THEN since ELSE 0
  <2>1. age \in 0..MaxDwell /\ age <= flipAge'
    BY <1>5, <1>6, SafeNow, ConstantTypes
  <2>2. Visited(i, j, age)
    BY <1>3, <1>6
  <2> HIDE DEF age
  <2>3. Schedule'
    BY <1>5, <2>1, <2>2, VisitedSchedule
  <2> QED
    BY <1>5, <2>3
<1>7. CASE ~o.ok
  BY <1>3, <1>5, <1>7, ClearedSchedule
<1> QED
  BY <1>6, <1>7

LEMMA TickJobStep ==
  ASSUME IInv, TickJob
  PROVE  IInv' /\ DwellStep /\ Remembers
<1>1. UNCHANGED <<hold, phase, late, disk, chosen>>
  BY DEF TickJob
<1> DEFINE Due(i) ==
      LET j == jobs[i]
          tooEarly == Target(j) # ctl.fan /\ since < RequiredDwell
          untrusted == ctl.policy.mode = "disabled" \/ ctl.quality # "ready"
      IN  \/ /\ j.left = 0 /\ j.kind \in Composites /\ j.phase = "on"
             /\ Write(i, "off", TRUE, NoJob)
          \/ /\ j.left = 0 /\ ~(j.kind \in Composites /\ j.phase = "on")
             /\ Visited(i, NoJob, since) /\ UNCHANGED actuation
          \/ /\ j.left > 0 /\ untrusted
             /\ Visited(i, NoJob, since) /\ UNCHANGED actuation
          \/ /\ j.left > 0 /\ ~untrusted /\ j.due > 0
             /\ Visited(i, j, since) /\ UNCHANGED actuation
          \/ /\ j.left > 0 /\ ~untrusted /\ j.due = 0 /\ tooEarly
             /\ Visited(i, [j EXCEPT !.due = RequiredDwell - since], since)
             /\ UNCHANGED actuation
          \/ /\ j.left > 0 /\ ~untrusted /\ j.due = 0 /\ ~tooEarly
             /\ Write(i, Target(j), FALSE, AfterWrite(j))
<1>2. PICK i \in todo : Due(i)
  BY DEF TickJob
<1> DEFINE j == jobs[i]
<1>3. ~Held /\ ctl.policy.mode # "disabled"
  BY HoldMeansOff
<1>4. j \in Jobs
  BY HoldMeansOff, SafeNow DEF Pending
<1>5. RequiredDwell \in 0..MaxDwell
  BY SafeNow DEF RequiredDwell
<1>6. since \in 0..MaxDwell /\ flipAge \in 0..MaxDwell /\ since <= flipAge
      /\ MaxDwell \in Nat
  BY SafeNow, ConstantTypes
<1>7. ASSUME NEW k \in Jobs \cup {NoJob}, Visited(i, k, since), UNCHANGED actuation
      PROVE  Actuation' /\ DwellStep /\ Schedule' /\ ctl'.policy.mode # "disabled"
  <2>1. Actuation' /\ DwellStep /\ ctl' = ctl /\ flipAge' = flipAge
    BY <1>7, SafeNow, SameActuation DEF actuation
  <2>2. Schedule'
    BY <1>3, <1>6, <1>7, <2>1, VisitedSchedule
  <2> QED
    BY <1>3, <2>1, <2>2
<1>8. since < RequiredDwell => [j EXCEPT !.due = RequiredDwell - since] \in Jobs
  <2> DEFINE n == RequiredDwell - since
  <2>1. since < RequiredDwell => n \in Nat
    BY <1>5, <1>6
  <2> HIDE DEF n, j
  <2>2. n \in Nat => [j EXCEPT !.due = n] \in Jobs
    BY <1>4 DEF Jobs
  <2> QED
    BY <2>1, <2>2 DEF n
<1>9. ASSUME Write(i, "off", TRUE, NoJob)
      PROVE  Actuation' /\ DwellStep /\ Schedule' /\ ctl'.policy.mode # "disabled"
  BY <1>9, WriteSafe DEF Powers
<1>10. ASSUME ~(Target(j) # ctl.fan /\ since < RequiredDwell),
              Write(i, Target(j), FALSE, AfterWrite(j))
       PROVE  Actuation' /\ DwellStep /\ Schedule' /\ ctl'.policy.mode # "disabled"
  <2>1. AfterWrite(j) \in Jobs \cup {NoJob} /\ Target(j) \in Powers
    BY <1>4, AfterWriteType
  <2>2. Target(j) # ctl.fan => flipAge >= RequiredDwell
    BY <1>5, <1>6, <1>10
  <2> HIDE DEF j
  <2> QED
    BY <1>10, <2>1, <2>2, WriteSafe
<1>11. Actuation' /\ DwellStep /\ Schedule' /\ ctl'.policy.mode # "disabled"
  <2>1. \/ Write(i, "off", TRUE, NoJob)
        \/ \E k \in Jobs \cup {NoJob} : Visited(i, k, since) /\ UNCHANGED actuation
        \/ /\ ~(Target(j) # ctl.fan /\ since < RequiredDwell)
           /\ Write(i, Target(j), FALSE, AfterWrite(j))
    <3> HIDE DEF j
    <3> QED
      BY <1>2, <1>4, <1>8 DEF j
  <2> QED
    BY <1>7, <1>9, <1>10, <2>1
<1>12. PowerHold'
  BY <1>1, <1>3, FreePower DEF Held
<1>13. Client'
  BY <1>1 DEF Client, IInv
<1>14. Remembers
  BY <1>1, <1>11, SameHoldRemembers DEF Held
<1> QED
  BY <1>11, <1>12, <1>13, <1>14 DEF IInv

-----------------------------------------------------------------------------
(* Shutdown, restart, time.                                                *)
LEMMA ShutdownStep ==
  ASSUME IInv, Shutdown
  PROVE  IInv' /\ DwellStep /\ disk' = disk /\ chosen' = chosen
         /\ phase' = "closed"
<1>1. /\ todo = {} /\ todo' = {} /\ since' = since
      /\ phase' = "closed" /\ late' \in 0..MaxLate
      /\ ctl' = ShutdownOff(ctl)
      /\ flipAge' = IF ctl.fan = "off" THEN flipAge ELSE 0
      /\ jobs' = NoFanJobs /\ hold' = NoHold /\ disk' = disk /\ chosen' = chosen
  BY DEF Shutdown
<1>2. /\ "off" \in Powers /\ "SHUTDOWN_SAFE_OFF" \in Reasons \ ThermostatReasons
      /\ "SHUTDOWN_SAFE_OFF" \in Reasons
  BY DEF Powers, Reasons, ThermostatReasons
<1>3. /\ SafeState(ctl') /\ ctl'.fan = "off" /\ ctl'.age = 0
      /\ ctl'.reason = "SHUTDOWN_SAFE_OFF"
  <2>1. SafeStep(ctl, ctl')
    BY <1>1, <1>2, SafeNow, SafeOffSafe DEF ShutdownOff
  <2>2. IsTransition(ctl, ctl', "off", FALSE, "SHUTDOWN_SAFE_OFF")
    BY <1>1, <1>2, SafeNow, TransitionType DEF ShutdownOff
  <2> QED
    BY <2>1, <2>2, SafeStepState DEF IsTransition
<1>4. flipAge' \in 0..MaxDwell /\ ctl'.age <= flipAge' /\ since = 0 /\ since' = 0
  BY <1>1, <1>3, SafeNow, ConstantTypes DEF IInv, Schedule
<1>5. Truthful(relay) /\ faults \in 0..MaxFaults /\ MaxFaults \in Nat
  BY SafeNow, BudgetAssumption DEF Actuation, Truthful, CommandTruth
<1>6. Truthful(Driven("off")) /\ Driven("off").line = "off"
  BY DrivenTruth DEF Powers
<1>7. \/ /\ relay' = CloseSucceeds(Driven("off"))
         /\ said' = [last |-> "off", result |-> "SUCCESS"]
         /\ faults' = faults
      \/ /\ faults > 0 /\ faults' = faults - 1
         /\ said' \in {[last |-> "none", result |-> "RELEASE_FAILED"],
                       [last |-> "none", result |-> "FAILED"]}
         /\ \E r : /\ Truthful(r)
                  /\ relay' \in CloseFails(r) \cup {CloseSucceeds(r)}
  <2>1. \A r \in SafeOffFails(relay) : Truthful(r)
    BY <1>5, SafeOffTruth
  <2> QED
    BY <1>6, <2>1 DEF Shutdown
<1>8. Truthful(relay') /\ said' \in Reports /\ faults' \in 0..MaxFaults
      /\ (said'.last # "none" => said'.last = "off" /\ relay'.line = "off")
  BY <1>5, <1>6, <1>7, CloseTruth DEF Reports, Powers
<1>9. Actuation'
  BY <1>3, <1>4, <1>8 DEF Actuation, Truthful, CommandTruth
<1>10. Schedule'
  BY <1>1, <1>4, ClearedSchedule
<1>11. PowerHold' /\ Client'
  BY <1>1, SafeNow, FreePower DEF Client
<1>12. DwellStep
  BY <1>3 DEF DwellStep, ScheduledReasons, ThermostatReasons
<1> QED
  BY <1>1, <1>9, <1>10, <1>11, <1>12 DEF IInv

LEMMA BootSafe ==
  ASSUME NEW p \in Policies
  PROVE  /\ SafeState(NewController(p)) /\ NewController(p).age = 0
         /\ NewController(p).fan = "off" /\ NewController(p).policy = p
         /\ NewController(p).reason \notin ScheduledReasons
<1> DEFINE c == NewController(p)
<1>1. 0 \in 0..MaxDwell /\ 0 \in 0..RecoverSamples
  BY ConstantTypes
<1>2. <<>> \in Seq(Temps) /\ Len(<<>>) <= ControlSamples
  BY ConstantTypes, EmptySeq
<1>3. c \in Controllers
  BY <1>1, <1>2 DEF NewController, Controllers, Powers, Qualities, Reasons
<1>4. /\ c.age = 0 /\ c.fan = "off" /\ c.policy = p /\ ~c.armed
      /\ c.samples = <<>> /\ c.reason \in {"DISABLED_SAFE_OFF", "BOOT_SAFE_OFF"}
  BY DEF NewController
<1> HIDE DEF c
<1>5. SafeState(c)
  BY <1>2, <1>3, <1>4 DEF SafeState, SafeController
<1> QED
  BY <1>4, <1>5 DEF ScheduledReasons, ThermostatReasons, c

(* A new process, from whatever policy it has read.                        *)
LEMMA NewProcessStep ==
  ASSUME IInv, NEW p \in Policies, NEW now \in {"running", "closed"},
         NewProcess(p, now)
  PROVE  IInv' /\ DwellStep /\ ctl'.policy = p /\ ~Held'
<1>1. /\ ctl' = NewController(p)
      /\ said' = [last |-> "none", result |-> "NOT_ATTEMPTED"]
      /\ relay' = Released(relay)
      /\ jobs' = NoFanJobs /\ hold' = NoHold /\ todo' = {} /\ since' = 0
      /\ phase' = now /\ late' = 0 /\ flipAge' = 0
      /\ disk' = disk /\ faults' = faults /\ chosen' = chosen
  BY DEF NewProcess, Boot
<1>2. Truthful(relay) /\ faults \in 0..MaxFaults
  BY SafeNow DEF Actuation, Truthful, CommandTruth
<1>3. /\ SafeState(ctl') /\ ctl'.age = 0 /\ ctl'.policy = p
      /\ ctl'.reason \notin ScheduledReasons
  BY <1>1, BootSafe
<1>4. 0 \in 0..MaxDwell /\ 0 \in 0..MaxLate
  BY ConstantTypes, BudgetAssumption
<1>5. Actuation'
  BY <1>1, <1>2, <1>3, <1>4, ReleasedTruth
  DEF Actuation, CommandTruth, Truthful, Reports
<1>6. Schedule'
  BY <1>1, <1>4, ClearedSchedule
<1>7. PowerHold' /\ ~Held' /\ Client'
  BY <1>1, <1>4, SafeNow, FreePower DEF Client
<1>8. DwellStep
  BY <1>3 DEF DwellStep
<1> QED
  BY <1>3, <1>5, <1>6, <1>7, <1>8 DEF IInv

LEMMA RebootStep ==
  ASSUME IInv, Reboot
  PROVE  IInv' /\ DwellStep /\ Remembers
<1>1. NewProcess(disk, "running") /\ disk \in Policies
  BY SafeNow DEF Reboot
<1>2. IInv' /\ DwellStep /\ ctl'.policy = disk /\ ~Held'
  BY <1>1, NewProcessStep
<1>3. disk' = disk /\ chosen' = chosen
  BY <1>1 DEF NewProcess
<1> QED
  BY <1>2, <1>3 DEF Remembers

LEMMA ElapseStep ==
  ASSUME IInv, Elapse
  PROVE  IInv' /\ DwellStep /\ Remembers
<1>1. /\ todo = {} /\ ctl' = Aged(ctl)
      /\ flipAge' = IF flipAge < MaxDwell THEN flipAge + 1 ELSE flipAge
      /\ hold' = [hold EXCEPT !.left = Down(@)]
      /\ jobs' = [i \in Slots |->
                    IF jobs[i] = NoJob THEN NoJob
                    ELSE [jobs[i] EXCEPT !.due = Down(@), !.left = Down(@)]]
      /\ UNCHANGED <<relay, said, todo, since, phase, late, disk, faults, chosen>>
  BY DEF Elapse
<1>2. /\ SafeState(Aged(ctl)) /\ Aged(ctl).fan = ctl.fan
      /\ Aged(ctl).age = IF ctl.age < MaxDwell THEN ctl.age + 1 ELSE ctl.age
      /\ Aged(ctl).policy = ctl.policy
  BY SafeNow, AgedSafe DEF Aged, Controllers
<1>3. /\ ctl.age \in 0..MaxDwell /\ ctl.age <= flipAge /\ flipAge \in 0..MaxDwell
      /\ MaxDwell \in Nat /\ since = 0
  BY <1>1, SafeNow, ConstantTypes DEF Actuation, Controllers, IInv, Schedule
<1>4. flipAge' \in 0..MaxDwell /\ ctl'.age <= flipAge'
  <2>1. ctl'.age = IF ctl.age < MaxDwell THEN ctl.age + 1 ELSE ctl.age
    BY <1>1, <1>2
  <2>2. flipAge' = IF flipAge < MaxDwell THEN flipAge + 1 ELSE flipAge
    BY <1>1
  <2> QED
    BY <1>3, <2>1, <2>2
<1>5. Actuation' /\ DwellStep
  <2>1. CommandTruth'
    BY <1>1, <1>2, SafeNow DEF Actuation, CommandTruth
  <2> QED
    BY <1>1, <1>2, <1>4, <2>1, SafeNow DEF Actuation, DwellStep
<1>6. \A n \in Nat : Down(n) \in Nat /\ Down(n) <= n
  BY DEF Down
<1>7. \A j \in Jobs : [j EXCEPT !.due = Down(@), !.left = Down(@)] \in Jobs
  BY <1>6 DEF Jobs
<1>8. jobs' \in [Slots -> Jobs \cup {NoJob}] /\ Pending' \subseteq Pending
  BY <1>1, <1>7, SafeNow DEF Pending
<1>9. Schedule'
  BY <1>1, <1>2, <1>3, <1>4, <1>8, HoldMeansOff, IdleSchedule
<1>10. /\ hold' \in Holds /\ hold'.granted = hold.granted
       /\ hold'.prev = hold.prev /\ (Held' <=> Held)
  <2>1. hold \in Holds
    BY HoldMeansOff
  <2>2. CASE hold = NoHold
    <3>1. Down(hold.left) = 0 /\ hold.left = 0
      BY <2>2 DEF NoHold, Down
    <3>2. hold' = hold
      BY <1>1, <2>2, <3>1 DEF NoHold
    <3> QED
      BY <2>1, <3>2 DEF Held
  <2>3. CASE hold # NoHold
    <3>1. hold \in [left : 0..HoldTime, prev : Modes, granted : BOOLEAN]
      BY <2>1, <2>3 DEF Holds
    <3>2. Down(hold.left) \in 0..HoldTime
      BY <1>6, <3>1, TimingAssumption
    <3>3. /\ hold' \in [left : 0..HoldTime, prev : Modes, granted : BOOLEAN]
          /\ hold'.granted = hold.granted /\ hold'.prev = hold.prev
      BY <1>1, <3>1, <3>2
    <3>4. hold'.prev # "none"
      BY <3>3 DEF Modes
    <3> QED
      BY <2>3, <3>3, <3>4 DEF Holds, Held, NoHold
  <2> QED
    BY <2>2, <2>3
<1>11. PowerHold' /\ Client'
  BY <1>1, <1>2, <1>10, HoldMeansOff DEF PowerHold, Client, IInv
<1>12. Remembers
  BY <1>1, <1>2, <1>10, SameHoldRemembers
<1> QED
  BY <1>5, <1>9, <1>11, <1>12 DEF IInv

-----------------------------------------------------------------------------
LEMMA InitIInv == Init => IInv /\ Persisted
<1> SUFFICES ASSUME Init PROVE IInv /\ Persisted
  OBVIOUS
<1>1. /\ disk \in Policies /\ ctl = NewController(disk)
      /\ said = [last |-> "none", result |-> "NOT_ATTEMPTED"]
      /\ relay = [open |-> FALSE, ack |-> "none", line |-> "off"]
      /\ jobs = NoFanJobs /\ hold = NoHold /\ todo = {} /\ since = 0
      /\ phase = "running" /\ late = 0 /\ faults = MaxFaults
      /\ flipAge = 0 /\ chosen = {disk.mode}
  BY ClientAssumption DEF Init, Boot
<1>2. SafeState(ctl) /\ ctl.age = 0 /\ ctl.policy = disk
  BY <1>1, BootSafe
<1>3. /\ 0 \in 0..MaxDwell /\ 0 \in 0..MaxLate /\ MaxFaults \in 0..MaxFaults
  BY ConstantTypes, BudgetAssumption
<1>4. Actuation
  BY <1>1, <1>2, <1>3 DEF Actuation, CommandTruth, Relays, Reports, Powers
<1>5. Schedule
  BY <1>1, <1>3, NoJobs DEF Schedule, Pending
<1>6. PowerHold /\ ~Held
  BY <1>1 DEF PowerHold, Holds, Held, NoHold
<1>7. Client
  BY <1>1, <1>3 DEF Client, Policies
<1>8. Persisted
  BY <1>1, <1>2, <1>6 DEF Persisted, HoldNotPersisted
<1> QED
  BY <1>4, <1>5, <1>6, <1>7, <1>8 DEF IInv

(* Every step keeps the invariant and the dwell; and every step but the    *)
(* shutdown remembers who asked for DISABLED.                              *)
LEMMA NextKeeps ==
  ASSUME IInv, [Next]_vars
  PROVE  /\ IInv' /\ DwellStep
         /\ \/ Remembers
            \/ disk' = disk /\ chosen' = chosen /\ phase' = "closed"
<1>1. CASE Request
  BY <1>1, FanSetStep, ModeSetStep, PolicyUpdateStep, SensorReadStep,
     AutomationAddStep, AutomationCancelStep, PowerPrepareStep, PowerReleaseStep
  DEF Request
<1>2. CASE Poll
  BY <1>2, PollStep
<1>3. CASE TickJob
  BY <1>3, TickJobStep
<1>4. CASE Shutdown
  BY <1>4, ShutdownStep
<1>5. CASE Reboot
  BY <1>5, RebootStep
<1>6. CASE Elapse
  BY <1>6, ElapseStep
<1>7. CASE UNCHANGED vars
  <2>1. /\ UNCHANGED actuation /\ jobs' = jobs /\ hold' = hold /\ todo' = todo
        /\ since' = since /\ phase' = phase /\ late' = late /\ disk' = disk
        /\ chosen' = chosen
    BY <1>7 DEF vars, actuation
  <2>2. Actuation' /\ DwellStep /\ ctl' = ctl /\ flipAge' = flipAge /\ relay' = relay
    BY <2>1, SafeNow, SameActuation DEF actuation
  <2>3. Schedule' /\ PowerHold' /\ Client'
    BY <2>1, <2>2 DEF IInv, Schedule, Pending, PowerHold, Held, Client
  <2>4. Remembers
    BY <2>1, <2>2, SameHoldRemembers DEF Held
  <2> QED
    BY <2>2, <2>3, <2>4 DEF IInv
<1> QED
  BY <1>1, <1>2, <1>3, <1>4, <1>5, <1>6, <1>7 DEF Next

(* Without late requests a closed core does nothing but give way to the    *)
(* next process, so what it remembers holds from one process to the next.  *)
LEMMA PersistedStep ==
  ASSUME MaxLate = 0, IInv, Persisted, [Next]_vars
  PROVE  Persisted'
<1>1. CASE disk' = disk /\ chosen' = chosen /\ phase' = "closed"
  BY <1>1 DEF Persisted, HoldNotPersisted
<1>2. CASE phase = "running" /\ Remembers
  BY <1>2 DEF Persisted, HoldNotPersisted, Remembers, AskedBefore
<1>3. CASE phase # "running" /\ ~(disk' = disk /\ chosen' = chosen /\ phase' = "closed")
  <2>1. late = 0 /\ phase = "closed"
    BY <1>3 DEF IInv, Client
  <2>2. ~Request /\ ~Poll /\ ~Shutdown /\ ~Elapse
    BY <2>1 DEF Request, FanSet, ModeSet, PolicyUpdate, SensorRead, AutomationAdd,
                AutomationCancel, PowerPrepare, PowerRelease, Serve, Poll,
                Shutdown, Elapse
  <2>3. ~TickJob /\ ~UNCHANGED vars
    BY <1>3, <2>1 DEF TickJob, vars
  <2>4. /\ disk' = disk /\ chosen' = chosen /\ ctl'.policy = disk /\ hold' = NoHold
    <3>1. Reboot
      BY <2>2, <2>3 DEF Next
    <3>2. disk' = disk /\ chosen' = chosen /\ ctl' = NewController(disk) /\ hold' = NoHold
      BY <3>1 DEF Reboot, NewProcess, Boot
    <3> QED
      BY <3>2, SafeNow, BootSafe
  <2> QED
    BY <2>4, FreePower DEF Persisted, HoldNotPersisted
<1> QED
  BY <1>1, <1>2, <1>3, NextKeeps

LEMMA Invariance == Spec => []IInv
<1>1. IInv /\ [Next]_vars => IInv'
  BY NextKeeps
<1> QED
  BY InitIInv, <1>1, PTL DEF Spec

(* The core's state has the types its code gives it, and the tick visits   *)
(* only jobs there are (service.py, automation.py).                        *)
THEOREM ServiceTypes == Spec => []TypeOK
<1>1. IInv => TypeOK
  BY SafeNow DEF IInv, Actuation, Schedule, PowerHold, Client, TypeOK, Relays,
                 Reports, Holds
<1> QED
  BY Invariance, <1>1, PTL

(* The reported command is what the line carries and the controller wants, *)
(* whatever fails and however late a request is served (service.py         *)
(* _apply_actuator_if_needed, gpiod_relay.py _write).                      *)
THEOREM ReportsAreTrue == Spec => []CommandTruth
<1>1. IInv => CommandTruth
  BY DEF IInv, Actuation
<1> QED
  BY Invariance, <1>1, PTL

(* A granted hold keeps the line OFF, and DISABLED leaves no job behind    *)
(* (service.py power.prepare, BUSY, _cancel_automation).                   *)
THEOREM HoldIsKept == Spec => []HoldKeepsOff
<1>1. IInv => HoldKeepsOff
  BY HoldMeansOff DEF HoldKeepsOff
<1> QED
  BY Invariance, <1>1, PTL

(* Thermostat and timers together never short-cycle the fan (controller.py *)
(* _dwell_elapsed, automation.py tick).                                    *)
THEOREM TimersAreSlow == Spec => TimersRespectDwell
<1>1. IInv /\ [Next]_vars
        => [ctl'.fan # ctl.fan /\ ctl'.reason \in ScheduledReasons
              => flipAge >= IF ctl.fan = "on" THEN ctl'.policy.minOn
                                              ELSE ctl'.policy.minOff]_vars
  BY NextKeeps DEF DwellStep, Dwell
<1> QED
  BY Invariance, <1>1, PTL DEF Spec, TimersRespectDwell

(* The hold's DISABLED never reaches the policy file, provided that no     *)
(* request accepted before a shutdown is served after it (service.py       *)
(* _restore_power_hold, _save_policy_if_configured).                       *)
THEOREM HoldIsForgotten ==
  ASSUME MaxLate = 0
  PROVE  Spec => []HoldNotPersisted
<1>1. Init => IInv /\ Persisted
  BY InitIInv
<1>2. IInv /\ Persisted /\ [Next]_vars => IInv' /\ Persisted'
  BY NextKeeps, PersistedStep
<1>3. Persisted => HoldNotPersisted
  BY DEF Persisted
<1> QED
  BY <1>1, <1>2, <1>3, PTL DEF Spec

-----------------------------------------------------------------------------
(* The core under its processes *)

(* The places of a process that has the owner lock, and of one that has    *)
(* read the policy file and does not serve yet.                            *)
Owning == {"probe", "recheck", "unlink", "bind", "serving", "closed", "unbound",
           "unlinked"}
Starting == {"loaded", "probe", "recheck", "unlink", "bind"}
DaemonPlaces == {"none", "loaded"} \cup Owning
Daemons == [at : DaemonPlaces, policy : Policies \cup {None}]

Paths == Instances \cup {"absent", "stale"}

Processes ==
  /\ daemon \in [Instances -> Daemons]
  /\ path \in Paths
  /\ \A i \in Instances :
       /\ daemon[i].at \in Owning => owner = i
       /\ Serving(i) => path = i
       /\ daemon[i].at \in Starting => daemon[i].policy \in Policies

Updates == [kind : {"update"}, settings : ClientSettings, read : Policies,
            fresh : BOOLEAN]
ModeChanges == [kind : {"mode"}, mode : ClientModes, fresh : BOOLEAN]
Answers == [code : Codes, policy : Policies]
RequestRecords == [client : Clients, inst : Instances, op : Updates \cup ModeChanges,
                   answer : Answers \cup {None}, awaited : BOOLEAN]

Traffic ==
  /\ known \in [Clients -> [policy : Policies, fresh : BOOLEAN]]
  /\ req \in [Requests -> RequestRecords \cup {NoRequest}]

(* Of a policy that was read of the process that serves, or of one before  *)
(* it with no break in between: the generation tells whether it is still   *)
(* the policy in force.                                                    *)
Follows(p, now) ==
  /\ p.gen <= now.gen
  /\ p.gen = now.gen => p = now

Honest(q, now) ==
  q.op.fresh =>
    /\ q.op.kind = "update" => Follows(q.op.read, now)
    /\ q.answer # None /\ q.answer.code = "ok" => Follows(q.answer.policy, now)

Freshness ==
  /\ \A c \in Clients : known[c].fresh => Follows(known[c].policy, ctl.policy)
  /\ \A r \in Requests : req[r] # NoRequest => Honest(req[r], ctl.policy)

SInv == IInv /\ Processes /\ Traffic /\ Freshness

-----------------------------------------------------------------------------
(* The generation: a step of the core keeps the policy or counts it on.     *)
PolicyMoves ==
  ctl'.policy = ctl.policy \/ ctl.policy.gen < ctl'.policy.gen

MovesTo(p) == p = ctl.policy \/ ctl.policy.gen < p.gen

LEMMA EnactPolicy ==
  ASSUME NEW d \in Controllers, NEW o \in Applied(d), NEW cost, Enact(o, cost)
  PROVE  ctl'.policy = d.policy
<1>1. ctl' = o.ctl
  BY DEF Enact
<1>2. o.ctl = d \/ o.ctl = ActuatorErrorSafeOff(d)
  BY DEF Applied
<1>3. ActuatorErrorSafeOff(d).policy = d.policy
  BY DEF ActuatorErrorSafeOff, Transition, Controllers
<1> QED
  BY <1>1, <1>2, <1>3

LEMMA EnactMoves ==
  ASSUME NEW d \in Controllers, MovesTo(d.policy), NEW o \in Applied(d), NEW cost,
         Enact(o, cost)
  PROVE  PolicyMoves
BY EnactPolicy DEF MovesTo, PolicyMoves

LEMMA CommandMoves ==
  ASSUME NEW d \in Controllers, MovesTo(d.policy), Command(d)
  PROVE  PolicyMoves
BY EnactMoves DEF Command

LEMMA SetModeMoves ==
  ASSUME NEW c, SafeState(c), c.policy = ctl.policy, NEW mode \in Modes
  PROVE  SetMode(c, mode) \in Controllers /\ MovesTo(SetMode(c, mode).policy)
<1>1. c.policy \in Policies
  BY DEF SafeState, Controllers
<1>2. WithMode(c.policy, mode) \in Policies
      /\ WithMode(c.policy, mode).gen = c.policy.gen + 1 /\ c.policy.gen \in Nat
  BY <1>1, WithModeType DEF WithMode, Policies
<1>3. SetMode(c, mode).policy = WithMode(c.policy, mode)
  BY <1>2, UpdatePolicyMakes DEF SetMode
<1>4. SafeStep(c, SetMode(c, mode))
  BY SetModeMakes
<1>5. SetMode(c, mode) \in Controllers
  BY <1>4, SafeStepState
<1> QED
  BY <1>2, <1>3, <1>5 DEF MovesTo

LEMMA SetFanPowerMoves ==
  ASSUME IInv, NEW power \in Powers, ~Rejects(ctl, power)
  PROVE  /\ SetFanPower(ctl, power) \in Controllers
         /\ MovesTo(SetFanPower(ctl, power).policy)
<1>1. SafeState(ctl) /\ ctl \in Controllers /\ ctl.policy \in Policies
  BY SafeNow
<1>2. SetFanPower(ctl, power) \in Controllers
  BY <1>1, SetFanPowerSafe, SafeStepState
<1>3. "manual" \in Modes
  BY DEF Modes
<1>4. WithMode(ctl.policy, "manual").gen = ctl.policy.gen + 1 /\ ctl.policy.gen \in Nat
  BY <1>1 DEF WithMode, Policies
<1>5. \A c \in Controllers : \A w, armed, reason :
        Transition(c, w, armed, reason).policy = c.policy
  BY DEF Transition, Controllers
<1> DEFINE b == [ctl EXCEPT !.policy = WithMode(@, "manual")]
<1>6. b \in Controllers /\ b.policy = WithMode(ctl.policy, "manual")
  BY <1>1, <1>3, WithModeType DEF Controllers
<1>7. \/ SetFanPower(ctl, power).policy = ctl.policy
      \/ SetFanPower(ctl, power).policy = WithMode(ctl.policy, "manual")
  <2> HIDE DEF b
  <2>1. \/ SetFanPower(ctl, power) = Transition(ctl, "off", FALSE, "DISABLED_SAFE_OFF")
        \/ SetFanPower(ctl, power) = Transition(b, power, FALSE, UserReason(power))
        \/ SetFanPower(ctl, power) = Transition(ctl, "on", TRUE, "SEMI_USER_START")
        \/ SetFanPower(ctl, power) = Transition(ctl, power, FALSE, UserReason(power))
    BY DEF SetFanPower, b
  <2>2. ASSUME NEW c \in Controllers, NEW w, NEW armed, NEW reason,
               SetFanPower(ctl, power) = Transition(c, w, armed, reason)
        PROVE  SetFanPower(ctl, power).policy = c.policy
    BY <1>5, <2>2
  <2>3. CASE SetFanPower(ctl, power) = Transition(b, power, FALSE, UserReason(power))
    BY <1>6, <2>2, <2>3
  <2>4. ASSUME NEW w, NEW armed, NEW reason,
               SetFanPower(ctl, power) = Transition(ctl, w, armed, reason)
        PROVE  SetFanPower(ctl, power).policy = ctl.policy
    BY <1>1, <2>2, <2>4
  <2> QED
    BY <2>1, <2>3, <2>4, Zenon
<1> QED
  BY <1>2, <1>4, <1>7 DEF MovesTo

LEMMA ScheduledMoves ==
  ASSUME IInv, NEW power \in Powers, NEW expired \in BOOLEAN, ~Rejects(ctl, power)
  PROVE  /\ ScheduledFanPower(ctl, power, expired) \in Controllers
         /\ MovesTo(ScheduledFanPower(ctl, power, expired).policy)
<1> DEFINE d == SetFanPower(ctl, power)
<1>1. d \in Controllers /\ MovesTo(d.policy)
  BY SetFanPowerMoves
<1> HIDE DEF d
<1>2. \A reason \in Reasons : [d EXCEPT !.reason = reason] \in Controllers
                              /\ [d EXCEPT !.reason = reason].policy = d.policy
  BY <1>1 DEF Controllers
<1>3. PICK reason \in Reasons : \/ ScheduledFanPower(ctl, power, expired) = d
                                \/ ScheduledFanPower(ctl, power, expired)
                                     = [d EXCEPT !.reason = reason]
  BY DEF ScheduledFanPower, Reasons, d
<1>4. CASE ScheduledFanPower(ctl, power, expired) = d
  BY <1>1, <1>4
<1>5. CASE ScheduledFanPower(ctl, power, expired) = [d EXCEPT !.reason = reason]
  <2> DEFINE e == [d EXCEPT !.reason = reason]
  <2>1. e \in Controllers /\ e.policy = d.policy
    BY <1>2
  <2> HIDE DEF e
  <2>2. ScheduledFanPower(ctl, power, expired) = e
    BY <1>5 DEF e
  <2> QED
    BY <1>1, <2>1, <2>2
<1> QED
  BY <1>3, <1>4, <1>5

LEMMA ShutdownMoves ==
  ASSUME IInv, Shutdown
  PROVE  PolicyMoves
BY SafeNow DEF Shutdown, ShutdownOff, Transition, Controllers, PolicyMoves

LEMMA RequestMoves ==
  ASSUME IInv, Request
  PROVE  PolicyMoves
<1>1. SafeState(ctl) /\ ctl \in Controllers /\ ctl.policy \in Policies
      /\ ctl.policy.gen \in Nat /\ MovesTo(ctl.policy)
  BY SafeNow DEF Policies, MovesTo
<1>2. CASE UNCHANGED actuation
  BY <1>2 DEF actuation, PolicyMoves
<1>3. CASE FanSet
  BY <1>2, <1>3, SetFanPowerMoves, CommandMoves DEF FanSet
<1>4. CASE ModeSet
  BY <1>1, <1>4, SetModeMoves, CommandMoves, ClientAssumption DEF ModeSet
<1>5. CASE PolicyUpdate
  <2>1. PICK named \in SUBSET UserModes, s \in Settings, mode \in Modes :
          LET p == [gen |-> ctl.policy.gen + 1, mode |-> mode, start |-> s.start,
                    stop |-> s.stop, minOn |-> s.minOn, minOff |-> s.minOff]
          IN  ValidPolicy(p) /\ Command(UpdatePolicy(ctl, p))
    BY <1>5, SafeNow, ClientAssumption DEF PolicyUpdate
  <2> DEFINE p == [gen |-> ctl.policy.gen + 1, mode |-> mode, start |-> s.start,
                   stop |-> s.stop, minOn |-> s.minOn, minOff |-> s.minOff]
  <2>2. s \in [start : Int, stop : Int, minOn : Nat, minOff : Nat]
    BY ClientAssumption
  <2>3. p \in Policies /\ p.gen = ctl.policy.gen + 1
    BY <1>1, <2>1, <2>2 DEF Policies
  <2>4. Command(UpdatePolicy(ctl, p))
    BY <2>1
  <2> HIDE DEF p
  <2>5. UpdatePolicy(ctl, p) \in Controllers /\ UpdatePolicy(ctl, p).policy = p
    BY <1>1, <2>3, UpdatePolicySafe, UpdatePolicyMakes, SafeStepState
  <2>6. MovesTo(p)
    BY <1>1, <2>3 DEF MovesTo
  <2> QED
    BY <2>4, <2>5, <2>6, CommandMoves
<1>6. CASE SensorRead
  <2>1. PICK r \in Readings : \E o \in Applied(Observe(ctl, r)) : Enact(o, 0)
    BY <1>6 DEF SensorRead
  <2>2. Observe(ctl, r).policy = ctl.policy /\ Observe(ctl, r) \in Controllers
    BY ObserveDecided, SafeStepState DEF Decided
  <2> QED
    BY <1>1, <2>1, <2>2, EnactMoves
<1>7. CASE AutomationAdd
  BY <1>2, <1>7 DEF AutomationAdd
<1>8. CASE AutomationCancel
  <2>1. ~Rejects(ctl, "off") /\ "off" \in Powers /\ TRUE \in BOOLEAN
    BY DEF Rejects, Powers
  <2>2. /\ ScheduledFanPower(ctl, "off", TRUE) \in Controllers
        /\ MovesTo(ScheduledFanPower(ctl, "off", TRUE).policy)
    BY <2>1, ScheduledMoves
  <2>3. \/ UNCHANGED actuation
        \/ \E o \in Applied(ScheduledFanPower(ctl, "off", TRUE)) : Enact(o, 0)
    BY <1>8 DEF AutomationCancel
  <2> QED
    BY <1>2, <2>2, <2>3, EnactMoves
<1>9. CASE PowerPrepare
  <2>1. "disabled" \in Modes
    BY DEF Modes
  <2>2. SetMode(ctl, "disabled") \in Controllers /\ MovesTo(SetMode(ctl, "disabled").policy)
    BY <1>1, <2>1, SetModeMoves
  <2>3. \E o \in Applied(SetMode(ctl, "disabled")) : Enact(o, 0)
    BY <1>9 DEF PowerPrepare
  <2> QED
    BY <2>2, <2>3, EnactMoves
<1>10. CASE PowerRelease
  <2>1. hold.prev \in Modes
    BY <1>10, HoldMeansOff DEF PowerRelease, Holds, Held
  <2>2. SetMode(ctl, hold.prev) \in Controllers /\ MovesTo(SetMode(ctl, hold.prev).policy)
    BY <1>1, <2>1, SetModeMoves
  <2>3. \E o \in Applied(SetMode(ctl, hold.prev)) : Enact(o, 0)
    BY <1>10 DEF PowerRelease
  <2> QED
    BY <2>2, <2>3, EnactMoves
<1> QED
  BY <1>3, <1>4, <1>5, <1>6, <1>7, <1>8, <1>9, <1>10 DEF Request

LEMMA PollMoves ==
  ASSUME IInv, Poll
  PROVE  PolicyMoves
<1>1. PICK r \in Readings :
        \E o \in Applied(IF Overdue THEN SetMode(Observe(ctl, r), hold.prev)
                                    ELSE Observe(ctl, r)) : Enact(o, 0)
  BY DEF Poll
<1> DEFINE b == Observe(ctl, r)
<1>2. b.policy = ctl.policy /\ SafeState(b) /\ b \in Controllers
  BY ObserveDecided, SafeStepState DEF Decided
<1> HIDE DEF b
<1>3. CASE Overdue
  <2>1. hold.prev \in Modes
    BY <1>3, HoldMeansOff DEF Overdue, Holds, Held
  <2>2. SetMode(b, hold.prev) \in Controllers /\ MovesTo(SetMode(b, hold.prev).policy)
    BY <1>2, <2>1, SetModeMoves
  <2>3. \E o \in Applied(SetMode(b, hold.prev)) : Enact(o, 0)
    BY <1>1, <1>3 DEF b
  <2> QED
    BY <2>2, <2>3, EnactMoves
<1>4. CASE ~Overdue
  <2>1. \E o \in Applied(b) : Enact(o, 0)
    BY <1>1, <1>4 DEF b
  <2> QED
    BY <1>2, <2>1, EnactMoves DEF MovesTo
<1> QED
  BY <1>3, <1>4

LEMMA TickJobMoves ==
  ASSUME IInv, TickJob
  PROVE  PolicyMoves
<1>1. PICK i \in todo :
        LET j == jobs[i]
            untrusted == ctl.policy.mode = "disabled" \/ ctl.quality # "ready"
        IN  \/ Write(i, "off", TRUE, NoJob)
            \/ UNCHANGED actuation
            \/ ~untrusted /\ Write(i, Target(j), FALSE, AfterWrite(j))
  BY DEF TickJob
<1>2. jobs[i] \in Jobs
  BY HoldMeansOff, SafeNow DEF Pending
<1>3. CASE UNCHANGED actuation
  BY <1>3 DEF actuation, PolicyMoves
<1>4. ASSUME NEW power \in Powers, NEW expired \in BOOLEAN, NEW j,
             ~Rejects(ctl, power), Write(i, power, expired, j)
      PROVE  PolicyMoves
  <2>1. /\ ScheduledFanPower(ctl, power, expired) \in Controllers
        /\ MovesTo(ScheduledFanPower(ctl, power, expired).policy)
    BY <1>4, ScheduledMoves
  <2>2. \E o \in Applied(ScheduledFanPower(ctl, power, expired)) : Enact(o, 0)
    BY <1>4 DEF Write
  <2> QED
    BY <2>1, <2>2, EnactMoves
<1>5. ~Rejects(ctl, "off") /\ "off" \in Powers /\ TRUE \in BOOLEAN /\ FALSE \in BOOLEAN
  BY DEF Rejects, Powers
<1>6. Target(jobs[i]) \in Powers
  BY <1>2, AfterWriteType
<1>7. CASE Write(i, "off", TRUE, NoJob)
  BY <1>4, <1>5, <1>7
<1>8. CASE ctl.policy.mode # "disabled" /\ Write(i, Target(jobs[i]), FALSE, AfterWrite(jobs[i]))
  BY <1>4, <1>5, <1>6, <1>8 DEF Rejects
<1> QED
  BY <1>1, <1>3, <1>7, <1>8

LEMMA ElapseMoves ==
  ASSUME IInv, Elapse
  PROVE  PolicyMoves
BY SafeNow DEF Elapse, Aged, Controllers, PolicyMoves

-----------------------------------------------------------------------------
(* The core under the daemon's steps.                                       *)
CoreStep == IInv' /\ DwellStep /\ PolicyMoves

LEMMA CoreStays ==
  ASSUME IInv, UNCHANGED vars
  PROVE  CoreStep /\ ctl' = ctl
<1>1. ctl' = ctl
  BY DEF vars
<1> QED
  BY <1>1, NextKeeps DEF CoreStep, PolicyMoves

LEMMA CoreMoves ==
  ASSUME IInv, Request \/ Poll \/ TickJob \/ Shutdown \/ Elapse
  PROVE  CoreStep
<1>1. IInv' /\ DwellStep
  BY NextKeeps DEF Next
<1> QED
  BY <1>1, RequestMoves, PollMoves, TickJobMoves, ShutdownMoves, ElapseMoves DEF CoreStep

(* A request of a client: refused without effect, or made against the very *)
(* generation it names.                                                    *)
LEMMA HandledStep ==
  ASSUME IInv, NEW op \in Updates \cup ModeChanges, NEW code, Handled(op, code)
  PROVE  /\ CoreStep
         /\ op.kind = "update" /\ ctl'.policy # ctl.policy
              => op.read.gen = ctl.policy.gen
<1>1. CASE UNCHANGED vars
  BY <1>1, CoreStays
<1>2. CASE /\ ~Held /\ ~Conflicts(op) /\ ~Invalid(op) /\ Serve /\ UNCHANGED hold
           /\ op.kind = "update" /\ Command(UpdatePolicy(ctl, Asked(op)))
           /\ UNCHANGED chosen
  <2> DEFINE p == Asked(op)
             c == UpdatePolicy(ctl, p)
  <2>1. op \in Updates
    BY <1>2 DEF Updates, ModeChanges
  <2>2. ctl.policy \in Policies /\ ctl.policy.gen \in Nat /\ ctl.policy.mode \in Modes
        /\ SafeState(ctl) /\ chosen \subseteq Modes
    BY SafeNow DEF Policies
  <2>3. p \in [gen : Nat, mode : Modes, start : Int, stop : Int, minOn : Nat, minOff : Nat]
        /\ p.gen = ctl.policy.gen + 1
    BY <2>1, <2>2, PeersAssumption DEF Asked, Updates
  <2>4. p \in Policies
    BY <1>2, <2>3 DEF Policies, Invalid
  <2> HIDE DEF p
  <2>5. Decided(c) /\ c.policy = p
    BY <2>2, <2>4, UpdatePolicySafe, UpdatePolicyMakes DEF Decided, Untimed
  <2>6. Command(c) /\ chosen' \subseteq Modes
    BY <1>2, <2>2 DEF p
  <2> HIDE DEF c
  <2>7. IInv' /\ DwellStep
    BY <1>2, <2>5, <2>6, CommandStep
  <2>8. PolicyMoves
    BY <2>2, <2>3, <2>5, <2>6, SafeStepState, CommandMoves DEF Decided, MovesTo
  <2> QED
    BY <1>2, <2>7, <2>8 DEF CoreStep, Conflicts, OtherGeneration
<1>3. CASE /\ ~Held /\ Serve /\ UNCHANGED hold
           /\ op.kind # "update" /\ Command(SetMode(ctl, op.mode))
           /\ chosen' = chosen \cup {op.mode}
  <2>1. op.mode \in Modes
    BY <1>3, PeersAssumption DEF Updates, ModeChanges
  <2>2. SafeState(ctl) /\ chosen' \subseteq Modes
    BY <1>3, <2>1, SafeNow
  <2>3. Decided(SetMode(ctl, op.mode))
    BY <2>1, <2>2, SetModeMakes DEF Decided, Untimed
  <2>4. IInv' /\ DwellStep
    BY <1>3, <2>2, <2>3, CommandStep
  <2>5. PolicyMoves
    BY <1>3, <2>1, <2>2, SetModeMoves, CommandMoves
  <2> QED
    BY <1>3, <2>4, <2>5 DEF CoreStep
<1> QED
  BY <1>1, <1>2, <1>3 DEF Handled

-----------------------------------------------------------------------------
(* The processes: the lock keeps every one but its owner from the path.    *)
LEMMA DaemonTypes ==
  ASSUME Processes, NEW i \in Instances
  PROVE  /\ daemon[i] \in Daemons /\ i # None
         /\ \A place \in DaemonPlaces : [daemon[i] EXCEPT !.at = place] \in Daemons
         /\ [at |-> "none", policy |-> None] \in Daemons
BY PeersAssumption DEF Processes, Daemons, DaemonPlaces

LEMMA GotoKeeps ==
  ASSUME Processes, NEW i \in Instances, NEW place \in DaemonPlaces, Goto(i, place),
         owner' = owner, path' \in Paths, path' = path \/ owner = i,
         place \in Owning => owner = i,
         place = "serving" => path' = i,
         place \in Starting => daemon[i].at \in Starting
  PROVE  Processes'
<1>1. daemon' = [daemon EXCEPT ![i].at = place] /\ daemon \in [Instances -> Daemons]
  BY DEF Goto, Processes
<1>2. daemon' \in [Instances -> Daemons]
  BY <1>1, DaemonTypes
<1>3. /\ daemon'[i].at = place /\ daemon'[i].policy = daemon[i].policy
      /\ \A j \in Instances \ {i} : daemon'[j] = daemon[j]
  BY <1>1 DEF Daemons
<1>4. ASSUME NEW j \in Instances
      PROVE  /\ daemon'[j].at \in Owning => owner' = j
             /\ daemon'[j].at = "serving" => path' = j
             /\ daemon'[j].at \in Starting => daemon'[j].policy \in Policies
  <2>1. CASE j = i
    BY <1>3, <2>1 DEF Processes
  <2>2. CASE j # i
    BY <1>3, <2>2 DEF Processes, Serving, Owning
  <2> QED
    BY <2>1, <2>2
<1> QED
  BY <1>2, <1>4 DEF Processes, Serving

LEMMA WithdrawKeeps ==
  ASSUME Processes, NEW i \in Instances, Withdraw(i),
         path' = path \/ (path = i /\ path' = "stale")
  PROVE  Processes'
<1>1. /\ daemon' = [daemon EXCEPT ![i] = [at |-> "none", policy |-> None]]
      /\ owner' = IF owner = i THEN None ELSE owner
      /\ daemon \in [Instances -> Daemons]
  BY DEF Withdraw, Processes
<1>2. daemon' \in [Instances -> Daemons]
  BY <1>1, DaemonTypes
<1>3. daemon'[i].at = "none" /\ \A j \in Instances \ {i} : daemon'[j] = daemon[j]
  BY <1>1
<1>4. \A j \in Instances \ {i} : owner = j => owner' = j
  BY <1>1
<1> QED
  BY <1>2, <1>3, <1>4 DEF Processes, Serving, Owning, Starting, Paths

LEMMA LifecycleKeeps ==
  ASSUME IInv, Processes, NEW i \in Instances, Lifecycle(i)
  PROVE  Processes'
<1>1. daemon \in [Instances -> Daemons] /\ disk \in Policies
  BY SafeNow DEF Processes
<1>2. Owning \subseteq DaemonPlaces /\ "loaded" \in DaemonPlaces
  BY DEF DaemonPlaces
<1>3. daemon[i].at \in Owning => owner = i
  BY DEF Processes
<1>4. CASE Load(i)
  <2>1. /\ daemon' = [daemon EXCEPT ![i] = [at |-> "loaded", policy |-> disk]]
        /\ owner' = owner /\ path' = path
    BY <1>4 DEF Load
  <2>2. daemon' \in [Instances -> Daemons]
    BY <1>1, <1>2, <2>1 DEF Daemons
  <2>3. /\ daemon'[i] = [at |-> "loaded", policy |-> disk]
        /\ \A j \in Instances \ {i} : daemon'[j] = daemon[j]
    BY <1>1, <2>1
  <2> QED
    BY <1>1, <2>1, <2>2, <2>3 DEF Processes, Serving, Owning
<1>5. CASE Lock(i)
  <2>1. path' = path
    BY <1>5 DEF Lock
  <2>2. CASE Withdraw(i)
    BY <2>1, <2>2, WithdrawKeeps
  <2>3. CASE owner = None /\ owner' = i /\ Goto(i, "probe")
    <3>1. daemon' = [daemon EXCEPT ![i].at = "probe"] /\ daemon[i].at = "loaded"
      BY <1>5, <2>3 DEF Goto, Lock
    <3>2. daemon' \in [Instances -> Daemons]
      BY <1>1, <1>2, <3>1, DaemonTypes DEF Owning
    <3>3. /\ daemon'[i].at = "probe" /\ daemon'[i].policy = daemon[i].policy
          /\ \A j \in Instances \ {i} : daemon'[j] = daemon[j]
      BY <1>1, <3>1 DEF Daemons
    <3>4. \A j \in Instances : daemon[j].at \notin Owning
      BY <2>3, DaemonTypes DEF Processes
    <3> QED
      BY <2>1, <2>3, <3>1, <3>2, <3>3, <3>4 DEF Processes, Serving, Owning, Starting
  <2> QED
    BY <1>5, <2>2, <2>3 DEF Lock, LockGranted, NobodyHoldsIt
<1>6. ASSUME NEW place \in Owning \ {"serving"}, Goto(i, place), owner' = owner,
             path' \in Paths,
             daemon[i].at \in Owning, place \in Starting => daemon[i].at \in Starting
      PROVE  Processes'
  <2>1. owner = i /\ place \in DaemonPlaces
    BY <1>2, <1>3, <1>6
  <2> QED
    BY <1>6, <2>1, GotoKeeps
<1>7. CASE Probe(i)
  <2>1. path' = path /\ daemon[i].at = "probe"
    BY <1>7 DEF Probe
  <2>2. \/ Withdraw(i)
        \/ \E place \in {"bind", "recheck"} : Goto(i, place) /\ owner' = owner
    BY <1>7 DEF Probe, Processes, Paths
  <2>3. CASE Withdraw(i)
    BY <2>1, <2>3, WithdrawKeeps
  <2>4. CASE \E place \in {"bind", "recheck"} : Goto(i, place) /\ owner' = owner
    BY <1>6, <2>1, <2>4 DEF Owning, Starting, Processes
  <2> QED
    BY <2>2, <2>3, <2>4
<1>8. CASE Reinspect(i)
  BY <1>6, <1>8, WithdrawKeeps DEF Reinspect, Owning, Starting, Processes
<1>9. CASE Unlink(i)
  BY <1>6, <1>9 DEF Unlink, Owning, Starting, Paths
<1>10. CASE Bind(i)
  <2>1. CASE Withdraw(i) /\ path' = path
    BY <2>1, WithdrawKeeps
  <2>2. CASE /\ path' = i /\ owner' = owner
             /\ daemon' = [daemon EXCEPT ![i] = [at |-> "serving", policy |-> None]]
    <3>1. owner = i
      BY <1>3, <1>10 DEF Bind, Owning
    <3>2. daemon' \in [Instances -> Daemons]
      BY <1>1, <1>2, <2>2 DEF Daemons, Owning
    <3>3. /\ daemon'[i] = [at |-> "serving", policy |-> None]
          /\ \A j \in Instances \ {i} : daemon'[j] = daemon[j]
      BY <1>1, <2>2
    <3>4. \A j \in Instances \ {i} : daemon[j].at \notin Owning
      BY <3>1 DEF Processes
    <3> QED
      BY <2>2, <3>1, <3>2, <3>3, <3>4 DEF Processes, Serving, Owning, Starting, Paths
  <2> QED
    BY <1>10, <2>1, <2>2 DEF Bind
<1>11. CASE Stop(i) \/ CloseSocket(i) \/ UnlinkOwn(i)
  BY <1>6, <1>11 DEF Stop, CloseSocket, UnlinkOwn, Serving, Owning, Starting,
                            Paths, Processes
<1>12. CASE Exit(i)
  BY <1>12, WithdrawKeeps DEF Exit
<1>13. CASE Dies(i)
  BY <1>13, WithdrawKeeps DEF Dies
<1> QED
  BY <1>4, <1>5, <1>7, <1>8, <1>9, <1>10, <1>11, <1>12, <1>13 DEF Lifecycle

-----------------------------------------------------------------------------
(* What clients know and ask.                                               *)
LEMMA FollowsOn ==
  ASSUME NEW p \in Policies, Follows(p, ctl.policy), PolicyMoves,
         ctl.policy \in Policies, ctl'.policy \in Policies
  PROVE  Follows(p, ctl'.policy)
BY DEF Follows, PolicyMoves, Policies

LEMMA HonestOn ==
  ASSUME NEW q \in RequestRecords, Honest(q, ctl.policy), PolicyMoves,
         ctl.policy \in Policies, ctl'.policy \in Policies
  PROVE  Honest(q, ctl'.policy)
<1>1. q.op.kind = "update" => q.op.read \in Policies
  BY DEF RequestRecords, Updates, ModeChanges
<1>2. q.answer # None => q.answer.policy \in Policies
  BY DEF RequestRecords, Answers
<1> QED
  BY <1>1, <1>2, FollowsOn DEF Honest

LEMMA RealRequests ==
  ASSUME NEW q \in RequestRecords
  PROVE  q # NoRequest
BY PeersAssumption DEF RequestRecords, NoRequest

(* A step that replaces what a client knows, or a request, by something    *)
(* that is typed and true, and leaves the others.                          *)
Informed == [policy : Policies, fresh : BOOLEAN]

LEMMA TrafficKeeps ==
  ASSUME Traffic, Freshness, PolicyMoves,
         ctl.policy \in Policies, ctl'.policy \in Policies,
         NEW g, known' = [c \in Clients |-> g[c]],
         \A c \in Clients : \/ g[c] = known[c]
                            \/ g[c] \in Informed /\ (g[c].fresh => Follows(g[c].policy, ctl'.policy)),
         NEW f, req' = [r \in Requests |-> f[r]],
         \A r \in Requests : \/ f[r] = NoRequest \/ f[r] = req[r]
                             \/ f[r] \in RequestRecords /\ Honest(f[r], ctl'.policy)
  PROVE  Traffic' /\ Freshness'
<1>1. ASSUME NEW c \in Clients
      PROVE  /\ known'[c] \in Informed
             /\ known'[c].fresh => Follows(g[c].policy, ctl'.policy)
  <2>1. known'[c] = g[c] /\ known[c] \in Informed
    BY DEF Traffic, Informed
  <2>2. ASSUME g[c] = known[c], g[c].fresh PROVE Follows(g[c].policy, ctl'.policy)
    <3>1. g[c].policy \in Policies /\ Follows(g[c].policy, ctl.policy)
      BY <2>1, <2>2 DEF Freshness, Informed
    <3> QED
      BY <3>1, FollowsOn
  <2> QED
    BY <2>1, <2>2
<1>2. ASSUME NEW r \in Requests
      PROVE  /\ req'[r] \in RequestRecords \cup {NoRequest}
             /\ req'[r] # NoRequest => Honest(f[r], ctl'.policy)
  <2>1. req'[r] = f[r] /\ req[r] \in RequestRecords \cup {NoRequest}
    BY DEF Traffic
  <2>2. req[r] # NoRequest => Honest(req[r], ctl.policy)
    BY DEF Freshness
  <2>3. ASSUME f[r] = req[r], req[r] # NoRequest PROVE Honest(f[r], ctl'.policy)
    <3>1. f[r] \in RequestRecords /\ Honest(f[r], ctl.policy)
      BY <2>1, <2>2, <2>3
    <3> QED
      BY <3>1, HonestOn
  <2> QED
    BY <2>1, <2>3
<1>3. Traffic'
  <2>1. known' \in [Clients -> Informed]
    BY <1>1
  <2>2. req' \in [Requests -> RequestRecords \cup {NoRequest}]
    BY <1>2
  <2> QED
    BY <2>1, <2>2 DEF Traffic, Informed
<1>4. ASSUME NEW c \in Clients, known'[c].fresh
      PROVE  Follows(known'[c].policy, ctl'.policy)
  <2>1. known'[c] = g[c]
    OBVIOUS
  <2> QED
    BY <1>1, <1>4, <2>1 DEF Follows
<1>5. ASSUME NEW r \in Requests, req'[r] # NoRequest
      PROVE  Honest(req'[r], ctl'.policy)
  <2>1. req'[r] = f[r]
    OBVIOUS
  <2> QED
    BY <1>2, <1>5, <2>1 DEF Honest, Follows
<1> QED
  BY <1>3, <1>4, <1>5 DEF Freshness

LEMMA TrafficStays ==
  ASSUME Traffic, Freshness, PolicyMoves,
         ctl.policy \in Policies, ctl'.policy \in Policies, UNCHANGED traffic
  PROVE  Traffic' /\ Freshness'
<1>1. req' = [r \in Requests |-> req[r]] /\ known' = [c \in Clients |-> known[c]]
  BY DEF traffic, Traffic
<1> QED
  BY <1>1, TrafficKeeps

LEMMA KnownStays ==
  ASSUME Traffic, UNCHANGED known
  PROVE  known' = [c \in Clients |-> known[c]]
BY DEF Traffic

(* A process that ends takes its requests with it.                          *)
LEMMA BrokenKeeps ==
  ASSUME Traffic, Freshness, PolicyMoves,
         ctl.policy \in Policies, ctl'.policy \in Policies,
         NEW i, Broken(i)
  PROVE  Traffic' /\ Freshness'
<1> DEFINE f == [r \in Requests |->
                   IF req[r] # NoRequest /\ req[r].inst = i THEN NoRequest ELSE req[r]]
<1>1. /\ req' = f /\ known' = [c \in Clients |-> known[c]]
      /\ \A r \in Requests : f[r] = NoRequest \/ f[r] = req[r]
  BY KnownStays DEF Broken
<1>2. f = [r \in Requests |-> f[r]]
  OBVIOUS
<1> HIDE DEF f
<1> QED
  BY <1>1, <1>2, TrafficKeeps

(* A new process: what was read of another policy than its own no longer   *)
(* counts.                                                                 *)
LEMMA RememberedKeeps ==
  ASSUME Traffic, Freshness, NEW p \in Policies, ctl'.policy = p,
         ctl.policy \in Policies, Remembered(p)
  PROVE  Traffic' /\ Freshness'
<1>1. CASE p = ctl.policy
  <2>1. \A c \in Clients : [known[c] EXCEPT !.fresh = @ /\ p = ctl.policy] = known[c]
    BY <1>1 DEF Traffic
  <2>2. ASSUME NEW r \in Requests, req[r] # NoRequest
        PROVE  [req[r] EXCEPT !.op.fresh = @ /\ p = ctl.policy] = req[r]
    <3>1. req[r] \in RequestRecords
      BY <2>2 DEF Traffic
    <3>2. CASE req[r].op \in Updates
      <4>1. [req[r].op EXCEPT !.fresh = @ /\ p = ctl.policy] = req[r].op
        BY <1>1, <3>2 DEF Updates
      <4> QED
        BY <3>1, <4>1 DEF RequestRecords
    <3>3. CASE req[r].op \in ModeChanges
      <4>1. [req[r].op EXCEPT !.fresh = @ /\ p = ctl.policy] = req[r].op
        BY <1>1, <3>3 DEF ModeChanges
      <4> QED
        BY <3>1, <4>1 DEF RequestRecords
    <3> QED
      BY <3>1, <3>2, <3>3 DEF RequestRecords
  <2>3. UNCHANGED traffic
    BY <2>1, <2>2 DEF Remembered, traffic, Traffic
  <2> QED
    BY <1>1, <2>3, TrafficStays DEF PolicyMoves
<1>2. CASE p # ctl.policy
  <2>1. known' \in [Clients -> Informed] /\ \A c \in Clients : ~ known'[c].fresh
    BY <1>2 DEF Remembered, Traffic, Informed
  <2>2. ASSUME NEW r \in Requests
        PROVE  /\ req'[r] \in RequestRecords \cup {NoRequest}
               /\ req'[r] # NoRequest => ~ req'[r].op.fresh
    <3>1. req[r] \in RequestRecords \cup {NoRequest}
      BY DEF Traffic
    <3>2. CASE req[r] = NoRequest
      BY <3>2 DEF Remembered
    <3>3. CASE req[r] # NoRequest
      <4> DEFINE op == [req[r].op EXCEPT !.fresh = FALSE]
      <4>1. req[r].op \in Updates \cup ModeChanges
        BY <3>1, <3>3 DEF RequestRecords
      <4>2. op \in Updates \cup ModeChanges /\ ~ op.fresh
        BY <4>1 DEF Updates, ModeChanges
      <4>3. req'[r] = [req[r] EXCEPT !.op = op]
        <5>1. req'[r] = [req[r] EXCEPT !.op.fresh = @ /\ p = ctl.policy]
          BY <3>3 DEF Remembered
        <5>2. (req[r].op.fresh /\ p = ctl.policy) = FALSE
          BY <1>2
        <5> QED
          BY <5>1, <5>2
      <4> HIDE DEF op
      <4> QED
        BY <3>1, <3>3, <4>2, <4>3 DEF RequestRecords
    <3> QED
      BY <3>2, <3>3
  <2>3. Traffic'
    <3>1. req' \in [Requests -> RequestRecords \cup {NoRequest}]
      BY <2>2 DEF Remembered
    <3> QED
      BY <2>1, <3>1 DEF Traffic, Informed
  <2>4. Freshness'
    BY <2>1, <2>2 DEF Freshness, Honest
  <2> QED
    BY <2>3, <2>4
<1> QED
  BY <1>1, <1>2

(* One request is replaced, or answered and gone.                           *)
LEMMA OneRequest ==
  ASSUME Traffic, Freshness, PolicyMoves,
         ctl.policy \in Policies, ctl'.policy \in Policies, UNCHANGED known,
         NEW r \in Requests, NEW q, req' = [req EXCEPT ![r] = q],
         q = NoRequest \/ (q \in RequestRecords /\ Honest(q, ctl'.policy))
  PROVE  Traffic' /\ Freshness'
<1> DEFINE f == [s \in Requests |-> IF s = r THEN q ELSE req[s]]
<1>1. /\ req' = f /\ known' = [c \in Clients |-> known[c]]
      /\ \A s \in Requests : f[s] = req[s] \/ f[s] = q
  BY KnownStays DEF Traffic
<1>2. f = [s \in Requests |-> f[s]]
  OBVIOUS
<1> HIDE DEF f
<1>3. CASE q = NoRequest
  BY <1>1, <1>2, <1>3, TrafficKeeps
<1>4. CASE q \in RequestRecords /\ Honest(q, ctl'.policy)
  <2>1. \A s \in Requests : \/ f[s] = NoRequest \/ f[s] = req[s]
                            \/ f[s] \in RequestRecords /\ Honest(f[s], ctl'.policy)
    <3> SUFFICES ASSUME NEW s \in Requests, f[s] # req[s]
                 PROVE  f[s] \in RequestRecords /\ Honest(f[s], ctl'.policy)
      OBVIOUS
    <3>1. f[s] = q
      BY <1>1
    <3> QED
      BY <1>4, <3>1 DEF Honest, Follows
  <2> QED
    BY <1>1, <1>2, <2>1, TrafficKeeps
<1> QED
  BY <1>3, <1>4

LEMMA OwnPolicyFollows ==
  ASSUME ctl.policy \in Policies
  PROVE  Follows(ctl.policy, ctl.policy)
BY DEF Follows, Policies

LEMMA ReadPolicyKeeps ==
  ASSUME SInv, NEW c \in Clients, ReadPolicy(c)
  PROVE  Traffic' /\ Freshness' /\ CoreStep
<1>1. UNCHANGED vars
  BY DEF ReadPolicy
<1>2. CoreStep /\ ctl' = ctl /\ ctl.policy \in Policies
  BY <1>1, SafeNow, CoreStays DEF SInv
<1> DEFINE g == [d \in Clients |-> IF d = c THEN [policy |-> ctl.policy, fresh |-> TRUE]
                                            ELSE known[d]]
<1>3. known' = g /\ req' = [r \in Requests |-> req[r]]
  BY DEF ReadPolicy, SInv, Traffic
<1>4. \A d \in Clients : \/ g[d] = known[d]
                         \/ g[d] \in Informed /\ (g[d].fresh => Follows(g[d].policy, ctl'.policy))
  BY <1>2 DEF Informed, Follows, Policies
<1>5. g = [d \in Clients |-> g[d]]
  OBVIOUS
<1>6. Traffic /\ Freshness /\ PolicyMoves
  BY <1>2 DEF SInv, CoreStep
<1> HIDE DEF g
<1>7. \A r \in Requests : \/ req[r] = NoRequest
                          \/ req[r] = req[r]
                          \/ req[r] \in RequestRecords /\ Honest(req[r], ctl'.policy)
  OBVIOUS
<1>8. known' = [d \in Clients |-> g[d]]
  BY <1>3, <1>5
<1>9. Traffic' /\ Freshness'
  BY <1>2, <1>3, <1>4, <1>6, <1>8, TrafficKeeps
<1> QED
  BY <1>2, <1>9

LEMMA SendKeeps ==
  ASSUME SInv, NEW c \in Clients, Send(c)
  PROVE  Traffic' /\ Freshness' /\ CoreStep
<1>1. UNCHANGED vars /\ UNCHANGED known /\ path \in Instances
  BY DEF Send
<1>2. CoreStep /\ ctl' = ctl /\ ctl.policy \in Policies
  BY <1>1, SafeNow, CoreStays DEF SInv
<1>3. PICK op \in Operations(c), r \in Requests :
        req' = [req EXCEPT ![r] = [client |-> c, inst |-> path, op |-> op,
                                   answer |-> None, awaited |-> TRUE]]
  BY DEF Send
<1> DEFINE q == [client |-> c, inst |-> path, op |-> op, answer |-> None,
                 awaited |-> TRUE]
<1>4. known[c] \in Informed /\ (known[c].fresh => Follows(known[c].policy, ctl.policy))
  BY DEF SInv, Traffic, Freshness, Informed
<1>5. /\ op \in Updates \cup ModeChanges
      /\ op.kind = "update" => op.read = known[c].policy /\ op.fresh = known[c].fresh
  BY <1>4 DEF Operations, Updates, ModeChanges, Informed
<1>6. q \in RequestRecords
  BY <1>1, <1>5 DEF RequestRecords
<1>7. Honest(q, ctl'.policy)
  BY <1>2, <1>4, <1>5 DEF Honest, Follows
<1>8. Traffic /\ Freshness /\ PolicyMoves /\ ctl'.policy \in Policies
  BY <1>2 DEF SInv, CoreStep
<1>9. req' = [req EXCEPT ![r] = q]
  BY <1>3
<1> HIDE DEF q
<1>10. Traffic' /\ Freshness'
  BY <1>1, <1>2, <1>6, <1>7, <1>8, <1>9, OneRequest
<1> QED
  BY <1>2, <1>10

LEMMA AnswerKeeps ==
  ASSUME SInv, NEW r \in Requests, Answer(r)
  PROVE  /\ Traffic' /\ Freshness' /\ CoreStep
         /\ req[r].op.kind = "update" /\ ctl'.policy # ctl.policy
              => req[r].op.read.gen = ctl.policy.gen
<1>1. PICK code \in Codes :
        /\ Handled(req[r].op, code)
        /\ req' = [req EXCEPT ![r] =
                     IF @.awaited
                     THEN [@ EXCEPT !.answer = [code |-> code, policy |-> ctl'.policy]]
                     ELSE NoRequest]
  BY DEF Answer
<1>2. req[r] \in RequestRecords /\ req[r].answer = None /\ UNCHANGED known
  BY DEF SInv, Traffic, Answer
<1>3. req[r].op \in Updates \cup ModeChanges /\ IInv
  BY <1>2 DEF RequestRecords, SInv
<1>4. /\ CoreStep
      /\ req[r].op.kind = "update" /\ ctl'.policy # ctl.policy
           => req[r].op.read.gen = ctl.policy.gen
  BY <1>1, <1>3, HandledStep
<1>5. ctl.policy \in Policies /\ ctl'.policy \in Policies
  <2>1. \A p : p = ctl' => (SafeState(p) => p.policy \in Policies)
    BY DEF SafeState, Controllers
  <2>2. SafeState(ctl')
    BY <1>4 DEF CoreStep, IInv, Actuation
  <2> QED
    BY <1>3, <2>1, <2>2, SafeNow
<1> DEFINE a == [code |-> code, policy |-> ctl'.policy]
           q == [req[r] EXCEPT !.answer = a]
<1>6. req' = [req EXCEPT ![r] = q] \/ req' = [req EXCEPT ![r] = NoRequest]
  BY <1>1, <1>2 DEF SInv, Traffic
<1>7. a \in Answers /\ a.policy = ctl'.policy
  BY <1>5 DEF Answers
<1> HIDE DEF a
<1>8. q \in RequestRecords /\ q.op = req[r].op /\ q.answer = a
  BY <1>2, <1>7 DEF RequestRecords
<1>9. Traffic /\ Freshness /\ PolicyMoves
  BY <1>4 DEF SInv, CoreStep
<1>10. Honest(q, ctl'.policy)
  <2>1. Honest(req[r], ctl.policy) /\ req[r] # NoRequest
    BY <1>2, RealRequests DEF SInv, Freshness
  <2>2. ASSUME req[r].op.fresh, req[r].op.kind = "update" PROVE Follows(req[r].op.read, ctl.policy)
    BY <2>1, <2>2 DEF Honest
  <2>3. req[r].op.kind = "update" => req[r].op.read \in Policies
    BY <1>3 DEF Updates, ModeChanges
  <2>4. /\ req[r].op.fresh /\ req[r].op.kind = "update"
             => /\ req[r].op.read.gen <= ctl'.policy.gen
                /\ req[r].op.read.gen = ctl'.policy.gen => req[r].op.read = ctl'.policy
    BY <1>5, <1>9, <2>2, <2>3 DEF Follows, PolicyMoves, Policies
  <2>5. a.policy.gen <= ctl'.policy.gen
    BY <1>5, <1>7 DEF Policies
  <2> HIDE DEF q
  <2> QED
    BY <1>7, <1>8, <2>4, <2>5 DEF Honest, Follows
<1> HIDE DEF q
<1>11. Traffic' /\ Freshness'
  BY <1>2, <1>5, <1>6, <1>8, <1>9, <1>10, OneRequest
<1> QED
  BY <1>4, <1>11

LEMMA ReceiveKeeps ==
  ASSUME SInv, NEW r \in Requests, Receive(r)
  PROVE  Traffic' /\ Freshness' /\ CoreStep
<1>1. UNCHANGED vars /\ req' = [req EXCEPT ![r] = NoRequest] /\ req[r].answer # None
      /\ req[r] # NoRequest
  BY DEF Receive, Awaited
<1>2. CoreStep /\ ctl' = ctl /\ ctl.policy \in Policies
  BY <1>1, SafeNow, CoreStays DEF SInv
<1>3. req[r] \in RequestRecords /\ Honest(req[r], ctl.policy)
  BY <1>1 DEF SInv, Traffic, Freshness
<1>4. Traffic /\ Freshness /\ PolicyMoves
  BY <1>2 DEF SInv, CoreStep
<1> DEFINE k == [policy |-> req[r].answer.policy, fresh |-> req[r].op.fresh]
           g == [c \in Clients |-> IF req[r].answer.code = "ok" /\ c = req[r].client
                                   THEN k ELSE known[c]]
           f == [s \in Requests |-> IF s = r THEN NoRequest ELSE req[s]]
<1>5. req' = f /\ known' = g
  BY <1>1 DEF Receive, SInv, Traffic
<1>6. k \in Informed
  BY <1>1, <1>3 DEF Informed, RequestRecords, Answers, Updates, ModeChanges
<1>7. req[r].answer.code = "ok" /\ k.fresh => Follows(k.policy, ctl'.policy)
  BY <1>1, <1>2, <1>3 DEF Honest, Follows
<1> HIDE DEF k
<1>8. \A c \in Clients : \/ g[c] = known[c]
                         \/ g[c] \in Informed /\ (g[c].fresh => Follows(g[c].policy, ctl'.policy))
  BY <1>6, <1>7 DEF Follows
<1>9. \A s \in Requests : f[s] = NoRequest \/ f[s] = req[s]
  OBVIOUS
<1>10. g = [c \in Clients |-> g[c]] /\ f = [s \in Requests |-> f[s]]
  OBVIOUS
<1> HIDE DEF g, f
<1>11. known' = [c \in Clients |-> g[c]] /\ req' = [s \in Requests |-> f[s]]
  BY <1>5, <1>10
<1>12. Traffic' /\ Freshness'
  BY <1>2, <1>4, <1>8, <1>9, <1>11, TrafficKeeps
<1> QED
  BY <1>2, <1>12

LEMMA TimeOutKeeps ==
  ASSUME SInv, NEW r \in Requests, TimeOut(r)
  PROVE  Traffic' /\ Freshness' /\ CoreStep
<1>1. UNCHANGED vars /\ UNCHANGED known /\ req[r] # NoRequest
  BY DEF TimeOut, Awaited
<1>2. CoreStep /\ ctl' = ctl /\ ctl.policy \in Policies
  BY <1>1, SafeNow, CoreStays DEF SInv
<1>3. req[r] \in RequestRecords /\ Honest(req[r], ctl.policy)
  BY <1>1 DEF SInv, Traffic, Freshness
<1> DEFINE q == [req[r] EXCEPT !.awaited = FALSE]
<1>4. req' = [req EXCEPT ![r] = q] \/ req' = [req EXCEPT ![r] = NoRequest]
  BY DEF TimeOut, SInv, Traffic
<1>5. q \in RequestRecords /\ q.op = req[r].op /\ q.answer = req[r].answer
  BY <1>3 DEF RequestRecords
<1> HIDE DEF q
<1>6. Honest(q, ctl'.policy)
  BY <1>2, <1>3, <1>5 DEF Honest, Follows
<1>7. Traffic /\ Freshness /\ PolicyMoves
  BY <1>2 DEF SInv, CoreStep
<1>8. Traffic' /\ Freshness'
  BY <1>1, <1>2, <1>4, <1>5, <1>6, <1>7, OneRequest
<1> QED
  BY <1>2, <1>8

-----------------------------------------------------------------------------
(* All together.                                                            *)
LEMMA PolicyNow ==
  /\ IInv => ctl.policy \in Policies
  /\ IInv' => ctl'.policy \in Policies
<1>1. \A c : SafeState(c) => c.policy \in Policies
  BY DEF SafeState, Controllers
<1> QED
  BY <1>1 DEF IInv, Actuation

LEMMA InitSInv == ServerInit => SInv
<1> SUFFICES ASSUME ServerInit PROVE SInv
  OBVIOUS
<1>1. IInv
  BY InitIInv DEF ServerInit
<1>2. /\ owner = First /\ First \in Instances /\ path = First
      /\ daemon = [i \in Instances |-> [at |-> IF i = First THEN "serving" ELSE "none",
                                        policy |-> None]]
      /\ req = [r \in Requests |-> NoRequest]
      /\ known = [c \in Clients |-> [policy |-> disk, fresh |-> TRUE]]
  BY PeersAssumption DEF ServerInit, First
<1>3. disk \in Policies /\ ctl.policy = disk
  <2>1. NewController(disk).policy = disk
    BY DEF NewController
  <2> QED
    BY <1>1, <2>1, SafeNow DEF ServerInit, Init, Boot
<1>4. Processes
  <2>1. daemon \in [Instances -> Daemons]
    BY <1>2 DEF Daemons, DaemonPlaces, Owning
  <2> QED
    BY <1>2, <2>1 DEF Processes, Paths, Owning, Starting, Serving
<1>5. Traffic
  BY <1>2, <1>3 DEF Traffic
<1>6. Freshness
  BY <1>2, <1>3, OwnPolicyFollows DEF Freshness
<1> QED
  BY <1>1, <1>4, <1>5, <1>6 DEF SInv

LEMMA ProcessesStay ==
  ASSUME Processes, UNCHANGED process
  PROVE  Processes'
BY DEF Processes, process, Serving

(* A step of the core that the processes and the requests only watch.       *)
LEMMA WatchedStep ==
  ASSUME SInv, CoreStep, UNCHANGED traffic
  PROVE  Traffic' /\ Freshness'
BY TrafficStays, PolicyNow DEF SInv, CoreStep

LEMMA LifecycleTraffic ==
  ASSUME SInv, NEW i \in Instances, Lifecycle(i)
  PROVE  IInv' /\ DwellStep /\ Traffic' /\ Freshness'
<1>1. IInv /\ Traffic /\ Freshness /\ Processes
  BY DEF SInv
<1>2. CASE UNCHANGED vars /\ UNCHANGED traffic
  BY <1>1, <1>2, CoreStays, WatchedStep DEF CoreStep
<1>3. CASE Stop(i)
  <2>1. CoreStep /\ UNCHANGED traffic
    BY <1>1, <1>3, CoreMoves DEF Stop
  <2> QED
    BY <2>1, WatchedStep DEF CoreStep
<1>4. CASE Bind(i) /\ path = "absent"
  <2>1. /\ NewProcess(daemon[i].policy, "running") /\ Remembered(daemon[i].policy)
        /\ daemon[i].policy \in Policies
    BY <1>1, <1>4 DEF Bind, Processes, Starting
  <2>2. IInv' /\ DwellStep /\ ctl'.policy = daemon[i].policy
    BY <1>1, <2>1, NewProcessStep
  <2> QED
    BY <1>1, <2>1, <2>2, PolicyNow, RememberedKeeps
<1>5. CASE Exit(i)
  <2>1. UNCHANGED vars /\ Broken(i)
    BY <1>5 DEF Exit
  <2>2. CoreStep
    BY <1>1, <2>1, CoreStays
  <2> QED
    BY <1>1, <2>1, <2>2, PolicyNow, BrokenKeeps DEF CoreStep
<1>6. CASE Dies(i)
  <2>1. Broken(i) /\ (UNCHANGED vars \/ NewProcess(ctl.policy, "closed"))
    BY <1>6 DEF Dies
  <2>2. CoreStep
    <3>1. CASE NewProcess(ctl.policy, "closed")
      BY <1>1, <3>1, PolicyNow, NewProcessStep DEF CoreStep, PolicyMoves
    <3> QED
      BY <1>1, <2>1, <3>1, CoreStays
  <2> QED
    BY <1>1, <2>1, <2>2, PolicyNow, BrokenKeeps DEF CoreStep
<1> QED
  BY <1>2, <1>3, <1>4, <1>5, <1>6 DEF Lifecycle, Load, Lock, Probe, Reinspect, Unlink,
     Bind, CloseSocket, UnlinkOwn

LEMMA ServerKeeps ==
  ASSUME SInv, [ServerNext]_serverVars
  PROVE  SInv' /\ DwellStep
<1>1. IInv /\ Processes
  BY DEF SInv
<1>2. ASSUME CoreStep, UNCHANGED process, Traffic', Freshness'
      PROVE  SInv' /\ DwellStep
  BY <1>1, <1>2, ProcessesStay DEF SInv, CoreStep
<1>3. CASE UNCHANGED serverVars
  <2>1. UNCHANGED vars /\ UNCHANGED process /\ UNCHANGED traffic
    BY <1>3 DEF serverVars
  <2> QED
    BY <1>1, <1>2, <2>1, CoreStays, WatchedStep
<1>4. CASE CorePoll \/ CoreTick \/ CoreElapse \/ Anonymous
  <2>1. UNCHANGED process /\ UNCHANGED traffic
    BY <1>4 DEF CorePoll, CoreTick, CoreElapse, Anonymous, Outside
  <2>2. Request \/ Poll \/ TickJob \/ Shutdown \/ Elapse
    BY <1>4 DEF CorePoll, CoreTick, CoreElapse, Anonymous, PowerRequest, Request
  <2>3. CoreStep
    BY <1>1, <2>2, CoreMoves
  <2> QED
    BY <1>2, <2>1, <2>3, WatchedStep
<1>5. ASSUME NEW i \in Instances, Lifecycle(i) PROVE SInv' /\ DwellStep
  BY <1>1, <1>5, LifecycleKeeps, LifecycleTraffic DEF SInv
<1>6. ASSUME NEW c \in Clients, ReadPolicy(c) \/ Send(c) PROVE SInv' /\ DwellStep
  BY <1>2, <1>6, ReadPolicyKeeps, SendKeeps DEF ReadPolicy, Send
<1>7. ASSUME NEW r \in Requests, Answer(r) \/ Receive(r) \/ TimeOut(r)
      PROVE  SInv' /\ DwellStep
  BY <1>2, <1>7, AnswerKeeps, ReceiveKeeps, TimeOutKeeps DEF Answer, Receive, TimeOut
<1> QED
  BY <1>3, <1>4, <1>5, <1>6, <1>7 DEF ServerNext

LEMMA ServerInvariance == ServerSpec => []SInv
BY InitSInv, ServerKeeps, PTL DEF ServerSpec

(* At most one daemon serves, and the socket path leads to it, however many *)
(* are started, stopped and killed (server.py, owner lock, probe, unlink). *)
THEOREM OneDaemonServes == ServerSpec => []OneDaemon
<1>1. SInv => OneDaemon
  BY DEF SInv, Processes, OneDaemon, Serving, Owning
<1> QED
  BY ServerInvariance, <1>1, PTL

(* An update is made against the policy its client has read (policy.py      *)
(* updated, client.py call).                                                *)
LEMMA AcceptedFollows ==
  ASSUME SInv, [ServerNext]_serverVars, NEW r \in Requests,
         Accepted(r), req[r].op.kind = "update", req[r].op.fresh
  PROVE  ctl.policy = req[r].op.read
<1>1. /\ req[r] # NoRequest /\ req[r].answer = None /\ ctl'.policy.gen > ctl.policy.gen
      /\ req'[r] = NoRequest \/ req'[r].answer # None
  BY DEF Accepted
<1>2. req[r] \in RequestRecords /\ Honest(req[r], ctl.policy) /\ req[r].op \in Updates
      /\ ctl.policy \in Policies /\ ctl.policy.gen \in Nat
  <2>1. req[r] \in RequestRecords /\ Honest(req[r], ctl.policy)
    BY <1>1 DEF SInv, Traffic, Freshness
  <2>2. req[r].op \in Updates
    BY <2>1 DEF RequestRecords, ModeChanges
  <2> QED
    BY <2>1, <2>2, PolicyNow DEF SInv, Policies
<1>3. req'[r] # req[r]
  BY <1>1
<1>4. ctl' # ctl /\ ctl'.policy # ctl.policy
  BY <1>1, <1>2
<1>5. CASE Answer(r)
  <2>1. req[r].op.read.gen = ctl.policy.gen
    BY <1>4, <1>5, AnswerKeeps
  <2> QED
    BY <1>2, <2>1 DEF Honest, Follows
<1>6. ~ UNCHANGED vars /\ ~ UNCHANGED traffic
  BY <1>3, <1>4 DEF vars, traffic
<1>7. ASSUME NEW s \in Requests, s # r, Answer(s) PROVE FALSE
  <2>1. req'[r] = req[r]
    BY <1>7 DEF Answer, SInv, Traffic
  <2> QED
    BY <1>3, <2>1
<1>8. ASSUME NEW i \in Instances, Bind(i) PROVE FALSE
  <2>1. Remembered(daemon[i].policy)
    BY <1>6, <1>8 DEF Bind
  <2>2. req'[r] = [req[r] EXCEPT !.op.fresh = @ /\ daemon[i].policy = ctl.policy]
    BY <1>1, <2>1 DEF Remembered
  <2>3. req'[r].answer = req[r].answer /\ req'[r] # NoRequest
    BY <1>2, <2>2, PeersAssumption DEF RequestRecords, NoRequest
  <2> QED
    BY <1>1, <2>3
<1>9. ASSUME NEW i \in Instances, Dies(i) PROVE FALSE
  <2>1. NewProcess(ctl.policy, "closed")
    BY <1>6, <1>9 DEF Dies
  <2>2. ctl'.policy = ctl.policy
    BY <1>2, <2>1, NewProcessStep DEF SInv
  <2> QED
    BY <1>4, <2>2
<1>10. ASSUME NEW i \in Instances PROVE ~ Lifecycle(i)
  BY <1>6, <1>8, <1>9 DEF Lifecycle, Load, Lock, Probe, Reinspect, Unlink, Stop,
     CloseSocket, UnlinkOwn, Exit
<1>11. \E s \in Requests : Answer(s)
  BY <1>6, <1>10 DEF ServerNext, serverVars, CorePoll, CoreTick, CoreElapse, Anonymous,
     Outside, ReadPolicy, Send, Receive, TimeOut
<1> QED
  BY <1>5, <1>7, <1>11

(* An update with the generation a client knows is applied to the very      *)
(* policy that client has read, or refused, whoever else writes and however *)
(* many daemons serve in between (service.py policy.update, CONFLICT).      *)
THEOREM UpdatesAreNotLost == ServerSpec => NoLostUpdate
<1>1. SInv /\ [ServerNext]_serverVars
        => [\A r \in Requests :
              Accepted(r) /\ req[r].op.kind = "update" /\ req[r].op.fresh
                => ctl.policy = req[r].op.read]_serverVars
  BY AcceptedFollows
<1> QED
  BY ServerInvariance, <1>1, PTL DEF ServerSpec, NoLostUpdate

(* What the core promises alone it keeps under the daemon: through every    *)
(* start, stop and crash, through the requests of clients that gave up, the *)
(* reported command is true, a hold keeps the line OFF and no timer is too  *)
(* fast (service.py, server.py, daemon.py).                                 *)
THEOREM ServedReportsAreTrue == ServerSpec => [](CommandTruth /\ HoldKeepsOff)
<1>1. SInv => CommandTruth /\ HoldKeepsOff
  BY HoldMeansOff DEF SInv, IInv, Actuation, HoldKeepsOff
<1> QED
  BY ServerInvariance, <1>1, PTL

(* Thermostat and timers respect the dwell under the daemon as well, also   *)
(* across its restarts (controller.py _dwell_elapsed, automation.py tick).  *)
THEOREM ServedTimersAreSlow == ServerSpec => TimersRespectDwell
<1>1. SInv /\ [ServerNext]_serverVars
        => [ctl'.fan # ctl.fan /\ ctl'.reason \in ScheduledReasons
              => flipAge >= IF ctl.fan = "on" THEN ctl'.policy.minOn
                                              ELSE ctl'.policy.minOff]_vars
  BY ServerKeeps DEF DwellStep, Dwell
<1> QED
  BY ServerInvariance, <1>1, PTL DEF ServerSpec, TimersRespectDwell
=============================================================================
