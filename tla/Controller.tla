----------------------------- MODULE Controller -----------------------------
(***************************************************************************)
(* The controller on its own: any sequence of the calls its owner can make *)
(* on it, with any readings and any policy changes, and time passing       *)
(* between them.  Two history variables observe it from outside: flipAge   *)
(* is the time since the fan's power really changed (the controller's own  *)
(* clock restarts also when a command repeats the present power), and      *)
(* recent holds the last readings handed to observe, valid or not.         *)
(***************************************************************************)
EXTENDS EnvController

CONSTANTS
  InitPolicies,  \* policies the controller may be constructed with
  Settings,      \* [start, stop, minOn, minOff] an operator may ask for
  MaxGen,        \* bound on the policy generation
  Window         \* readings the history variable recent retains

ASSUME InitPolicyAssumption == InitPolicies \subseteq Policies
ASSUME SettingsAssumption ==
  Settings \subseteq [start : Int, stop : Int, minOn : Nat, minOff : Nat]
ASSUME WindowAssumption ==
  /\ MaxGen \in Nat /\ Window \in Nat \ {0}
  /\ Window >= ControlSamples /\ Window >= RecoverSamples

VARIABLES
  ctl,      \* the controller record
  flipAge,  \* history: time since the fan's power last changed
  recent    \* history: the last Window readings observed

vars == <<ctl, flipAge, recent>>

Init ==
  /\ \E p \in InitPolicies : ctl = NewController(p)
  /\ flipAge = 0
  /\ recent = <<>>

\* Every call replaces the controller's state; the history follows it.
Become(c) ==
  /\ ctl' = c
  /\ flipAge' = IF c.fan = ctl.fan THEN flipAge ELSE 0

\* EnvironmentPolicy.updated with an unchanged or a new mode.
Updated(p, mode, s) ==
  [gen |-> p.gen + 1, mode |-> mode, start |-> s.start, stop |-> s.stop,
   minOn |-> s.minOn, minOff |-> s.minOff]

-----------------------------------------------------------------------------
CallObserve ==
  \E r \in Readings :
    /\ Become(Observe(ctl, r))
    /\ recent' = LastOf(Append(recent, r), Window)

CallTick ==
  \E stale \in BOOLEAN : Become(Recheck(ctl, stale)) /\ UNCHANGED recent

CallSetFanPower ==
  \E power \in Powers :
    /\ ~Rejects(ctl, power)
    /\ ctl.policy.gen < MaxGen
    /\ Become(SetFanPower(ctl, power)) /\ UNCHANGED recent

CallScheduledFanPower ==
  \E power \in Powers, expired \in BOOLEAN :
    /\ ~Rejects(ctl, power)
    /\ expired => power = "off"
    /\ ctl.policy.gen < MaxGen
    /\ Become(ScheduledFanPower(ctl, power, expired)) /\ UNCHANGED recent

CallSetMode ==
  \E mode \in Modes :
    /\ ctl.policy.gen < MaxGen
    /\ Become(SetMode(ctl, mode)) /\ UNCHANGED recent

\* An update whose policy fails validation raises before any effect.
CallUpdatePolicy ==
  \E mode \in Modes, s \in Settings :
    LET p == Updated(ctl.policy, mode, s) IN
    /\ ctl.policy.gen < MaxGen
    /\ ValidPolicy(p)
    /\ Become(UpdatePolicy(ctl, p)) /\ UNCHANGED recent

CallSafeOff ==
  /\ \/ Become(ShutdownOff(ctl))
     \/ Become(ActuatorErrorSafeOff(ctl))
  /\ UNCHANGED recent

Elapse ==
  /\ ctl' = Aged(ctl)
  /\ flipAge' = IF flipAge < MaxDwell THEN flipAge + 1 ELSE flipAge
  /\ UNCHANGED recent

Next ==
  \/ CallObserve \/ CallTick \/ CallSetFanPower \/ CallScheduledFanPower
  \/ CallSetMode \/ CallUpdatePolicy \/ CallSafeOff \/ Elapse

Spec == Init /\ [][Next]_vars

-----------------------------------------------------------------------------
(* The state of environment/controller.py has the types its dataclass      *)
(* declares, and never keeps more readings than its median uses.           *)
TypeOK ==
  /\ ctl \in Controllers
  /\ Len(ctl.samples) <= ControlSamples
  /\ flipAge \in 0..MaxDwell
  /\ recent \in Seq(Readings)

(* Whatever the order of calls: DISABLED means OFF, a stop is armed only   *)
(* while the fan is on, and AUTOMATIC never keeps the fan on with a sensor *)
(* it does not trust (controller.py _evaluate and _transition).            *)
FailSafe == SafeController(ctl)

(* The sensor is trusted exactly after RecoverSamples valid readings in a  *)
(* row, counted in the readings themselves and not in the controller's own *)
(* counter (controller.py observe, recovery streak).                       *)
TrustIsEarned ==
  ctl.quality = "ready" =>
    /\ Len(recent) >= RecoverSamples
    /\ \A i \in (Len(recent) - RecoverSamples + 1)..Len(recent) :
         recent[i].quality = "ready"

(* The controller's own clock may run behind the relay's, never ahead.     *)
ClockIsConservative == ctl.age <= flipAge

(* No short cycling: the thermostat itself never changes the fan's power   *)
(* before the relay has kept it for the dwell of the policy in force,      *)
(* measured from the last real change (controller.py _dwell_elapsed).      *)
NoShortCycle ==
  [][ctl'.fan # ctl.fan /\ ctl'.reason \in ThermostatReasons
       => flipAge >= IF ctl.fan = "on" THEN ctl'.policy.minOn
                                       ELSE ctl'.policy.minOff]_vars

(* One outlier among three readings or more cannot start the fan: when the *)
(* thermostat turns it on, at least half of the readings of the control    *)
(* window, all valid, are at or above the start threshold.  Of two         *)
(* readings one is enough (controller.py _control_temperature).            *)
OutlierCannotStart ==
  [][ctl'.fan = "on" /\ ctl.fan = "off"
       /\ ctl'.reason = "AUTO_START_THRESHOLD" =>
     LET n == Len(ctl'.samples)
         used == {i \in (Len(recent') - n + 1)..Len(recent') :
                    recent'[i].quality = "ready"
                    /\ recent'[i].temp >= ctl'.policy.start}
     IN  n > 0 /\ 2 * Cardinality(used) >= n]_vars

(* SEMI_AUTOMATIC never starts the fan because of temperature, a policy    *)
(* change or a recovered sensor: only an explicit or scheduled ON does.    *)
SemiNeverStartsItself ==
  [][ctl.fan = "off" /\ ctl'.fan = "on" /\ ctl'.policy.mode = "semi"
       => ctl'.armed /\ ctl'.reason \in {"SEMI_USER_START", "TIMER_ON"}]_vars
=============================================================================
