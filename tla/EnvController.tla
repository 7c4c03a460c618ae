--------------------------- MODULE EnvController ---------------------------
(***************************************************************************)
(* The room-fan controller of gonken_agent.environment: what every         *)
(* operation of EnvironmentController does to its state, as operators on a *)
(* controller record.  The modules that own a controller keep the record   *)
(* in a variable and assign it the value one of these operators returns.   *)
(*                                                                         *)
(* The monotonic clock enters only through differences, so a controller    *)
(* keeps the time since its last recorded transition (age) instead of the  *)
(* instant.  A dwell is at most MaxDwell, so the age saturates there; the  *)
(* streak of valid samples saturates at RecoverSamples for the same reason.*)
(***************************************************************************)
EXTENDS Integers, Sequences, FiniteSets

CONSTANTS
  Temps,           \* temperatures the sensor can report
  MinTemp, MaxTemp,    \* PolicyBounds: range of start and stop
  MinHyst, MaxHyst,    \* PolicyBounds: range of start - stop
  MinDwell, MaxDwell,  \* PolicyBounds: range of the two dwells
  ControlSamples,  \* readings the control temperature is the median of
  RecoverSamples   \* valid readings in a row before the sensor is trusted

ASSUME TempsAssumption == Temps \subseteq Int
ASSUME BoundsAssumption ==
  /\ MinTemp \in Int /\ MaxTemp \in Int /\ MinTemp < MaxTemp
  /\ MinHyst \in Nat \ {0} /\ MaxHyst \in Nat /\ MinHyst <= MaxHyst
  /\ MinDwell \in Nat /\ MaxDwell \in Nat /\ MinDwell <= MaxDwell
ASSUME SamplesAssumption ==
  ControlSamples \in Nat \ {0} /\ RecoverSamples \in Nat \ {0}

-----------------------------------------------------------------------------
Modes == {"disabled", "manual", "semi", "auto"}
Powers == {"on", "off"}
BadQualities == {"stale", "failed", "unavailable"}
Qualities == BadQualities \cup {"starting", "ready"}
Reasons == {"BOOT_SAFE_OFF", "USER_MANUAL_ON", "USER_MANUAL_OFF",
            "AUTO_START_THRESHOLD", "AUTO_STOP_THRESHOLD", "SEMI_USER_START",
            "SEMI_AUTO_STOP", "SENSOR_STALE_SAFE_OFF",
            "POLICY_UPDATE_STOP_CONDITION", "SHUTDOWN_SAFE_OFF", "TIMER_ON",
            "TIMER_OFF", "TIMER_EXPIRED_SAFE_OFF", "ACTUATOR_ERROR_SAFE_OFF",
            "DISABLED_SAFE_OFF"}

\* What one sensor read hands to the controller: a trusted temperature, or
\* the quality that disqualifies it.
Readings == [quality : {"ready"}, temp : Temps] \cup [quality : BadQualities]

ValidPolicy(p) ==
  /\ p.gen >= 1
  /\ MinTemp <= p.start /\ p.start <= MaxTemp
  /\ MinTemp <= p.stop /\ p.stop <= MaxTemp
  /\ MinHyst <= p.start - p.stop /\ p.start - p.stop <= MaxHyst
  /\ MinDwell <= p.minOn /\ p.minOn <= MaxDwell
  /\ MinDwell <= p.minOff /\ p.minOff <= MaxDwell

Policies ==
  {p \in [gen : Nat, mode : Modes, start : Int, stop : Int,
          minOn : Nat, minOff : Nat] : ValidPolicy(p)}

Controllers ==
  [policy : Policies, fan : Powers, armed : BOOLEAN, quality : Qualities,
   samples : Seq(Temps), streak : 0..RecoverSamples, age : 0..MaxDwell,
   reason : Reasons]

\* EnvironmentController.__init__: the fan starts OFF whatever the policy.
NewController(p) ==
  [policy |-> p, fan |-> "off", armed |-> FALSE, quality |-> "starting",
   samples |-> <<>>, streak |-> 0, age |-> 0,
   reason |-> IF p.mode = "disabled" THEN "DISABLED_SAFE_OFF"
                                     ELSE "BOOT_SAFE_OFF"]

-----------------------------------------------------------------------------
(* The control temperature: the median of the retained readings, doubled   *)
(* so that the mean of the two middle ones stays an integer.               *)
Smallest(s, k) ==
  CHOOSE v \in {s[i] : i \in DOMAIN s} :
    /\ Cardinality({i \in DOMAIN s : s[i] < v}) < k
    /\ Cardinality({i \in DOMAIN s : s[i] <= v}) >= k

\* Mutant: the latest reading alone controls.
LatestTwice(s) == 2 * s[Len(s)]

MedianTwice(s) ==
  Smallest(s, (Len(s) + 1) \div 2) + Smallest(s, Len(s) \div 2 + 1)

Hot(c) == MedianTwice(c.samples) >= 2 * c.policy.start
Cool(c) == MedianTwice(c.samples) <= 2 * c.policy.stop

\* Mutant: one time unit short.
DwellAlmostElapsed(c, required) == c.age + 1 >= required

DwellElapsed(c, required) == c.age >= required

\* Let the clock of a controller advance by one unit.
Aged(c) == [c EXCEPT !.age = IF @ < MaxDwell THEN @ + 1 ELSE @]

-----------------------------------------------------------------------------
Transition(c, power, armed, reason) ==
  [c EXCEPT !.fan = power, !.armed = armed, !.reason = reason, !.age = 0]

\* Mutant: a failed read is overlooked.
StaleSensor(c) == c.quality \in {"stale", "unavailable"}

DistrustedSensor(c) == c.quality \in BadQualities
Controllable(c) == c.quality = "ready" /\ c.samples # <<>>

\* Mutant: SEMI starts on temperature as AUTOMATIC does.
StartDueInSemi(c) ==
  /\ c.policy.mode \in {"auto", "semi"} /\ Controllable(c) /\ c.fan = "off"
  /\ Hot(c) /\ DwellElapsed(c, c.policy.minOff)

StartDue(c) ==
  /\ c.policy.mode = "auto" /\ Controllable(c) /\ c.fan = "off" /\ Hot(c)
  /\ DwellElapsed(c, c.policy.minOff)

StopDue(c) ==
  /\ c.policy.mode = "auto" \/ (c.policy.mode = "semi" /\ c.armed)
  /\ Controllable(c) /\ c.fan = "on" /\ Cool(c)
  /\ DwellElapsed(c, c.policy.minOn)

StopReason(c, context) ==
  IF context = "policy_update" THEN "POLICY_UPDATE_STOP_CONDITION"
  ELSE IF c.policy.mode = "auto" THEN "AUTO_STOP_THRESHOLD"
  ELSE "SEMI_AUTO_STOP"

\* _evaluate: what the controller does on its own.  MANUAL is never touched.
Evaluate(c, context) ==
  CASE /\ c.policy.mode = "disabled"
       /\ c.fan = "on" \/ c.armed ->
         Transition(c, "off", FALSE, "DISABLED_SAFE_OFF")
    [] /\ c.policy.mode \in {"auto", "semi"} /\ DistrustedSensor(c)
       /\ c.fan = "on" \/ c.armed ->
         Transition(c, "off", FALSE, "SENSOR_STALE_SAFE_OFF")
    [] StartDue(c) -> Transition(c, "on", FALSE, "AUTO_START_THRESHOLD")
    [] StopDue(c) -> Transition(c, "off", FALSE, StopReason(c, context))
    [] OTHER -> c

-----------------------------------------------------------------------------
\* Mutant: nothing is ever dropped.
AllOf(s, n) == s

LastOf(s, n) == SubSeq(s, IF Len(s) > n THEN Len(s) - n + 1 ELSE 1, Len(s))

\* Mutant: a bad reading does not break the streak of valid ones.
DistrustedOnce(c, quality) ==
  [c EXCEPT !.samples = <<>>, !.quality = quality]

\* A reading without a trusted temperature costs the whole history.
Distrusted(c, quality) ==
  [c EXCEPT !.samples = <<>>, !.streak = 0, !.quality = quality]

\* observe: one more reading, valid or not, then the autonomous decision.
Observe(c, r) ==
  LET streak == IF c.streak < RecoverSamples THEN c.streak + 1 ELSE c.streak
  IN  IF r.quality = "ready"
      THEN Evaluate(
             [c EXCEPT !.samples = LastOf(Append(@, r.temp), ControlSamples),
                       !.streak = streak,
                       !.quality = IF streak < RecoverSamples THEN "starting"
                                                              ELSE "ready"],
             "sensor")
      ELSE Evaluate(Distrusted(c, r.quality), "sensor")

\* tick: no new reading, but the last valid one may have become stale.
Recheck(c, lastIsStale) ==
  LET stale == lastIsStale /\ c.streak > 0
  IN  Evaluate(IF stale THEN Distrusted(c, "stale") ELSE c, "tick")

-----------------------------------------------------------------------------
\* set_fan_power raises ENV_DISABLED for exactly these requests.
Rejects(c, power) == c.policy.mode = "disabled" /\ power = "on"

UserReason(power) ==
  IF power = "on" THEN "USER_MANUAL_ON" ELSE "USER_MANUAL_OFF"

WithMode(p, mode) == [p EXCEPT !.mode = mode, !.gen = @ + 1]

SetFanPower(c, power) ==
  CASE c.policy.mode = "disabled" ->
         Transition(c, "off", FALSE, "DISABLED_SAFE_OFF")
    [] c.policy.mode = "auto" ->
         Transition([c EXCEPT !.policy = WithMode(@, "manual")],
                    power, FALSE, UserReason(power))
    [] c.policy.mode = "semi" /\ power = "on" ->
         Transition(c, "on", TRUE, "SEMI_USER_START")
    [] OTHER -> Transition(c, power, FALSE, UserReason(power))

\* scheduled_fan_power: the reason is the timer's only if the power changed.
ScheduledFanPower(c, power, expired) ==
  LET d == SetFanPower(c, power)
  IN  IF d.fan = c.fan THEN d
      ELSE [d EXCEPT !.reason =
              IF expired THEN "TIMER_EXPIRED_SAFE_OFF"
              ELSE IF power = "on" THEN "TIMER_ON" ELSE "TIMER_OFF"]

UpdatePolicy(c, p) ==
  LET d == [c EXCEPT !.policy = p]
  IN  CASE p.mode = "disabled" ->
             Transition(d, "off", FALSE, "DISABLED_SAFE_OFF")
        [] p.mode = "semi" /\ c.fan = "off" ->
             Evaluate([d EXCEPT !.armed = FALSE], "policy_update")
        [] OTHER -> Evaluate(d, "policy_update")

SetMode(c, mode) == UpdatePolicy(c, WithMode(c.policy, mode))

ShutdownOff(c) == Transition(c, "off", FALSE, "SHUTDOWN_SAFE_OFF")
ActuatorErrorSafeOff(c) ==
  Transition(c, "off", FALSE, "ACTUATOR_ERROR_SAFE_OFF")

-----------------------------------------------------------------------------
(* What the owners of a controller state about it.                         *)

\* DISABLED is OFF, only a running fan is armed, no trust in AUTOMATIC is OFF.
SafeController(c) ==
  /\ c.policy.mode = "disabled" => c.fan = "off"
  /\ c.armed => c.fan = "on"
  /\ c.policy.mode = "auto" /\ c.quality \in BadQualities => c.fan = "off"

\* The decisions the controller takes by itself.
ThermostatReasons == {"AUTO_START_THRESHOLD", "AUTO_STOP_THRESHOLD",
                      "SEMI_AUTO_STOP", "POLICY_UPDATE_STOP_CONDITION"}
=============================================================================
