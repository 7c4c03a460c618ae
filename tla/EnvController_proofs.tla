------------------------- MODULE EnvController_proofs -------------------------
(***************************************************************************)
(* What each operation of EnvController returns, for every set of           *)
(* temperatures, every policy bounds and every number of samples: the       *)
(* lemmas that the proofs about its owners, Controller and EnvService, use. *)
(***************************************************************************)
EXTENDS EnvController, SequenceTheorems, FiniteSetTheorems, TLAPS

-----------------------------------------------------------------------------

LEMMA ConstantTypes ==
  /\ MinTemp \in Int /\ MaxTemp \in Int
  /\ MinHyst \in Nat /\ MaxHyst \in Nat /\ MinDwell \in Nat /\ MaxDwell \in Nat
  /\ ControlSamples \in Nat \ {0} /\ RecoverSamples \in Nat \ {0}
  /\ Temps \subseteq Int
BY BoundsAssumption, SamplesAssumption, TempsAssumption

(* A transition yields a controller again, and changes only what it says. *)
IsTransition(c, d, power, armed, reason) ==
  /\ d \in Controllers
  /\ d.samples = c.samples /\ d.policy = c.policy /\ d.quality = c.quality
  /\ d.fan = power /\ (d.armed <=> armed) /\ d.reason = reason /\ d.age = 0

LEMMA TransitionType ==
  ASSUME NEW c \in Controllers, NEW power \in Powers, NEW armed \in BOOLEAN,
         NEW reason \in Reasons
  PROVE  IsTransition(c, Transition(c, power, armed, reason),
                      power, armed, reason)
<1> DEFINE d == Transition(c, power, armed, reason)
<1>1. d.samples = c.samples /\ d.policy = c.policy /\ d.quality = c.quality
  BY DEF Transition, Controllers
<1>2. d.fan = power
  BY DEF Transition, Controllers
<1>3. d.armed <=> armed
  BY DEF Transition, Controllers
<1>4. d.reason = reason /\ d.age = 0
  BY DEF Transition, Controllers
<1>5. 0 \in 0..MaxDwell
  BY ConstantTypes
<1>6. d \in Controllers
  BY <1>5 DEF Transition, Controllers
<1> QED
  BY <1>1, <1>2, <1>3, <1>4, <1>6 DEF IsTransition

(* The reasons of the timed jobs: no decision of the controller's own, and *)
(* no request of a user, has one.                                          *)
TimerReasons == {"TIMER_ON", "TIMER_OFF"}

(* The autonomous decision either leaves the controller alone or makes one *)
(* of four transitions, each under its condition.                          *)
LEMMA EvaluateCases ==
  ASSUME NEW c \in Controllers, NEW context
  PROVE  \/ /\ Evaluate(c, context) = c
            /\ c.policy.mode = "disabled" => c.fan = "off" /\ ~c.armed
            /\ c.policy.mode \in {"auto", "semi"} /\ c.quality \in BadQualities
                 => c.fan = "off" /\ ~c.armed
         \/ /\ c.policy.mode = "disabled"
            /\ Evaluate(c, context)
                 = Transition(c, "off", FALSE, "DISABLED_SAFE_OFF")
         \/ Evaluate(c, context)
              = Transition(c, "off", FALSE, "SENSOR_STALE_SAFE_OFF")
         \/ /\ StartDue(c)
            /\ Evaluate(c, context)
                 = Transition(c, "on", FALSE, "AUTO_START_THRESHOLD")
         \/ /\ StopDue(c)
            /\ \E reason \in Reasons \ TimerReasons :
                 Evaluate(c, context) = Transition(c, "off", FALSE, reason)
<1> DEFINE off == c.fan = "off" /\ ~c.armed
           A1 == c.policy.mode = "disabled" /\ (c.fan = "on" \/ c.armed)
           A2 == /\ c.policy.mode \in {"auto", "semi"} /\ DistrustedSensor(c)
                 /\ c.fan = "on" \/ c.armed
<1>1. StopReason(c, context) \in Reasons \ TimerReasons
  BY DEF StopReason, Reasons, TimerReasons
<1>2. c.fan = "on" \/ c.armed \/ off
  BY DEF Controllers, Powers
<1>3. CASE A1
  BY <1>3 DEF Evaluate, StartDue, StopDue
<1>4. CASE A2
  BY <1>4 DEF Evaluate, StartDue, StopDue, Controllable, DistrustedSensor,
              BadQualities
<1>5. CASE StartDue(c)
  BY <1>5 DEF Evaluate, StartDue, StopDue, Controllable, DistrustedSensor,
              BadQualities
<1>6. CASE StopDue(c)
  BY <1>1, <1>6 DEF Evaluate, StartDue, StopDue, Controllable,
                    DistrustedSensor, BadQualities
<1>7. CASE ~A1 /\ ~A2 /\ ~StartDue(c) /\ ~StopDue(c)
  <2>1. Evaluate(c, context) = c
    BY <1>7 DEF Evaluate
  <2> QED
    BY <1>2, <1>7, <2>1 DEF DistrustedSensor
<1> QED
  BY <1>3, <1>4, <1>5, <1>6, <1>7

-----------------------------------------------------------------------------
(* What every call owes: from a controller whose armed stop is on, a safe  *)
(* controller whose clock restarts with every change of power, whose own   *)
(* decisions respect the dwell, and that never starts a SEMI fan by itself.*)
RespectsDwell(c, d) ==
  d.fan # c.fan /\ d.reason \in ThermostatReasons
    => c.age >= IF c.fan = "on" THEN d.policy.minOn ELSE d.policy.minOff

SemiIsCommanded(c, d) ==
  c.fan = "off" /\ d.fan = "on" /\ d.policy.mode = "semi"
    => d.armed /\ d.reason \in {"SEMI_USER_START", "TIMER_ON"}

Sound(c, d) ==
  /\ d \in Controllers
  /\ SafeController(d)
  /\ d.age \in {0, c.age}
  /\ d.fan # c.fan => d.age = 0
  /\ RespectsDwell(c, d)
  /\ SemiIsCommanded(c, d)

(* A transition that is not the thermostat's own is sound. *)
LEMMA CommandSound ==
  ASSUME NEW c \in Controllers, NEW power \in Powers, NEW armed \in BOOLEAN,
         NEW reason \in Reasons \ ThermostatReasons,
         armed => power = "on",
         c.policy.mode = "disabled" => power = "off",
         c.policy.mode = "auto" => power = "off",
         c.policy.mode = "semi" /\ power = "on"
           => armed /\ reason \in {"SEMI_USER_START", "TIMER_ON"}
  PROVE  Sound(c, Transition(c, power, armed, reason))
BY TransitionType
DEF IsTransition, Sound, SafeController, RespectsDwell, SemiIsCommanded

(* What the autonomous start and stop transitions look like. *)
LEMMA StartSound ==
  ASSUME NEW c \in Controllers, StartDue(c)
  PROVE  Sound(c, Transition(c, "on", FALSE, "AUTO_START_THRESHOLD"))
<1> DEFINE d == Transition(c, "on", FALSE, "AUTO_START_THRESHOLD")
<1>1. /\ d \in Controllers /\ d.policy = c.policy /\ d.quality = c.quality
      /\ d.fan = "on" /\ ~d.armed /\ d.age = 0
  <2>1. "on" \in Powers /\ "AUTO_START_THRESHOLD" \in Reasons
    BY DEF Powers, Reasons
  <2>2. IsTransition(c, d, "on", FALSE, "AUTO_START_THRESHOLD")
    BY <2>1, TransitionType
  <2> QED
    BY <2>2 DEF IsTransition
<1>2. /\ c.policy.mode = "auto" /\ c.quality = "ready" /\ c.fan = "off"
      /\ c.age >= c.policy.minOff
  BY DEF StartDue, Controllable, DwellElapsed
<1>3. SafeController(d)
  BY <1>1, <1>2 DEF SafeController, BadQualities
<1>4. RespectsDwell(c, d) /\ SemiIsCommanded(c, d)
  BY <1>1, <1>2 DEF RespectsDwell, SemiIsCommanded
<1>5. Sound(c, d)
  <2> HIDE DEF d
  <2> QED
    BY <1>1, <1>3, <1>4 DEF Sound
<1> QED
  BY <1>5

LEMMA StopSound ==
  ASSUME NEW c \in Controllers, StopDue(c), NEW reason \in Reasons
  PROVE  Sound(c, Transition(c, "off", FALSE, reason))
<1> DEFINE d == Transition(c, "off", FALSE, reason)
<1>1. /\ d \in Controllers /\ d.policy = c.policy
      /\ d.fan = "off" /\ ~d.armed /\ d.age = 0
  <2>1. IsTransition(c, d, "off", FALSE, reason)
    BY TransitionType DEF Powers
  <2> QED
    BY <2>1 DEF IsTransition
<1>2. c.fan = "on" /\ c.age >= c.policy.minOn
  BY DEF StopDue, DwellElapsed
<1>3. SafeController(d)
  BY <1>1 DEF SafeController
<1>4. RespectsDwell(c, d) /\ SemiIsCommanded(c, d)
  BY <1>1, <1>2 DEF RespectsDwell, SemiIsCommanded
<1>5. Sound(c, d)
  <2> HIDE DEF d
  <2> QED
    BY <1>1, <1>3, <1>4 DEF Sound
<1> QED
  BY <1>5

(* The autonomous decision is sound and keeps the readings. *)
LEMMA EvaluateSound ==
  ASSUME NEW c \in Controllers, NEW context, c.armed => c.fan = "on"
  PROVE  Sound(c, Evaluate(c, context))
<1> DEFINE d == Evaluate(c, context)
<1>1. CASE d = c /\ SafeController(c)
  <2>1. SemiIsCommanded(c, c) /\ RespectsDwell(c, c)
    BY DEF SemiIsCommanded, RespectsDwell
  <2>2. Sound(c, c)
    BY <1>1, <2>1 DEF Sound
  <2> QED
    BY <1>1, <2>2
<1>2. ASSUME NEW reason \in Reasons \ ThermostatReasons
      PROVE  Sound(c, Transition(c, "off", FALSE, reason))
  BY CommandSound DEF Powers
<1>3. /\ "DISABLED_SAFE_OFF" \in Reasons \ ThermostatReasons
      /\ "SENSOR_STALE_SAFE_OFF" \in Reasons \ ThermostatReasons
  BY DEF Reasons, ThermostatReasons
<1>4. CASE \/ d = Transition(c, "off", FALSE, "DISABLED_SAFE_OFF")
           \/ d = Transition(c, "off", FALSE, "SENSOR_STALE_SAFE_OFF")
  BY <1>2, <1>3, <1>4
<1>5. CASE StartDue(c) /\ d = Transition(c, "on", FALSE, "AUTO_START_THRESHOLD")
  BY <1>5, StartSound
<1>6. CASE StopDue(c) /\ \E reason \in Reasons :
             d = Transition(c, "off", FALSE, reason)
  BY <1>6, StopSound
<1>7. CASE /\ d = c
           /\ c.policy.mode = "disabled" => c.fan = "off" /\ ~c.armed
           /\ c.policy.mode \in {"auto", "semi"} /\ c.quality \in BadQualities
                => c.fan = "off" /\ ~c.armed
  <2>1. SafeController(c)
    BY <1>7 DEF SafeController
  <2> QED
    BY <1>1, <1>7, <2>1
<1> QED
  BY <1>4, <1>5, <1>6, <1>7, EvaluateCases

(* It keeps the readings and the policy, and is never taken for a timer's. *)
LEMMA EvaluateKeeps ==
  ASSUME NEW c \in Controllers, NEW context
  PROVE  /\ Evaluate(c, context).samples = c.samples
         /\ Evaluate(c, context).policy = c.policy
         /\ Evaluate(c, context).fan # c.fan
              => Evaluate(c, context).reason \notin TimerReasons
<1> DEFINE d == Evaluate(c, context)
<1>1. /\ "off" \in Powers /\ "on" \in Powers
      /\ {"DISABLED_SAFE_OFF", "SENSOR_STALE_SAFE_OFF", "AUTO_START_THRESHOLD"}
           \subseteq Reasons \ TimerReasons
  BY DEF Powers, Reasons, TimerReasons
<1>2. \/ d = c
      \/ \E power \in Powers, reason \in Reasons \ TimerReasons :
           d = Transition(c, power, FALSE, reason)
  BY <1>1, EvaluateCases
<1>3. CASE d = c
  BY <1>3
<1>4. CASE \E power \in Powers, reason \in Reasons \ TimerReasons :
             d = Transition(c, power, FALSE, reason)
  <2>1. PICK power \in Powers, reason \in Reasons \ TimerReasons :
          d = Transition(c, power, FALSE, reason)
    BY <1>4
  <2>2. IsTransition(c, Transition(c, power, FALSE, reason),
                     power, FALSE, reason)
    BY TransitionType
  <2>3. IsTransition(c, d, power, FALSE, reason)
    BY <2>1, <2>2
  <2> QED
    BY <2>3 DEF IsTransition
<1> QED
  BY <1>2, <1>3, <1>4

-----------------------------------------------------------------------------
(* What each call of the controller yields, from a safe controller.        *)

SafeState(c) ==
  c \in Controllers /\ SafeController(c) /\ Len(c.samples) <= ControlSamples

SafeStep(c, d) == Sound(c, d) /\ Len(d.samples) <= ControlSamples

(* A change of readings, policy or quality before a sound transition: the  *)
(* fan and the clock are what they were.                                   *)
LEMMA SoundFrom ==
  ASSUME NEW c \in Controllers, NEW b \in Controllers, NEW d,
         b.fan = c.fan, b.age = c.age, Sound(b, d)
  PROVE  Sound(c, d)
BY DEF Sound, RespectsDwell, SemiIsCommanded

(* The retained readings are readings, and at most the number asked for.   *)
LEMMA LastOfType ==
  ASSUME NEW S, NEW s \in Seq(S), NEW n \in Nat \ {0}
  PROVE  LastOf(s, n) \in Seq(S) /\ Len(LastOf(s, n)) <= n
<1>1. CASE Len(s) > n
  <2> DEFINE m == Len(s) - n + 1
  <2>1. m \in 1..Len(s) /\ Len(s) \in Nat
    BY <1>1, LenProperties
  <2>2. \A i \in m..Len(s) : s[i] \in S
    BY <2>1, ElementOfSeq
  <2>3. /\ SubSeq(s, m, Len(s)) \in Seq(S)
        /\ Len(SubSeq(s, m, Len(s))) = n
    BY <2>1, <2>2, SubSeqProperties
  <2>4. LastOf(s, n) = SubSeq(s, m, Len(s))
    BY <1>1 DEF LastOf
  <2> QED
    BY <2>3, <2>4
<1>2. CASE ~(Len(s) > n)
  <2>1. Len(s) \in Nat /\ Len(s) <= n
    BY <1>2, LenProperties
  <2>2. \A i \in 1..Len(s) : s[i] \in S
    BY ElementOfSeq
  <2>3. SubSeq(s, 1, Len(s)) \in Seq(S) /\ Len(SubSeq(s, 1, Len(s))) <= n
    BY <2>1, <2>2, SubSeqProperties
  <2>4. LastOf(s, n) = SubSeq(s, 1, Len(s))
    BY <1>2 DEF LastOf
  <2> QED
    BY <2>3, <2>4
<1> QED
  BY <1>1, <1>2

(* An autonomous decision taken after the readings, the policy or the      *)
(* quality changed is a sound step of the controller as it was.            *)
LEMMA ReevaluateSafe ==
  ASSUME NEW c \in Controllers, NEW b \in Controllers, NEW context,
         b.fan = c.fan, b.age = c.age, b.armed => b.fan = "on",
         Len(b.samples) <= ControlSamples
  PROVE  SafeStep(c, Evaluate(b, context))
<1>1. Sound(b, Evaluate(b, context))
  BY EvaluateSound
<1>2. Sound(c, Evaluate(b, context))
  BY <1>1, SoundFrom
<1>3. Evaluate(b, context).samples = b.samples
  BY EvaluateKeeps
<1> QED
  BY <1>2, <1>3 DEF SafeStep

(* Losing the readings leaves a controller whose fan and clock are kept.   *)
LEMMA DistrustedType ==
  ASSUME NEW c \in Controllers, NEW quality \in Qualities
  PROVE  LET bad == Distrusted(c, quality)
         IN  /\ bad \in Controllers
             /\ bad.fan = c.fan /\ bad.age = c.age /\ bad.armed = c.armed
             /\ Len(bad.samples) <= ControlSamples
<1>1. <<>> \in Seq(Temps) /\ Len(<<>>) <= ControlSamples
  BY ConstantTypes, EmptySeq
<1>2. 0 \in 0..RecoverSamples
  BY ConstantTypes
<1>3. Distrusted(c, quality) \in Controllers
  BY <1>1, <1>2 DEF Controllers, Distrusted
<1> QED
  BY <1>1, <1>3 DEF Controllers, Distrusted

LEMMA ObserveSafe ==
  ASSUME NEW c, SafeState(c), NEW r \in Readings
  PROVE  SafeStep(c, Observe(c, r))
<1> DEFINE streak == IF c.streak < RecoverSamples THEN c.streak + 1 ELSE c.streak
           valid == [c EXCEPT
                       !.samples = LastOf(Append(@, r.temp), ControlSamples),
                       !.streak = streak,
                       !.quality = IF streak < RecoverSamples THEN "starting"
                                                              ELSE "ready"]
           bad == Distrusted(c, r.quality)
<1>1. c \in Controllers /\ (c.armed => c.fan = "on")
  BY DEF SafeState, SafeController
<1>2. CASE r.quality = "ready"
  <2>1. r.temp \in Temps
    BY <1>2 DEF Readings, BadQualities
  <2>2. Append(c.samples, r.temp) \in Seq(Temps)
    BY <1>1, <2>1, AppendProperties DEF Controllers
  <2>3. /\ LastOf(Append(c.samples, r.temp), ControlSamples) \in Seq(Temps)
        /\ Len(LastOf(Append(c.samples, r.temp), ControlSamples))
             <= ControlSamples
    BY <2>2, LastOfType, ConstantTypes
  <2>4. streak \in 0..RecoverSamples
    BY <1>1, ConstantTypes DEF Controllers
  <2>5. valid \in Controllers
    BY <1>1, <2>3, <2>4 DEF Controllers, Qualities
  <2>6. /\ valid.fan = c.fan /\ valid.age = c.age
        /\ valid.armed = c.armed
        /\ valid.samples = LastOf(Append(c.samples, r.temp), ControlSamples)
    BY <1>1 DEF Controllers
  <2>7. Observe(c, r) = Evaluate(valid, "sensor")
    BY <1>2 DEF Observe
  <2> HIDE DEF valid
  <2> QED
    BY <1>1, <2>3, <2>5, <2>6, <2>7, ReevaluateSafe
<1>3. CASE r.quality # "ready"
  <2>1. r.quality \in Qualities
    BY DEF Readings, Qualities
  <2>2. /\ bad \in Controllers
        /\ bad.fan = c.fan /\ bad.age = c.age /\ bad.armed = c.armed
        /\ Len(bad.samples) <= ControlSamples
    BY <1>1, <2>1, DistrustedType
  <2>3. Observe(c, r) = Evaluate(bad, "sensor")
    BY <1>3 DEF Observe
  <2> QED
    BY <1>1, <2>2, <2>3, ReevaluateSafe
<1> QED
  BY <1>2, <1>3

LEMMA RecheckSafe ==
  ASSUME NEW c, SafeState(c), NEW lastIsStale \in BOOLEAN
  PROVE  SafeStep(c, Recheck(c, lastIsStale))
<1> DEFINE stale == lastIsStale /\ c.streak > 0
           bad == Distrusted(c, "stale")
<1>1. c \in Controllers /\ (c.armed => c.fan = "on")
  BY DEF SafeState, SafeController
<1>2. CASE stale
  <2>1. "stale" \in Qualities
    BY DEF Qualities, BadQualities
  <2>2. /\ bad \in Controllers
        /\ bad.fan = c.fan /\ bad.age = c.age /\ bad.armed = c.armed
        /\ Len(bad.samples) <= ControlSamples
    BY <1>1, <2>1, DistrustedType
  <2>3. Recheck(c, lastIsStale) = Evaluate(bad, "tick")
    BY <1>2 DEF Recheck
  <2> QED
    BY <1>1, <2>2, <2>3, ReevaluateSafe
<1>3. CASE ~stale
  <2>1. Recheck(c, lastIsStale) = Evaluate(c, "tick")
    BY <1>3 DEF Recheck
  <2> QED
    BY <1>1, <2>1, ReevaluateSafe DEF SafeState
<1> QED
  BY <1>2, <1>3

(* A command is a safe step, also when it changed the policy first.        *)
LEMMA CommandSafe ==
  ASSUME NEW c, SafeState(c), NEW b \in Controllers,
         b.fan = c.fan, b.age = c.age, b.samples = c.samples,
         NEW power \in Powers, NEW armed \in BOOLEAN,
         NEW reason \in Reasons \ ThermostatReasons,
         armed => power = "on",
         b.policy.mode = "disabled" => power = "off",
         b.policy.mode = "auto" => power = "off",
         b.policy.mode = "semi" /\ power = "on"
           => armed /\ reason \in {"SEMI_USER_START", "TIMER_ON"}
  PROVE  SafeStep(c, Transition(b, power, armed, reason))
<1>1. Sound(b, Transition(b, power, armed, reason))
  BY CommandSound
<1>2. Sound(c, Transition(b, power, armed, reason))
  BY <1>1, SoundFrom DEF SafeState
<1>3. IsTransition(b, Transition(b, power, armed, reason),
                   power, armed, reason)
  BY TransitionType
<1>4. Len(Transition(b, power, armed, reason).samples) <= ControlSamples
  BY <1>3 DEF IsTransition, SafeState
<1> QED
  BY <1>2, <1>4 DEF SafeStep

LEMMA SafeOffSafe ==
  ASSUME NEW c, SafeState(c), NEW reason \in Reasons \ ThermostatReasons
  PROVE  SafeStep(c, Transition(c, "off", FALSE, reason))
<1>1. c \in Controllers /\ "off" \in Powers
  BY DEF SafeState, Powers
<1> QED
  BY <1>1, CommandSafe

(* Changing the mode of a policy keeps it valid.                           *)
LEMMA WithModeType ==
  ASSUME NEW p \in Policies, NEW mode \in Modes
  PROVE  WithMode(p, mode) \in Policies /\ WithMode(p, mode).mode = mode
<1> DEFINE q == WithMode(p, mode)
           Shape == [gen : Nat, mode : Modes, start : Int, stop : Int,
                     minOn : Nat, minOff : Nat]
<1>1. p \in Shape /\ ValidPolicy(p)
  BY DEF Policies
<1>2. q \in Shape
  <2>1. p.gen \in Nat /\ p.gen + 1 \in Nat
    BY <1>1
  <2>2. q = [[p EXCEPT !.mode = mode] EXCEPT !.gen = p.gen + 1]
    BY <1>1 DEF WithMode
  <2> QED
    BY <1>1, <2>1, <2>2
<1>3. q.mode = mode
  BY <1>1 DEF WithMode
<1>4. q.gen = p.gen + 1
  BY <1>1 DEF WithMode
<1>5. q.start = p.start /\ q.stop = p.stop
  BY <1>1 DEF WithMode
<1>6. q.minOn = p.minOn /\ q.minOff = p.minOff
  BY <1>1 DEF WithMode
<1>7. ValidPolicy(q)
  <2>1. q.gen >= 1
    BY <1>1, <1>4 DEF ValidPolicy
  <2> QED
    BY <1>1, <1>5, <1>6, <2>1 DEF ValidPolicy
<1> QED
  BY <1>2, <1>3, <1>7 DEF Policies

LEMMA SetFanPowerSafe ==
  ASSUME NEW c, SafeState(c), NEW power \in Powers, ~Rejects(c, power)
  PROVE  /\ SafeStep(c, SetFanPower(c, power))
         /\ SetFanPower(c, power).fan = power
         /\ SetFanPower(c, power).policy.mode = "semi" /\ power = "on"
              => SetFanPower(c, power).armed
<1> DEFINE b == [c EXCEPT !.policy = WithMode(@, "manual")]
<1>1. c \in Controllers /\ c.policy \in Policies /\ c.policy.mode \in Modes
  BY DEF SafeState, Controllers, Policies
<1>2. /\ UserReason(power) \in Reasons \ ThermostatReasons
      /\ "DISABLED_SAFE_OFF" \in Reasons \ ThermostatReasons
      /\ "SEMI_USER_START" \in Reasons \ ThermostatReasons
  BY DEF UserReason, Reasons, ThermostatReasons
<1>3. ASSUME NEW d \in Controllers, NEW armed \in BOOLEAN, NEW reason \in Reasons
      PROVE  IsTransition(d, Transition(d, power, armed, reason),
                          power, armed, reason)
  BY TransitionType
<1>4. CASE c.policy.mode = "disabled"
  <2>1. power = "off"
    BY <1>4 DEF Rejects, Powers
  <2>2. SetFanPower(c, power) = Transition(c, "off", FALSE, "DISABLED_SAFE_OFF")
    BY <1>4 DEF SetFanPower
  <2>3. SafeStep(c, Transition(c, "off", FALSE, "DISABLED_SAFE_OFF"))
    BY <1>2, SafeOffSafe
  <2>4. IsTransition(c, Transition(c, "off", FALSE, "DISABLED_SAFE_OFF"),
                     "off", FALSE, "DISABLED_SAFE_OFF")
    BY <1>1, <1>2, <1>3, <2>1
  <2> QED
    BY <2>1, <2>2, <2>3, <2>4 DEF IsTransition
<1>5. CASE c.policy.mode = "auto"
  <2>1. WithMode(c.policy, "manual") \in Policies
        /\ WithMode(c.policy, "manual").mode = "manual"
    BY <1>1, WithModeType DEF Modes
  <2>2. b \in Controllers /\ b.policy = WithMode(c.policy, "manual")
        /\ b.fan = c.fan /\ b.age = c.age /\ b.samples = c.samples
    BY <1>1, <2>1 DEF Controllers
  <2>3. SetFanPower(c, power) = Transition(b, power, FALSE, UserReason(power))
    BY <1>5 DEF SetFanPower
  <2> HIDE DEF b
  <2>4. SafeStep(c, Transition(b, power, FALSE, UserReason(power)))
    BY <1>2, <2>1, <2>2, CommandSafe
  <2>5. IsTransition(b, Transition(b, power, FALSE, UserReason(power)),
                     power, FALSE, UserReason(power))
    BY <1>2, <1>3, <2>2
  <2> QED
    BY <2>1, <2>2, <2>3, <2>4, <2>5 DEF IsTransition
<1>6. CASE c.policy.mode = "semi" /\ power = "on"
  <2>1. SetFanPower(c, power) = Transition(c, power, TRUE, "SEMI_USER_START")
    BY <1>6 DEF SetFanPower
  <2>2. SafeStep(c, Transition(c, power, TRUE, "SEMI_USER_START"))
    BY <1>1, <1>2, <1>6, CommandSafe
  <2>3. IsTransition(c, Transition(c, power, TRUE, "SEMI_USER_START"),
                     power, TRUE, "SEMI_USER_START")
    BY <1>1, <1>2, <1>3
  <2> QED
    BY <1>6, <2>1, <2>2, <2>3 DEF IsTransition
<1>7. CASE /\ c.policy.mode \notin {"disabled", "auto"}
           /\ ~(c.policy.mode = "semi" /\ power = "on")
  <2>1. SetFanPower(c, power) = Transition(c, power, FALSE, UserReason(power))
    BY <1>7 DEF SetFanPower
  <2>2. SafeStep(c, Transition(c, power, FALSE, UserReason(power)))
    BY <1>1, <1>2, <1>7, CommandSafe
  <2>3. IsTransition(c, Transition(c, power, FALSE, UserReason(power)),
                     power, FALSE, UserReason(power))
    BY <1>1, <1>2, <1>3
  <2> QED
    BY <1>7, <2>1, <2>2, <2>3 DEF IsTransition
<1> QED
  BY <1>4, <1>5, <1>6, <1>7

LEMMA ScheduledFanPowerSafe ==
  ASSUME NEW c, SafeState(c), NEW power \in Powers, ~Rejects(c, power),
         NEW expired \in BOOLEAN, expired => power = "off"
  PROVE  SafeStep(c, ScheduledFanPower(c, power, expired))
<1> DEFINE d == SetFanPower(c, power)
           why == IF expired THEN "TIMER_EXPIRED_SAFE_OFF"
                  ELSE IF power = "on" THEN "TIMER_ON" ELSE "TIMER_OFF"
           e == [d EXCEPT !.reason = why]
<1>1. /\ SafeStep(c, d) /\ d.fan = power
      /\ d.policy.mode = "semi" /\ power = "on" => d.armed
  BY SetFanPowerSafe
<1>2. CASE d.fan = c.fan
  BY <1>1, <1>2 DEF ScheduledFanPower
<1>3. CASE d.fan # c.fan
  <2>1. ScheduledFanPower(c, power, expired) = e
    BY <1>3 DEF ScheduledFanPower
  <2>2. d \in Controllers /\ SafeController(d)
        /\ d.age \in {0, c.age} /\ d.age = 0 /\ Len(d.samples) <= ControlSamples
    BY <1>1, <1>3 DEF SafeStep, Sound
  <2>3. why \in Reasons \ ThermostatReasons /\ (power = "on" => why = "TIMER_ON")
    BY DEF Reasons, ThermostatReasons
  <2> HIDE DEF d, why
  <2>4. e \in Controllers /\ e.reason = why /\ e.fan = d.fan /\ e.age = d.age
    BY <2>2, <2>3 DEF Controllers
  <2>5. e.policy = d.policy /\ e.quality = d.quality
        /\ (e.armed <=> d.armed) /\ e.samples = d.samples
    BY <2>2, <2>3 DEF Controllers
  <2>6. SafeController(e)
    BY <2>2, <2>4, <2>5 DEF SafeController
  <2> HIDE DEF e
  <2>7. RespectsDwell(c, e)
    BY <2>3, <2>4 DEF RespectsDwell
  <2>8. SemiIsCommanded(c, e)
    BY <1>1, <2>3, <2>4, <2>5 DEF SemiIsCommanded
  <2>9. SafeStep(c, e)
    BY <2>2, <2>4, <2>5, <2>6, <2>7, <2>8 DEF SafeStep, Sound
  <2> QED
    BY <2>1, <2>9
<1> QED
  BY <1>2, <1>3

LEMMA UpdatePolicySafe ==
  ASSUME NEW c, SafeState(c), NEW p \in Policies
  PROVE  SafeStep(c, UpdatePolicy(c, p))
<1> DEFINE d == [c EXCEPT !.policy = p]
           e == [d EXCEPT !.armed = FALSE]
<1>1. c \in Controllers /\ (c.armed => c.fan = "on")
      /\ Len(c.samples) <= ControlSamples
  BY DEF SafeState, SafeController
<1>2. /\ d \in Controllers /\ d.policy = p /\ d.fan = c.fan /\ d.age = c.age
      /\ d.samples = c.samples /\ (d.armed <=> c.armed)
  BY <1>1 DEF Controllers
<1>3. CASE p.mode = "disabled"
  <2>1. UpdatePolicy(c, p) = Transition(d, "off", FALSE, "DISABLED_SAFE_OFF")
    BY <1>3 DEF UpdatePolicy
  <2>2. /\ "DISABLED_SAFE_OFF" \in Reasons \ ThermostatReasons
        /\ "off" \in Powers
    BY DEF Reasons, ThermostatReasons, Powers
  <2> HIDE DEF d
  <2> QED
    BY <1>2, <2>1, <2>2, CommandSafe
<1>4. CASE p.mode = "semi" /\ c.fan = "off"
  <2>1. UpdatePolicy(c, p) = Evaluate(e, "policy_update")
    BY <1>4 DEF UpdatePolicy
  <2>2. /\ e \in Controllers /\ e.fan = c.fan /\ e.age = c.age /\ ~e.armed
        /\ e.samples = c.samples
    <3> HIDE DEF d
    <3> QED
      BY <1>2 DEF Controllers
  <2> HIDE DEF e
  <2> QED
    BY <1>1, <2>1, <2>2, ReevaluateSafe
<1>5. CASE p.mode # "disabled" /\ ~(p.mode = "semi" /\ c.fan = "off")
  <2>1. UpdatePolicy(c, p) = Evaluate(d, "policy_update")
    BY <1>5 DEF UpdatePolicy
  <2> HIDE DEF d
  <2> QED
    BY <1>1, <1>2, <2>1, ReevaluateSafe
<1> QED
  BY <1>3, <1>4, <1>5

(* Time only moves the controller's clock, by at most one and never past   *)
(* the longest dwell.                                                      *)
LEMMA AgedSafe ==
  ASSUME NEW c, SafeState(c)
  PROVE  /\ SafeState(Aged(c))
         /\ Aged(c).fan = c.fan
         /\ Aged(c).age = IF c.age < MaxDwell THEN c.age + 1 ELSE c.age
<1> DEFINE d == Aged(c)
           age == IF c.age < MaxDwell THEN c.age + 1 ELSE c.age
<1>1. c \in Controllers /\ c.age \in 0..MaxDwell
  BY DEF SafeState, Controllers
<1>2. age \in 0..MaxDwell
  BY <1>1, ConstantTypes
<1>3. d = [c EXCEPT !.age = age]
  BY <1>1 DEF Aged
<1> HIDE DEF d, age
<1>4. d \in Controllers
  BY <1>1, <1>2, <1>3 DEF Controllers
<1>5. d.fan = c.fan /\ d.age = age /\ (d.armed <=> c.armed)
  BY <1>1, <1>3 DEF Controllers
<1>6. d.policy = c.policy /\ d.quality = c.quality /\ d.samples = c.samples
  BY <1>1, <1>3 DEF Controllers
<1>7. SafeController(d) /\ Len(d.samples) <= ControlSamples
  BY <1>5, <1>6 DEF SafeState, SafeController
<1> QED
  BY <1>4, <1>5, <1>7 DEF SafeState, d, age

-----------------------------------------------------------------------------
(* What the calls do to the policy, and whose reasons they give.           *)

Untimed(c, d) == d.fan # c.fan => d.reason \notin TimerReasons

LEMMA ObserveKeeps ==
  ASSUME NEW c, SafeState(c), NEW r \in Readings
  PROVE  Observe(c, r).policy = c.policy /\ Untimed(c, Observe(c, r))
<1> DEFINE streak == IF c.streak < RecoverSamples THEN c.streak + 1 ELSE c.streak
           valid == [c EXCEPT
                       !.samples = LastOf(Append(@, r.temp), ControlSamples),
                       !.streak = streak,
                       !.quality = IF streak < RecoverSamples THEN "starting"
                                                              ELSE "ready"]
           bad == Distrusted(c, r.quality)
<1>1. c \in Controllers
  BY DEF SafeState
<1>2. CASE r.quality = "ready"
  <2>1. r.temp \in Temps
    BY <1>2 DEF Readings, BadQualities
  <2>2. Append(c.samples, r.temp) \in Seq(Temps)
    BY <1>1, <2>1, AppendProperties DEF Controllers
  <2>3. LastOf(Append(c.samples, r.temp), ControlSamples) \in Seq(Temps)
    BY <2>2, LastOfType, ConstantTypes
  <2>4. streak \in 0..RecoverSamples
    BY <1>1, ConstantTypes DEF Controllers
  <2>5. valid \in Controllers /\ valid.policy = c.policy /\ valid.fan = c.fan
    BY <1>1, <2>3, <2>4 DEF Controllers, Qualities
  <2>6. Observe(c, r) = Evaluate(valid, "sensor")
    BY <1>2 DEF Observe
  <2> HIDE DEF valid
  <2> QED
    BY <2>5, <2>6, EvaluateKeeps DEF Untimed
<1>3. CASE r.quality # "ready"
  <2>1. r.quality \in Qualities
    BY DEF Readings, Qualities
  <2>2. bad \in Controllers /\ bad.fan = c.fan
    BY <1>1, <2>1, DistrustedType
  <2>3. bad.policy = c.policy
    BY <1>1 DEF Distrusted, Controllers
  <2>4. Observe(c, r) = Evaluate(bad, "sensor")
    BY <1>3 DEF Observe
  <2> QED
    BY <2>2, <2>3, <2>4, EvaluateKeeps DEF Untimed
<1> QED
  BY <1>2, <1>3

LEMMA UpdatePolicyMakes ==
  ASSUME NEW c, SafeState(c), NEW p \in Policies
  PROVE  UpdatePolicy(c, p).policy = p /\ Untimed(c, UpdatePolicy(c, p))
<1> DEFINE d == [c EXCEPT !.policy = p]
           e == [d EXCEPT !.armed = FALSE]
<1>1. c \in Controllers
  BY DEF SafeState
<1>2. d \in Controllers /\ d.policy = p /\ d.fan = c.fan
  BY <1>1 DEF Controllers
<1>3. e \in Controllers /\ e.policy = p /\ e.fan = c.fan
  <2> HIDE DEF d
  <2> QED
    BY <1>2 DEF Controllers
<1> HIDE DEF d, e
<1>4. CASE p.mode = "disabled"
  <2>1. UpdatePolicy(c, p) = Transition(d, "off", FALSE, "DISABLED_SAFE_OFF")
    BY <1>4 DEF UpdatePolicy, d
  <2>2. IsTransition(d, Transition(d, "off", FALSE, "DISABLED_SAFE_OFF"),
                     "off", FALSE, "DISABLED_SAFE_OFF")
    BY <1>2, TransitionType DEF Powers, Reasons
  <2> QED
    BY <1>2, <2>1, <2>2 DEF IsTransition, Untimed, TimerReasons
<1>5. CASE p.mode = "semi" /\ c.fan = "off"
  <2>1. UpdatePolicy(c, p) = Evaluate(e, "policy_update")
    BY <1>5 DEF UpdatePolicy, d, e
  <2> QED
    BY <1>3, <2>1, EvaluateKeeps DEF Untimed
<1>6. CASE p.mode # "disabled" /\ ~(p.mode = "semi" /\ c.fan = "off")
  <2>1. UpdatePolicy(c, p) = Evaluate(d, "policy_update")
    BY <1>6 DEF UpdatePolicy, d
  <2> QED
    BY <1>2, <2>1, EvaluateKeeps DEF Untimed
<1> QED
  BY <1>4, <1>5, <1>6

LEMMA SetModeMakes ==
  ASSUME NEW c, SafeState(c), NEW mode \in Modes
  PROVE  /\ SafeStep(c, SetMode(c, mode)) /\ Untimed(c, SetMode(c, mode))
         /\ SetMode(c, mode).policy.mode = mode
<1>1. c.policy \in Policies
  BY DEF SafeState, Controllers
<1>2. WithMode(c.policy, mode) \in Policies /\ WithMode(c.policy, mode).mode = mode
  BY <1>1, WithModeType
<1> QED
  BY <1>2, UpdatePolicySafe, UpdatePolicyMakes DEF SetMode

(* A command to the fan keeps the dwells; AUTOMATIC becomes MANUAL.        *)
KeepsDwell(p, q) == q.minOn = p.minOn /\ q.minOff = p.minOff

LEMMA SetFanPowerKeeps ==
  ASSUME NEW c, SafeState(c), NEW power \in Powers, ~Rejects(c, power)
  PROVE  /\ KeepsDwell(c.policy, SetFanPower(c, power).policy)
         /\ SetFanPower(c, power).policy.mode = "disabled"
              <=> c.policy.mode = "disabled"
         /\ SetFanPower(c, power).reason \notin TimerReasons
<1> DEFINE b == [c EXCEPT !.policy = WithMode(@, "manual")]
<1>1. c \in Controllers /\ c.policy \in Policies /\ c.policy.mode \in Modes
  BY DEF SafeState, Controllers, Policies
<1>2. /\ {UserReason(power), "DISABLED_SAFE_OFF", "SEMI_USER_START"}
           \subseteq Reasons \ TimerReasons
      /\ "off" \in Powers
  BY DEF UserReason, Reasons, TimerReasons, Powers
<1>3. ASSUME NEW d \in Controllers, NEW to \in Powers, NEW armed \in BOOLEAN,
             NEW reason \in Reasons
      PROVE  /\ Transition(d, to, armed, reason).policy = d.policy
             /\ Transition(d, to, armed, reason).reason = reason
  BY TransitionType DEF IsTransition
<1>4. CASE c.policy.mode = "auto"
  <2>1. WithMode(c.policy, "manual") \in Policies
        /\ WithMode(c.policy, "manual").mode = "manual"
    BY <1>1, WithModeType DEF Modes
  <2>2. KeepsDwell(c.policy, WithMode(c.policy, "manual"))
    BY <1>1 DEF WithMode, KeepsDwell, Policies
  <2>3. b \in Controllers /\ b.policy = WithMode(c.policy, "manual")
    BY <1>1, <2>1 DEF Controllers
  <2>4. SetFanPower(c, power) = Transition(b, power, FALSE, UserReason(power))
    BY <1>4 DEF SetFanPower
  <2> HIDE DEF b
  <2>5. UserReason(power) \in Reasons \ TimerReasons
    BY <1>2
  <2>6. /\ SetFanPower(c, power).policy = WithMode(c.policy, "manual")
        /\ SetFanPower(c, power).reason = UserReason(power)
    <3>1. UserReason(power) \in Reasons /\ FALSE \in BOOLEAN
      BY <2>5
    <3>2. /\ Transition(b, power, FALSE, UserReason(power)).policy = b.policy
          /\ Transition(b, power, FALSE, UserReason(power)).reason
               = UserReason(power)
      BY <1>3, <2>3, <3>1
    <3> QED
      BY <2>3, <2>4, <3>2
  <2>7. WithMode(c.policy, "manual").mode # "disabled"
        /\ c.policy.mode # "disabled"
    BY <1>4, <2>1
  <2> QED
    BY <2>2, <2>5, <2>6, <2>7
<1>5. CASE c.policy.mode # "auto"
  <2>1. \E to \in Powers, armed \in BOOLEAN, reason \in Reasons \ TimerReasons :
          SetFanPower(c, power) = Transition(c, to, armed, reason)
    BY <1>2, <1>5 DEF SetFanPower
  <2> QED
    BY <1>1, <1>3, <2>1 DEF KeepsDwell
<1> QED
  BY <1>4, <1>5

LEMMA ScheduledFanPowerKeeps ==
  ASSUME NEW c, SafeState(c), NEW power \in Powers, ~Rejects(c, power),
         NEW expired \in BOOLEAN
  PROVE  LET d == ScheduledFanPower(c, power, expired)
         IN  /\ d.fan = power
             /\ KeepsDwell(c.policy, d.policy)
             /\ d.policy.mode = "disabled" <=> c.policy.mode = "disabled"
             /\ d.fan # c.fan /\ expired => d.reason \notin TimerReasons
<1> DEFINE d == SetFanPower(c, power)
           why == IF expired THEN "TIMER_EXPIRED_SAFE_OFF"
                  ELSE IF power = "on" THEN "TIMER_ON" ELSE "TIMER_OFF"
           e == [d EXCEPT !.reason = why]
<1>1. /\ d \in Controllers /\ d.fan = power /\ KeepsDwell(c.policy, d.policy)
      /\ d.policy.mode = "disabled" <=> c.policy.mode = "disabled"
  BY SetFanPowerSafe, SetFanPowerKeeps DEF SafeStep, Sound
<1>2. e.fan = d.fan /\ e.policy = d.policy /\ e.reason = why
  <2> HIDE DEF d, why
  <2> QED
    BY <1>1 DEF Controllers
<1>3. ScheduledFanPower(c, power, expired) = IF d.fan = c.fan THEN d ELSE e
  BY DEF ScheduledFanPower
<1>4. expired => why \notin TimerReasons
  BY DEF TimerReasons
<1> HIDE DEF d, e, why
<1> QED
  BY <1>1, <1>2, <1>3, <1>4

-----------------------------------------------------------------------------
(* What the calls do to the readings and to the trust in them.             *)
SameReadings(c, d) ==
  d.samples = c.samples /\ d.streak = c.streak /\ d.quality = c.quality

LEMMA TransitionReadings ==
  ASSUME NEW c \in Controllers, NEW power, NEW armed \in BOOLEAN, NEW reason
  PROVE  SameReadings(c, Transition(c, power, armed, reason))
BY DEF SameReadings, Transition, Controllers

LEMMA EvaluateReadings ==
  ASSUME NEW c \in Controllers, NEW context
  PROVE  SameReadings(c, Evaluate(c, context))
<1>1. SameReadings(c, c)
  BY DEF SameReadings
<1>2. FALSE \in BOOLEAN
  OBVIOUS
<1> QED
  BY <1>1, <1>2, EvaluateCases, TransitionReadings

LEMMA SetFanPowerReadings ==
  ASSUME NEW c \in Controllers, NEW power
  PROVE  SameReadings(c, SetFanPower(c, power))
<1> DEFINE b == [c EXCEPT !.policy = WithMode(@, "manual")]
<1>1. b \in Controllers /\ SameReadings(c, b)
  BY WithModeType DEF Controllers, SameReadings, Modes
<1>2. \/ \E to, reason : \E armed \in BOOLEAN :
           SetFanPower(c, power) = Transition(c, to, armed, reason)
      \/ SetFanPower(c, power) = Transition(b, power, FALSE, UserReason(power))
  BY DEF SetFanPower
<1> HIDE DEF b
<1>3. SameReadings(b, Transition(b, power, FALSE, UserReason(power)))
  BY <1>1, TransitionReadings
<1>4. CASE SetFanPower(c, power) = Transition(b, power, FALSE, UserReason(power))
  BY <1>1, <1>3, <1>4 DEF SameReadings
<1>5. CASE \E to, reason : \E armed \in BOOLEAN :
             SetFanPower(c, power) = Transition(c, to, armed, reason)
  BY <1>5, TransitionReadings
<1> QED
  BY <1>2, <1>4, <1>5

LEMMA ScheduledFanPowerReadings ==
  ASSUME NEW c, SafeState(c), NEW power \in Powers, ~Rejects(c, power),
         NEW expired \in BOOLEAN
  PROVE  SameReadings(c, ScheduledFanPower(c, power, expired))
<1> DEFINE d == SetFanPower(c, power)
           why == IF expired THEN "TIMER_EXPIRED_SAFE_OFF"
                  ELSE IF power = "on" THEN "TIMER_ON" ELSE "TIMER_OFF"
           e == [d EXCEPT !.reason = why]
<1>1. d \in Controllers /\ SameReadings(c, d)
  BY SetFanPowerSafe, SetFanPowerReadings DEF SafeStep, Sound, SafeState
<1>2. ScheduledFanPower(c, power, expired) \in {d, e}
  BY DEF ScheduledFanPower
<1> HIDE DEF d, why
<1>3. SameReadings(c, e)
  BY <1>1 DEF SameReadings, Controllers
<1> QED
  BY <1>1, <1>2, <1>3

LEMMA UpdatePolicyReadings ==
  ASSUME NEW c \in Controllers, NEW p \in Policies
  PROVE  SameReadings(c, UpdatePolicy(c, p))
<1> DEFINE d == [c EXCEPT !.policy = p]
           e == [d EXCEPT !.armed = FALSE]
<1>1. d \in Controllers /\ SameReadings(c, d)
  BY DEF Controllers, SameReadings
<1>2. e \in Controllers /\ SameReadings(c, e)
  <2> HIDE DEF d
  <2> QED
    BY <1>1 DEF Controllers, SameReadings
<1>3. \/ UpdatePolicy(c, p) = Transition(d, "off", FALSE, "DISABLED_SAFE_OFF")
      \/ UpdatePolicy(c, p) = Evaluate(d, "policy_update")
      \/ UpdatePolicy(c, p) = Evaluate(e, "policy_update")
  BY DEF UpdatePolicy
<1> HIDE DEF d, e
<1>4. /\ SameReadings(d, Transition(d, "off", FALSE, "DISABLED_SAFE_OFF"))
      /\ SameReadings(d, Evaluate(d, "policy_update"))
      /\ SameReadings(e, Evaluate(e, "policy_update"))
  BY <1>1, <1>2, TransitionReadings, EvaluateReadings
<1> QED
  BY <1>1, <1>2, <1>3, <1>4 DEF SameReadings

(* A reading counts for the trust or breaks it; the rest of the calls      *)
(* leave it alone, but for a tick that finds the last reading stale.       *)
LEMMA ObserveReadings ==
  ASSUME NEW c \in Controllers, NEW r \in Readings
  PROVE  LET d == Observe(c, r)
         IN  IF r.quality = "ready"
             THEN /\ d.samples = LastOf(Append(c.samples, r.temp), ControlSamples)
                  /\ d.streak = IF c.streak < RecoverSamples THEN c.streak + 1
                                                            ELSE c.streak
                  /\ d.quality = "ready" => d.streak = RecoverSamples
             ELSE d.samples = <<>> /\ d.streak = 0 /\ d.quality # "ready"
<1> DEFINE streak == IF c.streak < RecoverSamples THEN c.streak + 1 ELSE c.streak
           samples == LastOf(Append(c.samples, r.temp), ControlSamples)
           quality == IF streak < RecoverSamples THEN "starting" ELSE "ready"
           valid == [c EXCEPT !.samples = samples, !.streak = streak,
                              !.quality = quality]
           bad == Distrusted(c, r.quality)
<1>1. CASE r.quality = "ready"
  <2>1. r.temp \in Temps
    BY <1>1 DEF Readings, BadQualities
  <2>2. samples \in Seq(Temps)
    BY <2>1, LastOfType, ConstantTypes, AppendProperties DEF Controllers
  <2>3. streak \in 0..RecoverSamples /\ (quality = "ready" => streak = RecoverSamples)
        /\ quality \in Qualities
    BY ConstantTypes DEF Controllers, Qualities
  <2> HIDE DEF samples, streak, quality
  <2>4. valid \in Controllers
    BY <2>2, <2>3 DEF Controllers
  <2>5. /\ valid.samples = samples /\ valid.streak = streak
        /\ valid.quality = quality
    BY DEF Controllers
  <2>6. Observe(c, r) = Evaluate(valid, "sensor")
    BY <1>1 DEF Observe, samples, streak, quality
  <2> HIDE DEF valid
  <2>7. SameReadings(valid, Observe(c, r))
    BY <2>4, <2>6, EvaluateReadings
  <2> QED
    BY <1>1, <2>3, <2>5, <2>7 DEF SameReadings, samples, streak
<1>2. CASE r.quality # "ready"
  <2>1. r.quality \in Qualities
    BY DEF Readings, Qualities
  <2>2. bad \in Controllers
    BY <2>1, DistrustedType
  <2>3. bad.samples = <<>> /\ bad.streak = 0 /\ bad.quality = r.quality
    BY DEF Distrusted, Controllers
  <2>4. Observe(c, r) = Evaluate(bad, "sensor")
    BY <1>2 DEF Observe
  <2>5. SameReadings(bad, Observe(c, r))
    BY <2>2, <2>4, EvaluateReadings
  <2> QED
    BY <1>2, <2>3, <2>5 DEF SameReadings
<1> QED
  BY <1>1, <1>2

LEMMA RecheckReadings ==
  ASSUME NEW c \in Controllers, NEW lastIsStale
  PROVE  LET d == Recheck(c, lastIsStale)
         IN  \/ SameReadings(c, d)
             \/ d.samples = <<>> /\ d.streak = 0 /\ d.quality # "ready"
<1> DEFINE bad == Distrusted(c, "stale")
<1>1. bad \in Controllers
  BY DistrustedType DEF Qualities, BadQualities
<1>2. bad.samples = <<>> /\ bad.streak = 0 /\ bad.quality = "stale"
  BY DEF Distrusted, Controllers
<1>3. \/ Recheck(c, lastIsStale) = Evaluate(bad, "tick")
      \/ Recheck(c, lastIsStale) = Evaluate(c, "tick")
  BY DEF Recheck
<1> HIDE DEF bad
<1> QED
  BY <1>1, <1>2, <1>3, EvaluateReadings DEF SameReadings

-----------------------------------------------------------------------------
(* Windows of readings, counted from the last one backwards.               *)
IsPushed(t, s, x, n) ==
  /\ Len(t) = IF Len(s) + 1 > n THEN n ELSE Len(s) + 1
  /\ Len(t) \in Nat
  /\ t[Len(t)] = x
  /\ \A k \in 1..(Len(t) - 1) : t[Len(t) - k] = s[Len(s) - (k - 1)]

LEMMA Pushed ==
  ASSUME NEW S, NEW s \in Seq(S), NEW x \in S, NEW n \in Nat \ {0}
  PROVE  IsPushed(LastOf(Append(s, x), n), s, x, n)
<1> DEFINE t == LastOf(Append(s, x), n)
           a == Append(s, x)
           m == IF Len(a) > n THEN Len(a) - n + 1 ELSE 1
           u == SubSeq(a, m, Len(a))
<1>1. /\ a \in Seq(S) /\ Len(a) = Len(s) + 1 /\ a[Len(s) + 1] = x
      /\ \A i \in 1..Len(s) : a[i] = s[i]
  BY AppendProperties
<1>2. Len(s) \in Nat /\ Len(a) \in Nat
  BY <1>1, LenProperties
<1> HIDE DEF a
<1>3. m \in 1..Len(a)
  BY <1>1, <1>2
<1>4. \A i \in m..Len(a) : a[i] \in S
  BY <1>1, <1>2, <1>3, ElementOfSeq
<1>5. Len(a) - m + 1 = IF Len(s) + 1 > n THEN n ELSE Len(s) + 1
  BY <1>1, <1>2
<1> HIDE DEF m
<1>6. t = u
  BY DEF LastOf, m, a
<1> HIDE DEF t
<1>7. /\ t \in Seq(S) /\ Len(t) = Len(a) - m + 1
      /\ \A i \in 1..(Len(a) - m + 1) : t[i] = a[m + i - 1]
  BY <1>2, <1>3, <1>4, <1>6, SubSeqProperties
<1> HIDE DEF u
<1>8. Len(t) \in Nat
  BY <1>7, LenProperties
<1>9. \A k \in 0..(Len(t) - 1) : t[Len(t) - k] = a[Len(a) - k]
  <2> SUFFICES ASSUME NEW k \in 0..(Len(t) - 1)
               PROVE  t[Len(t) - k] = a[Len(a) - k]
    OBVIOUS
  <2>1. Len(t) - k \in 1..(Len(a) - m + 1)
    BY <1>7, <1>8
  <2>2. m + (Len(t) - k) - 1 = Len(a) - k
    BY <1>2, <1>3, <1>7, <1>8
  <2> QED
    BY <1>7, <2>1, <2>2
<1>10. Len(t) >= 1
  BY <1>2, <1>3, <1>7
<1>11. t[Len(t)] = x
  BY <1>1, <1>2, <1>8, <1>9, <1>10
<1>12. ASSUME NEW k \in 1..(Len(t) - 1)
       PROVE  t[Len(t) - k] = s[Len(s) - (k - 1)]
  <2>1. t[Len(t) - k] = a[Len(a) - k]
    BY <1>8, <1>9
  <2>2. Len(a) - k = Len(s) - (k - 1) /\ Len(s) - (k - 1) \in 1..Len(s)
    BY <1>1, <1>2, <1>3, <1>7, <1>8
  <2> QED
    BY <1>1, <2>1, <2>2
<1> QED
  BY <1>2, <1>5, <1>7, <1>8, <1>11, <1>12 DEF t, a, IsPushed

-----------------------------------------------------------------------------
(* The median.  A family of sets of positions has a smallest member for    *)
(* inclusion, which is what stands in for sorting the readings.            *)
LEMMA MinimalSet ==
  ASSUME NEW D, IsFiniteSet(D), NEW F, F \subseteq SUBSET D, F # {}
  PROVE  \E T \in F : \A U \in F : U \subseteq T => U = T
<1>1. F \subseteq FiniteSubsetsOf(D)
  BY FS_FiniteSubsetsOfFinite
<1>2. PICK T \in F : \A U \in F : <<U, T>> \notin StrictSubsetOrdering(D)
  BY <1>1, FS_StrictSubsetOrderingWellFounded, WFMin
<1> QED
  BY <1>2 DEF StrictSubsetOrdering

LEMMA LargestPosition ==
  ASSUME NEW T, IsFiniteSet(T), T # {}, NEW s, \A i \in T : s[i] \in Int
  PROVE  \E m \in T : \A i \in T : s[i] <= s[m]
<1> DEFINE Above(i) == {j \in T : s[j] > s[i]}
           F == {Above(i) : i \in T}
<1>1. F \subseteq SUBSET T /\ F # {}
  OBVIOUS
<1>2. PICK U \in F : \A V \in F : V \subseteq U => V = U
  <2> HIDE DEF F
  <2> QED
    BY <1>1, MinimalSet
<1>3. PICK m \in T : U = Above(m)
  BY <1>2
<1>4. ASSUME NEW i \in T, s[i] > s[m] PROVE FALSE
  <2>1. i \in Above(m) /\ i \notin Above(i) /\ Above(i) \in F
    BY <1>4
  <2>2. Above(i) \subseteq Above(m)
    BY <1>4
  <2> QED
    BY <1>2, <1>3, <2>1, <2>2
<1> QED
  BY <1>4

LEMMA OrderStatistic ==
  ASSUME NEW s \in Seq(Int), NEW k \in Nat \ {0}, k <= Len(s)
  PROVE  /\ Smallest(s, k) \in Int
         /\ Cardinality({i \in DOMAIN s : s[i] < Smallest(s, k)}) < k
<1> DEFINE D == DOMAIN s
           F == {T \in SUBSET D : /\ Cardinality(T) >= k
                                 /\ \A i \in T, j \in D : s[j] <= s[i] => j \in T}
<1>1. D = 1..Len(s) /\ Len(s) \in Nat /\ (\A i \in D : s[i] \in Int)
  BY LenProperties, ElementOfSeq
<1> HIDE DEF D
<1>2. IsFiniteSet(D) /\ Cardinality(D) = Len(s)
  <2>1. /\ IsFiniteSet(1..Len(s))
        /\ Cardinality(1..Len(s)) = IF 1 > Len(s) THEN 0 ELSE Len(s) - 1 + 1
    BY <1>1, FS_Interval
  <2> QED
    BY <1>1, <2>1
<1>3. D \in F
  BY <1>1, <1>2
<1>4. PICK T \in F : \A U \in F : U \subseteq T => U = T
  <2>1. F \subseteq SUBSET D /\ F # {}
    BY <1>3
  <2> HIDE DEF F
  <2> QED
    BY <1>2, <2>1, MinimalSet
<1>5. T \subseteq D /\ IsFiniteSet(T) /\ Cardinality(T) \in Nat /\ Cardinality(T) >= k
  BY <1>2, <1>4, FS_Subset, FS_CardinalityType
<1>6. T # {}
  BY <1>5, FS_EmptySet
<1>7. PICK m \in T : \A i \in T : s[i] <= s[m]
  BY <1>1, <1>5, <1>6, LargestPosition
<1>8. T = {i \in D : s[i] <= s[m]}
  BY <1>4, <1>5, <1>7
<1> DEFINE L == {i \in D : s[i] < s[m]}
<1>9. Cardinality(L) < k
  <2>1. L \subseteq D /\ IsFiniteSet(L) /\ Cardinality(L) \in Nat
    BY <1>2, FS_Subset, FS_CardinalityType
  <2>2. \A i \in L, j \in D : s[j] <= s[i] => j \in L
    BY <1>1, <1>5, <1>7
  <2>3. m \notin L /\ L \subseteq T
    BY <1>1, <1>5, <1>7, <1>8
  <2>4. L \notin F
    BY <1>4, <1>7, <2>3
  <2> QED
    BY <2>1, <2>2, <2>4
<1> DEFINE Vals == {s[i] : i \in DOMAIN s}
           Good(v) == /\ Cardinality({i \in DOMAIN s : s[i] < v}) < k
                      /\ Cardinality({i \in DOMAIN s : s[i] <= v}) >= k
<1>10. s[m] \in Vals /\ Good(s[m])
  BY <1>5, <1>7, <1>8, <1>9 DEF D
<1>11. Smallest(s, k) \in Vals /\ Good(Smallest(s, k))
  <2>1. Smallest(s, k) = CHOOSE v \in Vals : Good(v)
    BY DEF Smallest
  <2> HIDE DEF Vals, Good
  <2> QED
    BY <1>10, <2>1
<1> QED
  BY <1>1, <1>11 DEF D

(* A median at or above a threshold needs half of the readings there.      *)
LEMMA HalfAreHot ==
  ASSUME NEW s \in Seq(Int), s # <<>>, NEW x \in Int, MedianTwice(s) >= 2 * x
  PROVE  /\ Len(s) \in Nat \ {0}
         /\ 2 * Cardinality({i \in 1..Len(s) : s[i] >= x}) >= Len(s)
<1> DEFINE n == Len(s)
           p == (n + 1) \div 2
           q == n \div 2 + 1
           Low == {i \in 1..n : s[i] < x}
           High == {i \in 1..n : s[i] >= x}
<1>1. n \in Nat \ {0} /\ DOMAIN s = 1..n /\ (\A i \in 1..n : s[i] \in Int)
  BY LenProperties, ElementOfSeq, EmptySeq
<1> HIDE DEF n
<1>2. /\ p \in Nat \ {0} /\ q \in Nat \ {0} /\ p <= n /\ q <= n /\ p <= q
      /\ 2 * q <= n + 2
  BY <1>1
<1>3. /\ Smallest(s, p) \in Int
      /\ Cardinality({i \in 1..n : s[i] < Smallest(s, p)}) < p
      /\ Smallest(s, q) \in Int
      /\ Cardinality({i \in 1..n : s[i] < Smallest(s, q)}) < q
  BY <1>1, <1>2, OrderStatistic DEF n
<1>4. MedianTwice(s) = Smallest(s, p) + Smallest(s, q)
  BY DEF MedianTwice, n
<1> HIDE DEF p, q
<1>5. Smallest(s, p) >= x \/ Smallest(s, q) >= x
  BY <1>3, <1>4
<1>6. IsFiniteSet(1..n) /\ Cardinality(1..n) = n
  BY <1>1, FS_Interval
<1>7. Cardinality(Low) \in Nat /\ Cardinality(High) \in Nat
      /\ Cardinality(Low) + Cardinality(High) = n
  <2>1. IsFiniteSet(Low) /\ IsFiniteSet(High)
    BY <1>6, FS_Subset
  <2>2. Low \cup High = 1..n /\ Low \cap High = {}
    BY <1>1
  <2> HIDE DEF Low, High
  <2>3. Cardinality(Low) \in Nat /\ Cardinality(High) \in Nat
    BY <2>1, FS_CardinalityType
  <2>4. Cardinality(Low \cup High)
          = Cardinality(Low) + Cardinality(High) - Cardinality(Low \cap High)
    BY <2>1, FS_Union
  <2>5. Cardinality(Low \cap High) = 0
    BY <2>2, FS_EmptySet
  <2>6. Cardinality(Low \cup High) = n
    BY <1>6, <2>2, Zenon
  <2> QED
    BY <1>1, <2>3, <2>4, <2>5, <2>6
<1>8. ASSUME NEW v \in Int, v >= x, NEW k \in Nat,
             Cardinality({i \in 1..n : s[i] < v}) < k
      PROVE  Cardinality(Low) < k
  <2> DEFINE Below == {i \in 1..n : s[i] < v}
  <2>1. Low \in SUBSET Below /\ Below \in SUBSET (1..n)
    BY <1>1, <1>8
  <2>2. IsFiniteSet(Below) /\ Cardinality(Below) \in Nat
    BY <1>6, <2>1, FS_Subset, FS_CardinalityType
  <2>3. Cardinality(Low) <= Cardinality(Below)
    BY <2>1, <2>2, FS_Subset
  <2>4. Cardinality(Below) < k
    BY <1>8
  <2> HIDE DEF Below, Low
  <2> QED
    BY <1>7, <2>2, <2>3, <2>4
<1>9. Cardinality(Low) < q
  <2> HIDE DEF Low
  <2>1. CASE Smallest(s, p) >= x
    <3>1. Cardinality(Low) < p
      BY <1>2, <1>3, <1>8, <2>1
    <3> QED
      BY <1>2, <1>7, <3>1
  <2>2. CASE Smallest(s, q) >= x
    BY <1>2, <1>3, <1>8, <2>2
  <2> QED
    BY <1>5, <2>1, <2>2
<1> HIDE DEF Low, High
<1>10. 2 * Cardinality(High) >= n
  BY <1>1, <1>2, <1>7, <1>9
<1> QED
  BY <1>1, <1>10 DEF n, High

(* Whatever call leads to the thermostat's start, the median is hot then.  *)
StartsHot(c, d) ==
  c.fan = "off" /\ d.fan = "on" /\ d.reason = "AUTO_START_THRESHOLD"
    => d.samples # <<>> /\ Hot(d)

LEMMA EvaluateHot ==
  ASSUME NEW c, NEW b \in Controllers, b.fan = c.fan, NEW context
  PROVE  StartsHot(c, Evaluate(b, context))
<1> DEFINE d == Evaluate(b, context)
<1>1. /\ "on" \in Powers /\ "off" \in Powers /\ FALSE \in BOOLEAN
      /\ "AUTO_START_THRESHOLD" \in Reasons
  BY DEF Powers, Reasons
<1>2. CASE StartDue(b)
  <2>1. d.samples = b.samples /\ d.policy = b.policy
    BY EvaluateKeeps
  <2> HIDE DEF d
  <2> QED
    BY <1>2, <2>1 DEF StartsHot, StartDue, Controllable, Hot, d
<1>3. CASE ~StartDue(b)
  <2>1. \/ d = b
        \/ \E reason \in Reasons : d = Transition(b, "off", FALSE, reason)
    BY <1>3, EvaluateCases DEF Reasons
  <2> HIDE DEF d
  <2>2. d.fan \in {b.fan, "off"}
    <3>1. ASSUME NEW reason \in Reasons
          PROVE  Transition(b, "off", FALSE, reason).fan = "off"
      <4>1. IsTransition(b, Transition(b, "off", FALSE, reason), "off", FALSE, reason)
        BY <1>1, TransitionType
      <4> QED
        BY <4>1 DEF IsTransition
    <3> QED
      BY <2>1, <3>1
  <2> QED
    BY <2>2 DEF StartsHot, d
<1> QED
  BY <1>2, <1>3

LEMMA ObserveHot ==
  ASSUME NEW c \in Controllers, NEW r \in Readings
  PROVE  StartsHot(c, Observe(c, r))
<1> DEFINE streak == IF c.streak < RecoverSamples THEN c.streak + 1 ELSE c.streak
           samples == LastOf(Append(c.samples, r.temp), ControlSamples)
           quality == IF streak < RecoverSamples THEN "starting" ELSE "ready"
           valid == [c EXCEPT !.samples = samples, !.streak = streak,
                              !.quality = quality]
           bad == Distrusted(c, r.quality)
<1>1. CASE r.quality = "ready"
  <2>1. r.temp \in Temps
    BY <1>1 DEF Readings, BadQualities
  <2>2. samples \in Seq(Temps)
    BY <2>1, LastOfType, ConstantTypes, AppendProperties DEF Controllers
  <2>3. streak \in 0..RecoverSamples /\ quality \in Qualities
    BY ConstantTypes DEF Controllers, Qualities
  <2> HIDE DEF samples, streak, quality
  <2>4. valid \in Controllers /\ valid.fan = c.fan
    BY <2>2, <2>3 DEF Controllers
  <2>5. Observe(c, r) = Evaluate(valid, "sensor")
    BY <1>1 DEF Observe, samples, streak, quality
  <2> HIDE DEF valid
  <2> QED
    BY <2>4, <2>5, EvaluateHot
<1>2. CASE r.quality # "ready"
  <2>1. r.quality \in Qualities
    BY DEF Readings, Qualities
  <2>2. bad \in Controllers /\ bad.fan = c.fan
    BY <2>1, DistrustedType
  <2>3. Observe(c, r) = Evaluate(bad, "sensor")
    BY <1>2 DEF Observe
  <2> HIDE DEF bad
  <2> QED
    BY <2>2, <2>3, EvaluateHot
<1> QED
  BY <1>1, <1>2

LEMMA RecheckHot ==
  ASSUME NEW c \in Controllers, NEW lastIsStale
  PROVE  StartsHot(c, Recheck(c, lastIsStale))
<1> DEFINE bad == Distrusted(c, "stale")
<1>1. bad \in Controllers /\ bad.fan = c.fan
  BY DistrustedType DEF Qualities, BadQualities
<1>2. \/ Recheck(c, lastIsStale) = Evaluate(bad, "tick")
      \/ Recheck(c, lastIsStale) = Evaluate(c, "tick")
  BY DEF Recheck
<1> HIDE DEF bad
<1> QED
  BY <1>1, <1>2, EvaluateHot

LEMMA UpdatePolicyHot ==
  ASSUME NEW c \in Controllers, NEW p \in Policies
  PROVE  StartsHot(c, UpdatePolicy(c, p))
<1> DEFINE d == [c EXCEPT !.policy = p]
           e == [d EXCEPT !.armed = FALSE]
<1>1. d \in Controllers /\ d.fan = c.fan
  BY DEF Controllers
<1>2. e \in Controllers /\ e.fan = c.fan
  <2> HIDE DEF d
  <2> QED
    BY <1>1 DEF Controllers
<1>3. \/ UpdatePolicy(c, p) = Transition(d, "off", FALSE, "DISABLED_SAFE_OFF")
      \/ UpdatePolicy(c, p) = Evaluate(d, "policy_update")
      \/ UpdatePolicy(c, p) = Evaluate(e, "policy_update")
  BY DEF UpdatePolicy
<1> HIDE DEF d, e
<1>4. Transition(d, "off", FALSE, "DISABLED_SAFE_OFF").fan = "off"
  <2>1. "off" \in Powers /\ "DISABLED_SAFE_OFF" \in Reasons /\ FALSE \in BOOLEAN
    BY DEF Powers, Reasons
  <2>2. IsTransition(d, Transition(d, "off", FALSE, "DISABLED_SAFE_OFF"),
                     "off", FALSE, "DISABLED_SAFE_OFF")
    BY <1>1, <2>1, TransitionType
  <2> QED
    BY <2>2 DEF IsTransition
<1>5. /\ StartsHot(c, Evaluate(d, "policy_update"))
      /\ StartsHot(c, Evaluate(e, "policy_update"))
  BY <1>1, <1>2, EvaluateHot
<1> QED
  BY <1>3, <1>4, <1>5 DEF StartsHot

(* A user's or a timer's command is never the thermostat's start.          *)
LEMMA SetFanPowerHot ==
  ASSUME NEW c, SafeState(c), NEW power \in Powers, ~Rejects(c, power),
         NEW expired \in BOOLEAN
  PROVE  /\ StartsHot(c, SetFanPower(c, power))
         /\ StartsHot(c, ScheduledFanPower(c, power, expired))
<1> DEFINE d == SetFanPower(c, power)
           why == IF expired THEN "TIMER_EXPIRED_SAFE_OFF"
                  ELSE IF power = "on" THEN "TIMER_ON" ELSE "TIMER_OFF"
           e == [d EXCEPT !.reason = why]
           b == [c EXCEPT !.policy = WithMode(@, "manual")]
<1>1. c \in Controllers /\ c.policy \in Policies
  BY DEF SafeState, Controllers
<1>2. b \in Controllers
  BY <1>1, WithModeType DEF Controllers, Modes
<1>3. \E x \in {b, c}, to \in Powers, armed \in BOOLEAN,
         reason \in Reasons \ ThermostatReasons : d = Transition(x, to, armed, reason)
  <2>1. /\ {UserReason(power), "DISABLED_SAFE_OFF", "SEMI_USER_START"}
             \subseteq Reasons \ ThermostatReasons
        /\ "off" \in Powers /\ "on" \in Powers
    BY DEF UserReason, Reasons, ThermostatReasons, Powers
  <2> HIDE DEF b
  <2> QED
    BY <2>1 DEF SetFanPower, b
<1> HIDE DEF d, b
<1>4. d.reason \in Reasons \ ThermostatReasons /\ d \in Controllers
  BY <1>1, <1>2, <1>3, TransitionType DEF IsTransition
<1>5. StartsHot(c, d)
  BY <1>4 DEF StartsHot, ThermostatReasons
<1>6. e.reason = why /\ why # "AUTO_START_THRESHOLD"
  <2>1. why # "AUTO_START_THRESHOLD"
    OBVIOUS
  <2> HIDE DEF why
  <2> QED
    BY <1>4, <2>1 DEF Controllers
<1>7. ScheduledFanPower(c, power, expired) \in {d, e}
  BY DEF ScheduledFanPower, d
<1> HIDE DEF e
<1> QED
  BY <1>5, <1>6, <1>7 DEF StartsHot, d
===============================================================================
