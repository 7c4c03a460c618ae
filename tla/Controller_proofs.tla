-------------------------- MODULE Controller_proofs --------------------------
(***************************************************************************)
(* Theorems about the controller: one step per call of Controller, from    *)
(* what module EnvController_proofs says of the operations.                *)
(***************************************************************************)
EXTENDS Controller, EnvController_proofs

-----------------------------------------------------------------------------
(* The inductive invariant: a safe controller whose own clock never runs   *)
(* ahead of the time since the relay really changed.                       *)

Inv ==
  /\ SafeState(ctl)
  /\ flipAge \in 0..MaxDwell
  /\ ClockIsConservative
  /\ recent \in Seq(Readings)

(* A policy built from validated settings is a policy.                     *)
LEMMA UpdatedType ==
  ASSUME NEW p \in Policies, NEW mode \in Modes, NEW s \in Settings,
         ValidPolicy(Updated(p, mode, s))
  PROVE  Updated(p, mode, s) \in Policies
<1>1. s \in [start : Int, stop : Int, minOn : Nat, minOff : Nat]
  BY SettingsAssumption
<1>2. p.gen + 1 \in Nat
  BY DEF Policies
<1> QED
  BY <1>1, <1>2 DEF Policies, Updated

LEMMA InitInv == Init => Inv
<1> SUFFICES ASSUME Init PROVE Inv
  OBVIOUS
<1>1. PICK p \in InitPolicies : ctl = NewController(p)
  BY DEF Init
<1>2. p \in Policies
  BY InitPolicyAssumption
<1>3. 0 \in 0..MaxDwell /\ 0 \in 0..RecoverSamples
  BY ConstantTypes
<1>4. <<>> \in Seq(Temps) /\ Len(<<>>) <= ControlSamples /\ <<>> \in Seq(Readings)
  BY ConstantTypes, EmptySeq
<1>5. ctl \in Controllers
  BY <1>1, <1>2, <1>3, <1>4
  DEF NewController, Controllers, Powers, Qualities, Reasons
<1>6. SafeController(ctl)
  BY <1>1 DEF NewController, SafeController
<1>7. ctl.samples = <<>> /\ ctl.age = 0
  BY <1>1 DEF NewController
<1> QED
  BY <1>3, <1>4, <1>5, <1>6, <1>7
  DEF Inv, SafeState, ClockIsConservative, Init

(* Every step is a safe step of the controller, the passing of time, or a  *)
(* stutter: one case per call.                                             *)
LEMMA StepCases ==
  ASSUME Inv, [Next]_vars
  PROVE  \/ /\ SafeStep(ctl, ctl')
            /\ Become(ctl')
            /\ recent' \in Seq(Readings)
         \/ Elapse
         \/ UNCHANGED vars
<1> DEFINE Safe == /\ SafeStep(ctl, ctl')
                   /\ Become(ctl')
                   /\ recent' \in Seq(Readings)
<1>1. SafeState(ctl) /\ recent \in Seq(Readings) /\ ctl.policy \in Policies
  BY DEF Inv, SafeState, Controllers
<1>2. ASSUME NEW d, SafeStep(ctl, d), Become(d) PROVE SafeStep(ctl, ctl') /\ Become(ctl')
  BY <1>2 DEF Become
<1>3. CASE CallObserve
  <2>1. PICK r \in Readings : /\ Become(Observe(ctl, r))
                              /\ recent' = LastOf(Append(recent, r), Window)
    BY <1>3 DEF CallObserve
  <2>2. SafeStep(ctl, Observe(ctl, r))
    BY <1>1, ObserveSafe
  <2>3. Append(recent, r) \in Seq(Readings)
    BY <1>1, AppendProperties
  <2>4. recent' \in Seq(Readings)
    BY <2>1, <2>3, LastOfType, WindowAssumption
  <2> QED
    BY <1>2, <2>1, <2>2, <2>4
<1>4. CASE CallTick
  <2>1. PICK stale \in BOOLEAN : Become(Recheck(ctl, stale)) /\ UNCHANGED recent
    BY <1>4 DEF CallTick
  <2>2. SafeStep(ctl, Recheck(ctl, stale))
    BY <1>1, RecheckSafe
  <2> QED
    BY <1>1, <1>2, <2>1, <2>2
<1>5. CASE CallSetFanPower
  <2>1. PICK power \in Powers : /\ ~Rejects(ctl, power)
                                /\ Become(SetFanPower(ctl, power))
                                /\ UNCHANGED recent
    BY <1>5 DEF CallSetFanPower
  <2>2. SafeStep(ctl, SetFanPower(ctl, power))
    BY <1>1, <2>1, SetFanPowerSafe
  <2> QED
    BY <1>1, <1>2, <2>1, <2>2
<1>6. CASE CallScheduledFanPower
  <2>1. PICK power \in Powers, expired \in BOOLEAN :
          /\ ~Rejects(ctl, power)
          /\ expired => power = "off"
          /\ Become(ScheduledFanPower(ctl, power, expired))
          /\ UNCHANGED recent
    BY <1>6 DEF CallScheduledFanPower
  <2>2. SafeStep(ctl, ScheduledFanPower(ctl, power, expired))
    BY <1>1, <2>1, ScheduledFanPowerSafe
  <2> QED
    BY <1>1, <1>2, <2>1, <2>2
<1>7. CASE CallSetMode
  <2>1. PICK mode \in Modes : Become(SetMode(ctl, mode)) /\ UNCHANGED recent
    BY <1>7 DEF CallSetMode
  <2>2. WithMode(ctl.policy, mode) \in Policies
    BY <1>1, WithModeType
  <2>3. SafeStep(ctl, SetMode(ctl, mode))
    BY <1>1, <2>2, UpdatePolicySafe DEF SetMode
  <2> QED
    BY <1>1, <1>2, <2>1, <2>3
<1>8. CASE CallUpdatePolicy
  <2>1. PICK mode \in Modes, s \in Settings :
          /\ ValidPolicy(Updated(ctl.policy, mode, s))
          /\ Become(UpdatePolicy(ctl, Updated(ctl.policy, mode, s)))
          /\ UNCHANGED recent
    BY <1>8 DEF CallUpdatePolicy
  <2>2. Updated(ctl.policy, mode, s) \in Policies
    BY <1>1, <2>1, UpdatedType
  <2>3. SafeStep(ctl, UpdatePolicy(ctl, Updated(ctl.policy, mode, s)))
    BY <1>1, <2>2, UpdatePolicySafe
  <2> QED
    BY <1>1, <1>2, <2>1, <2>3
<1>9. CASE CallSafeOff
  <2>1. /\ "SHUTDOWN_SAFE_OFF" \in Reasons \ ThermostatReasons
        /\ "ACTUATOR_ERROR_SAFE_OFF" \in Reasons \ ThermostatReasons
    BY DEF Reasons, ThermostatReasons
  <2>2. SafeStep(ctl, ShutdownOff(ctl)) /\ SafeStep(ctl, ActuatorErrorSafeOff(ctl))
    BY <1>1, <2>1, SafeOffSafe DEF ShutdownOff, ActuatorErrorSafeOff
  <2> QED
    BY <1>1, <1>2, <1>9, <2>2 DEF CallSafeOff
<1> QED
  BY <1>3, <1>4, <1>5, <1>6, <1>7, <1>8, <1>9 DEF Next

LEMMA NextInv == Inv /\ [Next]_vars => Inv'
<1> SUFFICES ASSUME Inv, [Next]_vars PROVE Inv'
  OBVIOUS
<1>1. SafeState(ctl) /\ flipAge \in 0..MaxDwell /\ ctl.age <= flipAge
      /\ ctl.age \in 0..MaxDwell
  BY DEF Inv, ClockIsConservative, SafeState, Controllers
<1>2. CASE SafeStep(ctl, ctl') /\ Become(ctl') /\ recent' \in Seq(Readings)
  <2>1. SafeState(ctl)' /\ ctl'.age \in {0, ctl.age}
        /\ (ctl'.fan # ctl.fan => ctl'.age = 0)
    BY <1>2 DEF SafeState, SafeStep, Sound
  <2>2. flipAge' = IF ctl'.fan = ctl.fan THEN flipAge ELSE 0
    BY <1>2 DEF Become
  <2>3. flipAge' \in 0..MaxDwell /\ ctl'.age <= flipAge'
    BY <1>1, <2>1, <2>2, ConstantTypes
  <2> QED
    BY <1>2, <2>1, <2>3 DEF Inv, ClockIsConservative
<1>3. CASE Elapse
  <2>1. SafeState(ctl)'
        /\ ctl'.age = IF ctl.age < MaxDwell THEN ctl.age + 1 ELSE ctl.age
    BY <1>1, <1>3, AgedSafe DEF Elapse
  <2>2. flipAge' = IF flipAge < MaxDwell THEN flipAge + 1 ELSE flipAge
    BY <1>3 DEF Elapse
  <2>3. flipAge' \in 0..MaxDwell /\ ctl'.age <= flipAge'
    BY <1>1, <2>1, <2>2, ConstantTypes
  <2> QED
    BY <1>3, <2>1, <2>3 DEF Elapse, Inv, ClockIsConservative
<1>4. CASE UNCHANGED vars
  BY <1>4 DEF vars, Inv, SafeState, ClockIsConservative
<1> QED
  BY <1>2, <1>3, <1>4, StepCases

LEMMA Invariant == Spec => []Inv
BY InitInv, NextInv, PTL DEF Spec

-----------------------------------------------------------------------------
(* The controller's state keeps its types and its sample window its bound, *)
(* whatever its owner calls (controller.py, ControllerState).              *)
THEOREM TypeTheorem == Spec => []TypeOK
<1>1. Inv => TypeOK
  BY DEF Inv, TypeOK, SafeState
<1> QED
  BY <1>1, Invariant, PTL

(* DISABLED is OFF, only a running fan is armed, and AUTOMATIC without a   *)
(* trusted sensor is OFF, for every policy and every order of calls.       *)
THEOREM FailSafeTheorem == Spec => []FailSafe
<1>1. Inv => FailSafe
  BY DEF Inv, FailSafe, SafeState
<1> QED
  BY <1>1, Invariant, PTL

(* The clock the dwells are measured with never runs ahead of the time     *)
(* since the fan really changed.                                           *)
THEOREM ClockTheorem == Spec => []ClockIsConservative
<1>1. Inv => ClockIsConservative
  BY DEF Inv
<1> QED
  BY <1>1, Invariant, PTL

(* Whatever the dwells, the thermostat never changes the fan sooner after  *)
(* its last change than the policy in force says.                          *)
THEOREM ShortCycleTheorem == Spec => NoShortCycle
<1> DEFINE A == ctl'.fan # ctl.fan /\ ctl'.reason \in ThermostatReasons
                  => flipAge >= IF ctl.fan = "on" THEN ctl'.policy.minOn
                                                  ELSE ctl'.policy.minOff
<1>1. ASSUME Inv, [Next]_vars PROVE [A]_vars
  <2>1. CASE SafeStep(ctl, ctl')
    <3>1. RespectsDwell(ctl, ctl') /\ ctl'.policy \in Policies
      BY <2>1 DEF SafeStep, Sound, Controllers
    <3>2. ctl.age <= flipAge /\ ctl.age \in Int /\ flipAge \in Int
      BY <1>1 DEF Inv, ClockIsConservative, SafeState, Controllers
    <3>3. ctl'.policy.minOn \in Int /\ ctl'.policy.minOff \in Int
      BY <3>1 DEF Policies
    <3> QED
      BY <3>1, <3>2, <3>3 DEF RespectsDwell
  <2>2. CASE Elapse
    BY <1>1, <2>2, AgedSafe DEF Elapse, Inv
  <2>3. CASE UNCHANGED vars
    BY <2>3
  <2> QED
    BY <1>1, <2>1, <2>2, <2>3, StepCases
<1> QED
  BY <1>1, Invariant, PTL DEF Spec, NoShortCycle

(* Neither temperature, nor a policy change, nor a recovered sensor starts *)
(* a SEMI_AUTOMATIC fan.                                                   *)
THEOREM SemiTheorem == Spec => SemiNeverStartsItself
<1> DEFINE A == ctl.fan = "off" /\ ctl'.fan = "on" /\ ctl'.policy.mode = "semi"
                  => ctl'.armed /\ ctl'.reason \in {"SEMI_USER_START", "TIMER_ON"}
<1>1. ASSUME Inv, [Next]_vars PROVE [A]_vars
  <2>1. CASE SafeStep(ctl, ctl')
    BY <2>1 DEF SafeStep, Sound, SemiIsCommanded
  <2>2. CASE Elapse
    BY <1>1, <2>2, AgedSafe DEF Elapse, Inv
  <2>3. CASE UNCHANGED vars
    BY <2>3
  <2> QED
    BY <1>1, <2>1, <2>2, <2>3, StepCases
<1> QED
  BY <1>1, Invariant, PTL DEF Spec, SemiNeverStartsItself

-----------------------------------------------------------------------------
(* The controller's readings are the last ones observed: as many as it     *)
(* keeps, all valid since the last it did not trust, in the same order.    *)
Ago(k) == recent[Len(recent) - k]

Remembered ==
  /\ ctl.streak <= Len(recent)
  /\ \A k \in 0..(ctl.streak - 1) : Ago(k).quality = "ready"
  /\ ctl.quality = "ready" => ctl.streak = RecoverSamples
  /\ Len(ctl.samples) <= Len(recent)
  /\ \A k \in 0..(Len(ctl.samples) - 1) :
       /\ Ago(k).quality = "ready"
       /\ Ago(k).temp = ctl.samples[Len(ctl.samples) - k]

Forgets(d) == d.samples = <<>> /\ d.streak = 0 /\ d.quality # "ready"

(* The three things a step can do to the readings, and how it starts.      *)
LEMMA ReadingCases ==
  ASSUME Inv, [Next]_vars
  PROVE  /\ StartsHot(ctl, ctl')
         /\ \/ recent' = recent /\ (SameReadings(ctl, ctl') \/ Forgets(ctl'))
            \/ \E r \in Readings : /\ ctl' = Observe(ctl, r)
                                  /\ recent' = LastOf(Append(recent, r), Window)
<1> DEFINE Goal == /\ StartsHot(ctl, ctl')
                   /\ recent' = recent
                   /\ SameReadings(ctl, ctl') \/ Forgets(ctl')
<1>1. SafeState(ctl) /\ ctl \in Controllers /\ ctl.policy \in Policies
  BY DEF Inv, SafeState, Controllers
<1>2. CASE CallObserve
  <2>1. PICK r \in Readings : ctl' = Observe(ctl, r)
                              /\ recent' = LastOf(Append(recent, r), Window)
    BY <1>2 DEF CallObserve, Become
  <2> QED
    BY <1>1, <2>1, ObserveHot
<1>3. CASE CallTick
  <2>1. PICK stale \in BOOLEAN : ctl' = Recheck(ctl, stale) /\ recent' = recent
    BY <1>3 DEF CallTick, Become
  <2> QED
    BY <1>1, <2>1, RecheckHot, RecheckReadings DEF Forgets
<1>4. CASE CallSetFanPower
  <2>1. PICK power \in Powers : /\ ~Rejects(ctl, power) /\ recent' = recent
                                /\ ctl' = SetFanPower(ctl, power)
    BY <1>4 DEF CallSetFanPower, Become
  <2>2. TRUE \in BOOLEAN
    OBVIOUS
  <2> QED
    BY <1>1, <2>1, <2>2, SetFanPowerHot, SetFanPowerReadings
<1>5. CASE CallScheduledFanPower
  <2>1. PICK power \in Powers, expired \in BOOLEAN :
          /\ ~Rejects(ctl, power) /\ recent' = recent
          /\ ctl' = ScheduledFanPower(ctl, power, expired)
    BY <1>5 DEF CallScheduledFanPower, Become
  <2> QED
    BY <1>1, <2>1, SetFanPowerHot, ScheduledFanPowerReadings
<1>6. CASE CallSetMode
  <2>1. PICK mode \in Modes : ctl' = SetMode(ctl, mode) /\ recent' = recent
    BY <1>6 DEF CallSetMode, Become
  <2>2. WithMode(ctl.policy, mode) \in Policies
    BY <1>1, WithModeType
  <2> QED
    BY <1>1, <2>1, <2>2, UpdatePolicyHot, UpdatePolicyReadings DEF SetMode
<1>7. CASE CallUpdatePolicy
  <2>1. PICK mode \in Modes, s \in Settings :
          /\ ValidPolicy(Updated(ctl.policy, mode, s)) /\ recent' = recent
          /\ ctl' = UpdatePolicy(ctl, Updated(ctl.policy, mode, s))
    BY <1>7 DEF CallUpdatePolicy, Become
  <2>2. Updated(ctl.policy, mode, s) \in Policies
    BY <1>1, <2>1, UpdatedType
  <2> QED
    BY <1>1, <2>1, <2>2, UpdatePolicyHot, UpdatePolicyReadings
<1>8. CASE CallSafeOff
  <2>1. PICK reason \in {"SHUTDOWN_SAFE_OFF", "ACTUATOR_ERROR_SAFE_OFF"} :
          ctl' = Transition(ctl, "off", FALSE, reason) /\ recent' = recent
    BY <1>8 DEF CallSafeOff, Become, ShutdownOff, ActuatorErrorSafeOff
  <2>2. "off" \in Powers /\ FALSE \in BOOLEAN /\ reason \in Reasons
    BY DEF Powers, Reasons
  <2>3. ctl'.fan = "off"
    BY <1>1, <2>1, <2>2, TransitionType DEF IsTransition
  <2>4. SameReadings(ctl, ctl')
    BY <1>1, <2>1, <2>2, TransitionReadings
  <2> QED
    BY <2>1, <2>3, <2>4 DEF StartsHot
<1>9. CASE Elapse
  <2>1. ctl' = Aged(ctl) /\ recent' = recent
    BY <1>9 DEF Elapse
  <2>2. SameReadings(ctl, Aged(ctl)) /\ Aged(ctl).fan = ctl.fan
    BY <1>1 DEF Aged, SameReadings, Controllers
  <2> QED
    BY <2>1, <2>2 DEF StartsHot
<1>10. CASE UNCHANGED vars
  BY <1>10 DEF vars, StartsHot, SameReadings
<1> QED
  BY <1>2, <1>3, <1>4, <1>5, <1>6, <1>7, <1>8, <1>9, <1>10 DEF Next

LEMMA RememberedInit == Init => Remembered
<1> SUFFICES ASSUME Init PROVE Remembered
  OBVIOUS
<1>1. /\ ctl.samples = <<>> /\ ctl.streak = 0 /\ ctl.quality = "starting"
      /\ recent = <<>> /\ Len(<<>>) = 0
  BY EmptySeq DEF Init, NewController
<1> QED
  BY <1>1 DEF Remembered

LEMMA RememberedStep ==
  ASSUME Inv, Remembered, [Next]_vars
  PROVE  Remembered'
<1>1. /\ ctl \in Controllers /\ ctl.streak \in Nat /\ recent \in Seq(Readings)
      /\ Len(recent) \in Nat /\ ctl.samples \in Seq(Temps) /\ Len(ctl.samples) \in Nat
      /\ ctl.streak <= RecoverSamples /\ RecoverSamples \in Nat \ {0}
      /\ ControlSamples \in Nat \ {0}
  BY ConstantTypes, LenProperties DEF Inv, SafeState, Controllers
<1>2. CASE recent' = recent /\ SameReadings(ctl, ctl')
  BY <1>2 DEF Remembered, Ago, SameReadings
<1>3. CASE recent' = recent /\ Forgets(ctl')
  <2>1. Len(<<>>) = 0
    BY EmptySeq
  <2> QED
    BY <1>1, <1>3, <2>1 DEF Remembered, Ago, Forgets
<1>4. ASSUME NEW r \in Readings, ctl' = Observe(ctl, r),
             recent' = LastOf(Append(recent, r), Window)
      PROVE  Remembered'
  <2>1. /\ Len(recent') = IF Len(recent) + 1 > Window THEN Window ELSE Len(recent) + 1
        /\ recent'[Len(recent')] = r /\ Len(recent') \in Nat
        /\ \A k \in 1..(Len(recent') - 1) :
             recent'[Len(recent') - k] = recent[Len(recent) - (k - 1)]
    <3>1. recent \in Seq(Readings) /\ r \in Readings /\ Window \in Nat \ {0}
      BY <1>1, WindowAssumption
    <3>2. IsPushed(recent', recent, r, Window)
      BY <1>4, <3>1, Pushed
    <3> QED
      BY <3>2 DEF IsPushed
  <2>2. Ago(0)' = r /\ \A k \in 1..(Len(recent') - 1) : Ago(k)' = Ago(k - 1)
    BY <2>1 DEF Ago
  <2>3. CASE r.quality = "ready"
    <3>1. /\ ctl'.samples = LastOf(Append(ctl.samples, r.temp), ControlSamples)
          /\ ctl'.streak = IF ctl.streak < RecoverSamples THEN ctl.streak + 1
                                                           ELSE ctl.streak
          /\ ctl'.quality = "ready" => ctl'.streak = RecoverSamples
      BY <1>1, <1>4, <2>3, ObserveReadings
    <3>2. r.temp \in Temps
      BY <2>3 DEF Readings, BadQualities
    <3>3. /\ Len(ctl'.samples) = IF Len(ctl.samples) + 1 > ControlSamples
                                  THEN ControlSamples ELSE Len(ctl.samples) + 1
          /\ ctl'.samples[Len(ctl'.samples)] = r.temp
          /\ \A k \in 1..(Len(ctl'.samples) - 1) :
               ctl'.samples[Len(ctl'.samples) - k]
                 = ctl.samples[Len(ctl.samples) - (k - 1)]
      <4>1. ctl.samples \in Seq(Temps) /\ r.temp \in Temps
            /\ ControlSamples \in Nat \ {0}
        BY <1>1, <3>2
      <4>2. IsPushed(ctl'.samples, ctl.samples, r.temp, ControlSamples)
        BY <3>1, <4>1, Pushed
      <4> QED
        BY <4>2 DEF IsPushed
    <3>4. ctl'.streak <= Len(recent') /\ Len(ctl'.samples) <= Len(recent')
      BY <1>1, <2>1, <3>1, <3>3, WindowAssumption DEF Remembered
    <3>5. ASSUME NEW k \in 0..(ctl'.streak - 1) PROVE Ago(k)'.quality = "ready"
      <4>1. CASE k = 0
        BY <2>2, <2>3, <4>1
      <4>2. CASE k # 0
        <5>1. k \in 1..(Len(recent') - 1) /\ k - 1 \in 0..(ctl.streak - 1)
          BY <1>1, <2>1, <3>1, <3>4, <4>2
        <5> QED
          BY <2>2, <5>1 DEF Remembered
      <4> QED
        BY <4>1, <4>2
    <3>6. ASSUME NEW k \in 0..(Len(ctl'.samples) - 1)
          PROVE  /\ Ago(k)'.quality = "ready"
                 /\ Ago(k)'.temp = ctl'.samples[Len(ctl'.samples) - k]
      <4>1. CASE k = 0
        BY <1>1, <2>2, <2>3, <3>3, <4>1
      <4>2. CASE k # 0
        <5>1. k \in 1..(Len(recent') - 1) /\ k - 1 \in 0..(Len(ctl.samples) - 1)
              /\ k \in 1..(Len(ctl'.samples) - 1)
          BY <1>1, <2>1, <3>3, <3>4, <4>2
        <5> QED
          BY <2>2, <3>3, <5>1 DEF Remembered
      <4> QED
        BY <4>1, <4>2
    <3> QED
      BY <3>1, <3>4, <3>5, <3>6 DEF Remembered
  <2>4. CASE r.quality # "ready"
    <3>1. Forgets(ctl')
      BY <1>1, <1>4, <2>4, ObserveReadings DEF Forgets
    <3>2. Len(<<>>) = 0
      BY EmptySeq
    <3> QED
      BY <2>1, <3>1, <3>2 DEF Remembered, Forgets
  <2> QED
    BY <2>3, <2>4
<1> QED
  BY <1>2, <1>3, <1>4, ReadingCases

(* The sensor is trusted only after RecoverSamples valid readings in a row *)
(* (controller.py observe, _mark_sensor_bad).                              *)
THEOREM TrustTheorem == Spec => []TrustIsEarned
<1>1. Inv /\ Remembered => TrustIsEarned
  <2> SUFFICES ASSUME Inv, Remembered, ctl.quality = "ready"
               PROVE  /\ Len(recent) >= RecoverSamples
                      /\ \A i \in (Len(recent) - RecoverSamples + 1)..Len(recent) :
                           recent[i].quality = "ready"
    BY DEF TrustIsEarned
  <2>1. /\ ctl.streak = RecoverSamples /\ ctl.streak <= Len(recent)
        /\ RecoverSamples \in Nat /\ Len(recent) \in Nat
    BY ConstantTypes, LenProperties DEF Remembered, Inv
  <2>2. ASSUME NEW i \in (Len(recent) - RecoverSamples + 1)..Len(recent)
        PROVE  recent[i].quality = "ready"
    <3>1. Len(recent) - i \in 0..(ctl.streak - 1)
          /\ Len(recent) - (Len(recent) - i) = i
      BY <2>1
    <3>2. Ago(Len(recent) - i).quality = "ready"
      BY <3>1 DEF Remembered
    <3> QED
      BY <3>1, <3>2 DEF Ago
  <2> QED
    BY <2>1, <2>2
<1>2. Inv /\ Remembered /\ [Next]_vars => Inv' /\ Remembered'
  BY NextInv, RememberedStep
<1> QED
  BY <1>1, <1>2, InitInv, RememberedInit, PTL DEF Spec

(* When the thermostat starts the fan, half of the readings it retains,    *)
(* all of them observed and valid, are at or above the start threshold     *)
(* (controller.py _control_temperature).                                   *)
THEOREM OutlierTheorem == Spec => OutlierCannotStart
<1> DEFINE Used == {i \in (Len(recent') - Len(ctl'.samples) + 1)..Len(recent') :
                      recent'[i].quality = "ready"
                      /\ recent'[i].temp >= ctl'.policy.start}
           A == ctl'.fan = "on" /\ ctl.fan = "off"
                  /\ ctl'.reason = "AUTO_START_THRESHOLD"
                => Len(ctl'.samples) > 0
                   /\ 2 * Cardinality(Used) >= Len(ctl'.samples)
<1>1. ASSUME Inv, Remembered, [Next]_vars PROVE A
  <2> SUFFICES ASSUME ctl'.fan = "on", ctl.fan = "off",
                      ctl'.reason = "AUTO_START_THRESHOLD"
               PROVE  Len(ctl'.samples) > 0
                      /\ 2 * Cardinality(Used) >= Len(ctl'.samples)
    OBVIOUS
  <2> DEFINE s == ctl'.samples
             x == ctl'.policy.start
             n == Len(s)
             m == Len(recent')
             High == {i \in 1..n : s[i] >= x}
  <2>1. Inv' /\ Remembered'
    BY <1>1, NextInv, RememberedStep
  <2>2. s # <<>> /\ MedianTwice(s) >= 2 * x
    BY <1>1, ReadingCases DEF StartsHot, Hot
  <2>3. s \in Seq(Temps) /\ x \in Int /\ m \in Nat
    BY <2>1, LenProperties DEF Inv, SafeState, Controllers, Policies
  <2>4. s \in Seq(Int)
    BY <2>3, ConstantTypes, SeqMonotonic
  <2>5. n <= m /\ \A k \in 0..(n - 1) : /\ recent'[m - k].quality = "ready"
                                       /\ recent'[m - k].temp = s[n - k]
    BY <2>1 DEF Remembered, Ago
  <2> HIDE DEF s, x, m
  <2>6. n \in Nat \ {0} /\ 2 * Cardinality(High) >= n
    BY <2>2, <2>3, <2>4, HalfAreHot
  <2> HIDE DEF n
  <2>7. Used = {i \in (m - n + 1)..m : recent'[i].quality = "ready"
                                       /\ recent'[i].temp >= x}
    BY DEF m, n, s, x
  <2> HIDE DEF Used
  <2> DEFINE f == [i \in High |-> m - n + i]
  <2>8. IsFiniteSet(Used) /\ Cardinality(Used) \in Nat
    <3>1. Used \in SUBSET ((m - n + 1)..m)
      BY <2>7
    <3>2. IsFiniteSet((m - n + 1)..m)
      BY <2>3, <2>6, FS_Interval
    <3> QED
      BY <3>1, <3>2, FS_Subset, FS_CardinalityType
  <2>9. f \in Injection(High, Used)
    <3>1. ASSUME NEW i \in High PROVE m - n + i \in Used
      <4>1. n - i \in 0..(n - 1) /\ m - (n - i) = m - n + i /\ n - (n - i) = i
            /\ m - n + i \in (m - n + 1)..m
        BY <2>3, <2>5, <2>6
      <4>2. recent'[m - n + i].quality = "ready" /\ recent'[m - n + i].temp = s[i]
        BY <2>5, <4>1
      <4> QED
        BY <2>7, <4>1, <4>2
    <3>2. \A i \in High, j \in High : f[i] = f[j] => i = j
      BY <2>3, <2>6
    <3>3. f \in [High -> Used]
      BY <3>1
    <3> HIDE DEF f, High
    <3> QED
      BY <3>2, <3>3, Zenon DEF Injection, IsInjective
  <2>10. IsFiniteSet(High) /\ Cardinality(High) <= Cardinality(Used)
    <3> HIDE DEF f, High
    <3> QED
      BY <2>8, <2>9, FS_Injection
  <2>11. Cardinality(High) \in Nat
    BY <2>10, FS_CardinalityType
  <2> HIDE DEF High
  <2> QED
    BY <2>6, <2>8, <2>10, <2>11 DEF n, s
<1>2. Inv /\ Remembered /\ [Next]_vars => Inv' /\ Remembered'
  BY NextInv, RememberedStep
<1>3. Inv /\ Remembered /\ [Next]_vars => [A]_vars
  BY <1>1
<1> QED
  BY <1>2, <1>3, InitInv, RememberedInit, PTL DEF Spec, OutlierCannotStart
=============================================================================
