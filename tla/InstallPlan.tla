---------------------------- MODULE InstallPlan ----------------------------
(***************************************************************************)
(* The installer's plan: which steps scripts/install.sh registers for one  *)
(* selected configuration, which postconditions a step's precondition      *)
(* probes, and the order scripts/installer_plan.py finally gives them.     *)
(* A step is its step_id; the engine that runs the plan is module Install. *)
(***************************************************************************)
EXTENDS Sequences, SequencesExt, Naturals, FiniteSets

(* Where the operator asked the installation to stop (the --*-only flags,   *)
(* the first one that applies).                                             *)
Stages == {"engine", "release", "ollama", "speech", "full"}

(* Of the five environment profiles the plan tells only full-real apart.    *)
Profiles == {"none", "full-real", "other"}

(* No Bluetooth, the one device that offers itself, or a device by name.    *)
Selectors == {"none", "auto", "named"}

(* What load_source_record accepts: environment, preset and Bluetooth only  *)
(* on a target, the preset only with full-real, a mode only with a profile. *)
Configurations ==
  {c \in [stage: Stages, target: BOOLEAN, profile: Profiles, preset: BOOLEAN,
          mode: BOOLEAN, bluetooth: Selectors] :
     /\ c.profile # "none" => c.target
     /\ c.bluetooth # "none" => c.target
     /\ c.preset => c.profile = "full-real"
     /\ c.mode => c.profile # "none"}

(* The configurations that register target steps. *)
OnTarget(c) == c.target /\ c.stage \notin {"engine", "release"}

When(condition, steps) == IF condition THEN steps ELSE <<>>

(* Where a plan has a step; 0 if nowhere. *)
Position(steps, s) == SelectInSeq(steps, LAMBDA t : t = s)

-----------------------------------------------------------------------------
(* Registration, in the order of the script *)

ReleaseSteps(c) ==
  <<"source_record_validation", "engine_contract">>
  \o When(c.stage # "engine",
       <<"release_prerequisites">>
       \o When(c.target, <<"target_platform_preflight">>)
       \o <<"runtime_account", "release_layout", "immutable_release", "activate_release">>)

EnvironmentSteps(c) ==
  When(OnTarget(c),
       <<"environment_account", "target_identity_preflight">>
       \o When(c.profile # "none", <<"environment_profile">>)
       \o When(c.preset, <<"responsive_configuration">>)
       \o <<"target_i2c_platform", "target_runtime_bindings", "target_gpio_identity",
            "environment_service">>
       \o When(c.profile = "full-real", <<"environment_current_reconciliation">>)
       \o When(c.profile # "none", <<"environment_commissioning", "environment_readiness">>)
       \o When(c.mode, <<"environment_policy">>))

ModelSteps(c) ==
  When(OnTarget(c),
       <<"ollama_account_and_store", "ollama_binary", "ollama_service", "ollama_model",
         "ollama_model_roster">>
       \o When(c.stage # "ollama",
            <<"whisper_runtime", "piper_runtime", "speech_models", "speech_smoke">>))

ServiceSteps(c) ==
  When(OnTarget(c) /\ c.stage = "full",
       When(c.preset, <<"voice_power_configuration">>)
       \o <<"application_service">>
       \o When(c.bluetooth # "none", <<"bluetooth_audio_stack", "bluetooth_audio_pairing",
                                       "bluetooth_audio_autoconnect">>)
       \o <<"runtime_context", "appliance_readiness">>)

Registered(c) == ReleaseSteps(c) \o EnvironmentSteps(c) \o ModelSteps(c) \o ServiceSteps(c)

-----------------------------------------------------------------------------
(* Preconditions: the steps whose postconditions a step's precondition runs *)

(* What moves `current`: a sealed candidate whose models and speech work.   *)
ActivationNeeds(c) ==
  {"immutable_release"}
  \cup (IF OnTarget(c) THEN {"ollama_model_roster"} ELSE {})
  \cup (IF OnTarget(c) /\ c.stage # "ollama" THEN {"speech_smoke"} ELSE {})

LastOfIdentity(c) ==
  IF c.preset THEN "responsive_configuration"
  ELSE IF c.profile = "none" THEN "target_identity_preflight"
  ELSE "environment_profile"

Needs(s, c) ==
  CASE s \in {"source_record_validation", "engine_contract", "release_prerequisites"} -> {}
    [] s = "target_platform_preflight" -> {"release_prerequisites"}
    [] s = "runtime_account" ->
         {IF c.target THEN "target_platform_preflight" ELSE "release_prerequisites"}
    [] s = "release_layout" -> {"runtime_account"}
    [] s = "immutable_release" -> {"release_layout"}
    [] s = "activate_release" -> ActivationNeeds(c)
    [] s = "environment_account" -> {"immutable_release"}
    [] s = "target_identity_preflight" -> {"environment_account"}
    [] s = "environment_profile" -> {"target_identity_preflight"}
    [] s = "responsive_configuration" -> {"environment_profile"}
    [] s = "target_i2c_platform" -> {LastOfIdentity(c)}
    [] s = "target_runtime_bindings" -> {"target_i2c_platform"}
    [] s = "target_gpio_identity" -> {"target_runtime_bindings"}
    [] s = "environment_service" -> {"target_gpio_identity"}
    [] s = "environment_current_reconciliation" -> {"environment_service"}
    [] s = "environment_commissioning" ->
         {"activate_release", "environment_service", "environment_profile"}
    [] s = "environment_readiness" -> {"environment_commissioning"}
    [] s = "environment_policy" -> {"environment_readiness"}
    [] s = "ollama_account_and_store" -> {"environment_service"}
    [] s = "ollama_binary" -> {"ollama_account_and_store"}
    [] s = "ollama_service" -> {"ollama_binary"}
    [] s = "ollama_model" -> {"ollama_service"}
    [] s = "ollama_model_roster" -> {"ollama_model"}
    [] s = "whisper_runtime" -> {"ollama_model_roster"}
    [] s = "piper_runtime" -> {"whisper_runtime"}
    [] s = "speech_models" -> {"piper_runtime"}
    [] s = "speech_smoke" -> {"speech_models"}
    [] s = "voice_power_configuration" -> {"environment_readiness"}
    [] s = "application_service" -> {"speech_smoke"}
    [] s = "bluetooth_audio_stack" -> {"application_service"}
    [] s = "bluetooth_audio_pairing" -> {"bluetooth_audio_stack"}
    [] s = "bluetooth_audio_autoconnect" -> {"bluetooth_audio_pairing"}
    [] s = "runtime_context" ->
         {IF c.bluetooth = "none" THEN "application_service" ELSE "bluetooth_audio_autoconnect"}
    [] s = "appliance_readiness" -> {"runtime_context"}

-----------------------------------------------------------------------------
(* candidate_order: on a full target the switch of `current`, and what      *)
(* needs the switched release, move behind the candidate's prerequisites.   *)

KeepPolicyInPlace == <<"activate_release", "environment_commissioning",
                       "environment_readiness", "voice_power_configuration">>

Deferred == <<"activate_release", "environment_commissioning", "environment_readiness",
              "environment_policy", "voice_power_configuration">>

Reorders(steps, c) == c.target /\ c.stage # "release" /\ Contains(steps, "activate_release")

Anchor(steps) == IF Contains(steps, "speech_smoke") THEN "speech_smoke" ELSE "ollama_model_roster"

CandidateOrder(steps, c) ==
  IF ~ Reorders(steps, c) THEN steps
  ELSE LET IsRetained(s) == ~ Contains(Deferred, s)
           IsRegistered(s) == Contains(steps, s)
           retained == SelectSeq(steps, IsRetained)
           after == Position(retained, Anchor(steps))
       IN SubSeq(retained, 1, after) \o SelectSeq(Deferred, IsRegistered)
          \o SubSeq(retained, after + 1, Len(retained))

(* What candidate_order refuses (ValueError): the installer stops before    *)
(* its first step.                                                          *)
Refused(steps, c) ==
  \/ ~ IsInjective(steps)
  \/ /\ Reorders(steps, c)
     /\ \/ ~ Contains(steps, Anchor(steps)) \/ ~ Contains(steps, "immutable_release")
        \/ Contains(steps, "environment_policy") /\ ~ Contains(steps, "environment_readiness")
        \/ Contains(steps, "environment_readiness") /\ ~ Contains(steps, "environment_commissioning")
        \/ /\ Contains(steps, "application_service")
           /\ Position(CandidateOrder(steps, c), "application_service")
                < Position(CandidateOrder(steps, c), "activate_release")

Plan(c) == CandidateOrder(Registered(c), c)

-----------------------------------------------------------------------------
(* What has to come before a step: what its precondition probes, and before *)
(* the voice service the switch to the release it runs from and its grant   *)
(* to power off.                                                            *)
Follows(s, c) ==
  Needs(s, c) \cup (IF s = "application_service"
                    THEN {"activate_release", "voice_power_configuration"} \cap ToSet(Registered(c))
                    ELSE {})

(* A good order for c is not refused, has every registered step once, and   *)
(* each behind the steps it has to follow.                                  *)
Ordered(steps, c) ==
  /\ ~ Refused(Registered(c), c)
  /\ {steps[n] : n \in 1..Len(steps)} = ToSet(Registered(c))
  /\ \A m, n \in 1..Len(steps) : steps[m] = steps[n] => m = n
  /\ \A n \in 1..Len(steps) : Follows(steps[n], c) \subseteq {steps[m] : m \in 1..(n - 1)}

=============================================================================
