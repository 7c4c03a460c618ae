----------------------------- MODULE Provision -----------------------------
(***************************************************************************)
(* What the installer's steps do to the machine.  A contract gives, for a  *)
(* step of module InstallPlan, the facts its action establishes, in order  *)
(* (an action that dies leaves a prefix of them), and the facts its        *)
(* postcondition probes.  Between the two lies what no probe sees.         *)
(*                                                                         *)
(* Facts are relative to the selected commit and configuration: "current"  *)
(* is that `current` leads to the selected release, "environment-daemon"   *)
(* that a daemon of that release and configuration answers.                *)
(***************************************************************************)
EXTENDS InstallPlan

Contract(action, probe) == [does |-> action, shows |-> probe]

(* An action whose probe looks at everything the action does.              *)
Probed(effects) == Contract(effects, ToSet(effects))

-----------------------------------------------------------------------------
(* The script's own steps: records, packages, reports, accounts.  Here and  *)
(* below, what a tool does and what it looks at come first, and then the    *)
(* step that runs it.                                                       *)

SourceRecord == Probed(<<"source-record">>)

EngineContract == Probed(<<"engine-record">>)

Prerequisites == Probed(<<"packages">>)

PrerequisiteChecks == {"packages"}

IdentityChecks == {"agent-groups", "env-memberships", "agent-control", "operator-control"}

TargetPlatform ==
  Contract(<<"preflight-report">>, {"preflight-report"} \cup PrerequisiteChecks)

AgentAccount ==
  Contract(<<"agent-group", "agent-user", "agent-groups">>, {"agent-user", "agent-groups"})

EnvironmentAccount ==
  Probed(<<"env-groups", "env-user", "env-memberships", "agent-control", "operator-control">>)

TargetIdentity == Contract(<<"identity-report">>, {"identity-report"} \cup IdentityChecks)

(* The bindings are those a release was built with, and the daemon's user   *)
(* runs its interpreter to use them.                                        *)
BindingsCheck == {"packages", "env-user"}

RuntimeBindings == Contract(<<>>, BindingsCheck)

(* The report names the boot it was made in.                                *)
GpioReport == <<"gpio-report">>

GpioIdentity == Probed(GpioReport)

(* raspi-config requests the bus; the device comes by itself, now or with   *)
(* the next boot.                                                           *)
EnableI2c == <<"i2c-requested">>

I2cStatus == {"i2c-device", "env-memberships"}

I2cPlatform == Contract(EnableI2c, I2cStatus)

-----------------------------------------------------------------------------
(* Releases                                                                 *)

InitLayout == <<"release-directories", "entrypoint">>

ReleaseLayout == Probed(InitLayout)

BuildRelease == <<"release">>

ImmutableRelease == Probed(BuildRelease)

Activated == <<"current", "activation-record">>

ActivateRelease == Probed(Activated)

-----------------------------------------------------------------------------
(* Environment daemon                                                       *)

EnsureProfile == <<"site-profile">>

ExactProfile == {"site-profile"}

SiteProfile == Contract(EnsureProfile, ExactProfile)

ApplyPreset == <<"llm-preset">>

RoomPreset == Probed(ApplyPreset)

InstallPower == <<"power-rule", "voice-power">>

VoicePower == Probed(InstallPower)

InstallEnvironment ==
  <<"environment-unit", "environment-tmpfiles", "environment-directories", "environment-loaded">>

InstalledEnvironment == {"environment-unit", "environment-tmpfiles"}

EnvironmentFiles == Contract(InstallEnvironment, InstalledEnvironment)

(* Enabling a unit also reloads systemd.                                    *)
ConvergeCommissioned ==
  <<"environment-directories", "environment-loaded", "environment-enabled", "environment-daemon">>

CommissionedStatus ==
  {"environment-directories", "site-profile", "environment-enabled", "environment-daemon"}

Commissioning == Contract(ConvergeCommissioned, CommissionedStatus)

ProbeDaemon == {"environment-daemon", "environment-ready"}

EnvironmentReadiness == Contract(<<"environment-ready">>, ProbeDaemon)

ConvergeMode == <<"environment-mode">>

EnvironmentMode == Contract(ConvergeMode, {"environment-daemon", "environment-mode"})

-----------------------------------------------------------------------------
(* Models and speech.  A ".part" file is complete and not yet renamed.      *)

OllamaAccount == Probed(<<"ollama-group", "ollama-user", "ollama-store">>)

InstallBinary == <<"ollama-part", "ollama-archive", "ollama-release", "ollama-sealed",
                   "ollama-current", "ollama-link">>

ValidateBinary == {"ollama-release", "ollama-sealed", "ollama-current", "ollama-link"}

OllamaBinary == Contract(InstallBinary, ValidateBinary)

(* The last fact is what wait_ready waits for.                              *)
InstallOllama ==
  <<"ollama-unit", "ollama-dropin", "ollama-loaded", "ollama-enabled", "ollama-running">>

ValidateOllama == {"ollama-unit", "ollama-dropin", "ollama-enabled", "ollama-running"}

OllamaService == Contract(InstallOllama, ValidateOllama)

(* The default model belongs to the roster.                                 *)
OllamaModel == Probed(<<>>)

PullModels == <<"models">>

InstalledModels == {"models", "ollama-running"}

SelectModel == <<"model-selection">>

ProvisionRoster == PullModels \o SelectModel \o <<"roster-record">>

RosterStatus == InstalledModels \cup {"model-selection", "roster-record"}

ModelRoster == Contract(ProvisionRoster, RosterStatus)

InstallWhisper == <<"whisper-release", "whisper-link">>

ValidateWhisper == {"whisper-release", "whisper-link"}

WhisperRuntime == Contract(InstallWhisper, ValidateWhisper)

InstallPiper == <<"piper-release", "piper-wrapper">>

ValidatePiper == {"piper-release", "piper-wrapper"}

PiperRuntime == Contract(InstallPiper, ValidatePiper)

ProvisionModels == <<"whisper-part", "whisper-model", "voice">>

ValidateModels == {"whisper-model", "voice"}

SpeechModels == Contract(ProvisionModels, ValidateModels)

RunSmoke == <<"smoke-record">>

ValidateSmoke == ValidateWhisper \cup ValidatePiper \cup ValidateModels \cup {"smoke-record"}

SpeechSmoke == Contract(RunSmoke, ValidateSmoke)

-----------------------------------------------------------------------------
(* Voice service and Bluetooth                                              *)

RuntimeEnvironment == <<"runtime-environment">>

InstallAgent ==
  <<"service-unit", "service-tmpfiles">> \o RuntimeEnvironment
  \o <<"service-directories", "service-loaded", "service-enabled", "service-running">>

InstalledAgent == {"service-unit", "service-tmpfiles", "runtime-environment", "service-enabled"}

(* The probe accepts a service that is enabled and does not run.            *)
ApplicationService == Contract(InstallAgent, InstalledAgent)

(* Without a PipeWire session to look for it is the file that counts.       *)
InspectContext == {"runtime-environment"}

RuntimeContext == Contract(<<>>, InspectContext)

ActivateAppliance == <<"service-loaded", "service-enabled", "service-running", "service-ready">>

ApplianceStatus == {"service-enabled", "service-running", "service-ready"}

ApplianceReadiness == Contract(ActivateAppliance, ApplianceStatus)

PrepareAudio == <<"headset-fragment", "audio-session">>

StackStatus == {"bluetooth-packages", "audio-session"}

AudioStack == Contract(<<"bluetooth-packages">> \o PrepareAudio, StackStatus)

DeviceRecord == <<"bluetooth-record">>

Pair == <<"paired", "trusted", "connected">> \o DeviceRecord

DeviceStatus == ToSet(Pair)

AudioPairing == Contract(Pair, DeviceStatus)

InstallAutoconnect == <<"autoconnect-unit", "autoconnect-loaded", "autoconnect-active">>

AutoconnectStatus == {"bluetooth-record", "autoconnect-unit", "autoconnect-active"}

Autoconnect == Contract(InstallAutoconnect, AutoconnectStatus)

-----------------------------------------------------------------------------
Contracts ==
  [source_record_validation |-> SourceRecord, engine_contract |-> EngineContract,
   release_prerequisites |-> Prerequisites, target_platform_preflight |-> TargetPlatform,
   runtime_account |-> AgentAccount, environment_account |-> EnvironmentAccount,
   target_identity_preflight |-> TargetIdentity,
   target_runtime_bindings |-> RuntimeBindings, target_gpio_identity |-> GpioIdentity,
   target_i2c_platform |-> I2cPlatform, release_layout |-> ReleaseLayout,
   immutable_release |-> ImmutableRelease, activate_release |-> ActivateRelease,
   environment_profile |-> SiteProfile, responsive_configuration |-> RoomPreset,
   voice_power_configuration |-> VoicePower, environment_service |-> EnvironmentFiles,
   environment_current_reconciliation |-> Probed(<<"reconciliation-record">>),
   environment_commissioning |-> Commissioning,
   environment_readiness |-> EnvironmentReadiness, environment_policy |-> EnvironmentMode,
   ollama_account_and_store |-> OllamaAccount, ollama_binary |-> OllamaBinary,
   ollama_service |-> OllamaService, ollama_model |-> OllamaModel,
   ollama_model_roster |-> ModelRoster, whisper_runtime |-> WhisperRuntime,
   piper_runtime |-> PiperRuntime, speech_models |-> SpeechModels,
   speech_smoke |-> SpeechSmoke, application_service |-> ApplicationService,
   runtime_context |-> RuntimeContext, appliance_readiness |-> ApplianceReadiness,
   bluetooth_audio_stack |-> AudioStack, bluetooth_audio_pairing |-> AudioPairing,
   bluetooth_audio_autoconnect |-> Autoconnect]

(* "reconciled" marks a reconciliation record that says ready, not deferred  *)
(* or degraded.                                                             *)
Facts == {"reconciled"}
         \cup UNION {ToSet(Contracts[s].does) \cup Contracts[s].shows : s \in DOMAIN Contracts}

(* These steps run, and probe with, the tools of the candidate release.     *)
FromCheckout == {"source_record_validation", "engine_contract", "release_prerequisites",
                 "target_platform_preflight", "runtime_account", "release_layout",
                 "immutable_release", "activate_release", "environment_account",
                 "target_identity_preflight", "ollama_account_and_store"}

Candidate(s) == IF s \in FromCheckout THEN {} ELSE {"release"}

(* The reconciliation of an existing thermostat restarts it, and puts its   *)
(* mode back, before it records the attempt.                                *)
Reconciliation == "environment_current_reconciliation"

Repair == <<"environment-directories", "environment-loaded", "environment-enabled",
            "environment-daemon", "environment-ready", "environment-mode", "reconciled",
            "reconciliation-record">>

Existing == ToSet(Repair) \ {"reconciled", "reconciliation-record"}

(* A development host has no service account. *)
Effects(s, c) ==
  IF s = "runtime_account" /\ ~ c.target THEN <<>> ELSE Contracts[s].does

(* A record that says ready is checked against the thermostat itself.       *)
Shows(s, c, f) ==
  IF s = "runtime_account" /\ ~ c.target THEN {}
  ELSE Contracts[s].shows \cup Candidate(s)
       \cup (IF s = Reconciliation /\ "reconciled" \in f THEN Existing ELSE {})

-----------------------------------------------------------------------------

(* What an action takes back before it starts over.                         *)
Clears(s) ==
  CASE s = Reconciliation -> {"reconciliation-record", "reconciled"}
    [] s = "environment_commissioning" -> {"environment-ready"}
    [] s = "ollama_model_roster" -> {"roster-record"}
    [] s = "appliance_readiness" -> {"service-ready"}
    [] OTHER -> {}

(* Records and readiness are bound to the release, the configuration file   *)
(* and the daemon's invocation: establishing one of these outdates them.     *)
Outdates(e, f) ==
  CASE e = "current" -> {"reconciliation-record", "reconciled", "environment-daemon",
                         "environment-ready", "service-ready"}
    [] e = "environment-daemon" /\ "reconciled" \in f -> {"reconciliation-record", "reconciled"}
    [] e = "voice-power" -> {"reconciliation-record", "reconciled", "service-ready"}
    [] OTHER -> {}

(* The rename that makes a finished download its product.                   *)
Product == [part \in {"ollama-part", "whisper-part"} |->
              IF part = "ollama-part" THEN "ollama-archive" ELSE "whisper-model"]

Renamed(f) == f \ {part \in DOMAIN Product : Product[part] \in f}

(* All an action does, in its order.                                        *)
Work(s, c, f) ==
  IF s = Reconciliation /\ "current" \in f THEN Repair ELSE Effects(s, c)

(* What of the first n of it still has to be done.                          *)
Missing(s, c, f, n) ==
  LET kept == f \ Clears(s)
  IN {e \in {Work(s, c, f)[k] : k \in 1..n} :
        e \notin kept /\ (e \in DOMAIN Product => Product[e] \notin kept)}

(* The machine when that is done.                                           *)
After(s, c, f, n) ==
  LET new == Missing(s, c, f, n)
      old == (f \ Clears(s)) \ UNION {Outdates(e, f) : e \in new}
  IN Renamed(old \cup new)

-----------------------------------------------------------------------------
(* What can keep an action from succeeding                                  *)

(* What an action checks or uses beyond what its step's precondition probed *)
(* moments ago.                                                             *)
Uses(s) ==
  Candidate(s) \cup
  CASE s = "activate_release" -> {"release"}
    [] s = "environment_readiness" -> {"environment-daemon"}
    [] s = "environment_policy" -> {"environment-daemon"}
    [] s = "bluetooth_audio_pairing" -> AudioStack.shows
    [] s = "bluetooth_audio_autoconnect" -> {"bluetooth-record"}
    [] OTHER -> {}

(* A download resumes behind the last byte of its partial file; of a        *)
(* complete one the server has nothing more (HTTP 416), on every attempt.    *)
DownloadStuck(s, f) ==
  \/ s = "ollama_binary" /\ "ollama-part" \in f
  \/ s = "speech_models" /\ "whisper-part" \in f

(* Without a selector only a device that is not paired yet is a candidate.  *)
NothingToPair(s, c, f) ==
  s = "bluetooth_audio_pairing" /\ c.bluetooth = "auto" /\ "paired" \in f

(* A finished activation without its pointer is ambiguous to reconcile.     *)
PointerLost(s, f) ==
  s = "activate_release" /\ "activation-record" \in f /\ "current" \notin f

(* build never repairs the active release in place.                         *)
ActiveInvalid(s, f) == s = "immutable_release" /\ "current" \in f /\ "release" \notin f

(* The Ollama account without its store is an error of the probe itself.    *)
Unreadable(s, f) ==
  s = "ollama_account_and_store" /\ "ollama-user" \in f /\ "ollama-store" \notin f

Stuck(s, c, f) ==
  \/ DownloadStuck(s, f) \/ NothingToPair(s, c, f) \/ PointerLost(s, f)
  \/ ActiveInvalid(s, f) \/ Unreadable(s, f)

Able(s, c, f) == Uses(s) \subseteq f /\ ~ Stuck(s, c, f)

-----------------------------------------------------------------------------
(* A boot: requested hardware appears, enabled services return, what is     *)
(* bound to the earlier boot or invocation is void.                         *)
Booted(f) ==
  (f \ ({"gpio-report", "connected"}
        \cup (IF "reconciled" \in f THEN {"reconciliation-record", "reconciled"} ELSE {})
        \cup (IF "environment-enabled" \in f THEN {}
              ELSE {"environment-daemon", "environment-ready"})
        \cup (IF "service-enabled" \in f THEN {} ELSE {"service-running", "service-ready"})
        \cup (IF "ollama-enabled" \in f THEN {} ELSE {"ollama-running"})))
  \cup (IF "i2c-requested" \in f THEN {"i2c-device"} ELSE {})

(* uninstall: services, their files, the privilege grant, the releases.     *)
Removals ==
  <<{"service-running", "service-ready"}, {"service-enabled"},
    {"environment-daemon", "environment-ready"}, {"environment-enabled"},
    {"service-unit"}, {"service-tmpfiles"}, {"runtime-environment"},
    {"environment-unit"}, {"environment-tmpfiles"},
    {"service-loaded", "environment-loaded"}, {"power-rule"}, {"entrypoint"},
    {"release", "current", "release-directories"}>>

(* --purge-data: what lives below the owned data paths.                     *)
OwnedData ==
  {"source-record", "engine-record", "preflight-report", "identity-report", "gpio-report",
   "activation-record", "reconciliation-record", "reconciled", "roster-record", "model-selection",
   "whisper-part", "whisper-model", "voice", "smoke-record", "headset-fragment",
   "ollama-part", "ollama-archive", "service-directories", "environment-directories",
   "environment-mode"}

=============================================================================
