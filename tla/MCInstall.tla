----------------------------- MODULE MCInstall -----------------------------
(* TLC instance of Install: every configuration once without a fault, and   *)
(* with faults a development host, a target without an environment profile  *)
(* and the largest plan there is.                                           *)
EXTENDS Install, TLC

Host == [stage |-> "release", target |-> FALSE, profile |-> "none", preset |-> FALSE,
         mode |-> FALSE, bluetooth |-> "none"]

Bench == [Host EXCEPT !.target = TRUE]

Plain == [Host EXCEPT !.stage = "ollama", !.target = TRUE]

Largest == [stage |-> "full", target |-> TRUE, profile |-> "full-real", preset |-> TRUE,
            mode |-> TRUE, bluetooth |-> "auto"]

MCMaxFaults(c, device) ==
  CASE c \in {Host, Plain} -> 1
    [] c = Bench -> 2
    [] c = Largest /\ ~ device -> 1
    [] OTHER -> 0

MCSlots == [c \in Configurations |-> IF c = Host THEN Installers
                                     ELSE {CHOOSE i \in Installers : TRUE}]

MCFragile == {"release", "site-profile", "audio-session", "connected", "environment-daemon",
              "service-running"}

(* What drifts here some probe looks at.                                    *)
ASSUME MCDriftIsSeen == DriftIsSeen
=============================================================================
