---------------------------- MODULE MCEnvServer -----------------------------
(* TLC instance of EnvServer.                                               *)
EXTENDS EnvServer, TLC

MCPolicy(gen) == [gen |-> gen, mode |-> "manual", start |-> 3, stop |-> 1, minOn |-> 1, minOff |-> 1]
MCBoot == {MCPolicy(1), MCPolicy(2)}

(* Thresholds that change the policy, and thresholds without a hysteresis.   *)
MCSettings == {[start |-> 3, stop |-> s, minOn |-> 1, minOff |-> 1] : s \in {2, 3}}

Left(starts, stops, reads, calls) ==
  [c \in ServerCounters |-> CASE c = "starts" -> starts [] c = "stops" -> stops
                              [] c = "reads" -> reads [] c = "calls" -> calls]

(* One daemon with its jobs, its hold and its faults, restarted at will.    *)
Alone == [boot |-> MCPolicy(2), requests |-> "any", polls |-> "any",
          left |-> Left(0, 1, 0, 0)]

(* Daemons against each other.                                              *)
Rivals == [boot |-> MCPolicy(2), requests |-> "none", polls |-> "none",
           left |-> Left(4, 3, 0, 0)]

(* Clients against each other, against time-outs and against restarts.      *)
Contended == [boot |-> MCPolicy(1), requests |-> "none", polls |-> "none",
              left |-> Left(0, 0, 1, 3)]

(* A client against a power hold, with thresholds that are refused.         *)
PowerPending == [boot |-> MCPolicy(2), requests |-> "power", polls |-> "steady",
                 left |-> Left(0, 0, 0, 1)]

MCSetups == {Alone, Rivals, Contended, PowerPending}
=============================================================================
