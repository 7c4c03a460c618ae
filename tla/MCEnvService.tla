---------------------------- MODULE MCEnvService ----------------------------
(* Constants of the daemon for TLC: one threshold pair, two places for fan *)
(* jobs, and one or two failures, requests or time units of each kind.     *)
EXTENDS EnvService, TLC

MCPolicy(mode) == [gen |-> 1, mode |-> mode, start |-> 3, stop |-> 1,
                   minOn |-> 2, minOff |-> 1]
MCBootAuto == {MCPolicy("auto")}
MCBootSemi == {MCPolicy("semi")}
MCSettings == {[start |-> 3, stop |-> 1, minOn |-> 2, minOff |-> 1]}
MCSlots == Permutations(Slots)

\* No action reads the reason of the last transition, and the daemon treats
\* every distrusted quality alike: states that differ only there are one.
MCView ==
  <<[ctl EXCEPT !.reason = "",
                !.quality = IF @ \in BadQualities THEN "bad" ELSE @],
    relay, said, jobs, hold, todo, since, phase, late, disk, faults, flipAge,
    chosen>>
=============================================================================
