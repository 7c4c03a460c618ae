---------------------------- MODULE MCController ----------------------------
(* Constants of the controller for TLC: three temperatures around one pair *)
(* of thresholds, dwells of one and two time units.                        *)
EXTENDS Controller

MCBoot(mode) == [gen |-> 1, mode |-> mode, start |-> 3, stop |-> 1,
                 minOn |-> 2, minOff |-> 1]
MCInitPolicies == {MCBoot(m) : m \in Modes}
MCSettings ==
  {[start |-> 3, stop |-> 1, minOn |-> 2, minOff |-> 1],
   [start |-> 2, stop |-> 1, minOn |-> 1, minOff |-> 2],
   [start |-> 1, stop |-> 1, minOn |-> 1, minOff |-> 1]}
=============================================================================
