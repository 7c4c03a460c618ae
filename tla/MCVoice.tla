------------------------------ MODULE MCVoice ------------------------------
(* TLC instance of Voice: one scenario per thing that can go wrong.  The    *)
(* counters are budgets: what may still happen in a behaviour.              *)
EXTENDS Voice, TLC

Quiet == [c \in Counters |-> 0]

(* Windows faster than they are transcribed, a turn and a failure.          *)
Overrun == [mode |-> "whisper", environment |-> TRUE,
            left |-> [Quiet EXCEPT !["captures"] = 4, !["turns"] = 1, !["faults"] = 1]]

(* Two failures: a stop that times out twice leaves a thread behind.        *)
Stuck == [mode |-> "whisper", environment |-> TRUE,
          left |-> [Quiet EXCEPT !["captures"] = 4, !["faults"] = 2]]

(* A transition and a reading that is asked for, with a failure.            *)
Streamed == [mode |-> "streaming", environment |-> TRUE,
             left |-> [Quiet EXCEPT !["captures"] = 1, !["turns"] = 1, !["events"] = 1,
                                    !["queries"] = 1, !["faults"] = 1]]

Button == [mode |-> "ptt", environment |-> TRUE,
           left |-> [Quiet EXCEPT !["captures"] = 2, !["turns"] = 1, !["faults"] = 2]]

(* Two reports and a transition.                                            *)
News == [mode |-> "streaming", environment |-> TRUE,
         left |-> [Quiet EXCEPT !["notices"] = 2, !["events"] = 1]]

(* A report that runs out, and a failure.                                   *)
Stale == [mode |-> "streaming", environment |-> TRUE,
          left |-> [Quiet EXCEPT !["notices"] = 1, !["queries"] = 1, !["lapses"] = 1,
                                 !["faults"] = 1]]

(* One report and one question, readings for the user and for others.       *)
Question == [mode |-> "streaming", environment |-> TRUE,
             left |-> [Quiet EXCEPT !["captures"] = 1, !["turns"] = 1, !["notices"] = 1,
                                    !["queries"] = 2]]

(* Two interactions about power, with and without the environment daemon.   *)
PowerWith(environment) ==
  [mode |-> "streaming", environment |-> environment,
   left |-> [Quiet EXCEPT !["captures"] = 2, !["turns"] = 2, !["lapses"] = 1, !["faults"] = 1]]

MCScenarios == {Overrun, Stuck, Streamed, Button, News, Stale, Question, PowerWith(TRUE),
                PowerWith(FALSE)}

MCTokens == 1..4
=============================================================================
