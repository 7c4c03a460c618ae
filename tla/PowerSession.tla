---------------------------- MODULE PowerSession ----------------------------
(***************************************************************************)
(* The two-utterance confirmation of a host power action (power.py), as    *)
(* operators on the record [session, pending, armed].  A request is        *)
(* [action, session, live]; live turns FALSE when its time is over.        *)
(***************************************************************************)
EXTENDS Naturals

CONSTANT None

Actions == {"REBOOT_DEVICE", "POWEROFF_DEVICE"}

Requests == [action : Actions, session : Nat, live : BOOLEAN]

ASSUME NoneAssumption == None \notin Requests

(* What one utterance amounts to for the power session.                     *)
Utterances == [kind: {"ask", "confirm"}, action: Actions]
              \cup [kind: {"cancel", "reading", "other", "silence"}, action: {None}]

NewSession == [session |-> 0, pending |-> None, armed |-> None]

Cancel(s) == [s EXCEPT !.pending = None, !.armed = None]

(* A new interaction: a new session, and nothing is pending.                *)
Begin(s) == [Cancel(s) EXCEPT !.session = @ + 1]

Current(s, request) == request # None /\ request.session = s.session /\ request.live

AnyConfirmation(s, u) == TRUE

Matches(s, u) == u.action = s.pending.action

(* handle: a request replaces a pending one; a confirmation uses it up and  *)
(* arms it if it is current and the words fit; any other words cancel.      *)
Handle(s, u) ==
  CASE u.kind = "ask" ->
         [Cancel(s) EXCEPT !.pending = [action |-> u.action, session |-> s.session, live |-> TRUE]]
    [] u.kind = "confirm" ->
         [Cancel(s) EXCEPT !.armed =
            IF Current(s, s.pending) /\ Matches(s, u) THEN s.pending ELSE None]
    [] OTHER -> Cancel(s)

(* consume: the armed request is used up, whether or not it is still good.  *)
Consume(s) == [s EXCEPT !.armed = None]

Expire(s) ==
  [s EXCEPT !.pending = IF @ = None THEN None ELSE [@ EXCEPT !.live = FALSE],
            !.armed = IF @ = None THEN None ELSE [@ EXCEPT !.live = FALSE]]

=============================================================================
