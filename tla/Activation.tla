----------------------------- MODULE Activation -----------------------------
(***************************************************************************)
(* What release activation promises, without processes, locks, crashes or  *)
(* directories: `current` changes hands in transactions.  A transaction    *)
(* names the release it replaces; while it is open `current` is one of the *)
(* two; it ends kept, with the new release, or undone, with the old one.   *)
(***************************************************************************)

CONSTANTS Releases, Nothing

VARIABLES
  active,      \* the release in use, or Nothing
  transaction  \* the last one: [cand, prev, state]

States == {"none", "open", "kept", "undone"}

Transaction(c, q, s) == [cand |-> c, prev |-> q, state |-> s]

Open == transaction.state = "open"

Init == active = Nothing /\ transaction = Transaction(Nothing, Nothing, "none")

Begin(c) ==
  /\ ~ Open
  /\ transaction' = Transaction(c, active, "open")
  /\ UNCHANGED active

Move ==
  /\ Open
  /\ active' \in {transaction.cand, transaction.prev}
  /\ UNCHANGED transaction

End ==
  /\ Open
  /\ \/ active = transaction.cand /\ transaction' = [transaction EXCEPT !.state = "kept"]
     \/ active = transaction.prev /\ transaction' = [transaction EXCEPT !.state = "undone"]
  /\ UNCHANGED active

Next == Move \/ End \/ \E c \in Releases : Begin(c)

Spec == Init /\ [][Next]_<<active, transaction>>

=============================================================================
