------------------------------ MODULE Notices ------------------------------
(***************************************************************************)
(* The daemon's notices and receipts (environment/automation.py): what the *)
(* report jobs want said, bounded and short-lived, as operators on the     *)
(* record [gen, receipts, notices, pending].  A receipt is                 *)
(* acknowledged by whoever said the reading aloud; a notice is a receipt   *)
(* that also waits to be said.  Tokens are numbered as they are handed     *)
(* out, so that the first of either kind is the smallest.                  *)
(***************************************************************************)
EXTENDS SequencesExt, Naturals

CONSTANT MaxNotices     \* MAX_NOTICES

ASSUME NoticesAssumption == MaxNotices \in Nat \ {0}

(* A one-shot report, a repeating one, a temperature-change alert.          *)
Jobs == {"once", "repeat", "delta"}

NoToken == 0

Booted(gen) == [gen |-> gen, receipts |-> {}, notices |-> {},
                pending |-> [j \in Jobs |-> NoToken]]

First(tokens) == Min(tokens)

(* Receipts go, and their notices with them.                                *)
Drop(d, tokens) == [d EXCEPT !.receipts = @ \ tokens, !.notices = @ \ tokens]

DropReceiptOnly(d, tokens) == [d EXCEPT !.receipts = @ \ tokens]

Evict(d, tokens) == Drop(d, tokens)

(* _receipt: the oldest receipt makes room, together with its notice.       *)
Receipt(d, t) ==
  LET room == IF Cardinality(d.receipts) >= 2 * MaxNotices
              THEN Evict(d, {First(d.receipts)}) ELSE d
  IN [room EXCEPT !.receipts = @ \cup {t}]

Notify(d, t, job) ==
  LET with == Receipt(d, t)
      room == IF Cardinality(with.notices) >= MaxNotices
              THEN Drop(with, {First(with.notices)}) ELSE with
  IN [room EXCEPT !.notices = @ \cup {t}, !.pending[job] = t]

(* A due report: one outstanding notice per job; a one-shot job ends here,  *)
(* its notice does not.                                                     *)
Outstanding(d, job) == d.pending[job] \in d.receipts

Report(d, t, job) ==
  LET told == Notify(d, t, job)
  IN IF job = "once" THEN [told EXCEPT !.pending[job] = NoToken] ELSE told

(* _finish: a cancelled or expired job takes its notice along.              *)
Finished(d, job) == [Drop(d, {d.pending[job]}) EXCEPT !.pending[job] = NoToken]

(* cancel, of every job: what a power hold begins with.                     *)
AllFinished(d) ==
  [Drop(d, {d.pending[j] : j \in Jobs}) EXCEPT !.pending = [j \in Jobs |-> NoToken]]

(* acknowledge: an unknown token changes nothing; a known one is forgotten  *)
(* and re-arms its job.                                                     *)
Acknowledged(d, t) ==
  [Drop(d, {t}) EXCEPT !.pending = [j \in Jobs |-> IF @[j] = t THEN NoToken ELSE @[j]]]

=============================================================================
