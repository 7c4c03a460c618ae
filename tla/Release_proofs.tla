--------------------------- MODULE Release_proofs ---------------------------
(***************************************************************************)
(* Proofs about module Release, for any number of releases and processes,  *)
(* when every process that writes takes the lock first (no updater, whose  *)
(* first reconciliation does not).                                         *)
(***************************************************************************)
EXTENDS Release, TLAPS

OpenPhases == {"prepared", "switched"}

(* The places a process reaches only with the lock.                         *)
Locked == {"reconcile", "switch", "mark", "verify", "verified", "back", "undone",
           "candidate", "source", "prepare", "prune", "remove"}

MutualExclusion ==
  \A p \in Procs : /\ proc[p].cmd # "update"
                   /\ proc[p].at \in Locked => lock = p

(* What `current` may be, whoever holds the lock.                           *)
PointerAllowed ==
  /\ journal.phase = "none" => current = None
  /\ journal.phase \in OpenPhases => current \in {journal.cand, journal.prev}
  /\ journal.phase = "post_verified" => current = journal.cand
  /\ journal.phase = "rolled_back" => current = journal.prev

(* What the process at work knows of the journal and of `current`.          *)
Entry(p, phases) ==
  /\ journal.cand = proc[p].cand /\ journal.prev = proc[p].prev
  /\ journal.phase \in phases

Knows(p) ==
  /\ proc[p].at \in {"candidate", "source"} => journal.phase \notin OpenPhases
  /\ proc[p].at = "prepare" => /\ journal.phase \notin OpenPhases
                               /\ proc[p].prev = current /\ proc[p].cand \in Commits
  /\ proc[p].at = "switch" => Entry(p, {"prepared"})
  /\ proc[p].at = "mark" => Entry(p, {"prepared"}) /\ current = proc[p].cand
  /\ proc[p].at \in {"verify", "verified"} =>
       Entry(p, {"switched"}) /\ current = proc[p].cand
  /\ proc[p].at = "back" => Entry(p, OpenPhases)
  /\ proc[p].at = "undone" => Entry(p, OpenPhases) /\ current = proc[p].prev

IInv == TypeOK /\ MutualExclusion /\ PointerAllowed /\ \A p \in Procs : Knows(p)

-----------------------------------------------------------------------------
(* Lemmas *)

Slot == [at: Places, cmd: Commands, goal: Pointers, cand: Pointers,
         prev: Pointers, main: BOOLEAN, left: SUBSET Commits]

(* What every step of a process p leaves alone.                             *)
Local(p) ==
  /\ proc' \in [Procs -> Slot]
  /\ \A q \in Procs \ {p} : proc'[q] = proc[q]
  /\ \A q \in Procs \ {p} : lock = q => lock' = q
  /\ proc'[p].cmd # "update"
  /\ proc'[p].at \in Locked => lock' = p
  /\ lock' \in Procs \cup {None}

(* The other processes know what they knew: they do not hold the lock, or   *)
(* nothing they know of has changed.                                        *)
LEMMA OthersKnow ==
  ASSUME IInv, NEW p \in Procs, Local(p),
         lock = p \/ UNCHANGED <<current, journal>>
  PROVE  /\ MutualExclusion'
         /\ \A q \in Procs \ {p} : Knows(q)'
<1>1. MutualExclusion'
  BY DEF IInv, MutualExclusion, Local
<1>2. ASSUME NEW q \in Procs \ {p}
      PROVE  Knows(q)'
  <2>1. proc'[q] = proc[q]
    BY DEF Local
  <2>2. CASE lock = p
    <3>1. proc[q].at \notin Locked
      BY <2>2 DEF IInv, MutualExclusion
    <3> QED
      BY <2>1, <3>1 DEF Knows, Locked
  <2>3. CASE UNCHANGED <<current, journal>>
    BY <2>1, <2>3 DEF IInv, Knows, Entry
  <2> QED
    BY <2>2, <2>3
<1> QED
  BY <1>1, <1>2

(* A process that ends holds nothing.                                       *)
LEMMA FinishIsLocal ==
  ASSUME IInv, NEW p \in Procs, Finish(p)
  PROVE  Local(p) /\ Knows(p)'
<1>1. Idle \in Slot
  BY DEF Idle, Slot, Places, Commands, Pointers
<1>2. proc' = [proc EXCEPT ![p] = Idle] /\ proc \in [Procs -> Slot]
  BY DEF Finish, IInv, TypeOK, Slot
<1>3. proc' \in [Procs -> Slot]
  BY <1>1, <1>2
<1>4. proc'[p].at = "idle" /\ proc'[p].cmd = "none"
  BY <1>2 DEF Idle
<1>5. lock' \in Procs \cup {None}
  BY DEF Finish, IInv, TypeOK
<1>6. \A q \in Procs \ {p} : proc'[q] = proc[q] /\ (lock = q => lock' = q)
  BY <1>2 DEF Finish
<1>7. Local(p)
  BY <1>3, <1>4, <1>5, <1>6 DEF Local, Locked
<1>8. Knows(p)'
  BY <1>4 DEF Knows
<1> QED
  BY <1>7, <1>8

(* A process moves on, keeping the lock if it has one.                      *)
LEMMA GotoIsLocal ==
  ASSUME IInv, NEW p \in Procs, NEW place \in Places, Goto(p, place), lock' = lock,
         place \in Locked => lock = p
  PROVE  /\ Local(p)
         /\ proc'[p] = [proc[p] EXCEPT !.at = place]
<1>1. proc \in [Procs -> Slot]
  BY DEF IInv, TypeOK, Slot
<1>2. proc'[p] = [proc[p] EXCEPT !.at = place] /\ proc[p] \in Slot
  BY <1>1 DEF Goto
<1>3. proc'[p] \in Slot
  BY <1>2 DEF Slot
<1>4. proc' \in [Procs -> Slot]
  BY <1>1, <1>3 DEF Goto
<1>5. lock' \in Procs \cup {None}
  BY DEF IInv, TypeOK
<1>6. proc'[p].at = place /\ proc'[p].cmd = proc[p].cmd
  BY <1>2 DEF Slot
<1>7. \A q \in Procs \ {p} : proc'[q] = proc[q] /\ (lock = q => lock' = q)
  BY DEF Goto
<1>8. proc[p].cmd # "update"
  BY DEF IInv, MutualExclusion
<1> QED
  BY <1>2, <1>4, <1>5, <1>6, <1>7, <1>8 DEF Local

(* A process whose own record is replaced by another one of the right type. *)
LEMMA RecordIsLocal ==
  ASSUME IInv, NEW p \in Procs, NEW r \in Slot, proc' = [proc EXCEPT ![p] = r],
         lock' = lock, r.cmd # "update", r.at \in Locked => lock = p
  PROVE  Local(p) /\ proc'[p] = r
<1>1. proc \in [Procs -> Slot] /\ lock \in Procs \cup {None}
  BY DEF IInv, TypeOK, Slot
<1> QED
  BY <1>1 DEF Local

(* reconcile() has returned to its caller, which holds the lock.            *)
LEMMA ReturnedIsLocal ==
  ASSUME IInv, NEW p \in Procs, lock = p, Returned(p), journal'.phase \notin OpenPhases
  PROVE  Local(p) /\ Knows(p)'
<1>1. proc \in [Procs -> Slot] /\ proc[p].cmd # "update"
  BY DEF IInv, TypeOK, Slot, MutualExclusion
<1>2. CASE Finish(p)
  BY <1>2, FinishIsLocal
<1>3. ASSUME NEW place \in {"candidate", "source"}, lock' = lock,
             proc' = [proc EXCEPT ![p].at = place, ![p].main = TRUE]
      PROVE  Local(p) /\ Knows(p)'
  <2> DEFINE r == [proc[p] EXCEPT !.at = place, !.main = TRUE]
  <2>1. r \in Slot /\ r.at = place /\ r.cmd = proc[p].cmd
    BY <1>1 DEF Slot, Places
  <2>2. proc' = [proc EXCEPT ![p] = r]
    BY <1>1, <1>3
  <2>3. Local(p) /\ proc'[p] = r
    BY <1>1, <1>3, <2>1, <2>2, RecordIsLocal
  <2> HIDE DEF r
  <2>4. Knows(p)'
    BY <2>1, <2>3 DEF Knows
  <2> QED
    BY <2>3, <2>4
<1>4. \/ Finish(p)
      \/ \E place \in {"candidate", "source"} :
           proc' = [proc EXCEPT ![p].at = place, ![p].main = TRUE] /\ lock' = lock
  BY <1>1 DEF Returned
<1> QED
  BY <1>2, <1>3, <1>4

(* What is left to show of a step of process p.                             *)
LEMMA StepKeeps ==
  ASSUME IInv, NEW p \in Procs, Local(p), Knows(p)',
         lock = p \/ UNCHANGED <<current, journal>>,
         current' \in Pointers, journal' \in Journals,
         seal' \in [Commits -> {"absent", "mutable", "sealed", "broken"}],
         bad' = bad, PointerAllowed'
  PROVE  IInv'
<1>1. MutualExclusion' /\ \A q \in Procs \ {p} : Knows(q)'
  BY OthersKnow
<1>2. TypeOK'
  BY DEF IInv, TypeOK, Local, Slot
<1> QED
  BY <1>1, <1>2 DEF IInv

(* A step that touches neither the link nor the journal.                    *)
LEMMA QuietStepKeeps ==
  ASSUME IInv, NEW p \in Procs, Local(p), Knows(p)', UNCHANGED <<current, journal>>,
         seal' \in [Commits -> {"absent", "mutable", "sealed", "broken"}], bad' = bad
  PROVE  IInv'
<1>1. PointerAllowed'
  BY DEF IInv, PointerAllowed, OpenPhases
<1>2. current' \in Pointers /\ journal' \in Journals
  BY DEF IInv, TypeOK
<1> QED
  BY <1>1, <1>2, StepKeeps

(* Moving on to a place that presumes nothing.                              *)
Modest == {"idle", "lock", "reconcile", "prune", "remove", "build", "clear",
           "finalize", "chmod"}

LEMMA ModestKnows ==
  ASSUME NEW p \in Procs, proc'[p].at \in Modest
  PROVE  Knows(p)'
BY DEF Knows, Modest

-----------------------------------------------------------------------------
(* One lemma per kind of step *)

LEMMA LockKeeps ==
  ASSUME IInv, NEW p \in Procs, Lock(p)
  PROVE  IInv'
<1>1. UNCHANGED <<current, journal, seal, bad>>
  BY DEF Lock
<1>2. seal' \in [Commits -> {"absent", "mutable", "sealed", "broken"}]
  BY <1>1 DEF IInv, TypeOK
<1>3. CASE Finish(p)
  BY <1>1, <1>2, <1>3, FinishIsLocal, QuietStepKeeps
<1>4. CASE lock = None /\ lock' = p /\ Goto(p, "reconcile")
  <2>1. proc \in [Procs -> Slot] /\ proc[p].cmd # "update"
    BY DEF IInv, TypeOK, Slot, MutualExclusion
  <2>2. proc' \in [Procs -> Slot] /\ proc'[p].at = "reconcile" /\ proc'[p].cmd # "update"
    BY <1>4, <2>1 DEF Goto, Slot, Places
  <2>3. \A q \in Procs \ {p} : proc'[q] = proc[q]
    BY <1>4, <2>1 DEF Goto
  <2>4. Local(p)
    BY <1>4, <2>2, <2>3, ProcsAssumption DEF Local
  <2>5. Knows(p)'
    BY <2>2, ModestKnows DEF Modest
  <2> QED
    BY <1>1, <1>2, <2>4, <2>5, QuietStepKeeps
<1> QED
  BY <1>3, <1>4 DEF Lock

(* Steps that move to a modest place or end, and leave link and journal.    *)
LEMMA ModestStepKeeps ==
  ASSUME IInv, NEW p \in Procs, UNCHANGED <<current, journal, bad>>,
         seal' \in [Commits -> {"absent", "mutable", "sealed", "broken"}],
         \/ Finish(p)
         \/ \E place \in Modest \ {"reconcile"} :
              Goto(p, place) /\ lock' = lock /\ (place \in Locked => lock = p)
  PROVE  IInv'
<1>1. CASE Finish(p)
  BY <1>1, FinishIsLocal, QuietStepKeeps
<1>2. ASSUME NEW place \in Modest, Goto(p, place), lock' = lock,
             place \in Locked => lock = p
      PROVE  IInv'
  <2>1. place \in Places
    BY DEF Modest, Places
  <2>2. Local(p) /\ proc'[p] = [proc[p] EXCEPT !.at = place]
    BY <1>2, <2>1, GotoIsLocal
  <2>3. proc[p] \in Slot
    BY DEF IInv, TypeOK, Slot
  <2>4. proc'[p].at \in Modest
    BY <2>2, <2>3 DEF Slot
  <2>5. Knows(p)'
    BY <2>4, ModestKnows
  <2> QED
    BY <2>2, <2>5, QuietStepKeeps
<1> QED
  BY <1>1, <1>2

LEMMA BuildingKeeps ==
  ASSUME IInv, NEW p \in Procs,
         Build(p) \/ Clear(p) \/ Finalize(p) \/ Chmod(p)
  PROVE  IInv'
<1>1. /\ proc \in [Procs -> Slot] /\ proc[p].cmd # "update"
      /\ seal \in [Commits -> {"absent", "mutable", "sealed", "broken"}]
  BY DEF IInv, TypeOK, Slot, MutualExclusion
<1>2. seal' \in [Commits -> {"absent", "mutable", "sealed", "broken"}]
  BY <1>1 DEF Build, Clear, Finalize, Chmod, Intact
<1>3. UNCHANGED <<current, journal, bad>>
  BY DEF Build, Clear, Finalize, Chmod
<1>4. Built(p) => Finish(p)
  BY <1>1 DEF Built
<1>5. \/ Finish(p)
      \/ \E place \in {"chmod", "finalize", "clear"} : Goto(p, place) /\ lock' = lock
  BY <1>4 DEF Build, Clear, Finalize, Chmod
<1>6. \A place \in {"chmod", "finalize", "clear"} :
        place \in Modest \ {"reconcile"} /\ place \notin Locked
  BY DEF Modest, Locked
<1> QED
  BY <1>2, <1>3, <1>5, <1>6, ModestStepKeeps

LEMMA KillKeeps ==
  ASSUME IInv, NEW p \in Procs, Kill(p)
  PROVE  IInv'
<1>1. seal' \in [Commits -> {"absent", "mutable", "sealed", "broken"}]
  BY DEF IInv, TypeOK, Kill
<1> QED
  BY <1>1, ModestStepKeeps DEF Kill

LEMMA StartKeeps ==
  ASSUME IInv, Updaters = {}, NEW p \in Procs, NEW cmd \in Commands \ {"none"},
         NEW goal \in Pointers, Start(p, cmd, goal)
  PROVE  IInv'
<1> DEFINE place == CASE cmd = "build" -> "build" [] cmd = "update" -> "reconcile"
                      [] OTHER -> "lock"
           r == [Idle EXCEPT !.cmd = cmd, !.goal = goal, !.at = place]
<1>1. cmd # "update"
  BY DEF Start
<1>2. place \in {"build", "lock"}
  BY <1>1
<1>3. proc' = [proc EXCEPT ![p] = r] /\ UNCHANGED <<current, journal, seal, lock, bad>>
  BY DEF Start
<1> HIDE DEF place
<1>4. r \in Slot /\ r.at = place /\ r.cmd = cmd
  BY <1>2 DEF Slot, Idle, Places, Commands, Pointers
<1>5. r.at \in Modest /\ r.at \notin Locked
  BY <1>2, <1>4 DEF Modest, Locked
<1> HIDE DEF r
<1>6. Local(p) /\ proc'[p] = r
  BY <1>1, <1>3, <1>4, <1>5, RecordIsLocal
<1>7. Knows(p)'
  BY <1>5, <1>6, ModestKnows
<1>8. seal' \in [Commits -> {"absent", "mutable", "sealed", "broken"}]
  BY <1>3 DEF IInv, TypeOK
<1> QED
  BY <1>3, <1>6, <1>7, <1>8, QuietStepKeeps

LEMMA PruningKeeps ==
  ASSUME IInv, NEW p \in Procs, Prune(p) \/ Remove(p)
  PROVE  IInv'
<1>1. /\ proc \in [Procs -> Slot] /\ lock = p /\ proc[p].cmd # "update"
      /\ seal \in [Commits -> {"absent", "mutable", "sealed", "broken"}]
  BY DEF IInv, TypeOK, Slot, MutualExclusion, Locked, Prune, Remove, At
<1>2. seal' \in [Commits -> {"absent", "mutable", "sealed", "broken"}]
  BY <1>1 DEF Prune, Remove
<1>3. UNCHANGED <<current, journal, bad>>
  BY DEF Prune, Remove
<1>4. ASSUME NEW l \in SUBSET Commits, lock' = lock, NEW a \in {"remove"},
             proc' = [proc EXCEPT ![p] = [proc[p] EXCEPT !.at = a, !.left = l]]
      PROVE  IInv'
  <2> DEFINE r == [proc[p] EXCEPT !.at = a, !.left = l]
  <2>1. r \in Slot /\ r.at = "remove" /\ r.cmd = proc[p].cmd
    BY <1>1 DEF Slot, Places
  <2> HIDE DEF r
  <2>2. Local(p) /\ proc'[p] = r
    BY <1>1, <1>4, <2>1, RecordIsLocal DEF r
  <2>3. Knows(p)'
    BY <2>1, <2>2, ModestKnows DEF Modest
  <2> QED
    BY <1>2, <1>3, <2>2, <2>3, QuietStepKeeps
<1>5. \/ Finish(p)
      \/ /\ lock' = lock
         /\ \E l \in SUBSET Commits :
              proc' = [proc EXCEPT ![p] = [proc[p] EXCEPT !.at = "remove", !.left = l]]
  <2>1. CASE Prune(p)
    <3>1. Old \in SUBSET Commits
      BY DEF Old
    <3> QED
      BY <1>1, <2>1, <3>1 DEF Prune
  <2>2. CASE Remove(p)
    <3>1. PICK c \in proc[p].left :
            IF proc[p].left = {c} THEN Finish(p)
            ELSE proc' = [proc EXCEPT ![p].left = @ \ {c}] /\ UNCHANGED lock
      BY <2>2 DEF Remove
    <3>2. proc[p].at = "remove" /\ proc[p].left \ {c} \in SUBSET Commits
      BY <1>1, <2>2 DEF Remove, At, Slot
    <3>3. [proc[p] EXCEPT !.at = "remove", !.left = proc[p].left \ {c}]
            = [proc[p] EXCEPT !.left = proc[p].left \ {c}]
      BY <1>1, <3>2 DEF Slot
    <3> QED
      BY <1>1, <3>1, <3>2, <3>3
  <2> QED
    BY <2>1, <2>2
<1>6. CASE Finish(p)
  BY <1>2, <1>3, <1>6, ModestStepKeeps
<1> QED
  BY <1>4, <1>5, <1>6

(* Choosing the first write, or returning.                                  *)
LEMMA ReconcileKeeps ==
  ASSUME IInv, NEW p \in Procs, Reconcile(p)
  PROVE  IInv'
<1>1. /\ proc \in [Procs -> Slot] /\ lock = p /\ proc[p].cmd # "update"
      /\ journal \in Journals
  BY DEF IInv, TypeOK, Slot, MutualExclusion, Locked, Reconcile, At
<1>2. UNCHANGED <<current, journal, seal, bad>>
  BY DEF Reconcile
<1>3. seal' \in [Commits -> {"absent", "mutable", "sealed", "broken"}]
  BY <1>2 DEF IInv, TypeOK
<1>4. CASE Finish(p)
  BY <1>2, <1>3, <1>4, ModestStepKeeps
<1>5. CASE journal.phase \notin {"prepared", "switched"} /\ Returned(p)
  <2>1. Local(p) /\ Knows(p)'
    BY <1>1, <1>2, <1>5, ReturnedIsLocal DEF OpenPhases
  <2> QED
    BY <1>2, <1>3, <2>1, QuietStepKeeps
<1>6. ASSUME NEW next \in {"back", "switch", "mark", "verified"},
             Accepts(journal, current), journal.phase \in {"prepared", "switched"},
             next = "switch" => journal.phase = "prepared",
             next = "mark" => journal.phase = "prepared" /\ current = journal.cand,
             next = "verified" => journal.phase = "switched",
             lock' = lock,
             proc' = [proc EXCEPT ![p].at = next, ![p].cand = journal.cand,
                                  ![p].prev = journal.prev]
      PROVE  IInv'
  <2> DEFINE r == [proc[p] EXCEPT !.at = next, !.cand = journal.cand,
                                  !.prev = journal.prev]
  <2>1. /\ r \in Slot /\ r.at = next /\ r.cmd = proc[p].cmd
        /\ r.cand = journal.cand /\ r.prev = journal.prev
    BY <1>1 DEF Slot, Places, Journals
  <2>2. proc' = [proc EXCEPT ![p] = r]
    BY <1>1, <1>6
  <2> HIDE DEF r
  <2>3. Local(p) /\ proc'[p] = r
    BY <1>1, <1>6, <2>1, <2>2, RecordIsLocal
  <2>4. next = "verified" => current = journal.cand
    BY <1>6 DEF Accepts
  <2>5. Knows(p)'
    BY <1>2, <1>6, <2>1, <2>3, <2>4 DEF Knows, Entry, OpenPhases
  <2> QED
    BY <1>2, <1>3, <2>3, <2>5, QuietStepKeeps
<1> DEFINE next ==
             CASE journal.phase = "prepared" /\ ~ Sealed(journal.cand) -> "back"
               [] journal.phase = "prepared" /\ Sealed(journal.cand) ->
                    IF current = journal.cand THEN "mark" ELSE "switch"
               [] journal.phase = "switched" /\ Sealed(journal.cand) -> "verified"
               [] OTHER -> "back"
<1>7. /\ next \in {"back", "switch", "mark", "verified"}
      /\ next = "switch" => journal.phase = "prepared"
      /\ next = "mark" => journal.phase = "prepared" /\ current = journal.cand
      /\ next = "verified" => journal.phase = "switched"
  BY DEF Sealed
<1>8. \/ Finish(p)
      \/ journal.phase \notin {"prepared", "switched"} /\ Returned(p)
      \/ /\ Accepts(journal, current) /\ journal.phase \in {"prepared", "switched"}
         /\ lock' = lock
         /\ proc' = [proc EXCEPT ![p].at = next, ![p].cand = journal.cand,
                                 ![p].prev = journal.prev]
  BY DEF Reconcile
<1> HIDE DEF next
<1> QED
  BY <1>4, <1>5, <1>6, <1>7, <1>8

(* Choosing a transaction: the previous release is the one now in use.      *)
LEMMA ChoosingKeeps ==
  ASSUME IInv, NEW p \in Procs, Candidate(p) \/ Source(p)
  PROVE  IInv'
<1>1. /\ proc \in [Procs -> Slot] /\ lock = p /\ proc[p].cmd # "update"
      /\ journal.phase \notin OpenPhases /\ current \in Pointers
  BY DEF IInv, TypeOK, Slot, MutualExclusion, Locked, Candidate, Source, SmokeFails, At, Knows
<1>2. UNCHANGED <<current, journal, seal, bad>>
  BY DEF Candidate, Source, SmokeFails
<1>3. seal' \in [Commits -> {"absent", "mutable", "sealed", "broken"}]
  BY <1>2 DEF IInv, TypeOK
<1>4. CASE Finish(p) \/ (Goto(p, "prune") /\ UNCHANGED lock)
  BY <1>1, <1>2, <1>3, <1>4, ModestStepKeeps DEF Modest
<1>5. ASSUME NEW c \in Commits, lock' = lock,
             proc' = [proc EXCEPT ![p].at = "prepare", ![p].cand = c, ![p].prev = current]
      PROVE  IInv'
  <2> DEFINE r == [proc[p] EXCEPT !.at = "prepare", !.cand = c, !.prev = current]
  <2>1. /\ r \in Slot /\ r.at = "prepare" /\ r.cmd = proc[p].cmd
        /\ r.cand = c /\ r.prev = current
    BY <1>1 DEF Slot, Places, Pointers
  <2>2. proc' = [proc EXCEPT ![p] = r]
    BY <1>1, <1>5
  <2> HIDE DEF r
  <2>3. Local(p) /\ proc'[p] = r
    BY <1>1, <1>5, <2>1, <2>2, RecordIsLocal
  <2>4. Knows(p)'
    BY <1>1, <1>2, <2>1, <2>3 DEF Knows
  <2> QED
    BY <1>2, <1>3, <2>3, <2>4, QuietStepKeeps
<1>6. \/ Finish(p) \/ (Goto(p, "prune") /\ UNCHANGED lock)
      \/ \E c \in Commits :
           /\ lock' = lock
           /\ proc' = [proc EXCEPT ![p].at = "prepare", ![p].cand = c, ![p].prev = current]
  BY DEF Candidate, Source, SmokeFails, Sealed, Previous
<1> QED
  BY <1>4, <1>5, <1>6

(* Going on to another place of the protocol.                               *)
LEMMA LockedGoto ==
  ASSUME IInv, NEW p \in Procs, proc[p].at \in Locked, NEW place \in Locked,
         Goto(p, place), lock' = lock
  PROVE  /\ Local(p) /\ lock = p
         /\ proc'[p].at = place
         /\ proc'[p].cand = proc[p].cand /\ proc'[p].prev = proc[p].prev
<1>1. lock = p
  BY DEF IInv, MutualExclusion
<1>2. Locked \subseteq Places
  BY DEF Locked, Places
<1>3. proc[p] \in Slot
  BY DEF IInv, TypeOK, Slot
<1>4. Local(p) /\ proc'[p] = [proc[p] EXCEPT !.at = place]
  BY <1>1, <1>2, GotoIsLocal
<1> QED
  BY <1>1, <1>3, <1>4 DEF Slot

LEMMA PrepareKeeps ==
  ASSUME IInv, NEW p \in Procs, Prepare(p)
  PROVE  IInv'
<1>1. /\ proc[p] \in Slot /\ proc[p].at = "prepare" /\ current' = current
      /\ journal' = [cand |-> proc[p].cand, prev |-> proc[p].prev, phase |-> "prepared"]
      /\ UNCHANGED <<seal, bad>>
  BY DEF IInv, TypeOK, Slot, Prepare, At, Record
<1>2. /\ Local(p) /\ lock = p /\ proc'[p].at = "switch"
      /\ proc'[p].cand = proc[p].cand /\ proc'[p].prev = proc[p].prev
  BY <1>1, LockedGoto DEF Prepare, Locked
<1>3. Knows(p)'
  BY <1>1, <1>2 DEF Knows, Entry
<1>4. current = proc[p].prev
  BY <1>1 DEF IInv, Knows
<1>5. PointerAllowed'
  BY <1>1, <1>4 DEF PointerAllowed, OpenPhases
<1>6. /\ current' \in Pointers /\ journal' \in Journals
      /\ seal' \in [Commits -> {"absent", "mutable", "sealed", "broken"}]
  BY <1>1 DEF IInv, TypeOK, Journals, Slot
<1> QED
  BY <1>1, <1>2, <1>3, <1>5, <1>6, StepKeeps

LEMMA SwitchKeeps ==
  ASSUME IInv, NEW p \in Procs, Switch(p)
  PROVE  IInv'
<1>1. /\ proc[p] \in Slot /\ proc[p].at = "switch" /\ current' = proc[p].cand
      /\ UNCHANGED <<journal, seal, bad>>
  BY DEF IInv, TypeOK, Slot, Switch, At
<1>2. /\ Local(p) /\ lock = p /\ proc'[p].at = "mark"
      /\ proc'[p].cand = proc[p].cand /\ proc'[p].prev = proc[p].prev
  BY <1>1, LockedGoto DEF Switch, Locked
<1>3. Entry(p, {"prepared"})
  BY <1>1 DEF IInv, Knows
<1>4. Knows(p)'
  BY <1>1, <1>2, <1>3 DEF Knows, Entry
<1>5. PointerAllowed'
  BY <1>1, <1>3 DEF PointerAllowed, OpenPhases, Entry
<1>6. /\ current' \in Pointers /\ journal' \in Journals
      /\ seal' \in [Commits -> {"absent", "mutable", "sealed", "broken"}]
  BY <1>1 DEF IInv, TypeOK, Slot
<1> QED
  BY <1>1, <1>2, <1>4, <1>5, <1>6, StepKeeps

LEMMA MarkKeeps ==
  ASSUME IInv, NEW p \in Procs, Mark(p)
  PROVE  IInv'
<1>1. /\ proc[p] \in Slot /\ proc[p].at = "mark" /\ current' = current
      /\ journal' = [cand |-> proc[p].cand, prev |-> proc[p].prev, phase |-> "switched"]
      /\ UNCHANGED <<seal, bad>>
  BY DEF IInv, TypeOK, Slot, Mark, At, Record
<1>2. /\ Local(p) /\ lock = p /\ proc'[p].at = "verify"
      /\ proc'[p].cand = proc[p].cand /\ proc'[p].prev = proc[p].prev
  BY <1>1, LockedGoto DEF Mark, Locked
<1>3. current = proc[p].cand
  BY <1>1 DEF IInv, Knows
<1>4. Knows(p)'
  BY <1>1, <1>2, <1>3 DEF Knows, Entry
<1>5. PointerAllowed'
  BY <1>1, <1>3 DEF PointerAllowed, OpenPhases
<1>6. /\ current' \in Pointers /\ journal' \in Journals
      /\ seal' \in [Commits -> {"absent", "mutable", "sealed", "broken"}]
  BY <1>1 DEF IInv, TypeOK, Journals, Slot
<1> QED
  BY <1>1, <1>2, <1>4, <1>5, <1>6, StepKeeps

LEMMA VerifyKeeps ==
  ASSUME IInv, NEW p \in Procs, Verify(p)
  PROVE  IInv'
<1>1. /\ proc[p].at = "verify" /\ UNCHANGED <<current, journal, seal, bad>>
      /\ Entry(p, {"switched"}) /\ current = proc[p].cand
  BY DEF IInv, Knows, Verify, SmokeFails, At
<1>2. seal' \in [Commits -> {"absent", "mutable", "sealed", "broken"}]
  BY <1>1 DEF IInv, TypeOK
<1>3. CASE Finish(p)
  BY <1>1, <1>2, <1>3, ModestStepKeeps
<1>4. ASSUME NEW place \in {"verified", "back"}, Goto(p, place), lock' = lock
      PROVE  IInv'
  <2>1. /\ Local(p) /\ proc'[p].at = place
        /\ proc'[p].cand = proc[p].cand /\ proc'[p].prev = proc[p].prev
    BY <1>1, <1>4, LockedGoto DEF Locked
  <2>2. Knows(p)'
    BY <1>1, <2>1 DEF Knows, Entry, OpenPhases
  <2> QED
    BY <1>1, <1>2, <2>1, <2>2, QuietStepKeeps
<1> QED
  BY <1>3, <1>4 DEF Verify, SmokeFails

(* The two records that close a transaction, before returning or ending.    *)
LEMMA ClosingKeeps ==
  ASSUME IInv, NEW p \in Procs, Verified(p) \/ WriteBack(p)
  PROVE  IInv'
<1>1. /\ proc[p] \in Slot /\ proc[p].at \in {"verified", "undone"} /\ lock = p
      /\ UNCHANGED <<current, seal, bad>>
  BY DEF IInv, TypeOK, Slot, MutualExclusion, Locked, Verified, WriteBack, At
<1>2. \/ /\ current = proc[p].cand
         /\ journal' = [cand |-> proc[p].cand, prev |-> proc[p].prev, phase |-> "post_verified"]
      \/ /\ current = proc[p].prev
         /\ journal' = [cand |-> proc[p].cand, prev |-> proc[p].prev, phase |-> "rolled_back"]
  BY DEF IInv, Knows, Verified, WriteBack, At, Record
<1>3. journal'.phase \notin OpenPhases
  BY <1>2 DEF OpenPhases
<1>4. PointerAllowed'
  BY <1>1, <1>2 DEF PointerAllowed, OpenPhases
<1>5. /\ current' \in Pointers /\ journal' \in Journals
      /\ seal' \in [Commits -> {"absent", "mutable", "sealed", "broken"}]
  BY <1>1, <1>2 DEF IInv, TypeOK, Journals, Slot
<1>6. CASE Returned(p)
  BY <1>1, <1>3, <1>6, ReturnedIsLocal, <1>4, <1>5, StepKeeps
<1>7. CASE Finish(p)
  BY <1>1, <1>7, FinishIsLocal, <1>4, <1>5, StepKeeps
<1>8. CASE Goto(p, "prune") /\ UNCHANGED lock
  <2>1. Local(p) /\ proc'[p].at = "prune"
    BY <1>1, <1>8, LockedGoto DEF Locked
  <2>2. Knows(p)'
    BY <2>1, ModestKnows DEF Modest
  <2> QED
    BY <1>1, <2>1, <2>2, <1>4, <1>5, StepKeeps
<1> QED
  BY <1>6, <1>7, <1>8 DEF Verified, WriteBack

LEMMA BackKeeps ==
  ASSUME IInv, NEW p \in Procs, Back(p)
  PROVE  IInv'
<1>1. /\ proc[p] \in Slot /\ proc[p].at = "back" /\ UNCHANGED <<journal, seal, bad>>
      /\ Entry(p, OpenPhases)
  BY DEF IInv, TypeOK, Slot, Back, At, Knows
<1>2. seal' \in [Commits -> {"absent", "mutable", "sealed", "broken"}]
  BY <1>1 DEF IInv, TypeOK
<1>3. CASE Finish(p) /\ UNCHANGED current
  BY <1>1, <1>2, <1>3, ModestStepKeeps
<1>4. CASE current' = proc[p].prev /\ Goto(p, "undone") /\ UNCHANGED lock
  <2>1. /\ Local(p) /\ lock = p /\ proc'[p].at = "undone"
        /\ proc'[p].cand = proc[p].cand /\ proc'[p].prev = proc[p].prev
    BY <1>1, <1>4, LockedGoto DEF Locked
  <2>2. Knows(p)'
    BY <1>1, <1>4, <2>1 DEF Knows, Entry
  <2>3. PointerAllowed'
    BY <1>1, <1>4 DEF PointerAllowed, OpenPhases, Entry
  <2>4. current' \in Pointers /\ journal' \in Journals
    BY <1>1, <1>4 DEF IInv, TypeOK, Slot
  <2> QED
    BY <1>1, <1>2, <2>1, <2>2, <2>3, <2>4, StepKeeps
<1> QED
  BY <1>3, <1>4 DEF Back

LEMMA CorruptKeeps ==
  ASSUME IInv, NEW c \in Commits, Corrupt(c)
  PROVE  IInv'
<1>1. UNCHANGED <<current, journal, lock, proc>>
  BY DEF Corrupt
<1>2. TypeOK'
  BY <1>1 DEF IInv, TypeOK, Corrupt
<1>3. MutualExclusion' /\ PointerAllowed' /\ \A p \in Procs : Knows(p)'
  BY <1>1 DEF IInv, MutualExclusion, PointerAllowed, Knows, Entry
<1> QED
  BY <1>2, <1>3 DEF IInv

-----------------------------------------------------------------------------
(* The invariant *)

LEMMA InitIInv == Init => IInv
<1> SUFFICES ASSUME Init PROVE IInv
  OBVIOUS
<1>1. Idle \in Slot /\ Idle.at = "idle" /\ Idle.cmd = "none"
  BY DEF Idle, Slot, Places, Commands, Pointers
<1>2. \A p \in Procs : proc[p] = Idle
  BY DEF Init
<1>3. TypeOK
  BY <1>1 DEF Init, TypeOK, Slot, Journals, NoJournal, Pointers
<1>4. MutualExclusion
  BY <1>1, <1>2 DEF MutualExclusion, Locked
<1>5. PointerAllowed
  BY DEF Init, PointerAllowed, NoJournal, OpenPhases
<1>6. \A p \in Procs : Knows(p)
  BY <1>1, <1>2 DEF Knows
<1> QED
  BY <1>3, <1>4, <1>5, <1>6 DEF IInv

LEMMA NextIInv ==
  ASSUME IInv, Updaters = {}, [Next]_vars
  PROVE  IInv'
<1>1. ASSUME NEW p \in Procs, NEW cmd \in Commands \ {"none"}, NEW goal \in Pointers,
             Start(p, cmd, goal)
      PROVE  IInv'
  BY <1>1, StartKeeps
<1>2. ASSUME NEW p \in Procs, Step(p)
      PROVE  IInv'
  BY <1>2, LockKeeps, ReconcileKeeps, ChoosingKeeps, PrepareKeeps, SwitchKeeps, MarkKeeps,
     VerifyKeeps, ClosingKeeps, BackKeeps, PruningKeeps, BuildingKeeps DEF Step
<1>3. ASSUME NEW p \in Procs, Kill(p)
      PROVE  IInv'
  BY <1>3, KillKeeps
<1>4. ASSUME NEW c \in Commits, Corrupt(c)
      PROVE  IInv'
  BY <1>4, CorruptKeeps
<1>5. CASE UNCHANGED vars
  BY <1>5 DEF IInv, TypeOK, MutualExclusion, PointerAllowed, Knows, Entry, vars
<1> QED
  BY <1>1, <1>2, <1>3, <1>4, <1>5 DEF Next

LEMMA Invariance ==
  ASSUME Updaters = {}
  PROVE  Spec => []IInv
<1>1. IInv /\ [Next]_vars => IInv'
  BY NextIInv
<1> QED
  BY InitIInv, <1>1, PTL DEF Spec

(* Every variable keeps its type.                                           *)
THEOREM TypeCorrect ==
  ASSUME Updaters = {}
  PROVE  Spec => []TypeOK
<1>1. IInv => TypeOK
  BY DEF IInv
<1> QED
  BY Invariance, <1>1, PTL

-----------------------------------------------------------------------------
(* Steps *)

(* Only two steps move the link, both between prepare and the closing       *)
(* record, by the process that holds the lock.                              *)
LEMMA MovesFollowJournal ==
  ASSUME IInv, [Next]_vars, current' # current
  PROVE  /\ journal.phase \in OpenPhases /\ journal' = journal
         /\ current' \in {journal.cand, journal.prev}
<1>1. PICK p \in Procs : Switch(p) \/ Back(p)
  BY DEF Next, Step, vars, Start, Kill, Corrupt, Lock, Reconcile, Candidate, Source,
         Prepare, Mark, Verify, SmokeFails, Verified, WriteBack, Prune, Remove, Build, Clear,
         Finalize, Chmod, Intact
<1>2. CASE Switch(p)
  BY <1>2 DEF Switch, At, IInv, Knows, Entry, OpenPhases
<1>3. CASE Back(p)
  BY <1>3 DEF Back, At, IInv, Knows, Entry, OpenPhases
<1> QED
  BY <1>1, <1>2, <1>3

(* `current` moves only under an open journal entry, to one of its two      *)
(* releases.                                                                *)
THEOREM PointerIsGuarded ==
  ASSUME Updaters = {}
  PROVE  Spec => PointerFollowsJournal
<1>1. IInv /\ [Next]_vars =>
        (current' # current => /\ journal.phase \in {"prepared", "switched"}
                               /\ journal' = journal
                               /\ current' \in {journal.cand, journal.prev})
  BY MovesFollowJournal DEF OpenPhases
<1>2. IInv /\ [Next]_vars =>
        [current' # current => /\ journal.phase \in {"prepared", "switched"}
                               /\ journal' = journal
                               /\ current' \in {journal.cand, journal.prev}]_vars
  BY <1>1
<1> QED
  BY Invariance, <1>2, PTL DEF Spec, PointerFollowsJournal

(* Four steps write the journal.                                            *)
LEMMA JournalWrites ==
  ASSUME IInv, [Next]_vars, journal' # journal
  PROVE  /\ current' = current
         /\ \/ /\ journal.phase \notin OpenPhases
               /\ \E c \in Commits :
                    journal' = [cand |-> c, prev |-> current, phase |-> "prepared"]
            \/ /\ journal.phase = "prepared"
               /\ journal' = [journal EXCEPT !.phase = "switched"]
            \/ /\ journal.phase \in OpenPhases /\ current = journal.cand
               /\ journal' = [journal EXCEPT !.phase = "post_verified"]
            \/ /\ journal.phase \in OpenPhases /\ current = journal.prev
               /\ journal' = [journal EXCEPT !.phase = "rolled_back"]
<1>1. PICK p \in Procs : Prepare(p) \/ Mark(p) \/ Verified(p) \/ WriteBack(p)
  BY DEF Next, Step, vars, Start, Kill, Corrupt, Lock, Reconcile, Candidate, Source,
         Switch, Verify, SmokeFails, Back, Prune, Remove, Build, Clear, Finalize, Chmod, Intact
<1>2. current' = current /\ journal \in Journals
  BY <1>1 DEF Prepare, Mark, Verified, WriteBack, IInv, TypeOK
<1>3. CASE Prepare(p)
  BY <1>2, <1>3 DEF Prepare, At, Record, IInv, Knows
<1>4. CASE Mark(p)
  BY <1>2, <1>4 DEF Mark, At, Record, IInv, Knows, Entry, Journals
<1>5. CASE Verified(p)
  BY <1>2, <1>5 DEF Verified, At, Record, IInv, Knows, Entry, Journals, OpenPhases
<1>6. CASE WriteBack(p)
  BY <1>2, <1>6 DEF WriteBack, At, Record, IInv, Knows, Entry, Journals, OpenPhases
<1> QED
  BY <1>1, <1>2, <1>3, <1>4, <1>5, <1>6

-----------------------------------------------------------------------------
(* Refinement *)

LEMMA TransactionState ==
  ASSUME journal \in Journals
  PROVE  /\ Transaction.cand = journal.cand /\ Transaction.prev = journal.prev
         /\ journal.phase = "none" => Transaction.state = "none"
         /\ journal.phase \in OpenPhases <=> Transaction.state = "open"
         /\ journal.phase = "post_verified" => Transaction.state = "kept"
         /\ journal.phase = "rolled_back" => Transaction.state = "undone"
         /\ Transaction = [cand |-> journal.cand, prev |-> journal.prev,
                           state |-> Transaction.state]
BY DEF Transaction, Journals, OpenPhases

LEMMA StepIsAtomic ==
  ASSUME IInv, IInv', [Next]_vars
  PROVE  [Atomic!Next]_<<current, Transaction>>
<1>1. journal \in Journals /\ journal' \in Journals
  BY DEF IInv, TypeOK
<1>2. CASE current' # current
  <2>1. /\ journal.phase \in OpenPhases /\ journal' = journal
        /\ current' \in {journal.cand, journal.prev}
    BY <1>2, MovesFollowJournal
  <2>2. Transaction' = Transaction
    BY <2>1 DEF Transaction
  <2>3. Atomic!Move
    BY <1>1, <2>1, <2>2, TransactionState DEF Atomic!Move, Atomic!Open
  <2> QED
    BY <2>3 DEF Atomic!Next
<1>3. CASE current' = current /\ journal' = journal
  BY <1>3 DEF Transaction
<1>4. CASE journal' # journal
  <2>1. current' = current
    BY <1>4, JournalWrites
  <2>2. ASSUME NEW c \in Commits, journal.phase \notin OpenPhases,
               journal' = [cand |-> c, prev |-> current, phase |-> "prepared"]
        PROVE  Atomic!Begin(c)
    <3>1. Transaction' = [cand |-> c, prev |-> current, state |-> "open"]
      BY <2>2 DEF Transaction
    <3> QED
      BY <1>1, <2>1, <2>2, <3>1, TransactionState
      DEF Atomic!Begin, Atomic!Open, Atomic!Transaction
  <2>3. CASE journal.phase = "prepared" /\ journal' = [journal EXCEPT !.phase = "switched"]
    <3>1. Transaction' = Transaction
      BY <1>1, <2>3 DEF Transaction, Journals
    <3> QED
      BY <2>1, <3>1
  <2>4. CASE /\ journal.phase \in OpenPhases /\ current = journal.cand
             /\ journal' = [journal EXCEPT !.phase = "post_verified"]
    <3>1. Transaction' = [cand |-> journal.cand, prev |-> journal.prev, state |-> "kept"]
      BY <1>1, <2>4 DEF Transaction, Journals
    <3>2. Transaction' = [Transaction EXCEPT !.state = "kept"]
      BY <1>1, <2>4, <3>1, TransactionState
    <3>3. Atomic!End
      BY <1>1, <2>1, <2>4, <3>2, TransactionState DEF Atomic!End, Atomic!Open
    <3> QED
      BY <3>3 DEF Atomic!Next
  <2>5. CASE /\ journal.phase \in OpenPhases /\ current = journal.prev
             /\ journal' = [journal EXCEPT !.phase = "rolled_back"]
    <3>1. Transaction' = [cand |-> journal.cand, prev |-> journal.prev, state |-> "undone"]
      BY <1>1, <2>5 DEF Transaction, Journals
    <3>2. Transaction' = [Transaction EXCEPT !.state = "undone"]
      BY <1>1, <2>5, <3>1, TransactionState
    <3>3. Atomic!End
      BY <1>1, <2>1, <2>5, <3>2, TransactionState DEF Atomic!End, Atomic!Open
    <3> QED
      BY <3>3 DEF Atomic!Next
  <2>6. \/ \E c \in Commits : Atomic!Begin(c)
        \/ [Atomic!Next]_<<current, Transaction>>
    BY <1>4, JournalWrites, <2>2, <2>3, <2>4, <2>5
  <2> QED
    BY <2>6 DEF Atomic!Next
<1> QED
  BY <1>2, <1>3, <1>4

LEMMA InitIsAtomic == Init => Atomic!Init
<1> SUFFICES ASSUME Init PROVE Atomic!Init
  OBVIOUS
<1>1. current = None /\ journal = [cand |-> None, prev |-> None, phase |-> "none"]
  BY DEF Init, NoJournal
<1>2. Transaction = [cand |-> None, prev |-> None, state |-> "none"]
  BY <1>1 DEF Transaction
<1> QED
  BY <1>1, <1>2 DEF Atomic!Init, Atomic!Transaction

(* Whatever the processes do and wherever they die, `current` changes hands *)
(* in transactions that are kept or undone as a whole.                      *)
THEOREM ImplementsActivation ==
  ASSUME Updaters = {}
  PROVE  Spec => Transactional
<1>1. IInv /\ IInv' /\ [Next]_vars => [Atomic!Next]_<<current, Transaction>>
  BY StepIsAtomic
<1> QED
  BY Invariance, InitIsAtomic, <1>1, PTL DEF Spec, Transactional, Atomic!Spec

-----------------------------------------------------------------------------
(* The releases the link and the journal name.  A second invariant: they   *)
(* are there and whole, or the environment damaged them.                   *)

Whole(c) == c \in bad \/ Sealed(c)

WholeIfAny(c) == c = None \/ Whole(c)

Linked ==
  /\ WholeIfAny(current) /\ WholeIfAny(journal.prev)
  /\ journal.phase \in {"prepared", "switched", "post_verified"} => Whole(journal.cand)
  /\ journal.phase = "switched" /\ bad = {} => current = journal.cand

(* The places of a process that builds.                                     *)
Building == {"build", "clear", "finalize", "chmod"}

(* What a process at work relies on.                                        *)
Relies(p) ==
  /\ proc[p].at = "prepare" => Whole(proc[p].cand) /\ WholeIfAny(proc[p].prev)
  /\ proc[p].at \in {"back", "undone"} => bad # {}
  /\ proc[p].at = "remove" => /\ journal.phase = "post_verified"
                              /\ proc[p].left \cap Keep(journal) = {}
  /\ proc[p].at \in Building => p \in Builders /\ proc[p].goal \in Commits
  /\ proc[p].at = "clear" => ~ Sealed(proc[p].goal)

UInv == Linked /\ \A p \in Procs : Relies(p)

(* The build slots never compete: at most one of them.                      *)
OneBuilder == \A p, q \in Builders : p = q

(* A process changes no other process.                                      *)
LEMMA ProcessesApart ==
  ASSUME IInv, NEW p \in Procs,
         \/ Step(p) \/ Kill(p)
         \/ \E cmd \in Commands \ {"none"}, goal \in Pointers : Start(p, cmd, goal)
  PROVE  \A q \in Procs \ {p} : proc'[q] = proc[q]
<1>1. proc \in [Procs -> Slot]
  BY DEF IInv, TypeOK, Slot
<1>2. Finish(p) => \A q \in Procs \ {p} : proc'[q] = proc[q]
  BY <1>1 DEF Finish
<1>3. \A place : Goto(p, place) => \A q \in Procs \ {p} : proc'[q] = proc[q]
  BY <1>1 DEF Goto
<1>4. Returned(p) => \A q \in Procs \ {p} : proc'[q] = proc[q]
  BY <1>1, <1>2, <1>3 DEF Returned
<1>5. Built(p) => \A q \in Procs \ {p} : proc'[q] = proc[q]
  BY <1>2, <1>3 DEF Built
<1>6. CASE Kill(p) \/ Lock(p) \/ Verify(p) \/ Back(p) \/ Clear(p) \/ Finalize(p)
  BY <1>2, <1>3, <1>6 DEF Kill, Lock, Verify, SmokeFails, Back, Clear, Finalize
<1>7. CASE Prepare(p) \/ Switch(p) \/ Mark(p)
  BY <1>3, <1>7 DEF Prepare, Switch, Mark
<1>8. CASE Verified(p) \/ WriteBack(p)
  BY <1>2, <1>3, <1>4, <1>8 DEF Verified, WriteBack
<1>9. CASE Build(p) \/ Chmod(p)
  BY <1>2, <1>3, <1>5, <1>9 DEF Build, Chmod, Intact
<1>10. CASE Reconcile(p)
  BY <1>1, <1>2, <1>4, <1>10 DEF Reconcile
<1>11. CASE Candidate(p) \/ Source(p)
  BY <1>1, <1>2, <1>3, <1>11 DEF Candidate, Source, SmokeFails
<1>12. CASE Prune(p) \/ Remove(p)
  BY <1>1, <1>2, <1>12 DEF Prune, Remove
<1>13. ASSUME NEW cmd \in Commands, NEW goal \in Pointers, Start(p, cmd, goal)
       PROVE  \A q \in Procs \ {p} : proc'[q] = proc[q]
  BY <1>1, <1>13 DEF Start
<1> QED
  BY <1>6, <1>7, <1>8, <1>9, <1>10, <1>11, <1>12, <1>13 DEF Step

(* Where a process goes: what holds there, by the action that led there.    *)
LEMMA OthersRely ==
  ASSUME IInv, UInv, OneBuilder, NEW p \in Procs,
         \A q \in Procs \ {p} : proc'[q] = proc[q],
         bad' = bad,
         lock = p \/ (journal' = journal /\ \A c : Whole(c) => Whole(c)'),
         (p \in Builders /\ proc[p].at \in Building) \/ (\A c : Sealed(c)' => Sealed(c))
  PROVE  \A q \in Procs \ {p} : Relies(q)'
<1> SUFFICES ASSUME NEW q \in Procs \ {p} PROVE Relies(q)'
  OBVIOUS
<1>1. proc'[q] = proc[q] /\ Relies(q)
  BY DEF UInv
<1>2. proc[q].at \in Locked => lock # p
  BY DEF IInv, MutualExclusion
<1>3. (proc[q].at = "prepare" => Whole(proc[q].cand) /\ WholeIfAny(proc[q].prev))'
  BY <1>1, <1>2 DEF Relies, WholeIfAny, Locked
<1>4. (proc[q].at = "remove" => /\ journal.phase = "post_verified"
                                /\ proc[q].left \cap Keep(journal) = {})'
  BY <1>1, <1>2 DEF Relies, Keep, Locked
<1>5. (proc[q].at = "clear" => ~ Sealed(proc[q].goal))'
  BY <1>1 DEF Relies, Building, OneBuilder
<1> QED
  BY <1>1, <1>3, <1>4, <1>5 DEF Relies

(* The link and the journal still name whole releases when the whole ones   *)
(* they name stay whole.                                                    *)
LEMMA LinksStay ==
  ASSUME UInv, UNCHANGED <<current, journal>>, bad \subseteq bad',
         \A c \in {current, journal.prev, journal.cand} : Whole(c) => Whole(c)'
  PROVE  Linked'
BY DEF UInv, Linked, WholeIfAny

LEMMA SameSeals ==
  ASSUME UNCHANGED <<seal, bad>>
  PROVE  /\ \A c : Whole(c)' <=> Whole(c)
         /\ \A c : Sealed(c)' <=> Sealed(c)
         /\ \A c : Present(c)' <=> Present(c)
BY DEF Whole, Sealed, Present

(* A step that moves a process and writes nothing.                          *)
LEMMA MoveRelies ==
  ASSUME IInv, UInv, OneBuilder, NEW p \in Procs,
         \A q \in Procs \ {p} : proc'[q] = proc[q],
         UNCHANGED <<current, journal, seal, bad>>, Relies(p)'
  PROVE  UInv'
<1>1. Linked'
  BY LinksStay, SameSeals
<1>2. \A q \in Procs \ {p} : Relies(q)'
  BY OthersRely, SameSeals
<1> QED
  BY <1>1, <1>2 DEF UInv

(* A place that relies on nothing.                                          *)
Free == Places \ ({"prepare", "back", "undone", "remove"} \cup Building)

LEMMA FreeRelies ==
  ASSUME NEW p \in Procs, proc'[p].at \in Free
  PROVE  Relies(p)'
BY DEF Relies, Free, Building

LEMMA FinishRelies ==
  ASSUME IInv, NEW p \in Procs, Finish(p)
  PROVE  Relies(p)'
<1>1. proc'[p] = Idle
  BY DEF Finish, IInv, TypeOK
<1>2. proc'[p].at \in Free
  BY <1>1 DEF Idle, Free, Places, Building
<1> QED
  BY <1>2, FreeRelies

LEMMA GotoRelies ==
  ASSUME IInv, NEW p \in Procs, NEW place \in Free, Goto(p, place)
  PROVE  Relies(p)'
<1>1. proc'[p].at = place
  BY DEF Goto, IInv, TypeOK
<1> QED
  BY <1>1, FreeRelies

LEMMA ReturnedRelies ==
  ASSUME IInv, NEW p \in Procs, lock = p, Returned(p)
  PROVE  Relies(p)'
<1>1. proc \in [Procs -> Slot] /\ proc[p].cmd # "update"
  BY DEF IInv, TypeOK, Slot, MutualExclusion
<1>2. CASE Finish(p)
  BY <1>2, FinishRelies
<1>3. ASSUME NEW place \in {"candidate", "source"},
             proc' = [proc EXCEPT ![p].at = place, ![p].main = TRUE]
      PROVE  Relies(p)'
  <2>1. proc'[p].at = place
    BY <1>1, <1>3 DEF Slot
  <2>2. place \in Free
    BY DEF Free, Places, Building
  <2> QED
    BY <2>1, <2>2, FreeRelies
<1> QED
  BY <1>1, <1>2, <1>3 DEF Returned

LEMMA StartRelies ==
  ASSUME IInv, UInv, OneBuilder, Updaters = {}, NEW p \in Procs,
         NEW cmd \in Commands \ {"none"}, NEW goal \in Pointers, Start(p, cmd, goal)
  PROVE  UInv'
<1>1. proc \in [Procs -> Slot] /\ cmd # "update"
  BY DEF IInv, TypeOK, Slot, Start
<1>2. UNCHANGED <<current, journal, seal, bad>>
  BY DEF Start
<1>3. CASE cmd = "build"
  <2>1. proc'[p] = [Idle EXCEPT !.cmd = cmd, !.goal = goal, !.at = "build"]
    BY <1>1, <1>3 DEF Start
  <2>2. proc'[p].at = "build" /\ proc'[p].goal = goal
    BY <2>1 DEF Idle
  <2>3. p \in Builders /\ goal \in Commits
    BY <1>3 DEF Start, Pointers
  <2>4. Relies(p)'
    BY <2>2, <2>3 DEF Relies, Building
  <2> QED
    BY <1>2, <2>4, MoveRelies, ProcessesApart
<1>4. CASE cmd # "build"
  <2>1. proc'[p] = [Idle EXCEPT !.cmd = cmd, !.goal = goal, !.at = "lock"]
    BY <1>1, <1>4 DEF Start
  <2>2. proc'[p].at \in Free
    BY <2>1 DEF Idle, Free, Places, Building
  <2> QED
    BY <1>2, <2>2, FreeRelies, MoveRelies, ProcessesApart
<1> QED
  BY <1>3, <1>4

LEMMA ReadingRelies ==
  ASSUME IInv, UInv, OneBuilder, NEW p \in Procs,
         \/ Lock(p) \/ Kill(p) \/ Verify(p) \/ Prune(p) \/ Reconcile(p)
         \/ Candidate(p) \/ Source(p) \/ Build(p)
  PROVE  UInv'
<1>1. proc \in [Procs -> Slot] /\ proc[p].cmd # "update" /\ Relies(p)
  BY DEF IInv, TypeOK, Slot, MutualExclusion, UInv
<1>2. UNCHANGED <<current, journal, seal, bad>>
  BY DEF Lock, Kill, Verify, Prune, Reconcile, Candidate, Source, SmokeFails, Build
<1>3. Finish(p) => Relies(p)'
  BY FinishRelies
<1>4. \A place \in Free : Goto(p, place) => Relies(p)'
  BY GotoRelies
<1>5. CASE Lock(p) \/ Kill(p)
  <2>1. "reconcile" \in Free
    BY DEF Free, Places, Building
  <2> QED
    BY <1>3, <1>4, <1>5, <2>1, <1>2, MoveRelies, ProcessesApart DEF Lock, Kill, Step
<1>6. CASE Verify(p)
  <2>1. "verified" \in Free
    BY DEF Free, Places, Building
  <2>2. CASE Goto(p, "back") /\ ~ Sealed(proc[p].cand)
    <3>1. journal.phase = "switched" /\ journal.cand = proc[p].cand
      BY <1>6 DEF Verify, SmokeFails, At, IInv, Knows, Entry
    <3>2. bad # {}
      BY <2>2, <3>1 DEF UInv, Linked, Whole
    <3>3. proc'[p].at = "back"
      BY <1>1, <2>2 DEF Goto, Slot
    <3> QED
      BY <1>2, <3>2, <3>3, <1>6, MoveRelies, ProcessesApart DEF Relies, Step, Building
  <2>3. CASE Finish(p) \/ Goto(p, "verified")
    BY <1>2, <1>3, <1>4, <1>6, <2>1, <2>3, MoveRelies, ProcessesApart DEF Step
  <2> QED
    BY <1>6, <2>2, <2>3 DEF Verify, SmokeFails
<1>7. CASE Prune(p)
  <2>1. CASE Finish(p)
    BY <1>2, <1>3, <1>7, <2>1, MoveRelies, ProcessesApart DEF Step
  <2>2. CASE /\ journal.phase = "post_verified"
             /\ proc' = [proc EXCEPT ![p].at = "remove", ![p].left = Old]
    <3>1. proc'[p].at = "remove" /\ proc'[p].left = Old
      BY <1>1, <2>2 DEF Slot
    <3>2. Keep(journal)' = Keep(journal) /\ Old \cap Keep(journal) = {}
      BY <1>2 DEF Keep, Old
    <3>3. Relies(p)'
      BY <1>2, <2>2, <3>1, <3>2 DEF Relies, Building
    <3> QED
      BY <1>2, <1>7, <3>3, MoveRelies, ProcessesApart DEF Step
  <2> QED
    BY <1>7, <2>1, <2>2 DEF Prune
<1>8. CASE Reconcile(p)
  <2>1. lock = p
    BY <1>8 DEF Reconcile, At, IInv, MutualExclusion, Locked
  <2>2. CASE Finish(p) \/ Returned(p)
    BY <1>2, <1>3, <1>8, <2>1, <2>2, ReturnedRelies, MoveRelies, ProcessesApart DEF Step
  <2>3. ASSUME NEW next \in {"back", "mark", "switch", "verified"},
               journal.phase \in {"prepared", "switched"},
               next = "back" => ~ Sealed(journal.cand),
               proc' = [proc EXCEPT ![p].at = next, ![p].cand = journal.cand,
                                    ![p].prev = journal.prev]
        PROVE  UInv'
    <3>1. proc'[p].at = next
      BY <1>1, <2>3 DEF Slot
    <3>2. next = "back" => bad # {}
      BY <2>3 DEF UInv, Linked, Whole
    <3>3. Relies(p)'
      BY <1>2, <3>1, <3>2 DEF Relies, Building
    <3> QED
      BY <1>2, <1>8, <3>3, MoveRelies, ProcessesApart DEF Step
  <2> QED
    BY <1>8, <2>2, <2>3 DEF Reconcile
<1>9. ASSUME NEW c, Sealed(c),
             proc' = [proc EXCEPT ![p].at = "prepare", ![p].cand = c,
                                  ![p].prev = Previous],
             Candidate(p) \/ Source(p)
      PROVE  UInv'
  <2>1. proc'[p].at = "prepare" /\ proc'[p].cand = c /\ proc'[p].prev = current
    BY <1>1, <1>9 DEF Slot, Previous
  <2>2. Whole(c)' /\ WholeIfAny(current)'
    BY <1>2, <1>9, SameSeals DEF UInv, Linked, Whole, WholeIfAny
  <2>3. Relies(p)'
    BY <1>2, <2>1, <2>2 DEF Relies, Building, WholeIfAny
  <2> QED
    BY <1>2, <1>9, <2>3, MoveRelies, ProcessesApart DEF Step
<1>10. CASE Candidate(p) \/ Source(p)
  <2>1. "prune" \in Free
    BY DEF Free, Places, Building
  <2>2. CASE Finish(p) \/ Goto(p, "prune")
    BY <1>2, <1>3, <1>4, <1>10, <2>1, <2>2, MoveRelies, ProcessesApart DEF Step
  <2> QED
    BY <1>9, <1>10, <2>2 DEF Candidate, Source, SmokeFails
<1>11. CASE Build(p)
  <2>1. p \in Builders /\ proc[p].goal \in Commits
    BY <1>1, <1>11 DEF Relies, Building, Build, At
  <2>2. Built(p) => Finish(p)
    BY <1>1 DEF Built
  <2>3. ASSUME NEW place \in {"chmod", "finalize", "clear"}, Goto(p, place),
               place = "clear" => seal[proc[p].goal] = "broken"
        PROVE  Relies(p)'
    <3>1. proc'[p].at = place /\ proc'[p].goal = proc[p].goal
      BY <1>1, <2>3 DEF Goto, Slot
    <3> QED
      BY <1>2, <2>1, <2>3, <3>1 DEF Relies, Building, Sealed
  <2>4. Relies(p)'
    BY <1>3, <1>11, <2>2, <2>3 DEF Build
  <2> QED
    BY <1>2, <1>11, <2>4, MoveRelies, ProcessesApart DEF Step
<1> QED
  BY <1>5, <1>6, <1>7, <1>8, <1>10, <1>11

(* The process at work writes the link or the journal.                      *)
LEMMA WritingRelies ==
  ASSUME IInv, UInv, OneBuilder, NEW p \in Procs,
         \/ Prepare(p) \/ Switch(p) \/ Mark(p) \/ Verified(p) \/ Back(p) \/ WriteBack(p)
  PROVE  UInv'
<1>1. /\ proc \in [Procs -> Slot] /\ proc[p].cmd # "update" /\ Relies(p) /\ Knows(p)
      /\ lock = p
  BY DEF IInv, TypeOK, Slot, MutualExclusion, UInv, Locked, Prepare, Switch, Mark,
         Verified, Back, WriteBack, At
<1>2. UNCHANGED <<seal, bad>>
  BY DEF Prepare, Switch, Mark, Verified, Back, WriteBack
<1>3. /\ \A c : Whole(c)' <=> Whole(c)
      /\ \A c : Sealed(c)' <=> Sealed(c)
  BY <1>2, SameSeals
<1>4. \A q \in Procs \ {p} : Relies(q)'
  BY <1>1, <1>2, <1>3, ProcessesApart, OthersRely DEF Step
<1>5. Linked
  BY DEF UInv
<1>6. CASE Prepare(p)
  <2>1. /\ current' = current /\ proc[p].at = "prepare"
        /\ journal' = [cand |-> proc[p].cand, prev |-> proc[p].prev, phase |-> "prepared"]
    BY <1>6 DEF Prepare, Record, At
  <2>2. Linked'
    BY <1>1, <1>3, <1>5, <2>1 DEF Linked, WholeIfAny, Relies
  <2>3. "switch" \in Free
    BY DEF Free, Places, Building
  <2> QED
    BY <1>4, <1>6, <2>2, <2>3, GotoRelies DEF UInv, Prepare
<1>7. CASE Switch(p)
  <2>1. /\ current' = journal.cand /\ journal' = journal /\ journal.phase = "prepared"
    BY <1>1, <1>7 DEF Switch, At, Knows, Entry
  <2>2. Linked'
    BY <1>2, <1>3, <1>5, <2>1 DEF Linked, WholeIfAny
  <2>3. "mark" \in Free
    BY DEF Free, Places, Building
  <2> QED
    BY <1>4, <1>7, <2>2, <2>3, GotoRelies DEF UInv, Switch
<1>8. CASE Mark(p)
  <2>1. /\ current' = current /\ journal.phase = "prepared" /\ current = journal.cand
        /\ journal' = [cand |-> journal.cand, prev |-> journal.prev, phase |-> "switched"]
    BY <1>1, <1>8 DEF Mark, Record, At, Knows, Entry
  <2>2. Linked'
    BY <1>2, <1>3, <1>5, <2>1 DEF Linked, WholeIfAny
  <2>3. "verify" \in Free
    BY DEF Free, Places, Building
  <2> QED
    BY <1>4, <1>8, <2>2, <2>3, GotoRelies DEF UInv, Mark
<1>9. CASE Verified(p)
  <2>1. /\ current' = current /\ journal.phase = "switched"
        /\ journal' = [cand |-> journal.cand, prev |-> journal.prev,
                       phase |-> "post_verified"]
    BY <1>1, <1>9 DEF Verified, Record, At, Knows, Entry
  <2>2. Linked'
    BY <1>3, <1>5, <2>1 DEF Linked, WholeIfAny
  <2>3. "prune" \in Free
    BY DEF Free, Places, Building
  <2>4. Relies(p)'
    BY <1>1, <1>9, <2>3, FinishRelies, GotoRelies, ReturnedRelies DEF Verified
  <2> QED
    BY <1>4, <2>2, <2>4 DEF UInv
<1>10. CASE Back(p)
  <2>1. /\ journal' = journal /\ journal.prev = proc[p].prev /\ bad # {}
    BY <1>1, <1>10 DEF Back, At, Knows, Entry, Relies
  <2>2. CASE Finish(p) /\ UNCHANGED current
    <3>1. Linked'
      BY <1>3, <2>1, <2>2, <1>2, LinksStay
    <3> QED
      BY <1>4, <2>2, <3>1, FinishRelies DEF UInv
  <2>3. CASE Goto(p, "undone") /\ current' = journal.prev
    <3>1. Linked'
      BY <1>2, <1>3, <1>5, <2>1, <2>3 DEF Linked, WholeIfAny
    <3>2. proc'[p].at = "undone"
      BY <1>1, <2>3 DEF Goto, Slot
    <3>3. Relies(p)'
      BY <1>2, <2>1, <3>2 DEF Relies, Building
    <3> QED
      BY <1>4, <3>1, <3>3 DEF UInv
  <2> QED
    BY <1>10, <2>1, <2>2, <2>3 DEF Back
<1>11. CASE WriteBack(p)
  <2>1. /\ current' = current
        /\ journal' = [cand |-> journal.cand, prev |-> journal.prev,
                       phase |-> "rolled_back"]
    BY <1>1, <1>11 DEF WriteBack, Record, At, Knows, Entry
  <2>2. Linked'
    BY <1>3, <1>5, <2>1 DEF Linked, WholeIfAny
  <2>3. Relies(p)'
    BY <1>1, <1>11, FinishRelies, ReturnedRelies DEF WriteBack
  <2> QED
    BY <1>4, <2>2, <2>3 DEF UInv
<1> QED
  BY <1>6, <1>7, <1>8, <1>9, <1>10, <1>11

(* Pruning removes a release the journal does not keep, under the lock.     *)
LEMMA RemovingRelies ==
  ASSUME IInv, UInv, OneBuilder, NEW p \in Procs, Remove(p)
  PROVE  UInv'
<1>1. /\ proc \in [Procs -> Slot] /\ Relies(p) /\ lock = p /\ proc[p].at = "remove"
      /\ seal \in [Commits -> {"absent", "mutable", "sealed", "broken"}]
      /\ PointerAllowed
  BY DEF IInv, TypeOK, Slot, MutualExclusion, UInv, Locked, Remove, At
<1>2. /\ UNCHANGED <<current, journal, bad>> /\ journal.phase = "post_verified"
      /\ current = journal.cand /\ proc[p].left \cap Keep(journal) = {}
  BY <1>1 DEF Remove, Relies, PointerAllowed
<1>3. PICK c \in proc[p].left, outcome \in {"absent", "broken"} :
        /\ seal' = [seal EXCEPT ![c] = IF @ = "absent" THEN @ ELSE outcome]
        /\ IF proc[p].left = {c}
           THEN Finish(p)
           ELSE proc' = [proc EXCEPT ![p].left = @ \ {c}] /\ UNCHANGED lock
  BY DEF Remove
<1>4. c \in Commits
  BY <1>1, <1>3 DEF Slot
<1>5. \A d \in Commits : seal'[d] = "sealed" => seal[d] = "sealed"
  BY <1>1, <1>3, <1>4
<1>6. \A d \in Commits \ {c} : seal'[d] = seal[d]
  BY <1>1, <1>3, <1>4
<1>7. \A d : Sealed(d)' => Sealed(d)
  BY <1>5 DEF Sealed
<1>8. \A d \in Keep(journal) : Whole(d) => Whole(d)'
  BY <1>2, <1>6 DEF Whole, Sealed
<1>9. Linked'
  BY <1>2, <1>8, LinksStay DEF Keep
<1>10. \A q \in Procs \ {p} : Relies(q)'
  BY <1>1, <1>2, <1>7, ProcessesApart, OthersRely DEF Step
<1>11. Relies(p)'
  <2>1. CASE Finish(p)
    BY <2>1, FinishRelies
  <2>2. CASE proc' = [proc EXCEPT ![p].left = @ \ {c}]
    <3>1. proc'[p].at = "remove" /\ proc'[p].left = proc[p].left \ {c}
      BY <1>1, <2>2 DEF Slot
    <3>2. Keep(journal)' = Keep(journal)
      BY <1>2 DEF Keep
    <3> QED
      BY <1>2, <3>1, <3>2 DEF Relies, Building
  <2> QED
    BY <1>3, <2>1, <2>2
<1> QED
  BY <1>9, <1>10, <1>11 DEF UInv

(* The one slot that builds opens only a release nobody seals meanwhile.    *)
LEMMA BuildingRelies ==
  ASSUME IInv, UInv, OneBuilder, NEW p \in Procs, Clear(p) \/ Finalize(p) \/ Chmod(p)
  PROVE  UInv'
<1> DEFINE goal == proc[p].goal
<1>1. /\ proc \in [Procs -> Slot] /\ Relies(p) /\ proc[p].cmd # "update"
      /\ seal \in [Commits -> {"absent", "mutable", "sealed", "broken"}]
      /\ UNCHANGED <<current, journal, bad>>
  BY DEF IInv, TypeOK, Slot, MutualExclusion, UInv, Clear, Finalize, Chmod
<1>2. p \in Builders /\ goal \in Commits /\ proc[p].at \in Building
  BY <1>1 DEF Relies, Building, Clear, Finalize, Chmod, At
<1>3. \A c : Sealed(c) => Sealed(c)'
  <2>1. CASE Clear(p)
    <3>1. ~ Sealed(goal)
      BY <1>1, <2>1 DEF Clear, At, Relies
    <3>2. \A c \in Commits \ {goal} : seal'[c] = seal[c]
      BY <1>1, <2>1 DEF Clear
    <3> QED
      BY <3>1, <3>2 DEF Sealed
  <2>2. CASE Finalize(p) \/ Chmod(p)
    <3>1. \A c \in Commits : seal[c] = "sealed" => seal'[c] = "sealed"
      BY <1>1, <1>2, <2>2 DEF Finalize, Chmod, Intact
    <3> QED
      BY <3>1 DEF Sealed
  <2> QED
    BY <2>1, <2>2
<1>4. \A c : Whole(c) => Whole(c)'
  BY <1>1, <1>3 DEF Whole
<1>5. Linked'
  BY <1>1, <1>4, LinksStay
<1>6. \A q \in Procs \ {p} : Relies(q)'
  BY <1>1, <1>2, <1>4, ProcessesApart, OthersRely DEF Step
<1>7. Relies(p)'
  <2>1. Built(p) => Finish(p)
    BY <1>1 DEF Built
  <2>2. ASSUME NEW place \in {"chmod", "finalize"}, Goto(p, place) PROVE Relies(p)'
    <3>1. proc'[p].at = place /\ proc'[p].goal = goal
      BY <1>1, <2>2 DEF Goto, Slot
    <3> QED
      BY <1>2, <3>1 DEF Relies, Building
  <2> QED
    BY <2>1, <2>2, FinishRelies DEF Clear, Finalize, Chmod
<1> QED
  BY <1>5, <1>6, <1>7 DEF UInv

LEMMA CorruptRelies ==
  ASSUME IInv, UInv, NEW c \in Commits, Corrupt(c)
  PROVE  UInv'
<1>1. /\ UNCHANGED <<current, journal, lock, proc>> /\ bad' = bad \cup {c}
      /\ seal' = [seal EXCEPT ![c] = "broken"]
      /\ seal \in [Commits -> {"absent", "mutable", "sealed", "broken"}]
  BY DEF Corrupt, IInv, TypeOK
<1>2. \A d : Whole(d) => Whole(d)'
  BY <1>1 DEF Whole, Sealed
<1>3. \A d : Sealed(d)' => Sealed(d)
  BY <1>1 DEF Sealed
<1>4. Linked'
  BY <1>1, <1>2, LinksStay
<1>5. \A p \in Procs : Relies(p)'
  BY <1>1, <1>2, <1>3 DEF UInv, Relies, WholeIfAny, Keep
<1> QED
  BY <1>4, <1>5 DEF UInv

LEMMA InitUInv == Init => UInv
<1> SUFFICES ASSUME Init PROVE UInv
  OBVIOUS
<1>1. \A p \in Procs : proc[p].at = "idle"
  BY DEF Init, Idle
<1>2. Linked
  BY DEF Init, Linked, NoJournal, WholeIfAny
<1>3. \A p \in Procs : Relies(p)
  BY <1>1 DEF Relies, Building
<1> QED
  BY <1>2, <1>3 DEF UInv

LEMMA NextUInv ==
  ASSUME IInv, UInv, Updaters = {}, OneBuilder, [Next]_vars
  PROVE  UInv'
<1>1. CASE \E p \in Procs : \E cmd \in Commands \ {"none"}, goal \in Pointers :
             Start(p, cmd, goal)
  BY <1>1, StartRelies
<1>2. ASSUME NEW p \in Procs, Step(p)
      PROVE  UInv'
  BY <1>2, ReadingRelies, WritingRelies, RemovingRelies, BuildingRelies DEF Step
<1>3. CASE \E p \in Procs : Kill(p)
  BY <1>3, ReadingRelies
<1>4. CASE \E c \in Commits : Corrupt(c)
  BY <1>4, CorruptRelies
<1>5. CASE UNCHANGED vars
  BY <1>5 DEF vars, UInv, Linked, Relies, Whole, WholeIfAny, Sealed, Keep
<1> QED
  BY <1>1, <1>2, <1>3, <1>4, <1>5 DEF Next

(* The link and the previous release of a kept activation are whole unless  *)
(* damaged from outside, whatever builds, prunes, activates and dies        *)
(* meanwhile, as long as only one slot builds: with two, TLC shows a build  *)
(* that clears the release another one has just activated.                  *)
THEOREM ReleasesStayUsable ==
  ASSUME Updaters = {}, OneBuilder
  PROVE  Spec => []ReleasesUsable
<1>1. IInv /\ UInv /\ [Next]_vars => IInv' /\ UInv'
  BY NextIInv, NextUInv
<1>2. UInv => ReleasesUsable
  BY DEF UInv, Linked, ReleasesUsable, WholeIfAny, Whole
<1> QED
  BY <1>1, <1>2, InitIInv, InitUInv, PTL DEF Spec

(* As long as no release is damaged, a crash before any durable write       *)
(* leaves a state that the next reconciliation accepts.                     *)
THEOREM CrashesReconcile ==
  ASSUME Updaters = {}, OneBuilder
  PROVE  Spec => []Reconcilable
<1>1. IInv /\ UInv /\ [Next]_vars => IInv' /\ UInv'
  BY NextIInv, NextUInv
<1>2. IInv /\ UInv => Reconcilable
  <2> SUFFICES ASSUME IInv, UInv, bad = {} PROVE Accepts(journal, current)
    BY DEF Reconcilable
  <2>1. PointerAllowed /\ Linked
        /\ journal.phase \in {"none", "prepared", "switched", "post_verified", "rolled_back"}
    BY DEF IInv, UInv, TypeOK, Journals
  <2>2. \A c : Whole(c) => Present(c)
    BY DEF Whole, Sealed, Present
  <2> QED
    BY <2>1, <2>2 DEF PointerAllowed, Linked, Accepts, WholeIfAny, OpenPhases
<1> QED
  BY <1>1, <1>2, InitIInv, InitUInv, PTL DEF Spec
=============================================================================
