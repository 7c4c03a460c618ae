------------------------------ MODULE Release ------------------------------
(***************************************************************************)
(* Immutable releases and their activation: scripts/release_manager.py and *)
(* scripts/update_manager.py, run by the installer, by the administrator   *)
(* and, before every start of the appliance, by systemd.                   *)
(*                                                                         *)
(* Three things survive a crash: the link `current`, the one activation    *)
(* journal record, and the release directories.  Each is replaced          *)
(* atomically on its own, never together, so a process can die between any *)
(* two of its writes.  One step below is one durable write, or the reads a *)
(* process makes before its next write.                                    *)
(***************************************************************************)
EXTENDS FiniteSets, Naturals

CONSTANTS
  Commits,    \* the release identities in play
  None,       \* no commit: `current` absent, or previous_commit "none"
  Procs,      \* process slots: a slot runs one command after another
  Builders,   \* the slots that may build releases
  Updaters,   \* the slots that may run the updater
  MaxBad      \* releases the environment may damage after they were sealed

ASSUME CommitsAssumption == None \notin Commits
ASSUME ProcsAssumption ==
  Updaters \subseteq Builders /\ Builders \subseteq Procs /\ None \notin Procs
ASSUME BadAssumption == MaxBad \in Nat

VARIABLES
  current,    \* the commit `current` points to, or None
  journal,    \* activation.record: [cand, prev, phase]
  seal,       \* each release directory: absent, mutable (renamed in place but
              \* its top directory still writable), sealed (passes
              \* validate_release_static) or broken (present, does not pass)
  lock,       \* the slot that holds maintenance.lock, or None
  proc,       \* what each slot is doing: command, position and local variables
  bad         \* the releases the environment has damaged

vars == <<current, journal, seal, lock, proc, bad>>

Pointers == Commits \cup {None}

Journals == [cand: Pointers, prev: Pointers,
             phase: {"none", "prepared", "switched", "post_verified", "rolled_back"}]

NoJournal == [cand |-> None, prev |-> None, phase |-> "none"]

(* The position a slot has reached; "main" is set once the reconciliation  *)
(* that opens activate and rollback-previous has returned.                 *)
Places == {"idle", "lock", "reconcile", "switch", "mark", "verify", "verified",
           "back", "undone", "candidate", "source", "prepare", "prune", "remove",
           "build", "clear", "finalize", "chmod"}

Commands == {"none", "build", "activate", "reconcile", "rollback", "update"}

Idle == [at |-> "idle", cmd |-> "none", goal |-> None, cand |-> None,
         prev |-> None, main |-> FALSE, left |-> {}]

-----------------------------------------------------------------------------
(* Helpers *)

Present(c) == c \in Commits /\ seal[c] # "absent"

Sealed(c) == c \in Commits /\ seal[c] = "sealed"

(* The payload is what release.record names, the top directory open or not. *)
Intact(c) == seal[c] \in {"mutable", "sealed"}

At(p, place) == proc[p].at = place

Goto(p, place) == proc' = [proc EXCEPT ![p].at = place]

(* The command ends, well or with an error: the lock goes with the process. *)
Finish(p) == /\ proc' = [proc EXCEPT ![p] = Idle]
             /\ lock' = IF lock = p THEN None ELSE lock

(* One atomic, durable replacement; a temporary file left behind is removed *)
(* by the next one.                                                         *)
Record(c, q, phase) == journal' = [cand |-> c, prev |-> q, phase |-> phase]

(* Takes a crash behind the switch for an inconsistency.                    *)
AcceptsUnswitched(j, pointer) ==
  CASE j.phase = "none"          -> pointer = None
    [] j.phase = "prepared"      -> pointer = j.prev
    [] j.phase = "switched"      -> pointer = j.cand
    [] j.phase = "post_verified" -> pointer = j.cand /\ Present(j.cand)
    [] j.phase = "rolled_back"   -> pointer = j.prev /\ (j.prev = None \/ Present(j.prev))

(* What a reconciliation that starts now finds consistent: the journal's   *)
(* phase fixes where `current` may point, and a settled phase needs its     *)
(* release directory.  Anything else is ACTIVATION_AMBIGUOUS or             *)
(* ACTIVATION_SOURCE_MISSING, and nothing the code does leaves that state.  *)
Accepts(j, pointer) ==
  CASE j.phase = "none"          -> pointer = None
    [] j.phase = "prepared"      -> pointer \in {j.prev, j.cand}
    [] j.phase = "switched"      -> pointer = j.cand
    [] j.phase = "post_verified" -> pointer = j.cand /\ Present(j.cand)
    [] j.phase = "rolled_back"   -> pointer = j.prev /\ (j.prev = None \/ Present(j.prev))

-----------------------------------------------------------------------------
(* Commands and the maintenance lock *)

(* A command starts.  A build takes no lock; the updater reconciles before  *)
(* it takes one.                                                            *)
Start(p, cmd, goal) ==
  /\ At(p, "idle")
  /\ cmd = "build" => p \in Builders
  /\ cmd = "update" => p \in Updaters
  /\ goal = None <=> cmd \in {"reconcile", "rollback"}
  /\ proc' = [proc EXCEPT ![p] = [Idle EXCEPT
       !.cmd = cmd, !.goal = goal,
       !.at = CASE cmd = "build" -> "build" [] cmd = "update" -> "reconcile" [] OTHER -> "lock"]]
  /\ UNCHANGED <<current, journal, seal, lock, bad>>

Lock(p) ==
  /\ At(p, "lock")
  /\ \/ lock = None /\ lock' = p /\ Goto(p, "reconcile")
     \/ lock # None /\ Finish(p)                     \* ACTIVATION_BUSY
  /\ UNCHANGED <<current, journal, seal, bad>>

(* The process dies, or a write of its raises, before its next write.       *)
Kill(p) ==
  /\ ~ At(p, "idle")
  /\ Finish(p)
  /\ UNCHANGED <<current, journal, seal, bad>>

-----------------------------------------------------------------------------
(* Reconciliation *)

(* reconcile() has returned, or raised nothing: what its caller does next.  *)
Returned(p) ==
  CASE proc[p].cmd = "update" /\ lock # p ->
         IF current = proc[p].goal THEN Finish(p)
         ELSE Goto(p, "build") /\ UNCHANGED lock
    [] proc[p].cmd \in {"activate", "update"} /\ lock = p ->
         proc' = [proc EXCEPT ![p].at = "candidate", ![p].main = TRUE] /\ UNCHANGED lock
    [] proc[p].cmd = "rollback" ->
         proc' = [proc EXCEPT ![p].at = "source", ![p].main = TRUE] /\ UNCHANGED lock
    [] OTHER -> Finish(p)

(* Read journal, pointer and candidate seal, and choose the first write.    *)
Reconcile(p) ==
  /\ At(p, "reconcile")
  /\ LET next ==
           CASE journal.phase = "prepared" /\ ~ Sealed(journal.cand) -> "back"
             [] journal.phase = "prepared" /\ Sealed(journal.cand) ->
                  IF current = journal.cand THEN "mark" ELSE "switch"
             [] journal.phase = "switched" /\ Sealed(journal.cand) -> "verified"
             [] OTHER -> "back"
     IN \/ ~ Accepts(journal, current) /\ Finish(p)
        \/ /\ Accepts(journal, current)
           /\ journal.phase \notin {"prepared", "switched"}
           /\ Returned(p)
        \/ /\ Accepts(journal, current)
           /\ journal.phase \in {"prepared", "switched"}
           /\ proc' = [proc EXCEPT ![p].at = next, ![p].cand = journal.cand,
                                   ![p].prev = journal.prev]
           /\ UNCHANGED lock
  /\ UNCHANGED <<current, journal, seal, bad>>

-----------------------------------------------------------------------------
(* The activation protocol: prepared, switch, switched, check, post_verified *)

PreviousOfJournal == journal.prev       \* the last activation's, gone stale

(* The release a new activation names as its previous one.                  *)
Previous == current

(* activate: only a sealed candidate; a release already active and verified *)
(* goes straight to pruning.                                                *)
Candidate(p) ==
  LET goal == proc[p].goal IN
  /\ At(p, "candidate")
  /\ \/ ~ Sealed(goal) /\ Finish(p)
     \/ /\ Sealed(goal)
        /\ current = goal /\ journal.phase = "post_verified" /\ journal.cand = goal
        /\ Goto(p, "prune") /\ UNCHANGED lock
     \/ /\ Sealed(goal)
        /\ ~ (current = goal /\ journal.phase = "post_verified" /\ journal.cand = goal)
        /\ proc' = [proc EXCEPT ![p].at = "prepare", ![p].cand = goal, ![p].prev = Previous]
        /\ UNCHANGED lock
  /\ UNCHANGED <<current, journal, seal, bad>>

(* The command that validates a release by running it, too: its interpreter *)
(* and CLI as the service user, its packages, its hardware bindings.  Any   *)
(* of it may fail under an intact seal, and the error escapes.              *)
Executes(p) == proc[p].cmd = "rollback" /\ proc[p].main

SmokeFails(p) == Executes(p) /\ Finish(p)

(* rollback-previous: the candidate is the recorded previous release, and   *)
(* the release it replaces becomes the previous one.                        *)
Source(p) ==
  LET ready == /\ journal.phase = "post_verified" /\ current = journal.cand
               /\ Sealed(journal.prev)
  IN
  /\ At(p, "source")
  /\ \/ ~ ready /\ Finish(p)
     \/ ready /\ SmokeFails(p)
     \/ /\ ready
        /\ proc' = [proc EXCEPT ![p].at = "prepare", ![p].cand = journal.prev,
                                ![p].prev = Previous]
        /\ UNCHANGED lock
  /\ UNCHANGED <<current, journal, seal, bad>>

(* The link is replaced before the journal announces it.                    *)
PrepareLinkFirst(p) ==
  /\ At(p, "prepare")
  /\ current' = proc[p].cand
  /\ Goto(p, "mark")
  /\ UNCHANGED <<journal, seal, lock, bad>>

Prepare(p) ==
  /\ At(p, "prepare")
  /\ Record(proc[p].cand, proc[p].prev, "prepared")
  /\ Goto(p, "switch")
  /\ UNCHANGED <<current, seal, lock, bad>>

Switch(p) ==
  /\ At(p, "switch")
  /\ current' = proc[p].cand
  /\ Goto(p, "mark")
  /\ UNCHANGED <<journal, seal, lock, bad>>

Mark(p) ==
  /\ At(p, "mark")
  /\ Record(proc[p].cand, proc[p].prev, "switched")
  /\ Goto(p, "verify")
  /\ UNCHANGED <<current, seal, lock, bad>>

(* The candidate is checked again behind the link.  Only an operator's      *)
(* rollback lets a failure escape and leaves the journal at "switched".     *)
Verify(p) ==
  /\ At(p, "verify")
  /\ \/ Sealed(proc[p].cand) /\ Goto(p, "verified") /\ UNCHANGED lock
     \/ Sealed(proc[p].cand) /\ SmokeFails(p)
     \/ ~ Sealed(proc[p].cand) /\ Executes(p) /\ Finish(p)
     \/ ~ Sealed(proc[p].cand) /\ ~ Executes(p) /\ Goto(p, "back") /\ UNCHANGED lock
  /\ UNCHANGED <<current, journal, seal, bad>>

Verified(p) ==
  /\ At(p, "verified")
  /\ Record(proc[p].cand, proc[p].prev, "post_verified")
  /\ \/ ~ proc[p].main /\ Returned(p)
     \/ proc[p].main /\ proc[p].cmd = "rollback" /\ Finish(p)
     \/ proc[p].main /\ proc[p].cmd # "rollback" /\ Goto(p, "prune") /\ UNCHANGED lock
  /\ UNCHANGED <<current, seal, bad>>

(* rollback(): the link goes back first, the journal follows. *)
Back(p) ==
  LET prev == proc[p].prev IN
  /\ At(p, "back")
  /\ \/ /\ prev = None \/ Present(prev)
        /\ current' = prev
        /\ Goto(p, "undone")
        /\ UNCHANGED lock
     \/ prev # None /\ ~ Present(prev) /\ Finish(p) /\ UNCHANGED current
  /\ UNCHANGED <<journal, seal, bad>>

WriteBack(p) ==
  /\ At(p, "undone")
  /\ Record(proc[p].cand, proc[p].prev, "rolled_back")
  /\ \/ ~ proc[p].main /\ Returned(p)
     \/ proc[p].main /\ Finish(p)                    \* activate re-raises
  /\ UNCHANGED <<current, seal, bad>>

-----------------------------------------------------------------------------
(* Pruning, still under the lock *)

KeepPrevious(j) == {j.prev}             \* forgets the active release

Keep(j) == {j.cand, j.prev}

OldEntries == Pointers \ Keep(journal)  \* not only release directories

Old == {c \in Commits : Present(c)} \ Keep(journal)

Prune(p) ==
  /\ At(p, "prune")
  /\ \/ (journal.phase # "post_verified" \/ Old = {}) /\ Finish(p)
     \/ /\ journal.phase = "post_verified" /\ Old # {}
        /\ proc' = [proc EXCEPT ![p].at = "remove", ![p].left = Old]
        /\ UNCHANGED lock
  /\ UNCHANGED <<current, journal, seal, bad>>

(* rmtree of one historical release; it may stop half-way, by an error that *)
(* pruning skips or by the death of the process.                            *)
Remove(p) ==
  /\ At(p, "remove")
  /\ \E c \in proc[p].left, outcome \in {"absent", "broken"} :
       /\ seal' = [seal EXCEPT ![c] = IF @ = "absent" THEN @ ELSE outcome]
       /\ IF proc[p].left = {c}
          THEN Finish(p)
          ELSE proc' = [proc EXCEPT ![p].left = @ \ {c}] /\ UNCHANGED lock
  /\ UNCHANGED <<current, journal, bad>>

-----------------------------------------------------------------------------
(* Building a release, without the lock *)

Built(p) == IF proc[p].cmd = "update" THEN Goto(p, "lock") /\ UNCHANGED lock
            ELSE Finish(p)

(* What build_release finds in its destination.                             *)
Build(p) ==
  LET goal == proc[p].goal IN
  /\ At(p, "build")
  /\ \/ seal[goal] = "sealed"  /\ Built(p)
     \/ seal[goal] = "mutable" /\ Goto(p, "chmod") /\ UNCHANGED lock
     \/ seal[goal] = "absent"  /\ Goto(p, "finalize") /\ UNCHANGED lock
     \/ seal[goal] = "broken"  /\ current = goal /\ Finish(p)
     \/ seal[goal] = "broken"  /\ current # goal /\ Goto(p, "clear") /\ UNCHANGED lock
  /\ UNCHANGED <<current, journal, seal, bad>>

Clear(p) ==
  /\ At(p, "clear")
  /\ seal' = [seal EXCEPT ![proc[p].goal] = "absent"]
  /\ Goto(p, "finalize")
  /\ UNCHANGED <<current, journal, lock, bad>>

(* The candidate is fetched, built, filled, tested and recorded in a        *)
(* workspace of its own, where a failure leaves nothing behind; then it is  *)
(* frozen and renamed.  Its top directory is closed one step later.         *)
Finalize(p) ==
  LET goal == proc[p].goal
      free == seal[goal] = "absent"
  IN
  /\ At(p, "finalize")
  /\ seal' = IF free THEN [seal EXCEPT ![goal] = "mutable"] ELSE seal
  /\ IF free THEN Goto(p, "chmod") /\ UNCHANGED lock ELSE Finish(p)
  /\ UNCHANGED <<current, journal, bad>>

Chmod(p) ==
  LET goal == proc[p].goal IN
  /\ At(p, "chmod")
  /\ \/ /\ Intact(goal)
        /\ seal' = [seal EXCEPT ![goal] = "sealed"]
        /\ Built(p)
     \/ ~ Intact(goal) /\ Finish(p) /\ UNCHANGED seal
  /\ UNCHANGED <<current, journal, bad>>

-----------------------------------------------------------------------------
(* A sealed release is damaged: a failing card, an administrator's edit.    *)
Corrupt(c) ==
  /\ Sealed(c)
  /\ Cardinality(bad \cup {c}) <= MaxBad
  /\ seal' = [seal EXCEPT ![c] = "broken"]
  /\ bad' = bad \cup {c}
  /\ UNCHANGED <<current, journal, lock, proc>>

Init ==
  /\ current = None
  /\ journal = NoJournal
  /\ seal = [c \in Commits |-> "absent"]
  /\ lock = None
  /\ proc = [p \in Procs |-> Idle]
  /\ bad = {}

Step(p) ==
  \/ Lock(p) \/ Reconcile(p) \/ Candidate(p) \/ Source(p)
  \/ Prepare(p) \/ Switch(p) \/ Mark(p) \/ Verify(p) \/ Verified(p)
  \/ Back(p) \/ WriteBack(p) \/ Prune(p) \/ Remove(p)
  \/ Build(p) \/ Clear(p) \/ Finalize(p) \/ Chmod(p)

Next ==
  \/ \E p \in Procs : \E cmd \in Commands \ {"none"}, goal \in Pointers : Start(p, cmd, goal)
  \/ \E p \in Procs : Step(p)
  \/ \E p \in Procs : Kill(p)
  \/ \E c \in Commits : Corrupt(c)

Spec == Init /\ [][Next]_vars

-----------------------------------------------------------------------------
(* Properties *)

(* Every variable has its type. *)
TypeOK ==
  /\ current \in Pointers
  /\ journal \in Journals
  /\ seal \in [Commits -> {"absent", "mutable", "sealed", "broken"}]
  /\ lock \in Procs \cup {None}
  /\ proc \in [Procs -> [at: Places, cmd: Commands, goal: Pointers, cand: Pointers,
                         prev: Pointers, main: BOOLEAN, left: SUBSET Commits]]
  /\ bad \subseteq Commits

(* As long as no sealed release was damaged, a process may die before any   *)
(* of its writes: the next reconciliation finds a state it accepts and not  *)
(* ACTIVATION_AMBIGUOUS or ACTIVATION_SOURCE_MISSING.                       *)
Reconcilable == bad = {} => Accepts(journal, current)

(* What DECISIONS.md D-042 promises of the code as it is: when no process   *)
(* is at work, the reconciliation that precedes the start of the appliance  *)
(* can complete or restore whatever activation was interrupted.             *)
AlwaysReconcilable ==
  (\A p \in Procs : At(p, "idle")) => Accepts(journal, current)

(* The release the appliance starts from, and after an activation the one   *)
(* it would roll back to, are there, and whole unless the environment       *)
(* damaged those very releases: no build and no pruning, of whatever        *)
(* process, removes or opens them.                                          *)
ReleasesUsable ==
  /\ current # None => current \in bad \/ Sealed(current)
  /\ journal.phase = "post_verified" /\ journal.prev # None =>
       journal.prev \in bad \/ Sealed(journal.prev)

(* `current` moves only under an open journal entry, and only to that       *)
(* entry's candidate or back to its previous release; so a reader that      *)
(* finds a settled entry knows what `current` is.                           *)
PointerFollowsJournal ==
  [][current' # current => /\ journal.phase \in {"prepared", "switched"}
                           /\ journal' = journal
                           /\ current' \in {journal.cand, journal.prev}]_vars

(* The transaction the journal stands for, and the promise of module        *)
(* Activation: whatever the processes do and wherever they die, `current`   *)
(* changes hands in transactions that are kept or undone as a whole.        *)
Transaction ==
  [cand |-> journal.cand, prev |-> journal.prev,
   state |-> CASE journal.phase = "none" -> "none"
               [] journal.phase \in {"prepared", "switched"} -> "open"
               [] journal.phase = "post_verified" -> "kept"
               [] journal.phase = "rolled_back" -> "undone"]

Atomic == INSTANCE Activation WITH Releases <- Commits, Nothing <- None,
                                   active <- current, transaction <- Transaction

Transactional == Atomic!Spec

=============================================================================
