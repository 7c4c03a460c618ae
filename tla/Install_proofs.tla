--------------------------- MODULE Install_proofs ---------------------------
(***************************************************************************)
(* The installer for any number of installers, any budget of faults and    *)
(* any facts that may be lost: the engine lock lets one of them work, the  *)
(* ledger says complete only of steps that held, and who reports success   *)
(* leaves a converged machine.                                             *)
(***************************************************************************)
EXTENDS Install, TLAPS

(* The places of an installer that took the lock, and of one that takes a   *)
(* stale lock over.                                                        *)
Busy == {"step", "act", "check"}
Taking == {"rm", "rmdir", "again"}
Places == {"idle", "done", "mkdir", "read", "record", "unlock"} \cup Taking \cup Busy

ProcRecords == [at : Places, n : Nat \ {0}, owns : BOOLEAN, exit : {"idle", "done"}]

Engine ==
  /\ proc \in [Installers -> ProcRecords]
  /\ lock \in [dir : BOOLEAN, owner : Installers \cup {None, Dead}]
  /\ stale \in BOOLEAN
  /\ \A i \in Installers : proc[i].owns <=> proc[i].at \in Busy \cup {"unlock"}

(* While no lock has outlived its owner: nobody takes a lock over, and who  *)
(* made the directory is the only one to write a record or remove it.      *)
Holds(i) == proc[i].at \in Busy \cup {"record", "unlock"}

Exclusive ==
  /\ lock.owner # Dead /\ (~ lock.dir => lock.owner = None)
  /\ \A i \in Installers :
       /\ proc[i].at \notin Taking
       /\ Holds(i) => lock.dir
       /\ proc[i].at \in Busy => lock.owner = i
       /\ proc[i].at \in {"record", "unlock"} => lock.owner = None
  /\ \A i, j \in Installers : Holds(i) /\ Holds(j) => i = j

LockInv == Engine /\ (~ stale => Exclusive)

(* A reconciliation that was recorded as ready had all of it done.          *)
Planned ==
  /\ conf \in Configurations /\ plan = Plan(conf) /\ direct \in BOOLEAN
  /\ orphans \subseteq DOMAIN Contracts
  /\ \A i \in Installers : proc[i].at \in {"act", "check"} => proc[i].n <= Len(plan)

RecordedRepair == "reconciled" \in facts => Existing \ facts \subseteq lost

LedgerInv == Planned /\ RecordedRepair /\ LedgerTruth

-----------------------------------------------------------------------------
(* The lock                                                                 *)
Locks == [dir : BOOLEAN, owner : Installers \cup {None, Dead}]

(* What a step of one installer may do to the lock and to the others.       *)
OthersStay(i) ==
  \A j \in Installers \ {i} : proc'[j].at = proc[j].at /\ proc'[j].owns = proc[j].owns

MayMove(i) ==
  LET at == proc'[i].at
      free == \A j \in Installers : ~ Holds(j)
  IN /\ lock'.owner # Dead /\ (~ lock'.dir => lock'.owner = None) /\ at \notin Taking
     /\ at \in Busy \cup {"record", "unlock"} => lock'.dir /\ (Holds(i) \/ free)
     /\ at \in Busy => lock'.owner = i
     /\ at \in {"record", "unlock"} => lock'.owner = None
     /\ lock' = lock \/ Holds(i) \/ free

LEMMA Move ==
  ASSUME LockInv, NEW i \in Installers,
         proc' \in [Installers -> ProcRecords], lock' \in Locks, stale' = stale,
         OthersStay(i), proc'[i].owns <=> proc'[i].at \in Busy \cup {"unlock"},
         ~ stale => MayMove(i)
  PROVE  LockInv'
<1>1. Engine'
  <2>1. \A j \in Installers : proc'[j].owns <=> proc'[j].at \in Busy \cup {"unlock"}
    <3>1. ASSUME NEW j \in Installers, j # i
          PROVE  proc'[j].owns <=> proc'[j].at \in Busy \cup {"unlock"}
      <4>1. proc'[j].at = proc[j].at /\ proc'[j].owns = proc[j].owns
        BY <3>1 DEF OthersStay
      <4> QED
        BY <4>1 DEF LockInv, Engine
    <3> QED
      BY <3>1
  <2>2. stale' \in BOOLEAN
    BY DEF LockInv, Engine
  <2> QED
    BY <2>1, <2>2 DEF Engine, Locks
<1>2. ASSUME ~ stale PROVE Exclusive'
  <2>1. Exclusive /\ MayMove(i)
    BY <1>2 DEF LockInv
  <2>2. ASSUME NEW j \in Installers, j # i
        PROVE  /\ proc'[j].at = proc[j].at
               /\ Holds(j) => lock' = lock /\ ~ Holds(i)
    BY <2>1, <2>2 DEF OthersStay, MayMove, Exclusive
  <2>3. \A j \in Installers :
          /\ proc'[j].at \notin Taking
          /\ Holds(j)' => lock'.dir
          /\ proc'[j].at \in Busy => lock'.owner = j
          /\ proc'[j].at \in {"record", "unlock"} => lock'.owner = None
    BY <2>1, <2>2 DEF MayMove, Exclusive, Holds
  <2>4. ASSUME NEW j \in Installers, NEW k \in Installers, Holds(j)', Holds(k)', j # k
        PROVE  FALSE
    <3>1. CASE j # i /\ k # i
      BY <2>1, <2>2, <2>4, <3>1 DEF Exclusive, Holds
    <3>2. ASSUME NEW m \in Installers, m # i, Holds(m)', Holds(i)' PROVE FALSE
      BY <2>1, <2>2, <3>2 DEF MayMove, Holds
    <3> QED
      BY <2>4, <3>1, <3>2
  <2> QED
    BY <2>1, <2>3, <2>4 DEF Exclusive, MayMove
<1> QED
  BY <1>1, <1>2 DEF LockInv

LEMMA EngineNow ==
  ASSUME LockInv, NEW i \in Installers
  PROVE  /\ proc[i] \in ProcRecords /\ proc[i].n \in Nat \ {0} /\ lock \in Locks
         /\ proc[i].owns <=> proc[i].at \in Busy \cup {"unlock"}
         /\ Fresh \in ProcRecords /\ ~ Fresh.owns /\ Fresh.at = "idle"
BY DEF LockInv, Engine, Locks, Fresh, ProcRecords, Places

LEMMA FreshRecord ==
  ASSUME NEW place \in Places
  PROVE  LET p == [Fresh EXCEPT !.at = place]
         IN  p \in ProcRecords /\ p.at = place /\ ~ p.owns /\ p.n = 1
<1>1. Fresh \in ProcRecords /\ ~ Fresh.owns /\ Fresh.n = 1
  BY DEF Fresh, ProcRecords, Places
<1>2. \A p \in ProcRecords : LET q == [p EXCEPT !.at = place]
        IN  q \in ProcRecords /\ q.at = place /\ q.owns = p.owns /\ q.n = p.n
  BY DEF ProcRecords
<1> QED
  BY <1>1, <1>2

(* A step that moves one installer and leaves the rest of its record.      *)
LEMMA GotoMove ==
  ASSUME LockInv, NEW i \in Installers, NEW place \in Places, Goto(i, place)
  PROVE  /\ proc' \in [Installers -> ProcRecords] /\ OthersStay(i)
         /\ proc'[i].at = place /\ proc'[i].owns = proc[i].owns
<1>1. proc' = [proc EXCEPT ![i].at = place] /\ proc \in [Installers -> ProcRecords]
  BY DEF Goto, LockInv, Engine
<1>2. [proc[i] EXCEPT !.at = place] \in ProcRecords
  BY EngineNow DEF ProcRecords
<1> QED
  BY <1>1, <1>2, EngineNow DEF OthersStay, ProcRecords

(* The EXIT trap.                                                           *)
LEMMA LeaveKeeps ==
  ASSUME LockInv, NEW i \in Installers, NEW how \in {"idle", "done"}, Leave(i, how),
         stale' = stale, proc[i].at # "unlock"
  PROVE  LockInv'
<1>1. proc \in [Installers -> ProcRecords] /\ lock \in Locks /\ proc[i] \in ProcRecords
      /\ (proc[i].owns <=> proc[i].at \in Busy)
  BY EngineNow DEF LockInv, Engine
<1>2. CASE proc[i].owns
  <2>1. /\ proc' = [proc EXCEPT ![i].at = "unlock", ![i].exit = how]
        /\ lock' = [lock EXCEPT !.owner = None]
    BY <1>2 DEF Leave
  <2>2. /\ proc'[i] = [proc[i] EXCEPT !.at = "unlock", !.exit = how]
        /\ \A j \in Installers \ {i} : proc'[j] = proc[j]
    BY <1>1, <2>1
  <2>3. proc'[i] \in ProcRecords /\ proc'[i].at = "unlock" /\ proc'[i].owns = proc[i].owns
    BY <1>1, <2>2 DEF ProcRecords, Places
  <2>4. proc' \in [Installers -> ProcRecords]
    BY <1>1, <2>1, <2>2, <2>3
  <2>5. lock' \in Locks /\ lock'.owner = None /\ lock'.dir = lock.dir
    BY <1>1, <2>1 DEF Locks
  <2>6. ~ stale => MayMove(i)
    BY <1>1, <1>2, <2>3, <2>5, OwnersAssumption
    DEF MayMove, LockInv, Exclusive, Holds, Taking, Busy
  <2> QED
    BY <1>2, <2>2, <2>3, <2>4, <2>5, <2>6, Move DEF OthersStay
<1>3. CASE ~ proc[i].owns
  <2>1. proc' = [proc EXCEPT ![i] = [Fresh EXCEPT !.at = how]] /\ lock' = lock
    BY <1>3 DEF Leave
  <2>2. how \in Places
    BY DEF Places
  <2>3. /\ proc' \in [Installers -> ProcRecords]
        /\ proc'[i].at = how /\ ~ proc'[i].owns /\ OthersStay(i)
    BY <1>1, <2>1, <2>2, FreshRecord DEF OthersStay
  <2>4. ~ stale => MayMove(i)
    BY <2>1, <2>3 DEF MayMove, LockInv, Exclusive, Taking, Busy
  <2>5. how \notin Busy \cup {"unlock"}
    BY DEF Busy
  <2> QED
    BY <1>1, <2>1, <2>3, <2>4, <2>5, Move
<1> QED
  BY <1>2, <1>3

(* A process that is gone without a trap.                                   *)
LEMMA GoneKeeps ==
  ASSUME LockInv, NEW i \in Installers, Gone(i)
  PROVE  LockInv'
<1>1. /\ proc' = [proc EXCEPT ![i] = Fresh]
      /\ lock' = IF lock.owner = i THEN [lock EXCEPT !.owner = Dead] ELSE lock
      /\ stale' = (stale \/ lock.owner = i)
      /\ proc \in [Installers -> ProcRecords] /\ lock \in Locks /\ stale \in BOOLEAN
  BY EngineNow DEF Gone, LockInv, Engine
<1>2. /\ proc' \in [Installers -> ProcRecords] /\ OthersStay(i)
      /\ proc'[i].at = "idle" /\ ~ proc'[i].owns
  BY <1>1, EngineNow DEF OthersStay
<1>3. lock' \in Locks
  BY <1>1 DEF Locks
<1>4. CASE lock.owner = i
  <2>1. stale' = TRUE
    BY <1>1, <1>4
  <2>2. \A j \in Installers : proc'[j].owns <=> proc'[j].at \in Busy \cup {"unlock"}
    BY <1>2, EngineNow DEF OthersStay, Busy
  <2> QED
    BY <1>2, <1>3, <2>1, <2>2 DEF LockInv, Engine, Locks
<1>5. CASE lock.owner # i
  <2>1. lock' = lock /\ stale' = stale
    BY <1>1, <1>5
  <2>2. ~ stale => MayMove(i)
    BY <1>2, <2>1 DEF MayMove, LockInv, Exclusive, Taking, Busy
  <2> QED
    BY <1>2, <1>3, <2>1, <2>2, Move DEF Busy
<1> QED
  BY <1>4, <1>5

(* What leaves every installer where it is.                                 *)
LEMMA StandKeeps ==
  ASSUME LockInv, proc' = proc, stale' = stale,
         \/ lock' = lock
         \/ /\ lock' = [dir |-> FALSE, owner |-> None]
            /\ \A i \in Installers : proc[i].at \in {"idle", "done"}
  PROVE  LockInv'
<1>1. Engine'
  <2>1. lock' \in Locks
    <3>1. lock \in Locks /\ [dir |-> FALSE, owner |-> None] \in Locks
      BY DEF LockInv, Engine, Locks
    <3> QED
      BY <3>1
  <2> QED
    BY <2>1 DEF LockInv, Engine, Locks
<1>2. ~ stale => Exclusive'
  <2>1. CASE lock' = lock
    BY <2>1 DEF LockInv, Exclusive, Holds
  <2>2. CASE /\ lock' = [dir |-> FALSE, owner |-> None]
             /\ \A i \in Installers : proc[i].at \in {"idle", "done"}
    BY <2>2, OwnersAssumption DEF Exclusive, Holds, Taking, Busy
  <2> QED
    BY <2>1, <2>2
<1> QED
  BY <1>1, <1>2 DEF LockInv

LEMMA BootsKeeps ==
  ASSUME LockInv, NEW f, Boots(f)
  PROVE  LockInv'
<1>1. /\ proc' = [j \in Installers |-> Fresh]
      /\ lock' = IF lock.owner \in Installers THEN [lock EXCEPT !.owner = Dead] ELSE lock
      /\ stale' = (stale \/ lock.owner \in Installers)
      /\ lock \in Locks /\ stale \in BOOLEAN
  BY DEF Boots, LockInv, Engine, Locks
<1>2. Fresh \in ProcRecords /\ ~ Fresh.owns /\ Fresh.at = "idle"
  BY DEF Fresh, ProcRecords, Places
<1>3. lock' \in Locks
  BY <1>1 DEF Locks
<1>4. Engine'
  BY <1>1, <1>2, <1>3 DEF Engine, Locks, Busy
<1>5. ~ stale' => Exclusive'
  BY <1>1, <1>2 DEF LockInv, Exclusive, Holds, Taking, Busy
<1> QED
  BY <1>4, <1>5 DEF LockInv

(* The lock's own steps.                                                    *)
LEMMA LockSteps ==
  ASSUME LockInv, NEW i \in Installers,
         \/ Start(i) \/ Mkdir(i) \/ ReadOwner(i) \/ RemoveRecord(i) \/ RemoveDirectory(i)
         \/ MkdirAgain(i) \/ RecordOwner(i) \/ Unlock(i)
  PROVE  LockInv'
<1>1. /\ stale' = stale /\ lock \in Locks /\ proc \in [Installers -> ProcRecords]
      /\ proc[i].owns <=> proc[i].at \in Busy \cup {"unlock"}
  BY EngineNow DEF Start, Mkdir, ReadOwner, RemoveRecord, RemoveDirectory, MkdirAgain,
     RecordOwner, Unlock, machine, LockInv, Engine
<1>2. /\ [lock EXCEPT !.dir = TRUE] \in Locks /\ [lock EXCEPT !.owner = i] \in Locks
      /\ [lock EXCEPT !.owner = None] \in Locks /\ [lock EXCEPT !.dir = FALSE] \in Locks
  BY <1>1 DEF Locks
<1>3. CASE Start(i)
  <2>1. proc' = [proc EXCEPT ![i] = [Fresh EXCEPT !.at = "mkdir"]] /\ lock' = lock
    BY <1>3 DEF Start
  <2>2. "mkdir" \in Places
    BY DEF Places
  <2>4. /\ proc' \in [Installers -> ProcRecords] /\ OthersStay(i)
        /\ proc'[i].at = "mkdir" /\ ~ proc'[i].owns
    BY <1>1, <2>1, <2>2, FreshRecord DEF OthersStay
  <2>5. ~ stale => MayMove(i)
    BY <2>1, <2>4 DEF MayMove, LockInv, Exclusive, Taking, Busy
  <2> QED
    BY <1>1, <2>1, <2>4, <2>5, Move DEF Busy
<1>4. CASE Mkdir(i)
  <2>1. CASE lock.dir
    <3>1. Goto(i, "read") /\ lock' = lock /\ proc[i].at = "mkdir" /\ "read" \in Places
      BY <1>4, <2>1 DEF Mkdir, At, Places
    <3>2. ~ stale => MayMove(i)
      BY <3>1, GotoMove DEF MayMove, LockInv, Exclusive, Taking, Busy
    <3> QED
      BY <1>1, <3>1, <3>2, GotoMove, Move DEF Busy
  <2>2. CASE ~ lock.dir
    <3>1. /\ Goto(i, "record") /\ lock' = [lock EXCEPT !.dir = TRUE]
          /\ proc[i].at = "mkdir" /\ "record" \in Places
      BY <1>4, <2>2 DEF Mkdir, At, Places
    <3>2. lock' \in Locks /\ lock'.dir /\ lock'.owner = lock.owner
      BY <1>1, <1>2, <3>1 DEF Locks
    <3>3. ASSUME ~ stale PROVE MayMove(i)
      <4>1. Exclusive /\ \A j \in Installers : ~ Holds(j)
        BY <2>2, <3>3 DEF LockInv, Exclusive
      <4>2. lock.owner = None
        BY <2>2, <4>1 DEF Exclusive
      <4> QED
        BY <3>1, <3>2, <4>1, <4>2, OwnersAssumption, GotoMove
        DEF MayMove, Exclusive, Taking, Busy
    <3> QED
      BY <1>1, <3>1, <3>2, <3>3, GotoMove, Move DEF Busy
  <2> QED
    BY <2>1, <2>2
<1>5. CASE ReadOwner(i)
  <2>1. CASE Recoverable
    <3>1. /\ Goto(i, "rm") /\ lock' = lock /\ proc[i].at = "read" /\ "rm" \in Places
          /\ lock.owner = Dead
      BY <1>5, <2>1 DEF ReadOwner, At, Places, Recoverable, Taking
    <3>2. stale
      BY <3>1 DEF LockInv, Exclusive
    <3> QED
      BY <1>1, <3>1, <3>2, GotoMove, Move DEF Busy
  <2>2. CASE ~ Recoverable
    BY <1>1, <1>5, <2>2, LeaveKeeps DEF ReadOwner, At
  <2> QED
    BY <2>1, <2>2
<1>6. CASE RemoveRecord(i)
  <2>1. /\ lock' = [lock EXCEPT !.owner = None] /\ Goto(i, "rmdir") /\ proc[i].at = "rm"
        /\ "rmdir" \in Places
    BY <1>6 DEF RemoveRecord, At, Places, Taking
  <2>2. stale
    BY <2>1 DEF LockInv, Exclusive, Taking
  <2> QED
    BY <1>1, <1>2, <2>1, <2>2, GotoMove, Move DEF Busy
<1>7. CASE RemoveDirectory(i) \/ MkdirAgain(i)
  <2>1. proc[i].at \in {"rmdir", "again"}
    BY <1>7 DEF RemoveDirectory, MkdirAgain, At
  <2>2. stale
    BY <2>1 DEF LockInv, Exclusive, Taking
  <2>3. \/ Leave(i, "idle")
        \/ Goto(i, "again") /\ lock' = [lock EXCEPT !.dir = FALSE]
        \/ Goto(i, "record") /\ lock' = [lock EXCEPT !.dir = TRUE]
    BY <1>7 DEF RemoveDirectory, MkdirAgain
  <2>4. "again" \in Places /\ "record" \in Places
    BY DEF Places, Taking
  <2>5. CASE Leave(i, "idle")
    BY <1>1, <2>1, <2>5, LeaveKeeps
  <2>6. CASE Goto(i, "again") /\ lock' = [lock EXCEPT !.dir = FALSE]
    BY <1>1, <1>2, <2>1, <2>2, <2>4, <2>6, GotoMove, Move DEF Busy
  <2>7. CASE Goto(i, "record") /\ lock' = [lock EXCEPT !.dir = TRUE]
    BY <1>1, <1>2, <2>1, <2>2, <2>4, <2>7, GotoMove, Move DEF Busy
  <2> QED
    BY <2>3, <2>5, <2>6, <2>7
<1>8. CASE RecordOwner(i)
  <2>1. CASE lock.dir
    <3>1. /\ lock' = [lock EXCEPT !.owner = i] /\ proc[i].at = "record"
          /\ proc' = [proc EXCEPT ![i].at = "step", ![i].owns = TRUE]
      BY <1>8, <2>1 DEF RecordOwner, At
    <3>2. [proc[i] EXCEPT !.at = "step", !.owns = TRUE] \in ProcRecords
      BY EngineNow DEF ProcRecords, Places, Busy
    <3>3. /\ proc'[i] = [proc[i] EXCEPT !.at = "step", !.owns = TRUE]
          /\ \A j \in Installers \ {i} : proc'[j] = proc[j]
      BY <1>1, <3>1
    <3>4. /\ proc' \in [Installers -> ProcRecords] /\ OthersStay(i)
          /\ proc'[i].at = "step" /\ proc'[i].owns
      BY <1>1, <3>1, <3>2, <3>3, EngineNow DEF OthersStay, ProcRecords
    <3>5. lock' \in Locks /\ lock'.dir /\ lock'.owner = i
      BY <1>1, <1>2, <2>1, <3>1 DEF Locks
    <3>6. ~ stale => MayMove(i)
      BY <3>1, <3>4, <3>5, OwnersAssumption DEF MayMove, Holds, Taking, Busy
    <3> QED
      BY <1>1, <3>4, <3>5, <3>6, Move DEF Busy
  <2>2. CASE ~ lock.dir
    BY <1>1, <1>8, <2>2, LeaveKeeps DEF RecordOwner, At
  <2> QED
    BY <2>1, <2>2
<1>9. CASE Unlock(i)
  <2>1. /\ proc[i].at = "unlock"
        /\ lock' = IF lock.owner = None THEN [lock EXCEPT !.dir = FALSE] ELSE lock
        /\ proc' = [proc EXCEPT ![i].at = proc[i].exit, ![i].owns = FALSE, ![i].exit = "idle"]
    BY <1>9 DEF Unlock, At
  <2>2. proc[i].exit \in {"idle", "done"}
    BY EngineNow DEF ProcRecords
  <2> DEFINE p == [proc[i] EXCEPT !.at = proc[i].exit, !.owns = FALSE, !.exit = "idle"]
  <2>3. p \in ProcRecords /\ p.at \in {"idle", "done"} /\ ~ p.owns
    BY <2>2, EngineNow DEF ProcRecords, Places
  <2>4. proc' = [proc EXCEPT ![i] = p]
    BY <1>1, <2>1
  <2> HIDE DEF p
  <2>5. /\ proc' \in [Installers -> ProcRecords] /\ OthersStay(i)
        /\ proc'[i].at \in {"idle", "done"} /\ ~ proc'[i].owns
    BY <1>1, <2>3, <2>4 DEF OthersStay
  <2>6. lock' \in Locks /\ lock'.owner = lock.owner
    BY <1>1, <1>2, <2>1 DEF Locks
  <2>7. ~ stale => MayMove(i)
    BY <2>1, <2>5, <2>6 DEF MayMove, LockInv, Exclusive, Holds, Taking, Busy
  <2> QED
    BY <1>1, <2>5, <2>6, <2>7, Move DEF Busy
<1> QED
  BY <1>3, <1>4, <1>5, <1>6, <1>7, <1>8, <1>9

(* What the owner of the lock does to its own place while it works.        *)
LEMMA BusyKeeps ==
  ASSUME LockInv, NEW i \in Installers, proc[i].at \in Busy, stale' = stale, lock' = lock,
         proc' \in [Installers -> ProcRecords], OthersStay(i),
         proc'[i].at \in Busy, proc'[i].owns = proc[i].owns
  PROVE  LockInv'
<1>1. proc[i].owns
  BY EngineNow
<1>2. ~ stale => MayMove(i)
  BY DEF MayMove, LockInv, Exclusive, Holds, Taking, Busy
<1> QED
  BY <1>1, <1>2, EngineNow, Move

LEMMA NextRecord ==
  ASSUME LockInv, NEW i \in Installers
  PROVE  /\ [proc[i] EXCEPT !.n = @ + 1] \in ProcRecords
         /\ [proc[i] EXCEPT !.at = "step", !.n = @ + 1] \in ProcRecords
<1>1. proc[i].n + 1 \in Nat \ {0} /\ "step" \in Places
  BY EngineNow DEF Places, Busy
<1> QED
  BY <1>1, EngineNow DEF ProcRecords

LEMMA StepSteps ==
  ASSUME LockInv, NEW i \in Installers,
         Probe(i) \/ Act(i) \/ Pause(i) \/ Refuse(i) \/ Check(i) \/ Finish(i)
         \/ ActionFails(i) \/ ActionLies(i) \/ Interrupt(i)
  PROVE  LockInv'
<1>1. /\ stale' = stale /\ proc[i].at \in Busy /\ proc[i].at # "unlock"
      /\ proc \in [Installers -> ProcRecords]
  BY DEF Probe, Act, Pause, Refuse, Check, Finish, ActionFails, ActionLies, Interrupt,
     machine, At, Busy, LockInv, Engine
<1>2. CASE \E how \in {"idle", "done"} : Leave(i, how)
  BY <1>1, <1>2, LeaveKeeps
<1>3. ASSUME NEW place \in {"act", "check"}, Goto(i, place), lock' = lock PROVE LockInv'
  <2>1. place \in Busy /\ place \in Places
    BY DEF Busy, Places
  <2> QED
    BY <1>1, <1>3, <2>1, GotoMove, BusyKeeps
<1>4. CASE lock' = lock /\ \/ proc' = [proc EXCEPT ![i].n = @ + 1]
                           \/ proc' = [proc EXCEPT ![i].at = "step", ![i].n = @ + 1]
  <2>1. PICK p \in {[proc[i] EXCEPT !.n = @ + 1],
                    [proc[i] EXCEPT !.at = "step", !.n = @ + 1]} :
          proc' = [proc EXCEPT ![i] = p]
    BY <1>1, <1>4
  <2>2. p \in ProcRecords /\ p.at \in {proc[i].at, "step"} /\ p.owns = proc[i].owns
    BY <2>1, NextRecord, EngineNow DEF ProcRecords
  <2>3. /\ proc' \in [Installers -> ProcRecords] /\ OthersStay(i)
        /\ proc'[i].at \in {proc[i].at, "step"} /\ proc'[i].owns = proc[i].owns
    BY <1>1, <2>1, <2>2 DEF OthersStay
  <2> QED
    BY <1>1, <1>4, <2>3, BusyKeeps DEF Busy
<1> QED
  BY <1>2, <1>3, <1>4
  DEF Probe, Act, Pause, Refuse, Check, Finish, ActionFails, ActionLies, Interrupt

LEMMA LockKeeps ==
  ASSUME LockInv, [Next]_vars
  PROVE  LockInv'
<1>1. CASE UNCHANGED vars
  BY <1>1 DEF vars, LockInv, Engine, Exclusive, Holds
<1>2. ASSUME NEW i \in Installers, Start(i) \/ Run(i) PROVE LockInv'
  BY <1>2, LockSteps, StepSteps DEF Run
<1>3. ASSUME NEW i \in Installers,
             ActionFails(i) \/ ActionLies(i) \/ Kill(i) \/ Interrupt(i)
      PROVE  LockInv'
  BY <1>3, StepSteps, GoneKeeps DEF Kill
<1>4. CASE \/ \E s \in AllSteps : OrphanEnds(s)
           \/ \E fact \in Fragile : Drift(fact)
           \/ Unplug \/ Uninstall
  BY <1>4, StandKeeps DEF OrphanEnds, Drift, Unplug, Uninstall
<1>5. CASE PowerCut \/ Reboot
  BY <1>5, BootsKeeps DEF PowerCut, Reboot
<1>6. CASE Reconnect
  BY <1>6 DEF Reconnect, LockInv, Engine, Exclusive, Holds
<1> QED
  BY <1>1, <1>2, <1>3, <1>4, <1>5, <1>6 DEF Next

LEMMA InitLockInv == Init => LockInv
<1> SUFFICES ASSUME Init PROVE LockInv
  OBVIOUS
<1>1. /\ proc = [i \in Installers |-> Fresh] /\ lock = [dir |-> FALSE, owner |-> None]
      /\ stale = FALSE
  BY DEF Init
<1>2. Fresh \in ProcRecords /\ Fresh.at = "idle" /\ ~ Fresh.owns
  BY DEF Fresh, ProcRecords, Places
<1>3. Engine
  BY <1>1, <1>2 DEF Engine, Busy
<1>4. Exclusive
  BY <1>1, <1>2, OwnersAssumption DEF Exclusive, Holds, Busy, Taking
<1> QED
  BY <1>3, <1>4 DEF LockInv

(* As long as no installer died holding the engine lock, one works on the   *)
(* machine at a time, however many are started, killed before they hold it, *)
(* interrupted or refused (install_engine.sh gonken_acquire_engine_lock,    *)
(* gonken_release_engine_lock).                                            *)
THEOREM OneInstallerWorks == Spec => []OneInstaller
<1>1. LockInv => OneInstaller
  BY DEF LockInv, Exclusive, OneInstaller, Working, Holds, Busy
<1> QED
  BY InitLockInv, LockKeeps, <1>1, PTL DEF Spec

-----------------------------------------------------------------------------
(* The contracts: nothing but a reconciliation records that it is ready,   *)
(* and it does so last.                                                    *)
LEMMA ContractFields ==
  \A e, p : /\ Contract(e, p).does = e /\ Contract(e, p).shows = p
            /\ Probed(e).does = e /\ Probed(e).shows = ToSet(e)
BY DEF Contract, Probed

Silent(effects) ==
  Len(effects) \in Nat /\ DOMAIN effects = 1..Len(effects) /\ "reconciled" \notin ToSet(effects)

LEMMA JoinedSilent ==
  ASSUME NEW S, NEW a \in Seq(S), NEW b \in Seq(S), Silent(a), Silent(b)
  PROVE  a \o b \in Seq(S) /\ Silent(a \o b)
<1>1. /\ a \o b \in Seq(S) /\ Len(a \o b) = Len(a) + Len(b)
      /\ \A i \in 1..Len(a \o b) :
           (a \o b)[i] = IF i <= Len(a) THEN a[i] ELSE b[i - Len(a)]
  OBVIOUS
<1>2. \A i \in 1..Len(a \o b) : (a \o b)[i] # "reconciled"
  <2>1. /\ \A i \in 1..Len(a) : a[i] # "reconciled"
        /\ \A i \in 1..Len(b) : b[i] # "reconciled"
    BY DEF Silent, ToSet
  <2>2. Len(a) \in Nat /\ Len(b) \in Nat
    OBVIOUS
  <2> SUFFICES ASSUME NEW i \in 1..Len(a \o b) PROVE (a \o b)[i] # "reconciled"
    OBVIOUS
  <2>3. CASE i <= Len(a)
    BY <1>1, <2>1, <2>2, <2>3
  <2>4. CASE ~ (i <= Len(a))
    <3>1. i - Len(a) \in 1..Len(b)
      BY <1>1, <2>2, <2>4
    <3> QED
      BY <1>1, <2>1, <2>4, <3>1
  <2> QED
    BY <2>3, <2>4
<1>3. DOMAIN (a \o b) = 1..Len(a \o b) /\ Len(a \o b) \in Nat
  BY <1>1
<1> QED
  BY <1>1, <1>2, <1>3 DEF Silent, ToSet

LEMMA InlineSilent ==
  /\ Silent(<<>>) /\ Silent(<<"source-record">>) /\ Silent(<<"engine-record">>)
  /\ Silent(<<"packages">>) /\ Silent(<<"reconciliation-record">>)
  /\ Silent(<<"preflight-report">>) /\ Silent(<<"identity-report">>)
  /\ Silent(<<"environment-ready">>)
  /\ Silent(<<"agent-group", "agent-user", "agent-groups">>)
  /\ Silent(<<"env-groups", "env-user", "env-memberships", "agent-control",
              "operator-control">>)
  /\ Silent(<<"ollama-group", "ollama-user", "ollama-store">>)
<1> USE DEF Silent, ToSet
<1>1. /\ Silent(<<>>) /\ Silent(<<"source-record">>) /\ Silent(<<"engine-record">>)
      /\ Silent(<<"packages">>) /\ Silent(<<"reconciliation-record">>)
      /\ Silent(<<"preflight-report">>) /\ Silent(<<"identity-report">>)
      /\ Silent(<<"environment-ready">>)
  OBVIOUS
<1>2. Silent(<<"agent-group", "agent-user", "agent-groups">>)
  OBVIOUS
<1>3. Silent(<<"env-groups", "env-user", "env-memberships", "agent-control",
              "operator-control">>)
  OBVIOUS
<1>4. Silent(<<"ollama-group", "ollama-user", "ollama-store">>)
  OBVIOUS
<1> HIDE DEF Silent, ToSet
<1> QED
  BY <1>1, <1>2, <1>3, <1>4

LEMMA NamedSilent ==
  /\ Silent(GpioReport) /\ Silent(EnableI2c) /\ Silent(InitLayout) /\ Silent(BuildRelease)
  /\ Silent(Activated) /\ Silent(EnsureProfile) /\ Silent(ApplyPreset)
  /\ Silent(InstallPower) /\ Silent(InstallEnvironment) /\ Silent(ConvergeCommissioned)
  /\ Silent(ConvergeMode) /\ Silent(InstallBinary) /\ Silent(InstallOllama)
  /\ Silent(ProvisionRoster) /\ Silent(InstallWhisper) /\ Silent(InstallPiper)
  /\ Silent(ProvisionModels) /\ Silent(RunSmoke) /\ Silent(InstallAgent)
  /\ Silent(ActivateAppliance) /\ Silent(Pair) /\ Silent(InstallAutoconnect)
  /\ Silent(<<"bluetooth-packages">> \o PrepareAudio)
<1>1. /\ Silent(GpioReport) /\ Silent(EnableI2c) /\ Silent(InitLayout)
      /\ Silent(BuildRelease) /\ Silent(Activated)
  BY DEF Silent, ToSet, GpioReport, EnableI2c, InitLayout, BuildRelease, Activated
<1>2. /\ Silent(EnsureProfile) /\ Silent(ApplyPreset)
      /\ Silent(InstallPower) /\ Silent(ConvergeMode)
  BY DEF Silent, ToSet, EnsureProfile, ApplyPreset, InstallPower, ConvergeMode
<1>3. Silent(InstallEnvironment)
  BY DEF Silent, ToSet, InstallEnvironment
<1>4. Silent(ConvergeCommissioned)
  BY DEF Silent, ToSet, ConvergeCommissioned
<1>5. Silent(InstallBinary)
  BY DEF Silent, ToSet, InstallBinary
<1>6. Silent(InstallOllama)
  BY DEF Silent, ToSet, InstallOllama
<1>7. Silent(ProvisionRoster) /\ Silent(InstallWhisper) /\ Silent(InstallPiper)
  <2> DEFINE S == {"models", "model-selection", "roster-record"}
  <2>1. /\ Silent(PullModels) /\ Silent(SelectModel) /\ Silent(<<"roster-record">>)
        /\ PullModels \in Seq(S) /\ SelectModel \in Seq(S)
        /\ <<"roster-record">> \in Seq(S)
    <3>1. Silent(PullModels) /\ Silent(SelectModel) /\ Silent(<<"roster-record">>)
      BY DEF Silent, ToSet, PullModels, SelectModel
    <3>2. PullModels \in Seq(S)
      BY DEF PullModels
    <3>3. SelectModel \in Seq(S)
      BY DEF SelectModel
    <3>4. <<"roster-record">> \in Seq(S)
      OBVIOUS
    <3> QED
      BY <3>1, <3>2, <3>3, <3>4
  <2>2. Silent(ProvisionRoster)
    <3>1. PullModels \o SelectModel \in Seq(S) /\ Silent(PullModels \o SelectModel)
      BY <2>1, JoinedSilent
    <3>2. Silent((PullModels \o SelectModel) \o <<"roster-record">>)
      BY <2>1, <3>1, JoinedSilent
    <3> QED
      BY <3>2 DEF ProvisionRoster
  <2>3. Silent(InstallWhisper) /\ Silent(InstallPiper)
    BY DEF Silent, ToSet, InstallWhisper, InstallPiper
  <2> QED
    BY <2>2, <2>3
<1>8. Silent(ProvisionModels) /\ Silent(RunSmoke)
  BY DEF Silent, ToSet, ProvisionModels, RunSmoke
<1>9. Silent(InstallAgent)
  <2> DEFINE files == <<"service-unit", "service-tmpfiles">>
             start == <<"service-directories", "service-loaded", "service-enabled",
                        "service-running">>
             S == {"service-unit", "service-tmpfiles", "runtime-environment",
                   "service-directories", "service-loaded", "service-enabled",
                   "service-running"}
  <2>1. /\ Silent(files) /\ Silent(RuntimeEnvironment) /\ Silent(start)
        /\ files \in Seq(S) /\ RuntimeEnvironment \in Seq(S)
        /\ start \in Seq(S)
    <3>1. Silent(files) /\ Silent(RuntimeEnvironment) /\ Silent(start)
      BY DEF Silent, ToSet, RuntimeEnvironment
    <3>2. files \in Seq(S)
      OBVIOUS
    <3>3. RuntimeEnvironment \in Seq(S)
      BY DEF RuntimeEnvironment
    <3>4. start \in Seq(S)
      OBVIOUS
    <3> HIDE DEF files, start, S
    <3> QED
      BY <3>1, <3>2, <3>3, <3>4
  <2>2. InstallAgent = (files \o RuntimeEnvironment) \o start
    BY DEF InstallAgent
  <2> HIDE DEF files, start, S
  <2>3. files \o RuntimeEnvironment \in Seq(S) /\ Silent(files \o RuntimeEnvironment)
    BY <2>1, JoinedSilent
  <2>4. Silent((files \o RuntimeEnvironment) \o start)
    BY <2>1, <2>3, JoinedSilent
  <2> QED
    BY <2>2, <2>4
<1>10. Silent(ActivateAppliance)
  BY DEF Silent, ToSet, ActivateAppliance
<1>11. Silent(Pair)
  BY DEF Silent, ToSet, Pair, DeviceRecord
<1>12. Silent(InstallAutoconnect)
  BY DEF Silent, ToSet, InstallAutoconnect
<1>13. Silent(<<"bluetooth-packages">> \o PrepareAudio)
  BY DEF Silent, ToSet, PrepareAudio
<1> QED
  BY <1>1, <1>2, <1>3, <1>4, <1>5, <1>6, <1>7, <1>8, <1>9, <1>10, <1>11, <1>12, <1>13

LEMMA ContractEffects ==
  /\ TargetPlatform.does = <<"preflight-report">>
  /\ AgentAccount.does = <<"agent-group", "agent-user", "agent-groups">>
  /\ EnvironmentAccount.does =
       <<"env-groups", "env-user", "env-memberships", "agent-control", "operator-control">>
  /\ TargetIdentity.does = <<"identity-report">> /\ RuntimeBindings.does = <<>>
  /\ GpioIdentity.does = GpioReport /\ I2cPlatform.does = EnableI2c
  /\ ReleaseLayout.does = InitLayout /\ ImmutableRelease.does = BuildRelease
  /\ ActivateRelease.does = Activated /\ SiteProfile.does = EnsureProfile
  /\ RoomPreset.does = ApplyPreset /\ VoicePower.does = InstallPower
  /\ EnvironmentFiles.does = InstallEnvironment
  /\ Commissioning.does = ConvergeCommissioned
  /\ EnvironmentReadiness.does = <<"environment-ready">>
  /\ EnvironmentMode.does = ConvergeMode
  /\ OllamaAccount.does = <<"ollama-group", "ollama-user", "ollama-store">>
  /\ OllamaBinary.does = InstallBinary /\ OllamaService.does = InstallOllama
  /\ OllamaModel.does = <<>> /\ ModelRoster.does = ProvisionRoster
  /\ WhisperRuntime.does = InstallWhisper /\ PiperRuntime.does = InstallPiper
  /\ SpeechModels.does = ProvisionModels /\ SpeechSmoke.does = RunSmoke
  /\ ApplicationService.does = InstallAgent /\ RuntimeContext.does = <<>>
  /\ ApplianceReadiness.does = ActivateAppliance
  /\ AudioStack.does = <<"bluetooth-packages">> \o PrepareAudio
  /\ AudioPairing.does = Pair /\ Autoconnect.does = InstallAutoconnect
BY ContractFields DEF TargetPlatform, AgentAccount, EnvironmentAccount, TargetIdentity,
   RuntimeBindings, GpioIdentity, I2cPlatform, ReleaseLayout, ImmutableRelease, ActivateRelease,
   SiteProfile, RoomPreset, VoicePower, EnvironmentFiles, Commissioning,
   EnvironmentReadiness, EnvironmentMode, OllamaAccount, OllamaBinary, OllamaService,
   OllamaModel, ModelRoster, WhisperRuntime, PiperRuntime, SpeechModels, SpeechSmoke,
   ApplicationService, RuntimeContext, ApplianceReadiness, AudioStack, AudioPairing,
   Autoconnect

SilentContract(contract) == Silent(contract.does)

LEMMA ContractsSilent ==
  \A s \in DOMAIN Contracts : SilentContract(Contracts[s])
<1>1. /\ SilentContract(TargetPlatform) /\ SilentContract(AgentAccount)
      /\ SilentContract(EnvironmentAccount) /\ SilentContract(TargetIdentity)
      /\ SilentContract(RuntimeBindings) /\ SilentContract(GpioIdentity)
      /\ SilentContract(I2cPlatform) /\ SilentContract(ReleaseLayout)
      /\ SilentContract(ImmutableRelease) /\ SilentContract(ActivateRelease)
      /\ SilentContract(SiteProfile) /\ SilentContract(RoomPreset)
      /\ SilentContract(VoicePower) /\ SilentContract(EnvironmentFiles)
      /\ SilentContract(Commissioning) /\ SilentContract(EnvironmentReadiness)
      /\ SilentContract(EnvironmentMode) /\ SilentContract(OllamaAccount)
      /\ SilentContract(OllamaBinary) /\ SilentContract(OllamaService)
      /\ SilentContract(OllamaModel) /\ SilentContract(ModelRoster)
      /\ SilentContract(WhisperRuntime) /\ SilentContract(PiperRuntime)
      /\ SilentContract(SpeechModels) /\ SilentContract(SpeechSmoke)
      /\ SilentContract(ApplicationService) /\ SilentContract(RuntimeContext)
      /\ SilentContract(ApplianceReadiness) /\ SilentContract(AudioStack)
      /\ SilentContract(AudioPairing) /\ SilentContract(Autoconnect)
      /\ SilentContract(Probed(<<"source-record">>))
      /\ SilentContract(Probed(<<"engine-record">>))
      /\ SilentContract(Probed(<<"packages">>))
      /\ SilentContract(Probed(<<"reconciliation-record">>))
  BY ContractFields, InlineSilent, NamedSilent, ContractEffects DEF SilentContract
<1> QED
  BY <1>1 DEF Contracts, SourceRecord, EngineContract, Prerequisites

(* Who records a reconciliation as ready leaves all of it done.             *)
LEMMA AfterReconciled ==
  ASSUME NEW s \in DOMAIN Contracts, NEW c, NEW f, NEW n \in 0..Len(Work(s, c, f)),
         "reconciled" \in After(s, c, f, n)
  PROVE  "reconciled" \in f \/ Existing \subseteq After(s, c, f, n)
<1> DEFINE work == Work(s, c, f)
           new == Missing(s, c, f, n)
           kept == f \ Clears(s)
<1>1. "reconciled" \in kept \cup new
  BY DEF After, Renamed
<1>2. new = {e \in {work[k] : k \in 1..n} :
               e \notin kept /\ (e \in DOMAIN Product => Product[e] \notin kept)}
  BY DEF Missing
<1>3. CASE ~ (s = Reconciliation /\ "current" \in f)
  <2>1. Silent(<<>>) /\ Silent(Contracts[s].does)
    BY InlineSilent, ContractsSilent DEF SilentContract
  <2>2. Silent(work)
    <3>1. work = Effects(s, c)
      BY <1>3 DEF Work
    <3> QED
      BY <2>1, <3>1 DEF Effects
  <2> HIDE DEF work
  <2>3. \A k \in 1..n : work[k] # "reconciled"
    <3>1. n \in 0..Len(work)
      BY DEF work
    <3>2. \A k \in 1..n : k \in DOMAIN work
      BY <2>2, <3>1 DEF Silent
    <3> QED
      BY <2>2, <3>2 DEF Silent, ToSet
  <2> QED
    BY <1>1, <1>2, <2>3
<1>4. CASE s = Reconciliation /\ "current" \in f
  <2>1. work = Repair /\ Clears(s) = {"reconciliation-record", "reconciled"}
    BY <1>4 DEF Clears, Work, Reconciliation
  <2>2. Len(Repair) = 8 /\ DOMAIN Repair = 1..8 /\ n \in 0..8
    BY <2>1 DEF Repair
  <2> HIDE DEF work
  <2>3. PICK k \in 1..n : "reconciled" = Repair[k]
    BY <1>1, <1>2, <2>1
  <2>4. k = 7
    BY <2>2, <2>3 DEF Repair
  <2>5. ASSUME NEW x \in Existing PROVE \E j \in 1..n : x = Repair[j]
    <3>1. \E j \in 1..6 : x = Repair[j]
      BY DEF Existing, ToSet, Repair
    <3> QED
      BY <2>2, <2>3, <2>4, <3>1
  <2>6. ASSUME NEW x \in Existing PROVE x \notin DOMAIN Product
    BY DEF Existing, Repair, ToSet, Product
  <2>7. ASSUME NEW e \in new PROVE Outdates(e, f) \cap Existing = {}
    <3>1. \E j \in 1..8 : e = Repair[j]
      BY <1>2, <2>1, <2>2
    <3>2. e # "current" /\ e # "voice-power"
      BY <3>1 DEF Repair
    <3>3. Outdates(e, f) \subseteq {"reconciliation-record", "reconciled"}
      BY <3>2 DEF Outdates
    <3> QED
      BY <3>3 DEF Existing
  <2>8. ASSUME NEW x \in Existing
        PROVE  x \in (kept \ UNION {Outdates(e, f) : e \in new}) \cup new
    <3>1. CASE x \in kept
      BY <2>7, <3>1
    <3>2. CASE x \notin kept
      BY <1>2, <2>1, <2>5, <2>6, <3>2
    <3> QED
      BY <3>1, <3>2
  <2> QED
    BY <2>6, <2>8 DEF After, Renamed
<1> QED
  BY <1>3, <1>4

-----------------------------------------------------------------------------
(* The ledger                                                               *)

(* The facts a step may leave: no record of a repair without the repair.    *)
Sound(f) == "reconciled" \in f => "reconciled" \in facts \/ Existing \subseteq f

LEMMA LeftoversSound ==
  ASSUME NEW s \in DOMAIN Contracts
  PROVE  Sound(Whole(s)) /\ \A f \in Leftovers(s) : Sound(f)
<1>1. Len(Work(s, conf, facts)) \in Nat
  <2>1. Silent(<<>>) /\ Silent(Contracts[s].does)
    BY InlineSilent, ContractsSilent DEF SilentContract
  <2>2. Len(Repair) \in Nat
    BY DEF Repair
  <2> QED
    BY <2>1, <2>2 DEF Work, Effects, Silent
<1>2. \A n \in 0..Len(Work(s, conf, facts)) : Sound(After(s, conf, facts, n))
  BY AfterReconciled DEF Sound
<1>3. Sound(Whole(s))
  BY <1>1, <1>2 DEF Whole
<1>4. ASSUME NEW f \in Leftovers(s) PROVE Sound(f)
  <2>1. \/ f = facts
        \/ \E n \in 0..Len(Work(s, conf, facts)) :
             \/ f = After(s, conf, facts, n)
             \/ /\ f = After(s, conf, facts, n) \cup {"reconciliation-record"}
                /\ "reconciled" \notin After(s, conf, facts, n)
    BY <1>4 DEF Leftovers
  <2> QED
    BY <1>2, <2>1 DEF Sound
<1> QED
  BY <1>3, <1>4

(* Whatever becomes of the machine, a step recorded as complete holds, or   *)
(* what it misses was lost.                                                *)
LEMMA TruthKept ==
  ASSUME RecordedRepair, LedgerTruth, NEW f, NEW S, Becomes(f, S), Sound(f), UNCHANGED <<conf, direct>>,
         \A s \in DOMAIN ledger' :
           ledger'[s] = "complete" => s \in DOMAIN ledger /\ ledger[s] = "complete"
  PROVE  RecordedRepair' /\ LedgerTruth'
<1>1. facts' = f /\ lost' = (lost \cup (facts \ f)) \ f
  BY DEF Becomes
<1>2. RecordedRepair'
  BY <1>1 DEF RecordedRepair, Sound
<1>3. ASSUME NEW s \in DOMAIN ledger', ledger'[s] = "complete"
      PROVE  Satisfied(s)' \/ (Shows(s, conf, facts)' \ facts') \subseteq lost'
  <2>1. CASE s \in BluetoothSteps /\ direct
    BY <2>1 DEF Satisfied
  <2>2. CASE ~ (s \in BluetoothSteps /\ direct)
    <3>1. Shows(s, conf, facts) \ facts \subseteq lost
      BY <1>3, <2>2 DEF LedgerTruth, Satisfied, AllSteps
    <3>2. Shows(s, conf, facts)' \subseteq
            Shows(s, conf, facts) \cup IF "reconciled" \in f THEN Existing ELSE {}
      BY <1>1 DEF Shows
    <3>3. \A x \in Shows(s, conf, facts) : x \in f \/ x \in lost'
      BY <1>1, <3>1
    <3>4. "reconciled" \in f => \A x \in Existing : x \in f \/ x \in lost'
      BY <1>1, <1>2 DEF RecordedRepair
    <3> QED
      BY <1>1, <3>2, <3>3, <3>4
  <2> QED
    BY <2>1, <2>2
<1> QED
  BY <1>2, <1>3 DEF LedgerTruth, AllSteps

LEMMA WriteComplete ==
  ASSUME NEW s, NEW status, Write(s, status)
  PROVE  \A t \in DOMAIN ledger' :
           /\ t \in DOMAIN ledger
           /\ t # s => ledger'[t] = ledger[t]
           /\ t = s => ledger'[t] = status
BY DEF Write

(* A record that is written of a machine that stays as it is.              *)
LEMMA TruthWritten ==
  ASSUME RecordedRepair, LedgerTruth, UNCHANGED <<conf, direct, facts, lost>>,
         \A s \in DOMAIN ledger' :
           ledger'[s] = "complete" =>
             \/ s \in DOMAIN ledger /\ ledger[s] = "complete"
             \/ Satisfied(s)
  PROVE  RecordedRepair' /\ LedgerTruth'
BY DEF RecordedRepair, LedgerTruth, AllSteps, Satisfied, Shows

LEMMA PlannedSteps ==
  ASSUME LockInv, Planned, NEW i \in Installers
  PROVE  /\ proc[i].n <= Len(plan) => Step(i) \in DOMAIN Contracts
         /\ proc[i].at \in {"act", "check"} => Step(i) \in DOMAIN Contracts
<1>1. proc[i].n \in Nat \ {0}
  BY EngineNow
<1>2. \A n \in 1..Len(plan) : plan[n] \in DOMAIN Contracts
  BY PlansAssumption DEF Planned
<1>3. ASSUME proc[i].n <= Len(plan) PROVE Step(i) \in DOMAIN Contracts
  <2>1. Len(plan) \in Nat
    BY DEF Planned
  <2> QED
    BY <1>1, <1>2, <1>3, <2>1 DEF Step
<1> QED
  BY <1>3 DEF Planned

(* Whoever is at an action, or behind one, is at a step of the plan.       *)
Onward == \A j \in Installers :
  proc'[j].at \in {"act", "check"} => proc'[j].n <= Len(plan)

LEMMA LeaveOnward ==
  ASSUME LockInv, Planned, NEW i \in Installers, NEW how \in {"idle", "done"}, Leave(i, how)
  PROVE  Onward
<1>1. proc \in [Installers -> ProcRecords]
  BY DEF LockInv, Engine
<1>2. /\ \A j \in Installers \ {i} : proc'[j] = proc[j]
      /\ proc'[i].at \in {"unlock", how}
  BY <1>1, EngineNow, FreshRecord DEF Leave, ProcRecords
<1> QED
  BY <1>2 DEF Onward, Planned

LEMMA GotoOnward ==
  ASSUME LockInv, Planned, NEW i \in Installers, NEW place, Goto(i, place),
         place \in {"act", "check"} => proc[i].n <= Len(plan)
  PROVE  Onward
<1>1. proc \in [Installers -> ProcRecords]
  BY DEF LockInv, Engine
<1>2. /\ \A j \in Installers \ {i} : proc'[j] = proc[j]
      /\ proc'[i].at = place /\ proc'[i].n = proc[i].n
  BY <1>1, EngineNow DEF Goto, ProcRecords
<1> QED
  BY <1>2 DEF Onward, Planned

LEMMA StandOnward ==
  ASSUME Planned, UNCHANGED proc
  PROVE  Onward
BY DEF Onward, Planned

LEMMA OneOnward ==
  ASSUME LockInv, Planned, NEW i \in Installers, NEW p, proc' = [proc EXCEPT ![i] = p],
         p.at \notin {"act", "check"}
  PROVE  Onward
BY DEF Onward, Planned, LockInv, Engine

LEMMA StepOnward ==
  ASSUME LockInv, Planned, NEW i \in Installers,
         \/ Start(i) \/ Run(i) \/ ActionFails(i) \/ ActionLies(i) \/ Kill(i) \/ Interrupt(i)
  PROVE  Onward
<1>1. proc \in [Installers -> ProcRecords] /\ proc[i] \in ProcRecords
  BY DEF LockInv, Engine
<1>2. CASE \E how \in {"idle", "done"} : Leave(i, how)
  BY <1>2, LeaveOnward
<1>3. CASE \E place \in {"read", "record", "rm", "rmdir", "again"} : Goto(i, place)
  BY <1>3, GotoOnward
<1>4. CASE proc[i].n <= Len(plan) /\ Goto(i, "act")
  BY <1>4, GotoOnward
<1>5. CASE proc[i].at = "act" /\ Goto(i, "check")
  BY <1>5, GotoOnward DEF Planned
<1>6. CASE Start(i)
  <2>1. "mkdir" \in Places
    BY DEF Places
  <2>2. [Fresh EXCEPT !.at = "mkdir"].at = "mkdir"
    BY <2>1, FreshRecord
  <2> QED
    BY <1>6, <2>2, OneOnward DEF Start
<1>7. CASE proc' = [proc EXCEPT ![i] = Fresh]
  BY <1>7, EngineNow, OneOnward
<1>8. CASE proc' = [proc EXCEPT ![i].at = "step", ![i].owns = TRUE]
  <2> DEFINE p == [proc[i] EXCEPT !.at = "step", !.owns = TRUE]
  <2>1. p.at = "step" /\ proc' = [proc EXCEPT ![i] = p]
    BY <1>1, <1>8 DEF ProcRecords
  <2> HIDE DEF p
  <2> QED
    BY <2>1, OneOnward
<1>9. CASE Unlock(i)
  <2> DEFINE p == [proc[i] EXCEPT !.at = proc[i].exit, !.owns = FALSE, !.exit = "idle"]
  <2>1. p.at \in {"idle", "done"} /\ proc' = [proc EXCEPT ![i] = p]
    BY <1>1, <1>9 DEF Unlock, ProcRecords
  <2> HIDE DEF p
  <2> QED
    BY <2>1, OneOnward
<1>10. CASE proc[i].at = "step" /\ proc' = [proc EXCEPT ![i].n = @ + 1]
  <2> DEFINE p == [proc[i] EXCEPT !.n = @ + 1]
  <2>1. p.at = "step" /\ proc' = [proc EXCEPT ![i] = p]
    BY <1>1, <1>10 DEF ProcRecords
  <2> HIDE DEF p
  <2> QED
    BY <2>1, OneOnward
<1>11. CASE proc' = [proc EXCEPT ![i].at = "step", ![i].n = @ + 1]
  <2> DEFINE p == [proc[i] EXCEPT !.at = "step", !.n = @ + 1]
  <2>1. p.at = "step" /\ proc' = [proc EXCEPT ![i] = p]
    BY <1>1, <1>11 DEF ProcRecords
  <2> HIDE DEF p
  <2> QED
    BY <2>1, OneOnward
<1>12. CASE Mkdir(i) \/ ReadOwner(i) \/ RemoveRecord(i) \/ RemoveDirectory(i) \/ MkdirAgain(i)
  BY <1>2, <1>3, <1>12 DEF Mkdir, ReadOwner, RemoveRecord, RemoveDirectory, MkdirAgain
<1>13. CASE RecordOwner(i)
  BY <1>2, <1>8, <1>13 DEF RecordOwner
<1>14. CASE Probe(i)
  <2>1. \/ Leave(i, "idle")
        \/ proc[i].at = "step" /\ proc' = [proc EXCEPT ![i].n = @ + 1]
        \/ proc[i].n <= Len(plan) /\ Goto(i, "act")
    BY <1>14 DEF Probe, At
  <2> QED
    BY <1>2, <1>4, <1>10, <2>1
<1>15. CASE Act(i) \/ ActionLies(i)
  BY <1>5, <1>15 DEF Act, ActionLies, At
<1>16. CASE Check(i)
  BY <1>2, <1>11, <1>16 DEF Check
<1>17. CASE Pause(i) \/ Refuse(i) \/ Finish(i) \/ ActionFails(i) \/ Interrupt(i)
  BY <1>2, <1>17 DEF Pause, Refuse, Finish, ActionFails, Interrupt
<1>18. CASE Kill(i)
  BY <1>7, <1>18 DEF Kill, Gone
<1> QED
  BY <1>6, <1>9, <1>12, <1>13, <1>14, <1>15, <1>16, <1>17, <1>18 DEF Run

LEMMA PlannedKeeps ==
  ASSUME LockInv, Planned, [Next]_vars
  PROVE  Planned'
<1>1. conf' = conf /\ plan' = plan /\ direct' \in BOOLEAN
  BY DEF Next, vars, Start, Run, Mkdir, ReadOwner, RemoveRecord, RemoveDirectory, MkdirAgain,
     RecordOwner, Unlock, Probe, Act, Pause, Refuse, Check, Finish, ActionFails, ActionLies,
     Kill, Interrupt, OrphanEnds, Drift, Unplug, PowerCut, Reboot, Boots, Reconnect,
     Uninstall, machine, Planned
<1>2. orphans' \subseteq DOMAIN Contracts
  <2>1. \/ orphans' \subseteq orphans
        \/ \E i \in Installers : /\ proc[i].at = "act"
                                 /\ orphans' = orphans \cup {Step(i)}
    BY DEF Next, vars, Start, Run, Mkdir, ReadOwner, RemoveRecord, RemoveDirectory,
       MkdirAgain, RecordOwner, Unlock, Probe, Act, Pause, Refuse, Check, Finish,
       ActionFails, ActionLies, Kill, Interrupt, OrphanEnds, Drift, Unplug, PowerCut, Reboot,
       Boots, Reconnect, Uninstall, machine, At
  <2> QED
    BY <2>1, PlannedSteps DEF Planned
<1>3. Onward
  <2>1. CASE UNCHANGED vars \/ Reconnect
    BY <2>1 DEF vars, Reconnect, Onward, Planned
  <2>2. CASE \E i \in Installers : \/ Start(i) \/ Run(i) \/ ActionFails(i) \/ ActionLies(i)
                                   \/ Kill(i) \/ Interrupt(i)
    BY <2>2, StepOnward
  <2>3. CASE PowerCut \/ Reboot
    BY <2>3, EngineNow DEF PowerCut, Reboot, Boots, Onward
  <2>4. CASE \/ \E s \in AllSteps : OrphanEnds(s)
             \/ \E fact \in Fragile : Drift(fact)
             \/ Unplug \/ Uninstall
    BY <2>4, StandOnward DEF OrphanEnds, Drift, Unplug, Uninstall
  <2> QED
    BY <2>1, <2>2, <2>3, <2>4 DEF Next
<1> QED
  BY <1>1, <1>2, <1>3 DEF Planned, Onward

(* A step that writes anything but "complete", or nothing.                  *)
Humble == \A s \in DOMAIN ledger' :
  ledger'[s] = "complete" => s \in DOMAIN ledger /\ ledger[s] = "complete"

LEMMA HumbleWrite ==
  ASSUME NEW s, NEW status, status # "complete", Write(s, status)
  PROVE  Humble
BY WriteComplete DEF Humble

LEMMA HumbleSame ==
  ASSUME UNCHANGED ledger
  PROVE  Humble
BY DEF Humble

LEMMA TrueBecoming ==
  ASSUME RecordedRepair, LedgerTruth, Humble, NEW f, NEW S, Becomes(f, S), Sound(f),
         UNCHANGED <<conf, direct>>
  PROVE  RecordedRepair' /\ LedgerTruth'
BY TruthKept DEF Humble

LEMMA TrueStanding ==
  ASSUME RecordedRepair, LedgerTruth, Humble, UNCHANGED <<conf, direct, facts, lost>>
  PROVE  RecordedRepair' /\ LedgerTruth'
BY TruthWritten DEF Humble

(* What an installer does to the ledger of a machine it leaves alone.      *)
LEMMA QuietTruth ==
  ASSUME RecordedRepair, LedgerTruth, NEW i \in Installers,
         \/ Start(i) \/ Mkdir(i) \/ ReadOwner(i) \/ RemoveRecord(i) \/ RemoveDirectory(i)
         \/ MkdirAgain(i) \/ RecordOwner(i) \/ Unlock(i)
         \/ Probe(i) \/ Refuse(i) \/ Check(i) \/ Finish(i)
  PROVE  RecordedRepair' /\ LedgerTruth'
<1>1. UNCHANGED <<conf, direct, facts, lost>>
  BY DEF Start, Mkdir, ReadOwner, RemoveRecord, RemoveDirectory, MkdirAgain, RecordOwner,
     Unlock, Probe, Refuse, Check, Finish, machine
<1>2. CASE \/ Start(i) \/ Mkdir(i) \/ ReadOwner(i) \/ RemoveRecord(i) \/ RemoveDirectory(i)
           \/ MkdirAgain(i) \/ RecordOwner(i) \/ Unlock(i) \/ Finish(i)
  <2>1. UNCHANGED ledger
    BY <1>2 DEF Start, Mkdir, ReadOwner, RemoveRecord, RemoveDirectory, MkdirAgain,
       RecordOwner, Unlock, Finish
  <2> QED
    BY <1>1, <2>1, HumbleSame, TrueStanding
<1>3. CASE \E status \in {"failed", "running"} : Write(Step(i), status)
  <2>1. Humble
    BY <1>3, HumbleWrite
  <2> QED
    BY <1>1, <2>1, TrueStanding
<1>4. CASE Write(Step(i), "complete") /\ Satisfied(Step(i))
  <2>1. \A s \in DOMAIN ledger' :
          ledger'[s] = "complete" =>
            \/ s \in DOMAIN ledger /\ ledger[s] = "complete"
            \/ Satisfied(s)
    BY <1>4, WriteComplete
  <2> QED
    BY <1>1, <2>1, TruthWritten
<1>5. CASE Probe(i)
  BY <1>3, <1>4, <1>5 DEF Probe, Skips
<1>6. CASE Refuse(i)
  BY <1>3, <1>6 DEF Refuse
<1>7. CASE Check(i)
  BY <1>3, <1>4, <1>7 DEF Check, Verified
<1> QED
  BY <1>2, <1>5, <1>6, <1>7

(* The steps that change the machine.                                       *)
LEMMA WorkTruth ==
  ASSUME LockInv, LedgerInv, NEW i \in Installers,
         Act(i) \/ Pause(i) \/ ActionFails(i) \/ ActionLies(i) \/ Kill(i) \/ Interrupt(i)
  PROVE  RecordedRepair' /\ LedgerTruth'
<1>1. Planned /\ RecordedRepair /\ LedgerTruth /\ UNCHANGED <<conf, direct>>
  BY DEF LedgerInv, Act, Pause, ActionFails, ActionLies, Kill, Interrupt
<1>2. Humble
  <2>1. \/ UNCHANGED ledger
        \/ \E status \in {"paused", "failed", "interrupted"} : Write(Step(i), status)
    BY DEF Act, Pause, ActionFails, ActionLies, Kill, Interrupt
  <2> QED
    BY <2>1, HumbleSame, HumbleWrite
<1>3. CASE \E f, S : Becomes(f, S) /\ Sound(f)
  BY <1>1, <1>2, <1>3, TrueBecoming
<1>4. CASE UNCHANGED <<facts, lost>>
  BY <1>1, <1>2, <1>4, TrueStanding
<1>5. Sound(facts)
  BY DEF Sound
<1>6. ASSUME At(i, "act")
      PROVE  /\ Sound(Whole(Step(i))) /\ Sound(Whole(Step(i)) \cup {"i2c-device"})
             /\ \A f \in Leftovers(Step(i)) : Sound(f)
  <2>1. Step(i) \in DOMAIN Contracts
    BY <1>1, <1>6, PlannedSteps DEF At
  <2>2. Sound(Whole(Step(i))) /\ \A f \in Leftovers(Step(i)) : Sound(f)
    BY <2>1, LeftoversSound
  <2> QED
    BY <2>2 DEF Sound
<1>7. CASE Act(i)
  <2>1. \/ Becomes(Whole(Step(i)) \cup {"i2c-device"}, {i})
        \/ Becomes(Whole(Step(i)) \cup {}, {i})
    BY <1>7 DEF Act
  <2>2. Whole(Step(i)) \cup {} = Whole(Step(i))
    OBVIOUS
  <2> QED
    BY <1>3, <1>6, <1>7, <2>1, <2>2 DEF Act
<1>8. CASE Pause(i)
  BY <1>3, <1>6, <1>8 DEF Pause
<1>9. CASE ActionFails(i) \/ ActionLies(i)
  BY <1>3, <1>6, <1>9 DEF ActionFails, ActionLies
<1>10. CASE Kill(i)
  BY <1>3, <1>4, <1>6, <1>10 DEF Kill
<1>11. CASE Interrupt(i)
  <2>1. \/ At(i, "act") /\ \E f \in Leftovers(Step(i)) : Becomes(f, {i})
        \/ Becomes(facts, {i})
    BY <1>11 DEF Interrupt
  <2> QED
    BY <1>3, <1>5, <1>6, <2>1
<1> QED
  BY <1>7, <1>8, <1>9, <1>10, <1>11

(* What happens to the machine without an installer.                        *)
LEMMA OutsideTruth ==
  ASSUME LedgerInv,
         \/ \E s \in AllSteps : OrphanEnds(s)
         \/ \E fact \in Fragile : Drift(fact)
         \/ PowerCut \/ Reboot \/ Reconnect \/ Uninstall
  PROVE  RecordedRepair' /\ LedgerTruth'
<1>1. /\ Planned /\ RecordedRepair /\ LedgerTruth /\ UNCHANGED <<conf, direct>>
      /\ orphans \subseteq DOMAIN Contracts
  BY DEF LedgerInv, Planned, OrphanEnds, Drift, PowerCut, Reboot, Reconnect, Uninstall, Boots
<1>2. Humble
  BY HumbleSame DEF OrphanEnds, Drift, PowerCut, Reboot, Reconnect, Uninstall, Boots,
     Humble, AllSteps
<1>3. CASE \E f, S : Becomes(f, S) /\ Sound(f)
  BY <1>1, <1>2, <1>3, TrueBecoming
<1>4. \A f : Sound(facts \ f) /\ Sound(facts \cup {"connected"}) /\ Sound(Booted(f))
  BY DEF Sound, Booted
<1>5. ASSUME NEW s \in AllSteps, OrphanEnds(s) PROVE \E f, S : Becomes(f, S) /\ Sound(f)
  BY <1>1, <1>5, LeftoversSound DEF OrphanEnds
<1>6. ASSUME NEW fact, Drift(fact) PROVE \E f, S : Becomes(f, S) /\ Sound(f)
  BY <1>4, <1>6 DEF Drift
<1>7. CASE PowerCut \/ Reboot
  BY <1>3, <1>4, <1>7 DEF PowerCut, Reboot, Boots
<1>8. CASE Reconnect
  BY <1>3, <1>4, <1>8 DEF Reconnect
<1>9. CASE Uninstall
  BY <1>3, <1>4, <1>9 DEF Uninstall
<1> QED
  BY <1>3, <1>5, <1>6, <1>7, <1>8, <1>9

(* A wired output that goes away loses what the Bluetooth steps were        *)
(* excused from.                                                            *)
LEMMA UnplugTruth ==
  ASSUME RecordedRepair, LedgerTruth, Unplug
  PROVE  RecordedRepair' /\ LedgerTruth'
<1>1. /\ UNCHANGED <<conf, facts, ledger>>
      /\ lost' = (lost \cup UNION {Shows(s, conf, facts) : s \in BluetoothSteps}) \ facts
  BY DEF Unplug
<1>2. RecordedRepair'
  BY <1>1 DEF RecordedRepair
<1>3. ASSUME NEW s \in AllSteps, ledger[s] = "complete"
      PROVE  Shows(s, conf, facts) \ facts \subseteq lost'
  <2>1. CASE s \in BluetoothSteps
    BY <1>1, <2>1
  <2>2. CASE s \notin BluetoothSteps
    BY <1>1, <1>3, <2>2 DEF LedgerTruth, Satisfied
  <2> QED
    BY <2>1, <2>2
<1>4. \A s : Shows(s, conf, facts)' = Shows(s, conf, facts)
  BY <1>1 DEF Shows
<1> QED
  BY <1>1, <1>2, <1>3, <1>4 DEF LedgerTruth, AllSteps

LEMMA LedgerKeeps ==
  ASSUME LockInv, LedgerInv, [Next]_vars
  PROVE  LedgerInv'
<1>1. Planned' /\ RecordedRepair /\ LedgerTruth
  BY PlannedKeeps DEF LedgerInv
<1>2. CASE UNCHANGED vars
  BY <1>1, <1>2, HumbleSame, TrueStanding DEF vars, LedgerInv
<1>3. CASE \E i \in Installers : Start(i) \/ Run(i)
  BY <1>1, <1>3, QuietTruth, WorkTruth DEF Run, LedgerInv
<1>4. CASE \E i \in Installers : ActionFails(i) \/ ActionLies(i) \/ Kill(i) \/ Interrupt(i)
  BY <1>1, <1>4, WorkTruth DEF LedgerInv
<1>5. CASE \/ \E s \in AllSteps : OrphanEnds(s)
           \/ \E fact \in Fragile : Drift(fact)
           \/ PowerCut \/ Reboot \/ Reconnect \/ Uninstall
  BY <1>1, <1>5, OutsideTruth DEF LedgerInv
<1>6. CASE Unplug
  BY <1>1, <1>6, UnplugTruth DEF LedgerInv
<1> QED
  BY <1>2, <1>3, <1>4, <1>5, <1>6 DEF Next

LEMMA InitLedgerInv == Init => LedgerInv
<1> SUFFICES ASSUME Init PROVE LedgerInv
  OBVIOUS
<1>1. Planned
  BY InitLockInv DEF Init, Planned, Fresh, DirectAudio
<1>2. RecordedRepair
  BY DEF Init, RecordedRepair
<1>3. LedgerTruth
  BY DEF Init, LedgerTruth, AllSteps
<1> QED
  BY <1>1, <1>2, <1>3 DEF LedgerInv

(* A step's record says complete only of a step that held: what its probe   *)
(* misses now held once and was lost since, whatever was killed, failed,    *)
(* lied about its success, rebooted or was uninstalled (install_engine.sh   *)
(* run_step).                                                               *)
THEOREM LedgerIsTrue == Spec => []LedgerTruth
<1>1. LedgerInv => LedgerTruth
  BY DEF LedgerInv
<1> QED
  BY InitLockInv, LockKeeps, InitLedgerInv, LedgerKeeps, <1>1, PTL DEF Spec

-----------------------------------------------------------------------------
(* What an installer leaves that reports success                            *)
(*                                                                          *)
(* First the contracts once more, now as sets: what the action of each step *)
(* does and what its probe shows, and the few effects that matter to other  *)
(* steps or that no probe looks at.                                         *)

(* w is a followed by b.                                                    *)
IsJoin(w, a, b) ==
  /\ Len(w) = Len(a) + Len(b) /\ DOMAIN w = 1..Len(w)
  /\ \A i \in 1..Len(w) : w[i] = IF i <= Len(a) THEN a[i] ELSE b[i - Len(a)]

LEMMA Joined ==
  ASSUME NEW S, NEW a \in Seq(S), NEW b \in Seq(S)
  PROVE  a \o b \in Seq(S) /\ IsJoin(a \o b, a, b)
BY DEF IsJoin

LEMMA JoinedSets ==
  ASSUME NEW S, NEW a \in Seq(S), NEW b \in Seq(S)
  PROVE  a \o b \in Seq(S) /\ ToSet(a \o b) = ToSet(a) \cup ToSet(b)
<1>1. /\ a \o b \in Seq(S) /\ Len(a \o b) = Len(a) + Len(b)
      /\ DOMAIN a = 1..Len(a) /\ DOMAIN b = 1..Len(b) /\ DOMAIN (a \o b) = 1..Len(a \o b)
      /\ Len(a) \in Nat /\ Len(b) \in Nat
      /\ \A i \in 1..Len(a \o b) :
           (a \o b)[i] = IF i <= Len(a) THEN a[i] ELSE b[i - Len(a)]
  BY Joined DEF IsJoin
<1>2. ASSUME NEW x \in ToSet(a \o b) PROVE x \in ToSet(a) \cup ToSet(b)
  <2>1. PICK i \in 1..Len(a \o b) : x = (a \o b)[i]
    BY <1>1, <1>2 DEF ToSet
  <2>2. i \in DOMAIN a \/ i - Len(a) \in DOMAIN b
    BY <1>1
  <2> QED
    BY <1>1, <2>1, <2>2 DEF ToSet
<1>3. ASSUME NEW x \in ToSet(a) PROVE x \in ToSet(a \o b)
  <2>1. PICK i \in 1..Len(a) : x = a[i]
    BY <1>1, <1>3 DEF ToSet
  <2>2. i \in 1..Len(a \o b) /\ (a \o b)[i] = x
    BY <1>1, <2>1
  <2> QED
    BY <1>1, <2>2 DEF ToSet
<1>4. ASSUME NEW x \in ToSet(b) PROVE x \in ToSet(a \o b)
  <2>1. PICK i \in 1..Len(b) : x = b[i]
    BY <1>1, <1>4 DEF ToSet
  <2>2. /\ Len(a) + i \in 1..Len(a \o b) /\ ~ (Len(a) + i <= Len(a))
        /\ Len(a) + i - Len(a) = i
    BY <1>1
  <2>3. (a \o b)[Len(a) + i] = x
    BY <1>1, <2>1, <2>2
  <2> QED
    BY <1>1, <2>2, <2>3 DEF ToSet
<1> QED
  BY <1>1, <1>2, <1>3, <1>4

(* A contract as the set of what its action does and what its probe shows.  *)
Is(contract, does, shows) == ToSet(contract.does) = does /\ contract.shows = shows

LEMMA TupleSets ==
  /\ ToSet(<<>>) = {}
  /\ \A a : ToSet(<<a>>) = {a}
  /\ \A a, b : ToSet(<<a, b>>) = {a, b}
  /\ \A a, b, c : ToSet(<<a, b, c>>) = {a, b, c}
  /\ \A a, b, c, d : ToSet(<<a, b, c, d>>) = {a, b, c, d}
  /\ \A a, b, c, d, e : ToSet(<<a, b, c, d, e>>) = {a, b, c, d, e}
  /\ \A a, b, c, d, e, f : ToSet(<<a, b, c, d, e, f>>) = {a, b, c, d, e, f}
<1> USE DEF ToSet
<1>1. ToSet(<<>>) = {}
  OBVIOUS
<1>2. \A a : ToSet(<<a>>) = {a}
  OBVIOUS
<1>3. \A a, b : ToSet(<<a, b>>) = {a, b}
  OBVIOUS
<1>4. \A a, b, c : ToSet(<<a, b, c>>) = {a, b, c}
  OBVIOUS
<1>5. \A a, b, c, d : ToSet(<<a, b, c, d>>) = {a, b, c, d}
  OBVIOUS
<1>6. \A a, b, c, d, e : ToSet(<<a, b, c, d, e>>) = {a, b, c, d, e}
  OBVIOUS
<1>7. \A a, b, c, d, e, f : ToSet(<<a, b, c, d, e, f>>) = {a, b, c, d, e, f}
  OBVIOUS
<1> HIDE DEF ToSet
<1> QED
  BY <1>1, <1>2, <1>3, <1>4, <1>5, <1>6, <1>7

LEMMA LongSets ==
  /\ ToSet(Pair) = {"paired", "trusted", "connected", "bluetooth-record"}
  /\ ToSet(ProvisionRoster) = {"models", "model-selection", "roster-record"}
  /\ ToSet(InstallAgent) =
       {"service-unit", "service-tmpfiles", "runtime-environment", "service-directories",
        "service-loaded", "service-enabled", "service-running"}
  /\ ToSet(<<"bluetooth-packages">> \o PrepareAudio) =
       {"bluetooth-packages", "headset-fragment", "audio-session"}
<1>1. ToSet(Pair) = {"paired", "trusted", "connected", "bluetooth-record"}
  <2> DEFINE S == {"paired", "trusted", "connected", "bluetooth-record"}
             a == <<"paired", "trusted", "connected">>
  <2>1. a \in Seq(S) /\ DeviceRecord \in Seq(S) /\ Pair = a \o DeviceRecord
    BY DEF DeviceRecord, Pair
  <2>2. ToSet(a) = {"paired", "trusted", "connected"} /\ ToSet(DeviceRecord) = {"bluetooth-record"}
    BY TupleSets DEF DeviceRecord
  <2> HIDE DEF S, a
  <2>3. ToSet(a \o DeviceRecord) = ToSet(a) \cup ToSet(DeviceRecord)
    BY <2>1, JoinedSets
  <2> QED
    BY <2>1, <2>2, <2>3
<1>2. ToSet(ProvisionRoster) = {"models", "model-selection", "roster-record"}
  <2> DEFINE S == {"models", "model-selection", "roster-record"}
             last == <<"roster-record">>
             both == PullModels \o SelectModel
  <2>1. PullModels \in Seq(S) /\ SelectModel \in Seq(S) /\ last \in Seq(S)
    <3>1. PullModels \in Seq(S)
      BY DEF PullModels
    <3>2. SelectModel \in Seq(S)
      BY DEF SelectModel
    <3>3. last \in Seq(S)
      OBVIOUS
    <3> QED
      BY <3>1, <3>2, <3>3
  <2>2. /\ ToSet(PullModels) = {"models"} /\ ToSet(SelectModel) = {"model-selection"}
        /\ ToSet(last) = {"roster-record"}
        /\ ProvisionRoster = both \o last
    BY TupleSets DEF PullModels, SelectModel, ProvisionRoster
  <2> HIDE DEF S, last
  <2>3. both \in Seq(S) /\ ToSet(both) = ToSet(PullModels) \cup ToSet(SelectModel)
    BY <2>1, JoinedSets
  <2> HIDE DEF both
  <2>4. ToSet(both \o last) = ToSet(both) \cup ToSet(last)
    BY <2>1, <2>3, JoinedSets
  <2> QED
    BY <2>2, <2>3, <2>4
<1>3. ToSet(<<"bluetooth-packages">> \o PrepareAudio) =
        {"bluetooth-packages", "headset-fragment", "audio-session"}
  <2> DEFINE S == {"bluetooth-packages", "headset-fragment", "audio-session"}
             a == <<"bluetooth-packages">>
  <2>1. a \in Seq(S) /\ PrepareAudio \in Seq(S)
    BY DEF PrepareAudio
  <2>2. ToSet(a) = {"bluetooth-packages"} /\ ToSet(PrepareAudio) = {"headset-fragment", "audio-session"}
    BY TupleSets DEF PrepareAudio
  <2> HIDE DEF S, a
  <2>3. ToSet(a \o PrepareAudio) = ToSet(a) \cup ToSet(PrepareAudio)
    BY <2>1, JoinedSets
  <2> QED
    BY <2>2, <2>3 DEF a
<1>4. ToSet(InstallAgent) =
       {"service-unit", "service-tmpfiles", "runtime-environment", "service-directories",
        "service-loaded", "service-enabled", "service-running"}
  <2> DEFINE files == <<"service-unit", "service-tmpfiles">>
             start == <<"service-directories", "service-loaded", "service-enabled",
                        "service-running">>
             S == {"service-unit", "service-tmpfiles", "runtime-environment",
                   "service-directories", "service-loaded", "service-enabled",
                   "service-running"}
             both == files \o RuntimeEnvironment
  <2>1. files \in Seq(S) /\ RuntimeEnvironment \in Seq(S) /\ start \in Seq(S)
    <3>1. files \in Seq(S)
      OBVIOUS
    <3>2. RuntimeEnvironment \in Seq(S)
      BY DEF RuntimeEnvironment
    <3>3. start \in Seq(S)
      OBVIOUS
    <3> QED
      BY <3>1, <3>2, <3>3
  <2>2. /\ ToSet(files) = {"service-unit", "service-tmpfiles"}
        /\ ToSet(RuntimeEnvironment) = {"runtime-environment"}
        /\ ToSet(start) = {"service-directories", "service-loaded", "service-enabled",
                           "service-running"}
        /\ InstallAgent = both \o start
    BY TupleSets DEF RuntimeEnvironment, InstallAgent
  <2> HIDE DEF S, files, start
  <2>3. both \in Seq(S) /\ ToSet(both) = ToSet(files) \cup ToSet(RuntimeEnvironment)
    BY <2>1, JoinedSets
  <2> HIDE DEF both
  <2>4. ToSet(both \o start) = ToSet(both) \cup ToSet(start)
    BY <2>1, <2>3, JoinedSets
  <2> QED
    BY <2>2, <2>3, <2>4
<1> QED
  BY <1>1, <1>2, <1>3, <1>4

LEMMA ContractSets ==
  /\ Is(SourceRecord, {"source-record"}, {"source-record"})
  /\ Is(EngineContract, {"engine-record"}, {"engine-record"})
  /\ Is(Prerequisites, {"packages"}, {"packages"})
  /\ Is(TargetPlatform, {"preflight-report"}, {"preflight-report", "packages"})
  /\ Is(AgentAccount, {"agent-group", "agent-user", "agent-groups"},
        {"agent-user", "agent-groups"})
  /\ Is(EnvironmentAccount,
        {"env-groups", "env-user", "env-memberships", "agent-control", "operator-control"},
        {"env-groups", "env-user", "env-memberships", "agent-control", "operator-control"})
  /\ Is(TargetIdentity, {"identity-report"}, {"identity-report"} \cup IdentityChecks)
  /\ Is(RuntimeBindings, {}, {"packages", "env-user"})
  /\ Is(GpioIdentity, {"gpio-report"}, {"gpio-report"})
  /\ Is(I2cPlatform, {"i2c-requested"}, {"i2c-device", "env-memberships"})
  /\ Is(ReleaseLayout, {"release-directories", "entrypoint"},
        {"release-directories", "entrypoint"})
  /\ Is(ImmutableRelease, {"release"}, {"release"})
  /\ Is(ActivateRelease, {"current", "activation-record"}, {"current", "activation-record"})
  /\ Is(SiteProfile, {"site-profile"}, {"site-profile"})
  /\ Is(RoomPreset, {"llm-preset"}, {"llm-preset"})
  /\ Is(VoicePower, {"power-rule", "voice-power"}, {"power-rule", "voice-power"})
  /\ Is(EnvironmentFiles,
        {"environment-unit", "environment-tmpfiles", "environment-directories",
         "environment-loaded"},
        {"environment-unit", "environment-tmpfiles"})
  /\ Is(Probed(<<"reconciliation-record">>), {"reconciliation-record"},
        {"reconciliation-record"})
  /\ Is(Commissioning,
        {"environment-directories", "environment-loaded", "environment-enabled",
         "environment-daemon"},
        {"environment-directories", "site-profile", "environment-enabled",
         "environment-daemon"})
  /\ Is(EnvironmentReadiness, {"environment-ready"},
        {"environment-daemon", "environment-ready"})
  /\ Is(EnvironmentMode, {"environment-mode"}, {"environment-daemon", "environment-mode"})
  /\ Is(OllamaAccount, {"ollama-group", "ollama-user", "ollama-store"},
        {"ollama-group", "ollama-user", "ollama-store"})
  /\ Is(OllamaBinary,
        {"ollama-part", "ollama-archive", "ollama-release", "ollama-sealed",
         "ollama-current", "ollama-link"}, ValidateBinary)
  /\ Is(OllamaService,
        {"ollama-unit", "ollama-dropin", "ollama-loaded", "ollama-enabled",
         "ollama-running"}, ValidateOllama)
  /\ Is(OllamaModel, {}, {})
  /\ Is(ModelRoster, {"models", "model-selection", "roster-record"},
        {"models", "ollama-running", "model-selection", "roster-record"})
  /\ Is(WhisperRuntime, {"whisper-release", "whisper-link"}, ValidateWhisper)
  /\ Is(PiperRuntime, {"piper-release", "piper-wrapper"}, ValidatePiper)
  /\ Is(SpeechModels, {"whisper-part", "whisper-model", "voice"}, ValidateModels)
  /\ Is(SpeechSmoke, {"smoke-record"}, ValidateSmoke)
  /\ Is(ApplicationService,
        {"service-unit", "service-tmpfiles", "runtime-environment", "service-directories",
         "service-loaded", "service-enabled", "service-running"}, InstalledAgent)
  /\ Is(RuntimeContext, {}, {"runtime-environment"})
  /\ Is(ApplianceReadiness,
        {"service-loaded", "service-enabled", "service-running", "service-ready"},
        ApplianceStatus)
  /\ Is(AudioStack, {"bluetooth-packages", "headset-fragment", "audio-session"}, StackStatus)
  /\ Is(AudioPairing, {"paired", "trusted", "connected", "bluetooth-record"},
        {"paired", "trusted", "connected", "bluetooth-record"})
  /\ Is(Autoconnect, {"autoconnect-unit", "autoconnect-loaded", "autoconnect-active"},
        AutoconnectStatus)
<1> USE ContractFields, TupleSets, LongSets DEF Is
<1>1. /\ Is(SourceRecord, {"source-record"}, {"source-record"})
      /\ Is(EngineContract, {"engine-record"}, {"engine-record"})
      /\ Is(Prerequisites, {"packages"}, {"packages"})
      /\ Is(TargetPlatform, {"preflight-report"}, {"preflight-report", "packages"})
  BY DEF SourceRecord, EngineContract, Prerequisites, TargetPlatform, PrerequisiteChecks
<1>2. /\ Is(AgentAccount, {"agent-group", "agent-user", "agent-groups"},
            {"agent-user", "agent-groups"})
      /\ Is(EnvironmentAccount,
            {"env-groups", "env-user", "env-memberships", "agent-control", "operator-control"},
            {"env-groups", "env-user", "env-memberships", "agent-control", "operator-control"})
      /\ Is(TargetIdentity, {"identity-report"}, {"identity-report"} \cup IdentityChecks)
  BY DEF AgentAccount, EnvironmentAccount, TargetIdentity
<1>3. /\ Is(RuntimeBindings, {}, {"packages", "env-user"})
      /\ Is(GpioIdentity, {"gpio-report"}, {"gpio-report"})
      /\ Is(I2cPlatform, {"i2c-requested"}, {"i2c-device", "env-memberships"})
      /\ Is(ReleaseLayout, {"release-directories", "entrypoint"},
            {"release-directories", "entrypoint"})
      /\ Is(ImmutableRelease, {"release"}, {"release"})
  BY DEF RuntimeBindings, BindingsCheck, GpioIdentity, GpioReport, I2cPlatform, EnableI2c,
     I2cStatus, ReleaseLayout, InitLayout, ImmutableRelease, BuildRelease
<1>4. /\ Is(ActivateRelease, {"current", "activation-record"},
            {"current", "activation-record"})
      /\ Is(SiteProfile, {"site-profile"}, {"site-profile"})
      /\ Is(RoomPreset, {"llm-preset"}, {"llm-preset"})
      /\ Is(VoicePower, {"power-rule", "voice-power"}, {"power-rule", "voice-power"})
      /\ Is(Probed(<<"reconciliation-record">>), {"reconciliation-record"},
            {"reconciliation-record"})
  BY DEF ActivateRelease, Activated, SiteProfile, EnsureProfile, ExactProfile, RoomPreset,
     ApplyPreset, VoicePower, InstallPower
<1>5. /\ Is(EnvironmentFiles,
            {"environment-unit", "environment-tmpfiles", "environment-directories",
             "environment-loaded"},
            {"environment-unit", "environment-tmpfiles"})
      /\ Is(Commissioning,
            {"environment-directories", "environment-loaded", "environment-enabled",
             "environment-daemon"},
            {"environment-directories", "site-profile", "environment-enabled",
             "environment-daemon"})
  BY DEF EnvironmentFiles, InstallEnvironment, InstalledEnvironment, Commissioning,
     ConvergeCommissioned, CommissionedStatus
<1>6. /\ Is(EnvironmentReadiness, {"environment-ready"},
            {"environment-daemon", "environment-ready"})
      /\ Is(EnvironmentMode, {"environment-mode"},
            {"environment-daemon", "environment-mode"})
      /\ Is(OllamaAccount, {"ollama-group", "ollama-user", "ollama-store"},
            {"ollama-group", "ollama-user", "ollama-store"})
  BY DEF EnvironmentReadiness, ProbeDaemon, EnvironmentMode, ConvergeMode, OllamaAccount
<1>7. /\ Is(OllamaBinary,
            {"ollama-part", "ollama-archive", "ollama-release", "ollama-sealed",
             "ollama-current", "ollama-link"}, ValidateBinary)
      /\ Is(OllamaService,
            {"ollama-unit", "ollama-dropin", "ollama-loaded", "ollama-enabled",
             "ollama-running"}, ValidateOllama)
      /\ Is(OllamaModel, {}, {})
  BY DEF OllamaBinary, InstallBinary, OllamaService, InstallOllama, OllamaModel
<1>8. Is(ModelRoster, {"models", "model-selection", "roster-record"},
         {"models", "ollama-running", "model-selection", "roster-record"})
  BY DEF ModelRoster, RosterStatus, InstalledModels
<1>9. /\ Is(WhisperRuntime, {"whisper-release", "whisper-link"}, ValidateWhisper)
      /\ Is(PiperRuntime, {"piper-release", "piper-wrapper"}, ValidatePiper)
      /\ Is(SpeechModels, {"whisper-part", "whisper-model", "voice"}, ValidateModels)
      /\ Is(SpeechSmoke, {"smoke-record"}, ValidateSmoke)
  BY DEF WhisperRuntime, InstallWhisper, PiperRuntime, InstallPiper, SpeechModels,
     ProvisionModels, SpeechSmoke, RunSmoke
<1>10. /\ Is(ApplicationService,
             {"service-unit", "service-tmpfiles", "runtime-environment",
              "service-directories", "service-loaded", "service-enabled",
              "service-running"}, InstalledAgent)
       /\ Is(RuntimeContext, {}, {"runtime-environment"})
       /\ Is(ApplianceReadiness,
             {"service-loaded", "service-enabled", "service-running", "service-ready"},
             ApplianceStatus)
  BY DEF ApplicationService, RuntimeContext, InspectContext, ApplianceReadiness,
     ActivateAppliance
<1>11. /\ Is(AudioStack, {"bluetooth-packages", "headset-fragment", "audio-session"},
             StackStatus)
       /\ Is(AudioPairing, {"paired", "trusted", "connected", "bluetooth-record"},
             {"paired", "trusted", "connected", "bluetooth-record"})
       /\ Is(Autoconnect, {"autoconnect-unit", "autoconnect-loaded", "autoconnect-active"},
             AutoconnectStatus)
  BY DEF AudioStack, AudioPairing, DeviceStatus, Autoconnect, InstallAutoconnect
<1> HIDE DEF Is
<1> QED
  BY <1>1, <1>2, <1>3, <1>4, <1>5, <1>6, <1>7, <1>8, <1>9, <1>10, <1>11

(* Effects that show later; effects other facts follow from, or that        *)
(* outdate others; facts an action may take back; effects no probe of their *)
(* own step looks at.                                                       *)
Later == {"environment-directories", "service-running"}

Telling == {"current", "voice-power", "environment-daemon", "agent-user",
            "environment-enabled", "ollama-enabled", "service-enabled",
            "autoconnect-active"} \cup Hidden \cup Later

Parts == {"ollama-part", "whisper-part"}

Revocable == {"reconciliation-record", "reconciled", "environment-daemon",
              "environment-ready", "service-ready", "roster-record"} \cup Parts

Loose == ByProducts \cup Hidden \cup Later \cup {"headset-fragment"}

Quiet(contract) == ToSet(contract.does) \cap Telling = {}

Lasting(contract) == contract.shows \cap Revocable = {}

Tight(contract) == ToSet(contract.does) \ contract.shows \subseteq Loose

TellingSteps == {"runtime_account", "activate_release", "voice_power_configuration",
                 "environment_service", "environment_commissioning", "ollama_service",
                 "application_service", "appliance_readiness",
                 "bluetooth_audio_autoconnect"}

RevocableSteps == {Reconciliation, "environment_commissioning", "environment_readiness",
                   "environment_policy", "ollama_model_roster", "appliance_readiness"}

(* The steps whose effects no other step depends on.                        *)
LEMMA QuietSteps == \A s \in DOMAIN Contracts \ TellingSteps : Quiet(Contracts[s])
<1>1. \A k, d, p : Is(k, d, p) /\ d \cap Telling = {} => Quiet(k)
  BY DEF Is, Quiet
<1>2. /\ Quiet(SourceRecord) /\ Quiet(EngineContract) /\ Quiet(Prerequisites)
      /\ Quiet(TargetPlatform) /\ Quiet(EnvironmentAccount) /\ Quiet(TargetIdentity)
      /\ Quiet(RuntimeBindings) /\ Quiet(GpioIdentity) /\ Quiet(I2cPlatform)
      /\ Quiet(ReleaseLayout) /\ Quiet(ImmutableRelease) /\ Quiet(SiteProfile)
      /\ Quiet(RoomPreset) /\ Quiet(Probed(<<"reconciliation-record">>))
      /\ Quiet(EnvironmentReadiness)
      /\ Quiet(EnvironmentMode) /\ Quiet(OllamaAccount) /\ Quiet(OllamaBinary)
      /\ Quiet(OllamaModel) /\ Quiet(ModelRoster) /\ Quiet(WhisperRuntime)
      /\ Quiet(PiperRuntime) /\ Quiet(SpeechModels) /\ Quiet(SpeechSmoke)
      /\ Quiet(RuntimeContext) /\ Quiet(AudioStack) /\ Quiet(AudioPairing)
  BY <1>1, ContractSets DEF Telling, Hidden, Later, IdentityChecks
<1> QED
  BY <1>2 DEF Contracts, TellingSteps

(* The steps whose probes no other action can turn.                         *)
LEMMA LastingSteps == \A s \in DOMAIN Contracts \ RevocableSteps : Lasting(Contracts[s])
<1>1. \A k, d, p : Is(k, d, p) /\ p \cap Revocable = {} => Lasting(k)
  BY DEF Is, Lasting
<1>2. /\ Lasting(SourceRecord) /\ Lasting(EngineContract) /\ Lasting(Prerequisites)
      /\ Lasting(TargetPlatform) /\ Lasting(AgentAccount) /\ Lasting(EnvironmentAccount)
      /\ Lasting(TargetIdentity) /\ Lasting(RuntimeBindings) /\ Lasting(GpioIdentity)
      /\ Lasting(I2cPlatform) /\ Lasting(ReleaseLayout) /\ Lasting(ImmutableRelease)
      /\ Lasting(ActivateRelease) /\ Lasting(SiteProfile) /\ Lasting(RoomPreset)
      /\ Lasting(VoicePower) /\ Lasting(OllamaAccount) /\ Lasting(OllamaModel)
      /\ Lasting(RuntimeContext) /\ Lasting(AudioPairing)
  BY <1>1, ContractSets DEF Revocable, Parts, IdentityChecks
<1>3. Lasting(EnvironmentFiles)
  BY <1>1, ContractSets DEF Revocable, Parts
<1>4. /\ Lasting(OllamaBinary) /\ Lasting(OllamaService)
      /\ Lasting(WhisperRuntime) /\ Lasting(PiperRuntime) /\ Lasting(SpeechModels)
      /\ Lasting(SpeechSmoke)
  BY <1>1, ContractSets DEF Revocable, Parts, ValidateBinary, ValidateOllama,
     ValidateWhisper, ValidatePiper, ValidateModels, ValidateSmoke
<1>5. Lasting(ApplicationService) /\ Lasting(AudioStack) /\ Lasting(Autoconnect)
  BY <1>1, ContractSets DEF Revocable, Parts, InstalledAgent, StackStatus, AutoconnectStatus
<1> QED
  BY <1>2, <1>3, <1>4, <1>5 DEF Contracts, RevocableSteps, Reconciliation

(* What an action does beside what its probe shows.                         *)
LEMMA TightSteps == \A s \in DOMAIN Contracts : Tight(Contracts[s])
<1>1. \A k, d, p : Is(k, d, p) /\ d \ p \subseteq Loose => Tight(k)
  BY DEF Is, Tight
<1>2. /\ Tight(SourceRecord) /\ Tight(EngineContract) /\ Tight(Prerequisites)
      /\ Tight(TargetPlatform) /\ Tight(AgentAccount) /\ Tight(EnvironmentAccount)
      /\ Tight(TargetIdentity) /\ Tight(RuntimeBindings) /\ Tight(GpioIdentity)
      /\ Tight(I2cPlatform) /\ Tight(ReleaseLayout) /\ Tight(ImmutableRelease)
      /\ Tight(ActivateRelease) /\ Tight(SiteProfile) /\ Tight(RoomPreset)
      /\ Tight(VoicePower)
  BY <1>1, ContractSets DEF Loose, Hidden, Later, ByProducts
<1>3. /\ Tight(EnvironmentFiles) /\ Tight(Probed(<<"reconciliation-record">>))
      /\ Tight(Commissioning) /\ Tight(EnvironmentReadiness) /\ Tight(EnvironmentMode)
      /\ Tight(OllamaAccount) /\ Tight(OllamaModel) /\ Tight(ModelRoster)
  BY <1>1, ContractSets DEF Loose, Hidden, Later, ByProducts
<1>4. /\ Tight(OllamaBinary) /\ Tight(OllamaService)
      /\ Tight(WhisperRuntime) /\ Tight(PiperRuntime) /\ Tight(SpeechModels)
      /\ Tight(SpeechSmoke)
  BY <1>1, ContractSets DEF Loose, Hidden, Later, ByProducts, ValidateBinary, ValidateOllama,
     ValidateWhisper, ValidatePiper, ValidateModels, ValidateSmoke
<1>5. /\ Tight(ApplicationService) /\ Tight(RuntimeContext) /\ Tight(ApplianceReadiness)
      /\ Tight(AudioStack) /\ Tight(AudioPairing) /\ Tight(Autoconnect)
  BY <1>1, ContractSets DEF Loose, Hidden, Later, ByProducts, InstalledAgent, ApplianceStatus,
     StackStatus, AutoconnectStatus
<1> QED
  BY <1>2, <1>3, <1>4, <1>5 DEF Contracts, SourceRecord, EngineContract, Prerequisites

(* Which step has a telling effect.                                         *)
LEMMA Tellers ==
  ASSUME NEW s \in DOMAIN Contracts, NEW e \in ToSet(Contracts[s].does)
  PROVE  /\ e = "current" => s = "activate_release"
         /\ e = "voice-power" => s = "voice_power_configuration"
         /\ e \in {"environment-daemon", "environment-enabled"} =>
              s = "environment_commissioning"
         /\ e = "agent-user" => s = "runtime_account"
         /\ e = "ollama-enabled" => s = "ollama_service"
         /\ e = "service-enabled" => s \in {"application_service", "appliance_readiness"}
         /\ e = "autoconnect-active" => s = "bluetooth_audio_autoconnect"
         /\ e = "agent-group" => s = "runtime_account"
         /\ e \in {"environment-directories", "environment-loaded"} =>
              s \in {"environment_service", "environment_commissioning"}
         /\ e = "ollama-loaded" => s = "ollama_service"
         /\ e = "service-directories" => s = "application_service"
         /\ e \in {"service-loaded", "service-running"} =>
              s \in {"application_service", "appliance_readiness"}
         /\ e = "autoconnect-loaded" => s = "bluetooth_audio_autoconnect"
<1>1. CASE s \notin TellingSteps
  BY <1>1, QuietSteps DEF Quiet, Telling, Hidden, Later
<1>2. CASE s \in TellingSteps
  <2>1. /\ Contracts["runtime_account"] = AgentAccount
        /\ Contracts["activate_release"] = ActivateRelease
        /\ Contracts["voice_power_configuration"] = VoicePower
        /\ Contracts["environment_service"] = EnvironmentFiles
        /\ Contracts["environment_commissioning"] = Commissioning
        /\ Contracts["ollama_service"] = OllamaService
        /\ Contracts["application_service"] = ApplicationService
        /\ Contracts["appliance_readiness"] = ApplianceReadiness
        /\ Contracts["bluetooth_audio_autoconnect"] = Autoconnect
    BY DEF Contracts
  <2>2. /\ s = "runtime_account" => e \in {"agent-group", "agent-user", "agent-groups"}
        /\ s = "activate_release" => e \in {"current", "activation-record"}
        /\ s = "voice_power_configuration" => e \in {"power-rule", "voice-power"}
        /\ s = "environment_service" =>
             e \in {"environment-unit", "environment-tmpfiles", "environment-directories",
                    "environment-loaded"}
        /\ s = "environment_commissioning" =>
             e \in {"environment-directories", "environment-loaded", "environment-enabled",
                    "environment-daemon"}
        /\ s = "ollama_service" =>
             e \in {"ollama-unit", "ollama-dropin", "ollama-loaded", "ollama-enabled",
                    "ollama-running"}
        /\ s = "application_service" =>
             e \in {"service-unit", "service-tmpfiles", "runtime-environment",
                    "service-directories", "service-loaded", "service-enabled",
                    "service-running"}
        /\ s = "appliance_readiness" =>
             e \in {"service-loaded", "service-enabled", "service-running", "service-ready"}
        /\ s = "bluetooth_audio_autoconnect" =>
             e \in {"autoconnect-unit", "autoconnect-loaded", "autoconnect-active"}
    BY <2>1, ContractSets DEF Is
  <2> QED
    BY <1>2, <2>2 DEF TellingSteps
<1> QED
  BY <1>1, <1>2

(* What of what held before the action of s may be gone behind it.          *)
Taken(s) ==
  Parts \cup
  CASE s = Reconciliation -> {"reconciliation-record", "reconciled"}
    [] s = "environment_commissioning" ->
         {"environment-ready", "reconciliation-record", "reconciled"}
    [] s = "ollama_model_roster" -> {"roster-record"}
    [] s = "appliance_readiness" -> {"service-ready"}
    [] s = "activate_release" ->
         {"reconciliation-record", "reconciled", "environment-daemon", "environment-ready",
          "service-ready"}
    [] s = "voice_power_configuration" ->
         {"reconciliation-record", "reconciled", "service-ready"}
    [] OTHER -> {}

LEMMA TakenParts ==
  /\ DOMAIN Product = Parts
  /\ \A s : /\ Parts \subseteq Taken(s) /\ Clears(s) \subseteq Taken(s)
            /\ Taken(s) \subseteq Revocable
BY DEF Taken, Clears, Product, Parts, Revocable, Reconciliation

(* The work of a step is the effects of its contract, or a repair.          *)
LEMMA WorkOf ==
  ASSUME NEW s \in DOMAIN Contracts, NEW c, NEW f
  PROVE  /\ Len(Work(s, c, f)) \in Nat /\ DOMAIN Work(s, c, f) = 1..Len(Work(s, c, f))
         /\ \/ Work(s, c, f) \in {<<>>, Contracts[s].does}
            \/ Work(s, c, f) = Repair /\ s = Reconciliation
<1>1. Silent(<<>>) /\ Silent(Contracts[s].does)
  BY InlineSilent, ContractsSilent DEF SilentContract
<1>2. Len(Repair) = 8 /\ DOMAIN Repair = 1..8
  BY DEF Repair
<1>3. \/ Work(s, c, f) \in {<<>>, Contracts[s].does}
      \/ Work(s, c, f) = Repair /\ s = Reconciliation
  BY DEF Work, Effects
<1> QED
  BY <1>1, <1>2, <1>3 DEF Silent

LEMMA MissingOf ==
  ASSUME NEW s \in DOMAIN Contracts, NEW c, NEW f, NEW n \in 0..Len(Work(s, c, f)),
         NEW e \in Missing(s, c, f, n)
  PROVE  /\ \E k \in 1..n : e = Work(s, c, f)[k]
         /\ \/ e \in ToSet(Contracts[s].does)
            \/ s = Reconciliation /\ \E k \in 1..8 : e = Repair[k]
<1>1. PICK k \in 1..n : e = Work(s, c, f)[k]
  BY DEF Missing
<1>2. k \in DOMAIN Work(s, c, f)
  BY WorkOf
<1>3. CASE Work(s, c, f) = <<>>
  BY <1>2, <1>3
<1>4. CASE Work(s, c, f) = Contracts[s].does
  BY <1>1, <1>2, <1>4 DEF ToSet
<1>5. CASE Work(s, c, f) = Repair /\ s = Reconciliation
  <2>1. DOMAIN Repair = 1..8
    BY DEF Repair
  <2> QED
    BY <1>1, <1>2, <1>5, <2>1
<1> QED
  BY <1>1, <1>3, <1>4, <1>5, WorkOf

LEMMA RepairEffects ==
  ASSUME NEW k \in 1..8
  PROVE  Repair[k] \in {"environment-directories", "environment-loaded", "environment-enabled",
            "environment-daemon", "environment-ready", "environment-mode", "reconciled",
            "reconciliation-record"}
BY DEF Repair

LEMMA OutdatedTaken ==
  ASSUME NEW s \in DOMAIN Contracts, NEW c, NEW f, NEW n \in 0..Len(Work(s, c, f)),
         NEW e \in Missing(s, c, f, n)
  PROVE  Outdates(e, f) \subseteq Taken(s)
<1>1. CASE e \in ToSet(Contracts[s].does)
  <2>1. /\ e = "current" => s = "activate_release"
        /\ e = "voice-power" => s = "voice_power_configuration"
        /\ e = "environment-daemon" => s = "environment_commissioning"
    BY <1>1, Tellers
  <2>2. CASE e = "current"
    BY <2>1, <2>2 DEF Outdates, Taken, Reconciliation
  <2>3. CASE e = "voice-power"
    BY <2>1, <2>3 DEF Outdates, Taken, Reconciliation
  <2>4. CASE e = "environment-daemon"
    BY <2>1, <2>4 DEF Outdates, Taken, Reconciliation
  <2>5. CASE e \notin {"current", "voice-power", "environment-daemon"}
    BY <2>5 DEF Outdates
  <2> QED
    BY <2>2, <2>3, <2>4, <2>5
<1>2. CASE s = Reconciliation /\ \E k \in 1..8 : e = Repair[k]
  <2>1. e \notin {"current", "voice-power"}
    BY <1>2, RepairEffects
  <2>2. Outdates(e, f) \subseteq {"reconciliation-record", "reconciled"}
    BY <2>1 DEF Outdates
  <2> QED
    BY <1>2, <2>2 DEF Taken, Reconciliation
<1> QED
  BY <1>1, <1>2, MissingOf

LEMMA AfterTakes ==
  ASSUME NEW s \in DOMAIN Contracts, NEW c, NEW f, NEW n \in 0..Len(Work(s, c, f))
  PROVE  /\ f \ After(s, c, f, n) \subseteq Taken(s)
         /\ After(s, c, f, n) \subseteq f \cup Missing(s, c, f, n)
         /\ Missing(s, c, f, n) \ Parts \subseteq After(s, c, f, n)
<1> DEFINE new == Missing(s, c, f, n)
           old == (f \ Clears(s)) \ UNION {Outdates(e, f) : e \in new}
<1>1. /\ After(s, c, f, n) \subseteq old \cup new
      /\ (old \cup new) \ Parts \subseteq After(s, c, f, n)
  BY TakenParts DEF After, Renamed
<1>2. f \ old \subseteq Taken(s) /\ old \subseteq f
  <2>1. ASSUME NEW x \in f, x \notin old PROVE x \in Taken(s)
    <3>1. x \in Clears(s) \/ \E e \in new : x \in Outdates(e, f)
      BY <2>1
    <3> QED
      BY <3>1, OutdatedTaken, TakenParts
  <2> QED
    BY <2>1
<1> QED
  BY <1>1, <1>2, TakenParts

-----------------------------------------------------------------------------
(* What a probe looks at last comes with what it does not look at.          *)
Backing == {<<"agent-user", "agent-group">>,
            <<"environment-enabled", "environment-loaded">>,
            <<"ollama-enabled", "ollama-loaded">>,
            <<"service-enabled", "service-loaded">>,
            <<"service-enabled", "service-directories">>,
            <<"autoconnect-active", "autoconnect-loaded">>}

Backed(f) == \A p \in Backing : p[1] \in f => p[2] \in f

(* The work w puts what backs an effect before it.                          *)
Backs(w, p) ==
  \A k \in 1..Len(w) : w[k] = p[1] => \E j \in 1..(k - 1) : w[j] = p[2]

LEMMA WorkBacks ==
  ASSUME NEW s \in DOMAIN Contracts, NEW c, NEW f, NEW p \in Backing,
         ~ (s = "appliance_readiness" /\ p[2] = "service-directories")
  PROVE  Backs(Work(s, c, f), p)
<1>1. p[1] \in {"agent-user", "environment-enabled", "ollama-enabled", "service-enabled",
                "autoconnect-active"}
  BY DEF Backing
<1>2. CASE Work(s, c, f) = <<>>
  BY <1>2 DEF Backs
<1>3. CASE Work(s, c, f) = Repair
  <2>1. Len(Repair) = 8 /\ \A k \in 1..8 : Repair[k] = "environment-enabled" => k = 3
    BY DEF Repair
  <2>2. Repair[2] = "environment-loaded" /\ 2 \in 1..(3 - 1)
    BY DEF Repair
  <2>3. \A k \in 1..8 : Repair[k] = p[1] => p[2] = "environment-loaded" /\ k = 3
    BY <1>1, <2>1, RepairEffects DEF Backing
  <2> QED
    BY <1>3, <2>1, <2>2, <2>3 DEF Backs
<1>4. CASE Work(s, c, f) = Contracts[s].does
  <2> DEFINE w == Contracts[s].does
  <2>1. \A k \in 1..Len(w) : w[k] \in ToSet(w)
    BY <1>4, WorkOf DEF ToSet
  <2>2. CASE s = "runtime_account"
    <3>1. w = <<"agent-group", "agent-user", "agent-groups">>
      BY <2>2, ContractEffects DEF Contracts
    <3>2. ASSUME NEW k \in 1..Len(w), w[k] = p[1]
          PROVE  \E j \in 1..(k - 1) : w[j] = p[2]
      <4>1. p[1] = "agent-user" /\ k = 2
        BY <1>1, <3>1, <3>2
      <4> QED
        BY <3>1, <4>1 DEF Backing
    <3> QED
      BY <1>4, <3>2 DEF Backs
  <2>3. CASE s = "environment_commissioning"
    <3>1. w = ConvergeCommissioned
      BY <2>3, ContractEffects DEF Contracts
    <3>2. ASSUME NEW k \in 1..Len(w), w[k] = p[1]
          PROVE  \E j \in 1..(k - 1) : w[j] = p[2]
      <4>1. p[1] = "environment-enabled" /\ k = 3
        BY <1>1, <3>1, <3>2 DEF ConvergeCommissioned
      <4> QED
        BY <3>1, <4>1 DEF Backing, ConvergeCommissioned
    <3> QED
      BY <1>4, <3>2 DEF Backs
  <2>4. CASE s = "ollama_service"
    <3>1. w = InstallOllama
      BY <2>4, ContractEffects DEF Contracts
    <3>2. ASSUME NEW k \in 1..Len(w), w[k] = p[1]
          PROVE  \E j \in 1..(k - 1) : w[j] = p[2]
      <4>1. p[1] = "ollama-enabled" /\ k = 4
        BY <1>1, <3>1, <3>2 DEF InstallOllama
      <4> QED
        BY <3>1, <4>1 DEF Backing, InstallOllama
    <3> QED
      BY <1>4, <3>2 DEF Backs
  <2>5. CASE s = "bluetooth_audio_autoconnect"
    <3>1. w = InstallAutoconnect
      BY <2>5, ContractEffects DEF Contracts
    <3>2. ASSUME NEW k \in 1..Len(w), w[k] = p[1]
          PROVE  \E j \in 1..(k - 1) : w[j] = p[2]
      <4>1. p[1] = "autoconnect-active" /\ k = 3
        BY <1>1, <3>1, <3>2 DEF InstallAutoconnect
      <4> QED
        BY <3>1, <4>1 DEF Backing, InstallAutoconnect
    <3> QED
      BY <1>4, <3>2 DEF Backs
  <2>6. CASE s = "appliance_readiness"
    <3>1. w = ActivateAppliance
      BY <2>6, ContractEffects DEF Contracts
    <3>2. ASSUME NEW k \in 1..Len(w), w[k] = p[1]
          PROVE  \E j \in 1..(k - 1) : w[j] = p[2]
      <4>1. p[1] = "service-enabled" /\ k = 2
        BY <1>1, <3>1, <3>2 DEF ActivateAppliance
      <4>2. p[2] = "service-loaded"
        BY <2>6, <4>1 DEF Backing
      <4> QED
        BY <3>1, <4>1, <4>2 DEF ActivateAppliance
    <3> QED
      BY <1>4, <3>2 DEF Backs
  <2>7. CASE s = "application_service"
    <3> DEFINE S == {"service-unit", "service-tmpfiles", "runtime-environment",
                     "service-directories", "service-loaded", "service-enabled",
                     "service-running"}
               a == <<"service-unit", "service-tmpfiles">> \o RuntimeEnvironment
               b == <<"service-directories", "service-loaded", "service-enabled",
                      "service-running">>
    <3>1. a \in Seq(S) /\ b \in Seq(S) /\ Len(a) = 3
      BY DEF RuntimeEnvironment
    <3>2. "service-enabled" \notin ToSet(a)
      <4>1. a[1] = "service-unit" /\ a[2] = "service-tmpfiles" /\ a[3] = "runtime-environment"
        BY DEF RuntimeEnvironment
      <4>2. DOMAIN a = 1..3
        BY <3>1
      <4> QED
        BY <4>1, <4>2 DEF ToSet
    <3>3. w = a \o b
      BY <2>7, ContractEffects DEF Contracts, InstallAgent
    <3>4. /\ b[1] = "service-directories" /\ b[2] = "service-loaded" /\ Len(b) = 4
          /\ \A i \in 1..4 : b[i] = "service-enabled" => i = 3
      OBVIOUS
    <3> HIDE DEF S, a, b
    <3>5. /\ DOMAIN a = 1..3 /\ DOMAIN b = 1..4 /\ Len(w) = 7
          /\ \A i \in 1..3 : w[i] = a[i]
          /\ \A i \in 4..7 : w[i] = b[i - 3]
      <4>1. IsJoin(a \o b, a, b)
        BY <3>1, Joined
      <4> QED
        BY <3>1, <3>3, <3>4, <4>1 DEF IsJoin
    <3>6. ASSUME NEW k \in 1..Len(w), w[k] = p[1]
          PROVE  \E j \in 1..(k - 1) : w[j] = p[2]
      <4>1. p[1] = "service-enabled"
        <5>1. w[k] \in ToSet(w)
          BY <2>1
        <5> QED
          BY <1>1, <2>7, <3>6, <5>1, Tellers
      <4>2. k \in 4..7
        <5>1. k \notin 1..3
          BY <3>2, <3>5, <3>6, <4>1 DEF ToSet
        <5> QED
          BY <3>5, <5>1
      <4>3. k = 6
        BY <3>4, <3>5, <3>6, <4>1, <4>2
      <4>4. w[4] = "service-directories" /\ w[5] = "service-loaded"
        BY <3>4, <3>5
      <4> QED
        BY <4>1, <4>3, <4>4 DEF Backing
    <3> QED
      BY <1>4, <3>6 DEF Backs
  <2>8. CASE s \notin {"runtime_account", "environment_commissioning", "ollama_service",
                       "bluetooth_audio_autoconnect", "appliance_readiness",
                       "application_service"}
    <3>1. \A k \in 1..Len(w) : w[k] # p[1]
      BY <1>1, <2>1, <2>8, Tellers
    <3> QED
      BY <1>4, <3>1 DEF Backs
  <2> QED
    BY <2>2, <2>3, <2>4, <2>5, <2>6, <2>7, <2>8
<1> QED
  BY <1>2, <1>3, <1>4, WorkOf

(* What the action of s may leave, when it fails and when it does not.      *)
Ways(s) == Leftovers(s) \cup {Whole(s), Whole(s) \cup {"i2c-device"}}

LEMMA WaysAre ==
  ASSUME NEW s \in DOMAIN Contracts, NEW f \in Ways(s)
  PROVE  \/ f = facts
         \/ \E n \in 0..Len(Work(s, conf, facts)) :
              /\ After(s, conf, facts, n) \subseteq f
              /\ f \subseteq After(s, conf, facts, n)
                               \cup {"reconciliation-record", "i2c-device"}
<1>1. Len(Work(s, conf, facts)) \in 0..Len(Work(s, conf, facts))
  BY WorkOf
<1>2. CASE f \in {Whole(s), Whole(s) \cup {"i2c-device"}}
  BY <1>1, <1>2 DEF Whole
<1>3. CASE f \in Leftovers(s)
  BY <1>3 DEF Leftovers
<1> QED
  BY <1>2, <1>3 DEF Ways

LEMMA WaysTake ==
  ASSUME NEW s \in DOMAIN Contracts, NEW f \in Ways(s)
  PROVE  facts \ f \subseteq Taken(s)
BY WaysAre, AfterTakes

LEMMA WaysBacked ==
  ASSUME NEW s \in DOMAIN Contracts, NEW f \in Ways(s), Backed(facts),
         s = "appliance_readiness" => "service-directories" \in facts
  PROVE  Backed(f)
<1> SUFFICES ASSUME NEW p \in Backing, p[1] \in f PROVE p[2] \in f
  BY DEF Backed
<1>1. /\ p[1] \notin {"reconciliation-record", "i2c-device"}
      /\ p[2] \notin Revocable
      /\ p[2] \notin Parts
  BY DEF Backing, Revocable, Parts
<1>2. CASE p[2] \in facts
  BY <1>1, <1>2, WaysTake, TakenParts
<1>3. CASE p[2] \notin facts
  <2>1. p[1] \notin facts
    BY <1>3 DEF Backed
  <2>2. PICK n \in 0..Len(Work(s, conf, facts)) :
          /\ After(s, conf, facts, n) \subseteq f
          /\ f \subseteq After(s, conf, facts, n)
                           \cup {"reconciliation-record", "i2c-device"}
    BY <2>1, WaysAre
  <2>3. p[1] \in Missing(s, conf, facts, n)
    BY <1>1, <2>1, <2>2, AfterTakes
  <2>4. PICK k \in 1..n : p[1] = Work(s, conf, facts)[k]
    BY <2>3, MissingOf
  <2>5. ~ (s = "appliance_readiness" /\ p[2] = "service-directories")
    BY <1>3
  <2>6. PICK j \in 1..(k - 1) : Work(s, conf, facts)[j] = p[2]
    <3>1. k \in 1..Len(Work(s, conf, facts))
      BY WorkOf
    <3> QED
      BY <2>4, <2>5, <3>1, WorkBacks DEF Backs
  <2>7. j \in 1..n
    BY WorkOf
  <2>8. p[2] \in Missing(s, conf, facts, n)
    BY <1>1, <1>3, <2>6, <2>7, TakenParts DEF Missing
  <2> QED
    BY <1>1, <2>2, <2>8, AfterTakes
<1> QED
  BY <1>2, <1>3

LEMMA BootedBacked ==
  ASSUME NEW f, Backed(f)
  PROVE  Backed(Booted(f)) /\ ("service-directories" \in f => "service-directories" \in Booted(f))
<1>1. \A p \in Backing : /\ p[2] \in Hidden /\ p[1] # "i2c-device"
                         /\ p[2] \in f => p[2] \in Booted(f)
  BY DEF Backing, Hidden, Booted
<1>2. \A x \in Booted(f) : x \in f \/ x = "i2c-device"
  BY DEF Booted
<1>3. "service-directories" \in f => "service-directories" \in Booted(f)
  BY DEF Booted
<1> QED
  BY <1>1, <1>2, <1>3 DEF Backed

-----------------------------------------------------------------------------
(* The plan                                                                 *)

(* Whoever comes before another step does not have to follow it.            *)
LEMMA Precedes ==
  ASSUME NEW steps, NEW c, Ordered(steps, c), NEW n \in 1..Len(steps),
         NEW s \in Follows(steps[n], c)
  PROVE  \E m \in 1..(n - 1) : steps[m] = s
<1>1. Follows(steps[n], c) \subseteq {steps[m] : m \in 1..(n - 1)}
  BY DEF Ordered
<1> QED
  BY <1>1

LEMMA NotBehind ==
  ASSUME NEW steps, NEW c, Ordered(steps, c), NEW m \in 1..Len(steps), NEW n \in 1..Len(steps),
         m <= n
  PROVE  steps[n] \notin Follows(steps[m], c)
<1> SUFFICES ASSUME steps[n] \in Follows(steps[m], c) PROVE FALSE
  OBVIOUS
<1>1. PICK k \in 1..(m - 1) : steps[k] = steps[n]
  BY Precedes
<1>2. k \in 1..Len(steps) /\ k # n
  OBVIOUS
<1> QED
  BY <1>1, <1>2 DEF Ordered

LEMMA FollowFacts ==
  ASSUME NEW c
  PROVE  /\ "activate_release" \in Follows("environment_commissioning", c)
         /\ "environment_commissioning" \in Follows("environment_readiness", c)
         /\ "environment_readiness" \in Follows("environment_policy", c)
         /\ "runtime_context" \in Follows("appliance_readiness", c)
         /\ \/ "application_service" \in Follows("runtime_context", c)
            \/ "bluetooth_audio_autoconnect" \in Follows("runtime_context", c)
         /\ "bluetooth_audio_pairing" \in Follows("bluetooth_audio_autoconnect", c)
         /\ "bluetooth_audio_stack" \in Follows("bluetooth_audio_pairing", c)
         /\ "application_service" \in Follows("bluetooth_audio_stack", c)
BY DEF Follows, Needs

(* The voice service is installed before it is asked whether it is ready.   *)
LEMMA ServiceBefore ==
  ASSUME NEW steps, NEW c, Ordered(steps, c), NEW n \in 1..Len(steps),
         steps[n] = "appliance_readiness"
  PROVE  \E m \in 1..(n - 1) : steps[m] = "application_service"
<1>1. PICK a \in 1..(n - 1) : steps[a] = "runtime_context"
  BY Precedes, FollowFacts
<1>2. CASE "application_service" \in Follows("runtime_context", c)
  <2>1. a \in 1..Len(steps)
    OBVIOUS
  <2>2. PICK m \in 1..(a - 1) : steps[m] = "application_service"
    BY <1>1, <1>2, <2>1, Precedes
  <2>3. m \in 1..(n - 1)
    OBVIOUS
  <2> QED
    BY <2>2, <2>3
<1>3. CASE "bluetooth_audio_autoconnect" \in Follows("runtime_context", c)
  <2>1. PICK b \in 1..(a - 1) : steps[b] = "bluetooth_audio_autoconnect"
    <3>1. a \in 1..Len(steps)
      OBVIOUS
    <3> QED
      BY <1>1, <1>3, <3>1, Precedes
  <2>2. PICK d \in 1..(b - 1) : steps[d] = "bluetooth_audio_pairing"
    <3>1. b \in 1..Len(steps)
      OBVIOUS
    <3> QED
      BY <2>1, <3>1, FollowFacts, Precedes
  <2>3. PICK e \in 1..(d - 1) : steps[e] = "bluetooth_audio_stack"
    <3>1. d \in 1..Len(steps)
      OBVIOUS
    <3> QED
      BY <2>2, <3>1, FollowFacts, Precedes
  <2>4. PICK m \in 1..(e - 1) : steps[m] = "application_service"
    <3>1. e \in 1..Len(steps)
      OBVIOUS
    <3> QED
      BY <2>3, <3>1, FollowFacts, Precedes
  <2>5. m \in 1..(n - 1)
    OBVIOUS
  <2> QED
    BY <2>4, <2>5
<1> QED
  BY <1>2, <1>3, FollowFacts

LEMMA RevocableShown ==
  ASSUME NEW s \in RevocableSteps \ {Reconciliation}
  PROVE  Contracts[s].shows \cap Revocable =
           CASE s = "environment_commissioning" -> {"environment-daemon"}
             [] s = "environment_readiness" -> {"environment-daemon", "environment-ready"}
             [] s = "environment_policy" -> {"environment-daemon"}
             [] s = "ollama_model_roster" -> {"roster-record"}
             [] s = "appliance_readiness" -> {"service-ready"}
<1>1. /\ Contracts["environment_commissioning"] = Commissioning
      /\ Contracts["environment_readiness"] = EnvironmentReadiness
      /\ Contracts["environment_policy"] = EnvironmentMode
      /\ Contracts["ollama_model_roster"] = ModelRoster
      /\ Contracts["appliance_readiness"] = ApplianceReadiness
  BY DEF Contracts
<1>2. /\ Commissioning.shows \cap Revocable = {"environment-daemon"}
      /\ EnvironmentReadiness.shows \cap Revocable = {"environment-daemon", "environment-ready"}
      /\ EnvironmentMode.shows \cap Revocable = {"environment-daemon"}
      /\ ModelRoster.shows \cap Revocable = {"roster-record"}
      /\ ApplianceReadiness.shows \cap Revocable = {"service-ready"}
  BY ContractSets DEF Is, Revocable, Parts, ApplianceStatus
<1> QED
  BY <1>1, <1>2 DEF RevocableSteps

(* No later step of the plan takes back what an earlier one has shown.      *)
LEMMA EarlierKept ==
  ASSUME NEW steps, NEW c, Ordered(steps, c), NEW m \in 1..Len(steps), NEW n \in 1..Len(steps),
         m < n, steps[m] \in DOMAIN Contracts, steps[m] # Reconciliation, NEW f
  PROVE  Shows(steps[m], c, f) \cap Taken(steps[n]) = {}
<1> DEFINE s == steps[m]
           t == steps[n]
<1>1. Shows(s, c, f) \subseteq Contracts[s].shows \cup {"release"}
  BY DEF Shows, Candidate
<1>2. "release" \notin Revocable /\ Taken(t) \subseteq Revocable
  BY TakenParts DEF Revocable, Parts
<1>3. Contracts[s].shows \cap Taken(t) = {}
  <2>1. CASE s \notin RevocableSteps
    BY <1>2, <2>1, LastingSteps DEF Lasting
  <2>2. t # s
    BY DEF Ordered
  <2>3. t \notin Follows(s, c)
    BY NotBehind
  <2>4. ASSUME NEW u \in Follows(s, c)
        PROVE  t \notin Follows(u, c)
    <3>1. PICK k \in 1..(m - 1) : steps[k] = u
      BY Precedes
    <3>2. k \in 1..Len(steps) /\ k <= n
      OBVIOUS
    <3> QED
      BY <3>1, <3>2, NotBehind
  <2> DEFINE shown == Contracts[s].shows
  <2>5. CASE s = "environment_commissioning"
    <3>1. shown \cap Revocable = {"environment-daemon"}
      BY <2>5, RevocableShown DEF RevocableSteps, Reconciliation
    <3>2. t # "activate_release"
      BY <2>3, <2>5, FollowFacts
    <3>3. "environment-daemon" \notin Taken(t)
      BY <3>2 DEF Taken, Parts, Reconciliation
    <3> QED
      BY <1>2, <3>1, <3>3
  <2>6. CASE s = "environment_readiness"
    <3>1. shown \cap Revocable = {"environment-daemon", "environment-ready"}
      BY <2>6, RevocableShown DEF RevocableSteps, Reconciliation
    <3>2. t # "activate_release" /\ t # "environment_commissioning"
      BY <2>3, <2>4, <2>6, FollowFacts
    <3>3. "environment-daemon" \notin Taken(t) /\ "environment-ready" \notin Taken(t)
      BY <3>2 DEF Taken, Parts, Reconciliation
    <3> QED
      BY <1>2, <3>1, <3>3
  <2>7. CASE s = "environment_policy"
    <3>1. shown \cap Revocable = {"environment-daemon"}
      BY <2>7, RevocableShown DEF RevocableSteps, Reconciliation
    <3>2. t # "activate_release"
      <4>1. PICK k \in 1..(m - 1) : steps[k] = "environment_readiness"
        BY <2>7, FollowFacts, Precedes
      <4>2. PICK l \in 1..(k - 1) : steps[l] = "environment_commissioning"
        <5>1. k \in 1..Len(steps)
          OBVIOUS
        <5> QED
          BY <4>1, <5>1, FollowFacts, Precedes
      <4>3. l \in 1..Len(steps) /\ l <= n
        OBVIOUS
      <4>4. t \notin Follows("environment_commissioning", c)
        BY <4>2, <4>3, NotBehind
      <4> QED
        BY <4>4, FollowFacts
    <3>3. "environment-daemon" \notin Taken(t)
      BY <3>2 DEF Taken, Parts, Reconciliation
    <3> QED
      BY <1>2, <3>1, <3>3
  <2>8. CASE s = "ollama_model_roster"
    <3>1. shown \cap Revocable = {"roster-record"}
      BY <2>8, RevocableShown DEF RevocableSteps, Reconciliation
    <3>2. "roster-record" \notin Taken(t)
      BY <2>2, <2>8 DEF Taken, Parts, Reconciliation
    <3> QED
      BY <1>2, <3>1, <3>2
  <2>9. CASE s = "appliance_readiness"
    <3>1. shown \cap Revocable = {"service-ready"}
      BY <2>9, RevocableShown DEF RevocableSteps, Reconciliation
    <3>2. t # "activate_release" /\ t # "voice_power_configuration"
      <4>1. PICK k \in 1..(m - 1) : steps[k] = "application_service"
        BY <2>9, ServiceBefore
      <4>2. k \in 1..Len(steps) /\ k <= n
        OBVIOUS
      <4>3. t \notin Follows("application_service", c)
        BY <4>1, <4>2, NotBehind
      <4>4. t \in ToSet(Registered(c))
        BY DEF Ordered
      <4> QED
        BY <4>3, <4>4 DEF Follows
    <3>3. "service-ready" \notin Taken(t)
      BY <2>2, <2>9, <3>2 DEF Taken, Parts, Reconciliation
    <3> QED
      BY <1>2, <3>1, <3>3
  <2> QED
    BY <2>1, <2>5, <2>6, <2>7, <2>8, <2>9 DEF RevocableSteps
<1> QED
  BY <1>1, <1>2, <1>3

(* Nobody skips a step, and success is behind the last one.                 *)
PlacedAt(p) ==
  /\ p.n <= Len(plan) + 1
  /\ p.at = "done" \/ p.exit = "done" => p.n > Len(plan)

Placed == \A i \in Installers : PlacedAt(proc[i])

(* How far a step of the system may take an installer.                      *)
Advance(j) ==
  /\ PlacedAt(proc'[j])
  /\ proc'[j].at \notin {"idle", "done"} =>
       proc[j].at \notin {"idle", "done"} \/ proc'[j].n = 1
  /\ \/ proc'[j].n = 1
     \/ proc'[j].n = proc[j].n
     \/ /\ proc'[j].n = proc[j].n + 1 /\ proc[j].n <= Len(plan)
        /\ Satisfied(Step(j)) /\ UNCHANGED facts

Advancing == \A j \in Installers : Advance(j)

LEMMA PlacesNow ==
  ASSUME LockInv, Placed, NEW i \in Installers
  PROVE  /\ proc \in [Installers -> ProcRecords] /\ proc[i] \in ProcRecords
         /\ proc[i].n \in Nat \ {0} /\ PlacedAt(proc[i]) /\ Len(plan) \in Nat
         /\ PlacedAt(Fresh) /\ Fresh.n = 1 /\ Fresh.exit = "idle" /\ Fresh.at = "idle"
<1>1. Len(plan) \in Nat
  OBVIOUS
<1> QED
  BY <1>1, EngineNow DEF LockInv, Engine, Placed, PlacedAt, Fresh

LEMMA StandAdvance ==
  ASSUME LockInv, Placed, UNCHANGED proc
  PROVE  Advancing
BY DEF Advancing, Advance, Placed

LEMMA OneAdvance ==
  ASSUME LockInv, Placed, NEW i \in Installers, NEW p, proc' = [proc EXCEPT ![i] = p],
         PlacedAt(p),
         p.at \notin {"idle", "done"} => proc[i].at \notin {"idle", "done"} \/ p.n = 1,
         \/ p.n = 1
         \/ p.n = proc[i].n
         \/ /\ p.n = proc[i].n + 1 /\ proc[i].n <= Len(plan)
            /\ Satisfied(Step(i)) /\ UNCHANGED facts
  PROVE  Advancing
<1>1. proc'[i] = p /\ \A j \in Installers \ {i} : proc'[j] = proc[j]
  BY PlacesNow
<1>2. Advance(i)
  BY <1>1 DEF Advance
<1>3. \A j \in Installers \ {i} : Advance(j)
  BY <1>1, PlacesNow DEF Advance
<1> QED
  BY <1>2, <1>3 DEF Advancing

LEMMA GotoAdvance ==
  ASSUME LockInv, Placed, NEW i \in Installers, NEW place \in Places \ {"done"}, Goto(i, place),
         proc[i].at \notin {"idle", "done"}
  PROVE  Advancing
<1> DEFINE p == [proc[i] EXCEPT !.at = place]
<1>1. p.at = place /\ p.n = proc[i].n /\ p.exit = proc[i].exit /\ proc' = [proc EXCEPT ![i] = p]
  BY PlacesNow DEF Goto, ProcRecords
<1> HIDE DEF p
<1>2. PlacedAt(p)
  BY <1>1, PlacesNow DEF PlacedAt
<1> QED
  BY <1>1, <1>2, OneAdvance

LEMMA LeaveAdvance ==
  ASSUME LockInv, Placed, NEW i \in Installers, NEW how \in {"idle", "done"}, Leave(i, how),
         proc[i].at \notin {"idle", "done"},
         how = "done" => proc[i].owns /\ proc[i].n > Len(plan)
  PROVE  Advancing
<1>1. CASE proc[i].owns
  <2> DEFINE p == [proc[i] EXCEPT !.at = "unlock", !.exit = how]
  <2>1. /\ p.at = "unlock" /\ p.n = proc[i].n /\ p.exit = how
        /\ proc' = [proc EXCEPT ![i] = p]
    BY <1>1, PlacesNow DEF Leave, ProcRecords
  <2> HIDE DEF p
  <2>2. PlacedAt(p)
    BY <2>1, PlacesNow DEF PlacedAt
  <2> QED
    BY <2>1, <2>2, OneAdvance
<1>2. CASE ~ proc[i].owns
  <2> DEFINE p == [Fresh EXCEPT !.at = how]
  <2>1. /\ p.at = "idle" /\ p.n = 1 /\ p.exit = "idle" /\ proc' = [proc EXCEPT ![i] = p]
    BY <1>2, PlacesNow DEF Leave, Fresh
  <2> HIDE DEF p
  <2>2. PlacedAt(p)
    BY <2>1, PlacesNow DEF PlacedAt
  <2> QED
    BY <2>1, <2>2, OneAdvance
<1> QED
  BY <1>1, <1>2

LEMMA LeaveIdle ==
  ASSUME LockInv, Placed, NEW i \in Installers, Leave(i, "idle"),
         proc[i].at \notin {"idle", "done"}
  PROVE  Advancing
BY LeaveAdvance

LEMMA StepAdvance ==
  ASSUME LockInv, Placed, Planned, NEW i \in Installers,
         \/ Start(i) \/ Run(i) \/ ActionFails(i) \/ ActionLies(i) \/ Kill(i) \/ Interrupt(i)
  PROVE  Advancing
<1>1. CASE Leave(i, "idle") /\ proc[i].at \notin {"idle", "done"}
  BY <1>1, LeaveIdle
<1>2. ASSUME NEW place \in {"read", "record", "rm", "rmdir", "again", "act", "check"},
             Goto(i, place), proc[i].at \notin {"idle", "done"}
      PROVE  Advancing
  <2>1. place \in Places \ {"done"}
    BY DEF Places, Taking, Busy
  <2> QED
    BY <1>2, <2>1, GotoAdvance
<1>3. CASE Start(i)
  <2> DEFINE p == [Fresh EXCEPT !.at = "mkdir"]
  <2>1. /\ p.at = "mkdir" /\ p.n = 1 /\ p.exit = "idle" /\ proc' = [proc EXCEPT ![i] = p]
    BY <1>3 DEF Start, Fresh
  <2> HIDE DEF p
  <2>2. PlacedAt(p)
    BY <2>1, PlacesNow DEF PlacedAt
  <2> QED
    BY <2>1, <2>2, OneAdvance
<1>4. CASE proc' = [proc EXCEPT ![i] = Fresh]
  BY <1>4, PlacesNow, OneAdvance
<1>5. CASE /\ proc[i].at = "record"
           /\ proc' = [proc EXCEPT ![i].at = "step", ![i].owns = TRUE]
  <2> DEFINE p == [proc[i] EXCEPT !.at = "step", !.owns = TRUE]
  <2>1. /\ p.at = "step" /\ p.n = proc[i].n /\ p.exit = proc[i].exit
        /\ proc' = [proc EXCEPT ![i] = p]
    BY <1>5, PlacesNow DEF ProcRecords
  <2> HIDE DEF p
  <2>2. PlacedAt(p)
    BY <2>1, PlacesNow DEF PlacedAt
  <2> QED
    BY <1>5, <2>1, <2>2, OneAdvance
<1>6. CASE Unlock(i)
  <2> DEFINE p == [proc[i] EXCEPT !.at = proc[i].exit, !.owns = FALSE, !.exit = "idle"]
  <2>1. /\ p.at = proc[i].exit /\ p.n = proc[i].n /\ p.exit = "idle"
        /\ proc' = [proc EXCEPT ![i] = p] /\ proc[i].at = "unlock"
    BY <1>6, PlacesNow DEF Unlock, ProcRecords, At
  <2> HIDE DEF p
  <2>2. PlacedAt(p)
    BY <2>1, PlacesNow DEF PlacedAt
  <2> QED
    BY <2>1, <2>2, OneAdvance
<1>7. CASE /\ proc[i].at \in {"step", "check"} /\ proc[i].n <= Len(plan)
           /\ Satisfied(Step(i)) /\ UNCHANGED facts
           /\ \/ proc' = [proc EXCEPT ![i].n = @ + 1]
              \/ proc' = [proc EXCEPT ![i].at = "step", ![i].n = @ + 1]
  <2>1. PICK p \in {[proc[i] EXCEPT !.n = @ + 1],
                    [proc[i] EXCEPT !.at = "step", !.n = @ + 1]} :
          proc' = [proc EXCEPT ![i] = p]
    BY <1>7, PlacesNow
  <2>2. p.n = proc[i].n + 1 /\ p.at \in {"step", "check"} /\ p.exit = proc[i].exit
    BY <1>7, <2>1, PlacesNow DEF ProcRecords
  <2>3. proc[i].exit # "done"
    BY <1>7, PlacesNow DEF PlacedAt
  <2>4. PlacedAt(p)
    BY <1>7, <2>2, <2>3, PlacesNow DEF PlacedAt
  <2> QED
    BY <1>7, <2>1, <2>2, <2>4, OneAdvance
<1>8. CASE Mkdir(i) \/ ReadOwner(i) \/ RemoveRecord(i) \/ RemoveDirectory(i) \/ MkdirAgain(i)
  BY <1>1, <1>2, <1>8 DEF Mkdir, ReadOwner, RemoveRecord, RemoveDirectory, MkdirAgain, At
<1>9. CASE RecordOwner(i)
  BY <1>1, <1>5, <1>9 DEF RecordOwner, At
<1>10. CASE Probe(i)
  <2>1. \/ Leave(i, "idle")
        \/ Satisfied(Step(i)) /\ proc' = [proc EXCEPT ![i].n = @ + 1]
        \/ Goto(i, "act")
    BY <1>10 DEF Probe, Skips
  <2>2. proc[i].at = "step" /\ proc[i].n <= Len(plan) /\ UNCHANGED facts
    BY <1>10 DEF Probe, At, machine
  <2> QED
    BY <1>1, <1>2, <1>7, <2>1, <2>2
<1>11. CASE Act(i) \/ ActionLies(i)
  BY <1>2, <1>11 DEF Act, ActionLies, At
<1>12. CASE Check(i)
  <2>1. \/ Leave(i, "idle")
        \/ Satisfied(Step(i)) /\ proc' = [proc EXCEPT ![i].at = "step", ![i].n = @ + 1]
    BY <1>12 DEF Check, Verified
  <2>2. proc[i].at = "check" /\ proc[i].n <= Len(plan) /\ UNCHANGED facts
    BY <1>12 DEF Check, At, machine, Planned
  <2> QED
    BY <1>1, <1>7, <2>1, <2>2
<1>13. CASE Pause(i) \/ Refuse(i) \/ ActionFails(i) \/ Interrupt(i)
  BY <1>1, <1>13 DEF Pause, Refuse, ActionFails, Interrupt, At
<1>14. CASE Finish(i)
  <2>1. proc[i].at = "step" /\ proc[i].n > Len(plan) /\ Leave(i, "done")
    BY <1>14 DEF Finish, At
  <2>2. proc[i].owns
    BY <2>1, EngineNow DEF Busy
  <2> QED
    BY <2>1, <2>2, LeaveAdvance
<1>15. CASE Kill(i)
  BY <1>4, <1>15 DEF Kill, Gone
<1> QED
  BY <1>3, <1>6, <1>8, <1>9, <1>10, <1>11, <1>12, <1>13, <1>14, <1>15 DEF Run

LEMMA NextAdvances ==
  ASSUME LockInv, Placed, Planned, [Next]_vars
  PROVE  Advancing
<1>1. CASE UNCHANGED proc
  BY <1>1, StandAdvance
<1>2. CASE PowerCut \/ Reboot
  <2>1. \A j \in Installers : proc'[j] = Fresh
    BY <1>2 DEF PowerCut, Reboot, Boots
  <2> QED
    BY <2>1, PlacesNow DEF Advancing, Advance
<1> QED
  BY <1>1, <1>2, StepAdvance DEF Next, vars, OrphanEnds, Drift, Unplug, Reconnect, Uninstall

(* The steps behind an installer.                                           *)
Passed(i) == {plan[m] : m \in 1..(proc[i].n - 1)}

(* The voice service's directories are there once its step is done, for as  *)
(* long as somebody may enable the service on the strength of that.         *)
Directories ==
  /\ \A i \in Installers :
       proc[i].at \notin {"idle", "done"} /\ "application_service" \in Passed(i) =>
         "service-directories" \in facts
  /\ "appliance_readiness" \in orphans => "service-directories" \in facts

(* What an undisturbed run has shown still holds.                           *)
Undisturbed == \A i \in Installers \cap clean :
  \A s \in Passed(i) \ {Reconciliation} : Satisfied(s)

ConvergedInv ==
  /\ Placed /\ Backed(facts) /\ Directories /\ Undisturbed
  /\ AllSteps = ToSet(Registered(conf)) /\ clean \subseteq Installers

LEMMA PlanInOrder ==
  ASSUME PlansOrdered, Planned
  PROVE  /\ Ordered(plan, conf)
         /\ \A n \in 1..Len(plan) : plan[n] \in DOMAIN Contracts
BY PlansAssumption DEF PlansOrdered, Planned

LEMMA Acting ==
  ASSUME PlansOrdered, LockInv, Planned, Directories, NEW i \in Installers, At(i, "act")
  PROVE  /\ proc[i].n \in 1..Len(plan) /\ Step(i) \in DOMAIN Contracts
         /\ Step(i) = "appliance_readiness" => "service-directories" \in facts
<1>1. proc[i].n \in 1..Len(plan)
  <2>1. proc[i].n \in Nat \ {0} /\ Len(plan) \in Nat
    BY EngineNow
  <2> QED
    BY <2>1 DEF Planned, At
<1>2. Step(i) \in DOMAIN Contracts
  BY <1>1, PlanInOrder DEF Step
<1>3. ASSUME Step(i) = "appliance_readiness" PROVE "service-directories" \in facts
  <2>1. PICK m \in 1..(proc[i].n - 1) : plan[m] = "application_service"
    BY <1>1, <1>3, ServiceBefore, PlanInOrder DEF Step
  <2>2. "application_service" \in Passed(i)
    BY <2>1 DEF Passed
  <2> QED
    BY <2>2 DEF Directories, At
<1> QED
  BY <1>1, <1>2, <1>3

-----------------------------------------------------------------------------
(* What becomes of the facts                                                *)

LEMMA RemovalsAre ==
  /\ Len(Removals) = 13 /\ DOMAIN Removals = 1..13
  /\ \A k \in 1..13 :
       /\ "service-loaded" \in Removals[k] => k = 10
       /\ "environment-loaded" \in Removals[k] => k = 10
       /\ Removals[k] \cap {"agent-group", "ollama-loaded", "service-directories",
                            "autoconnect-loaded"} = {}
  /\ "service-enabled" \in Removals[2] /\ "environment-enabled" \in Removals[4]
<1>1. Len(Removals) = 13 /\ DOMAIN Removals = 1..13
  BY DEF Removals
<1>2. \A k \in 1..13 :
       /\ "service-loaded" \in Removals[k] => k = 10
       /\ "environment-loaded" \in Removals[k] => k = 10
  BY DEF Removals
<1>3. \A k \in 1..13 :
       Removals[k] \cap {"agent-group", "ollama-loaded", "service-directories",
                         "autoconnect-loaded"} = {}
  BY DEF Removals
<1>4. "service-enabled" \in Removals[2] /\ "environment-enabled" \in Removals[4]
  BY DEF Removals
<1> QED
  BY <1>1, <1>2, <1>3, <1>4

LEMMA UninstallBacked ==
  ASSUME Backed(facts), Uninstall
  PROVE  Backed(facts')
<1>1. CASE \E n \in 1..Len(Removals) : facts' = facts \ UNION ToSet(SubSeq(Removals, 1, n))
  <2>1. PICK n \in 1..13 : facts' = facts \ UNION ToSet(SubSeq(Removals, 1, n))
    BY <1>1, RemovalsAre
  <2>2. ToSet(SubSeq(Removals, 1, n)) = {Removals[k] : k \in 1..n}
    <3>1. /\ DOMAIN SubSeq(Removals, 1, n) = 1..n
          /\ \A k \in 1..n : SubSeq(Removals, 1, n)[k] = Removals[k]
      BY RemovalsAre
    <3> QED
      BY <3>1 DEF ToSet
  <2> SUFFICES ASSUME NEW p \in Backing, p[1] \in facts' PROVE p[2] \in facts'
    BY DEF Backed
  <2>3. p[2] \in facts /\ \A k \in 1..n : p[1] \notin Removals[k]
    BY <2>1, <2>2 DEF Backed
  <2>4. ASSUME NEW k \in 1..n, p[2] \in Removals[k] PROVE FALSE
    <3>1. k \in 1..13
      OBVIOUS
    <3>2. p[2] \in {"service-loaded", "environment-loaded"}
      BY <2>4, <3>1, RemovalsAre DEF Backing
    <3>3. k = 10 /\ p[1] \in {"service-enabled", "environment-enabled"}
      BY <2>4, <3>1, <3>2, RemovalsAre DEF Backing
    <3>4. 2 \in 1..n /\ 4 \in 1..n
      BY <3>3
    <3>5. \/ p[1] = "service-enabled" /\ p[1] \notin Removals[2]
          \/ p[1] = "environment-enabled" /\ p[1] \notin Removals[4]
      BY <2>3, <3>3, <3>4
    <3> QED
      BY <3>5, RemovalsAre
  <2> QED
    BY <2>1, <2>2, <2>3, <2>4
<1>2. CASE facts' = facts \ (OwnedData \cup UNION ToSet(Removals))
  <2> SUFFICES ASSUME NEW p \in Backing, p[1] \in facts' PROVE p[2] \in facts'
    BY DEF Backed
  <2>1. \A k \in 1..13 : Removals[k] \in ToSet(Removals)
    BY RemovalsAre DEF ToSet
  <2>2. p[1] \notin {"service-enabled", "environment-enabled"}
    BY <1>2, <2>1, RemovalsAre
  <2>3. p[2] \in facts /\ p[2] \in {"agent-group", "ollama-loaded", "autoconnect-loaded"}
    BY <1>2, <2>2 DEF Backed, Backing
  <2>4. \A r \in ToSet(Removals) : p[2] \notin r
    <3>1. \A r \in ToSet(Removals) : \E k \in 1..13 : r = Removals[k]
      BY RemovalsAre DEF ToSet
    <3> QED
      BY <2>3, <3>1, RemovalsAre
  <2>5. p[2] \notin OwnedData
    BY <2>3 DEF OwnedData
  <2> QED
    BY <1>2, <2>3, <2>4, <2>5
<1> QED
  BY <1>1, <1>2 DEF Uninstall, Becomes

(* What a step may do to the facts, other than remove an installation.      *)
Changes ==
  \/ UNCHANGED facts
  \/ \E i \in Installers : At(i, "act") /\ facts' \in Ways(Step(i))
  \/ \E s \in orphans : facts' \in Ways(s)
  \/ \E fact \in Fragile : facts' = facts \ {fact}
  \/ facts' = Booted(facts)
  \/ \E i \in Installers : At(i, "act") /\ \E f \in Ways(Step(i)) : facts' = Booted(f)
  \/ facts' = facts \cup {"connected"}

LEMMA NextChanges ==
  ASSUME [Next]_vars
  PROVE  Changes \/ Uninstall
<1>1. CASE UNCHANGED facts
  BY <1>1 DEF Changes
<1>2. ASSUME NEW i \in Installers, Act(i) \/ Pause(i) \/ ActionFails(i) \/ ActionLies(i)
      PROVE  Changes
  <2>1. At(i, "act") /\ facts' \in Ways(Step(i))
    <3>1. CASE Act(i)
      <4>1. Whole(Step(i)) \cup {} = Whole(Step(i))
        OBVIOUS
      <4> QED
        BY <3>1, <4>1 DEF Act, Becomes, Ways
    <3> QED
      BY <1>2, <3>1 DEF Pause, ActionFails, ActionLies, Becomes, Ways
  <2> QED
    BY <2>1 DEF Changes
<1>3. ASSUME NEW i \in Installers, Kill(i) \/ Interrupt(i) PROVE Changes
  <2>1. UNCHANGED facts \/ (At(i, "act") /\ facts' \in Ways(Step(i)))
    BY <1>3 DEF Kill, Interrupt, Becomes, Ways
  <2> QED
    BY <2>1 DEF Changes
<1>4. CASE \E s \in AllSteps : OrphanEnds(s)
  BY <1>4 DEF OrphanEnds, Becomes, Ways, Changes
<1>5. CASE \E fact \in Fragile : Drift(fact)
  BY <1>5 DEF Drift, Becomes, Changes
<1>6. CASE PowerCut \/ Reboot
  <2>1. PICK f \in {facts} \cup UNION {Leftovers(Step(i)) : i \in {j \in Installers : At(j, "act")}} :
          facts' = Booted(f)
    BY <1>6 DEF PowerCut, Reboot, Boots, Becomes
  <2>2. f = facts \/ \E i \in Installers : At(i, "act") /\ f \in Leftovers(Step(i))
    BY <2>1
  <2>3. f = facts \/ \E i \in Installers : At(i, "act") /\ f \in Ways(Step(i))
    BY <2>2 DEF Ways
  <2> QED
    BY <2>1, <2>3 DEF Changes
<1>7. CASE Reconnect
  BY <1>7 DEF Reconnect, Becomes, Changes
<1>8. CASE Unplug
  BY <1>1, <1>8 DEF Unplug
<1>9. ASSUME NEW i \in Installers, Start(i) \/ Run(i) PROVE Changes
  <2>1. CASE Act(i) \/ Pause(i)
    BY <1>2, <2>1
  <2>2. CASE ~ (Act(i) \/ Pause(i))
    <3>1. UNCHANGED facts
      BY <1>9, <2>2 DEF Run, Start, Mkdir, ReadOwner, RemoveRecord, RemoveDirectory,
         MkdirAgain, RecordOwner, Unlock, Probe, Refuse, Check, Finish, machine
    <3> QED
      BY <3>1 DEF Changes
  <2> QED
    BY <2>1, <2>2
<1> QED
  BY <1>1, <1>2, <1>3, <1>4, <1>5, <1>6, <1>7, <1>8, <1>9 DEF Next, vars

LEMMA ChangesBacked ==
  ASSUME PlansOrdered, DriftIsSeen, LockInv, Planned, ConvergedInv, Changes
  PROVE  /\ Backed(facts')
         /\ "service-directories" \in facts => "service-directories" \in facts'
<1>1. /\ Backed(facts) /\ Directories
      /\ \A p \in Backing : p[1] # "connected" /\ p[2] \in Hidden
      /\ "service-directories" \in Hidden
      /\ \A s : "service-directories" \notin Taken(s)
  BY TakenParts DEF ConvergedInv, Backing, Hidden, Revocable, Parts
<1>2. ASSUME NEW s \in DOMAIN Contracts, NEW f \in Ways(s),
             s = "appliance_readiness" => "service-directories" \in facts
      PROVE  Backed(f) /\ ("service-directories" \in facts => "service-directories" \in f)
  BY <1>1, <1>2, WaysBacked, WaysTake
<1>3. ASSUME NEW i \in Installers, At(i, "act"), NEW f \in Ways(Step(i))
      PROVE  Backed(f) /\ ("service-directories" \in facts => "service-directories" \in f)
  BY <1>1, <1>2, <1>3, Acting
<1>4. CASE UNCHANGED facts
  BY <1>1, <1>4
<1>5. CASE \E i \in Installers : At(i, "act") /\ facts' \in Ways(Step(i))
  BY <1>3, <1>5
<1>6. CASE \E s \in orphans : facts' \in Ways(s)
  BY <1>1, <1>2, <1>6 DEF Planned, Directories
<1>7. CASE \E fact \in Fragile : facts' = facts \ {fact}
  BY <1>1, <1>7 DEF DriftIsSeen, Backed
<1>8. CASE facts' = Booted(facts)
  BY <1>1, <1>8, BootedBacked
<1>9. CASE \E i \in Installers : At(i, "act") /\ \E f \in Ways(Step(i)) : facts' = Booted(f)
  BY <1>3, <1>9, BootedBacked
<1>10. CASE facts' = facts \cup {"connected"}
  BY <1>1, <1>10 DEF Backed
<1> QED
  BY <1>4, <1>5, <1>6, <1>7, <1>8, <1>9, <1>10 DEF Changes

LEMMA ServiceShows ==
  Satisfied("application_service") => "service-enabled" \in facts
<1>1. Contracts["application_service"] = ApplicationService
  BY DEF Contracts
<1>2. "service-enabled" \in Contracts["application_service"].shows
  BY <1>1, ContractSets DEF Is, InstalledAgent
<1> QED
  BY <1>2 DEF Satisfied, Shows, BluetoothSteps

LEMMA DirectoriesKeep ==
  ASSUME PlansOrdered, DriftIsSeen, LockInv, Planned, ConvergedInv, [Next]_vars
  PROVE  Directories'
<1>1. /\ Directories /\ Backed(facts) /\ Advancing /\ plan' = plan
      /\ "service-directories" \in facts => "service-directories" \in facts' \/ Uninstall
  <2>1. plan' = plan
    BY DEF Next, vars, Start, Run, Mkdir, ReadOwner, RemoveRecord, RemoveDirectory, MkdirAgain,
       RecordOwner, Unlock, Probe, Act, Pause, Refuse, Check, Finish, ActionFails, ActionLies,
       Kill, Interrupt, OrphanEnds, Drift, Unplug, PowerCut, Reboot, Boots, Reconnect,
       Uninstall, machine
  <2> QED
    BY <2>1, NextAdvances, NextChanges, ChangesBacked DEF ConvergedInv
<1>2. ASSUME NEW i \in Installers, proc'[i].at \notin {"idle", "done"},
             "application_service" \in Passed(i)'
      PROVE  "service-directories" \in facts'
  <2>1. Advance(i) /\ proc[i].n \in Nat \ {0}
    BY <1>1, EngineNow DEF Advancing
  <2>2. Passed(i)' = {plan[m] : m \in 1..(proc'[i].n - 1)}
    BY <1>1 DEF Passed
  <2>3. proc'[i].n # 1
    BY <1>2, <2>2
  <2>4. proc[i].at \notin {"idle", "done"}
    BY <1>2, <2>1, <2>3 DEF Advance
  <2>5. ~ Uninstall
    BY <2>4 DEF Uninstall
  <2>6. CASE "application_service" \in Passed(i)
    BY <1>1, <2>4, <2>5, <2>6 DEF Directories
  <2>7. CASE "application_service" \notin Passed(i)
    <3>1. proc'[i].n # proc[i].n
      BY <1>2, <2>2, <2>7 DEF Passed
    <3>2. /\ proc'[i].n = proc[i].n + 1 /\ Satisfied(Step(i)) /\ UNCHANGED facts
      BY <2>1, <2>3, <3>1 DEF Advance
    <3>3. PICK m \in 1..(proc'[i].n - 1) : plan[m] = "application_service"
      BY <1>2, <2>2
    <3>4. m \notin 1..(proc[i].n - 1)
      BY <2>7, <3>3 DEF Passed
    <3>5. m = proc[i].n
      BY <2>1, <3>2, <3>4
    <3>6. Step(i) = "application_service"
      BY <3>3, <3>5 DEF Step
    <3>7. "service-directories" \in facts
      BY <1>1, <3>2, <3>6, ServiceShows DEF Backed, Backing
    <3> QED
      BY <3>2, <3>7
  <2> QED
    BY <2>6, <2>7
<1>3. ASSUME "appliance_readiness" \in orphans' PROVE "service-directories" \in facts'
  <2>1. \/ orphans' \subseteq orphans
        \/ \E i \in Installers : At(i, "act") /\ orphans' = orphans \cup {Step(i)}
    BY DEF Next, vars, Start, Run, Mkdir, ReadOwner, RemoveRecord, RemoveDirectory,
       MkdirAgain, RecordOwner, Unlock, Probe, Act, Pause, Refuse, Check, Finish,
       ActionFails, ActionLies, Kill, Interrupt, OrphanEnds, Drift, Unplug, PowerCut, Reboot,
       Boots, Reconnect, Uninstall, machine, At
  <2>2. CASE "appliance_readiness" \in orphans
    <3>1. "service-directories" \in facts /\ ~ Uninstall
      BY <1>1, <2>2 DEF Directories, Uninstall
    <3> QED
      BY <1>1, <3>1
  <2>3. CASE "appliance_readiness" \notin orphans
    <3>1. PICK i \in Installers : At(i, "act") /\ Step(i) = "appliance_readiness"
      BY <1>3, <2>1, <2>3
    <3>2. "service-directories" \in facts
      BY <1>1, <3>1, Acting
    <3>3. ~ Uninstall
      BY <3>1 DEF Uninstall, At
    <3> QED
      BY <1>1, <3>2, <3>3
  <2> QED
    BY <2>2, <2>3
<1> QED
  BY <1>2, <1>3 DEF Directories

-----------------------------------------------------------------------------
(* A run nobody disturbs                                                    *)

LEMMA BecomesClean ==
  ASSUME NEW f, NEW S, Becomes(f, S), NEW i \in clean'
  PROVE  i \in clean /\ (facts' = facts \/ i \in S)
BY DEF Becomes

(* Who still counts as undisturbed behind a step was so before it, and      *)
(* found nothing gone but by its own action.                                *)
Calm(i) ==
  \/ proc'[i].n = 1
  \/ /\ i \in clean /\ direct' = direct
     /\ facts \subseteq facts' \/ (At(i, "act") /\ facts' \in Ways(Step(i)))

LEMMA CleanCalm ==
  ASSUME LockInv, [Next]_vars, NEW i \in Installers, i \in clean'
  PROVE  Calm(i)
<1>1. CASE UNCHANGED <<clean, facts, direct>>
  BY <1>1 DEF Calm
<1>2. ASSUME NEW j \in Installers,
             Act(j) \/ Pause(j) \/ ActionFails(j) \/ ActionLies(j) \/ Interrupt(j) \/ Kill(j)
      PROVE  Calm(i)
  <2>1. direct' = direct
    BY <1>2 DEF Act, Pause, ActionFails, ActionLies, Interrupt, Kill
  <2>2. CASE At(j, "act") /\ \E f \in Ways(Step(j)) : Becomes(f, {j})
    <3>1. PICK f \in Ways(Step(j)) : Becomes(f, {j})
      BY <2>2
    <3>2. i \in clean /\ (facts' = facts \/ i = j) /\ facts' = f
      BY <3>1, BecomesClean DEF Becomes
    <3> QED
      BY <2>1, <2>2, <3>1, <3>2 DEF Calm
  <2>3. CASE Becomes(facts, {j})
    <3>1. i \in clean /\ facts' = facts
      BY <2>3 DEF Becomes
    <3> QED
      BY <2>1, <3>1 DEF Calm
  <2>4. CASE Act(j)
    <3>1. \/ Becomes(Whole(Step(j)) \cup {"i2c-device"}, {j})
          \/ Becomes(Whole(Step(j)) \cup {}, {j})
      BY <2>4 DEF Act
    <3>2. Whole(Step(j)) \cup {} = Whole(Step(j))
      OBVIOUS
    <3> QED
      BY <2>2, <2>4, <3>1, <3>2 DEF Act, Ways
  <2>5. CASE Pause(j) \/ ActionFails(j) \/ ActionLies(j)
    BY <2>2, <2>5 DEF Pause, ActionFails, ActionLies, Ways
  <2>6. CASE Interrupt(j)
    <3>1. \/ At(j, "act") /\ \E f \in Leftovers(Step(j)) : Becomes(f, {j})
          \/ Becomes(facts, {j})
      BY <2>6 DEF Interrupt
    <3> QED
      BY <2>2, <2>3, <3>1 DEF Ways
  <2>7. CASE Kill(j)
    BY <1>1, <2>1, <2>2, <2>7 DEF Kill, Ways
  <2> QED
    BY <1>2, <2>4, <2>5, <2>6, <2>7
<1>3. CASE \E f : Becomes(f, {}) /\ direct' = direct
  <2>1. PICK f : Becomes(f, {}) /\ direct' = direct
    BY <1>3
  <2>2. i \in clean /\ facts' = facts
    BY <2>1, BecomesClean
  <2> QED
    BY <2>1, <2>2 DEF Calm
<1>4. CASE \/ \E s \in AllSteps : OrphanEnds(s)
           \/ \E fact \in Fragile : Drift(fact)
           \/ Uninstall
  BY <1>3, <1>4 DEF OrphanEnds, Drift, Uninstall
<1>5. CASE Unplug
  BY <1>5 DEF Unplug
<1>6. CASE PowerCut \/ Reboot
  BY <1>6 DEF PowerCut, Reboot, Boots, Calm, Fresh
<1>7. CASE Reconnect
  <2>1. Becomes(facts \cup {"connected"}, Installers) /\ direct' = direct
    BY <1>7 DEF Reconnect
  <2>2. i \in clean /\ facts \subseteq facts'
    BY <2>1, BecomesClean DEF Becomes
  <2> QED
    BY <2>1, <2>2 DEF Calm
<1>8. ASSUME NEW j \in Installers, Start(j) PROVE Calm(i)
  <2>1. /\ clean' = clean \cup {j} /\ UNCHANGED <<facts, direct>>
        /\ proc' = [proc EXCEPT ![j] = [Fresh EXCEPT !.at = "mkdir"]]
    BY <1>8 DEF Start
  <2>2. CASE i = j
    <3>1. proc'[i] = [Fresh EXCEPT !.at = "mkdir"]
      BY <2>1, <2>2 DEF LockInv, Engine
    <3> QED
      BY <3>1 DEF Calm, Fresh
  <2>3. CASE i # j
    BY <2>1, <2>3 DEF Calm
  <2> QED
    BY <2>2, <2>3
<1>9. ASSUME NEW j \in Installers, Run(j), ~ (Act(j) \/ Pause(j)) PROVE Calm(i)
  <2>1. UNCHANGED <<clean, facts, direct>>
    BY <1>9 DEF Run, Mkdir, ReadOwner, RemoveRecord, RemoveDirectory,
       MkdirAgain, RecordOwner, Unlock, Probe, Refuse, Check, Finish, machine
  <2> QED
    BY <2>1 DEF Calm
<1>10. ASSUME NEW j \in Installers, Start(j) \/ Run(j) PROVE Calm(i)
  BY <1>2, <1>8, <1>9, <1>10
<1>11. CASE UNCHANGED vars
  BY <1>1, <1>11 DEF vars
<1> QED
  BY <1>2, <1>4, <1>5, <1>6, <1>7, <1>10, <1>11 DEF Next

(* The registered steps as sets.                                            *)
Listed(steps) == steps \in Seq(DOMAIN Contracts)

LEMMA ListedJoin ==
  ASSUME NEW a, NEW b, Listed(a), Listed(b)
  PROVE  Listed(a \o b) /\ ToSet(a \o b) = ToSet(a) \cup ToSet(b)
BY JoinedSets DEF Listed

LEMMA ListedWhen ==
  ASSUME NEW condition, NEW steps, condition => Listed(steps)
  PROVE  /\ Listed(When(condition, steps))
         /\ ToSet(When(condition, steps)) = IF condition THEN ToSet(steps) ELSE {}
<1> DEFINE D == DOMAIN Contracts
<1> HIDE DEF D
<1>1. << >> \in Seq(D)
  OBVIOUS
<1>2. Listed(<< >>) /\ ToSet(<< >>) = {}
  BY <1>1, TupleSets DEF D, Listed
<1>3. CASE condition
  BY <1>3 DEF When
<1>4. CASE ~ condition
  BY <1>2, <1>4 DEF When
<1> QED
  BY <1>3, <1>4

LEMMA StepNames ==
  {"source_record_validation", "engine_contract", "release_prerequisites",
   "target_platform_preflight", "runtime_account", "release_layout", "immutable_release",
   "activate_release", "environment_account", "target_identity_preflight",
   "environment_profile", "responsive_configuration", "target_i2c_platform",
   "target_runtime_bindings", "target_gpio_identity", "environment_service",
   "environment_current_reconciliation", "environment_commissioning",
   "environment_readiness", "environment_policy", "ollama_account_and_store",
   "ollama_binary", "ollama_service", "ollama_model", "ollama_model_roster",
   "whisper_runtime", "piper_runtime", "speech_models", "speech_smoke",
   "voice_power_configuration", "application_service", "bluetooth_audio_stack",
   "bluetooth_audio_pairing", "bluetooth_audio_autoconnect", "runtime_context",
   "appliance_readiness"} \subseteq DOMAIN Contracts
BY DEF Contracts

LEMMA ListedTuples ==
  /\ \A a \in DOMAIN Contracts : Listed(<<a>>)
  /\ \A a, b \in DOMAIN Contracts : Listed(<<a, b>>)
  /\ \A a, b, c \in DOMAIN Contracts : Listed(<<a, b, c>>)
  /\ \A a, b, c, d \in DOMAIN Contracts : Listed(<<a, b, c, d>>)
  /\ \A a, b, c, d, e \in DOMAIN Contracts : Listed(<<a, b, c, d, e>>)
<1> DEFINE D == DOMAIN Contracts
<1> HIDE DEF D
<1>1. /\ \A a \in D : <<a>> \in Seq(D)
      /\ \A a, b \in D : <<a, b>> \in Seq(D)
  OBVIOUS
<1>2. \A a, b, c \in D : <<a, b, c>> \in Seq(D)
  OBVIOUS
<1>3. \A a, b, c, d \in D : <<a, b, c, d>> \in Seq(D)
  OBVIOUS
<1>4. \A a, b, c, d, e \in D : <<a, b, c, d, e>> \in Seq(D)
  OBVIOUS
<1> QED
  BY <1>1, <1>2, <1>3, <1>4 DEF D, Listed

ReleaseNames == {"source_record_validation", "engine_contract", "release_prerequisites",
                 "target_platform_preflight", "runtime_account", "release_layout",
                 "immutable_release", "activate_release"}

LEMMA ReleaseSet ==
  ASSUME NEW c
  PROVE  Listed(ReleaseSteps(c)) /\ ToSet(ReleaseSteps(c)) \subseteq ReleaseNames
<1> DEFINE first == <<"source_record_validation", "engine_contract">>
           need == <<"release_prerequisites">>
           target == <<"target_platform_preflight">>
           rest == <<"runtime_account", "release_layout", "immutable_release",
                     "activate_release">>
           front == need \o When(c.target, target)
           back == front \o rest
<1>1. /\ Listed(first) /\ Listed(need) /\ Listed(target) /\ Listed(rest)
      /\ ToSet(first) \subseteq ReleaseNames /\ ToSet(need) \subseteq ReleaseNames
      /\ ToSet(target) \subseteq ReleaseNames /\ ToSet(rest) \subseteq ReleaseNames
  <2>1. Listed(first) /\ Listed(need) /\ Listed(target) /\ Listed(rest)
    BY StepNames, ListedTuples
  <2>2. /\ ToSet(first) \subseteq ReleaseNames /\ ToSet(need) \subseteq ReleaseNames
        /\ ToSet(target) \subseteq ReleaseNames /\ ToSet(rest) \subseteq ReleaseNames
    BY TupleSets DEF ReleaseNames
  <2> QED
    BY <2>1, <2>2
<1>2. ReleaseSteps(c) = first \o When(c.stage # "engine", back)
  BY DEF ReleaseSteps
<1> HIDE DEF first, need, target, rest
<1>3. Listed(front) /\ ToSet(front) \subseteq ReleaseNames
  <2>1. /\ Listed(When(c.target, target))
        /\ ToSet(When(c.target, target)) \subseteq ReleaseNames
    BY <1>1, ListedWhen
  <2> QED
    BY <1>1, <2>1, ListedJoin
<1> HIDE DEF front
<1>4. Listed(back) /\ ToSet(back) \subseteq ReleaseNames
  BY <1>1, <1>3, ListedJoin
<1> HIDE DEF back
<1>5. /\ Listed(When(c.stage # "engine", back))
      /\ ToSet(When(c.stage # "engine", back)) \subseteq ReleaseNames
  BY <1>4, ListedWhen
<1> QED
  BY <1>1, <1>2, <1>5, ListedJoin

EnvironmentNames == {"environment_account", "target_identity_preflight",
                     "environment_profile", "responsive_configuration",
                     "target_i2c_platform", "target_runtime_bindings",
                     "target_gpio_identity", "environment_service",
                     "environment_current_reconciliation", "environment_commissioning",
                     "environment_readiness", "environment_policy"}

LEMMA EnvironmentSet ==
  ASSUME NEW c
  PROVE  /\ Listed(EnvironmentSteps(c)) /\ ToSet(EnvironmentSteps(c)) \subseteq EnvironmentNames
         /\ ~ OnTarget(c) => ToSet(EnvironmentSteps(c)) = {}
         /\ OnTarget(c) /\ c.profile # "none" =>
              "environment_commissioning" \in ToSet(EnvironmentSteps(c))
<1> DEFINE p0 == <<"environment_account", "target_identity_preflight">>
           p1 == <<"environment_profile">>
           p2 == <<"responsive_configuration">>
           p3 == <<"target_i2c_platform", "target_runtime_bindings",
                   "target_gpio_identity", "environment_service">>
           p4 == <<"environment_current_reconciliation">>
           p5 == <<"environment_commissioning", "environment_readiness">>
           p6 == <<"environment_policy">>
           w1 == When(c.profile # "none", p1)
           w2 == When(c.preset, p2)
           w4 == When(c.profile = "full-real", p4)
           w5 == When(c.profile # "none", p5)
           w6 == When(c.mode, p6)
           a1 == p0 \o w1
           a2 == a1 \o w2
           a3 == a2 \o p3
           a4 == a3 \o w4
           a5 == a4 \o w5
           a6 == a5 \o w6
           Within(a) == Listed(a) /\ ToSet(a) \subseteq EnvironmentNames
<1>1. /\ Within(p0) /\ Within(p1) /\ Within(p2) /\ Within(p3) /\ Within(p4) /\ Within(p5)
      /\ Within(p6) /\ "environment_commissioning" \in ToSet(p5)
  <2>1. /\ Listed(p0) /\ Listed(p1) /\ Listed(p2) /\ Listed(p3) /\ Listed(p4) /\ Listed(p5)
        /\ Listed(p6)
    BY StepNames, ListedTuples
  <2>2. /\ ToSet(p0) \subseteq EnvironmentNames /\ ToSet(p1) \subseteq EnvironmentNames
        /\ ToSet(p2) \subseteq EnvironmentNames /\ ToSet(p3) \subseteq EnvironmentNames
        /\ ToSet(p4) \subseteq EnvironmentNames /\ ToSet(p5) \subseteq EnvironmentNames
        /\ ToSet(p6) \subseteq EnvironmentNames
        /\ "environment_commissioning" \in ToSet(p5)
    BY TupleSets DEF EnvironmentNames
  <2> QED
    BY <2>1, <2>2
<1>2. EnvironmentSteps(c) = When(OnTarget(c), a6)
  BY DEF EnvironmentSteps
<1> HIDE DEF p0, p1, p2, p3, p4, p5, p6
<1>3. /\ Within(w1) /\ Within(w2) /\ Within(w4) /\ Within(w5) /\ Within(w6)
      /\ c.profile # "none" => "environment_commissioning" \in ToSet(w5)
  BY <1>1, ListedWhen
<1> HIDE DEF w1, w2, w4, w5, w6
<1>4. Within(a1)
  BY <1>1, <1>3, ListedJoin
<1> HIDE DEF a1
<1>5. Within(a2)
  BY <1>3, <1>4, ListedJoin
<1> HIDE DEF a2
<1>6. Within(a3)
  BY <1>1, <1>5, ListedJoin
<1> HIDE DEF a3
<1>7. Within(a4)
  BY <1>3, <1>6, ListedJoin
<1> HIDE DEF a4
<1>8. Within(a5) /\ (c.profile # "none" => "environment_commissioning" \in ToSet(a5))
  BY <1>3, <1>7, ListedJoin
<1> HIDE DEF a5
<1>9. Within(a6) /\ (c.profile # "none" => "environment_commissioning" \in ToSet(a6))
  BY <1>3, <1>8, ListedJoin
<1> HIDE DEF a6
<1> QED
  BY <1>2, <1>9, ListedWhen

ModelNames == {"ollama_account_and_store", "ollama_binary", "ollama_service", "ollama_model",
               "ollama_model_roster", "whisper_runtime", "piper_runtime", "speech_models",
               "speech_smoke"}

LEMMA ModelSet ==
  ASSUME NEW c
  PROVE  Listed(ModelSteps(c)) /\ ToSet(ModelSteps(c)) \subseteq ModelNames
<1> DEFINE ollama == <<"ollama_account_and_store", "ollama_binary", "ollama_service",
                       "ollama_model", "ollama_model_roster">>
           speech == <<"whisper_runtime", "piper_runtime", "speech_models", "speech_smoke">>
           more == When(c.stage # "ollama", speech)
           both == ollama \o more
<1>1. /\ Listed(ollama) /\ Listed(speech)
      /\ ToSet(ollama) \subseteq ModelNames /\ ToSet(speech) \subseteq ModelNames
  <2>1. Listed(ollama) /\ Listed(speech)
    BY StepNames, ListedTuples
  <2>2. ToSet(ollama) \subseteq ModelNames /\ ToSet(speech) \subseteq ModelNames
    BY TupleSets DEF ModelNames
  <2> QED
    BY <2>1, <2>2
<1>2. ModelSteps(c) = When(OnTarget(c), both)
  BY DEF ModelSteps
<1> HIDE DEF ollama, speech
<1>3. Listed(more) /\ ToSet(more) \subseteq ModelNames
  BY <1>1, ListedWhen
<1> HIDE DEF more
<1>4. Listed(both) /\ ToSet(both) \subseteq ModelNames
  BY <1>1, <1>3, ListedJoin
<1> HIDE DEF both
<1> QED
  BY <1>2, <1>4, ListedWhen

LEMMA ServiceSet ==
  ASSUME NEW c
  PROVE  /\ Listed(ServiceSteps(c)) /\ "environment_service" \notin ToSet(ServiceSteps(c))
         /\ "application_service" \in ToSet(ServiceSteps(c)) =>
              "appliance_readiness" \in ToSet(ServiceSteps(c))
<1> DEFINE p0 == <<"voice_power_configuration">>
           p1 == <<"application_service">>
           p2 == <<"bluetooth_audio_stack", "bluetooth_audio_pairing",
                   "bluetooth_audio_autoconnect">>
           p3 == <<"runtime_context", "appliance_readiness">>
           w0 == When(c.preset, p0)
           w2 == When(c.bluetooth # "none", p2)
           a1 == w0 \o p1
           a2 == a1 \o w2
           a3 == a2 \o p3
           Apart(a) == Listed(a) /\ "environment_service" \notin ToSet(a)
<1>1. /\ Apart(p0) /\ Apart(p1) /\ Apart(p2) /\ Apart(p3)
      /\ "appliance_readiness" \in ToSet(p3)
  <2>1. Listed(p0) /\ Listed(p1) /\ Listed(p2) /\ Listed(p3)
    BY StepNames, ListedTuples
  <2>2. /\ "environment_service" \notin ToSet(p0) \cup ToSet(p1) \cup ToSet(p2) \cup ToSet(p3)
        /\ "appliance_readiness" \in ToSet(p3)
    BY TupleSets
  <2> QED
    BY <2>1, <2>2
<1>2. ServiceSteps(c) = When(OnTarget(c) /\ c.stage = "full", a3)
  BY DEF ServiceSteps
<1> HIDE DEF p0, p1, p2, p3
<1>3. Apart(w0) /\ Apart(w2)
  BY <1>1, ListedWhen
<1> HIDE DEF w0, w2
<1>4. Apart(a1)
  BY <1>1, <1>3, ListedJoin
<1> HIDE DEF a1
<1>5. Apart(a2)
  BY <1>3, <1>4, ListedJoin
<1> HIDE DEF a2
<1>6. Apart(a3) /\ "appliance_readiness" \in ToSet(a3)
  BY <1>1, <1>5, ListedJoin
<1> HIDE DEF a3
<1> QED
  BY <1>2, <1>6, ListedWhen

(* Who installs the daemon also commissions it, unless no profile is        *)
(* selected, and who installs the voice service also asks it whether it is  *)
(* ready.                                                                   *)
LEMMA Completed ==
  ASSUME NEW c
  PROVE  /\ "environment_service" \in ToSet(Registered(c)) /\ c.profile # "none" =>
              "environment_commissioning" \in ToSet(Registered(c))
         /\ "application_service" \in ToSet(Registered(c)) =>
              "appliance_readiness" \in ToSet(Registered(c))
<1> DEFINE r == ReleaseSteps(c)
           e == EnvironmentSteps(c)
           m == ModelSteps(c)
           s == ServiceSteps(c)
           a1 == r \o e
           a2 == a1 \o m
           a3 == a2 \o s
<1>1. Registered(c) = a3
  BY DEF Registered
<1>2. /\ Listed(r) /\ Listed(e) /\ Listed(m) /\ Listed(s)
      /\ ToSet(r) \subseteq ReleaseNames /\ ToSet(e) \subseteq EnvironmentNames
      /\ ToSet(m) \subseteq ModelNames
      /\ ~ OnTarget(c) => ToSet(e) = {}
      /\ OnTarget(c) /\ c.profile # "none" => "environment_commissioning" \in ToSet(e)
      /\ "environment_service" \notin ToSet(s)
      /\ "application_service" \in ToSet(s) => "appliance_readiness" \in ToSet(s)
  BY ReleaseSet, EnvironmentSet, ModelSet, ServiceSet
<1> HIDE DEF r, e, m, s
<1>3. Listed(a1) /\ ToSet(a1) = ToSet(r) \cup ToSet(e)
  BY <1>2, ListedJoin
<1> HIDE DEF a1
<1>4. Listed(a2) /\ ToSet(a2) = ToSet(a1) \cup ToSet(m)
  BY <1>2, <1>3, ListedJoin
<1> HIDE DEF a2
<1>5. ToSet(a3) = ToSet(a2) \cup ToSet(s)
  BY <1>2, <1>4, ListedJoin
<1> HIDE DEF a3
<1>6. ToSet(Registered(c)) = ToSet(r) \cup ToSet(e) \cup ToSet(m) \cup ToSet(s)
  BY <1>1, <1>3, <1>4, <1>5
<1>7. /\ "environment_service" \notin ReleaseNames \cup ModelNames
      /\ "application_service" \notin ReleaseNames \cup EnvironmentNames \cup ModelNames
  BY DEF ReleaseNames, EnvironmentNames, ModelNames
<1> QED
  BY <1>2, <1>6, <1>7

(* What a probe shows depends on the machine for the reconciliation alone.  *)
LEMMA SameShows ==
  ASSUME NEW s, s # Reconciliation, NEW c, NEW f, NEW g
  PROVE  Shows(s, c, f) = Shows(s, c, g)
BY DEF Shows

(* Nobody changes the selection, the plan or the set of records.            *)
LEMMA NextSettled ==
  ASSUME [Next]_vars
  PROVE  /\ conf' = conf /\ plan' = plan /\ AllSteps' = AllSteps
         /\ clean \subseteq Installers => clean' \subseteq Installers
<1>1. conf' = conf /\ plan' = plan
  BY DEF Next, vars, Start, Run, Mkdir, ReadOwner, RemoveRecord, RemoveDirectory, MkdirAgain,
     RecordOwner, Unlock, Probe, Act, Pause, Refuse, Check, Finish, ActionFails, ActionLies,
     Kill, Interrupt, OrphanEnds, Drift, Unplug, PowerCut, Reboot, Boots, Reconnect,
     Uninstall, machine
<1>2. AllSteps' = AllSteps
  <2>1. \/ UNCHANGED ledger \/ \E s, status : Write(s, status)
        \/ ledger' = [s \in AllSteps |-> "none"]
    BY DEF Next, vars, Start, Run, Mkdir, ReadOwner, RemoveRecord, RemoveDirectory,
       MkdirAgain, RecordOwner, Unlock, Probe, Act, Pause, Refuse, Check, Finish, ActionFails,
       ActionLies, Kill, Interrupt, OrphanEnds, Drift, Unplug, PowerCut, Reboot, Boots,
       Reconnect, Uninstall
  <2> QED
    BY <2>1 DEF Write, AllSteps
<1>3. \/ clean' \subseteq clean \/ \E i \in Installers : clean' = clean \cup {i}
  <2>1. \/ UNCHANGED clean \/ clean' = {} \/ \E f, S : Becomes(f, S)
        \/ \E i \in Installers : clean' = clean \cup {i}
    BY DEF Next, vars, Start, Run, Mkdir, ReadOwner, RemoveRecord, RemoveDirectory,
       MkdirAgain, RecordOwner, Unlock, Probe, Act, Pause, Refuse, Check, Finish, ActionFails,
       ActionLies, Kill, Interrupt, OrphanEnds, Drift, Unplug, PowerCut, Reboot, Boots,
       Reconnect, Uninstall, machine
  <2> QED
    BY <2>1 DEF Becomes
<1> QED
  BY <1>1, <1>2, <1>3

LEMMA UndisturbedKeeps ==
  ASSUME PlansOrdered, LockInv, Planned, ConvergedInv, [Next]_vars
  PROVE  Undisturbed'
<1> SUFFICES ASSUME NEW i \in Installers, i \in clean', NEW s \in Passed(i)',
                    s # Reconciliation
             PROVE  Satisfied(s)'
  BY DEF Undisturbed
<1>1. conf' = conf /\ plan' = plan
  BY NextSettled
<1>2. Calm(i) /\ Advance(i) /\ proc[i].n \in Nat \ {0}
  BY CleanCalm, NextAdvances, EngineNow DEF ConvergedInv, Advancing
<1>3. PICK m \in 1..(proc'[i].n - 1) : s = plan[m]
  BY <1>1 DEF Passed
<1>4. proc'[i].n # 1 /\ i \in clean /\ direct' = direct
  BY <1>2, <1>3 DEF Calm
<1>5. ASSUME Satisfied(s), facts \subseteq facts' PROVE Satisfied(s)'
  BY <1>1, <1>4, <1>5, SameShows DEF Satisfied
<1>6. ASSUME s \in Passed(i) PROVE Satisfied(s)'
  <2>1. Satisfied(s)
    BY <1>4, <1>6 DEF ConvergedInv, Undisturbed
  <2>2. CASE facts \subseteq facts'
    BY <1>5, <2>1, <2>2
  <2>3. CASE At(i, "act") /\ facts' \in Ways(Step(i))
    <3>1. proc[i].n \in 1..Len(plan) /\ Step(i) \in DOMAIN Contracts
      BY <2>3, Acting DEF ConvergedInv
    <3>2. PICK k \in 1..(proc[i].n - 1) : s = plan[k]
      BY <1>6 DEF Passed
    <3>3. k \in 1..Len(plan) /\ k < proc[i].n
      <4>1. Len(plan) \in Nat
        OBVIOUS
      <4> QED
        BY <1>2, <3>1, <4>1
    <3>4. Shows(s, conf, facts) \cap Taken(Step(i)) = {}
      BY <3>1, <3>2, <3>3, EarlierKept, PlanInOrder DEF Step
    <3>5. facts \ facts' \subseteq Taken(Step(i))
      BY <2>3, <3>1, WaysTake
    <3>6. Shows(s, conf', facts') = Shows(s, conf, facts)
      BY <1>1, SameShows
    <3> QED
      BY <1>4, <2>1, <3>4, <3>5, <3>6 DEF Satisfied
  <2> QED
    BY <1>2, <1>4, <2>2, <2>3 DEF Calm
<1>7. CASE proc'[i].n = proc[i].n
  BY <1>3, <1>6, <1>7 DEF Passed
<1>8. CASE proc'[i].n = proc[i].n + 1 /\ Satisfied(Step(i)) /\ UNCHANGED facts
  <2>1. CASE m = proc[i].n
    BY <1>3, <1>5, <1>8, <2>1 DEF Step
  <2>2. CASE m # proc[i].n
    <3>1. m \in 1..(proc[i].n - 1)
      BY <1>2, <1>3, <1>8, <2>2
    <3> QED
      BY <1>3, <1>6, <3>1 DEF Passed
  <2> QED
    BY <2>1, <2>2
<1> QED
  BY <1>2, <1>4, <1>7, <1>8 DEF Advance

LEMMA ConvergedKeeps ==
  ASSUME PlansOrdered, DriftIsSeen, LockInv, Planned, ConvergedInv, [Next]_vars
  PROVE  ConvergedInv'
<1>1. Placed'
  <2>1. Advancing
    BY NextAdvances DEF ConvergedInv
  <2>2. plan' = plan
    BY NextSettled
  <2>3. \A i \in Installers : PlacedAt(proc'[i])
    BY <2>1 DEF Advancing, Advance
  <2> QED
    BY <2>2, <2>3 DEF Placed, PlacedAt
<1>2. Backed(facts)'
  BY NextChanges, ChangesBacked, UninstallBacked DEF ConvergedInv, Backed
<1>3. Directories' /\ Undisturbed'
  BY DirectoriesKeep, UndisturbedKeeps
<1>4. AllSteps' = ToSet(Registered(conf))' /\ clean' \subseteq Installers
  BY NextSettled DEF ConvergedInv
<1> QED
  BY <1>1, <1>2, <1>3, <1>4 DEF ConvergedInv

LEMMA InitConverged == Init => ConvergedInv
<1> SUFFICES ASSUME Init PROVE ConvergedInv
  OBVIOUS
<1>1. /\ proc = [i \in Installers |-> Fresh] /\ clean = {} /\ orphans = {}
      /\ facts \in {{}, {"packages"}, {"i2c-device"}}
  BY DEF Init
<1>2. \A i \in Installers : proc[i].at = "idle" /\ proc[i].n = 1 /\ proc[i].exit = "idle"
  BY <1>1 DEF Fresh
<1>3. Len(plan) \in Nat
  OBVIOUS
<1>4. Placed
  BY <1>2, <1>3 DEF Placed, PlacedAt
<1>5. Backed(facts)
  BY <1>1 DEF Backed, Backing
<1>6. Directories /\ Undisturbed
  BY <1>1, <1>2 DEF Directories, Undisturbed
<1>7. AllSteps = ToSet(Registered(conf)) /\ clean \subseteq Installers
  BY <1>1 DEF Init, AllSteps
<1> QED
  BY <1>4, <1>5, <1>6, <1>7 DEF ConvergedInv

-----------------------------------------------------------------------------
(* The probes behind which something else is known to hold.                 *)
LEMMA Telltales ==
  /\ "agent-user" \in Contracts["runtime_account"].shows
  /\ {"environment-directories", "environment-enabled"}
       \subseteq Contracts["environment_commissioning"].shows
  /\ "ollama-enabled" \in Contracts["ollama_service"].shows
  /\ "service-enabled" \in Contracts["application_service"].shows
  /\ {"service-enabled", "service-running"} \subseteq Contracts["appliance_readiness"].shows
  /\ "autoconnect-active" \in Contracts["bluetooth_audio_autoconnect"].shows
<1>1. /\ Contracts["runtime_account"] = AgentAccount
      /\ Contracts["environment_commissioning"] = Commissioning
      /\ Contracts["ollama_service"] = OllamaService
      /\ Contracts["application_service"] = ApplicationService
      /\ Contracts["appliance_readiness"] = ApplianceReadiness
      /\ Contracts["bluetooth_audio_autoconnect"] = Autoconnect
  BY DEF Contracts
<1>2. "agent-user" \in Contracts["runtime_account"].shows
  BY <1>1, ContractSets DEF Is
<1>3. {"environment-directories", "environment-enabled"}
        \subseteq Contracts["environment_commissioning"].shows
  BY <1>1, ContractSets DEF Is
<1>4. "ollama-enabled" \in Contracts["ollama_service"].shows
  BY <1>1, ContractSets DEF Is, ValidateOllama
<1>5. "service-enabled" \in Contracts["application_service"].shows
  BY <1>1, ContractSets DEF Is, InstalledAgent
<1>6. {"service-enabled", "service-running"} \subseteq Contracts["appliance_readiness"].shows
  BY <1>1, ContractSets DEF Is, ApplianceStatus
<1>7. "autoconnect-active" \in Contracts["bluetooth_audio_autoconnect"].shows
  BY <1>1, ContractSets DEF Is, AutoconnectStatus
<1> QED
  BY <1>2, <1>3, <1>4, <1>5, <1>6, <1>7

(* Behind the last step every registered one has been passed.               *)
LEMMA AllPassed ==
  ASSUME PlansOrdered, LockInv, Planned, ConvergedInv, NEW i \in clean, At(i, "done")
  PROVE  \A s \in AllSteps : /\ s \in DOMAIN Contracts
                             /\ s # Reconciliation => Satisfied(s)
<1>1. i \in Installers /\ proc[i].n = Len(plan) + 1 /\ Len(plan) \in Nat
  <2>1. i \in Installers
    BY DEF ConvergedInv
  <2>2. proc[i].n \in Nat \ {0} /\ Len(plan) \in Nat
    BY <2>1, EngineNow
  <2>3. proc[i].n <= Len(plan) + 1 /\ proc[i].n > Len(plan)
    BY <2>1 DEF ConvergedInv, Placed, PlacedAt, At
  <2> QED
    BY <2>1, <2>2, <2>3
<1>2. {plan[n] : n \in 1..Len(plan)} = AllSteps
  BY PlanInOrder DEF Ordered, ConvergedInv
<1>3. Passed(i) = AllSteps
  BY <1>1, <1>2 DEF Passed
<1>4. \A s \in AllSteps \ {Reconciliation} : Satisfied(s)
  BY <1>1, <1>3 DEF ConvergedInv, Undisturbed
<1>5. \A s \in AllSteps : s \in DOMAIN Contracts
  BY <1>2, PlanInOrder
<1> QED
  BY <1>4, <1>5

LEMMA Converged ==
  ASSUME PlansOrdered, LockInv, Planned, ConvergedInv
  PROVE  SuccessIsConverged
<1> SUFFICES ASSUME NEW i \in clean, At(i, "done"), NEW s \in AllSteps, s # Reconciliation
             PROVE  /\ Satisfied(s)
                    /\ \/ s \in BluetoothSteps /\ direct
                       \/ ToSet(Effects(s, conf)) \ (ByProducts \cup Unprobed(conf))
                            \subseteq facts
  BY DEF SuccessIsConverged
<1>1. Satisfied(s) /\ s \in DOMAIN Contracts
  BY AllPassed
<1> SUFFICES ASSUME ~ (s \in BluetoothSteps /\ direct),
                    NEW e \in ToSet(Effects(s, conf)), e \notin ByProducts \cup Unprobed(conf)
             PROVE  e \in facts
  BY <1>1
<1>2. /\ e \in ToSet(Contracts[s].does) /\ Contracts[s].shows \subseteq facts
  <2>1. ~ (s = "runtime_account" /\ ~ conf.target)
    <3>1. ToSet(<< >>) = {}
      BY TupleSets
    <3> QED
      BY <3>1 DEF Effects
  <2> QED
    BY <1>1, <2>1 DEF Effects, Satisfied, Shows
<1>3. e \in facts \/ e \in Hidden \cup Later
  <2>1. ToSet(Contracts[s].does) \ Contracts[s].shows \subseteq Loose
    BY <1>1, TightSteps DEF Tight
  <2>2. "headset-fragment" \in Unprobed(conf)
    BY DEF Unprobed
  <2> QED
    BY <1>2, <2>1, <2>2 DEF Loose
<1>4. ASSUME NEW t \in AllSteps, t \notin BluetoothSteps \cup {Reconciliation, "runtime_account"}
      PROVE  Contracts[t].shows \subseteq facts
  <2>1. Satisfied(t)
    BY <1>4, AllPassed
  <2> QED
    BY <1>4, <2>1 DEF Satisfied, Shows
<1>5. \A p \in Backing : p[1] \in facts => p[2] \in facts
  BY DEF ConvergedInv, Backed
<1>6. AllSteps = ToSet(Registered(conf))
  BY DEF ConvergedInv
<1>7. CASE e = "agent-group"
  <2>1. "agent-user" \in facts
    BY <1>1, <1>2, <1>7, Tellers, Telltales
  <2> QED
    BY <1>5, <1>7, <2>1 DEF Backing
<1>8. CASE e \in {"environment-directories", "environment-loaded"}
  <2>1. conf.profile # "none"
    BY <1>8 DEF Unprobed
  <2>2. s \in {"environment_service", "environment_commissioning"}
    BY <1>1, <1>2, <1>8, Tellers
  <2>3. "environment_commissioning" \in AllSteps
    BY <1>6, <2>1, <2>2, Completed
  <2>4. {"environment-directories", "environment-enabled"} \subseteq facts
    BY <1>4, <2>3, Telltales DEF BluetoothSteps, Reconciliation
  <2> QED
    BY <1>5, <1>8, <2>4 DEF Backing
<1>9. CASE e = "ollama-loaded"
  <2>1. "ollama-enabled" \in facts
    BY <1>1, <1>2, <1>9, Tellers, Telltales
  <2> QED
    BY <1>5, <1>9, <2>1 DEF Backing
<1>10. CASE e = "service-directories"
  <2>1. "service-enabled" \in facts
    BY <1>1, <1>2, <1>10, Tellers, Telltales
  <2> QED
    BY <1>5, <1>10, <2>1 DEF Backing
<1>11. CASE e \in {"service-loaded", "service-running"}
  <2>1. s \in {"application_service", "appliance_readiness"}
    BY <1>1, <1>2, <1>11, Tellers
  <2>2. "appliance_readiness" \in AllSteps
    BY <1>6, <2>1, Completed
  <2>3. {"service-enabled", "service-running"} \subseteq facts
    BY <1>4, <2>2, Telltales DEF BluetoothSteps, Reconciliation
  <2> QED
    BY <1>5, <1>11, <2>3 DEF Backing
<1>12. CASE e = "autoconnect-loaded"
  <2>1. "autoconnect-active" \in facts
    BY <1>1, <1>2, <1>12, Tellers, Telltales
  <2> QED
    BY <1>5, <1>12, <2>1 DEF Backing
<1> QED
  BY <1>3, <1>7, <1>8, <1>9, <1>10, <1>11, <1>12 DEF Hidden, Later

(* An installer that reports success, and whose machine nobody else changed *)
(* meanwhile, leaves every planned step done, whatever earlier runs left    *)
(* half done: for any number of installers and faults.  That the plans are  *)
(* in order is a closed formula TLC decides for each of them.               *)
THEOREM SuccessConverges ==
  ASSUME PlansOrdered, DriftIsSeen
  PROVE  Spec => []SuccessIsConverged
<1>1. LockInv /\ LedgerInv /\ ConvergedInv /\ [Next]_vars => ConvergedInv'
  BY ConvergedKeeps DEF LedgerInv
<1>2. LockInv /\ LedgerInv /\ ConvergedInv => SuccessIsConverged
  BY Converged DEF LedgerInv
<1> QED
  BY InitLockInv, LockKeeps, InitLedgerInv, LedgerKeeps, InitConverged, <1>1, <1>2, PTL DEF Spec
=============================================================================
