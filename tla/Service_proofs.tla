--------------------------- MODULE Service_proofs ---------------------------
(***************************************************************************)
(* The appliance unit for any releases, models, setups and budgets: who is *)
(* told that it is ready is told the truth, and the process talks to the   *)
(* model that is selected.                                                 *)
(***************************************************************************)
EXTENDS Service, TLAPS

(* The shape of the process, of its readiness record and of the switch.     *)
Process(a) == a = [at |-> a.at, release |-> a.release, conf |-> a.conf, model |-> a.model]

Record5(r) ==
  r = [release |-> r.release, conf |-> r.conf, model |-> r.model, live |-> r.live,
       sameSecond |-> r.sameSecond]

Switch5(s) ==
  s = [at |-> s.at, model |-> s.model, prev |-> s.prev, conf |-> s.conf, cut |-> s.cut]

Shapes ==
  /\ Process(app)
  /\ ready = None \/ (Record5(ready) /\ ready.live \in BOOLEAN)
  /\ Switch5(switch) /\ switch.cut \in BOOLEAN

(* The unit has a main process only while it runs or is being stopped.      *)
Up == {"running", "stopping"}

Alone == unit \notin Up => app = NoApp

(* A record that its process keeps alive says what that process has read.   *)
Spoken == {"announce", "serving", "clear"}

Speaks ==
  ready # None /\ ready.live =>
    /\ app.at \in Spoken
    /\ ready.release = app.release /\ ready.conf = app.conf /\ ready.model = app.model

(* Between the selection and the end of the process that ran before it the  *)
(* old model is still in use.                                               *)
Behind ==
  \/ switch.at \in {"restart", "return"}
  \/ switch.at \in {"await", "awaitback"} /\ unit = "stopping"

Loaded == app.at \notin {"none", "load"}

InForce == Loaded /\ ~ switch.cut /\ ~ Behind => app.model = Chosen

ServiceInv == Shapes /\ Alone /\ Speaks /\ InForce

-----------------------------------------------------------------------------
(* The kinds of steps there are, by what they do to the process, its record, *)
(* the switch and the selection.                                            *)

Same == UNCHANGED <<app, ready, switch, sel>>

(* The unit goes on, or nothing happens to it.                              *)
LEMMA UnitMoves ==
  ASSUME ServiceInv, Same, unit' = unit \/ (unit \notin Up /\ unit' \notin Up)
  PROVE  ServiceInv'
<1>1. unit \notin Up => app.at = "none"
  BY DEF ServiceInv, Alone, NoApp
<1>2. Loaded' => unit' = unit
  BY <1>1 DEF Same, Loaded
<1>3. Alone'
  BY DEF ServiceInv, Alone, Same
<1>4. InForce'
  BY <1>2 DEF ServiceInv, InForce, Same, Loaded, Behind, Chosen
<1> QED
  BY <1>3, <1>4 DEF ServiceInv, Same, Shapes, Speaks

(* A restart, with or without the records.                                  *)
LEMMA Restarting ==
  ASSUME ServiceInv, Restart, UNCHANGED <<app, switch, sel>>, ready' \in {ready, None}
  PROVE  ServiceInv'
<1>1. IF app # NoApp THEN unit' = "stopping" ELSE unit' \in {"pre", "failed"}
  BY DEF Restart
<1>2. Alone'
  BY <1>1 DEF Alone, Up
<1>3. Loaded => unit \in Up /\ unit' = "stopping"
  BY <1>1 DEF ServiceInv, Alone, Loaded, NoApp
<1>4. InForce'
  <2> SUFFICES ASSUME Loaded', ~ switch'.cut, ~ Behind' PROVE app'.model = Chosen'
    BY DEF InForce
  <2>1. Loaded /\ ~ switch.cut /\ ~ Behind
    BY <1>3 DEF Loaded, Behind
  <2> QED
    BY <2>1 DEF ServiceInv, InForce, Chosen
<1> QED
  BY <1>2, <1>4 DEF ServiceInv, Shapes, Speaks

(* The process ends.                                                        *)
LEMMA Ending ==
  ASSUME ServiceInv, app' = NoApp, UNCHANGED sel, unit' \notin Up,
         ready' = None \/ ready' = Orphaned(ready),
         Switch5(switch') /\ switch'.cut \in BOOLEAN
  PROVE  ServiceInv'
<1>1. Process(app') /\ app'.at = "none"
  BY DEF NoApp, Process
<1>2. ready' = None \/ (Record5(ready') /\ ready'.live = FALSE)
  BY DEF Orphaned, ServiceInv, Shapes, Record5
<1> QED
  BY <1>1, <1>2 DEF ServiceInv, Shapes, Alone, Speaks, InForce, Loaded

(* The process moves on in what it does.                                    *)
LEMMA Moving ==
  ASSUME ServiceInv, NEW from, NEW to, Place(from, to),
         from \in {"probe", "publish", "announce", "serving", "clear", "wait"},
         to \in {"probe", "publish", "announce", "serving", "clear", "wait"},
         UNCHANGED <<unit, switch, sel>>,
         \/ ready' = None
         \/ UNCHANGED ready /\ (from \in Spoken => to \in Spoken)
         \/ /\ to \in Spoken /\ Record5(ready') /\ ready'.live \in BOOLEAN
            /\ ready'.release = app.release /\ ready'.conf = app.conf
            /\ ready'.model = app.model
  PROVE  ServiceInv'
<1>1. /\ unit \in Up /\ app.at = from /\ app' = [app EXCEPT !.at = to]
      /\ Process(app)
  BY DEF Place, Up, ServiceInv, Shapes
<1>2. /\ Process(app') /\ app'.at = to /\ app'.release = app.release
      /\ app'.conf = app.conf /\ app'.model = app.model
  BY <1>1 DEF Process
<1>3. Shapes' /\ Alone'
  BY <1>1, <1>2 DEF ServiceInv, Shapes, Alone
<1>4. Speaks'
  BY <1>1, <1>2 DEF ServiceInv, Speaks
<1>5. InForce'
  BY <1>1, <1>2 DEF ServiceInv, InForce, Loaded, Behind, Chosen
<1> QED
  BY <1>3, <1>4, <1>5 DEF ServiceInv

(* The switch, or the provisioning, changes the selection or its own place. *)
LEMMA Selecting ==
  ASSUME ServiceInv, UNCHANGED <<app, ready, unit>>,
         Switch5(switch'), switch'.cut \in BOOLEAN,
         \/ switch'.cut
         \/ Behind'
         \/ switch.cut = switch'.cut /\ ~ Behind /\ Chosen' = Chosen
  PROVE  ServiceInv'
BY DEF ServiceInv, Shapes, Alone, Speaks, InForce, Loaded

-----------------------------------------------------------------------------
LEMMA UnitKeeps ==
  ASSUME ServiceInv, Unit \/ PreDies \/ AppDies
  PROVE  ServiceInv'
<1>1. CASE StartPre \/ PreStep \/ PreDies \/ Again
  <2>1. Same
    BY <1>1 DEF StartPre, PreStep, PreDies, Again, records, choice, Same
  <2>2. unit' = unit \/ (unit \notin Up /\ unit' \notin Up)
    BY <1>1 DEF StartPre, PreStep, PreDies, Again, Failure, Up
  <2> QED
    BY <2>1, <2>2, UnitMoves
<1>2. CASE RemoveRecords
  <2>1. app = NoApp /\ unit' \notin Up
    BY <1>2 DEF RemoveRecords, ServiceInv, Alone, Up
  <2> QED
    BY <1>2, <2>1, Ending DEF RemoveRecords, choice, ServiceInv, Shapes
<1>3. CASE Exec
  <2>1. app = NoApp /\ UNCHANGED <<ready, switch, sel>>
    BY <1>3 DEF Exec, records, choice, ServiceInv, Alone, Up
  <2>2. CASE unit' = "running" /\ app' = [NoApp EXCEPT !.at = "load", !.release = current]
    <3>1. Process(app') /\ app'.at = "load"
      BY <2>2 DEF NoApp, Process
    <3>2. ~ (ready # None /\ ready.live)
      BY <2>1 DEF ServiceInv, Speaks, Spoken, NoApp
    <3> QED
      BY <2>1, <2>2, <3>1, <3>2
      DEF ServiceInv, Shapes, Alone, Speaks, InForce, Loaded, Up
  <2>3. CASE Failure /\ UNCHANGED app
    <3>1. Same /\ unit \notin Up /\ unit' \notin Up
      BY <1>3, <2>1, <2>3 DEF Exec, Failure, Up, Same
    <3> QED
      BY <3>1, UnitMoves
  <2> QED
    BY <1>3, <2>2, <2>3 DEF Exec
<1>4. CASE Stopped \/ AppDies
  <2>1. /\ \E orphans : Ends(orphans)
        /\ unit' \notin Up /\ UNCHANGED <<sel, switch>>
    BY <1>4 DEF Stopped, AppDies, Failure, choice, Up
  <2> QED
    BY <2>1, Ending DEF Ends, ServiceInv, Shapes
<1> QED
  BY <1>1, <1>2, <1>3, <1>4 DEF Unit

LEMMA AppKeeps ==
  ASSUME ServiceInv, App \/ Trouble
  PROVE  ServiceInv'
<1>1. CASE Load
  <2>1. /\ unit = "running" /\ app.at = "load" /\ Process(app) /\ Switch5(switch)
        /\ app' = [app EXCEPT !.at = "probe", !.conf = conf, !.model = Chosen]
        /\ switch' = [switch EXCEPT !.cut = FALSE] /\ UNCHANGED <<unit, ready, sel>>
    BY <1>1 DEF Load, records, ServiceInv, Shapes
  <2>2. Process(app') /\ app'.at = "probe" /\ app'.model = Chosen
    BY <2>1 DEF Process
  <2>3. Switch5(switch') /\ switch'.cut = FALSE
    BY <2>1 DEF Switch5
  <2>4. ~ (ready # None /\ ready.live)
    BY <2>1 DEF ServiceInv, Speaks, Spoken
  <2>5. Chosen' = Chosen
    BY <2>1 DEF Chosen
  <2> QED
    BY <2>1, <2>2, <2>3, <2>4, <2>5
    DEF ServiceInv, Shapes, Alone, Speaks, InForce, Loaded, Up
<1>2. CASE Probe
  BY <1>2, Moving DEF Probe, records, choice, Spoken
<1>3. CASE Publish
  <2>1. PICK same \in BOOLEAN :
          ready' = [release |-> app.release, conf |-> app.conf, model |-> app.model,
                    live |-> TRUE, sameSecond |-> same]
    BY <1>3 DEF Publish
  <2>2. /\ Record5(ready') /\ ready'.live \in BOOLEAN
        /\ ready'.release = app.release /\ ready'.conf = app.conf
        /\ ready'.model = app.model
    BY <2>1 DEF Record5
  <2> QED
    BY <1>3, <2>2, Moving DEF Publish, choice, Spoken
<1>4. CASE Announce
  BY <1>4, Moving DEF Announce, choice, Spoken
<1>5. CASE ClearReady
  BY <1>5, Moving DEF ClearReady, choice
<1>6. CASE Wait
  BY <1>6, Moving DEF Wait, choice, Spoken
<1>7. CASE Trouble
  BY <1>7, Moving DEF Trouble, records, choice, Spoken
<1> QED
  BY <1>1, <1>2, <1>3, <1>4, <1>5, <1>6, <1>7 DEF App

LEMMA AdminKeeps ==
  ASSUME ServiceInv,
         \/ \E p \in Procs : AdminStarts(p) \/ AdminStep(p) \/ AdminDies(p)
         \/ RestartOwed \/ Activate \/ EditConfig
  PROVE  ServiceInv'
<1>1. CASE (\E p \in Procs : AdminStarts(p) \/ AdminStep(p) \/ AdminDies(p)) \/ EditConfig
  <2>1. Same /\ UNCHANGED unit
    BY <1>1 DEF AdminStarts, AdminStep, AdminDies, EditConfig, records, choice, Same
  <2> QED
    BY <2>1, UnitMoves
<1>2. CASE RestartOwed
  BY <1>2, Restarting DEF RestartOwed, records, choice
<1>3. CASE Activate
  BY <1>3, Restarting DEF Activate, choice
<1> QED
  BY <1>1, <1>2, <1>3

LEMMA SwitchAt ==
  ASSUME NEW s, Switch5(s), NEW place, NEW t, t = [s EXCEPT !.at = place]
  PROVE  Switch5(t) /\ t.at = place /\ t.cut = s.cut
BY DEF Switch5

LEMMA SwitchCut ==
  ASSUME NEW s, Switch5(s), NEW c, NEW t, t = [s EXCEPT !.cut = c]
  PROVE  Switch5(t) /\ t.at = s.at /\ t.cut = c
BY DEF Switch5

LEMMA SwitchGiven ==
  ASSUME NEW s, Switch5(s), s.cut \in BOOLEAN, NEW t, t = GiveUp(s)
  PROVE  /\ Switch5(t) /\ t.at = "idle" /\ t.cut \in BOOLEAN
         /\ s.at # "smoke" => t.cut
         /\ s.at = "smoke" => t.cut = s.cut
<1> DEFINE c == s.cut \/ s.at # "smoke"
<1>1. c \in BOOLEAN /\ (s.at # "smoke" => c) /\ (s.at = "smoke" => c = s.cut)
  OBVIOUS
<1>2. t = [s EXCEPT !.at = "idle", !.cut = c]
  BY DEF GiveUp
<1> HIDE DEF c
<1>3. Switch5(t) /\ t.at = "idle" /\ t.cut = c
  BY <1>2 DEF Switch5
<1> QED
  BY <1>1, <1>3

LEMMA SwitchKeeps ==
  ASSUME ServiceInv, Begin \/ Switching \/ SwitchEnds
  PROVE  ServiceInv'
<1>1. Switch5(switch) /\ switch.cut \in BOOLEAN
  BY DEF ServiceInv, Shapes
<1>2. CASE Begin
  <2>1. switch.at = "idle" /\ UNCHANGED <<app, ready, unit, sel>>
    BY <1>2 DEF Begin, records
  <2>2. PICK m \in Models \ {sel} :
        switch' = [switch EXCEPT !.at = "smoke", !.model = m, !.prev = sel, !.conf = conf]
    BY <1>2 DEF Begin
  <2>3. Switch5(switch') /\ switch'.at = "smoke" /\ switch'.cut = switch.cut
    BY <1>1, <2>2 DEF Switch5
  <2> QED
    BY <1>1, <2>1, <2>3, Selecting DEF Behind, Chosen
<1>3. CASE SwitchSelects
  <2>1. switch' = [switch EXCEPT !.at = "restart"] /\ UNCHANGED <<app, ready, unit>>
    BY <1>3 DEF SwitchSelects, records
  <2>2. Switch5(switch') /\ switch'.at = "restart" /\ switch'.cut = switch.cut
    BY <1>1, <2>1, SwitchAt
  <2> QED
    BY <1>1, <2>1, <2>2, Selecting DEF Behind
<1>4. CASE SwitchRestarts
  <2>1. /\ switch.at \in {"restart", "return"} /\ Restart
        /\ switch' = [switch EXCEPT !.at = Attempt[switch.at]]
        /\ UNCHANGED <<app, ready, sel>>
    BY <1>4 DEF SwitchRestarts, Attempt, records
  <2>2. Switch5(switch') /\ switch'.cut = switch.cut /\ switch'.at \in {"await", "awaitback"}
    <3>1. Attempt[switch.at] \in {"await", "awaitback"}
      BY <2>1 DEF Attempt
    <3> QED
      BY <1>1, <2>1, <3>1, SwitchAt
  <2>3. IF app # NoApp THEN unit' = "stopping" ELSE unit' \in {"pre", "failed"}
    BY <2>1 DEF Restart
  <2>4. InForce'
    BY <2>1, <2>2, <2>3 DEF InForce, Loaded, Behind, NoApp
  <2> QED
    BY <1>1, <2>1, <2>2, <2>3, <2>4 DEF ServiceInv, Shapes, Alone, Speaks, Up
<1>5. CASE SwitchAwaits \/ SwitchSucceeds
  <2>1. /\ UNCHANGED <<app, ready, unit, sel>> /\ ~ Behind
        /\ \E place \in {"poll", "pollback", "idle"} : switch' = [switch EXCEPT !.at = place]
    BY <1>5 DEF SwitchAwaits, SwitchSucceeds, Only, records, Behind
  <2>2. Switch5(switch') /\ switch'.cut = switch.cut
    BY <1>1, <2>1, SwitchAt
  <2> QED
    BY <1>1, <2>1, <2>2, Selecting DEF Chosen
<1>6. CASE Undo
  <2>1. switch' = [switch EXCEPT !.at = "return"] /\ UNCHANGED <<app, ready, unit>>
    BY <1>6 DEF Undo, Undoing, SelectedAndRestarted, records
  <2>2. Switch5(switch') /\ switch'.at = "return" /\ switch'.cut = switch.cut
    BY <1>1, <2>1, SwitchAt
  <2> QED
    BY <1>1, <2>1, <2>2, Selecting DEF Behind
<1>7. CASE SwitchFails \/ SwitchEnds
  <2>1. /\ switch' = GiveUp(switch) /\ UNCHANGED <<app, ready, unit, sel>>
    BY <1>7 DEF SwitchFails, SwitchEnds, Only, records
  <2> QED
    BY <1>1, <2>1, SwitchGiven, Selecting DEF Behind, Chosen
<1> QED
  BY <1>2, <1>3, <1>4, <1>5, <1>6, <1>7 DEF Switching

LEMMA ProvisioningKeeps ==
  ASSUME ServiceInv, Provisioning
  PROVE  ServiceInv'
<1>1. CASE Qualify \/ Qualified \/ Admission \/ Recorded \/ ProvisionEnds
  <2>1. Same /\ UNCHANGED unit
    BY <1>1 DEF Qualify, Qualified, Admission, Recorded, ProvisionEnds, OnlyRoster,
       records, Same
  <2> QED
    BY <2>1, UnitMoves
<1>2. CASE ProvisionSelects
  <2>1. /\ sel' = IF TakesDefault THEN Default ELSE sel
        /\ switch' = [switch EXCEPT !.cut = @ \/ sel' # Chosen]
        /\ UNCHANGED <<app, ready, unit>>
    BY <1>2 DEF ProvisionSelects, records
  <2>2. Switch5(switch) /\ switch.cut \in BOOLEAN
    BY DEF ServiceInv, Shapes
  <2> DEFINE c == switch.cut \/ sel' # Chosen
  <2>3. c \in BOOLEAN /\ (~ c => sel' = Chosen) /\ (~ c => switch.cut = c)
    BY <2>2
  <2>4. switch' = [switch EXCEPT !.cut = c]
    BY <2>1
  <2> HIDE DEF c
  <2>5. Switch5(switch') /\ switch'.at = switch.at /\ switch'.cut = c
    BY <2>2, <2>4, SwitchCut
  <2>6. sel' = Chosen => Chosen' = Chosen
    BY DEF Chosen
  <2>7. Behind' = Behind
    BY <2>1, <2>5 DEF Behind
  <2> QED
    BY <2>1, <2>2, <2>3, <2>5, <2>6, <2>7, Selecting
<1> QED
  BY <1>1, <1>2 DEF Provisioning

LEMMA CycleKeeps ==
  ASSUME ServiceInv, PowerCycle
  PROVE  ServiceInv'
<1>1. Switch5(switch) /\ switch.cut \in BOOLEAN
  BY DEF ServiceInv, Shapes
<1>2. Switch5(switch') /\ switch'.cut \in BOOLEAN
  BY <1>1, SwitchGiven DEF PowerCycle
<1>3. unit' \notin Up
  BY DEF PowerCycle, Up
<1> QED
  BY <1>2, <1>3, Ending DEF PowerCycle

LEMMA ServiceKeeps ==
  ASSUME ServiceInv, [ServiceNext]_all
  PROVE  ServiceInv'
<1>1. CASE UNCHANGED all
  <2>1. Same /\ UNCHANGED unit
    BY <1>1 DEF all, records, choice, Same
  <2> QED
    BY <2>1, UnitMoves
<1>2. CASE ServiceNext
  BY <1>2, UnitKeeps, AppKeeps, AdminKeeps, SwitchKeeps, ProvisioningKeeps, CycleKeeps
  DEF ServiceNext
<1> QED
  BY <1>1, <1>2

LEMMA InitService == ServiceInit => ServiceInv
<1> SUFFICES ASSUME ServiceInit PROVE ServiceInv
  OBVIOUS
<1>1. app = NoApp /\ ready = None /\ switch = NoSwitch
  BY DEF ServiceInit
<1>2. Process(app) /\ app.at = "none" /\ Switch5(switch) /\ switch.cut = FALSE
  BY <1>1 DEF NoApp, NoSwitch, Process, Switch5
<1> QED
  BY <1>1, <1>2 DEF ServiceInv, Shapes, Alone, Speaks, InForce, Loaded

(* What validate_record and read_ready accept is said by the process in     *)
(* service: one of the current release, that has read this configuration    *)
(* and this model and been through its probe (runtime_readiness.py,         *)
(* voice_runtime.py).                                                       *)
THEOREM ReadinessIsTrue == ServiceSpec => []ReadyIsTrue
<1>1. ServiceInv => ReadyIsTrue
  BY DEF ServiceInv, Speaks, ReadyIsTrue, Ready, Valid, SameProcess, Spoken
<1> QED
  BY InitService, ServiceKeeps, <1>1, PTL DEF ServiceSpec

(* Outside a switch the process talks to the model that is selected,        *)
(* whichever way the last switch ended (llm/admin.py select, rollback).     *)
THEOREM SelectionIsInForce == ServiceSpec => []SelectionInForce
<1>1. ServiceInv => SelectionInForce
  BY DEF ServiceInv, InForce, SelectionInForce, Loaded, Behind
<1> QED
  BY InitService, ServiceKeeps, <1>1, PTL DEF ServiceSpec
=============================================================================
