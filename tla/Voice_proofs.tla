---------------------------- MODULE Voice_proofs ----------------------------
(***************************************************************************)
(* The voice appliance for any number of capture threads, any setups and   *)
(* any budgets: nobody is recorded in the dark or into the speaker, no     *)
(* recording is left over, what is acknowledged was said, and the host is  *)
(* told only what was confirmed.                                           *)
(***************************************************************************)
EXTENDS Voice, FiniteSetTheorems, TLAPS

PipeRecords ==
  [thread : {"none", "recording", "captured", "ended"}, cancel : BOOLEAN, error : BOOLEAN,
   queue : Seq(Nat), made : Nat, files : SUBSET Nat, late : BOOLEAN]

Buttons == [down : BOOLEAN, started : BOOLEAN, inhibited : BOOLEAN]

Kinds ==
  /\ pipe \in [Pipes -> PipeRecords] /\ cur \in Pipes \cup {None}
  /\ setup.mode \in Modes /\ setup.environment \in BOOLEAN
  /\ button \in Buttons /\ (window = NoWindow \/ window \in [of : Pipes, n : Nat])

-----------------------------------------------------------------------------
(* The capture threads                                                      *)

(* Where the main thread may hold a capture, and where it must.             *)
Holding == {"loop", "ptt", "hear", "cancel", "join", "recover", "final", "finaljoin"}

Whisper == setup.mode = "whisper"

MustHold ==
  \/ at \in {"loop", "cancel", "join", "finaljoin"}
  \/ at = "hear" /\ Whisper
  \/ button.started /\ at \in {"ptt", "recover"}

(* Who still records is the capture in hand, or was given up.               *)
InHandAlone == \A p \in Pipes : Alive(pipe[p]) /\ ~ pipe[p].late => p = cur

HeldWhere ==
  /\ cur # None => /\ at \in Holding /\ (at = "hear" => Whisper)
                   /\ led = "on" \/ (pipe[cur].late /\ led # "closed")
  /\ MustHold => cur # None

LightPlaces ==
  /\ at = "start" => led = "on"
  /\ led = "closed" => /\ at \in {"open", "recover", "stopped", "final", "close"}
                       /\ window = NoWindow

(* Where the main thread goes once the capture has stopped; a recording may *)
(* be missing, and is given up, only for push-to-talk.                      *)
NextPlaces ==
  /\ at \in {"cancel", "join", "dark"} =>
       /\ next \in {"say", "cue", "hear", "discard"}
       /\ next = "hear" => ~ Whisper /\ (window # NoWindow \/ Ptt)
       /\ next = "discard" => Ptt
  /\ at \in {"cancel", "join"} /\ Ptt => next \in {"hear", "discard"}
  /\ at \in {"ptt", "discard"} => Ptt
  /\ at = "loop" => ~ Ptt
  /\ at = "hear" => window # NoWindow \/ Ptt

ButtonPlaces ==
  button.started =>
    Ptt /\ at \in {"light", "start", "ptt", "recover", "final", "finaljoin", "close"}

CaptureInv == InHandAlone /\ HeldWhere /\ LightPlaces /\ NextPlaces /\ ButtonPlaces

-----------------------------------------------------------------------------
(* The recordings                                                           *)

WindowPlaces ==
  window # NoWindow =>
    /\ at \in {"hear", "discard", "cancel", "join", "dark", "recover", "final", "finaljoin",
               "close"}
    /\ at \in {"cancel", "join"} => ~ Ptt
    /\ at \in {"cancel", "join", "dark"} => next \in {"hear", "discard"}

(* A button's recording is one.                                             *)
OneRecording ==
  cur # None /\ Ptt =>
    /\ Len(pipe[cur].queue) <= 1
    /\ Alive(pipe[cur]) => pipe[cur].queue = <<>>

FilesKept == \A p \in Pipes : p = cur \/ ~ pipe[p].late => pipe[p].files \subseteq InHand(p)

FileInv == WindowPlaces /\ OneRecording /\ FilesKept

-----------------------------------------------------------------------------
(* The power request                                                        *)

Stages == {"none", "asked", "prompted", "confirmed", "told", "held"}

PowerKinds ==
  /\ session \in [session : Nat, pending : Requests \cup {None}, armed : Requests \cup {None}]
  /\ auth \in Requests \cup {None}
  /\ will \in [action : Actions \cup {None}, stage : Stages, lapsed : BOOLEAN, gen : Nat]

(* A request [action, session, live] is the user's own, at this stage.      *)
Wanted(request, stage) ==
  /\ will.action = request.action /\ will.stage = stage
  /\ request.live => ~ will.lapsed

HeldOff == setup.environment => hold \/ will.gen # d.gen

PowerInv ==
  /\ PowerKinds
  /\ session.pending # None =>
       Wanted(session.pending, IF at = "answer" THEN "asked" ELSE "prompted")
  /\ session.armed # None =>
       /\ session.pending = None /\ at \in {"answer", "after"}
       /\ Wanted(session.armed, IF at = "answer" THEN "confirmed" ELSE "told")
  /\ at \in {"listen", "reply"} => session.pending = None
  /\ at \in {"prepare", "authorize", "execute"} => session.pending = None /\ auth # None
  /\ at = "prepare" => setup.environment /\ Wanted(auth, "told")
  /\ at \in {"authorize", "execute"} =>
       /\ Wanted(auth, IF setup.environment THEN "held" ELSE "told")
       /\ HeldOff
  /\ at = "execute" => ~ will.lapsed
  /\ will.gen <= d.gen

-----------------------------------------------------------------------------
(* What was said                                                            *)

HeardInv ==
  /\ acked \subseteq heard
  /\ at = "ack" => notice \in heard
  /\ at = "after" /\ receipt # NoToken => receipt \in heard

(* The daemon's notices are receipts, among the tokens handed out.          *)
Sound(e) ==
  /\ e \in [gen : Nat, receipts : SUBSET Nat, notices : SUBSET Nat, pending : [Jobs -> Nat]]
  /\ e.notices \subseteq e.receipts

DaemonInv ==
  /\ Sound(d) /\ issued \in Nat /\ events \in Nat
  /\ d.receipts \subseteq 1..issued

ToldInv ==
  /\ told \in Seq(Nat \X Nat) /\ IsInjective(told)
  /\ \A n \in DOMAIN told :
       /\ told[n][1] <= d.gen
       /\ told[n][1] = d.gen => seen.gen = d.gen /\ told[n][2] \in seen.marks

-----------------------------------------------------------------------------
(* What the operators of WakePipeline do to a capture's record.             *)

LEMMA TailSet ==
  ASSUME NEW s \in Seq(Nat), s # <<>>
  PROVE  /\ Tail(s) \in Seq(Nat) /\ Len(Tail(s)) = Len(s) - 1 /\ Head(s) \in Nat
         /\ ToSet(s) \subseteq {Head(s)} \cup ToSet(Tail(s))
<1>1. Tail(s) \in Seq(Nat) /\ Len(Tail(s)) = Len(s) - 1 /\ Head(s) = s[1] /\ s[1] \in Nat
  OBVIOUS
<1>2. ASSUME NEW n \in DOMAIN s, n # 1 PROVE s[n] \in ToSet(Tail(s))
  <2>1. n - 1 \in DOMAIN Tail(s) /\ Tail(s)[n - 1] = s[n]
    BY <1>1, <1>2
  <2> QED
    BY <2>1 DEF ToSet
<1> QED
  BY <1>1, <1>2 DEF ToSet

LEMMA AppendSet ==
  ASSUME NEW s \in Seq(Nat), NEW n \in Nat
  PROVE  /\ Append(s, n) \in Seq(Nat) /\ Len(Append(s, n)) = Len(s) + 1
         /\ ToSet(s) \cup {n} \subseteq ToSet(Append(s, n))
<1>1. Append(s, n) \in Seq(Nat) /\ Len(Append(s, n)) = Len(s) + 1
  OBVIOUS
<1>2. ASSUME NEW k \in DOMAIN s PROVE s[k] \in ToSet(Append(s, n))
  <2>1. k \in DOMAIN Append(s, n) /\ Append(s, n)[k] = s[k]
    BY <1>1
  <2> QED
    BY <2>1 DEF ToSet
<1>3. n \in ToSet(Append(s, n))
  <2>1. Len(s) + 1 \in DOMAIN Append(s, n) /\ Append(s, n)[Len(s) + 1] = n
    BY <1>1
  <2> QED
    BY <2>1 DEF ToSet
<1> QED
  BY <1>1, <1>2, <1>3 DEF ToSet

(* Nothing of a record but its flags and files.                             *)
Unmoved(r, q) ==
  r.thread = q.thread /\ r.queue = q.queue /\ r.made = q.made

LEMMA OwnerOps ==
  ASSUME NEW q \in PipeRecords
  PROVE  /\ Cancelled(q) \in PipeRecords /\ Unmoved(Cancelled(q), q)
         /\ Cancelled(q).late = q.late /\ Cancelled(q).files = q.files
         /\ Late(q) \in PipeRecords /\ Unmoved(Late(q), q)
         /\ Late(q).late /\ Late(q).files = q.files
         /\ \A n : /\ Unlinked(q, n) \in PipeRecords /\ Unmoved(Unlinked(q, n), q)
                   /\ Unlinked(q, n).late = q.late /\ Unlinked(q, n).files = q.files \ {n}
BY DEF PipeRecords, Cancelled, Late, Unlinked, Unmoved

LEMMA DrainedOp ==
  ASSUME NEW q \in PipeRecords
  PROVE  /\ Drained(q) \in PipeRecords /\ Drained(q).thread = q.thread
         /\ Drained(q).late = q.late /\ Drained(q).files = q.files \ ToSet(q.queue)
         /\ Drained(q).queue = <<>>
<1>1. <<>> \in Seq(Nat)
  OBVIOUS
<1> QED
  BY <1>1 DEF PipeRecords, Drained

LEMMA ForgivenOp ==
  ASSUME NEW q \in PipeRecords, NEW r, r = [Drained(q) EXCEPT !.late = FALSE]
  PROVE  /\ r \in PipeRecords /\ r.thread = q.thread
         /\ ~ r.late /\ r.files = q.files \ ToSet(q.queue)
BY DrainedOp DEF PipeRecords

LEMMA TakenOp ==
  ASSUME NEW q \in PipeRecords, q.queue # <<>>
  PROVE  /\ Taken(q) \in PipeRecords /\ Taken(q).thread = q.thread
         /\ Taken(q).late = q.late /\ Taken(q).files = q.files /\ Taken(q).made = q.made
         /\ Taken(q).queue = Tail(q.queue)
<1>1. Tail(q.queue) \in Seq(Nat)
  BY TailSet DEF PipeRecords
<1> QED
  BY <1>1 DEF PipeRecords, Taken

LEMMA StartedOp ==
  LET q == Started(NewPipe)
  IN  q \in PipeRecords /\ q.thread = "recording" /\ ~ q.late /\ q.files = {} /\ q.queue = <<>>
<1>1. <<>> \in Seq(Nat)
  OBVIOUS
<1> QED
  BY <1>1 DEF PipeRecords, Started, NewPipe

(* What the thread does.                                                    *)
LEMMA CapturedOp ==
  ASSUME NEW q \in PipeRecords
  PROVE  /\ Captured(q) \in PipeRecords /\ Captured(q).thread = "captured"
         /\ Captured(q).late = q.late /\ Captured(q).files = q.files \cup {q.made + 1}
         /\ Captured(q).made = q.made /\ Captured(q).queue = q.queue
<1>1. q.files \cup {q.made + 1} \subseteq Nat
  BY DEF PipeRecords
<1> QED
  BY <1>1 DEF PipeRecords, Captured

LEMMA EndedOp ==
  ASSUME NEW q \in PipeRecords
  PROVE  /\ Ended(q) \in PipeRecords /\ Ended(q).thread = "ended" /\ Ended(q).late = q.late
         /\ Ended(q).files = q.files /\ Ended(q).queue = q.queue /\ Ended(q).made = q.made
BY DEF PipeRecords, Ended

LEMMA FailedOp ==
  ASSUME NEW q \in PipeRecords, NEW mode
  PROVE  /\ Failed(q, mode) \in PipeRecords /\ Failed(q, mode).thread = "ended"
         /\ Failed(q, mode).late = q.late /\ Failed(q, mode).files = q.files
         /\ Failed(q, mode).queue = q.queue
<1> DEFINE e == mode = "streaming" => ~ q.cancel
           r == [q EXCEPT !.error = e, !.cancel = TRUE]
<1>1. e \in BOOLEAN
  OBVIOUS
<1> HIDE DEF e
<1>2. /\ r \in PipeRecords /\ r.late = q.late /\ r.files = q.files /\ r.queue = q.queue
  BY <1>1 DEF PipeRecords
<1>3. Failed(q, mode) = Ended(r)
  BY DEF Failed, e
<1> HIDE DEF r
<1> QED
  BY <1>2, <1>3, EndedOp

(* What a capture that is queued leaves of the files is queued, or was not  *)
(* queued before.                                                           *)
LEMMA PutOp ==
  ASSUME NEW q \in PipeRecords
  PROVE  LET r == Put(q)
         IN  /\ r \in PipeRecords /\ r.thread = q.thread /\ r.late = q.late
             /\ r.made = q.made /\ r.cancel = q.cancel /\ r.files \subseteq q.files
             /\ q.made \in ToSet(r.queue)
             /\ \A n \in ToSet(q.queue) : n \in r.files => n \in ToSet(r.queue)
             /\ q.queue = <<>> => Len(r.queue) = 1
<1> DEFINE room == IF Len(q.queue) = QueueSize THEN DropOldest(q) ELSE q
<1>1. /\ room \in PipeRecords /\ room.thread = q.thread /\ room.late = q.late
      /\ room.made = q.made /\ room.cancel = q.cancel /\ room.files \subseteq q.files
      /\ \A n \in ToSet(q.queue) : n \in room.files => n \in ToSet(room.queue)
      /\ q.queue = <<>> => room.queue = <<>>
  <2>1. CASE Len(q.queue) = QueueSize
    <3>1. q.queue \in Seq(Nat) /\ q.queue # <<>>
      BY <2>1, QueueAssumption DEF PipeRecords
    <3>2. Tail(q.queue) \in Seq(Nat) /\ ToSet(q.queue) \subseteq {Head(q.queue)} \cup ToSet(Tail(q.queue))
      BY <3>1, TailSet
    <3>3. room = [q EXCEPT !.queue = Tail(q.queue), !.files = q.files \ {Head(q.queue)}]
      BY <2>1 DEF DropOldest
    <3>4. /\ room \in PipeRecords /\ room.thread = q.thread /\ room.late = q.late
          /\ room.made = q.made /\ room.cancel = q.cancel /\ room.queue = Tail(q.queue)
          /\ room.files = q.files \ {Head(q.queue)}
      BY <3>2, <3>3 DEF PipeRecords
    <3> QED
      BY <3>1, <3>2, <3>4
  <2>2. CASE Len(q.queue) # QueueSize
    BY <2>2
  <2> QED
    BY <2>1, <2>2
<1>2. Put(q) = [room EXCEPT !.queue = Append(room.queue, q.made)]
  BY DEF Put
<1> HIDE DEF room
<1>3. room.queue \in Seq(Nat) /\ q.made \in Nat
  BY <1>1 DEF PipeRecords
<1> DEFINE s == Append(room.queue, q.made)
<1>4. /\ s \in Seq(Nat) /\ Len(s) = Len(room.queue) + 1
      /\ ToSet(room.queue) \cup {q.made} \subseteq ToSet(s)
  BY <1>3, AppendSet
<1>5. Put(q) = [room EXCEPT !.queue = s]
  BY <1>2
<1> HIDE DEF s
<1>6. /\ Put(q) \in PipeRecords /\ Put(q).thread = room.thread /\ Put(q).late = room.late
      /\ Put(q).made = room.made /\ Put(q).cancel = room.cancel
      /\ Put(q).files = room.files /\ Put(q).queue = s
  BY <1>1, <1>4, <1>5 DEF PipeRecords
<1>7. q.queue = <<>> => Len(s) = 1
  BY <1>1, <1>4
<1> QED
  BY <1>1, <1>4, <1>6, <1>7

LEMMA DeliveredOp ==
  ASSUME NEW q \in PipeRecords, NEW mode, NEW r, r = Delivered(q, mode)
  PROVE  /\ r \in PipeRecords /\ r.late = q.late
         /\ r.thread \in {"recording", "ended"}
         /\ r.files \subseteq q.files
         /\ \A n \in ToSet(q.queue) \cup {q.made + 1} : n \in r.files => n \in ToSet(r.queue)
         /\ mode = "ptt" => r.thread = "ended"
         /\ mode = "ptt" /\ q.queue = <<>> => Len(r.queue) = 1
<1>1. q.made + 1 \in Nat
  BY DEF PipeRecords
<1>2. CASE q.cancel /\ mode # "ptt"
  <2> DEFINE u == [q EXCEPT !.files = @ \ {q.made + 1}]
  <2>1. u \in PipeRecords /\ u.late = q.late /\ u.queue = q.queue
        /\ u.files = q.files \ {q.made + 1}
    BY <1>1 DEF PipeRecords
  <2>2. r = Ended(u)
    BY <1>2 DEF Delivered
  <2> HIDE DEF u
  <2> QED
    BY <1>2, <2>1, <2>2, EndedOp
<1>3. CASE ~ (q.cancel /\ mode # "ptt")
  <2> DEFINE u == [q EXCEPT !.made = q.made + 1]
             v == Put(u)
  <2>1. /\ u \in PipeRecords /\ u.late = q.late /\ u.queue = q.queue /\ u.files = q.files
        /\ u.made = q.made + 1
    BY <1>1 DEF PipeRecords
  <2>2. r = IF mode = "whisper" THEN Started(v) ELSE Ended(v)
    BY <1>3 DEF Delivered
  <2> HIDE DEF u
  <2>3. /\ v \in PipeRecords /\ v.late = q.late /\ v.files \subseteq q.files
        /\ \A n \in ToSet(q.queue) \cup {q.made + 1} : n \in v.files => n \in ToSet(v.queue)
        /\ q.queue = <<>> => Len(v.queue) = 1
    BY <2>1, PutOp
  <2> HIDE DEF v
  <2>4. /\ Started(v) \in PipeRecords /\ Started(v).thread = "recording"
        /\ Started(v).late = v.late /\ Started(v).files = v.files /\ Started(v).queue = v.queue
    BY <2>3 DEF PipeRecords, Started
  <2>5. CASE mode = "whisper"
    <3>1. r = Started(v)
      BY <2>2, <2>5
    <3> QED
      BY <2>3, <2>4, <2>5, <3>1
  <2>6. CASE mode # "whisper"
    <3>1. r = Ended(v)
      BY <2>2, <2>6
    <3>2. /\ Ended(v) \in PipeRecords /\ Ended(v).thread = "ended" /\ Ended(v).late = v.late
          /\ Ended(v).files = v.files /\ Ended(v).queue = v.queue
      BY <2>3, EndedOp
    <3>3. r.queue = v.queue /\ r.files = v.files
      BY <3>1, <3>2
    <3>4. q.queue = <<>> => Len(r.queue) = 1
      BY <2>3, <3>3
    <3>5. \A n \in ToSet(q.queue) \cup {q.made + 1} : n \in r.files => n \in ToSet(r.queue)
      BY <2>3, <3>3
    <3> QED
      BY <2>3, <3>1, <3>2, <3>4, <3>5
  <2> QED
    BY <2>5, <2>6
<1> QED
  BY <1>2, <1>3

-----------------------------------------------------------------------------
(* Steps that leave the captures and the recording in hand alone.           *)

Core == Kinds /\ CaptureInv /\ FileInv

Still == UNCHANGED <<pipe, cur, window, setup>>

LEMMA Steady ==
  ASSUME Core, Still, button' \in Buttons, HeldWhere', LightPlaces', NextPlaces', ButtonPlaces', WindowPlaces'
  PROVE  Core'
<1>1. Kinds' /\ InHandAlone' /\ OneRecording' /\ FilesKept'
  BY DEF Core, Kinds, CaptureInv, FileInv, Still, InHandAlone, OneRecording, FilesKept,
     InHand, Alive, Ptt
<1> QED
  BY <1>1 DEF Core, CaptureInv, FileInv

(* Where the main thread holds nothing and shows nothing.                   *)
Quiet == {"say", "shorter", "ack", "pause", "cue", "listen", "reply", "answer", "after",
          "problem", "confirm", "prepare", "authorize", "execute"}

LEMMA QuietStep ==
  ASSUME Core, Still, at \in Quiet, UNCHANGED <<led, button>>,
         at' \in Quiet \cup {"light", "ptt", "recover", "final"}, at' = "ptt" => Ptt
  PROVE  Core'
<1>1. cur = None /\ window = NoWindow /\ ~ button.started /\ led # "closed"
      /\ button \in Buttons
  BY DEF Core, Kinds, CaptureInv, FileInv, HeldWhere, Holding, LightPlaces, ButtonPlaces,
     WindowPlaces, Quiet
<1>2. HeldWhere' /\ LightPlaces' /\ NextPlaces' /\ ButtonPlaces' /\ WindowPlaces'
  BY <1>1 DEF Still, HeldWhere, LightPlaces, NextPlaces, ButtonPlaces, WindowPlaces,
     MustHold, Quiet, NoWindow, Ptt
<1>3. button' \in Buttons
  BY <1>1
<1> QED
  BY <1>2, <1>3, Steady

(* The main thread stays where it is.                                       *)
LEMMA StayStep ==
  ASSUME Core, Still, UNCHANGED <<at, next, led, button>>
  PROVE  Core'
<1> button' \in Buttons
  BY DEF Core, Kinds
<1>1. HeldWhere' /\ LightPlaces' /\ NextPlaces' /\ ButtonPlaces' /\ WindowPlaces'
  BY DEF Core, CaptureInv, FileInv, Still, HeldWhere, LightPlaces, NextPlaces, ButtonPlaces,
     WindowPlaces, MustHold, Whisper, Ptt, NoWindow
<1> QED
  BY <1>1, Steady

(* An exception; its way out goes by a place that lets go of everything.    *)
LEMMA RaisedAt ==
  ASSUME Raise
  PROVE  /\ at' \in {"recover", "final"} /\ UNCHANGED <<setup, button>>
         /\ at' = "recover" => ~ Updating
BY DEF Raise

LEMMA QuietSteps ==
  ASSUME Core,
         \/ Say \/ Shorter \/ AckNotice \/ Pause \/ Cue \/ Listen \/ Reply \/ Answer \/ After
         \/ Problem \/ Confirm \/ Prepare \/ Authorize \/ Execute
         \/ Fails /\ at \in Quiet
  PROVE  Core'
<1>1. at \in Quiet
  BY DEF Say, Shorter, AckNotice, Pause, Cue, Listen, Reply, Answer, After, Problem, Confirm,
     Prepare, Authorize, Execute, Quiet
<1>2. /\ Rest \in {"ptt", "pause"} /\ (Rest = "ptt" => Ptt)
      /\ \A s : Onwards(s) \in {"confirm", "ptt", "pause"} /\ (Onwards(s) = "ptt" => Ptt)
  BY DEF Rest, Onwards
<1>3. CASE Say \/ Shorter \/ AckNotice \/ Pause \/ Cue \/ Listen
  BY <1>1, <1>2, <1>3, QuietStep
  DEF Say, Shorter, AckNotice, Pause, Cue, Listen, Go, Quiet, Still, run, capture
<1>4. CASE Reply
  BY <1>1, <1>4, RaisedAt, QuietStep DEF Reply, Quiet, Still, run, capture
<1>5. CASE Answer \/ Problem \/ Confirm
  BY <1>1, <1>2, <1>5, QuietStep DEF Answer, Problem, Confirm, Go, Quiet, Still, run, capture
<1>6. CASE After
  <2>1. at' \in {"problem", "prepare", "authorize", "confirm", "ptt", "pause"}
        /\ (at' = "ptt" => Ptt)
    BY <1>2, <1>6 DEF After, Go
  <2> QED
    BY <1>1, <1>6, <2>1, QuietStep DEF After, Quiet, Still, run, capture
<1>7. CASE Prepare \/ Authorize
  BY <1>1, <1>7, QuietStep DEF Prepare, Authorize, Go, Quiet, Still, run, capture
<1>8. CASE Execute
  BY <1>1, <1>2, <1>8, QuietStep DEF Execute, Go, Quiet, Still, run, capture
<1>9. CASE Fails /\ at \in Quiet
  <2>1. Still /\ UNCHANGED <<led, button>> /\ at' \in {"recover", "final"}
    BY <1>9, RaisedAt DEF Fails, Still, Quiet
  <2> QED
    BY <1>9, <2>1, QuietStep
<1> QED
  BY <1>3, <1>4, <1>5, <1>6, <1>7, <1>8, <1>9

LEMMA OutsideSteps ==
  ASSUME Core, Environment \/ UNCHANGED vars
  PROVE  Core'
<1>1. Still /\ UNCHANGED <<at, next, led, button>>
  BY DEF Environment, ReportDue, JobEnds, Query, ReceiptExpires, Transition, DaemonRestarts,
     HoldExpires, Lapse, Stop, Outside, vars, run, capture, Still
<1> QED
  BY <1>1, StayStep

(* The other steps that move the main thread on.                            *)
LEMMA MovingSteps ==
  ASSUME Core,
         \/ Recover \/ StopSeen \/ Open \/ Probe \/ Light \/ Darken \/ CaptureBroken
         \/ Announce \/ AnnounceTransition \/ Press \/ Release \/ HeldTooLong
         \/ Fails /\ at \in {"open", "light", "dark"}
  PROVE  Core'
<1> USE DEF Core, CaptureInv, FileInv, HeldWhere, LightPlaces, NextPlaces, ButtonPlaces,
        WindowPlaces, MustHold, Whisper, Still, Holding, NoWindow, run, capture, Go
<1>0. button \in Buttons
  BY DEF Kinds
<1> USE <1>0 DEF Ptt
<1>1. CASE Recover
  <2>1. Still /\ UNCHANGED <<led, button>> /\ at = "recover"
        /\ at' = IF led = "closed" THEN "open" ELSE "final"
    BY <1>1 DEF Recover
  <2> QED
    BY <2>1, Steady
<1>2. CASE StopSeen
  <2>1. Still /\ UNCHANGED <<led, button>> /\ at \in {"probe", "loop", "ptt", "pause"}
        /\ at' = "final"
    BY <1>2 DEF StopSeen, LooksAtStop, EveryWait
  <2> QED
    BY <2>1, Steady
<1>3. CASE Open
  <2>1. Still /\ UNCHANGED button /\ at = "open"
        /\ \/ at' = "stopped" /\ led' = led
           \/ at' = "probe" /\ led' = "off"
    BY <1>3 DEF Open
  <2> QED
    BY <2>1, Steady
<1>4. CASE Probe
  <2>1. Still /\ UNCHANGED <<led, button>> /\ at = "probe"
        /\ at' = IF setup.mode = "ptt" THEN "ptt" ELSE "light"
    BY <1>4 DEF Probe
  <2> QED
    BY <2>1, Steady
<1>5. CASE Light
  <2>1. Still /\ UNCHANGED button /\ at = "light" /\ at' = "start" /\ led' = "on"
    BY <1>5 DEF Light
  <2> QED
    BY <2>1, Steady
<1>6. CASE Darken
  <2>1. Still /\ UNCHANGED button /\ at = "dark" /\ at' = next /\ led' = "off"
    BY <1>6 DEF Darken
  <2> QED
    BY <2>1, Steady
<1>7. CASE CaptureBroken
  <2>1. Still /\ UNCHANGED <<led, button>> /\ at \in {"loop", "ptt"} /\ cur # None
        /\ at' \in {"recover", "final"}
    BY <1>7, RaisedAt DEF CaptureBroken, Standby
  <2> QED
    BY <2>1, Steady
<1>8. CASE Announce \/ AnnounceTransition
  <2>1. Still /\ UNCHANGED <<led, button>> /\ at = "loop" /\ at' = "cancel" /\ next' = "say"
    BY <1>8 DEF Announce, AnnounceTransition
  <2> QED
    BY <2>1, Steady
<1>9. CASE Press
  <2>1. CASE button.inhibited \/ cur # None
    <3>1. Still /\ UNCHANGED <<led, at, next>> /\ button' = [button EXCEPT !.down = TRUE]
      BY <1>9, <2>1 DEF Press
    <3>2. button' \in Buttons /\ button'.started = button.started
      BY <3>1, <1>0 DEF Buttons
    <3> QED
      BY <3>1, <3>2, Steady
  <2>2. CASE ~ (button.inhibited \/ cur # None)
    <3>1. Still /\ UNCHANGED led /\ at = "ptt" /\ at' = "light" /\ cur = None
          /\ button' = [button EXCEPT !.down = TRUE, !.started = TRUE]
      BY <1>9, <2>2 DEF Press
    <3>2. button' \in Buttons
      BY <3>1, <1>0 DEF Buttons
    <3> QED
      BY <3>1, <3>2, Steady
  <2> QED
    BY <2>1, <2>2
<1>10. CASE Release
  <2>1. Still /\ UNCHANGED led /\ at = "ptt" /\ button' \in Buttons /\ ~ button'.started
        /\ IF button.started THEN at' = "cancel" /\ next' = "hear" ELSE UNCHANGED <<at, next>>
    BY <1>10 DEF Release, Buttons
  <2> QED
    BY <2>1, Steady
<1>12. CASE HeldTooLong
  <2>1. Still /\ UNCHANGED led /\ at = "ptt" /\ button.started
        /\ button' = [button EXCEPT !.started = FALSE, !.inhibited = TRUE]
        /\ at' = "cancel" /\ next' = "discard"
    BY <1>12 DEF HeldTooLong, Overheld, Limited
  <2>2. button' \in Buttons /\ ~ button'.started
    BY <2>1, <1>0 DEF Buttons
  <2> QED
    BY <2>1, <2>2, Steady
<1>11. CASE Fails /\ at \in {"open", "light", "dark"}
  <2>1. Still /\ UNCHANGED <<led, button>> /\ at' \in {"recover", "final"}
        /\ (at' = "recover" => at = "open" \/ setup.mode # "ptt")
    BY <1>11, RaisedAt DEF Fails, Updating
  <2> QED
    BY <1>11, <2>1, Steady
<1> QED
  BY <1>1, <1>2, <1>3, <1>4, <1>5, <1>6, <1>7, <1>8, <1>9, <1>10, <1>11, <1>12

-----------------------------------------------------------------------------
(* Steps that move a capture or the recording in hand.                      *)

Threads == Kinds /\ InHandAlone /\ OneRecording /\ FilesKept

Places == HeldWhere /\ LightPlaces /\ NextPlaces /\ ButtonPlaces /\ WindowPlaces

LEMMA CoreParts == Core <=> Threads /\ Places
BY DEF Core, CaptureInv, FileInv, Threads, Places

(* What a capture itself holds of its files.                                *)
Held(q) == ToSet(q.queue) \cup (IF q.thread = "captured" THEN {q.made + 1} ELSE {})

WindowOf(p) == IF window.of = p THEN {window.n} ELSE {}

LEMMA InHandParts ==
  ASSUME NEW p
  PROVE  InHand(p) = WindowOf(p) \cup (IF p # cur THEN {} ELSE Held(pipe[p]))
BY DEF InHand, WindowOf, Held

(* The recording in hand goes.                                              *)
LEMMA Unlinking ==
  ASSUME Threads, pipe' = Unlink(window), window' = NoWindow, UNCHANGED <<cur, setup>>,
         button' \in Buttons
  PROVE  /\ Threads'
         /\ \A p \in Pipes : pipe'[p].late = pipe[p].late
<1>1. CASE window = NoWindow
  <2>1. pipe' = pipe /\ window' = window
    BY <1>1 DEF Unlink
  <2> QED
    BY <2>1 DEF Threads, Kinds, InHandAlone, OneRecording, FilesKept, InHand, Ptt
<1>2. CASE window # NoWindow
  <2> DEFINE w == window.of
             r == Unlinked(pipe[w], window.n)
  <2>1. w \in Pipes /\ pipe[w] \in PipeRecords /\ pipe' = [pipe EXCEPT ![w] = r]
    BY <1>2 DEF Unlink, Threads, Kinds
  <2>2. /\ r \in PipeRecords /\ r.thread = pipe[w].thread /\ r.queue = pipe[w].queue
        /\ r.made = pipe[w].made /\ r.late = pipe[w].late
        /\ r.files = pipe[w].files \ {window.n}
    BY <2>1, OwnerOps DEF Unmoved
  <2> HIDE DEF r
  <2>3. /\ pipe' \in [Pipes -> PipeRecords] /\ pipe'[w] = r
        /\ \A p \in Pipes : p # w => pipe'[p] = pipe[p]
    BY <2>1, <2>2 DEF Threads, Kinds
  <2>4. Kinds' /\ InHandAlone' /\ OneRecording'
    BY <2>2, <2>3 DEF Threads, Kinds, InHandAlone, OneRecording, Alive, Ptt
  <2>5. FilesKept'
    <3> SUFFICES ASSUME NEW p \in Pipes, p = cur \/ ~ pipe'[p].late
                 PROVE  pipe'[p].files \subseteq InHand(p)'
      BY DEF FilesKept
    <3>1. InHand(p)' = IF p # cur THEN {} ELSE Held(pipe'[p])
      BY PipesAssumption DEF InHand, Held, NoWindow
    <3>2. pipe'[p].late = pipe[p].late /\ Held(pipe'[p]) = Held(pipe[p])
      BY <2>2, <2>3 DEF Held
    <3>3. pipe[p].files \subseteq WindowOf(p) \cup (IF p # cur THEN {} ELSE Held(pipe[p]))
      BY <3>2, InHandParts DEF Threads, FilesKept
    <3>4. pipe'[p].files = pipe[p].files \ WindowOf(p)
      BY <2>2, <2>3 DEF WindowOf
    <3> QED
      BY <3>1, <3>2, <3>3, <3>4
  <2> QED
    BY <2>2, <2>3, <2>4, <2>5 DEF Threads
<1> QED
  BY <1>1, <1>2

(* One capture moves on; who gives up the last of a file gives it to the    *)
(* queue, or to nobody.                                                     *)
LEMMA Moving ==
  ASSUME Threads, NEW p \in Pipes, NEW r \in PipeRecords,
         pipe' = [pipe EXCEPT ![p] = r], UNCHANGED <<cur, setup, window, button>>,
         r.late = pipe[p].late \/ (p = cur /\ r.late), Alive(r) => Alive(pipe[p]),
         p = cur \/ ~ r.late =>
           \A n \in r.files : n \in pipe[p].files \ Held(pipe[p]) \/ (n \in Held(r) /\ p = cur),
         p = cur /\ Ptt => Len(r.queue) <= 1 /\ (Alive(r) => r.queue = <<>>)
  PROVE  Threads'
<1>1. /\ pipe' \in [Pipes -> PipeRecords] /\ pipe'[p] = r
      /\ \A q \in Pipes : q # p => pipe'[q] = pipe[q]
  BY DEF Threads, Kinds
<1>2. Kinds' /\ InHandAlone'
  BY <1>1 DEF Threads, Kinds, InHandAlone
<1>3. OneRecording'
  BY <1>1 DEF Threads, OneRecording, Ptt
<1>4. FilesKept'
  <2> SUFFICES ASSUME NEW q \in Pipes, q = cur \/ ~ pipe'[q].late
               PROVE  pipe'[q].files \subseteq InHand(q)'
    BY DEF FilesKept
  <2>1. InHand(q)' = WindowOf(q) \cup (IF q # cur THEN {} ELSE Held(pipe'[q]))
    BY DEF InHand, Held, WindowOf
  <2>2. q = cur \/ ~ pipe[q].late
    BY <1>1
  <2>3. pipe[q].files \subseteq WindowOf(q) \cup (IF q # cur THEN {} ELSE Held(pipe[q]))
    BY <2>2, InHandParts DEF Threads, FilesKept
  <2>4. CASE q # p
    BY <1>1, <2>1, <2>3, <2>4
  <2>5. CASE q = p
    BY <1>1, <2>1, <2>3, <2>5
  <2> QED
    BY <2>4, <2>5
<1> QED
  BY <1>2, <1>3, <1>4 DEF Threads

(* Leaving the capture in hand: it has stopped, or is given up.             *)
LEMMA LettingGo ==
  ASSUME Threads, cur # None, NEW r \in PipeRecords, NEW w,
         pipe' = [pipe EXCEPT ![cur] = r], cur' = None, UNCHANGED <<setup, button>>,
         window' = w, w = window \/ (window = NoWindow /\ w \in [of : {cur}, n : Nat]),
         Alive(r) => r.late,
         ~ r.late =>
           \A n \in r.files : n \in pipe[cur].files \ Held(pipe[cur]) \/ (w # window /\ n = w.n)
  PROVE  Threads'
<1>1. /\ cur \in Pipes /\ pipe' \in [Pipes -> PipeRecords] /\ pipe'[cur] = r
      /\ \A q \in Pipes : q # cur => pipe'[q] = pipe[q]
      /\ pipe[cur] \in PipeRecords
  BY DEF Threads, Kinds
<1>2. Kinds' /\ InHandAlone' /\ OneRecording'
  BY <1>1 DEF Threads, Kinds, InHandAlone, OneRecording
<1>3. FilesKept'
  <2> SUFFICES ASSUME NEW q \in Pipes, ~ pipe'[q].late
               PROVE  pipe'[q].files \subseteq InHand(q)'
    BY PipesAssumption DEF FilesKept
  <2>1. InHand(q)' = IF w.of = q THEN {w.n} ELSE {}
    BY PipesAssumption DEF InHand
  <2>2. CASE q # cur
    <3>1. pipe'[q] = pipe[q] /\ pipe[q].files \subseteq WindowOf(q)
      BY <1>1, <2>2, InHandParts DEF Threads, FilesKept
    <3>2. WindowOf(q) \subseteq IF w.of = q THEN {w.n} ELSE {}
      BY <2>2, PipesAssumption DEF WindowOf, NoWindow
    <3> QED
      BY <2>1, <3>1, <3>2
  <2>3. CASE q = cur
    <3>1. pipe[cur].files \subseteq WindowOf(cur) \cup Held(pipe[cur])
      BY <1>1, InHandParts DEF Threads, FilesKept
    <3>2. r.files \subseteq WindowOf(cur) \cup (IF w # window THEN {w.n} ELSE {})
      BY <1>1, <2>3, <3>1
    <3>3. WindowOf(cur) \cup (IF w # window THEN {w.n} ELSE {})
            \subseteq IF w.of = cur THEN {w.n} ELSE {}
      BY <1>1, PipesAssumption DEF WindowOf, NoWindow
    <3> QED
      BY <1>1, <2>1, <2>3, <3>2, <3>3
  <2> QED
    BY <2>2, <2>3
<1> QED
  BY <1>2, <1>3 DEF Threads

(* The recordings of a capture.                                             *)
LEMMA HearSteps ==
  ASSUME Core, Hear \/ Discard \/ Close \/ (Fails /\ at = "hear")
  PROVE  Core'
<1>0. Threads /\ Places /\ button \in Buttons
  BY CoreParts DEF Threads, Kinds
<1>1. CASE Hear \/ Discard
  <2>1. /\ pipe' = Unlink(window) /\ window' = NoWindow /\ UNCHANGED <<cur, setup, button, led>>
        /\ at \in {"hear", "discard"} /\ (at = "discard" => at' = "ptt")
        /\ at = "hear" /\ window = NoWindow => at' = "ptt"
    BY <1>1 DEF Hear, Discard, Go, run
  <2>2. Threads' /\ \A p \in Pipes : pipe'[p].late = pipe[p].late
    BY <1>0, <2>1, Unlinking
  <2>3. CASE Discard
    <3>1. at' = "ptt" /\ Ptt
      BY <1>0, <2>3 DEF Discard, Go, Places, NextPlaces
    <3>2. cur = None /\ led # "closed" /\ ~ button.started
      BY <1>0, <2>1, <3>1 DEF Places, HeldWhere, LightPlaces, ButtonPlaces, Holding, Whisper, Ptt
    <3>3. Places'
      BY <2>1, <3>1, <3>2 DEF Places, HeldWhere, LightPlaces, NextPlaces, ButtonPlaces, Ptt,
         WindowPlaces, MustHold
    <3> QED
      BY <2>2, <3>3, CoreParts, PTL
  <2>4. CASE Hear
    <3>1. /\ at = "hear" /\ led # "closed" /\ ~ button.started
          /\ setup.mode \in Modes /\ (Whisper <=> cur # None)
          /\ cur # None => cur \in Pipes /\ (led = "on" \/ pipe[cur].late)
      BY <1>0, <2>4 DEF Hear, Places, HeldWhere, LightPlaces, ButtonPlaces, Threads, Kinds,
         MustHold
    <3>2. \/ setup.mode = "streaming" /\ at' \in {"light", "shorter", "cue"}
          \/ setup.mode = "whisper" /\ (at' = "loop" \/ (at' = "cancel" /\ next' = "cue"))
          \/ setup.mode = "ptt" /\ at' \in {"ptt", "reply"}
      BY <2>4, <3>1 DEF Hear, Go, Standby, Ptt, Modes
    <3>3. Places'
      <4>1. HeldWhere' /\ LightPlaces'
        BY <2>1, <2>2, <3>1, <3>2 DEF HeldWhere, LightPlaces, MustHold, Whisper, Holding, NoWindow
      <4>2. NextPlaces' /\ ButtonPlaces' /\ WindowPlaces'
        BY <2>1, <3>1, <3>2 DEF NextPlaces, ButtonPlaces, WindowPlaces, Ptt, Whisper
      <4> QED
        BY <4>1, <4>2 DEF Places
    <3> QED
      BY <2>2, <3>3, CoreParts, PTL
  <2> QED
    BY <1>1, <2>3, <2>4
<1>2. CASE Close
  <2>1. /\ pipe' = Unlink(window) /\ window' = NoWindow /\ UNCHANGED <<cur, setup>>
        /\ at = "close" /\ led' = "closed" /\ at' \in {"recover", "stopped", "open"}
        /\ button' \in Buttons /\ ~ button'.started
    BY <1>2 DEF Close, Buttons, AfterCleanup, StartsOver
  <2>2. Threads'
    BY <1>0, <2>1, Unlinking
  <2>3. cur = None
    BY <1>0, <2>1 DEF Places, HeldWhere, Holding
  <2>4. Places'
    BY <2>1, <2>3 DEF Places, HeldWhere, LightPlaces, NextPlaces, ButtonPlaces, WindowPlaces,
       MustHold
  <2> QED
    BY <2>2, <2>4, CoreParts, PTL
<1>3. CASE Fails /\ at = "hear"
  <2>1. /\ pipe' = Unlink(window) /\ window' = NoWindow /\ UNCHANGED <<cur, setup, button, led>>
        /\ at = "hear" /\ at' \in {"recover", "final"}
    BY <1>3, RaisedAt DEF Fails
  <2>2. Threads' /\ \A p \in Pipes : pipe'[p].late = pipe[p].late
    BY <1>0, <2>1, Unlinking
  <2>3. ~ button.started /\ (cur # None => cur \in Pipes) /\ led # "closed"
    BY <1>0, <2>1 DEF Threads, Kinds, Places, ButtonPlaces, LightPlaces
  <2>4. Places'
    BY <1>0, <2>1, <2>2, <2>3 DEF Places, HeldWhere, LightPlaces, NextPlaces, ButtonPlaces,
       WindowPlaces, MustHold, Holding
  <2> QED
    BY <2>2, <2>4, CoreParts, PTL
<1> QED
  BY <1>1, <1>2, <1>3

(* A window is handed to the main thread.                                   *)
LEMMA Taking ==
  ASSUME Threads, cur # None, NEW r \in PipeRecords, NEW w \in [of : Pipes, n : Nat],
         pipe' = [pipe EXCEPT ![cur] = r], UNCHANGED <<cur, setup, button>>,
         window = NoWindow, window' = w, w.of = cur, ~ Ptt,
         r.late = pipe[cur].late, r.thread = pipe[cur].thread, r.files = pipe[cur].files,
         Held(pipe[cur]) \subseteq {w.n} \cup Held(r)
  PROVE  Threads'
<1>1. /\ cur \in Pipes /\ pipe' \in [Pipes -> PipeRecords] /\ pipe'[cur] = r
      /\ \A q \in Pipes : q # cur => pipe'[q] = pipe[q]
  BY DEF Threads, Kinds
<1>2. Kinds' /\ InHandAlone' /\ OneRecording'
  BY <1>1 DEF Threads, Kinds, InHandAlone, OneRecording, Alive, Ptt
<1>3. FilesKept'
  <2> SUFFICES ASSUME NEW q \in Pipes, q = cur \/ ~ pipe'[q].late
               PROVE  pipe'[q].files \subseteq InHand(q)'
    BY DEF FilesKept
  <2>1. InHand(q)' = (IF w.of = q THEN {w.n} ELSE {})
                     \cup (IF q # cur THEN {} ELSE Held(pipe'[q]))
    BY DEF InHand, Held
  <2>2. pipe[q].files \subseteq IF q # cur THEN {} ELSE Held(pipe[q])
    BY <1>1, InHandParts, PipesAssumption DEF Threads, FilesKept, WindowOf, NoWindow
  <2>3. CASE q # cur
    BY <1>1, <2>1, <2>2, <2>3
  <2>4. CASE q = cur
    BY <1>1, <2>1, <2>2, <2>4
  <2> QED
    BY <2>3, <2>4
<1> QED
  BY <1>2, <1>3 DEF Threads

(* What the main thread does to the capture in hand.                        *)
LEMMA CaptureSteps ==
  ASSUME Core, Finalize \/ Take \/ CancelCapture \/ JoinTimesOut
  PROVE  Core'
<1>0. Threads /\ Places /\ button \in Buttons /\ setup.mode \in Modes
  BY CoreParts DEF Threads, Kinds
<1>1. cur # None => cur \in Pipes /\ pipe[cur] \in PipeRecords
  BY <1>0 DEF Threads, Kinds
<1>2. ASSUME cur # None, NEW r \in PipeRecords, pipe' = [pipe EXCEPT ![cur] = r]
      PROVE  pipe'[cur] = r
  BY <1>1, <1>2, <1>0 DEF Threads, Kinds
<1>3. CASE Finalize
  <2>1. at = "final" /\ UNCHANGED <<cur, setup, window, button, led>>
        /\ at' = IF cur = None THEN "close" ELSE "finaljoin"
    BY <1>3 DEF Finalize, Go, run
  <2>2. Threads' /\ (cur # None => pipe'[cur].late = pipe[cur].late)
    <3>1. CASE cur = None
      <4>1. pipe' = pipe
        BY <1>3, <3>1 DEF Finalize
      <4> QED
        BY <1>0, <2>1, <3>1, <4>1
        DEF Threads, Kinds, InHandAlone, OneRecording, FilesKept, InHand, Ptt
    <3>2. CASE cur # None
      <4> DEFINE r == Cancelled(pipe[cur])
      <4>1. pipe' = [pipe EXCEPT ![cur] = r]
        BY <1>3, <3>2 DEF Finalize
      <4>2. /\ r \in PipeRecords /\ r.thread = pipe[cur].thread /\ r.queue = pipe[cur].queue
            /\ r.made = pipe[cur].made /\ r.late = pipe[cur].late /\ r.files = pipe[cur].files
        BY <1>1, <3>2, OwnerOps DEF Unmoved
      <4> HIDE DEF r
      <4>3. Threads'
        BY <1>0, <1>1, <2>1, <3>2, <4>1, <4>2, Moving DEF Held, Alive, Threads, OneRecording
      <4> QED
        BY <1>2, <3>2, <4>1, <4>2, <4>3
    <3> QED
      BY <3>1, <3>2
  <2>3. Places'
    BY <1>0, <2>1, <2>2 DEF Places, HeldWhere, LightPlaces, NextPlaces, ButtonPlaces, WindowPlaces,
       MustHold, Holding, Ptt
  <2> QED
    BY <2>2, <2>3, CoreParts, PTL
<1>4. CASE CancelCapture
  <2> DEFINE r == Cancelled(pipe[cur])
  <2>1. at = "cancel" /\ UNCHANGED <<cur, setup, window, button, led, next>> /\ at' = "join"
        /\ pipe' = [pipe EXCEPT ![cur] = r]
    BY <1>4 DEF CancelCapture, Go, run, Indicator, LitStill
  <2>2. cur # None
    BY <1>0, <2>1 DEF Places, HeldWhere, MustHold
  <2>3. /\ r \in PipeRecords /\ r.thread = pipe[cur].thread /\ r.queue = pipe[cur].queue
        /\ r.made = pipe[cur].made /\ r.late = pipe[cur].late /\ r.files = pipe[cur].files
    BY <1>1, <2>2, OwnerOps DEF Unmoved
  <2> HIDE DEF r
  <2>4. Threads'
    BY <1>0, <1>1, <2>1, <2>2, <2>3, Moving DEF Held, Alive, Threads, OneRecording
  <2>5. pipe'[cur].late = pipe[cur].late
    BY <1>2, <2>1, <2>2, <2>3
  <2>6. Places'
    BY <1>0, <2>1, <2>2, <2>5 DEF Places, HeldWhere, LightPlaces, NextPlaces, ButtonPlaces,
       WindowPlaces, MustHold, Holding, Ptt, Whisper
  <2> QED
    BY <2>4, <2>6, CoreParts, PTL
<1>5. CASE JoinTimesOut
  <2> DEFINE r == Late(pipe[cur])
  <2>1. at = "join" /\ UNCHANGED <<cur, setup, window, button>> /\ at' \in {"recover", "final"}
        /\ pipe' = [pipe EXCEPT ![cur] = r] /\ led' = IF Ptt THEN "off" ELSE led
    BY <1>5, RaisedAt DEF JoinTimesOut, GiveUp
  <2>2. cur # None /\ led # "closed" /\ ~ button.started
    BY <1>0, <2>1 DEF Places, HeldWhere, MustHold, LightPlaces, ButtonPlaces
  <2>3. /\ r \in PipeRecords /\ r.thread = pipe[cur].thread /\ r.queue = pipe[cur].queue
        /\ r.made = pipe[cur].made /\ r.late /\ r.files = pipe[cur].files
    BY <1>1, <2>2, OwnerOps DEF Unmoved
  <2> HIDE DEF r
  <2>4. Threads'
    BY <1>0, <1>1, <2>1, <2>2, <2>3, Moving DEF Held, Alive, Threads, OneRecording
  <2>5. pipe'[cur].late
    BY <1>2, <2>1, <2>2, <2>3
  <2>6. Places'
    BY <1>0, <2>1, <2>2, <2>5 DEF Places, HeldWhere, LightPlaces, NextPlaces, ButtonPlaces,
       WindowPlaces, MustHold, Holding, Ptt
  <2> QED
    BY <2>4, <2>6, CoreParts, PTL
<1>6. CASE Take
  <2> DEFINE r == Taken(pipe[cur])
             w == [of |-> cur, n |-> Head(pipe[cur].queue)]
  <2>1. at = "loop" /\ UNCHANGED <<cur, setup, button, led>> /\ pipe[cur].queue # <<>>
        /\ window' = w /\ pipe' = [pipe EXCEPT ![cur] = r]
        /\ IF setup.mode = "streaming" THEN at' = "cancel" /\ next' = "hear" ELSE at' = "hear"
    BY <1>6 DEF Take, Go, run
  <2>2. cur # None /\ led # "closed" /\ ~ button.started /\ window = NoWindow /\ ~ Ptt
    BY <1>0, <2>1 DEF Places, HeldWhere, MustHold, LightPlaces, ButtonPlaces, WindowPlaces,
       NextPlaces
  <2>3. /\ r \in PipeRecords /\ r.thread = pipe[cur].thread /\ r.queue = Tail(pipe[cur].queue)
        /\ r.made = pipe[cur].made /\ r.late = pipe[cur].late /\ r.files = pipe[cur].files
        /\ Head(pipe[cur].queue) \in Nat
        /\ ToSet(pipe[cur].queue) \subseteq {Head(pipe[cur].queue)} \cup ToSet(r.queue)
    BY <1>1, <2>1, <2>2, TakenOp, TailSet DEF PipeRecords
  <2> HIDE DEF r
  <2>4. w \in [of : Pipes, n : Nat] /\ w # NoWindow /\ w.of = cur
        /\ Held(pipe[cur]) \subseteq {w.n} \cup Held(r)
    BY <1>1, <2>2, <2>3, PipesAssumption DEF NoWindow, Held
  <2> HIDE DEF w
  <2>5. Threads'
    BY <1>0, <1>1, <2>1, <2>2, <2>3, <2>4, Taking
  <2>6. pipe'[cur].late = pipe[cur].late
    BY <1>2, <2>1, <2>2, <2>3
  <2>7. Places'
    <3>1. HeldWhere' /\ LightPlaces'
      BY <1>0, <2>1, <2>2, <2>6 DEF Places, HeldWhere, LightPlaces, MustHold, Holding, Ptt,
         Whisper, Modes
    <3>2. NextPlaces' /\ ButtonPlaces' /\ WindowPlaces'
      BY <1>0, <2>1, <2>2, <2>4 DEF Places, NextPlaces, ButtonPlaces, WindowPlaces, Ptt, Whisper
    <3> QED
      BY <3>1, <3>2 DEF Places
  <2> QED
    BY <2>5, <2>7, CoreParts, PTL
<1> QED
  BY <1>3, <1>4, <1>5, <1>6

LEMMA JoinSteps ==
  ASSUME Core, Join \/ FinalJoin
  PROVE  Core'
<1>0. Threads /\ Places /\ button \in Buttons /\ setup.mode \in Modes
  BY CoreParts DEF Threads, Kinds
<1>1. cur # None /\ cur \in Pipes /\ pipe[cur] \in PipeRecords /\ led # "closed"
  <2>1. cur # None
    BY <1>0 DEF Join, FinalJoin, Places, HeldWhere, MustHold
  <2> QED
    BY <1>0, <2>1 DEF Threads, Kinds, Places, HeldWhere
<1>2. CASE FinalJoin
  <2>1. at = "finaljoin" /\ UNCHANGED <<setup, window, button, led>> /\ cur' = None
        /\ at' = "close"
    BY <1>2 DEF FinalJoin, Go, run
  <2>2. Threads'
    <3>1. CASE Alive(pipe[cur])
      <4> DEFINE r == Late(pipe[cur])
      <4>1. pipe' = [pipe EXCEPT ![cur] = r]
        BY <1>2, <3>1 DEF FinalJoin
      <4>2. r \in PipeRecords /\ r.late
        BY <1>1, OwnerOps
      <4> HIDE DEF r
      <4> QED
        BY <1>0, <1>1, <2>1, <4>1, <4>2, LettingGo
    <3>2. CASE ~ Alive(pipe[cur])
      <4> DEFINE r == [Drained(pipe[cur]) EXCEPT !.late = FALSE]
      <4>1. pipe' = [pipe EXCEPT ![cur] = r]
        BY <1>2, <3>2 DEF FinalJoin
      <4>2. /\ r \in PipeRecords /\ r.thread = pipe[cur].thread
            /\ r.files = pipe[cur].files \ ToSet(pipe[cur].queue)
        BY <1>1, ForgivenOp
      <4> HIDE DEF r
      <4>3. ~ Alive(r) /\ Held(pipe[cur]) = ToSet(pipe[cur].queue)
        BY <3>2, <4>2 DEF Alive, Held
      <4> QED
        BY <1>0, <1>1, <2>1, <4>1, <4>2, <4>3, LettingGo
    <3> QED
      BY <3>1, <3>2
  <2>3. Places'
    BY <1>0, <1>1, <2>1 DEF Places, HeldWhere, LightPlaces, NextPlaces, ButtonPlaces,
       WindowPlaces, MustHold, Ptt
  <2> QED
    BY <2>2, <2>3, CoreParts, PTL
<1>3. CASE Join
  <2>1. /\ at = "join" /\ ~ Alive(pipe[cur]) /\ cur' = None /\ UNCHANGED <<setup, button>>
        /\ \/ at' = "dark" /\ UNCHANGED <<next, led>>
           \/ at' = "final" /\ led' = "off" /\ Ptt
    BY <1>3 DEF Join, Raise, Updating, Go, run
  <2>2. /\ ~ button.started /\ next \in {"say", "cue", "hear", "discard"}
        /\ next = "hear" => ~ Whisper /\ (window # NoWindow \/ Ptt)
        /\ next = "discard" => Ptt
        /\ Ptt => window = NoWindow /\ next \in {"hear", "discard"}
        /\ window # NoWindow => next \in {"hear", "discard"}
    BY <1>0, <2>1 DEF Places, ButtonPlaces, NextPlaces, WindowPlaces
  <2>3. Threads' /\ (window' = window \/ Ptt)
    <3>1. CASE Ptt /\ pipe[cur].queue # <<>>
      <4> DEFINE r == Taken(pipe[cur])
                 w == [of |-> cur, n |-> Head(pipe[cur].queue)]
      <4>1. pipe' = [pipe EXCEPT ![cur] = r] /\ window' = w
        BY <1>3, <3>1 DEF Join
      <4>2. /\ r \in PipeRecords /\ r.thread = pipe[cur].thread /\ r.files = pipe[cur].files
            /\ Head(pipe[cur].queue) \in Nat
        BY <1>1, <3>1, TakenOp, TailSet DEF PipeRecords
      <4>3. ToSet(pipe[cur].queue) \subseteq {Head(pipe[cur].queue)}
        <5>1. pipe[cur].queue \in Seq(Nat) /\ Len(pipe[cur].queue) <= 1
          BY <1>0, <1>1, <3>1 DEF Threads, OneRecording, PipeRecords
        <5> QED
          BY <5>1 DEF ToSet
      <4> HIDE DEF r
      <4>4. w \in [of : {cur}, n : Nat] /\ w # window
        BY <1>1, <2>2, <3>1, <4>2, PipesAssumption DEF NoWindow
      <4>5. ~ Alive(r) /\ Held(pipe[cur]) \subseteq {w.n}
        BY <2>1, <4>2, <4>3 DEF Alive, Held
      <4> HIDE DEF w
      <4>6. Threads'
        BY <1>0, <1>1, <2>1, <2>2, <3>1, <4>1, <4>2, <4>4, <4>5, LettingGo
      <4> QED
        BY <3>1, <4>6
    <3>2. CASE ~ (Ptt /\ pipe[cur].queue # <<>>)
      <4> DEFINE r == Drained(pipe[cur])
      <4>1. pipe' = [pipe EXCEPT ![cur] = r] /\ window' = window
        BY <1>3, <3>2 DEF Join
      <4>2. /\ r \in PipeRecords /\ r.thread = pipe[cur].thread
            /\ r.files = pipe[cur].files \ ToSet(pipe[cur].queue)
        BY <1>1, DrainedOp
      <4> HIDE DEF r
      <4>3. ~ Alive(r) /\ Held(pipe[cur]) = ToSet(pipe[cur].queue)
        BY <2>1, <4>2 DEF Alive, Held
      <4> QED
        BY <1>0, <1>1, <2>1, <4>1, <4>2, <4>3, LettingGo
    <3> QED
      BY <3>1, <3>2
  <2>4. Places'
    <3>1. HeldWhere' /\ LightPlaces' /\ ButtonPlaces'
      BY <1>1, <2>1, <2>2 DEF HeldWhere, LightPlaces, ButtonPlaces, MustHold
    <3>2. NextPlaces' /\ WindowPlaces'
      BY <2>1, <2>2, <2>3 DEF NextPlaces, WindowPlaces, Ptt, Whisper
    <3> QED
      BY <3>1, <3>2 DEF Places
  <2> QED
    BY <2>3, <2>4, CoreParts, PTL
<1> QED
  BY <1>2, <1>3

LEMMA StartStep ==
  ASSUME Core, Start
  PROVE  Core'
<1> DEFINE p == CHOOSE q \in Pipes : Idle(q)
           r == Started(NewPipe)
<1>0. Threads /\ Places /\ button \in Buttons /\ setup.mode \in Modes
  BY CoreParts DEF Threads, Kinds
<1>1. p \in Pipes /\ Idle(p)
  BY DEF Start
<1>2. /\ at = "start" /\ pipe' = [pipe EXCEPT ![p] = r] /\ cur' = p
      /\ UNCHANGED <<setup, window, button, led>> /\ at' = IF Ptt THEN "ptt" ELSE "loop"
  BY DEF Start, Go, Standby, run
<1>3. cur = None /\ window = NoWindow /\ led = "on"
  BY <1>0, <1>2 DEF Places, HeldWhere, Holding, LightPlaces, WindowPlaces
<1>4. r \in PipeRecords /\ r.thread = "recording" /\ ~ r.late /\ r.files = {} /\ r.queue = <<>>
  BY StartedOp
<1> HIDE DEF p, r
<1>5. /\ pipe' \in [Pipes -> PipeRecords] /\ pipe'[p] = r
      /\ \A q \in Pipes : q # p => pipe'[q] = pipe[q]
  BY <1>0, <1>1, <1>2, <1>4 DEF Threads, Kinds
<1>6. Kinds' /\ InHandAlone' /\ OneRecording'
  <2>1. Kinds'
    BY <1>0, <1>1, <1>2, <1>5 DEF Threads, Kinds
  <2>2. InHandAlone'
    BY <1>0, <1>2, <1>3, <1>5, PipesAssumption DEF Threads, InHandAlone
  <2>3. OneRecording'
    BY <1>2, <1>4, <1>5 DEF OneRecording
  <2> QED
    BY <2>1, <2>2, <2>3
<1>7. FilesKept'
  <2> SUFFICES ASSUME NEW q \in Pipes, q = p \/ ~ pipe'[q].late
               PROVE  pipe'[q].files = {}
    BY <1>2 DEF FilesKept
  <2>1. CASE q = p
    BY <1>4, <1>5, <2>1
  <2>2. CASE q # p
    BY <1>0, <1>3, <1>5, <2>2, PipesAssumption DEF Threads, FilesKept, InHand, NoWindow
  <2> QED
    BY <2>1, <2>2
<1>8. Places'
  <2>1. HeldWhere' /\ LightPlaces' /\ ButtonPlaces'
    BY <1>0, <1>1, <1>2, <1>3, PipesAssumption DEF Places, HeldWhere, LightPlaces, ButtonPlaces,
       MustHold, Holding, Ptt
  <2>2. NextPlaces' /\ WindowPlaces'
    BY <1>2, <1>3 DEF NextPlaces, WindowPlaces, Ptt
  <2> QED
    BY <2>1, <2>2 DEF Places
<1> QED
  BY <1>6, <1>7, <1>8, CoreParts, PTL DEF Threads

(* What a capture thread does.                                              *)
LEMMA RecordSteps ==
  ASSUME Core, NEW p \in Pipes, Record(p)
  PROVE  Core'
<1> DEFINE q == pipe[p]
<1>0. Threads /\ Places /\ q \in PipeRecords /\ setup.mode \in Modes
  BY CoreParts DEF Threads, Kinds
<1>1. /\ UNCHANGED <<cur, setup, window, button, led, at, next>> /\ Alive(q)
      /\ \/ ~ q.cancel /\ Recording(q) /\ pipe' = [pipe EXCEPT ![p] = Captured(q)]
         \/ Recording(q) /\ \E r \in Interrupted(q, setup.mode) : pipe' = [pipe EXCEPT ![p] = r]
         \/ q.thread = "captured" /\ pipe' = [pipe EXCEPT ![p] = Delivered(q, setup.mode)]
         \/ Recording(q) /\ pipe' = [pipe EXCEPT ![p] = Failed(q, setup.mode)]
  BY DEF Record, Capture, Interrupt, Deliver, Break, Thread, Others, Alive, Recording, run
<1>2. p = cur \/ q.late
  BY <1>0, <1>1 DEF Threads, InHandAlone
<1>3. p = cur /\ Ptt => q.queue = <<>>
  BY <1>0, <1>1, PipesAssumption DEF Threads, OneRecording
<1>4. ASSUME NEW r \in PipeRecords, pipe' = [pipe EXCEPT ![p] = r], r.late = q.late,
             \A n \in r.files : n \in q.files \ Held(q) \/ n \in Held(r),
             p = cur /\ Ptt => Len(r.queue) <= 1 /\ (Alive(r) => r.queue = <<>>)
      PROVE  Core'
  <2> HIDE DEF q
  <2>1. q = pipe[p]
    BY DEF q
  <2>2. Threads'
    BY <1>0, <1>1, <1>2, <1>4, <2>1, Moving DEF Threads, Kinds
  <2>3. pipe'[p].late = pipe[p].late /\ \A o \in Pipes : pipe'[o].late = pipe[o].late
    BY <1>0, <1>4, <2>1 DEF Threads, Kinds
  <2>4. cur # None => cur \in Pipes
    BY <1>0 DEF Threads, Kinds
  <2>5. Places'
    <3>1. HeldWhere' /\ LightPlaces' /\ ButtonPlaces'
      BY <1>0, <1>1, <2>3, <2>4 DEF Places, HeldWhere, LightPlaces, ButtonPlaces, MustHold,
         Ptt, Whisper, NoWindow
    <3>2. NextPlaces' /\ WindowPlaces'
      BY <1>0, <1>1 DEF Places, NextPlaces, WindowPlaces, Ptt, Whisper, NoWindow
    <3> QED
      BY <3>1, <3>2 DEF Places
  <2> QED
    BY <2>2, <2>5, CoreParts, PTL
<1> HIDE DEF q
<1>5. CASE Recording(q) /\ pipe' = [pipe EXCEPT ![p] = Captured(q)]
  <2> DEFINE r == Captured(q)
  <2>1. /\ r \in PipeRecords /\ r.thread = "captured" /\ r.late = q.late
        /\ r.files = q.files \cup {q.made + 1} /\ r.made = q.made /\ r.queue = q.queue
    BY <1>0, CapturedOp
  <2> HIDE DEF r
  <2>2. \A n \in r.files : n \in q.files \ Held(q) \/ n \in Held(r)
    BY <1>5, <2>1 DEF Held, Recording
  <2>3. p = cur /\ Ptt => Len(r.queue) <= 1 /\ r.queue = <<>>
    BY <1>3, <2>1
  <2> QED
    BY <1>4, <1>5, <2>1, <2>2, <2>3 DEF r
<1>6. CASE pipe' = [pipe EXCEPT ![p] = Ended(q)] /\ Recording(q)
  <2> DEFINE r == Ended(q)
  <2>1. /\ r \in PipeRecords /\ r.thread = "ended" /\ r.late = q.late
        /\ r.files = q.files /\ r.queue = q.queue
    BY <1>0, EndedOp
  <2> HIDE DEF r
  <2>2. \A n \in r.files : n \in q.files \ Held(q) \/ n \in Held(r)
    BY <1>6, <2>1 DEF Held, Recording
  <2>3. p = cur /\ Ptt => Len(r.queue) <= 1 /\ r.queue = <<>>
    BY <1>3, <2>1
  <2> QED
    BY <1>4, <1>6, <2>1, <2>2, <2>3 DEF r
<1>7. CASE pipe' = [pipe EXCEPT ![p] = Failed(q, setup.mode)] /\ Recording(q)
  <2> DEFINE r == Failed(q, setup.mode)
  <2>1. /\ r \in PipeRecords /\ r.thread = "ended" /\ r.late = q.late
        /\ r.files = q.files /\ r.queue = q.queue
    BY <1>0, FailedOp
  <2> HIDE DEF r
  <2>2. \A n \in r.files : n \in q.files \ Held(q) \/ n \in Held(r)
    BY <1>7, <2>1 DEF Held, Recording
  <2>3. p = cur /\ Ptt => Len(r.queue) <= 1 /\ r.queue = <<>>
    BY <1>3, <2>1
  <2> QED
    BY <1>4, <1>7, <2>1, <2>2, <2>3 DEF r
<1>8. CASE q.thread = "captured" /\ pipe' = [pipe EXCEPT ![p] = Delivered(q, setup.mode)]
  <2> DEFINE r == Delivered(q, setup.mode)
  <2>1. /\ r \in PipeRecords /\ r.late = q.late
        /\ r.thread \in {"recording", "ended"}
        /\ r.files \subseteq q.files
        /\ \A n \in ToSet(q.queue) \cup {q.made + 1} : n \in r.files => n \in ToSet(r.queue)
        /\ Ptt => r.thread = "ended"
        /\ Ptt /\ q.queue = <<>> => Len(r.queue) = 1
    BY <1>0, DeliveredOp DEF Ptt
  <2> HIDE DEF r
  <2>2. \A n \in r.files : n \in q.files \ Held(q) \/ n \in Held(r)
    BY <1>8, <2>1 DEF Held
  <2>3. p = cur /\ Ptt => Len(r.queue) <= 1 /\ ~ Alive(r)
    <3>1. p = cur /\ Ptt => Len(r.queue) = 1 /\ r.thread = "ended"
      BY <1>3, <2>1
    <3>2. \A n : n = 1 => n <= 1
      OBVIOUS
    <3>3. r.thread = "ended" => ~ Alive(r)
      BY DEF Alive
    <3>4. Len(r.queue) = 1 => Len(r.queue) <= 1
      BY <3>2, Zenon
    <3> QED
      BY <3>1, <3>3, <3>4, Zenon
  <2> QED
    BY <1>4, <1>8, <2>1, <2>2, <2>3 DEF r
<1>9. Interrupted(q, setup.mode) \subseteq {Ended(q), Captured(q)}
  BY DEF Interrupted
<1> QED
  BY <1>1, <1>5, <1>6, <1>7, <1>8, <1>9

LEMMA CoreInit == Init => Core
<1> SUFFICES ASSUME Init PROVE Core
  OBVIOUS
<1> DEFINE q == NewPipe
<1>1. q \in PipeRecords /\ ~ Alive(q) /\ q.files = {}
  <2>1. <<>> \in Seq(Nat)
    OBVIOUS
  <2> QED
    BY <2>1 DEF PipeRecords, NewPipe, Alive
<1> HIDE DEF q
<1>2. PICK s \in Scenarios : setup = [mode |-> s.mode, environment |-> s.environment]
  BY DEF Init
<1>3. /\ pipe = [p \in Pipes |-> q] /\ cur = None /\ window = NoWindow /\ at = "open"
      /\ next = "open" /\ led = "closed"
      /\ button = [down |-> FALSE, started |-> FALSE, inhibited |-> FALSE]
  BY DEF Init, q
<1>4. \A p \in Pipes : pipe[p] = q
  BY <1>3
<1>5. setup.mode \in Modes /\ setup.environment \in BOOLEAN
  BY <1>2, ScenariosAssumption
<1>6. Threads
  BY <1>1, <1>3, <1>4, <1>5 DEF Threads, Kinds, Buttons, InHandAlone, OneRecording, FilesKept
<1>7. Places
  BY <1>3 DEF Places, HeldWhere, LightPlaces, NextPlaces, ButtonPlaces, WindowPlaces, MustHold
<1> QED
  BY <1>6, <1>7, CoreParts

LEMMA CoreStep == Core /\ [Next]_vars => Core'
<1> SUFFICES ASSUME Core, [Next]_vars PROVE Core'
  OBVIOUS
<1>1. CASE Main
  <2>1. CASE \/ Say \/ Shorter \/ AckNotice \/ Pause \/ Cue \/ Listen \/ Reply \/ Answer
             \/ After \/ Problem \/ Confirm \/ Prepare \/ Authorize \/ Execute
    BY <2>1, QuietSteps
  <2>2. CASE \/ Recover \/ StopSeen \/ Open \/ Probe \/ Light \/ Darken \/ CaptureBroken
             \/ Announce \/ AnnounceTransition \/ Press \/ Release \/ HeldTooLong
    BY <2>2, MovingSteps
  <2>3. CASE Fails
    <3>1. at \in Quiet \cup {"open", "light", "dark", "hear"}
      BY <2>3 DEF Fails, Quiet
    <3> QED
      BY <2>3, <3>1, QuietSteps, MovingSteps, HearSteps
  <2>4. CASE Hear \/ Discard \/ Close
    BY <2>4, HearSteps
  <2>5. CASE Finalize \/ Take \/ CancelCapture \/ JoinTimesOut
    BY <2>5, CaptureSteps
  <2>6. CASE Join \/ FinalJoin
    BY <2>6, JoinSteps
  <2>7. CASE Start
    BY <2>7, StartStep
  <2> QED
    BY <1>1, <2>1, <2>2, <2>3, <2>4, <2>5, <2>6, <2>7 DEF Main, Advance
<1>2. CASE \E p \in Pipes : Record(p)
  BY <1>2, RecordSteps
<1>3. CASE Environment \/ UNCHANGED vars
  BY <1>3, OutsideSteps
<1> QED
  BY <1>1, <1>2, <1>3 DEF Next

LEMMA CoreHolds == Spec => []Core
BY CoreInit, CoreStep, PTL DEF Spec

(* Nobody is recorded in the dark, or while the assistant speaks.           *)
THEOREM CaptureIsMonitored == Spec => []MonitoredCapture
<1>1. Core => MonitoredCapture
  <2> SUFFICES ASSUME Core, NEW p \in Pipes, Recording(pipe[p]), ~ pipe[p].late
               PROVE  led = "on" /\ at \notin Speaking
    BY DEF MonitoredCapture
  <2>1. p = cur /\ cur # None
    BY PipesAssumption DEF Core, CaptureInv, InHandAlone, Alive, Recording
  <2> QED
    BY <2>1 DEF Core, CaptureInv, HeldWhere, Holding, Speaking
<1> QED
  BY <1>1, CoreHolds, PTL

(* No recording is on disk that nobody holds.                               *)
THEOREM NoFileIsLeft == Spec => []NoOrphanFiles
<1>1. Core => NoOrphanFiles
  BY DEF Core, FileInv, FilesKept, NoOrphanFiles
<1> QED
  BY <1>1, CoreHolds, PTL

-----------------------------------------------------------------------------
(* What the operators of Notices do to the daemon's record.                 *)

LEMMA Least ==
  ASSUME NEW S \in SUBSET Nat, S # {}
  PROVE  First(S) \in S
<1> DEFINE R == {ss \in Nat \X Nat : ss[1] < ss[2]}
<1>1. IsWellFoundedOn(R, Nat)
  BY NatLessThanWellFounded DEF OpToRel
<1> HIDE DEF R
<1>2. \E x \in S : \A y \in S : ~ (<<y, x>> \in R)
  BY <1>1, WFMin
<1>3. PICK m \in S : \A k \in S : ~ (<<k, m>> \in R)
  BY <1>2
<1>4. ASSUME NEW k \in S PROVE m <= k
  <2>1. m \in Nat /\ k \in Nat
    OBVIOUS
  <2>2. <<k, m>> \in R <=> k < m
    BY <2>1 DEF R
  <2> QED
    BY <1>3, <2>1, <2>2
<1> QED
  BY <1>4 DEF First, Min

LEMMA DropOp ==
  ASSUME NEW e, Sound(e), NEW tokens
  PROVE  /\ Sound(Drop(e, tokens)) /\ Drop(e, tokens).gen = e.gen
         /\ Drop(e, tokens).receipts = e.receipts \ tokens
         /\ Drop(e, tokens).notices = e.notices \ tokens
         /\ Drop(e, tokens).pending = e.pending
BY DEF Sound, Drop

LEMMA ReceiptOp ==
  ASSUME NEW e, Sound(e), NEW t \in Nat
  PROVE  /\ Sound(Receipt(e, t)) /\ Receipt(e, t).gen = e.gen
         /\ Receipt(e, t).receipts \subseteq e.receipts \cup {t} /\ t \in Receipt(e, t).receipts
         /\ Receipt(e, t).notices \subseteq e.notices
<1> DEFINE room == IF Cardinality(e.receipts) >= 2 * MaxNotices
                   THEN Drop(e, {First(e.receipts)}) ELSE e
<1>1. /\ Sound(room) /\ room.gen = e.gen /\ room.receipts \subseteq e.receipts
      /\ room.notices \subseteq e.notices
  BY DropOp
<1>2. Receipt(e, t) = [room EXCEPT !.receipts = room.receipts \cup {t}]
  BY DEF Receipt, Evict
<1> HIDE DEF room
<1> QED
  BY <1>1, <1>2 DEF Sound

LEMMA NotifyOp ==
  ASSUME NEW e, Sound(e), NEW t \in Nat, t \notin e.receipts, NEW job \in Jobs
  PROVE  /\ Sound(Notify(e, t, job)) /\ Notify(e, t, job).gen = e.gen
         /\ Notify(e, t, job).receipts \subseteq e.receipts \cup {t}
<1> DEFINE with == Receipt(e, t)
           room == IF Cardinality(with.notices) >= MaxNotices
                   THEN Drop(with, {First(with.notices)}) ELSE with
<1>1. /\ Sound(with) /\ with.gen = e.gen /\ t \in with.receipts /\ t \notin with.notices
      /\ with.receipts \subseteq e.receipts \cup {t}
  BY ReceiptOp DEF Sound
<1>2. Notify(e, t, job) = [room EXCEPT !.notices = room.notices \cup {t}, !.pending[job] = t]
  BY DEF Notify
<1> HIDE DEF with
<1>3. /\ Sound(room) /\ room.gen = e.gen /\ t \in room.receipts
      /\ room.receipts \subseteq e.receipts \cup {t}
  <2>1. CASE Cardinality(with.notices) >= MaxNotices
    <3>1. with.notices # {}
      BY <2>1, FS_EmptySet, NoticesAssumption
    <3>2. First(with.notices) # t
      BY <1>1, <3>1, Least DEF Sound
    <3> QED
      BY <1>1, <2>1, <3>2, DropOp
  <2>2. CASE ~ (Cardinality(with.notices) >= MaxNotices)
    BY <1>1, <2>2
  <2> QED
    BY <2>1, <2>2
<1> DEFINE f == Notify(e, t, job)
           waiting == room.notices \cup {t}
           pending == [room.pending EXCEPT ![job] = t]
<1> HIDE DEF room
<1>4. /\ waiting \subseteq room.receipts /\ waiting \in SUBSET Nat
      /\ pending \in [Jobs -> Nat]
  BY <1>3 DEF Sound
<1>5. f = [room EXCEPT !.notices = waiting, !.pending = pending]
  BY <1>2
<1> HIDE DEF f, waiting, pending
<1>6. Sound(f) /\ f.gen = room.gen /\ f.receipts = room.receipts
  BY <1>3, <1>4, <1>5 DEF Sound
<1> QED
  BY <1>3, <1>6 DEF f

LEMMA ReportOp ==
  ASSUME NEW e, Sound(e), NEW t \in Nat, t \notin e.receipts, NEW job \in Jobs
  PROVE  /\ Sound(Report(e, t, job)) /\ Report(e, t, job).gen = e.gen
         /\ Report(e, t, job).receipts \subseteq e.receipts \cup {t}
<1> DEFINE f == Notify(e, t, job)
<1>1. Sound(f) /\ f.gen = e.gen /\ f.receipts \subseteq e.receipts \cup {t}
  BY NotifyOp
<1>2. Report(e, t, job) = IF job = "once" THEN [f EXCEPT !.pending[job] = NoToken] ELSE f
  BY DEF Report
<1> HIDE DEF f
<1> QED
  BY <1>1, <1>2 DEF Sound, NoToken

(* Jobs that end, and what is acknowledged.                                 *)
LEMMA EndOps ==
  ASSUME NEW e, Sound(e), NEW f,
         \/ \E job \in Jobs : f = Finished(e, job)
         \/ f = AllFinished(e)
         \/ \E t : f = Acknowledged(e, t)
  PROVE  Sound(f) /\ f.gen = e.gen /\ f.receipts \subseteq e.receipts
<1>1. ASSUME NEW tokens, NEW pending \in [Jobs -> Nat],
             f = [Drop(e, tokens) EXCEPT !.pending = pending]
      PROVE  Sound(f) /\ f.gen = e.gen /\ f.receipts \subseteq e.receipts
  <2> DEFINE g == Drop(e, tokens)
  <2>1. Sound(g) /\ g.gen = e.gen /\ g.receipts \subseteq e.receipts
    BY DropOp
  <2>2. f = [g EXCEPT !.pending = pending]
    BY <1>1
  <2> HIDE DEF g
  <2> QED
    BY <2>1, <2>2 DEF Sound
<1>2. e.pending \in [Jobs -> Nat]
  BY DEF Sound
<1>3. ASSUME NEW tokens PROVE Drop(e, tokens).pending = e.pending
  BY DropOp
<1>4. CASE f = AllFinished(e)
  <2>1. [j \in Jobs |-> NoToken] \in [Jobs -> Nat]
    BY DEF NoToken
  <2> QED
    BY <1>1, <1>4, <2>1 DEF AllFinished
<1>5. ASSUME NEW job \in Jobs, f = Finished(e, job)
      PROVE  Sound(f) /\ f.gen = e.gen /\ f.receipts \subseteq e.receipts
  <2> DEFINE g == Drop(e, {e.pending[job]})
             pending == [e.pending EXCEPT ![job] = NoToken]
  <2>1. pending \in [Jobs -> Nat]
    BY <1>2 DEF NoToken
  <2>2. g.pending = e.pending
    BY <1>3
  <2>3. f = [g EXCEPT !.pending = [g.pending EXCEPT ![job] = NoToken]]
    BY <1>5 DEF Finished
  <2>4. f = [g EXCEPT !.pending = pending]
    BY <2>2, <2>3
  <2> HIDE DEF pending
  <2> QED
    BY <1>1, <2>1, <2>4
<1>6. ASSUME NEW t, f = Acknowledged(e, t)
      PROVE  Sound(f) /\ f.gen = e.gen /\ f.receipts \subseteq e.receipts
  <2> DEFINE g == Drop(e, {t})
             pending == [j \in Jobs |-> IF e.pending[j] = t THEN NoToken ELSE e.pending[j]]
  <2>1. pending \in [Jobs -> Nat]
    BY <1>2 DEF NoToken
  <2>2. g.pending = e.pending
    BY <1>3
  <2>3. f = [g EXCEPT !.pending =
               [j \in Jobs |-> IF g.pending[j] = t THEN NoToken ELSE g.pending[j]]]
    BY <1>6 DEF Acknowledged
  <2>4. f = [g EXCEPT !.pending = pending]
    BY <2>2, <2>3
  <2> HIDE DEF pending
  <2> QED
    BY <1>1, <2>1, <2>4
<1> QED
  BY <1>4, <1>5, <1>6

(* The daemon's side of each step.                                          *)
LEMMA DaemonInit == Init => DaemonInv
<1> SUFFICES ASSUME Init PROVE DaemonInv
  OBVIOUS
<1>1. [j \in Jobs |-> NoToken] \in [Jobs -> Nat]
  BY DEF NoToken
<1> QED
  BY <1>1 DEF Init, Booted, DaemonInv, Sound

LEMMA DaemonStep ==
  ASSUME DaemonInv, [Next]_vars
  PROVE  DaemonInv' /\ (d'.gen = d.gen \/ DaemonRestarts)
<1> issued + 1 \in Nat /\ issued + 1 \notin d.receipts /\ issued \in Nat /\ Sound(d)
  BY DEF DaemonInv
<1>1. ASSUME Sound(d'), d'.gen = d.gen, UNCHANGED <<issued, events>>,
             d'.receipts \subseteq d.receipts
      PROVE  DaemonInv' /\ d'.gen = d.gen
  BY <1>1 DEF DaemonInv
<1>2. ASSUME Sound(d'), d'.gen = d.gen, issued' = issued + 1, UNCHANGED events,
             d'.receipts \subseteq d.receipts \cup {issued + 1}
      PROVE  DaemonInv' /\ d'.gen = d.gen
  BY <1>2 DEF DaemonInv
<1>3. CASE UNCHANGED <<d, issued, events>>
  BY <1>1, <1>3
<1>4. ASSUME NEW t, Acknowledge(t), UNCHANGED <<issued, events>>
      PROVE  DaemonInv' /\ d'.gen = d.gen
  BY <1>1, <1>4, EndOps DEF Acknowledge
<1>5. ASSUME Reading, UNCHANGED events
      PROVE  DaemonInv' /\ d'.gen = d.gen
  BY <1>2, <1>5, ReceiptOp DEF Reading
<1>6. CASE AckNotice \/ After
  BY <1>1, <1>4, <1>6 DEF AckNotice, After, Reported
<1>7. CASE Reply
  BY <1>1, <1>5, <1>7 DEF Reply
<1>8. CASE Prepare
  BY <1>1, <1>8, EndOps DEF Prepare, TakeHold
<1>9. ASSUME NEW job \in Jobs, ReportDue(job)
      PROVE  DaemonInv' /\ d'.gen = d.gen
  BY <1>2, <1>9, ReportOp DEF ReportDue
<1>10. ASSUME NEW job \in Jobs, JobEnds(job)
       PROVE  DaemonInv' /\ d'.gen = d.gen
  BY <1>1, <1>10, EndOps DEF JobEnds
<1>11. CASE Query
  BY <1>5, <1>11 DEF Query
<1>12. CASE ReceiptExpires
  BY <1>1, <1>12, DropOp DEF ReceiptExpires
<1>13. CASE Transition
  BY <1>13 DEF Transition, DaemonInv
<1>14. CASE DaemonRestarts
  <2>1. d' = Booted(d.gen + 1) /\ issued' = issued /\ events' = 0 /\ d.gen + 1 \in Nat
    BY <1>14 DEF DaemonRestarts, Sound
  <2>2. [j \in Jobs |-> NoToken] \in [Jobs -> Nat]
    BY DEF NoToken
  <2> QED
    BY <1>14, <2>1, <2>2 DEF DaemonInv, Sound, Booted
<1>15. CASE HoldExpires \/ Lapse \/ Stop
  BY <1>3, <1>15 DEF HoldExpires, Lapse, Stop, daemon
<1>16. CASE \E p \in Pipes : Record(p)
  BY <1>3, <1>16 DEF Record, Capture, Interrupt, Deliver, Break, Others, daemon
<1>17. CASE UNCHANGED vars
  BY <1>3, <1>17 DEF vars, daemon
<1>18. CASE \/ Recover \/ StopSeen \/ Finalize \/ FinalJoin \/ Close \/ Open \/ Probe
            \/ Light \/ Start \/ Take \/ CaptureBroken \/ CancelCapture \/ Join \/ Darken
  BY <1>3, <1>18 DEF Recover, StopSeen, Finalize, FinalJoin, Close, Open, Probe, Light, Start,
     Take, CaptureBroken, CancelCapture, Join, Darken, daemon
<1>19. CASE \/ Hear \/ Discard \/ Say \/ Shorter \/ Pause \/ Cue \/ Listen \/ Answer \/ Problem
            \/ Confirm
  BY <1>3, <1>19 DEF Hear, Discard, Say, Shorter, Pause, Cue, Listen, Answer, Problem, Confirm,
     daemon
<1>20. CASE \/ Authorize \/ Execute \/ HeldTooLong \/ Announce \/ AnnounceTransition \/ Press
            \/ Release \/ Fails \/ JoinTimesOut
  BY <1>3, <1>20 DEF Authorize, Execute, HeldTooLong, Announce, AnnounceTransition, Press,
     Release, Fails, JoinTimesOut, daemon, Polled, Peeked
<1> QED
  BY <1>6, <1>7, <1>8, <1>9, <1>10, <1>11, <1>12, <1>13, <1>14, <1>15, <1>16, <1>17, <1>18,
     <1>19, <1>20 DEF Next, Main, Advance, Environment

-----------------------------------------------------------------------------
(* What is acknowledged was said, and no transition is said twice.          *)

LEMMA HeardFrame ==
  ASSUME HeardInv, UNCHANGED <<heard, acked>>,
         at' \notin {"ack", "after"} \/ UNCHANGED <<at, notice, receipt>>
  PROVE  HeardInv'
BY DEF HeardInv

LEMMA OnwardPlaces ==
  /\ Rest \in {"ptt", "pause"} /\ Standby \in {"ptt", "loop"}
  /\ \A s : Onwards(s) \in {"confirm", "ptt", "pause"}
BY DEF Rest, Standby, Onwards

LEMMA AcknowledgeHeard ==
  ASSUME HeardInv, NEW t, t \in heard, Acknowledge(t)
  PROVE  acked' \subseteq heard
BY DEF Acknowledge, HeardInv

LEMMA HeardStep ==
  ASSUME Core, HeardInv, [Next]_vars
  PROVE  HeardInv'
<1>1. CASE Say
  BY <1>1 DEF Say, Go, said, HeardInv
<1>2. CASE AckNotice
  <2>1. acked' \subseteq heard /\ heard' = heard /\ at' = "pause"
    BY <1>2, AcknowledgeHeard DEF AckNotice, Reported, HeardInv, Go
  <2> QED
    BY <2>1 DEF HeardInv
<1>3. CASE Answer
  BY <1>3 DEF Answer, Go, HeardInv
<1>4. CASE After
  <2>1. at = "after" /\ heard' = heard
    BY <1>4 DEF After
  <2>2. acked' \subseteq heard
    <3>1. CASE receipt = NoToken
      BY <1>4, <3>1 DEF After, HeardInv
    <3>2. CASE receipt # NoToken
      BY <1>4, <2>1, <3>2, AcknowledgeHeard DEF After, HeardInv
    <3> QED
      BY <3>1, <3>2
  <2>3. at' \in {"problem", "prepare", "authorize", "confirm", "ptt", "pause"}
    BY <1>4, OnwardPlaces DEF After, Go
  <2> QED
    BY <2>1, <2>2, <2>3 DEF HeardInv
<1>5. CASE \E p \in Pipes : Record(p)
  BY <1>5, HeardFrame DEF Record, Capture, Interrupt, Deliver, Break, Others, said, exchange
<1>6. CASE Environment \/ UNCHANGED vars
  BY <1>6, HeardFrame DEF Environment, ReportDue, JobEnds, Query, ReceiptExpires, Transition,
     DaemonRestarts, HoldExpires, Lapse, Stop, Outside, vars, said, exchange
<1>7. CASE Darken
  <2>1. at' \in {"say", "cue", "hear", "discard"}
    BY <1>7 DEF Darken, Go, Core, CaptureInv, NextPlaces
  <2> QED
    BY <1>7, <2>1, HeardFrame DEF Darken, said
<1>8. CASE Fails \/ CaptureBroken \/ JoinTimesOut
  <2>1. at' \in {"recover", "final"}
    BY <1>8, RaisedAt DEF Fails, CaptureBroken, JoinTimesOut, GiveUp
  <2> QED
    BY <1>8, <2>1, HeardFrame DEF Fails, CaptureBroken, JoinTimesOut, said
<1>9. CASE Recover \/ StopSeen \/ Finalize \/ FinalJoin \/ Close \/ Open \/ Probe
  BY <1>9, HeardFrame DEF Recover, StopSeen, Finalize, FinalJoin, Close, AfterCleanup, StartsOver,
     Open, Probe, Go, said
<1>10. CASE Light \/ Start \/ Take \/ CancelCapture \/ Join
  <2>1. at' \notin {"ack", "after"} /\ UNCHANGED said
    BY <1>10, OnwardPlaces, RaisedAt DEF Light, Start, Take, CancelCapture, Join, Go
  <2> QED
    BY <2>1, HeardFrame DEF said
<1>11. CASE Hear
  <2>1. at' \notin {"ack", "after"} /\ UNCHANGED said
    <3>1. setup.mode \in Modes
      BY DEF Core, Kinds
    <3> QED
      BY <1>11, <3>1, OnwardPlaces DEF Hear, Go, Modes, Ptt
  <2> QED
    BY <2>1, HeardFrame DEF said
<1>12. CASE Discard \/ Shorter \/ Pause \/ Cue \/ Listen
  BY <1>12, OnwardPlaces, HeardFrame DEF Discard, Shorter, Pause, Cue, Listen, Go, said
<1>13. CASE Reply \/ Confirm
  BY <1>13, RaisedAt, HeardFrame DEF Reply, Confirm, said
<1>14. CASE Problem \/ Prepare \/ Authorize \/ Execute
  BY <1>14, OnwardPlaces, HeardFrame DEF Problem, Prepare, Authorize, Execute, Go, said
<1>15. CASE Announce \/ AnnounceTransition
  BY <1>15, HeardFrame DEF Announce, Polled, Peeked, AnnounceTransition
<1>16. CASE Press \/ Release \/ HeldTooLong
  BY <1>16, HeardFrame DEF Press, Release, HeldTooLong, Go, said, exchange
<1> QED
  BY <1>1, <1>2, <1>3, <1>4, <1>5, <1>6, <1>7, <1>8, <1>9, <1>10, <1>11, <1>12, <1>13, <1>14,
     <1>15, <1>16 DEF Next, Main, Advance

LEMMA ToldFrame ==
  ASSUME DaemonInv, ToldInv, UNCHANGED <<seen, told>>, d'.gen = d.gen \/ DaemonRestarts
  PROVE  ToldInv'
<1>1. CASE d'.gen = d.gen
  BY <1>1 DEF ToldInv
<1>2. CASE DaemonRestarts
  <2>1. d'.gen = d.gen + 1 /\ d.gen \in Nat
    BY <1>2 DEF DaemonRestarts, Booted, DaemonInv, Sound
  <2>2. ASSUME NEW n \in DOMAIN told
        PROVE  told[n][1] <= d'.gen /\ told[n][1] # d'.gen
    <3>1. told[n][1] \in Nat /\ told[n][1] <= d.gen
      BY DEF ToldInv
    <3> QED
      BY <2>1, <3>1
  <2> QED
    BY <2>2 DEF ToldInv
<1> QED
  BY <1>1, <1>2

LEMMA ToldStep ==
  ASSUME DaemonInv, ToldInv, [Next]_vars
  PROVE  ToldInv'
<1>1. CASE AnnounceTransition
  <2>1. PICK e \in 1..events : /\ e \notin Marks /\ seen' = [gen |-> d.gen, marks |-> Marks \cup {e}]
                               /\ told' = Append(told, <<d.gen, e>>)
    BY <1>1 DEF AnnounceTransition, Marked
  <2>2. d' = d /\ d.gen \in Nat /\ e \in Nat /\ told \in Seq(Nat \X Nat)
    BY <1>1 DEF AnnounceTransition, daemon, DaemonInv, Sound, ToldInv
  <2> DEFINE x == <<d.gen, e>>
  <2>3. x \in Nat \X Nat /\ x[1] = d.gen /\ x[2] = e
    BY <2>2
  <2>4. \A n \in DOMAIN told : told[n] # x
    BY <2>1, <2>3 DEF ToldInv, Marks
  <2>5. told' = Append(told, x)
    BY <2>1
  <2> HIDE DEF x
  <2>6. /\ told' \in Seq(Nat \X Nat) /\ DOMAIN told' = DOMAIN told \cup {Len(told) + 1}
        /\ told'[Len(told) + 1] = x /\ \A n \in DOMAIN told : told'[n] = told[n]
        /\ Len(told) + 1 \notin DOMAIN told
    BY <2>2, <2>3, <2>5
  <2>7. IsInjective(told')
    BY <2>4, <2>6 DEF ToldInv, IsInjective
  <2>8. ASSUME NEW n \in DOMAIN told'
        PROVE  /\ told'[n][1] <= d.gen
               /\ told'[n][1] = d.gen => seen'.gen = d.gen /\ told'[n][2] \in seen'.marks
    <3>1. seen'.gen = d.gen /\ seen'.marks = Marks \cup {e}
      BY <2>1
    <3>2. CASE n \in DOMAIN told
      BY <2>6, <3>1, <3>2 DEF ToldInv, Marks
    <3>3. CASE n = Len(told) + 1
      BY <2>2, <2>3, <2>6, <3>1, <3>3
    <3> QED
      BY <2>6, <3>2, <3>3
  <2> QED
    BY <2>2, <2>6, <2>7, <2>8 DEF ToldInv
<1>2. ASSUME UNCHANGED <<seen, told>> PROVE ToldInv'
  BY <1>2, DaemonStep, ToldFrame
<1>3. CASE AckNotice \/ After \/ Say \/ Answer \/ Announce
  BY <1>2, <1>3 DEF AckNotice, After, Say, Answer, Announce
<1>4. CASE \E p \in Pipes : Record(p)
  BY <1>2, <1>4 DEF Record, Capture, Interrupt, Deliver, Break, Others, said
<1>5. CASE Environment \/ UNCHANGED vars
  BY <1>2, <1>5 DEF Environment, ReportDue, JobEnds, Query, ReceiptExpires, Transition,
     DaemonRestarts, HoldExpires, Lapse, Stop, vars, said
<1>6. CASE \/ Recover \/ StopSeen \/ Finalize \/ FinalJoin \/ Close \/ Open \/ Probe
           \/ Light \/ Start \/ Take \/ CaptureBroken \/ CancelCapture \/ Join \/ Darken
  BY <1>2, <1>6 DEF Recover, StopSeen, Finalize, FinalJoin, Close, Open, Probe, Light, Start,
     Take, CaptureBroken, CancelCapture, Join, Darken, said
<1>7. CASE \/ Hear \/ Discard \/ Shorter \/ Pause \/ Cue \/ Listen \/ Problem \/ Confirm
           \/ Reply \/ Prepare
  BY <1>2, <1>7 DEF Hear, Discard, Shorter, Pause, Cue, Listen, Problem, Confirm, Reply,
     Prepare, said
<1>8. CASE \/ Authorize \/ Execute \/ HeldTooLong \/ Press \/ Release \/ Fails \/ JoinTimesOut
  BY <1>2, <1>8 DEF Authorize, Execute, HeldTooLong, Press, Release, Fails, JoinTimesOut, said
<1> QED
  BY <1>1, <1>3, <1>4, <1>5, <1>6, <1>7, <1>8 DEF Next, Main, Advance

(* Only what was said to its end is acknowledged; a notice can still be     *)
(* acknowledged as long as it waits; no transition is told twice.           *)
THEOREM WhatIsHeard == Spec => []HeardOnce
<1>1. Init => HeardInv /\ ToldInv
  BY DEF Init, HeardInv, ToldInv, IsInjective
<1>2. Core /\ DaemonInv /\ HeardInv /\ ToldInv /\ [Next]_vars => DaemonInv' /\ HeardInv' /\ ToldInv'
  BY DaemonStep, HeardStep, ToldStep
<1>3. DaemonInv /\ HeardInv /\ ToldInv => HeardOnce
  BY DEF DaemonInv, Sound, HeardInv, ToldInv, HeardOnce
<1> QED
  BY <1>1, <1>2, <1>3, DaemonInit, CoreHolds, PTL DEF Spec

-----------------------------------------------------------------------------
(* The host is told what was confirmed.                                     *)

LEMMA CancelOp ==
  ASSUME PowerKinds, NEW s, s = Cancel(session) \/ s = Begin(session)
  PROVE  /\ s \in [session : Nat, pending : Requests \cup {None}, armed : Requests \cup {None}]
         /\ s.pending = None /\ s.armed = None
<1> DEFINE c == Cancel(session)
<1>1. /\ c \in [session : Nat, pending : Requests \cup {None}, armed : Requests \cup {None}]
      /\ c.pending = None /\ c.armed = None
  BY DEF PowerKinds, Cancel
<1>2. s = c \/ s = [c EXCEPT !.session = c.session + 1]
  BY DEF Begin
<1> HIDE DEF c
<1> QED
  BY <1>1, <1>2

LEMMA NoWillKind == NoWill \in [action : Actions \cup {None}, stage : Stages, lapsed : BOOLEAN, gen : Nat]
BY DEF NoWill, Stages

(* An utterance in an interaction; pending is None unless it answers the    *)
(* question.                                                                *)
LEMMA HandleOp ==
  ASSUME PowerKinds, NEW u \in Utterances, session' = Handle(session, u), will' = Willed(u),
         UNCHANGED auth, will.gen <= d.gen, d.gen \in Nat,
         session.pending # None => Wanted(session.pending, "prompted")
  PROVE  /\ PowerKinds' /\ will'.gen <= d.gen
         /\ session'.pending # None => /\ will'.action = session'.pending.action
                                       /\ will'.stage = "asked" /\ ~ will'.lapsed
         /\ session'.armed # None => /\ session'.pending = None
                                     /\ will'.action = session'.armed.action
                                     /\ will'.stage = "confirmed"
                                     /\ session'.armed.live => ~ will'.lapsed
<1> DEFINE c == Cancel(session)
<1>1. /\ c \in [session : Nat, pending : Requests \cup {None}, armed : Requests \cup {None}]
      /\ c.pending = None /\ c.armed = None
  BY CancelOp
<1> HIDE DEF c
<1>2. CASE u.kind = "ask"
  <2> DEFINE r == [action |-> u.action, session |-> session.session, live |-> TRUE]
             w == [NoWill EXCEPT !.action = u.action, !.stage = "asked"]
  <2>1. u.action \in Actions
    BY <1>2 DEF Utterances
  <2>2. r \in Requests /\ r.action = u.action
    BY <2>1 DEF PowerKinds, Requests
  <2>3. session' = [c EXCEPT !.pending = r] /\ will' = w
    BY <1>2 DEF Handle, Willed, c
  <2>4. /\ w \in [action : Actions \cup {None}, stage : Stages, lapsed : BOOLEAN, gen : Nat]
        /\ w.action = u.action /\ w.stage = "asked" /\ ~ w.lapsed /\ w.gen = 0
    BY <2>1 DEF NoWill, Stages
  <2> HIDE DEF r, w
  <2> QED
    BY <1>1, <2>2, <2>3, <2>4 DEF PowerKinds
<1>3. CASE u.kind = "confirm"
  <2> DEFINE a == IF Current(session, session.pending) /\ Matches(session, u)
                  THEN session.pending ELSE None
             w == IF will.stage = "prompted" /\ will.action = u.action
                  THEN [will EXCEPT !.stage = "confirmed"] ELSE NoWill
  <2>1. session' = [c EXCEPT !.armed = a] /\ will' = w
    BY <1>3 DEF Handle, Willed, c
  <2>2. /\ a \in Requests \cup {None}
        /\ a # None => a = session.pending /\ session.pending # None
                       /\ u.action = session.pending.action
    BY DEF PowerKinds, Current, Matches
  <2>3. /\ w \in [action : Actions \cup {None}, stage : Stages, lapsed : BOOLEAN, gen : Nat]
        /\ w.gen <= d.gen
    BY NoWillKind DEF PowerKinds, Stages, NoWill
  <2>4. a # None => w = [will EXCEPT !.stage = "confirmed"] /\ Wanted(a, "prompted")
    BY <2>2 DEF Wanted
  <2>5. a # None => /\ w.action = a.action /\ w.stage = "confirmed" /\ (a.live => ~ w.lapsed)
    BY <2>4 DEF PowerKinds, Wanted
  <2> HIDE DEF a, w
  <2>6. /\ session' \in [session : Nat, pending : Requests \cup {None}, armed : Requests \cup {None}]
        /\ session'.pending = None /\ session'.armed = a
    BY <1>1, <2>1, <2>2
  <2> QED
    BY <2>1, <2>3, <2>5, <2>6 DEF PowerKinds
<1>4. CASE u.kind \notin {"ask", "confirm"}
  <2>1. session' = c /\ will' = NoWill
    BY <1>4 DEF Handle, Willed, c
  <2> QED
    BY <1>1, <2>1, NoWillKind DEF PowerKinds, NoWill
<1> QED
  BY <1>2, <1>3, <1>4

(* Where the power request matters.                                         *)
Powerful == {"answer", "after", "listen", "reply", "prepare", "authorize", "execute"}

LEMMA PowerFrame ==
  ASSUME PowerInv, UNCHANGED <<session, auth, will, setup>>, d.gen \in Nat,
         at' = at \/ (at' \notin Powerful /\ at \notin {"answer", "after"}),
         d'.gen = d.gen, hold' = hold \/ at' \notin {"authorize", "execute"}
  PROVE  PowerInv'
BY DEF PowerInv, PowerKinds, Wanted, HeldOff, Powerful

LEMMA PowerGone ==
  ASSUME PowerKinds', d.gen \in Nat, d'.gen = d.gen, session'.pending = None,
         session'.armed = None, will' = NoWill,
         at' \notin {"prepare", "authorize", "execute"}
  PROVE  PowerInv'
BY DEF PowerInv, NoWill

LEMMA PowerFails ==
  ASSUME PowerInv, DaemonInv, Fails
  PROVE  PowerInv'
<1>1. at' \in {"recover", "final"} /\ UNCHANGED <<setup, d, hold>>
  BY RaisedAt DEF Fails, daemon
<1>2. d.gen \in Nat
  BY DEF DaemonInv, Sound
<1>3. CASE Delivering
  <2>1. session' = Cancel(session) /\ will' = NoWill /\ auth' = auth
    BY <1>3 DEF Fails, SpeechFailed
  <2>2. PowerKinds' /\ session'.pending = None /\ session'.armed = None
    BY <2>1, CancelOp, NoWillKind DEF PowerInv, PowerKinds
  <2> QED
    BY <1>1, <1>2, <2>1, <2>2, PowerGone
<1>4. CASE ~ Delivering
  <2>1. UNCHANGED <<session, auth, will>> /\ at # "answer"
    BY <1>4 DEF Fails, exchange, Delivering
  <2>3. at # "after"
    BY DEF Fails
  <2> QED
    BY <1>1, <1>2, <2>1, <2>3, PowerFrame DEF Powerful
<1> QED
  BY <1>3, <1>4

LEMMA PowerBegins ==
  ASSUME Core, PowerInv, DaemonInv, Hear \/ Cue
  PROVE  PowerInv'
<1>1. d.gen \in Nat /\ setup.mode \in Modes
  BY DEF DaemonInv, Sound, Core, Kinds
<1>2. ASSUME session' = Begin(session), will' = NoWill, UNCHANGED <<auth, d>>,
             at' \in {"reply", "ptt", "cue", "light", "shorter", "loop", "cancel", "listen"}
      PROVE  PowerInv'
  <2>1. PowerKinds' /\ session'.pending = None /\ session'.armed = None
    BY <1>2, CancelOp, NoWillKind DEF PowerInv, PowerKinds
  <2> QED
    BY <1>1, <1>2, <2>1, PowerGone
<1>3. CASE Cue
  BY <1>2, <1>3 DEF Cue, Go, daemon
<1>4. CASE Hear
  <2>1. UNCHANGED <<setup, d, hold>> /\ at = "hear"
    BY <1>4 DEF Hear, run, daemon
  <2>2. \/ session' = Begin(session) /\ will' = NoWill /\ auth' = auth /\ at' = "reply"
        \/ UNCHANGED <<session, auth, will>>
           /\ at' \in {"ptt", "cue", "light", "shorter", "loop", "cancel"}
    BY <1>1, <1>4 DEF Hear, Go, exchange, Standby, Ptt, Modes
  <2> QED
    BY <1>1, <1>2, <2>1, <2>2, PowerFrame DEF Powerful
<1> QED
  BY <1>3, <1>4

LEMMA PowerAnswers ==
  ASSUME PowerInv, DaemonInv, Reply \/ Confirm, DaemonInv', d'.gen = d.gen
  PROVE  PowerInv'
<1>1. d.gen \in Nat
  BY DEF DaemonInv, Sound
<1>2. at \in {"reply", "confirm"} /\ UNCHANGED <<auth, setup>>
  BY RaisedAt DEF Reply, Confirm, run
<1>3. PICK u \in Utterances :
        /\ session' = Handle(session, u) /\ will' = Willed(u)
        /\ \/ at' = "answer"
           \/ at' \in {"recover", "final"} /\ u.kind = "other"
  BY RaisedAt DEF Reply, Confirm
<1>4. session.pending # None => Wanted(session.pending, "prompted")
  BY <1>2 DEF PowerInv
<1>5. /\ PowerKinds' /\ will'.gen <= d.gen
      /\ session'.pending # None => /\ will'.action = session'.pending.action
                                    /\ will'.stage = "asked" /\ ~ will'.lapsed
      /\ session'.armed # None => /\ session'.pending = None
                                  /\ will'.action = session'.armed.action
                                  /\ will'.stage = "confirmed"
                                  /\ session'.armed.live => ~ will'.lapsed
  BY <1>1, <1>2, <1>3, <1>4, HandleOp DEF PowerInv
<1>6. CASE at' = "answer"
  BY <1>5, <1>6 DEF PowerInv, Wanted
<1>7. CASE at' \in {"recover", "final"} /\ u.kind = "other"
  <2>1. session' = Cancel(session) /\ will' = NoWill
    BY <1>3, <1>7 DEF Handle, Willed
  <2>2. session'.pending = None /\ session'.armed = None
    BY <2>1, CancelOp DEF PowerInv
  <2> QED
    BY <1>1, <1>5, <1>7, <2>1, <2>2, PowerGone
<1> QED
  BY <1>3, <1>6, <1>7

LEMMA PowerSpoken ==
  ASSUME PowerInv, DaemonInv, Answer
  PROVE  PowerInv'
<1>1. /\ at = "answer" /\ at' = "after" /\ UNCHANGED <<session, auth, setup, d, hold>>
      /\ will' = IF will.stage \in DOMAIN Told THEN [will EXCEPT !.stage = Told[will.stage]]
                 ELSE will
  BY DEF Answer, Go, run, daemon
<1>2. /\ DOMAIN Told = {"asked", "confirmed"} /\ Told["asked"] = "prompted"
      /\ Told["confirmed"] = "told"
  BY DEF Told
<1>3. /\ PowerKinds' /\ will'.action = will.action /\ will'.lapsed = will.lapsed
      /\ will'.gen = will.gen /\ (will.stage = "asked" => will'.stage = "prompted")
      /\ will.stage = "confirmed" => will'.stage = "told"
  <2>1. CASE will.stage = "asked"
    BY <1>1, <1>2, <2>1 DEF PowerInv, PowerKinds, Stages
  <2>2. CASE will.stage = "confirmed"
    BY <1>1, <1>2, <2>2 DEF PowerInv, PowerKinds, Stages
  <2>3. CASE will.stage \notin {"asked", "confirmed"}
    BY <1>1, <1>2, <2>3 DEF PowerInv, PowerKinds
  <2> QED
    BY <2>1, <2>2, <2>3
<1> QED
  BY <1>1, <1>3 DEF PowerInv, Wanted

LEMMA PowerAfter ==
  ASSUME PowerInv, DaemonInv, After, d'.gen = d.gen
  PROVE  PowerInv'
<1> DEFINE s == Consume(session)
<1>1. /\ at = "after" /\ session' = s /\ UNCHANGED <<will, setup, hold>>
      /\ auth' = IF Current(session, session.armed) THEN session.armed ELSE None
      /\ \/ session.armed = None /\ at' \in {"confirm", "ptt", "pause"}
         \/ at' = "problem"
         \/ /\ session.armed # None /\ auth' # None
            /\ at' = IF setup.environment THEN "prepare" ELSE "authorize"
  <2>1. at' = CASE session.armed = None -> Onwards(session)
                [] session.armed # None /\ auth' = None -> "problem"
                [] auth' # None -> IF setup.environment THEN "prepare" ELSE "authorize"
    BY DEF After, Go
  <2>2. Onwards(session) \in {"confirm", "ptt", "pause"}
    BY OnwardPlaces
  <2>3. session.armed = None => at' \in {"confirm", "ptt", "pause"} \/ at' = "problem"
    <3>1. session.armed = None => auth' = None
      BY DEF After, Current
    <3> QED
      BY <2>1, <2>2, <3>1
  <2>4. session.armed # None =>
          \/ at' = "problem"
          \/ auth' # None /\ at' = IF setup.environment THEN "prepare" ELSE "authorize"
    BY <2>1
  <2> QED
    BY <2>3, <2>4 DEF After, run
<1>2. /\ s \in [session : Nat, pending : Requests \cup {None}, armed : Requests \cup {None}]
      /\ s.pending = session.pending /\ s.armed = None
  BY DEF PowerInv, PowerKinds, Consume
<1> HIDE DEF s
<1>3. PowerKinds'
  BY <1>1, <1>2 DEF PowerInv, PowerKinds
<1>4. auth' # None => auth' = session.armed /\ session.armed # None
  BY <1>1 DEF Current
<1>5. CASE at' \in {"confirm", "ptt", "pause", "problem"}
  BY <1>1, <1>2, <1>3, <1>5 DEF PowerInv, Wanted
<1>6. CASE /\ session.armed # None /\ auth' # None
           /\ at' = IF setup.environment THEN "prepare" ELSE "authorize"
  <2>1. session'.pending = None /\ Wanted(session.armed, "told") /\ auth' = session.armed
    BY <1>1, <1>2, <1>4, <1>6 DEF PowerInv
  <2> QED
    BY <1>1, <1>2, <1>3, <1>6, <2>1 DEF PowerInv, Wanted, HeldOff
<1> QED
  BY <1>1, <1>5, <1>6

LEMMA PowerCarriedOut ==
  ASSUME PowerInv, DaemonInv, Prepare \/ Authorize \/ Execute, d'.gen = d.gen
  PROVE  PowerInv'
<1>1. d.gen \in Nat /\ UNCHANGED <<session, setup>>
  BY DEF DaemonInv, Sound, Prepare, Authorize, Execute, run
<1>2. session.pending = None /\ auth # None /\ session.armed = None
  BY DEF PowerInv, Prepare, Authorize, Execute
<1>3. ASSUME PowerKinds', at' \in {"problem", "confirm", "ptt", "pause"}, will' = will
      PROVE  PowerInv'
  BY <1>1, <1>2, <1>3 DEF PowerInv
<1>4. CASE Prepare
  <2>1. at = "prepare" /\ auth' = auth
    BY <1>4 DEF Prepare
  <2>2. CASE TakeHold /\ at' = "authorize" /\ will' = [will EXCEPT !.stage = "held", !.gen = d.gen]
    <3>1. hold'
      BY <2>2 DEF TakeHold
    <3>2. /\ PowerKinds' /\ will'.action = will.action /\ will'.lapsed = will.lapsed
          /\ will'.gen = d.gen /\ will'.stage = "held"
      BY <1>1, <2>1, <2>2 DEF PowerInv, PowerKinds, Stages
    <3>3. setup.environment /\ Wanted(auth, "told")
      BY <2>1 DEF PowerInv
    <3> QED
      BY <1>1, <1>2, <2>1, <2>2, <3>1, <3>2, <3>3 DEF PowerInv, Wanted, HeldOff
  <2>3. CASE at' = "problem" /\ will' = will
    BY <1>1, <1>3, <2>1, <2>3 DEF PowerInv, PowerKinds
  <2> QED
    BY <1>4, <2>2, <2>3 DEF Prepare, Go
<1>5. CASE Authorize
  <2>1. at = "authorize" /\ will' = will
    BY <1>5 DEF Authorize
  <2>2. CASE Authorized /\ at' = "execute" /\ UNCHANGED <<hold, auth>>
    BY <1>1, <1>2, <2>1, <2>2
    DEF PowerInv, PowerKinds, Wanted, HeldOff, Authorized, StillConfirmed
  <2>3. CASE at' = "problem" /\ auth' = None
    BY <1>1, <1>3, <2>1, <2>3 DEF PowerInv, PowerKinds
  <2> QED
    BY <1>5, <2>2, <2>3 DEF Authorize, Go
<1>6. CASE Execute
  <2>1. auth' = None /\ will' = will /\ at' \in {"problem", "confirm", "ptt", "pause"}
    BY <1>6, OnwardPlaces DEF Execute, Go
  <2> QED
    BY <1>1, <1>3, <2>1 DEF PowerInv, PowerKinds
<1> QED
  BY <1>4, <1>5, <1>6

(* Time and the daemon go their own way.                                    *)
LEMMA PowerLapses ==
  ASSUME PowerInv, DaemonInv, Lapse
  PROVE  PowerInv'
<1> DEFINE Off(r) == IF r = None THEN None ELSE [r EXCEPT !.live = FALSE]
           w == [will EXCEPT !.lapsed = will.lapsed \/ at # "execute"]
<1>1. /\ session' = [session EXCEPT !.pending = Off(session.pending), !.armed = Off(session.armed)]
      /\ auth' = Off(auth) /\ will' = w /\ UNCHANGED <<at, setup, d, hold>>
  BY DEF Lapse, Expire, Outside, run, daemon
<1>2. ASSUME NEW r \in Requests \cup {None}
      PROVE  /\ Off(r) \in Requests \cup {None}
             /\ r # None <=> Off(r) # None
             /\ r # None => Off(r).action = r.action /\ ~ Off(r).live
  <2>1. CASE r = None
    BY <2>1
  <2>2. CASE r # None
    <3> DEFINE q == [r EXCEPT !.live = FALSE]
    <3>1. q \in Requests /\ q.action = r.action /\ ~ q.live
      BY <2>2 DEF Requests
    <3>2. Off(r) = q
      BY <2>2
    <3> HIDE DEF q, Off
    <3> QED
      BY <2>2, <3>1, <3>2, NoneAssumption
  <2> QED
    BY <2>1, <2>2
<1>3. /\ w \in [action : Actions \cup {None}, stage : Stages, lapsed : BOOLEAN, gen : Nat]
      /\ w.action = will.action /\ w.stage = will.stage /\ w.gen = will.gen
      /\ at = "execute" => w.lapsed = will.lapsed
  BY DEF PowerInv, PowerKinds
<1> HIDE DEF Off, w
<1>4. /\ session' \in [session : Nat, pending : Requests \cup {None}, armed : Requests \cup {None}]
      /\ session'.pending = Off(session.pending) /\ session'.armed = Off(session.armed)
      /\ auth' \in Requests \cup {None}
  BY <1>1, <1>2 DEF PowerInv, PowerKinds
<1>5. ASSUME NEW r \in Requests \cup {None}, r # None, NEW stage, Wanted(r, stage)
      PROVE  Wanted(Off(r), stage)'
  BY <1>1, <1>2, <1>3, <1>5 DEF Wanted
<1>6. session.pending \in Requests \cup {None} /\ session.armed \in Requests \cup {None}
      /\ auth \in Requests \cup {None}
  BY DEF PowerInv, PowerKinds
<1>7. PowerKinds'
  BY <1>1, <1>3, <1>4 DEF PowerKinds
<1> QED
  BY <1>1, <1>2, <1>3, <1>4, <1>5, <1>6, <1>7 DEF PowerInv, HeldOff

LEMMA PowerRestarts ==
  ASSUME PowerInv, DaemonInv, DaemonRestarts
  PROVE  PowerInv'
<1>1. d'.gen = d.gen + 1 /\ d.gen \in Nat /\ UNCHANGED <<at, setup, session, auth, will>>
  BY DEF DaemonRestarts, Booted, DaemonInv, Sound, Outside, run, exchange
<1> QED
  BY <1>1 DEF PowerInv, PowerKinds, Wanted, HeldOff

LEMMA PowerStep ==
  ASSUME Core, DaemonInv, PowerInv, [Next]_vars
  PROVE  PowerInv'
<1>0. d.gen \in Nat /\ DaemonInv' /\ (d'.gen = d.gen \/ DaemonRestarts)
  BY DaemonStep DEF DaemonInv, Sound
<1>1. CASE DaemonRestarts
  BY <1>1, PowerRestarts
<1> SUFFICES ASSUME d'.gen = d.gen PROVE PowerInv'
  BY <1>0, <1>1
<1>2. CASE Hear \/ Cue
  BY <1>2, PowerBegins
<1>3. CASE Reply \/ Confirm
  BY <1>0, <1>3, PowerAnswers
<1>4. CASE Answer
  BY <1>4, PowerSpoken
<1>5. CASE After
  BY <1>5, PowerAfter
<1>6. CASE Prepare \/ Authorize \/ Execute
  BY <1>6, PowerCarriedOut
<1>7. CASE Lapse
  BY <1>7, PowerLapses
<1>8. CASE Fails
  BY <1>8, PowerFails
<1>9. CASE Listen
  <2>1. at = "listen" /\ at' \in {"reply", "ptt", "pause"}
        /\ UNCHANGED <<session, auth, will, setup, d, hold>>
    BY <1>9, OnwardPlaces DEF Listen, Go, run, daemon, exchange
  <2> QED
    BY <1>0, <2>1 DEF PowerInv, PowerKinds, Wanted
<1>10. CASE Environment /\ ~ DaemonRestarts /\ ~ Lapse
  <2>1. UNCHANGED <<at, setup, session, auth, will>>
        /\ (hold' = hold \/ at' \notin {"authorize", "execute"})
    BY <1>10 DEF Environment, ReportDue, JobEnds, Query, ReceiptExpires, Transition,
       HoldExpires, Stop, Outside, run, daemon, exchange
  <2> QED
    BY <1>0, <2>1, PowerFrame
<1>11. CASE (\E p \in Pipes : Record(p)) \/ UNCHANGED vars
  <2>1. UNCHANGED <<at, setup, session, auth, will, hold>>
    BY <1>11 DEF Record, Capture, Interrupt, Deliver, Break, Others, vars, run, daemon, exchange
  <2> QED
    BY <1>0, <2>1, PowerFrame
<1>12. ASSUME UNCHANGED <<session, auth, will, setup, hold>>, at' \notin Powerful,
              at \notin {"answer", "after"}
       PROVE  PowerInv'
  BY <1>0, <1>12, PowerFrame
<1>13. CASE Darken
  <2>1. at' \in {"say", "cue", "hear", "discard"}
    BY <1>13 DEF Darken, Go, Core, CaptureInv, NextPlaces
  <2> QED
    BY <1>12, <1>13, <2>1 DEF Darken, Powerful, run, daemon, exchange
<1>14. CASE CaptureBroken \/ JoinTimesOut
  BY <1>12, <1>14, RaisedAt DEF CaptureBroken, JoinTimesOut, GiveUp, Powerful, daemon, exchange,
     Standby
<1>15. CASE Recover \/ StopSeen \/ Finalize \/ FinalJoin \/ Close \/ Open \/ Probe
  BY <1>12, <1>15 DEF Recover, StopSeen, LooksAtStop, EveryWait, Finalize, FinalJoin, Close,
     AfterCleanup, StartsOver, Open, Probe, Go, Powerful, run, daemon, exchange
<1>16. CASE Light \/ Start \/ Take \/ CancelCapture \/ Join
  BY <1>12, <1>16, OnwardPlaces, RaisedAt DEF Light, Start, Take, CancelCapture, Join, Go,
     Powerful, run, daemon, exchange
<1>17. CASE Discard \/ Say \/ Shorter \/ AckNotice \/ Pause \/ Problem
  BY <1>12, <1>17, OnwardPlaces DEF Discard, Say, Shorter, AckNotice, Pause, Problem, Go,
     Powerful, run, daemon, exchange
<1>18. CASE Announce \/ AnnounceTransition
  BY <1>12, <1>18 DEF Announce, AnnounceTransition, Powerful, run, daemon, exchange
<1>19. CASE Press \/ Release \/ HeldTooLong
  BY <1>12, <1>19 DEF Press, Release, HeldTooLong, Go, Powerful, daemon, exchange
<1> QED
  BY <1>1, <1>2, <1>3, <1>4, <1>5, <1>6, <1>7, <1>8, <1>9, <1>10, <1>11, <1>13, <1>14, <1>15,
     <1>16, <1>17, <1>18, <1>19 DEF Next, Main, Advance

(* The host is told only what was asked for, confirmed, acknowledged and    *)
(* held off for, in this interaction and in time.                           *)
THEOREM HostIsToldWhatWasConfirmed == Spec => PowerAuthorized
<1>1. Init => PowerInv
  <2> SUFFICES ASSUME Init PROVE PowerInv
    OBVIOUS
  <2>1. /\ session = NewSession /\ auth = None /\ will = NoWill /\ at = "open"
        /\ d = Booted(1)
    BY DEF Init
  <2>2. PowerKinds /\ session.pending = None /\ session.armed = None
    BY <2>1, NoWillKind DEF PowerKinds, NewSession
  <2> QED
    BY <2>1, <2>2 DEF PowerInv, Booted, NoWill
<1>2. Core /\ DaemonInv /\ PowerInv /\ [Next]_vars => DaemonInv' /\ PowerInv'
  BY DaemonStep, PowerStep
<1>3. ASSUME Core, DaemonInv, PowerInv, [Next]_vars, host' # host
      PROVE  /\ will.action = host' /\ ~ will.lapsed
             /\ will.stage = (IF setup.environment THEN "held" ELSE "told")
             /\ setup.environment => hold \/ will.gen # d.gen
  <2>1. Execute
    BY <1>3 DEF Next, Main, Advance, Environment, vars, exchange, Record, Capture, Interrupt,
       Deliver, Break, Others, ReportDue, JobEnds, Query, ReceiptExpires, Transition,
       DaemonRestarts, HoldExpires, Lapse, Stop, Recover, StopSeen, Finalize, FinalJoin, Close,
       Open, Probe, Light, Start, Take, CaptureBroken, CancelCapture, Join, Darken, Hear, Discard,
       Say, Shorter, AckNotice, Pause, Cue, Listen, Reply, Answer, After, Problem, Confirm,
       Prepare, Authorize, HeldTooLong, Announce, AnnounceTransition, Press, Release, Fails,
       JoinTimesOut
  <2>2. at = "execute" /\ host' = auth.action
    BY <1>3, <2>1 DEF Execute
  <2> QED
    BY <1>3, <2>2 DEF PowerInv, Wanted, HeldOff
<1> QED
  BY <1>1, <1>2, <1>3, DaemonInit, CoreHolds, PTL DEF Spec, PowerAuthorized
=============================================================================
