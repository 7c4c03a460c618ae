------------------------------- MODULE Voice -------------------------------
(***************************************************************************)
(* The voice appliance of voice_runtime.py: its main thread (wake_loop or  *)
(* push_to_talk_loop, with the turn they share), the capture threads it    *)
(* starts, stops and sometimes loses, the indicator LED, the notices and   *)
(* events it reads from the environment daemon, and the power request a    *)
(* user confirms.  One action per call the main thread can be suspended or *)
(* fail in; the other threads, the daemon and the signal come in between.  *)
(***************************************************************************)
EXTENDS WakePipeline, Notices, PowerSession, Functions

CONSTANTS
  Pipes,      \* capture threads that exist at once, lost ones included
  Tokens,     \* the notice tokens a behaviour gets as far as
  Scenarios   \* setups [mode, environment] with their budgets `left`

Counters == {"captures", "turns", "notices", "queries", "events", "lapses", "faults"}

ASSUME PipesAssumption == None \notin Pipes
ASSUME ScenariosAssumption ==
  \A s \in Scenarios : /\ s.mode \in Modes /\ s.environment \in BOOLEAN
                       /\ s.left \in [Counters -> Nat]

VARIABLES
  setup,      \* the interaction mode; whether the environment extension is on
  left,       \* how often each thing may still happen (a bound of the model)
  at, next,   \* the main thread's place, and where it continues after a stop
  pipe, cur,  \* the capture threads; the one the main thread holds
  window,     \* the recording in hand
  led, ready, stop,
  button,     \* push-to-talk: the debounced button and the hold it started
  d, issued,  \* the daemon's notices; how many tokens it has given out
  hold,       \* the daemon holds the fan off for a power action
  events,     \* transitions the daemon has recorded since it started
  seen, told, \* the announcer's marks; every transition ever taken for saying
  notice,     \* the notice being said
  receipt,    \* OperationalCommands.reading_receipt
  heard, acked, \* tokens whose reading was said to the end; acknowledged ones
  session, auth, \* the power session; the authorization being executed
  will,       \* what the user has really done about power in this interaction
  host        \* what the host was last told to do

run == <<setup, ready, stop, button>>
capture == <<pipe, cur, window, led>>
daemon == <<d, issued, hold, events>>
said == <<seen, told, notice, heard, acked>>
exchange == <<receipt, session, auth, will, host>>

vars == <<left, at, next, run, capture, daemon, said, exchange>>

NoWindow == [of |-> None, n |-> 0]
NoWill == [action |-> None, stage |-> "none", lapsed |-> FALSE, gen |-> 0]

(* Where the speaker is in use; while a reply is awaited, by progress cues.  *)
Speaking == {"say", "shorter", "cue", "reply", "answer", "problem"}

Ptt == setup.mode = "ptt"
Standby == IF Ptt THEN "ptt" ELSE "loop"
Rest == IF Ptt THEN "ptt" ELSE "pause"

Spend(counter) == left[counter] > 0 /\ left' = [left EXCEPT ![counter] = @ - 1]

Go(place) == at' = place /\ UNCHANGED next

Init ==
  \E s \in Scenarios :
    /\ setup = [mode |-> s.mode, environment |-> s.environment] /\ left = s.left
    /\ at = "open" /\ next = "open"
    /\ pipe = [p \in Pipes |-> NewPipe] /\ cur = None /\ window = NoWindow
    /\ led = "closed" /\ ready = FALSE /\ stop = FALSE
    /\ button = [down |-> FALSE, started |-> FALSE, inhibited |-> FALSE]
    /\ d = Booted(1) /\ issued = 0 /\ hold = FALSE /\ events = 0
    /\ seen = [gen |-> 1, marks |-> {}] /\ told = <<>> /\ notice = NoToken
    /\ heard = {} /\ acked = {} /\ receipt = NoToken
    /\ session = NewSession /\ auth = None /\ will = NoWill /\ host = None

-----------------------------------------------------------------------------
(* Failing: what an exception does to the main thread, wherever it is.      *)

\* The controller's update closes the push-to-talk hardware before it raises.
Updating == Ptt /\ at \notin {"open", "probe", "ptt"}

Raise ==
  /\ next' = IF Updating THEN "recover" ELSE "open"
  /\ at' = IF Updating \/ stop THEN "final" ELSE "recover"
  /\ ready' = (ready /\ at' = "final")
  /\ UNCHANGED <<setup, stop, button>>

(* Any of these calls may fail; speech and the model do once stop is set.   *)
Fault ==
  \/ Spend("faults")
  \/ stop /\ at \in Speaking /\ UNCHANGED left

\* The exchange a failure leaves behind: inside _deliver_answer it is undone.
Delivering == at \in {"answer", "after", "problem", "confirm"}

SpeechFailed == receipt' = NoToken /\ session' = Cancel(session) /\ will' = NoWill

\* The recording goes with the transcription, even with a failed one.
Unlink(w) == IF w = NoWindow THEN pipe ELSE [pipe EXCEPT ![w.of] = Unlinked(@, w.n)]

Fails ==
  /\ at \in {"open", "light", "dark", "say", "shorter", "cue", "hear", "listen",
             "answer", "problem", "confirm"}
  /\ at = "hear" => window # NoWindow
  /\ Fault
  /\ Raise
  /\ IF at = "hear" THEN pipe' = Unlink(window) /\ window' = NoWindow
                    ELSE UNCHANGED <<pipe, window>>
  /\ IF Delivering THEN SpeechFailed /\ UNCHANGED <<auth, host>> ELSE UNCHANGED exchange
  /\ UNCHANGED <<cur, led, daemon, said>>

\* _clear_ready has run; the wait passes before the finally clause.
Recover ==
  /\ at = "recover"
  /\ at' = IF led = "closed" THEN "open" ELSE "final"
  /\ next' = "open"
  /\ UNCHANGED <<left, run, capture, daemon, said, exchange>>

\* Where stop is looked at.  Mutant: the wait for readiness does not.
DeafWhileProbing == {"loop", "ptt", "pause"}

EveryWait == {"probe", "loop", "ptt", "pause"}

LooksAtStop == EveryWait

StopSeen ==
  /\ stop /\ at \in LooksAtStop
  /\ at' = "final" /\ next' = "open"
  /\ UNCHANGED <<left, run, capture, daemon, said, exchange>>

\* The finally clause: stop the capture, forgive it if it does not stop.
Finalize ==
  /\ at = "final"
  /\ pipe' = IF cur = None THEN pipe ELSE [pipe EXCEPT ![cur] = Cancelled(@)]
  /\ Go(IF cur = None THEN "close" ELSE "finaljoin")
  /\ UNCHANGED <<left, run, cur, window, led, daemon, said, exchange>>

FinalJoin ==
  /\ at = "finaljoin"
  /\ IF Alive(pipe[cur])
     THEN Spend("faults") /\ pipe' = [pipe EXCEPT ![cur] = Late(@)]
     ELSE UNCHANGED left /\ pipe' = [pipe EXCEPT ![cur] = [Drained(@) EXCEPT !.late = FALSE]]
  /\ cur' = None /\ Go("close")
  /\ UNCHANGED <<run, window, led, daemon, said, exchange>>

\* Where the loop goes from its finally clause.  Mutant: it ends.
EndsOnError == IF next = "recover" /\ ~ stop THEN "recover" ELSE "stopped"

StartsOver == IF next = "recover" /\ ~ stop THEN "recover" ELSE "open"

AfterCleanup == StartsOver

Close ==
  /\ at = "close"
  /\ pipe' = Unlink(window) /\ window' = NoWindow /\ led' = "closed"
  /\ button' = [down |-> FALSE, started |-> FALSE, inhibited |-> FALSE]
  /\ at' = AfterCleanup
  /\ ready' = (ready /\ next # "recover") /\ next' = "open"
  /\ UNCHANGED <<left, setup, stop, cur, daemon, said, exchange>>

-----------------------------------------------------------------------------
(* Standby *)

\* The indicator line is taken, dark, before anything is declared ready.
Open ==
  /\ at = "open"
  /\ IF stop THEN Go("stopped") /\ ready' = FALSE /\ UNCHANGED led
             ELSE Go("probe") /\ led' = "off" /\ UNCHANGED ready
  /\ UNCHANGED <<left, setup, stop, button, pipe, cur, window, daemon, said, exchange>>

\* wait_until_ready; its failures are retried there and change nothing.
Probe ==
  /\ at = "probe" /\ ~ stop
  /\ ready' = TRUE /\ Go(IF Ptt THEN "ptt" ELSE "light")
  /\ UNCHANGED <<left, setup, stop, button, capture, daemon, said, exchange>>

Idle(p) == ~ Alive(pipe[p]) /\ p # cur

Light ==
  /\ at = "light"
  /\ led' = "on" /\ Go("start")
  /\ UNCHANGED <<left, run, pipe, cur, window, daemon, said, exchange>>

Start ==
  /\ at = "start"
  /\ \E p \in Pipes : Idle(p)
  /\ LET p == CHOOSE q \in Pipes : Idle(q)
     IN pipe' = [pipe EXCEPT ![p] = Started(NewPipe)] /\ cur' = p
  /\ Go(Standby)
  /\ UNCHANGED <<left, run, window, led, daemon, said, exchange>>

\* Mutant: the daemon hands a notice out once.
HandedOut(t) == d' = Acknowledged(d, t) /\ acked' = acked \cup {t}

Peeked(t) == UNCHANGED <<d, acked>>

Polled(t) == Peeked(t)

\* Something to say: the head of the daemon's notices, else a transition.
Announce ==
  /\ at = "loop" /\ ~ stop /\ d.notices # {}
  /\ notice' = First(d.notices) /\ Polled(notice')
  /\ at' = "cancel" /\ next' = "say"
  /\ UNCHANGED <<left, run, capture, issued, hold, events, seen, told, heard, exchange>>

Marks == IF seen.gen = d.gen THEN seen.marks ELSE {}

\* Mutant: a transition is to be marked when it has been said.
UnmarkedYet(e) == UNCHANGED seen

Marked(e) == seen' = [gen |-> d.gen, marks |-> Marks \cup {e}]

AnnounceTransition ==
  /\ at = "loop" /\ ~ stop
  /\ \E e \in 1..events :
       /\ e \notin Marks /\ \A f \in 1..(e - 1) : f \in Marks
       /\ Marked(e) /\ told' = Append(told, <<d.gen, e>>)
  /\ notice' = NoToken
  /\ at' = "cancel" /\ next' = "say"
  /\ UNCHANGED <<left, run, capture, daemon, heard, acked, exchange>>

Take ==
  /\ at = "loop" /\ ~ stop /\ pipe[cur].queue # <<>> /\ ~ Raises(pipe[cur], setup.mode)
  /\ window' = [of |-> cur, n |-> Head(pipe[cur].queue)]
  /\ pipe' = [pipe EXCEPT ![cur] = Taken(@)]
  /\ IF setup.mode = "streaming" THEN at' = "cancel" /\ next' = "hear" ELSE Go("hear")
  /\ UNCHANGED <<left, run, cur, led, daemon, said, exchange>>

\* next_window or check_capture_error hands on what broke the capture.
CaptureBroken ==
  /\ at = Standby /\ cur # None /\ ~ stop
  /\ Raises(pipe[cur], setup.mode)
  /\ Raise
  /\ UNCHANGED <<left, capture, daemon, said, exchange>>

-----------------------------------------------------------------------------
(* stop(): cancel, wait for the thread, take back what it left.             *)

\* Mutant: the indicator goes dark before the capture has ended.
DarkFirst == "off"

LitStill == led

Indicator == LitStill

CancelCapture ==
  /\ at = "cancel"
  /\ pipe' = [pipe EXCEPT ![cur] = Cancelled(@)] /\ Go("join")
  /\ led' = Indicator
  /\ UNCHANGED <<left, run, cur, window, daemon, said, exchange>>

\* Push-to-talk takes the recording; a broken one is raised, the LED dark.
Join ==
  /\ at = "join" /\ ~ Alive(pipe[cur])
  /\ cur' = None
  /\ IF Ptt /\ pipe[cur].queue # <<>>
     THEN /\ window' = [of |-> cur, n |-> Head(pipe[cur].queue)]
          /\ pipe' = [pipe EXCEPT ![cur] = Taken(@)]
     ELSE pipe' = [pipe EXCEPT ![cur] = Drained(@)] /\ UNCHANGED window
  /\ IF Ptt /\ pipe[cur].error
     THEN Raise /\ led' = "off"
     ELSE Go("dark") /\ UNCHANGED <<run, led>>
  /\ UNCHANGED <<left, daemon, said, exchange>>

\* The thread is still there after the time-out: it is given up with an
\* exception.
GiveUp ==
  /\ pipe' = [pipe EXCEPT ![cur] = Late(@)] /\ UNCHANGED cur
  /\ Raise
  /\ led' = IF Ptt THEN "off" ELSE led

JoinTimesOut ==
  /\ at = "join" /\ Alive(pipe[cur]) /\ Spend("faults")
  /\ GiveUp
  /\ UNCHANGED <<window, daemon, said, exchange>>

Darken ==
  /\ at = "dark"
  /\ led' = "off" /\ Go(next)
  /\ UNCHANGED <<left, run, pipe, cur, window, daemon, said, exchange>>

-----------------------------------------------------------------------------
(* Hearing and saying *)

\* One transcription; the recording goes, whatever comes of it.
Hear ==
  /\ at = "hear" /\ window # NoWindow
  /\ \/ /\ UNCHANGED left /\ pipe' = Unlink(window)
        /\ \/ Go(IF setup.mode = "streaming" THEN "light" ELSE Standby)
           \/ setup.mode = "streaming" /\ Go("shorter")     \* it was cut off
        /\ UNCHANGED exchange
     \/ /\ Spend("turns") /\ pipe' = Unlink(window)
        /\ CASE setup.mode = "whisper"   -> at' = "cancel" /\ next' = "cue"
             [] setup.mode = "streaming" -> Go("cue")
             [] Ptt                      -> Go("reply")
        /\ IF Ptt THEN /\ session' = Begin(session) /\ receipt' = NoToken /\ will' = NoWill
                       /\ UNCHANGED <<auth, host>>
                  ELSE UNCHANGED exchange
  /\ window' = NoWindow
  /\ UNCHANGED <<run, cur, led, daemon, said>>

\* submit() without a recording, discard_capture with or without one.
Discard ==
  /\ \/ at = "discard"
     \/ at = "hear" /\ window = NoWindow
  /\ pipe' = Unlink(window) /\ window' = NoWindow /\ Go("ptt")
  /\ UNCHANGED <<left, run, cur, led, daemon, said, exchange>>

\* An announcement has been said to its end.
Say ==
  /\ at = "say"
  /\ heard' = IF notice = NoToken THEN heard ELSE heard \cup {notice}
  /\ Go(IF notice = NoToken THEN "pause" ELSE "ack")
  /\ UNCHANGED <<left, run, capture, daemon, seen, told, notice, acked, exchange>>

Shorter ==
  /\ at = "shorter" /\ Go("light")
  /\ UNCHANGED <<left, run, capture, daemon, said, exchange>>

\* The acknowledgement of token t reaches the daemon, or is lost on the way.
Acknowledge(t) ==
  \/ /\ d' = Acknowledged(d, t) /\ UNCHANGED left
     /\ acked' = IF t \in d.receipts THEN acked \cup {t} ELSE acked
  \/ Spend("faults") /\ UNCHANGED <<d, acked>>

\* Mutant: what was said is not reported back.
Unreported == UNCHANGED <<d, acked, left>>

Reported == Acknowledge(notice)

AckNotice ==
  /\ at = "ack"
  /\ Reported
  /\ notice' = NoToken /\ Go("pause")
  /\ UNCHANGED <<run, capture, issued, hold, events, seen, told, heard, exchange>>

\* stop.wait(0.2)
Pause ==
  /\ at = "pause" /\ ~ stop /\ Go("light")
  /\ UNCHANGED <<left, run, capture, daemon, said, exchange>>

-----------------------------------------------------------------------------
(* The turn *)

\* "Yes?", unless a command came with the wake word; then it begins.
Cue ==
  /\ at = "cue" /\ Go("listen")
  /\ session' = Begin(session) /\ receipt' = NoToken /\ will' = NoWill
  /\ UNCHANGED <<left, run, capture, daemon, said, auth, host>>

Listen ==
  /\ at = "listen" /\ \E place \in {"reply", Rest} : Go(place)
  /\ UNCHANGED <<left, run, capture, daemon, said, exchange>>

\* The user's part: what was asked, and whether a confirmation answers it.
Willed(u) ==
  CASE u.kind = "ask" -> [NoWill EXCEPT !.action = u.action, !.stage = "asked"]
    [] u.kind = "confirm" /\ will.stage = "prompted" /\ will.action = u.action ->
         [will EXCEPT !.stage = "confirmed"]
    [] OTHER -> NoWill

\* The daemon's reading for anyone who asks comes with a token.
Reading == issued' = issued + 1 /\ d' = Receipt(d, issued')

\* Deterministic commands first; the model's answer may fail, and a failure
\* here is none of _deliver_answer's.
Reply ==
  /\ at = "reply"
  /\ \E u \in Utterances :
       /\ u.kind # "silence"
       /\ session' = Handle(session, u) /\ will' = Willed(u)
       /\ \/ /\ at' = "answer" /\ next' = "confirm" /\ UNCHANGED run
             /\ \/ /\ u.kind = "reading" /\ Spend("queries")
                   /\ Reading /\ receipt' = issued'
                \/ receipt' = NoToken /\ UNCHANGED <<left, d, issued>>
          \/ /\ u.kind = "other" /\ Fault /\ Raise
             /\ receipt' = NoToken /\ UNCHANGED <<d, issued>>
  /\ UNCHANGED <<capture, hold, events, said, auth, host>>

Told == [asked |-> "prompted", confirmed |-> "told"]

\* The answer has been said to its end.
Answer ==
  /\ at = "answer" /\ Go("after")
  /\ heard' = IF receipt = NoToken THEN heard ELSE heard \cup {receipt}
  /\ will' = IF will.stage \in DOMAIN Told THEN [will EXCEPT !.stage = Told[@]] ELSE will
  /\ UNCHANGED <<left, run, capture, daemon, seen, told, notice, acked,
                 receipt, session, auth, host>>

\* The first delivery goes on to the confirmation, if one is awaited.
Onwards(s) == IF next = "confirm" /\ s.pending # None THEN "confirm" ELSE Rest

After ==
  /\ at = "after"
  /\ IF receipt = NoToken THEN UNCHANGED <<left, d, acked>> ELSE Acknowledge(receipt)
  /\ receipt' = NoToken
  /\ session' = Consume(session)
  /\ auth' = IF Current(session, session.armed) THEN session.armed ELSE None
  /\ Go(CASE session.armed = None -> Onwards(session)
          [] session.armed # None /\ auth' = None -> "problem"
          [] auth' # None -> IF setup.environment THEN "prepare" ELSE "authorize")
  /\ UNCHANGED <<run, capture, issued, hold, events, seen, told, notice, heard, will, host>>

Problem ==
  /\ at = "problem" /\ Go(Onwards(session))
  /\ UNCHANGED <<left, run, capture, daemon, said, exchange>>

\* Five seconds for the confirmation; anything that is no word about power
\* cancels, silence too.
Confirm ==
  /\ at = "confirm"
  /\ \E u \in Utterances : session' = Handle(session, u) /\ will' = Willed(u)
  /\ at' = "answer" /\ next' = "rest"
  /\ UNCHANGED <<left, run, capture, daemon, said, receipt, auth, host>>

-----------------------------------------------------------------------------
(* execute_confirmed: a hold on the fan, a last look at the clock with an   *)
(* audit record, the host.                                                  *)

\* A hold ends every job of the daemon, with what it still wants said.
TakeHold == ~ hold /\ hold' = TRUE /\ d' = AllFinished(d)

\* A second hold is refused; one whose reply is lost stands without a token.
Prepare ==
  /\ at = "prepare"
  /\ \/ /\ TakeHold /\ Go("authorize") /\ UNCHANGED left
        /\ will' = [will EXCEPT !.stage = "held", !.gen = d.gen]
     \/ /\ Spend("faults") /\ (TakeHold \/ UNCHANGED <<hold, d>>)
        /\ Go("problem") /\ UNCHANGED will
     \/ hold /\ Go("problem") /\ UNCHANGED <<hold, d, will, left>>
  /\ UNCHANGED <<run, capture, issued, events, said, receipt, session, auth, host>>

\* Mutant: the clock is looked at once, before the hold.
ConfirmedOnce == auth # None

StillConfirmed == auth # None /\ auth.live

Authorized == StillConfirmed

\* release_power, if there is a token; the call may fail, the hold then expires.
Released == hold' \in {hold, hold /\ ~ setup.environment}

Authorize ==
  /\ at = "authorize"
  /\ \/ Authorized /\ Go("execute") /\ UNCHANGED <<left, hold, auth>>
     \/ ~ Authorized /\ Released /\ auth' = None /\ Go("problem") /\ UNCHANGED left
     \/ Spend("faults") /\ Released /\ auth' = None /\ Go("problem")      \* no audit
  /\ UNCHANGED <<run, capture, d, issued, events, said, receipt, session, will, host>>

\* logind: accepted; refused; or no answer in time, and it may have accepted.
Execute ==
  /\ at = "execute"
  /\ \/ host' = auth.action /\ Go(Onwards(session)) /\ UNCHANGED <<left, hold>>
     \/ /\ Spend("faults") /\ host' \in {host, auth.action}
        /\ Released /\ Go("problem")
  /\ auth' = None
  /\ UNCHANGED <<run, capture, d, issued, events, said, receipt, session, will>>

-----------------------------------------------------------------------------
(* Push-to-talk: PushToTalk.update on the debounced button *)

Press ==
  /\ at = "ptt" /\ ~ stop /\ ~ button.down
  /\ IF button.inhibited \/ cur # None
     THEN /\ button' = [button EXCEPT !.down = TRUE]
          /\ UNCHANGED <<left, at, next>>
     ELSE /\ Spend("captures")
          /\ button' = [button EXCEPT !.down = TRUE, !.started = TRUE]
          /\ Go("light")
  /\ UNCHANGED <<setup, ready, stop, capture, daemon, said, exchange>>

Release ==
  /\ at = "ptt" /\ ~ stop /\ button.down
  /\ button' = [down |-> FALSE, started |-> FALSE, inhibited |-> FALSE]
  /\ IF button.started THEN at' = "cancel" /\ next' = "hear" ELSE UNCHANGED <<at, next>>
  /\ UNCHANGED <<left, setup, ready, stop, capture, daemon, said, exchange>>

\* max_hold: the recording is given up, the button ignored until it is let go.
\* Mutant: a hold has no end of its own.
Endless == FALSE

Limited == button.started

Overheld == Limited

HeldTooLong ==
  /\ at = "ptt" /\ ~ stop /\ Overheld
  /\ button' = [button EXCEPT !.started = FALSE, !.inhibited = TRUE]
  /\ at' = "cancel" /\ next' = "discard"
  /\ UNCHANGED <<left, setup, ready, stop, capture, daemon, said, exchange>>

-----------------------------------------------------------------------------
(* The capture threads *)

Thread(p, q) == pipe' = [pipe EXCEPT ![p] = q]

Others == UNCHANGED <<at, next, run, cur, window, led, daemon, said, exchange>>

\* A window, an utterance or a recording is complete.
Capture(p) ==
  /\ Recording(pipe[p]) /\ ~ pipe[p].cancel
  /\ IF Ptt THEN UNCHANGED left ELSE Spend("captures")
  /\ Thread(p, Captured(pipe[p])) /\ Others

Interrupt(p) ==
  /\ Recording(pipe[p]) /\ pipe[p].cancel
  /\ \E q \in Interrupted(pipe[p], setup.mode) : Thread(p, q)
  /\ UNCHANGED left /\ Others

Deliver(p) ==
  /\ pipe[p].thread = "captured"
  /\ Thread(p, Delivered(pipe[p], setup.mode)) /\ UNCHANGED left /\ Others

Break(p) ==
  /\ Recording(pipe[p]) /\ Spend("faults")
  /\ Thread(p, Failed(pipe[p], setup.mode)) /\ Others

-----------------------------------------------------------------------------
(* The daemon, the clock and the service manager *)

Outside == UNCHANGED <<at, next, run, capture>>

ReportDue(job) ==
  /\ ~ Outstanding(d, job) /\ Spend("notices")
  /\ issued' = issued + 1 /\ d' = Report(d, issued', job)
  /\ Outside /\ UNCHANGED <<hold, events, said, exchange>>

JobEnds(job) ==
  /\ Outstanding(d, job)
  /\ d' = Finished(d, job)
  /\ Outside /\ UNCHANGED <<left, issued, hold, events, said, exchange>>

\* Another client asks for a reading and never acknowledges it.
Query ==
  /\ Spend("queries") /\ Reading
  /\ Outside /\ UNCHANGED <<hold, events, said, exchange>>

\* _expire_notices: the oldest receipt is over, and its notice with it.
ReceiptExpires ==
  /\ d.receipts # {} /\ Spend("lapses")
  /\ d' = Drop(d, {First(d.receipts)})
  /\ Outside /\ UNCHANGED <<issued, hold, events, said, exchange>>

Transition ==
  /\ Spend("events") /\ events' = events + 1
  /\ Outside /\ UNCHANGED <<d, issued, hold, said, exchange>>

DaemonRestarts ==
  /\ Spend("faults")
  /\ d' = Booted(d.gen + 1) /\ hold' = FALSE /\ events' = 0
  /\ Outside /\ UNCHANGED <<issued, said, exchange>>

\* The hold's 30 seconds outlast the 20 of the confirmation it was taken for.
HoldExpires ==
  /\ hold /\ at \notin {"authorize", "execute"}
  /\ hold' = FALSE
  /\ Outside /\ UNCHANGED <<left, d, issued, events, said, exchange>>

\* The time of a request or of an authorization is over.
Lapse ==
  /\ session.pending # None \/ session.armed # None \/ auth # None
  /\ Spend("lapses")
  /\ session' = Expire(session)
  /\ auth' = IF auth = None THEN None ELSE [auth EXCEPT !.live = FALSE]
  /\ will' = [will EXCEPT !.lapsed = @ \/ at # "execute"]
  /\ Outside /\ UNCHANGED <<daemon, said, receipt, host>>

Stop ==
  /\ ~ stop /\ stop' = TRUE
  /\ UNCHANGED <<left, at, next, setup, ready, button, capture, daemon, said, exchange>>

-----------------------------------------------------------------------------
Advance ==
  \/ Recover \/ StopSeen \/ Finalize \/ FinalJoin \/ Close \/ Open \/ Probe
  \/ Light \/ Start \/ Take \/ CaptureBroken \/ CancelCapture \/ Join \/ Darken
  \/ Hear \/ Discard \/ Say \/ Shorter \/ AckNotice \/ Pause \/ Cue \/ Listen \/ Reply
  \/ Answer \/ After \/ Problem \/ Confirm \/ Prepare \/ Authorize \/ Execute
  \/ HeldTooLong

Main == Advance \/ Announce \/ AnnounceTransition \/ Press \/ Release \/ Fails \/ JoinTimesOut

Record(p) == Capture(p) \/ Interrupt(p) \/ Deliver(p) \/ Break(p)

Environment ==
  \/ \E job \in Jobs : ReportDue(job) \/ JobEnds(job)
  \/ Query \/ ReceiptExpires \/ Transition \/ DaemonRestarts \/ HoldExpires \/ Lapse \/ Stop

Next == Main \/ (\E p \in Pipes : Record(p)) \/ Environment

Spec == Init /\ [][Next]_vars

(* The main thread goes on wherever it can, a hold ends at max_hold, a      *)
(* cancelled recorder is interrupted and reaped, and the notices are polled *)
(* again and again (each second).                                           *)
FairSpec ==
  /\ Spec
  /\ WF_vars(Advance) /\ SF_vars(Announce)
  /\ \A p \in Pipes : WF_vars(Interrupt(p) \/ Deliver(p))

-----------------------------------------------------------------------------
(* Properties *)

(* Whoever is recorded by the standby capture or by a held button can see   *)
(* it, for the indicator is lit before the recorder starts and goes dark    *)
(* after it has ended; and the assistant never hears itself, for nobody     *)
(* records while the speaker is in use.  Only a thread whose stop timed out, *)
(* and was reported, records in the dark or into the speech.                *)
MonitoredCapture ==
  \A p \in Pipes : Recording(pipe[p]) /\ ~ pipe[p].late =>
    led = "on" /\ at \notin Speaking

(* A recording of standby or of the held button is on disk only while its   *)
(* thread, its queue or the main thread holds it: between exchanges none of *)
(* them is left over, however the exchange ended.  (A thread given up may   *)
(* leave its own.)                                                          *)
InHand(p) ==
  (IF window.of = p THEN {window.n} ELSE {})
  \cup (IF p # cur THEN {} ELSE
        ToSet(pipe[p].queue) \cup (IF pipe[p].thread = "captured" THEN {pipe[p].made + 1} ELSE {}))

NoOrphanFiles == \A p \in Pipes : ~ pipe[p].late => pipe[p].files \subseteq InHand(p)

(* Only what was said to its end is acknowledged, a reading that was asked  *)
(* for as well as a notice: a failed or interrupted speech reports nothing. *)
(* A notice waits only as long as it can still be acknowledged, and a       *)
(* transition is taken for saying at most once while the daemon runs, even  *)
(* when the speech fails or the loop starts over.                           *)
HeardOnce ==
  /\ acked \subseteq heard /\ IsInjective(told)
  /\ d.notices \subseteq d.receipts

(* The host is told to restart or power off only what the user asked for in *)
(* this interaction and confirmed, in the matching words, after the         *)
(* question was spoken to its end; the acknowledgement was spoken too, the  *)
(* fan is held off unless the daemon has restarted since it promised so,    *)
(* and nothing had lapsed when the audit record was made.                   *)
PowerAuthorized ==
  [][host' # host =>
       /\ will.action = host' /\ ~ will.lapsed
       /\ will.stage = (IF setup.environment THEN "held" ELSE "told")
       /\ setup.environment => hold \/ will.gen # d.gen]_vars

(* A stop request always ends the appliance, dark and not ready.            *)
Stops == stop ~> (at = "stopped" /\ led = "closed" /\ ~ ready)

(* Whatever fails, the appliance is listening again sooner or later.        *)
Listens == at = "recover" ~> (ready /\ at = Standby /\ cur # None) \/ stop \/ Ptt

(* A waiting notice is said and acknowledged, or dropped.                   *)
NoticeSettled ==
  \A t \in Tokens : t \in d.notices /\ ~ Ptt ~> t \notin d.notices \/ stop

(* The recording light of push-to-talk goes out again, whatever the user    *)
(* does with the button and whatever fails.                                 *)
DarkAgain == Ptt /\ led = "on" ~> led # "on"
=============================================================================
