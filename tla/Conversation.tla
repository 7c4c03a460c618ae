---------------------------- MODULE Conversation ----------------------------
(***************************************************************************)
(* A question from the first word to the answer: the wake windows and the  *)
(* follow-up capture that put it together, the deterministic grammar, the  *)
(* reply thread with its requests to the local model server, the tool      *)
(* calls the model proposes, and the daemon that carries them out          *)
(* (voice_runtime.py, operational.py, tool_broker.py, llm/ollama.py).  A   *)
(* reply thread the main thread has given up goes on by itself.            *)
(***************************************************************************)
EXTENDS Grammar, WakeWords, SequencesExt

CONSTANTS
  None, Main,  \* no thread; the appliance's main thread
  Workers,     \* reply threads that may exist at once, given-up ones included
  Utterances,  \* for each turn, what may be said: [lead, wake, sentence]
  WindowWords, \* how many words a wake window may hold of running speech
  Proposals,   \* the tool calls the model may answer with; <<>> for a text
  MaxFaults

Powers == {"on", "off"}

(* What a call asks for: a power of the fan, something to read, or a tool   *)
(* or an argument there is not.                                             *)
Tools == Powers \cup {"read", "unknown"}

ASSUME WorkersAssumption == Main \notin Workers /\ None \notin Workers \cup {Main}
ASSUME ProposalsAssumption == Proposals \subseteq Seq(Tools)

Threads == Workers \cup {Main}

VARIABLES
  turn, spoken,     \* the turn; what its user says
  rest, tail,       \* words not recorded yet; the matcher's tail
  initial,          \* what followed the wake phrase in its window
  heard,            \* "no", "whole", "cut" or "partly": how much was understood
  question,         \* what is taken for the question
  at, worker,       \* the main thread; the reply thread it waits for
  th,               \* the threads that reply: place; what the question means to
                    \* the grammar and allows the model; calls left; claims
  client,           \* the request under way (OllamaClient)
  stop, closed,
  changed,          \* what the daemon was made to change, for which question
  answers,          \* what the answers claim, each of its question
  faults            \* a bound of the model

speech == <<turn, spoken, rest, tail, initial, heard, question>>
main == <<at, worker, answers>>
vars == <<speech, main, th, client, stop, closed, changed, faults>>

NoThread == [at |-> "idle", turn |-> 0, meaning |-> Nothing, allows |-> {}, calls |-> <<>>,
             claims |-> {}]
NoRequest == [by |-> None, at |-> "none", open |-> FALSE, cut |-> FALSE,
              watched |-> FALSE, expired |-> FALSE]
Silence == [lead |-> <<>>, wake |-> <<>>, sentence |-> <<>>]

Whole(u) == u.lead \o u.wake \o u.sentence

Init ==
  /\ turn = 0 /\ spoken = Silence /\ rest = <<>> /\ tail = <<>> /\ initial = <<>>
  /\ heard = "whole" /\ question = <<>>
  /\ at = "standby" /\ worker = None /\ answers = {}
  /\ th = [x \in Threads |-> NoThread] /\ client = NoRequest
  /\ stop = FALSE /\ closed = FALSE /\ changed = <<>> /\ faults = 0

Fault == faults < MaxFaults /\ faults' = faults + 1

-----------------------------------------------------------------------------
(* Hearing *)

Speak ==
  /\ at = "standby" /\ rest = <<>> /\ turn < Len(Utterances)
  /\ \E u \in Utterances[turn + 1] :
       spoken' = u /\ rest' = Whole(u)
  /\ turn' = turn + 1 /\ heard' = "no"
  /\ UNCHANGED <<tail, initial, question, main, th, client, stop, closed, changed, faults>>

(* One wake window, matched with the tail of the one before.                *)
Window ==
  /\ at = "standby" /\ ~ stop
  /\ \E k \in WindowWords :
       LET words == SubSeq(rest, 1, Min({k, Len(rest)}))
       IN /\ rest # <<>>
          /\ rest' = SubSeq(rest, Len(words) + 1, Len(rest))
          /\ IF Matched(tail \o words)
             THEN initial' = Remainder(tail \o words) /\ tail' = <<>> /\ at' = "follow"
             ELSE tail' = Carried(words) /\ UNCHANGED <<initial, at>>
  /\ UNCHANGED <<turn, spoken, heard, question, worker, answers, th, client, stop,
                 closed, changed, faults>>

(* The two recordings put together, a repeated overlap once.                *)
Merged(left, right) ==
  LET overlaps == {n \in 1..Len(left) : n <= Len(right) /\ LastWords(left, n) = SubSeq(right, 1, n)}
  IN IF IsPrefix(left, right) THEN right
     ELSE left \o SubSeq(right, 1 + (IF overlaps = {} THEN 0 ELSE Max(overlaps)), Len(right))

(* Mutant: a command that sounds complete is one.                           *)
Taken(first, following) == Merged(first, following)

TakenWhole(first, following) ==
  IF following = <<>> /\ first # <<>> /\ CompleteInline(first)
  THEN <<>> ELSE Merged(first, following)

Question(first, following) == TakenWhole(first, following)

(* _question_after_wake: a window that ends in silence (900 ms, and nobody  *)
(* pauses as long within a sentence here) holds the whole command; else a   *)
(* second recording, from wherever the speaker has got to when it starts.   *)
FollowUp ==
  /\ at = "follow"
  /\ \/ rest = <<>> /\ initial # <<>> /\ question' = initial /\ heard' = "whole"
     \/ \E missed \in 0..Len(rest) :
          /\ question' = Question(initial, SubSeq(rest, missed + 1, Len(rest)))
          /\ heard' = IF missed = 0 THEN "whole" ELSE IF missed = Len(rest) THEN "cut" ELSE "partly"
  /\ rest' = <<>>
  /\ at' = IF question' = <<>> THEN "standby" ELSE "ask"
  /\ initial' = <<>>
  /\ UNCHANGED <<turn, spoken, tail, worker, answers, th, client, stop, closed, changed, faults>>

-----------------------------------------------------------------------------
(* The main thread *)

Asked == [NoThread EXCEPT !.at = "handle", !.turn = turn, !.meaning = Meaning(question),
                          !.allows = {p \in Powers : Authorizes(question, p)}]

Free(w) == th[w].at = "idle"

(* A deterministic command is answered by the main thread itself, anything  *)
(* else by a reply thread.                                                  *)
Ask ==
  /\ at = "ask"
  /\ IF IsFast(question)
     THEN th' = [th EXCEPT ![Main] = Asked] /\ worker' = Main /\ UNCHANGED <<spoken, heard>>
     ELSE /\ \E w \in Workers : Free(w)
          /\ worker' = CHOOSE w \in Workers : Free(w)
          /\ th' = [th EXCEPT ![worker'] = Asked]
          /\ spoken' = Silence /\ heard' = "whole"
  /\ at' = "await" /\ question' = <<>>
  /\ UNCHANGED <<turn, rest, tail, initial, answers, client, stop, closed, changed, faults>>

Ended(x) == th[x].at \in {"finished", "raised"}

Collect ==
  /\ at = "await" /\ Ended(worker)
  /\ th' = [th EXCEPT ![worker] = NoThread] /\ worker' = None
  /\ IF th[worker].at = "finished"
     THEN at' = "deliver" /\ answers' = answers \cup {<<turn, th[worker].claims>>}
     ELSE at' = "failed" /\ UNCHANGED answers
  /\ UNCHANGED <<speech, client, stop, closed, changed, faults>>

(* A progress cue that cannot be spoken, or the stop: the reply thread is   *)
(* left to itself.                                                          *)
Abandon ==
  /\ at = "await" /\ worker # Main
  /\ (stop /\ ~ Ended(worker) /\ UNCHANGED faults) \/ Fault
  /\ at' = "failed" /\ worker' = None
  /\ UNCHANGED <<speech, answers, th, client, stop, closed, changed>>

Deliver ==
  /\ at = "deliver"
  /\ \/ at' = "standby" /\ UNCHANGED faults
     \/ at' = "failed" /\ (Fault \/ (stop /\ UNCHANGED faults))
  /\ spoken' = Silence /\ heard' = "whole"
  /\ UNCHANGED <<turn, rest, tail, initial, question, worker, answers, th, client, stop, closed,
                 changed>>

(* wait_until_ready asks the model server who it is and for one word.       *)
Recover ==
  /\ at = "failed"
  /\ IF stop THEN at' = "closing" /\ UNCHANGED <<th, worker>>
             ELSE /\ at' = "probing" /\ worker' = Main
                  /\ th' = [th EXCEPT ![Main] = [NoThread EXCEPT !.at = "identity"]]
  /\ spoken' = Silence /\ heard' = "whole"
  /\ UNCHANGED <<turn, rest, tail, initial, question, answers, client, stop, closed, changed,
                 faults>>

Probed ==
  /\ at = "probing" /\ Ended(Main)
  /\ at' = IF th[Main].at = "finished" THEN "standby" ELSE "failed"
  /\ th' = [th EXCEPT ![Main] = NoThread] /\ worker' = None
  /\ UNCHANGED <<speech, answers, client, stop, closed, changed, faults>>

StopSeen ==
  /\ at = "standby" /\ stop /\ at' = "closing"
  /\ UNCHANGED <<speech, worker, answers, th, client, stop, closed, changed, faults>>

(* OllamaClient.close: whatever is under way loses its connection.          *)
Close ==
  /\ at = "closing" /\ at' = "stopped" /\ closed' = TRUE
  /\ client' = [client EXCEPT !.cut = client.open]
  /\ UNCHANGED <<speech, worker, answers, th, stop, changed, faults>>

Stop ==
  /\ ~ stop /\ stop' = TRUE
  /\ UNCHANGED <<speech, main, th, client, closed, changed, faults>>

-----------------------------------------------------------------------------
(* A thread that replies *)

Move(x, place) == th' = [th EXCEPT ![x].at = place]

(* A change of the daemon for a question: as it was asked for, saved or not, *)
(* or by halves: timers dropped, the mode changed, the line made safe.      *)
Made(x, intent, whole) ==
  changed' = Append(changed, [turn |-> th[x].turn, intent |-> intent, whole |-> whole])

(* What the answer will say of it: a result, a rejection, "cannot verify".  *)
Claim(x, verdict, intent, place) ==
  th' = [th EXCEPT ![x].at = place, ![x].claims = @ \cup {<<verdict, intent>>},
                   ![x].calls = IF @ = <<>> THEN @ ELSE Tail(@)]

Timer(intent) == intent[1] \in {"automation.add", "automation.cancel"}

(* A new timer is in memory only, without the line or the file.             *)
ByHalves(intent) == intent[1] # "automation.add"

(* What is said of a change in which something failed.  "failed": the write *)
(* or the save did, and the words are those of a rejection, "so I did not   *)
(* change room-fan power" or "rejected with code ...".  "unverified": there *)
(* is no answer, or none that can be read.                                  *)
Admitted(intent) == {"unverified"} \cup (IF ByHalves(intent) THEN {"failed"} ELSE {})

(* Mutant: a write or a save that failed is not noticed.                    *)
Swallowed(intent) == Admitted(intent) \cup {"done"}

Doubts(intent) == Admitted(intent)

(* A change asked of the daemon: done; refused before anything is touched;  *)
(* or failed: then nothing, all of it or a part is done.  (One the daemon   *)
(* comes to after the time-out is taken as done at it.)  An answer that     *)
(* cannot be read is caught for the timers only.                            *)
Request(x, intent, place) ==
  \/ Made(x, intent, TRUE) /\ Claim(x, "done", intent, place) /\ UNCHANGED faults
  \/ Claim(x, "refused", intent, place) /\ UNCHANGED <<changed, faults>>
  \/ /\ Fault
     /\ \/ UNCHANGED changed
        \/ \E whole \in BOOLEAN : (whole \/ ByHalves(intent)) /\ Made(x, intent, whole)
     /\ \/ \E verdict \in Doubts(intent) : Claim(x, verdict, intent, place)
        \/ ~ Timer(intent) /\ Move(x, "raised")

Reads(intent) == intent # Nothing /\ intent[1] \in {"sensor.read", "status.get", "policy.get"}

(* OperationalCommands.handle, then the model.                              *)
Handle(x) ==
  /\ th[x].at = "handle"
  /\ IF Mutates(th[x].meaning) THEN Request(x, th[x].meaning, "finished")
     ELSE /\ \/ /\ Move(x, IF th[x].meaning = Nothing THEN "identity" ELSE "finished")
                /\ UNCHANGED faults
             \/ Reads(th[x].meaning) /\ Fault /\ Move(x, "raised")
          /\ UNCHANGED changed
  /\ UNCHANGED <<speech, main, client, stop, closed>>

Requests == {"identity", "chat", "plain", "warm"}

(* One request at a time; a second one is refused, none starts after stop.  *)
Acquire(x) ==
  /\ th[x].at \in Requests /\ client.by # x
  /\ IF client.by # None \/ closed \/ stop
     THEN Move(x, "raised") /\ UNCHANGED client
     ELSE /\ client' = [NoRequest EXCEPT !.by = x, !.at = "connect", !.watched = TRUE]
          /\ UNCHANGED th
  /\ UNCHANGED <<speech, main, stop, closed, changed, faults>>

Connect(x) ==
  /\ client.by = x /\ client.at = "connect"
  /\ client' = [client EXCEPT !.at = "check", !.open = TRUE]
  /\ UNCHANGED <<speech, main, th, stop, closed, changed, faults>>

(* Mutant: the watcher is trusted to end the request.                       *)
Unchecked == FALSE

Overtaken == stop \/ closed \/ client.expired

GivenUp == Overtaken

(* The watcher may have looked for a connection before there was one.       *)
Check(x) ==
  /\ client.by = x /\ client.at = "check"
  /\ IF GivenUp THEN client' = NoRequest /\ Move(x, "raised")
                ELSE client' = [client EXCEPT !.at = "wait"] /\ UNCHANGED th
  /\ UNCHANGED <<speech, main, stop, closed, changed, faults>>

(* Where a thread goes with the answer of the server; a model qualified for *)
(* tools is offered them, the legacy one answers in words.                  *)
Replied(x) ==
  CASE th[x].at = "identity" ->
         \E place \in IF x = Main THEN {"warm"} ELSE {"chat", "plain"} : Move(x, place)
    [] th[x].at = "chat" ->
         \E calls \in Proposals :
           th' = [th EXCEPT ![x].at = IF calls = <<>> THEN "finished" ELSE "tools", ![x].calls = calls]
    [] th[x].at \in {"plain", "warm"} -> Move(x, "finished")

Receive(x) ==
  /\ client.by = x /\ client.at = "wait" /\ ~ client.cut
  /\ \/ ~ (stop \/ client.expired) /\ Replied(x) /\ UNCHANGED faults
     \/ (stop \/ client.expired) /\ Move(x, "raised") /\ UNCHANGED faults
     \/ Fault /\ Move(x, "raised")          \* an error, or not the model wanted
  /\ client' = NoRequest
  /\ UNCHANGED <<speech, main, stop, closed, changed>>

Broken(x) ==
  /\ client.by = x /\ client.at = "wait" /\ client.cut
  /\ client' = NoRequest /\ Move(x, "raised")
  /\ UNCHANGED <<speech, main, stop, closed, changed, faults>>

(* The watcher of the request: its deadline, then the connection.           *)
Expire ==
  /\ client.watched /\ ~ client.expired
  /\ client' = [client EXCEPT !.expired = TRUE]
  /\ UNCHANGED <<speech, main, th, stop, closed, changed, faults>>

CutOff ==
  /\ client.watched /\ Overtaken
  /\ client' = [client EXCEPT !.watched = FALSE, !.cut = client.open \/ @]
  /\ UNCHANGED <<speech, main, th, stop, closed, changed, faults>>

-----------------------------------------------------------------------------
(* The tool calls of one answer, as one transaction: ToolBroker *)

Sets(call) == call \in Powers

(* Mutant: each call is looked at when its turn comes.                      *)
InTurn(calls) == Len(calls) <= 2

AsOne(calls) ==
  /\ Len(calls) <= 2 /\ \A i \in DOMAIN calls : calls[i] # "unknown"
  /\ \A i, j \in DOMAIN calls : Sets(calls[i]) /\ Sets(calls[j]) => i = j

Admissible(calls) == AsOne(calls)

(* "I did not perform that operation ..."                                   *)
Refuse(x) == th' = [th EXCEPT ![x].at = "finished", ![x].claims = {}, ![x].calls = <<>>]

(* execute_calls: all are parsed before the first is executed.              *)
Parse(x) ==
  /\ th[x].at = "tools"
  /\ IF Admissible(th[x].calls) THEN Move(x, "execute") ELSE Refuse(x)
  /\ UNCHANGED <<speech, main, client, stop, closed, changed, faults>>

(* Something is read; an answer that cannot be read is not caught.          *)
Look(x) ==
  \/ th' = [th EXCEPT ![x].calls = Tail(@)] /\ UNCHANGED faults
  \/ Fault /\ Move(x, "raised")

Execute(x) ==
  /\ th[x].at = "execute"
  /\ LET calls == th[x].calls
         call == Head(calls)
     IN \/ calls = <<>> /\ Move(x, "finished") /\ UNCHANGED <<changed, faults>>
        \/ /\ calls # <<>> /\ Sets(call) /\ call \in th[x].allows
           /\ Request(x, <<"fan.set", call>>, "execute")
        \/ /\ calls # <<>>
           /\ call = "unknown" \/ (Sets(call) /\ call \notin th[x].allows)
           /\ Refuse(x) /\ UNCHANGED <<changed, faults>>
        \/ calls # <<>> /\ call = "read" /\ Look(x) /\ UNCHANGED changed
  /\ UNCHANGED <<speech, main, client, stop, closed>>

(* A thread nobody waits for ends.                                          *)
Vanish(x) ==
  /\ x # worker /\ Ended(x)
  /\ th' = [th EXCEPT ![x] = NoThread]
  /\ UNCHANGED <<speech, main, client, stop, closed, changed, faults>>

-----------------------------------------------------------------------------
Hear == Window \/ FollowUp \/ Ask

Serve == Collect \/ Deliver \/ Recover \/ Probed \/ StopSeen \/ Close

Work(x) ==
  \/ Handle(x) \/ Acquire(x) \/ Connect(x) \/ Check(x) \/ Broken(x) \/ Parse(x) \/ Execute(x)
  \/ Vanish(x)

Next ==
  \/ Hear \/ Serve \/ Abandon \/ Speak \/ Stop \/ Expire \/ CutOff
  \/ \E x \in Threads : Work(x) \/ Receive(x)

Spec == Init /\ [][Next]_vars

(* The threads go on, time passes and the watcher looks; the user need not  *)
(* speak and the model server need not answer.                              *)
FairSpec ==
  /\ Spec /\ WF_vars(Serve) /\ WF_vars(Expire) /\ WF_vars(CutOff)
  /\ \A x \in Threads : WF_vars(Work(x))

-----------------------------------------------------------------------------
(* Properties *)

ChangesOf(n) == {i \in DOMAIN changed : changed[i].turn = n}

(* What may be said of it: of half a change not that it is done.            *)
Tells(change) == {"failed", "unverified"} \cup (IF change.whole THEN {"done"} ELSE {})

Truthful(n, claims) ==
  /\ \A i \in ChangesOf(n) : \E word \in Tells(changed[i]) : <<word, changed[i].intent>> \in claims
  /\ \A c \in claims :
       c[1] = "done" => \E i \in ChangesOf(n) : changed[i].whole /\ changed[i].intent = c[2]
  /\ (\E c \in claims : c[1] = "refused") => ChangesOf(n) = {}

(* No question changes two things, nor one twice.                           *)
OneEffect == \A i, j \in DOMAIN changed : changed[i].turn = changed[j].turn => i = j

(* An answer is true of what is done for its question, then and ever after: *)
(* what it reports as done was done wholly, what it refuses nothing was     *)
(* done of, and of everything done it says so, or that it failed or cannot  *)
(* be verified.  So "I did not perform that operation" means that no part   *)
(* of it was, though the model proposed several calls at once.  And no      *)
(* question has two effects, be it a given-up thread that brings about the  *)
(* one it has while a later question is asked.  The exception is in the     *)
(* words for "failed": they deny what may have been done before the save or *)
(* the write failed (service.py:301-305, 847-872; responses.py:88-96).      *)
SaidIsDone == OneEffect /\ \A a \in answers : Truthful(a[1], a[2])

(* However the windows cut it, and if nothing of the rest is recorded: what *)
(* the deterministic grammar does is what the whole sentence means, or      *)
(* nothing.  A delay is not dropped because the window ended before it      *)
(* (voice_runtime.py:1517).  A second recording that has lost its front     *)
(* only, "partly", is the exception: it may drop "in" and keep "2 minutes". *)
WholeOrNothing ==
  at = "await" /\ worker = Main /\ heard \in {"whole", "cut"} =>
    LET meant == th[Main].meaning
    IN Mutates(meant) => meant = Meaning(spoken.sentence)

(* The wake phrase is noticed wherever the windows cut it.                  *)
SplitWakeHeard ==
  heard = "no" /\ at = "standby" => Len(rest) > Len(spoken.sentence) \/ ~ Matched(spoken.wake)

(* Whatever the model server does, the main thread stops waiting for a      *)
(* reply, and no thread keeps the one connection for ever, be it one that   *)
(* was given up.                                                            *)
QuestionsEnd ==
  /\ (at = "await") ~> (at # "await")
  /\ \A x \in Threads : (client.by = x) ~> (client.by # x)

-----------------------------------------------------------------------------
(* What the theorems take of the users: MCConversation evaluates it.        *)

Sayings == UNION {Utterances[n] : n \in DOMAIN Utterances}

Speech(Words) == [lead : Seq(Words), wake : Seq(Words), sentence : Seq(Words)]

(* Phrase and utterances are made of words.                                 *)
Said(Words) ==
  /\ Phrase \in Seq(Words) /\ Utterances \in Seq(SUBSET Speech(Words))
  /\ WindowWords \subseteq Nat

(* A phrase of at most one word more than the tail, and than any window of  *)
(* running speech, can be cut but not skipped.                              *)
Catchable(wake) ==
  Len(wake) <= MaxTailWords + 1 /\ \A k \in WindowWords : Len(wake) <= k + 1

WakeFits == \A u \in Sayings : Catchable(u.wake)

(* What the matcher may carry when c words of s are recorded: the last of   *)
(* them; before the first, the last of what was said in vain before.        *)
Ends(s) == {LastWords(s, n) : n \in 0..MaxTailWords}

Before(s, c) ==
  IF c = 0 THEN {<<>>} \cup UNION {Ends(Whole(u)) : u \in Sayings} ELSE Ends(SubSeq(s, 1, c))

(* _question_after_wake, of what is recorded whole or lost from there on.   *)
Questions(first, following) ==
  {TakenWhole(first, following), TakenWhole(first, <<>>)}
    \cup (IF following = <<>> THEN {first} ELSE {})

Faithful(intent, u) == Mutates(intent) => intent = Meaning(u.sentence)

(* A sentence heard in a window from its word c + 1 to its word b, with the *)
(* rest of it or nothing behind, is understood as it was meant or not as a  *)
(* command: what the grammar owes, and no more than it owes.                *)
CutAt(u, c, b) ==
  LET s == Whole(u)
      following == SubSeq(s, b + 1, Len(s))
  IN \A t \in Before(s, c) :
       LET window == t \o SubSeq(s, c + 1, b)
       IN Matched(window) =>
            \A q \in Questions(Remainder(window), following) : Faithful(Meaning(q), u)

Unmistakable ==
  \A u \in Sayings : \A c \in 0..Len(Whole(u)) : \A b \in c..Len(Whole(u)) : CutAt(u, c, b)
=============================================================================
