------------------------ MODULE Conversation_proofs -------------------------
(***************************************************************************)
(* What the assistant says it did is what the daemon was made to do, and a *)
(* question has one effect at most: for any number of reply threads,       *)
(* given-up ones among them, any utterances, proposals of tool calls and   *)
(* failures, half-done changes among them.  And for any words and windows, *)
(* a wake phrase is heard wherever it is cut and a command carried out     *)
(* whole or not at all.                                                    *)
(***************************************************************************)
EXTENDS Conversation, TLAPS

Fields == {"at", "turn", "meaning", "allows", "calls", "claims"}

Record(t) == DOMAIN t = Fields /\ t.turn \in Nat /\ t.calls \in Seq(Tools)

Logged(s) ==
  /\ s \in Seq({s[i] : i \in DOMAIN s})
  /\ \A i \in DOMAIN s : s[i].turn \in Nat

(* ChangesOf, OneEffect and Truthful, of any log of changes.                *)
Done(log, n) == {i \in DOMAIN log : log[i].turn = n}

Single(log) == \A i, j \in DOMAIN log : log[i].turn = log[j].turn => i = j

True(log, n, claims) ==
  /\ \A i \in Done(log, n) : \E word \in Tells(log[i]) : <<word, log[i].intent>> \in claims
  /\ \A c \in claims :
       c[1] = "done" => \E i \in Done(log, n) : log[i].whole /\ log[i].intent = c[2]
  /\ (\E c \in claims : c[1] = "refused") => Done(log, n) = {}

(* Who has the connection is waiting for the model server.                  *)
Connected ==
  /\ DOMAIN client = DOMAIN NoRequest
  /\ client.by \in Threads \cup {None}
  /\ client.by # None => th[client.by].at \in Requests

Shapes ==
  /\ turn \in Nat /\ Logged(changed) /\ Connected
  /\ DOMAIN th = Threads /\ \A x \in Threads : Record(th[x])

(* Nobody is ahead of the user.                                             *)
Past ==
  /\ \A x \in Threads : th[x].turn <= turn
  /\ \A i \in DOMAIN changed : changed[i].turn <= turn

(* The main thread replies itself only while it waits for itself.           *)
MainPlaces ==
  /\ th[Main].at # "idle" => worker = Main /\ at \in {"await", "probing"}
  /\ at = "probing" => worker = Main
  /\ at \in {"ask", "await", "deliver", "failed", "probing"} => rest = <<>>

(* A question is in the hands of one thread, given up or not.               *)
Distinct ==
  \A x, y \in Threads : x # y /\ th[x].turn = th[y].turn => th[x].turn = 0

(* A probe of the model server asks for nothing else.                       *)
Harmless(x, t) ==
  t.turn = 0 =>
    t.at \in {"idle", "finished", "raised"} \/ (x = Main /\ t.at \in {"identity", "warm"})

Probes == \A x \in Threads : Harmless(x, th[x])

(* What a reply has come to: nothing is done before the one call that sets  *)
(* something.                                                               *)
Unanswered == {"handle", "identity", "chat", "plain", "warm", "tools"}

Progress(log, t) ==
  t.turn # 0 =>
    /\ t.at \in Unanswered => Done(log, t.turn) = {} /\ t.claims = {}
    /\ t.at = "execute" =>
         /\ AsOne(t.calls) /\ True(log, t.turn, t.claims)
         /\ (\E i \in DOMAIN t.calls : Sets(t.calls[i])) =>
              Done(log, t.turn) = {} /\ t.claims = {}
    /\ t.at = "finished" => True(log, t.turn, t.claims)

Working == \A x \in Threads : Progress(changed, th[x])

(* An answer is true, and nobody is left to belie it.                       *)
Given ==
  \A a \in answers :
    /\ a[1] \in Nat \ {0} /\ a[1] <= turn /\ True(changed, a[1], a[2])
    /\ \A x \in Threads : th[x].turn # a[1]

Nobody == \A x \in Threads : th[x].turn # turn

(* Before the question of this turn is asked nothing has been done for it.  *)
Unasked ==
  at \in {"follow", "ask"} \/ (at = "standby" /\ rest # <<>>) =>
    /\ turn # 0 /\ Nobody /\ Done(changed, turn) = {}
    /\ \A a \in answers : a[1] # turn

Answering == at = "await" => turn # 0 /\ worker \in Threads /\ th[worker].turn = turn

(* What is left alone by a step that touches no thread.                     *)
Replies == Shapes /\ Past /\ Distinct /\ Probes /\ Single(changed) /\ Working

Inv == Replies /\ Given /\ MainPlaces /\ Unasked /\ Answering
-----------------------------------------------------------------------------
(* The log of changes *)

Grows(log, next, n, i, w) == next = Append(log, [turn |-> n, intent |-> i, whole |-> w])

LEMMA Appended ==
  ASSUME NEW log, Logged(log), NEW n \in Nat, NEW i, NEW w, NEW next,
         next = Append(log, [turn |-> n, intent |-> i, whole |-> w])
  PROVE  /\ Logged(next)
         /\ DOMAIN next = DOMAIN log \cup {Len(log) + 1}
         /\ Len(log) + 1 \notin DOMAIN log
         /\ \A k \in DOMAIN log : next[k] = log[k]
         /\ next[Len(log) + 1].turn = n /\ next[Len(log) + 1].intent = i
         /\ next[Len(log) + 1].whole = w
<1> DEFINE e == [turn |-> n, intent |-> i, whole |-> w]
           S == {log[k] : k \in DOMAIN log} \cup {e}
           T == {next[k] : k \in DOMAIN next}
<1>1. log \in Seq(S) /\ e \in S
  <2>1. DOMAIN log = 1..Len(log) /\ Len(log) \in Nat
    BY DEF Logged
  <2>2. log = [k \in 1..Len(log) |-> log[k]]
    BY <2>1 DEF Logged
  <2> QED
    BY <2>1, <2>2
<1>2. e.turn = n /\ e.intent = i /\ e.whole = w
  OBVIOUS
<1> HIDE DEF S, e
<1>3. next = Append(log, e)
  BY DEF e
<1>4. /\ next \in Seq(S) /\ Len(next) = Len(log) + 1
      /\ DOMAIN log = 1..Len(log) /\ DOMAIN next = 1..(Len(log) + 1)
      /\ Len(log) \in Nat
      /\ \A k \in 1..Len(log) : next[k] = log[k]
      /\ next[Len(log) + 1] = e
  BY <1>1, <1>3
<1>5. next \in Seq(T)
  <2>1. next = [k \in 1..(Len(log) + 1) |-> next[k]]
    BY <1>4
  <2> QED
    BY <1>4, <2>1
<1>6. \A k \in DOMAIN next : next[k].turn \in Nat
  BY <1>2, <1>4 DEF Logged
<1> QED
  BY <1>2, <1>4, <1>5, <1>6 DEF Logged, T

(* A change for one question says nothing of another.                       *)
LEMMA MadeElsewhere ==
  ASSUME NEW log, Logged(log), NEW n \in Nat, NEW i, NEW w, NEW next,
         Grows(log, next, n, i, w),
         NEW m, m # n, NEW claims
  PROVE  Done(next, m) = Done(log, m) /\ (True(log, m, claims) => True(next, m, claims))
<1>1. Done(next, m) = Done(log, m)
  BY Appended DEF Done, Grows
<1>2. \A k \in Done(log, m) : next[k] = log[k]
  BY Appended DEF Done, Grows
<1> QED
  BY <1>1, <1>2 DEF True

(* The first change for a question.                                         *)
LEMMA MadeFirst ==
  ASSUME NEW log, Logged(log), NEW n \in Nat, NEW i, NEW w, NEW next,
         Grows(log, next, n, i, w),
         Done(log, n) = {}, Single(log)
  PROVE  /\ Single(next) /\ Done(next, n) = {Len(log) + 1}
         /\ next[Len(log) + 1].intent = i /\ next[Len(log) + 1].whole = w
<1>1. next[Len(log) + 1].turn = n
  BY Appended DEF Grows
<1>2. next[Len(log) + 1].intent = i /\ next[Len(log) + 1].whole = w
  BY Appended DEF Grows
<1>3. Done(next, n) = {Len(log) + 1}
  BY <1>1, Appended DEF Done, Grows
<1>4. ASSUME NEW j \in DOMAIN next, NEW k \in DOMAIN next, next[j].turn = next[k].turn
      PROVE  j = k
  <2>1. CASE j = Len(log) + 1 \/ k = Len(log) + 1
    <3>1. j \in Done(next, n) /\ k \in Done(next, n)
      BY <1>1, <1>4, <2>1 DEF Done
    <3> QED
      BY <1>3, <3>1
  <2>2. CASE j # Len(log) + 1 /\ k # Len(log) + 1
    <3>1. j \in DOMAIN log /\ k \in DOMAIN log /\ next[j] = log[j] /\ next[k] = log[k]
      BY <2>2, Appended DEF Grows
    <3> QED
      BY <1>4, <3>1 DEF Single
  <2> QED
    BY <2>1, <2>2
<1> QED
  BY <1>2, <1>3, <1>4 DEF Single

Verdicts == {"done", "refused", "failed", "unverified"}

(* One claim, of the one change there may be.                               *)
LEMMA OneClaim ==
  ASSUME NEW log, NEW n, NEW intent, NEW verdict \in Verdicts,
         \A k \in Done(log, n) : log[k].intent = intent,
         verdict = "done" => Done(log, n) # {} /\ \A k \in Done(log, n) : log[k].whole,
         verdict = "refused" => Done(log, n) = {}
  PROVE  True(log, n, {<<verdict, intent>>})
<1> DEFINE claim == <<verdict, intent>>
<1>1. claim[1] = verdict /\ claim[2] = intent
  OBVIOUS
<1>2. ASSUME NEW k \in Done(log, n)
      PROVE  \E word \in Tells(log[k]) : <<word, log[k].intent>> \in {claim}
  <2>1. verdict \in Tells(log[k])
    BY <1>2 DEF Tells, Verdicts
  <2> QED
    BY <1>2, <2>1
<1> HIDE DEF claim
<1>3. \A c \in {claim} :
        c[1] = "done" => \E k \in Done(log, n) : log[k].whole /\ log[k].intent = c[2]
  BY <1>1
<1>4. (\E c \in {claim} : c[1] = "refused") => Done(log, n) = {}
  BY <1>1
<1> QED
  BY <1>2, <1>3, <1>4 DEF True, claim

LEMMA NoClaim ==
  ASSUME NEW log, NEW n, NEW claims, Done(log, n) = {}, claims = {}
  PROVE  True(log, n, claims)
BY DEF True

-----------------------------------------------------------------------------
(* A step of a thread that replies leaves the rest alone.                   *)

Becomes(x) ==
  /\ UNCHANGED <<speech, main>>
  /\ DOMAIN th' = Threads /\ \A y \in Threads \ {x} : th'[y] = th[y]
  /\ Record(th'[x]) /\ Harmless(x, th'[x]) /\ th'[x].turn \in {th[x].turn, 0}
  /\ th'[x].at # "idle" => th[x].at # "idle"
  /\ x = worker => th'[x].turn = th[x].turn

Appends(x) ==
  \E i, w : Grows(changed, changed', th[x].turn, i, w)

Changing(x) ==
  \/ changed' = changed
  \/ th[x].turn # 0 /\ Done(changed, th[x].turn) = {} /\ Appends(x)

(* What it does to the log.                                                 *)
LEMMA LogGrows ==
  ASSUME NEW log, Logged(log), Single(log), NEW n \in Nat, NEW i, NEW w, NEW next,
         Grows(log, next, n, i, w), Done(log, n) = {}
  PROVE  /\ Logged(next) /\ Single(next)
         /\ \A k \in DOMAIN next : (k \in DOMAIN log /\ next[k] = log[k]) \/ next[k].turn = n
         /\ \A m : m # n => Done(next, m) = Done(log, m)
         /\ \A m, c : m # n /\ True(log, m, c) => True(next, m, c)
<1>1. Single(next)
  BY MadeFirst
<1>2. Logged(next)
  BY Appended DEF Grows
<1>3. \A k \in DOMAIN next : (k \in DOMAIN log /\ next[k] = log[k]) \/ next[k].turn = n
  <2>1. DOMAIN next = DOMAIN log \cup {Len(log) + 1} /\ next[Len(log) + 1].turn = n
    BY Appended DEF Grows
  <2>2. \A k \in DOMAIN log : next[k] = log[k]
    BY Appended DEF Grows
  <2> QED
    BY <2>1, <2>2
<1>4. ASSUME NEW m, NEW c, m # n
      PROVE  Done(next, m) = Done(log, m) /\ (True(log, m, c) => True(next, m, c))
  BY <1>4, MadeElsewhere
<1> QED
  BY <1>1, <1>2, <1>3, <1>4

LEMMA LogKeeps ==
  ASSUME Inv, NEW x \in Threads, Changing(x)
  PROVE  /\ Logged(changed') /\ Single(changed')
         /\ \A k \in DOMAIN changed' : changed'[k].turn <= turn
         /\ \A m : m # th[x].turn => Done(changed', m) = Done(changed, m)
         /\ \A m, c : m # th[x].turn /\ True(changed, m, c) => True(changed', m, c)
<1>1. /\ th[x].turn \in Nat /\ turn \in Nat /\ th[x].turn <= turn
      /\ Logged(changed) /\ Single(changed)
      /\ \A k \in DOMAIN changed : changed[k].turn <= turn
  BY DEF Inv, Replies, Shapes, Record, Past
<1>2. CASE changed' = changed
  BY <1>1, <1>2
<1>3. CASE Done(changed, th[x].turn) = {} /\ Appends(x)
  <2>1. PICK i, w : Grows(changed, changed', th[x].turn, i, w)
    BY <1>3 DEF Appends
  <2> QED
    BY <1>1, <1>3, <2>1, LogGrows
<1> QED
  BY <1>2, <1>3 DEF Changing

LEMMA ThreadKeeps ==
  ASSUME Inv, NEW x \in Threads, Becomes(x), Changing(x), Connected', Progress(changed', th'[x])
  PROVE  Inv'
<1>1. turn' = turn /\ at' = at /\ worker' = worker /\ rest' = rest /\ answers' = answers
  BY DEF Becomes, speech, main
<1>2. turn \in Nat /\ th[x].turn \in Nat /\ Main \in Threads
  BY DEF Inv, Replies, Shapes, Record, Threads
<1>3. /\ Logged(changed') /\ Single(changed')
      /\ \A i \in DOMAIN changed' : changed'[i].turn <= turn
  BY LogKeeps
<1>4. /\ \A m : m # th[x].turn => Done(changed', m) = Done(changed, m)
      /\ \A m, c : m # th[x].turn /\ True(changed, m, c) => True(changed', m, c)
  BY LogKeeps
<1>5. /\ \A y \in Threads \ {x} : th'[y] = th[y]
      /\ th'[x].turn \in {th[x].turn, 0}
  BY DEF Becomes
<1>6. Shapes'
  <2>1. \A y \in Threads : Record(th'[y])
    BY DEF Becomes, Inv, Replies, Shapes
  <2> QED
    BY <1>1, <1>2, <1>3, <2>1 DEF Shapes, Becomes, Logged, Record
<1>7. Past'
  <2>1. \A y \in Threads : th'[y].turn <= turn
    BY <1>2, <1>5 DEF Inv, Replies, Past
  <2> QED
    BY <1>1, <1>3, <2>1 DEF Past
<1>8. Distinct'
  BY <1>5 DEF Distinct, Inv, Replies
<1>9. Probes'
  <2>1. \A y \in Threads : Harmless(y, th'[y])
    BY DEF Becomes, Inv, Replies, Probes
  <2> QED
    BY <2>1 DEF Probes, Harmless
<1>10. Working'
  <2>1. ASSUME NEW y \in Threads \ {x} PROVE Progress(changed', th[y])
    <3>1. Progress(changed, th[y])
      BY DEF Inv, Replies, Working
    <3>2. CASE th[y].turn = 0
      BY <3>2 DEF Progress
    <3>3. CASE th[y].turn # 0
      <4>1. th[y].turn # th[x].turn
        BY <3>3 DEF Inv, Replies, Distinct
      <4> QED
        BY <1>4, <3>1, <4>1 DEF Progress
    <3> QED
      BY <3>2, <3>3
  <2>2. \A y \in Threads : Progress(changed', th'[y])
    BY <1>5, <2>1
  <2> QED
    BY <2>2 DEF Working, Progress
<1>11. Given'
  <2>1. ASSUME NEW a \in answers
        PROVE  /\ a[1] \in Nat \ {0} /\ a[1] <= turn /\ True(changed', a[1], a[2])
               /\ \A y \in Threads : th'[y].turn # a[1]
    <3>1. /\ a[1] \in Nat \ {0} /\ a[1] <= turn /\ True(changed, a[1], a[2])
          /\ \A y \in Threads : th[y].turn # a[1]
      BY DEF Inv, Given
    <3>2. True(changed', a[1], a[2])
      BY <1>4, <3>1
    <3> QED
      BY <1>5, <3>1, <3>2
  <2> QED
    BY <1>1, <2>1 DEF Given
<1>12. MainPlaces'
  <2>1. th'[Main].at # "idle" => th[Main].at # "idle"
    BY <1>2 DEF Becomes
  <2> QED
    BY <1>1, <2>1 DEF Inv, MainPlaces
<1>13. Unasked'
  <2> SUFFICES ASSUME at \in {"follow", "ask"} \/ (at = "standby" /\ rest # <<>>)
               PROVE  /\ turn # 0 /\ (\A y \in Threads : th'[y].turn # turn)
                      /\ Done(changed', turn) = {}
                      /\ \A a \in answers : a[1] # turn
    BY <1>1 DEF Unasked, Nobody
  <2>1. /\ turn # 0 /\ Nobody /\ Done(changed, turn) = {}
        /\ \A a \in answers : a[1] # turn
    BY DEF Inv, Unasked
  <2> QED
    BY <1>4, <1>5, <2>1 DEF Nobody
<1>14. Answering'
  BY <1>1, <1>5 DEF Inv, Answering, Becomes
<1> QED
  BY <1>3, <1>6, <1>7, <1>8, <1>9, <1>10, <1>11, <1>12, <1>13, <1>14 DEF Inv, Replies

(* Who has the connection keeps it, or what he does is not a request.       *)
LEMMA StaysConnected ==
  ASSUME Inv, NEW x \in Threads, client' = client, \A y \in Threads \ {x} : th'[y] = th[y],
         client.by # x \/ th[x].at \notin Requests \/ th'[x].at \in Requests
  PROVE  Connected'
BY DEF Inv, Replies, Shapes, Connected, Requests

LEMMA LetsGo ==
  ASSUME client' = NoRequest
  PROVE  Connected'
BY DEF NoRequest, Connected

(* The request goes on; nothing else happens.                               *)
LEMMA RepliesKeep ==
  ASSUME Inv, turn' = turn, th' = th, changed' = changed, Connected'
  PROVE  Replies'
<1>1. Shapes' /\ Past' /\ Distinct'
  BY DEF Inv, Replies, Shapes, Past, Distinct, Logged, Record
<1>2. Probes' /\ Working' /\ Single(changed')
  BY DEF Inv, Replies, Probes, Harmless, Working
<1> QED
  BY <1>1, <1>2 DEF Replies

LEMMA GivenKeeps ==
  ASSUME Inv, turn' = turn, th' = th, changed' = changed, answers' = answers
  PROVE  Given'
BY DEF Inv, Given

LEMMA ClientKeeps ==
  ASSUME Inv, UNCHANGED <<speech, main, th, changed>>, Connected'
  PROVE  Inv'
<1>1. /\ turn' = turn /\ at' = at /\ worker' = worker /\ rest' = rest /\ answers' = answers
      /\ th' = th /\ changed' = changed
  BY DEF speech, main
<1>2. MainPlaces' /\ Answering'
  BY <1>1 DEF Inv, MainPlaces, Answering
<1>3. Unasked'
  BY <1>1 DEF Inv, Unasked, Nobody
<1> QED
  BY <1>1, <1>2, <1>3, RepliesKeep, GivenKeeps DEF Inv

LEMMA SameOwner ==
  ASSUME Inv, th' = th,
         \/ client' = [client EXCEPT !.cut = client'.cut]
         \/ client' = [client EXCEPT !.expired = TRUE]
         \/ client' = [client EXCEPT !.at = "wait"]
         \/ client' = [client EXCEPT !.at = "check", !.open = TRUE]
         \/ client' = [client EXCEPT !.watched = FALSE, !.cut = client.open \/ @]
  PROVE  Connected'
<1>1. DOMAIN client = {"by", "at", "open", "cut", "watched", "expired"}
  BY DEF Inv, Replies, Shapes, Connected, NoRequest
<1>2. DOMAIN client' = DOMAIN client /\ client'.by = client.by
  BY <1>1
<1> QED
  BY <1>2 DEF Inv, Replies, Shapes, Connected, Requests

LEMMA MoveMakes ==
  ASSUME Inv, NEW x \in Threads, NEW place, Move(x, place)
  PROVE  /\ DOMAIN th' = Threads /\ \A y \in Threads \ {x} : th'[y] = th[y]
         /\ Record(th'[x]) /\ th'[x] = [th[x] EXCEPT !.at = place] /\ th'[x].at = place
         /\ th'[x].turn = th[x].turn /\ th'[x].calls = th[x].calls
         /\ th'[x].claims = th[x].claims
<1>1. DOMAIN th = Threads /\ Record(th[x])
  BY DEF Inv, Replies, Shapes
<1>2. th' = [th EXCEPT ![x].at = place]
  BY DEF Move
<1>3. /\ DOMAIN th' = Threads /\ \A y \in Threads \ {x} : th'[y] = th[y]
      /\ th'[x] = [th[x] EXCEPT !.at = place]
  BY <1>1, <1>2
<1>4. th'[x].at = place /\ DOMAIN th'[x] = DOMAIN th[x]
  BY <1>1, <1>3 DEF Record, Fields
<1>5. /\ th'[x].turn = th[x].turn /\ th'[x].calls = th[x].calls
      /\ th'[x].claims = th[x].claims
  BY <1>1, <1>3 DEF Record, Fields
<1> QED
  BY <1>1, <1>3, <1>4, <1>5 DEF Record

LEMMA ClaimMakes ==
  ASSUME Inv, NEW x \in Threads, NEW verdict, NEW intent, NEW place,
         Claim(x, verdict, intent, place)
  PROVE  /\ DOMAIN th' = Threads /\ \A y \in Threads \ {x} : th'[y] = th[y]
         /\ Record(th'[x]) /\ th'[x].at = place /\ th'[x].turn = th[x].turn
         /\ th'[x].claims = th[x].claims \cup {<<verdict, intent>>}
         /\ th'[x].calls = IF th[x].calls = <<>> THEN <<>> ELSE Tail(th[x].calls)
<1>1. DOMAIN th = Threads /\ Record(th[x])
  BY DEF Inv, Replies, Shapes
<1> DEFINE r == [[[th[x] EXCEPT !.at = place]
                    EXCEPT !.claims = @ \cup {<<verdict, intent>>}]
                    EXCEPT !.calls = IF @ = <<>> THEN @ ELSE Tail(@)]
<1>2. /\ DOMAIN th' = Threads /\ \A y \in Threads \ {x} : th'[y] = th[y]
      /\ th'[x] = r
  BY <1>1 DEF Claim
<1>3. DOMAIN r = Fields /\ r.at = place /\ r.turn = th[x].turn
  BY <1>1 DEF Record, Fields
<1>4. /\ r.claims = th[x].claims \cup {<<verdict, intent>>}
      /\ r.calls = IF th[x].calls = <<>> THEN <<>> ELSE Tail(th[x].calls)
  BY <1>1 DEF Record, Fields
<1>5. r.calls \in Seq(Tools)
  <2>1. th[x].calls \in Seq(Tools)
    BY <1>1 DEF Record
  <2> HIDE DEF r
  <2> QED
    BY <1>4, <2>1
<1> HIDE DEF r
<1> QED
  BY <1>1, <1>2, <1>3, <1>4, <1>5 DEF Record

(* A change by a thread that has asked for none, or none after all.         *)
LEMMA MadeOrNot ==
  ASSUME Inv, NEW x \in Threads, th[x].turn # 0, Done(changed, th[x].turn) = {}, NEW intent,
         changed' = changed \/ (\E whole \in BOOLEAN : Made(x, intent, whole))
  PROVE  Changing(x) /\ \A k \in Done(changed', th[x].turn) : changed'[k].intent = intent
<1>1. /\ th[x].turn \in Nat /\ Logged(changed) /\ Single(changed)
  BY DEF Inv, Replies, Shapes, Record
<1>2. CASE changed' = changed
  BY <1>2 DEF Changing
<1>3. ASSUME NEW whole \in BOOLEAN, Made(x, intent, whole)
      PROVE  Changing(x) /\ \A k \in Done(changed', th[x].turn) : changed'[k].intent = intent
  <2>1. Grows(changed, changed', th[x].turn, intent, whole)
    BY <1>3 DEF Made, Grows
  <2>2. /\ Done(changed', th[x].turn) = {Len(changed) + 1}
        /\ changed'[Len(changed) + 1].intent = intent
    BY <1>1, <2>1, MadeFirst
  <2> QED
    BY <2>1, <2>2 DEF Changing, Appends
<1> QED
  BY <1>2, <1>3

LEMMA MadeWhole ==
  ASSUME Inv, NEW x \in Threads, Done(changed, th[x].turn) = {}, NEW intent,
         Made(x, intent, TRUE)
  PROVE  /\ Done(changed', th[x].turn) # {}
         /\ \A k \in Done(changed', th[x].turn) : changed'[k].whole
<1>1. /\ th[x].turn \in Nat /\ Logged(changed) /\ Single(changed)
  BY DEF Inv, Replies, Shapes, Record
<1>2. ASSUME NEW w, Made(x, intent, w)
      PROVE  Done(changed', th[x].turn) = {Len(changed) + 1} /\ changed'[Len(changed) + 1].whole = w
  <2>1. Grows(changed, changed', th[x].turn, intent, w)
    BY <1>2 DEF Made, Grows
  <2> QED
    BY <1>1, <2>1, MadeFirst
<1>3. /\ Done(changed', th[x].turn) = {Len(changed) + 1}
      /\ changed'[Len(changed) + 1].whole = TRUE
  BY <1>2, Zenon
<1> QED
  BY <1>3

(* A change that is asked of the daemon, by a thread that has asked none.   *)
LEMMA RequestKeeps ==
  ASSUME Inv, NEW x \in Threads, NEW intent, NEW place \in {"finished", "execute"},
         th[x].at \in {"handle", "execute"}, UNCHANGED <<speech, main, client>>,
         Request(x, intent, place), Done(changed, th[x].turn) = {}, th[x].claims = {},
         place = "execute" /\ th'[x].at = "execute" =>
           AsOne(th'[x].calls) /\ \A k \in DOMAIN th'[x].calls : ~ Sets(th'[x].calls[k])
  PROVE  Inv'
<1>1. /\ DOMAIN th' = Threads /\ \A y \in Threads \ {x} : th'[y] = th[y]
      /\ Record(th'[x]) /\ th'[x].turn = th[x].turn
  BY MoveMakes, ClaimMakes DEF Request
<1>2. th[x].turn # 0
  BY DEF Inv, Replies, Probes, Harmless
<1>3. Becomes(x)
  BY <1>1, <1>2 DEF Becomes, Harmless
<1>4. Connected'
  BY <1>1, StaysConnected DEF Requests
<1>5. changed' = changed \/ (\E whole \in BOOLEAN : Made(x, intent, whole))
  BY DEF Request
<1>6. Changing(x) /\ \A k \in Done(changed', th[x].turn) : changed'[k].intent = intent
  BY <1>2, <1>5, MadeOrNot
<1>7. ASSUME NEW verdict \in Verdicts, Claim(x, verdict, intent, place),
             verdict = "done" => Made(x, intent, TRUE),
             verdict = "refused" => changed' = changed
      PROVE  Progress(changed', th'[x])
  <2>1. th'[x].claims = {<<verdict, intent>>} /\ th'[x].at = place
    BY <1>7, ClaimMakes
  <2>2. verdict = "done" => /\ Done(changed', th[x].turn) # {}
                            /\ \A k \in Done(changed', th[x].turn) : changed'[k].whole
    BY <1>7, MadeWhole
  <2>3. verdict = "refused" => Done(changed', th[x].turn) = {}
    BY <1>7
  <2>4. True(changed', th[x].turn, {<<verdict, intent>>})
    BY <1>6, <1>7, <2>2, <2>3, OneClaim
  <2>5. True(changed', th'[x].turn, th'[x].claims)
    BY <1>1, <2>1, <2>4
  <2>6. place \notin Unanswered
    BY DEF Unanswered
  <2>7. place = "execute" =>
          AsOne(th'[x].calls) /\ ~ \E k \in DOMAIN th'[x].calls : Sets(th'[x].calls[k])
    BY <2>1
  <2> QED
    BY <2>1, <2>5, <2>6, <2>7 DEF Progress
<1>8. CASE Move(x, "raised")
  <2>1. th'[x].at = "raised"
    BY <1>8, MoveMakes
  <2>2. "raised" \notin Unanswered \cup {"execute", "finished"}
    BY DEF Unanswered
  <2> QED
    BY <1>3, <1>4, <1>6, <2>1, <2>2, ThreadKeeps DEF Progress
<1>9. CASE Made(x, intent, TRUE) /\ Claim(x, "done", intent, place)
  <2>1. Progress(changed', th'[x])
    BY <1>7, <1>9 DEF Verdicts
  <2> QED
    BY <1>3, <1>4, <1>6, <2>1, ThreadKeeps
<1>10. CASE changed' = changed /\ Claim(x, "refused", intent, place)
  <2>1. Progress(changed', th'[x])
    BY <1>7, <1>10 DEF Verdicts
  <2> QED
    BY <1>3, <1>4, <1>6, <2>1, ThreadKeeps
<1>11. ASSUME NEW verdict \in Doubts(intent), Claim(x, verdict, intent, place)
       PROVE  Inv'
  <2>1. verdict \in Verdicts /\ verdict # "done" /\ verdict # "refused"
    BY <1>11 DEF Doubts, Admitted, Verdicts
  <2>2. Progress(changed', th'[x])
    BY <1>7, <1>11, <2>1
  <2> QED
    BY <1>3, <1>4, <1>6, <2>2, ThreadKeeps
<1> QED
  BY <1>8, <1>9, <1>10, <1>11 DEF Request

-----------------------------------------------------------------------------
(* The steps of a thread *)

(* Where a thread may go on to when nothing else happens.                   *)
Leads(x, t, place) ==
  /\ place \in Unanswered => t.at \in Unanswered
  /\ place = "execute" => t.at \in Unanswered /\ AsOne(t.calls)
  /\ place = "finished" => t.at \in Unanswered \cup {"execute"}
  /\ t.turn # 0 \/ place \in {"finished", "raised"} \/ (x = Main /\ place = "warm")

LEMMA MoveKeeps ==
  ASSUME Inv, NEW x \in Threads, NEW place, Move(x, place), Leads(x, th[x], place),
         th[x].at # "idle", UNCHANGED <<speech, main, changed>>, Connected'
  PROVE  Inv'
<1>1. /\ th'[x].at = place /\ th'[x].turn = th[x].turn
      /\ th'[x].claims = th[x].claims /\ th'[x].calls = th[x].calls
  BY MoveMakes
<1>2. Harmless(x, th'[x])
  BY <1>1 DEF Harmless, Leads
<1>3. Becomes(x) /\ Changing(x)
  BY <1>2, MoveMakes DEF Becomes, Changing
<1>4. ASSUME th[x].turn # 0 PROVE Progress(changed, th'[x])
  <2>1. Progress(changed, th[x])
    BY DEF Inv, Replies, Working
  <2>2. th[x].at \in Unanswered =>
          /\ Done(changed, th[x].turn) = {} /\ th[x].claims = {}
          /\ True(changed, th[x].turn, th[x].claims)
    BY <1>4, <2>1, NoClaim DEF Progress
  <2>3. place = "finished" => True(changed, th[x].turn, th[x].claims)
    BY <1>4, <2>1, <2>2 DEF Leads, Progress
  <2>4. place = "execute" =>
          /\ AsOne(th[x].calls) /\ True(changed, th[x].turn, th[x].claims)
          /\ Done(changed, th[x].turn) = {} /\ th[x].claims = {}
    BY <2>2 DEF Leads
  <2>5. place \in Unanswered => Done(changed, th[x].turn) = {} /\ th[x].claims = {}
    BY <2>2 DEF Leads
  <2> QED
    BY <1>1, <2>3, <2>4, <2>5 DEF Progress
<1>5. Progress(changed', th'[x])
  BY <1>1, <1>4 DEF Progress
<1> QED
  BY <1>3, <1>5, ThreadKeeps

(* Nothing is left to do, and nothing was done: "I did not perform ..."      *)
LEMMA RefuseKeeps ==
  ASSUME Inv, NEW x \in Threads, Refuse(x), th[x].at \in {"tools", "execute"},
         UNCHANGED <<speech, main, changed, client>>, Done(changed, th[x].turn) = {}
  PROVE  Inv'
<1>1. DOMAIN th = Threads /\ Record(th[x])
  BY DEF Inv, Replies, Shapes
<1> DEFINE r == [[[th[x] EXCEPT !.at = "finished"] EXCEPT !.claims = {}] EXCEPT !.calls = <<>>]
<1>2. /\ DOMAIN th' = Threads /\ \A y \in Threads \ {x} : th'[y] = th[y]
      /\ th'[x] = r
  BY <1>1 DEF Refuse
<1>3. /\ DOMAIN r = Fields /\ r.at = "finished" /\ r.turn = th[x].turn
      /\ r.claims = {} /\ r.calls = <<>>
  BY <1>1 DEF Record, Fields
<1> HIDE DEF r
<1>4. Becomes(x) /\ Changing(x)
  BY <1>1, <1>2, <1>3 DEF Becomes, Changing, Record, Harmless
<1>5. Connected'
  BY <1>2, StaysConnected DEF Requests
<1>6. True(changed, th[x].turn, {})
  BY NoClaim
<1>7. Progress(changed', th'[x])
  BY <1>2, <1>3, <1>6 DEF Progress, Unanswered
<1> QED
  BY <1>4, <1>5, <1>7, ThreadKeeps

LEMMA HandleKeeps ==
  ASSUME Inv, NEW x \in Threads, Handle(x)
  PROVE  Inv'
<1>1. /\ th[x].at = "handle" /\ UNCHANGED <<speech, main, client>> /\ th[x].turn # 0
  BY DEF Handle, Inv, Replies, Probes, Harmless
<1>2. CASE Mutates(th[x].meaning)
  <2>1. Request(x, th[x].meaning, "finished")
    BY <1>2 DEF Handle
  <2>2. Done(changed, th[x].turn) = {} /\ th[x].claims = {}
    BY <1>1 DEF Inv, Replies, Working, Progress, Unanswered
  <2> QED
    BY <1>1, <2>1, <2>2, RequestKeeps
<1>3. ASSUME NEW place \in {"identity", "finished", "raised"}, Move(x, place), changed' = changed
      PROVE  Inv'
  <2>1. Leads(x, th[x], place) /\ th[x].at # "idle"
    BY <1>1 DEF Leads, Unanswered
  <2>2. Connected'
    BY <1>1, <1>3, MoveMakes, StaysConnected DEF Requests
  <2> QED
    BY <1>1, <1>3, <2>1, <2>2, MoveKeeps
<1> QED
  BY <1>2, <1>3 DEF Handle

(* To give up is always allowed.                                            *)
LEMMA RaiseKeeps ==
  ASSUME Inv, NEW x \in Threads, Move(x, "raised"), th[x].at # "idle",
         UNCHANGED <<speech, main, changed>>,
         client' = NoRequest \/ (client' = client /\ th[x].at \notin Requests)
           \/ (client' = client /\ client.by # x)
  PROVE  Inv'
<1>1. Leads(x, th[x], "raised")
  BY DEF Leads, Unanswered
<1>2. Connected'
  BY LetsGo, MoveMakes, StaysConnected
<1> QED
  BY <1>1, <1>2, MoveKeeps

LEMMA AcquireKeeps ==
  ASSUME Inv, NEW x \in Threads, Acquire(x)
  PROVE  Inv'
<1>1. th[x].at \in Requests /\ client.by # x /\ UNCHANGED <<speech, main, changed>>
  BY DEF Acquire
<1>2. CASE Move(x, "raised") /\ UNCHANGED client
  BY <1>1, <1>2, RaiseKeeps DEF Requests
<1>3. CASE client' = [NoRequest EXCEPT !.by = x, !.at = "connect", !.watched = TRUE] /\ UNCHANGED th
  <2>1. DOMAIN client' = DOMAIN NoRequest /\ client'.by = x
    BY <1>3 DEF NoRequest
  <2>2. Connected'
    BY <1>1, <1>3, <2>1 DEF Connected, NoRequest, Requests
  <2> QED
    BY <1>1, <1>3, <2>2, ClientKeeps
<1> QED
  BY <1>2, <1>3 DEF Acquire

LEMMA RequestSteps ==
  ASSUME Inv, NEW x \in Threads, Connect(x) \/ Check(x) \/ Broken(x)
  PROVE  Inv'
<1>1. client.by = x /\ UNCHANGED <<speech, main, changed>>
  BY DEF Connect, Check, Broken
<1>2. th[x].at # "idle"
  BY <1>1, WorkersAssumption DEF Inv, Replies, Shapes, Connected, Requests, Threads
<1>3. CASE client' = NoRequest /\ Move(x, "raised")
  BY <1>1, <1>2, <1>3, RaiseKeeps
<1>4. CASE Connect(x)
  BY <1>1, <1>4, SameOwner, ClientKeeps DEF Connect
<1>5. CASE Check(x) /\ ~ GivenUp
  BY <1>1, <1>5, SameOwner, ClientKeeps DEF Check
<1> QED
  BY <1>3, <1>4, <1>5 DEF Check, Broken

LEMMA ReceiveKeeps ==
  ASSUME Inv, NEW x \in Threads, Receive(x)
  PROVE  Inv'
<1>1. client.by = x /\ UNCHANGED <<speech, main, changed>> /\ client' = NoRequest
  BY DEF Receive
<1>2. th[x].at \in Requests
  BY <1>1, WorkersAssumption DEF Inv, Replies, Shapes, Connected, Threads
<1>3. CASE Move(x, "raised")
  BY <1>1, <1>2, <1>3, RaiseKeeps DEF Requests
<1>4. Harmless(x, th[x])
  BY DEF Inv, Replies, Probes
<1>5. ASSUME NEW place, Move(x, place),
             \/ place = "finished"
             \/ th[x].at = "identity" /\ x = Main /\ place = "warm"
             \/ th[x].at = "identity" /\ x # Main /\ place \in {"chat", "plain"}
      PROVE  Inv'
  <2>1. Leads(x, th[x], place)
    BY <1>2, <1>4, <1>5 DEF Leads, Unanswered, Requests, Harmless
  <2> QED
    BY <1>1, <1>2, <1>5, <2>1, LetsGo, MoveKeeps DEF Requests
<1>6. ASSUME NEW calls \in Proposals, th[x].at = "chat",
             th' = [th EXCEPT ![x].at = IF calls = <<>> THEN "finished" ELSE "tools",
                              ![x].calls = calls]
      PROVE  Inv'
  <2> DEFINE place == IF calls = <<>> THEN "finished" ELSE "tools"
             r == [[th[x] EXCEPT !.at = place] EXCEPT !.calls = calls]
  <2>1. DOMAIN th = Threads /\ Record(th[x]) /\ calls \in Seq(Tools)
    BY ProposalsAssumption DEF Inv, Replies, Shapes
  <2>2. /\ DOMAIN th' = Threads /\ \A y \in Threads \ {x} : th'[y] = th[y]
        /\ th'[x] = r
    BY <1>6, <2>1
  <2>3. /\ DOMAIN r = Fields /\ r.at = place /\ r.turn = th[x].turn
        /\ r.claims = th[x].claims /\ r.calls = calls
    BY <2>1 DEF Record, Fields
  <2>4. place \in {"finished", "tools"}
    OBVIOUS
  <2> HIDE DEF r, place
  <2>5. th[x].turn # 0
    BY <1>4, <1>6 DEF Harmless
  <2>6. Becomes(x) /\ Changing(x)
    BY <1>1, <1>6, <2>1, <2>2, <2>3, <2>5 DEF Becomes, Changing, Record, Harmless
  <2>7. th[x].claims = {} /\ Done(changed, th[x].turn) = {}
    BY <1>6, <2>5 DEF Inv, Replies, Working, Progress, Unanswered
  <2>8. True(changed, th[x].turn, th[x].claims)
    BY <2>7, NoClaim
  <2>9. Progress(changed', th'[x])
    BY <1>1, <2>2, <2>3, <2>4, <2>7, <2>8 DEF Progress, Unanswered
  <2> QED
    BY <1>1, <2>6, <2>9, LetsGo, ThreadKeeps
<1>7. CASE Replied(x)
  BY <1>2, <1>5, <1>6, <1>7 DEF Replied, Requests
<1> QED
  BY <1>3, <1>7 DEF Receive

LEMMA ParseKeeps ==
  ASSUME Inv, NEW x \in Threads, Parse(x)
  PROVE  Inv'
<1>1. /\ th[x].at = "tools" /\ UNCHANGED <<speech, main, client, changed>> /\ th[x].turn # 0
  BY DEF Parse, Inv, Replies, Probes, Harmless
<1>2. CASE Admissible(th[x].calls) /\ Move(x, "execute")
  <2>1. Leads(x, th[x], "execute")
    BY <1>1, <1>2 DEF Leads, Unanswered, Admissible
  <2>2. Connected'
    BY <1>1, <1>2, MoveMakes, StaysConnected DEF Requests
  <2> QED
    BY <1>1, <1>2, <2>1, <2>2, MoveKeeps
<1>3. CASE Refuse(x)
  <2>1. Done(changed, th[x].turn) = {}
    BY <1>1 DEF Inv, Replies, Working, Progress, Unanswered
  <2> QED
    BY <1>1, <1>3, <2>1, RefuseKeeps
<1> QED
  BY <1>2, <1>3 DEF Parse

(* What is left of an admissible list when its first call is taken.         *)
LEMMA RestOfCalls ==
  ASSUME NEW s \in Seq(Tools), s # <<>>, AsOne(s)
  PROVE  /\ Tail(s) \in Seq(Tools) /\ AsOne(Tail(s)) /\ Head(s) = s[1] /\ 1 \in DOMAIN s
         /\ \A k \in DOMAIN Tail(s) : k + 1 \in DOMAIN s /\ k + 1 # 1 /\ Tail(s)[k] = s[k + 1]
<1>1. Len(s) \in Nat /\ Len(s) # 0 /\ DOMAIN s = 1..Len(s)
  OBVIOUS
<1>2. /\ Tail(s) \in Seq(Tools) /\ Len(Tail(s)) = Len(s) - 1
      /\ DOMAIN Tail(s) = 1..(Len(s) - 1) /\ Head(s) = s[1]
      /\ \A k \in 1..(Len(s) - 1) : Tail(s)[k] = s[k + 1]
  BY <1>1
<1>3. \A k \in DOMAIN Tail(s) : k + 1 \in DOMAIN s /\ k + 1 # 1 /\ Tail(s)[k] = s[k + 1]
  BY <1>1, <1>2
<1>4. AsOne(Tail(s))
  <2>1. Len(Tail(s)) <= 2
    BY <1>1, <1>2 DEF AsOne
  <2>2. \A k \in DOMAIN Tail(s) : Tail(s)[k] # "unknown"
    BY <1>3 DEF AsOne
  <2>3. ASSUME NEW j \in DOMAIN Tail(s), NEW k \in DOMAIN Tail(s),
               Sets(Tail(s)[j]), Sets(Tail(s)[k])
        PROVE  j = k
    <3>1. j + 1 = k + 1
      BY <1>3, <2>3 DEF AsOne
    <3> QED
      BY <1>1, <1>2, <3>1
  <2> QED
    BY <2>1, <2>2, <2>3 DEF AsOne
<1> QED
  BY <1>1, <1>2, <1>3, <1>4

LEMMA ExecuteKeeps ==
  ASSUME Inv, NEW x \in Threads, Execute(x)
  PROVE  Inv'
<1> DEFINE calls == th[x].calls
<1>1. /\ th[x].at = "execute" /\ UNCHANGED <<speech, main, client>> /\ calls \in Seq(Tools)
      /\ th[x].turn # 0
  BY DEF Execute, Inv, Replies, Shapes, Record, Probes, Harmless
<1>2. /\ AsOne(calls) /\ True(changed, th[x].turn, th[x].claims)
      /\ (\E i \in DOMAIN calls : Sets(calls[i])) =>
           Done(changed, th[x].turn) = {} /\ th[x].claims = {}
  BY <1>1 DEF Inv, Replies, Working, Progress
<1>3. CASE calls = <<>> /\ Move(x, "finished") /\ UNCHANGED changed
  <2>1. Leads(x, th[x], "finished") /\ Connected'
    BY <1>1, <1>3, MoveMakes, StaysConnected DEF Leads, Unanswered, Requests
  <2> QED
    BY <1>1, <1>3, <2>1, MoveKeeps
<1>4. CASE calls # <<>> /\ Sets(Head(calls)) /\ Request(x, <<"fan.set", Head(calls)>>, "execute")
  <2>1. AsOne(calls) /\ 1 \in DOMAIN calls /\ Sets(calls[1]) /\ AsOne(Tail(calls))
    BY <1>1, <1>2, <1>4, RestOfCalls
  <2>2. \A k \in DOMAIN Tail(calls) :
          k + 1 \in DOMAIN calls /\ k + 1 # 1 /\ Tail(calls)[k] = calls[k + 1]
    BY <1>1, <1>2, <1>4, RestOfCalls
  <2>3. \A k \in DOMAIN Tail(calls) : ~ Sets(Tail(calls)[k])
    BY <2>1, <2>2 DEF AsOne
  <2>4. Done(changed, th[x].turn) = {} /\ th[x].claims = {}
    BY <1>2, <2>1
  <2>5. th'[x].at = "execute" => th'[x].calls = Tail(calls)
    <3> DEFINE intent == <<"fan.set", Head(calls)>>
    <3>1. Request(x, intent, "execute")
      BY <1>4
    <3> HIDE DEF intent
    <3>2. ASSUME NEW verdict, Claim(x, verdict, intent, "execute")
          PROVE  th'[x].calls = Tail(calls)
      BY <1>4, <3>2, ClaimMakes
    <3>3. ASSUME Move(x, "raised") PROVE th'[x].at = "raised"
      BY <3>3, MoveMakes
    <3>4. Move(x, "raised") \/ \E verdict : Claim(x, verdict, intent, "execute")
      BY <3>1 DEF Request
    <3> QED
      BY <3>2, <3>3, <3>4
  <2> HIDE DEF calls
  <2>6. th'[x].at = "execute" =>
          AsOne(th'[x].calls) /\ \A k \in DOMAIN th'[x].calls : ~ Sets(th'[x].calls[k])
    BY <2>1, <2>3, <2>5
  <2> QED
    BY <1>1, <1>4, <2>4, <2>6, RequestKeeps
<1>5. CASE calls # <<>> /\ Refuse(x) /\ UNCHANGED changed
           /\ (Sets(Head(calls)) \/ Head(calls) = "unknown")
  <2>1. AsOne(calls) /\ 1 \in DOMAIN calls /\ Head(calls) = calls[1]
    BY <1>1, <1>2, <1>5, RestOfCalls
  <2>2. Sets(calls[1])
    BY <1>5, <2>1 DEF AsOne
  <2>3. Done(changed, th[x].turn) = {}
    BY <1>2, <2>1, <2>2
  <2> QED
    BY <1>1, <1>5, <2>3, RefuseKeeps
<1>6. CASE calls # <<>> /\ th' = [th EXCEPT ![x].calls = Tail(@)] /\ UNCHANGED changed
  <2> DEFINE r == [th[x] EXCEPT !.calls = Tail(@)]
  <2>1. DOMAIN th = Threads /\ Record(th[x])
    BY DEF Inv, Replies, Shapes
  <2>2. /\ DOMAIN th' = Threads /\ \A y \in Threads \ {x} : th'[y] = th[y]
        /\ th'[x] = r
    BY <1>6, <2>1
  <2>3. /\ DOMAIN r = Fields /\ r.at = "execute" /\ r.turn = th[x].turn
        /\ r.claims = th[x].claims /\ r.calls = Tail(calls)
    BY <1>1, <2>1 DEF Record, Fields
  <2> HIDE DEF r
  <2>4. Tail(calls) \in Seq(Tools)
    BY <1>1, <1>6
  <2>5. Becomes(x) /\ Changing(x)
    BY <1>1, <1>6, <2>1, <2>2, <2>3, <2>4 DEF Becomes, Changing, Record, Harmless
  <2>6. Connected'
    BY <1>1, <2>2, StaysConnected DEF Requests
  <2>7. AsOne(Tail(calls))
    BY <1>1, <1>2, <1>6, RestOfCalls
  <2>8. ASSUME NEW k \in DOMAIN Tail(calls), Sets(Tail(calls)[k])
        PROVE  Done(changed, th[x].turn) = {} /\ th[x].claims = {}
    <3>1. k + 1 \in DOMAIN calls /\ Sets(calls[k + 1])
      BY <1>1, <1>2, <1>6, <2>8, RestOfCalls
    <3> QED
      BY <1>2, <3>1
  <2>9. Progress(changed', th'[x])
    BY <1>2, <1>6, <2>2, <2>3, <2>7, <2>8 DEF Progress, Unanswered
  <2> QED
    BY <2>5, <2>6, <2>9, ThreadKeeps
<1>7. CASE Move(x, "raised") /\ UNCHANGED changed
  BY <1>1, <1>7, RaiseKeeps DEF Requests
<1> QED
  BY <1>3, <1>4, <1>5, <1>6, <1>7 DEF Execute, Look

LEMMA VanishKeeps ==
  ASSUME Inv, NEW x \in Threads, Vanish(x)
  PROVE  Inv'
<1>1. /\ x # worker /\ th[x].at \in {"finished", "raised"}
      /\ UNCHANGED <<speech, main, client, changed>>
  BY DEF Vanish, Ended
<1>2. DOMAIN th = Threads /\ Record(NoThread) /\ NoThread.turn = 0 /\ NoThread.at = "idle"
  BY DEF Inv, Replies, Shapes, Record, NoThread, Fields
<1>3. DOMAIN th' = Threads /\ th'[x] = NoThread /\ \A y \in Threads \ {x} : th'[y] = th[y]
  BY <1>2 DEF Vanish
<1>4. Becomes(x) /\ Changing(x) /\ Progress(changed', th'[x])
  BY <1>1, <1>2, <1>3 DEF Becomes, Changing, Harmless, Progress
<1>5. Connected'
  BY <1>1, <1>3, StaysConnected DEF Requests
<1> QED
  BY <1>4, <1>5, ThreadKeeps

LEMMA ThreadsKeep ==
  ASSUME Inv, NEW x \in Threads, Work(x) \/ Receive(x)
  PROVE  Inv'
BY HandleKeeps, AcquireKeeps, RequestSteps, ReceiveKeeps, ParseKeeps, ExecuteKeeps,
   VanishKeeps DEF Work

-----------------------------------------------------------------------------
(* The main thread                                                          *)

(* It alone moves on; whoever replies stays where he is.                    *)
Aside == UNCHANGED <<th, client, changed, answers>>

LEMMA StillReplying ==
  ASSUME Inv, Aside, turn' = turn \/ turn' = turn + 1
  PROVE  /\ Replies' /\ Given'
         /\ turn' = turn + 1 =>
              /\ Nobody' /\ Done(changed', turn') = {}
              /\ \A a \in answers' : a[1] # turn'
<1>1. turn \in Nat /\ turn' \in Nat /\ Logged(changed)
  BY DEF Inv, Replies, Shapes
<1>2. /\ \A x \in Threads : th[x].turn \in Nat /\ th[x].turn <= turn
      /\ \A i \in DOMAIN changed : changed[i].turn \in Nat /\ changed[i].turn <= turn
      /\ \A a \in answers : a[1] \in Nat /\ a[1] <= turn
  BY DEF Inv, Replies, Shapes, Record, Logged, Past, Given
<1>3. th' = th /\ client' = client /\ changed' = changed /\ answers' = answers
  BY DEF Aside
<1>4. Shapes'
  BY <1>1, <1>3 DEF Inv, Replies, Shapes, Connected, Logged, Record, Requests
<1>5. Past'
  BY <1>1, <1>2, <1>3 DEF Past
<1>6. Distinct' /\ Probes' /\ Single(changed') /\ Working'
  BY <1>3 DEF Inv, Replies, Distinct, Probes, Harmless, Working
<1>7. Given'
  <2>1. turn <= turn'
    BY <1>1
  <2> QED
    BY <1>1, <1>2, <1>3, <2>1 DEF Inv, Given
<1>8. ASSUME turn' = turn + 1
      PROVE  /\ Nobody' /\ Done(changed', turn') = {}
             /\ \A a \in answers' : a[1] # turn'
  BY <1>1, <1>2, <1>3, <1>8 DEF Nobody, Done
<1> QED
  BY <1>4, <1>5, <1>6, <1>7, <1>8 DEF Replies

LEMMA SpeakKeeps ==
  ASSUME Inv, Speak
  PROVE  Inv'
<1>1. /\ at = "standby" /\ at' = at /\ worker' = worker /\ turn' = turn + 1 /\ Aside
  BY DEF Speak, main, Aside
<1>2. turn' # 0
  BY <1>1 DEF Inv, Replies, Shapes
<1>3. MainPlaces'
  BY <1>1 DEF Inv, MainPlaces, Aside
<1>4. Unasked' /\ Answering'
  BY <1>1, <1>2, StillReplying DEF Unasked, Answering
<1> QED
  BY <1>1, <1>3, <1>4, StillReplying DEF Inv

LEMMA HearingKeeps ==
  ASSUME Inv, Window \/ FollowUp
  PROVE  Inv'
<1>1. turn' = turn /\ worker' = worker /\ Aside
  BY DEF Window, FollowUp, Aside
<1>2. /\ turn # 0 /\ Nobody /\ Done(changed, turn) = {}
      /\ \A a \in answers : a[1] # turn
  BY DEF Inv, Unasked, Window, FollowUp
<1>3. /\ at \in {"standby", "follow"} /\ at' \in {"standby", "follow", "ask"}
      /\ at' = "ask" => rest' = <<>>
  BY DEF Window, FollowUp
<1>4. MainPlaces'
  BY <1>1, <1>3 DEF Inv, MainPlaces, Aside
<1>5. Unasked' /\ Answering'
  BY <1>1, <1>2, <1>3 DEF Unasked, Answering, Nobody, Aside
<1> QED
  BY <1>1, <1>4, <1>5, StillReplying DEF Inv

LEMMA AskKeeps ==
  ASSUME Inv, Ask
  PROVE  Inv'
<1>1. /\ at = "ask" /\ at' = "await" /\ turn' = turn /\ rest' = rest /\ rest = <<>>
      /\ UNCHANGED <<client, changed, answers>>
  BY DEF Ask, Inv, MainPlaces
<1>2. /\ turn # 0 /\ turn \in Nat /\ Nobody /\ Done(changed, turn) = {} /\ DOMAIN th = Threads
      /\ \A a \in answers : a[1] # turn
  BY <1>1 DEF Inv, Unasked, Replies, Shapes
<1>3. PICK w \in Threads : worker' = w /\ th' = [th EXCEPT ![w] = Asked] /\ th[w].at = "idle"
  <2>1. CASE IsFast(question)
    <3>1. th[Main].at = "idle"
      BY <1>1 DEF Inv, MainPlaces
    <3> QED
      BY <2>1, <3>1 DEF Ask, Threads
  <2>2. CASE ~ IsFast(question)
    <3>1. \E w \in Workers : Free(w)
      BY <2>2 DEF Ask
    <3>2. worker' \in Workers /\ Free(worker')
      BY <2>2, <3>1 DEF Ask
    <3> QED
      BY <2>2, <3>2 DEF Ask, Threads, Free
  <2> QED
    BY <2>1, <2>2
<1>4. /\ DOMAIN Asked = Fields /\ Asked.turn = turn /\ Asked.at = "handle"
      /\ Asked.claims = {} /\ Asked.calls = <<>>
  BY DEF Asked, NoThread, Fields
<1>5. DOMAIN th' = Threads /\ th'[w] = Asked /\ \A y \in Threads \ {w} : th'[y] = th[y]
  BY <1>2, <1>3
<1>6. Record(Asked)
  BY <1>2, <1>4 DEF Record
<1>7. Connected'
  BY <1>1, <1>3, <1>5 DEF Inv, Replies, Shapes, Connected, Requests
<1>8. Shapes'
  <2>1. \A y \in Threads : Record(th'[y])
    BY <1>5, <1>6 DEF Inv, Replies, Shapes
  <2> QED
    BY <1>1, <1>2, <1>5, <1>7, <2>1 DEF Inv, Replies, Shapes, Logged, Record
<1>9. Past'
  <2>1. \A y \in Threads : th'[y].turn <= turn
    BY <1>2, <1>4, <1>5 DEF Inv, Replies, Past
  <2> QED
    BY <1>1, <2>1 DEF Inv, Replies, Past
<1>10. Distinct'
  BY <1>2, <1>4, <1>5 DEF Inv, Replies, Distinct, Nobody
<1>11. Probes'
  <2>1. \A y \in Threads : Harmless(y, th'[y])
    BY <1>2, <1>4, <1>5 DEF Inv, Replies, Probes, Harmless
  <2> QED
    BY <2>1 DEF Probes, Harmless
<1>12. Working'
  <2>1. Progress(changed, Asked)
    BY <1>2, <1>4 DEF Progress
  <2>2. \A y \in Threads : Progress(changed, th'[y])
    BY <1>5, <2>1 DEF Inv, Replies, Working
  <2> QED
    BY <1>1, <2>2 DEF Working
<1>13. Given'
  BY <1>1, <1>2, <1>4, <1>5 DEF Inv, Given
<1>14. MainPlaces'
  <2>1. w # Main => th'[Main].at = "idle"
    BY <1>1, <1>5 DEF Inv, MainPlaces, Threads
  <2> QED
    BY <1>1, <1>3, <2>1 DEF MainPlaces
<1>15. Answering' /\ Unasked'
  BY <1>1, <1>2, <1>3, <1>4, <1>5 DEF Answering, Unasked
<1>16. Single(changed')
  BY <1>1 DEF Inv, Replies
<1> QED
  BY <1>8, <1>9, <1>10, <1>11, <1>12, <1>13, <1>14, <1>15, <1>16 DEF Inv, Replies

(* A thread is done with or probes the model server: no question is in its  *)
(* hands.                                                                   *)
LEMMA Freed ==
  ASSUME Inv, NEW x \in Threads, NEW r, th' = [th EXCEPT ![x] = r], th[x].at \notin Requests,
         Record(r), r.turn = 0, Harmless(x, r), turn' = turn, UNCHANGED <<client, changed>>
  PROVE  Replies' /\ th'[x] = r /\ \A y \in Threads \ {x} : th'[y] = th[y]
<1>1. DOMAIN th = Threads /\ turn \in Nat
  BY DEF Inv, Replies, Shapes
<1>2. DOMAIN th' = Threads /\ th'[x] = r /\ \A y \in Threads \ {x} : th'[y] = th[y]
  BY <1>1
<1>3. Connected'
  BY <1>2 DEF Inv, Replies, Shapes, Connected, Requests
<1>4. \A y \in Threads : Record(th'[y])
  BY <1>2 DEF Inv, Replies, Shapes
<1>5. Shapes'
  BY <1>1, <1>2, <1>3, <1>4 DEF Inv, Replies, Shapes, Logged, Record
<1>6. \A y \in Threads : th'[y].turn <= turn
  BY <1>1, <1>2 DEF Inv, Replies, Past
<1>7. Past'
  BY <1>6 DEF Inv, Replies, Past
<1>8. Distinct'
  BY <1>2 DEF Inv, Replies, Distinct
<1>9. Probes'
  <2>1. \A y \in Threads : Harmless(y, th'[y])
    BY <1>2 DEF Inv, Replies, Probes
  <2> QED
    BY <2>1 DEF Probes, Harmless
<1>10. Working'
  <2>1. \A y \in Threads : Progress(changed, th'[y])
    BY <1>2 DEF Inv, Replies, Working, Progress
  <2> QED
    BY <2>1 DEF Working
<1> QED
  BY <1>2, <1>5, <1>7, <1>8, <1>9, <1>10 DEF Inv, Replies

LEMMA Idle == Record(NoThread) /\ NoThread.turn = 0 /\ NoThread.at = "idle"
BY DEF Record, NoThread, Fields

LEMMA CollectKeeps ==
  ASSUME Inv, Collect
  PROVE  Inv'
<1>1. /\ at = "await" /\ th[worker].at \in {"finished", "raised"} /\ worker' = None
      /\ th' = [th EXCEPT ![worker] = NoThread] /\ turn' = turn /\ rest' = rest
      /\ UNCHANGED <<client, changed>>
      /\ \/ /\ at' = "deliver" /\ answers' = answers \cup {<<turn, th[worker].claims>>}
            /\ th[worker].at = "finished"
         \/ at' = "failed" /\ answers' = answers
  BY DEF Collect, Ended, speech
<1>2. turn # 0 /\ turn \in Nat /\ worker \in Threads /\ rest = <<>> /\ th[worker].turn = turn
  BY <1>1 DEF Inv, Answering, MainPlaces, Replies, Shapes
<1>3. /\ Replies' /\ th'[worker] = NoThread
      /\ \A y \in Threads \ {worker} : th'[y] = th[y]
  BY <1>1, <1>2, Idle, Freed DEF Requests, Harmless
<1>4. MainPlaces'
  <2>1. th'[Main].at = "idle"
    BY <1>1, <1>3, Idle DEF Inv, MainPlaces, Threads
  <2> QED
    BY <1>1, <1>2, <2>1 DEF MainPlaces
<1>5. Given'
  <2>1. \A y \in Threads : th'[y].turn # turn
    BY <1>2, <1>3, Idle DEF Inv, Replies, Distinct
  <2>2. ASSUME NEW a \in answers
        PROVE  /\ a[1] \in Nat \ {0} /\ a[1] <= turn /\ True(changed, a[1], a[2])
               /\ \A y \in Threads : th'[y].turn # a[1]
    <3>1. /\ a[1] \in Nat \ {0} /\ a[1] <= turn /\ True(changed, a[1], a[2])
          /\ \A y \in Threads : th[y].turn # a[1]
      BY DEF Inv, Given
    <3> QED
      BY <1>2, <1>3, <3>1, Idle
  <2>3. th[worker].at = "finished" => True(changed, turn, th[worker].claims)
    BY <1>2 DEF Inv, Replies, Working, Progress
  <2> DEFINE said == <<turn, th[worker].claims>>
  <2>4. said[1] = turn /\ said[2] = th[worker].claims
    OBVIOUS
  <2> HIDE DEF said
  <2>5. turn <= turn
    BY <1>2
  <2>6. CASE answers' = answers
    BY <1>1, <2>2, <2>6 DEF Given
  <2>7. CASE answers' = answers \cup {said} /\ th[worker].at = "finished"
    <3>1. ASSUME NEW a \in answers'
          PROVE  /\ a[1] \in Nat \ {0} /\ a[1] <= turn /\ True(changed, a[1], a[2])
                 /\ \A y \in Threads : th'[y].turn # a[1]
      <4>1. CASE a \in answers
        BY <2>2, <4>1
      <4>2. CASE a = said
        BY <1>2, <2>1, <2>3, <2>4, <2>5, <2>7, <4>2
      <4> QED
        BY <2>7, <3>1, <4>1, <4>2
    <3> QED
      BY <1>1, <3>1 DEF Given
  <2> QED
    BY <1>1, <2>6, <2>7 DEF said
<1>6. Unasked' /\ Answering'
  BY <1>1 DEF Unasked, Answering
<1> QED
  BY <1>3, <1>4, <1>5, <1>6 DEF Inv

(* A thread that is given up keeps what it was asked for; nobody waits.     *)
LEMMA AbandonKeeps ==
  ASSUME Inv, Abandon
  PROVE  Inv'
<1>1. /\ at = "await" /\ at' = "failed" /\ worker # Main /\ turn' = turn /\ rest' = rest
      /\ Aside
  BY DEF Abandon, speech, Aside
<1>2. MainPlaces'
  BY <1>1 DEF Inv, MainPlaces, Aside
<1>3. Unasked' /\ Answering'
  BY <1>1 DEF Unasked, Answering
<1> QED
  BY <1>1, <1>2, <1>3, StillReplying DEF Inv

LEMMA DeliverKeeps ==
  ASSUME Inv, Deliver
  PROVE  Inv'
<1>1. /\ at = "deliver" /\ at' \in {"standby", "failed"} /\ rest' = rest /\ turn' = turn
      /\ rest = <<>> /\ worker' = worker /\ Aside
  BY DEF Deliver, Inv, MainPlaces, Aside
<1>2. MainPlaces'
  BY <1>1 DEF Inv, MainPlaces, Aside
<1>3. Unasked' /\ Answering'
  BY <1>1 DEF Unasked, Answering
<1> QED
  BY <1>1, <1>2, <1>3, StillReplying DEF Inv

LEMMA RecoverKeeps ==
  ASSUME Inv, Recover
  PROVE  Inv'
<1>1. /\ at = "failed" /\ rest = <<>> /\ rest' = rest /\ turn' = turn
      /\ UNCHANGED <<client, changed, answers>>
      /\ th[Main].at = "idle" /\ DOMAIN th = Threads /\ Main \in Threads
  BY DEF Recover, Inv, MainPlaces, Replies, Shapes, Threads
<1>2. CASE at' = "closing" /\ UNCHANGED <<th, worker>>
  <2>1. Aside
    BY <1>1, <1>2 DEF Aside
  <2>2. MainPlaces'
    BY <1>1, <1>2 DEF Inv, MainPlaces
  <2>3. Unasked' /\ Answering'
    BY <1>2 DEF Unasked, Answering
  <2> QED
    BY <1>1, <2>1, <2>2, <2>3, StillReplying DEF Inv
<1>3. CASE /\ at' = "probing" /\ worker' = Main
           /\ th' = [th EXCEPT ![Main] = [NoThread EXCEPT !.at = "identity"]]
  <2> DEFINE probe == [NoThread EXCEPT !.at = "identity"]
  <2>1. Record(probe) /\ probe.turn = 0 /\ Harmless(Main, probe)
    BY DEF Record, NoThread, Fields, Harmless
  <2>2. th' = [th EXCEPT ![Main] = probe]
    BY <1>3
  <2> HIDE DEF probe
  <2>3. Replies' /\ th'[Main] = probe /\ \A y \in Threads \ {Main} : th'[y] = th[y]
    BY <1>1, <2>1, <2>2, Freed DEF Requests
  <2>4. Given'
    BY <1>1, <2>1, <2>3 DEF Inv, Given
  <2>5. MainPlaces'
    BY <1>1, <1>3 DEF MainPlaces
  <2>6. Unasked' /\ Answering'
    BY <1>3 DEF Unasked, Answering
  <2> QED
    BY <2>3, <2>4, <2>5, <2>6 DEF Inv
<1> QED
  BY <1>2, <1>3 DEF Recover

LEMMA ProbedKeeps ==
  ASSUME Inv, Probed
  PROVE  Inv'
<1>1. /\ at = "probing" /\ at' \in {"standby", "failed"} /\ th[Main].at \in {"finished", "raised"}
      /\ th' = [th EXCEPT ![Main] = NoThread] /\ turn' = turn /\ rest' = rest /\ rest = <<>>
      /\ UNCHANGED <<client, changed, answers>> /\ Main \in Threads
  BY DEF Probed, Ended, speech, Inv, MainPlaces, Threads
<1>2. Replies' /\ th'[Main] = NoThread /\ \A y \in Threads \ {Main} : th'[y] = th[y]
  BY <1>1, Idle, Freed DEF Requests, Harmless
<1>3. Given'
  BY <1>1, <1>2, Idle DEF Inv, Given
<1>4. MainPlaces'
  BY <1>1, <1>2, Idle DEF MainPlaces
<1>5. Unasked' /\ Answering'
  BY <1>1 DEF Unasked, Answering
<1> QED
  BY <1>2, <1>3, <1>4, <1>5 DEF Inv

LEMMA StopKeeps ==
  ASSUME Inv, StopSeen \/ Close \/ Stop
  PROVE  Inv'
<1>1. CASE StopSeen
  <2>1. /\ at = "standby" /\ at' = "closing" /\ worker' = worker /\ turn' = turn /\ Aside
    BY <1>1 DEF StopSeen, speech, Aside
  <2>2. MainPlaces'
    BY <2>1 DEF Inv, MainPlaces, Aside
  <2>3. Unasked' /\ Answering'
    BY <2>1 DEF Unasked, Answering
  <2> QED
    BY <2>1, <2>2, <2>3, StillReplying DEF Inv
<1>2. CASE Close
  <2>1. /\ at = "closing" /\ at' = "stopped" /\ worker' = worker /\ turn' = turn
        /\ th' = th /\ changed' = changed /\ answers' = answers
        /\ client' = [client EXCEPT !.cut = client.open]
    BY <1>2 DEF Close, speech
  <2>2. client' = [client EXCEPT !.cut = client'.cut]
    BY <2>1 DEF Inv, Replies, Shapes, Connected, NoRequest
  <2>3. Connected'
    BY <2>1, <2>2, SameOwner
  <2>4. MainPlaces'
    BY <2>1 DEF Inv, MainPlaces
  <2>5. Unasked' /\ Answering'
    BY <2>1 DEF Unasked, Answering
  <2> QED
    BY <2>1, <2>3, <2>4, <2>5, RepliesKeep, GivenKeeps DEF Inv
<1>3. CASE Stop
  <2>1. Connected'
    BY <1>3 DEF Stop, Inv, Replies, Shapes, Connected, Requests
  <2> QED
    BY <1>3, <2>1, ClientKeeps DEF Stop
<1> QED
  BY <1>1, <1>2, <1>3

LEMMA WatcherKeeps ==
  ASSUME Inv, Expire \/ CutOff \/ UNCHANGED vars
  PROVE  Inv'
<1>1. UNCHANGED <<speech, main, th, changed>>
  BY DEF Expire, CutOff, vars
<1>2. CASE Expire \/ CutOff
  BY <1>1, <1>2, SameOwner, ClientKeeps DEF Expire, CutOff
<1>3. CASE UNCHANGED vars
  <2>1. Connected'
    BY <1>3 DEF vars, Inv, Replies, Shapes, Connected, Requests
  <2> QED
    BY <1>1, <2>1, ClientKeeps
<1> QED
  BY <1>2, <1>3

LEMMA NextKeeps == Inv /\ [Next]_vars => Inv'
<1> SUFFICES ASSUME Inv, [Next]_vars PROVE Inv'
  OBVIOUS
<1>1. CASE Hear
  BY <1>1, HearingKeeps, AskKeeps DEF Hear
<1>2. CASE Serve
  BY <1>2, CollectKeeps, DeliverKeeps, RecoverKeeps, ProbedKeeps, StopKeeps DEF Serve
<1>3. CASE Abandon \/ Speak \/ Stop
  BY <1>3, AbandonKeeps, SpeakKeeps, StopKeeps
<1>4. CASE Expire \/ CutOff \/ UNCHANGED vars
  BY <1>4, WatcherKeeps
<1>5. CASE \E x \in Threads : Work(x) \/ Receive(x)
  BY <1>5, ThreadsKeep
<1> QED
  BY <1>1, <1>2, <1>3, <1>4, <1>5 DEF Next

LEMMA InitInv == Init => Inv
<1> SUFFICES ASSUME Init PROVE Inv
  OBVIOUS
<1>1. /\ turn = 0 /\ at = "standby" /\ rest = <<>> /\ changed = <<>> /\ answers = {}
      /\ th = [x \in Threads |-> NoThread] /\ client = NoRequest
  BY DEF Init
<1>2. Logged(<<>>) /\ DOMAIN <<>> = {}
  <2>1. DOMAIN <<>> = {} /\ <<>> \in Seq({})
    OBVIOUS
  <2>2. {<<>>[i] : i \in DOMAIN <<>>} = {}
    BY <2>1
  <2> QED
    BY <2>1, <2>2 DEF Logged
<1>3. Single(changed)
  BY <1>1, <1>2 DEF Single
<1>4. Connected
  BY <1>1 DEF Connected, NoRequest
<1>5. Shapes /\ Past
  BY <1>1, <1>2, <1>4, Idle DEF Shapes, Past
<1>6. Distinct /\ Probes /\ Working
  BY <1>1, Idle DEF Distinct, Probes, Harmless, Working, Progress
<1>7. Given
  BY <1>1 DEF Given
<1>8. MainPlaces
  BY <1>1, Idle DEF MainPlaces, Threads
<1>9. Unasked /\ Answering
  BY <1>1 DEF Unasked, Answering
<1> QED
  BY <1>3, <1>5, <1>6, <1>7, <1>8, <1>9 DEF Inv, Replies

(* Whatever fails, be it half-way, whichever threads are given up and go on *)
(* beside later questions, and whatever calls the model proposes: no        *)
(* question has two effects, and every answer given is true of what is      *)
(* done for its question, up to the words for a write or a save that failed *)
(* (tool_broker.py execute_calls, operational.py handle, service.py         *)
(* _handle_locked, responses.py environment_error_response).                *)
THEOREM AnswersAreTrue == Spec => []SaidIsDone
<1>1. ASSUME Inv PROVE SaidIsDone
  <2>1. OneEffect
    BY <1>1 DEF Inv, Replies, Single, OneEffect
  <2>2. \A a \in answers : Truthful(a[1], a[2])
    <3>1. \A a \in answers : True(changed, a[1], a[2])
      BY <1>1 DEF Inv, Given
    <3> QED
      BY <3>1 DEF True, Truthful, Done, ChangesOf
  <2> QED
    BY <2>1, <2>2 DEF SaidIsDone
<1> QED
  BY InitInv, NextKeeps, <1>1, PTL DEF Spec

(***************************************************************************)
(* The wake phrase is not lost between two windows: for words and phrases  *)
(* of any kind, any utterances and windows, and whatever words are cut     *)
(* where.                                                                  *)
(***************************************************************************)

(* The words of v from offset o on begin with those of w.                   *)
PartAt(w, v, o) ==
  /\ o \in Nat /\ o + Len(w) <= Len(v)
  /\ \A i \in 1..Len(w) : v[o + i] = w[i]

(* What the tokens of some words say, a joined pair as one.                 *)
LEMMA TokenWords ==
  ASSUME NEW S, NEW w \in Seq(S), NEW j \in Joins(w)
  PROVE  LET n == IF j = 0 THEN Len(w) ELSE Len(w) - 1
         IN  /\ n \in Nat /\ Len(Tokens(w, j)) = n
             /\ j = 0 => \A i \in 1..n : Tokens(w, j)[i].word = w[i]
             /\ j # 0 => /\ j \in 1..n
                         /\ \A i \in 1..n :
                              /\ i < j => Tokens(w, j)[i].word = w[i]
                              /\ i = j => Tokens(w, j)[i].word = Joined(w[i], w[i + 1])
                              /\ i > j => Tokens(w, j)[i].word = w[i + 1]
<1> DEFINE n == IF j = 0 THEN Len(w) ELSE Len(w) - 1
<1>1. n \in Nat /\ j \in Nat /\ (j # 0 => j \in 1..n)
  <2>1. CASE w = <<>>
    BY <2>1 DEF Joins
  <2>2. CASE w # <<>>
    <3>1. Len(w) \in Nat \ {0}
      BY <2>2
    <3> QED
      BY <2>2, <3>1 DEF Joins
  <2> QED
    BY <2>1, <2>2
<1>2. DOMAIN Tokens(w, j) = 1..n
  BY DEF Tokens
<1>3. Len(Tokens(w, j)) = n
  <2>1. Tokens(w, j) \in Seq({Tokens(w, j)[i] : i \in 1..n})
    <3>1. Tokens(w, j) = [i \in 1..n |-> Tokens(w, j)[i]]
      BY DEF Tokens
    <3> HIDE DEF n
    <3> QED
      BY <1>1, <1>2, <3>1
  <2> HIDE DEF n
  <2> QED
    BY <1>1, <1>2, <2>1
<1>4. \A i \in 1..n :
        Tokens(w, j)[i] =
          IF j = 0 \/ i < j THEN [word |-> w[i], end |-> i]
          ELSE [word |-> IF i = j THEN Joined(w[i], w[i + 1]) ELSE w[i + 1], end |-> i + 1]
  BY DEF Tokens
<1>5. /\ j = 0 => \A i \in 1..n : Tokens(w, j)[i].word = w[i]
      /\ j # 0 => \A i \in 1..n :
                    /\ i < j => Tokens(w, j)[i].word = w[i]
                    /\ i = j => Tokens(w, j)[i].word = Joined(w[i], w[i + 1])
                    /\ i > j => Tokens(w, j)[i].word = w[i + 1]
  <2> HIDE DEF n
  <2>1. ASSUME NEW i \in 1..n
        PROVE  Tokens(w, j)[i].word =
                 IF j = 0 \/ i < j THEN w[i]
                 ELSE IF i = j THEN Joined(w[i], w[i + 1]) ELSE w[i + 1]
    <3>1. CASE j = 0 \/ i < j
      <4>1. Tokens(w, j)[i] = [word |-> w[i], end |-> i]
        BY <1>4, <3>1
      <4> QED
        BY <3>1, <4>1
    <3>2. CASE ~ (j = 0 \/ i < j)
      <4>1. Tokens(w, j)[i] =
              [word |-> IF i = j THEN Joined(w[i], w[i + 1]) ELSE w[i + 1], end |-> i + 1]
        BY <1>4, <3>2
      <4> QED
        BY <3>2, <4>1
    <3> QED
      BY <3>1, <3>2
  <2> QED
    BY <1>1, <2>1
<1> QED
  BY <1>1, <1>3, <1>5

LEMMA AliasLengths ==
  ASSUME NEW S, Phrase \in Seq(S), NEW a \in DOMAIN Aliases
  PROVE  Len(Aliases[a]) \in Nat /\ DOMAIN Aliases[a] = 1..Len(Aliases[a])
<1>1. CASE Phrase \in {<<"gonken">>, <<"gon", "ken">>}
  <2>1. Aliases = <<Phrase, <<"gonken">>, <<"hey", "gonken">>, <<"gon", "ken">>,
                    <<"hey", "gon", "ken">>>>
    BY <1>1 DEF Aliases
  <2>2. a \in 1..5
    BY <2>1
  <2>3. Aliases[a] \in {Phrase, <<"gonken">>, <<"hey", "gonken">>, <<"gon", "ken">>,
                        <<"hey", "gon", "ken">>}
    BY <2>1, <2>2
  <2> QED
    BY <2>3
<1>2. CASE Phrase \notin {<<"gonken">>, <<"gon", "ken">>}
  <2>1. Aliases = <<Phrase>>
    BY <1>2 DEF Aliases
  <2> QED
    BY <2>1
<1> QED
  BY <1>1, <1>2

(* A phrase heard in some words is heard in all that contain them.          *)
LEMMA PartMatched ==
  ASSUME NEW S, Phrase \in Seq(S), NEW w \in Seq(S), NEW v \in Seq(S), NEW o, PartAt(w, v, o),
         Matched(w)
  PROVE  Matched(v)
<1>1. PICK m \in (DOMAIN Aliases) \X Joins(w) : Found(w, Aliases[m[1]], m[2]) # {}
  BY DEF Matched, Matches
<1> DEFINE a == m[1]
           j == m[2]
           alias == Aliases[a]
           jv == IF j = 0 THEN 0 ELSE j + o
<1>2. a \in DOMAIN Aliases /\ j \in Joins(w)
  OBVIOUS
<1>3. Len(alias) \in Nat /\ DOMAIN alias = 1..Len(alias)
  BY <1>2, AliasLengths
<1>4. PICK s \in 1..(Len(Tokens(w, j)) + 1 - Len(alias)) :
        \A k \in DOMAIN alias : Heard(Tokens(w, j)[s + k - 1].word, alias[k])
  BY <1>1 DEF Found
<1>5. /\ Len(w) \in Nat /\ Len(v) \in Nat /\ o \in Nat /\ o + Len(w) <= Len(v)
      /\ \A i \in 1..Len(w) : v[o + i] = w[i]
  BY DEF PartAt
<1>6. j \in Nat /\ (j # 0 => j \in 1..(Len(w) - 1))
  BY <1>2, TokenWords
<1>7. jv \in Joins(v)
  <2>1. CASE j = 0
    BY <1>5, <2>1 DEF Joins
  <2>2. CASE j # 0
    <3>1. v # <<>>
      BY <1>5, <1>6, <2>2
    <3> QED
      BY <1>5, <1>6, <2>2, <3>1 DEF Joins
  <2> QED
    BY <2>1, <2>2
<1> HIDE DEF a, alias, j
<1>8. /\ Len(Tokens(w, j)) \in Nat /\ Len(Tokens(v, jv)) \in Nat
      /\ Len(Tokens(w, j)) + o <= Len(Tokens(v, jv))
      /\ \A i \in 1..Len(Tokens(w, j)) : Tokens(v, jv)[i + o].word = Tokens(w, j)[i].word
  <2>1. CASE j = 0
    <3>1. /\ Len(Tokens(w, 0)) = Len(w) /\ Len(Tokens(v, 0)) = Len(v)
          /\ \A i \in 1..Len(w) : Tokens(w, 0)[i].word = w[i]
          /\ \A i \in 1..Len(v) : Tokens(v, 0)[i].word = v[i]
      BY <1>2, <1>7, <2>1, TokenWords
    <3>2. \A i \in 1..Len(w) : i + o \in 1..Len(v) /\ v[i + o] = w[i]
      <4>1. \A i \in 1..Len(w) : i + o = o + i
        BY <1>5
      <4> QED
        BY <1>5, <4>1
    <3> QED
      BY <1>5, <2>1, <3>1, <3>2
  <2>2. CASE j # 0
    <3> DEFINE n == Len(w) - 1
               l == Len(v) - 1
    <3>1. jv = j + o /\ jv # 0
      BY <1>5, <1>6, <2>2
    <3> HIDE DEF jv
    <3>2. /\ n \in Nat /\ Len(Tokens(w, j)) = n /\ j \in 1..n
          /\ \A i \in 1..n : /\ i < j => Tokens(w, j)[i].word = w[i]
                             /\ i = j => Tokens(w, j)[i].word = Joined(w[i], w[i + 1])
                             /\ i > j => Tokens(w, j)[i].word = w[i + 1]
      BY <1>2, <2>2, TokenWords
    <3>3. /\ l \in Nat /\ Len(Tokens(v, jv)) = l
          /\ \A i \in 1..l : /\ i < jv => Tokens(v, jv)[i].word = v[i]
                             /\ i = jv => Tokens(v, jv)[i].word = Joined(v[i], v[i + 1])
                             /\ i > jv => Tokens(v, jv)[i].word = v[i + 1]
      BY <1>7, <3>1, TokenWords
    <3>4. n + o <= l
      BY <1>5
    <3>5. ASSUME NEW i \in 1..n
          PROVE  Tokens(v, jv)[i + o].word = Tokens(w, j)[i].word
      <4>1. i \in 1..Len(w) /\ i + 1 \in 1..Len(w) /\ i + o \in 1..l
        BY <1>5, <3>2, <3>3, <3>4
      <4>2. v[i + o] = w[i] /\ v[i + o + 1] = w[i + 1]
        <5>1. v[o + i] = w[i]
          BY <1>5, <4>1
        <5>2. v[o + (i + 1)] = w[i + 1]
          <6> DEFINE k == i + 1
          <6>1. k \in 1..Len(w)
            BY <4>1
          <6> HIDE DEF k
          <6>2. v[o + k] = w[k]
            BY <1>5, <6>1
          <6> QED
            BY <6>2 DEF k
        <5>3. i + o = o + i /\ i + o + 1 = o + (i + 1)
          BY <1>5, <4>1
        <5> QED
          BY <5>1, <5>2, <5>3
      <4>3. CASE i < j
        BY <1>5, <1>6, <3>1, <3>2, <3>3, <4>1, <4>2, <4>3
      <4>4. CASE i = j
        BY <1>5, <1>6, <3>1, <3>2, <3>3, <4>1, <4>2, <4>4
      <4>5. CASE i > j
        BY <1>5, <1>6, <3>1, <3>2, <3>3, <4>1, <4>2, <4>5
      <4> QED
        BY <1>6, <4>3, <4>4, <4>5
    <3> QED
      BY <3>2, <3>3, <3>4, <3>5
  <2> QED
    BY <2>1, <2>2
<1>9. s + o \in Found(v, alias, jv)
  <2>1. s + o \in 1..(Len(Tokens(v, jv)) + 1 - Len(alias))
    BY <1>3, <1>4, <1>5, <1>8
  <2>2. ASSUME NEW k \in DOMAIN alias
        PROVE  Heard(Tokens(v, jv)[s + o + k - 1].word, alias[k])
    <3>1. s + k - 1 \in 1..Len(Tokens(w, j)) /\ s + o + k - 1 = (s + k - 1) + o
      BY <1>3, <1>4, <1>5, <1>8
    <3> QED
      BY <1>4, <1>8, <3>1
  <2> QED
    BY <2>1, <2>2 DEF Found
<1>10. <<a, jv>> \in Matches(v)
  BY <1>2, <1>7, <1>9 DEF Matches, alias
<1> QED
  BY <1>10 DEF Matched

(* What is being said, and how much of it is recorded.                      *)
Sentence == Whole(spoken)

Recorded == Len(Sentence) - Len(rest)

(* As long as nothing has been understood: what was recorded is the front   *)
(* of what was said, the tail is the end of that, and a wake phrase in it   *)
(* would have been found.                                                   *)
Followed ==
  /\ Catchable(spoken.wake)
  /\ Len(rest) <= Len(Sentence) /\ \A i \in 1..Len(rest) : rest[i] = Sentence[Recorded + i]
  /\ Recorded > 0 =>
       /\ Len(tail) <= Recorded
       /\ \A i \in 1..Len(tail) : tail[i] = Sentence[Recorded - Len(tail) + i]
       /\ rest # <<>> => Len(spoken.wake) <= Len(tail) + 1
  /\ Recorded >= Len(spoken.lead) + Len(spoken.wake) => ~ Matched(spoken.wake)

Listening(Words) ==
  /\ spoken \in Speech(Words) /\ rest \in Seq(Words) /\ tail \in Seq(Words)
  /\ heard = "no" => at \in {"standby", "follow", "closing", "stopped"}
  /\ heard = "no" /\ at = "standby" => Followed

LEMMA JoinedAt ==
  ASSUME NEW S, NEW a \in Seq(S), NEW b \in Seq(S)
  PROVE  /\ a \o b \in Seq(S) /\ Len(a) \in Nat /\ Len(b) \in Nat
         /\ Len(a \o b) = Len(a) + Len(b)
         /\ \A i \in 1..Len(a) : (a \o b)[i] = a[i]
         /\ \A i \in 1..Len(b) : (a \o b)[Len(a) + i] = b[i]
OBVIOUS

LEMMA PartOf ==
  ASSUME NEW S, NEW s \in Seq(S), NEW m \in 0..Len(s)
  PROVE  /\ SubSeq(s, 1, m) \in Seq(S) /\ Len(SubSeq(s, 1, m)) = m
         /\ \A i \in 1..m : SubSeq(s, 1, m)[i] = s[i]
         /\ SubSeq(s, m + 1, Len(s)) \in Seq(S)
         /\ Len(SubSeq(s, m + 1, Len(s))) = Len(s) - m
         /\ \A i \in 1..(Len(s) - m) : SubSeq(s, m + 1, Len(s))[i] = s[m + i]
<1>1. Len(s) \in Nat /\ m \in Nat /\ m <= Len(s)
  OBVIOUS
<1>2. /\ SubSeq(s, 1, m) \in Seq(S) /\ Len(SubSeq(s, 1, m)) = m
      /\ \A i \in 1..m : SubSeq(s, 1, m)[i] = s[i]
  BY <1>1
<1>3. /\ SubSeq(s, m + 1, Len(s)) \in Seq(S)
      /\ Len(SubSeq(s, m + 1, Len(s))) = Len(s) - m
  BY <1>1
<1>4. \A i \in 1..(Len(s) - m) : SubSeq(s, m + 1, Len(s))[i] = s[m + i]
  <2>1. ASSUME NEW i \in 1..(Len(s) - m)
        PROVE  SubSeq(s, m + 1, Len(s))[i] = s[m + 1 + i - 1]
    BY <1>1
  <2>2. \A i \in 1..(Len(s) - m) : m + 1 + i - 1 = m + i
    BY <1>1
  <2> QED
    BY <2>1, <2>2
<1> QED
  BY <1>2, <1>3, <1>4

LEMMA LeastOf ==
  ASSUME NEW k \in Nat, NEW l \in Nat
  PROVE  Min({k, l}) = IF k <= l THEN k ELSE l
<1>1. \E x \in {k, l} : \A y \in {k, l} : x =< y
  <2>1. CASE k <= l
    BY <2>1
  <2>2. CASE ~ (k <= l)
    BY <2>2
  <2> QED
    BY <2>1, <2>2
<1>2. Min({k, l}) \in {k, l} /\ \A y \in {k, l} : Min({k, l}) =< y
  BY <1>1 DEF Min
<1> QED
  BY <1>2

LEMMA CarriedWords ==
  ASSUME NEW S, NEW s \in Seq(S)
  PROVE  LET n == IF Len(s) > 3 THEN 3 ELSE Len(s)
         IN  /\ Carried(s) \in Seq(S) /\ Len(Carried(s)) = n
             /\ \A i \in 1..n : Carried(s)[i] = s[Len(s) - n + i]
<1>1. Len(s) \in Nat
  OBVIOUS
<1>2. CASE Len(s) > 3
  <2> DEFINE m == Len(s) - 3
  <2>1. m \in 0..Len(s) /\ Len(s) - m = 3
    BY <1>1, <1>2
  <2>2. Len(s) - 3 + 1 = m + 1
    OBVIOUS
  <2>3. Carried(s) = SubSeq(s, m + 1, Len(s))
    BY <1>2, <2>2 DEF Carried, TailKept, LastWords, MaxTailWords
  <2> HIDE DEF m
  <2>4. /\ Carried(s) \in Seq(S) /\ Len(Carried(s)) = 3
        /\ \A i \in 1..3 : Carried(s)[i] = s[m + i]
    BY <2>1, <2>3, PartOf
  <2> QED
    BY <1>2, <2>4 DEF m
<1>3. CASE ~ (Len(s) > 3)
  <2>1. Carried(s) = SubSeq(s, 1, Len(s))
    BY <1>3 DEF Carried, TailKept, LastWords, MaxTailWords
  <2>2. /\ Carried(s) \in Seq(S) /\ Len(Carried(s)) = Len(s)
        /\ \A i \in 1..Len(s) : Carried(s)[i] = s[i]
    BY <1>1, <2>1, PartOf
  <2>3. \A i \in 1..Len(s) : Len(s) - Len(s) + i = i
    BY <1>1
  <2> QED
    BY <1>3, <2>2, <2>3
<1> QED
  BY <1>2, <1>3

LEMMA Uttered ==
  ASSUME NEW Words, spoken \in Speech(Words)
  PROVE  /\ spoken.lead \in Seq(Words) /\ spoken.wake \in Seq(Words)
         /\ Len(spoken.lead) \in Nat /\ Len(spoken.wake) \in Nat
         /\ Sentence \in Seq(Words) /\ Len(Sentence) \in Nat
         /\ Len(spoken.lead) + Len(spoken.wake) <= Len(Sentence)
         /\ \A i \in 1..Len(spoken.wake) :
              Sentence[Len(spoken.lead) + i] = spoken.wake[i]
<1> DEFINE l == spoken.lead
           w == spoken.wake
           s == spoken.sentence
           lw == l \o w
<1>1. l \in Seq(Words) /\ w \in Seq(Words) /\ s \in Seq(Words)
  BY DEF Speech
<1>2. Sentence = lw \o s
  BY DEF Sentence, Whole
<1> HIDE DEF l, w, s
<1>3. /\ lw \in Seq(Words) /\ Len(l) \in Nat /\ Len(w) \in Nat /\ Len(lw) = Len(l) + Len(w)
      /\ \A i \in 1..Len(w) : lw[Len(l) + i] = w[i]
  BY <1>1, JoinedAt
<1> HIDE DEF lw
<1>4. /\ Sentence \in Seq(Words) /\ Len(s) \in Nat /\ Len(Sentence) = Len(lw) + Len(s)
      /\ \A i \in 1..Len(lw) : Sentence[i] = lw[i]
  <2>0. lw \in Seq(Words) /\ s \in Seq(Words)
    BY <1>1, <1>3
  <2>1. /\ lw \o s \in Seq(Words) /\ Len(s) \in Nat /\ Len(lw \o s) = Len(lw) + Len(s)
        /\ \A i \in 1..Len(lw) : (lw \o s)[i] = lw[i]
    BY <2>0, JoinedAt
  <2> QED
    BY <1>2, <2>1
<1>5. \A i \in 1..Len(w) : Len(l) + i \in 1..Len(lw)
  BY <1>3
<1>6. \A i \in 1..Len(w) : Sentence[Len(l) + i] = w[i]
  BY <1>3, <1>4, <1>5
<1>7. Len(Sentence) \in Nat /\ Len(l) + Len(w) <= Len(Sentence)
  BY <1>3, <1>4
<1> QED
  BY <1>1, <1>3, <1>4, <1>6, <1>7 DEF l, w

(* One window that is not understood: the recorded front grows by it, and   *)
(* whatever phrase ends in it begins in it or in the tail.                  *)
LEMMA WindowFollowed ==
  ASSUME NEW Words, Said(Words), Listening(Words), heard = "no", at = "standby", rest # <<>>,
         NEW k \in WindowWords, spoken' = spoken,
         LET words == SubSeq(rest, 1, Min({k, Len(rest)}))
         IN  /\ rest' = SubSeq(rest, Len(words) + 1, Len(rest))
             /\ ~ Matched(tail \o words) /\ tail' = Carried(words)
  PROVE  rest' \in Seq(Words) /\ tail' \in Seq(Words) /\ Followed'
<1> DEFINE W == Sentence
           N == Len(W)
           c == Recorded
           m == Min({k, Len(rest)})
           words == SubSeq(rest, 1, m)
           v == tail \o words
           t == Len(tail)
           l == Len(spoken.lead)
           q == Len(spoken.wake)
           n == IF m > 3 THEN 3 ELSE m
<1>1. /\ N \in Nat /\ l \in Nat /\ q \in Nat /\ l + q <= N
      /\ spoken.wake \in Seq(Words)
      /\ \A i \in 1..q : W[l + i] = spoken.wake[i]
  BY Uttered DEF Listening
<1>2. rest \in Seq(Words) /\ tail \in Seq(Words) /\ t \in Nat /\ k \in Nat
  BY DEF Listening, Said
<1>3. /\ Followed /\ Catchable(spoken.wake)
      /\ Len(rest) \in Nat /\ c = N - Len(rest) /\ c \in 0..N /\ Len(rest) = N - c
      /\ \A i \in 1..Len(rest) : rest[i] = W[c + i]
      /\ c > 0 => /\ t <= c /\ q <= t + 1
                  /\ \A i \in 1..t : tail[i] = W[c - t + i]
      /\ c >= l + q => ~ Matched(spoken.wake)
  <2>1. Followed
    BY DEF Listening
  <2>2. Len(rest) \in Nat
    BY <1>2
  <2>3. /\ Catchable(spoken.wake) /\ Len(rest) <= N
        /\ \A i \in 1..Len(rest) : rest[i] = W[c + i]
        /\ c > 0 => /\ t <= c /\ q <= t + 1
                    /\ \A i \in 1..t : tail[i] = W[c - t + i]
        /\ c >= l + q => ~ Matched(spoken.wake)
    BY <2>1 DEF Followed
  <2>4. c = N - Len(rest)
    BY DEF Recorded
  <2> HIDE DEF W, N, c, t, l, q
  <2>5. c \in 0..N /\ Len(rest) = N - c
    BY <1>1, <2>2, <2>3, <2>4
  <2> QED
    BY <2>1, <2>2, <2>3, <2>4, <2>5
<1>4. Sentence' = W /\ Recorded' = N - Len(rest') /\ Recorded = c
  BY DEF Sentence, Recorded, Whole
<1> HIDE DEF W, N, c, t, l, q
<1>5. m \in 0..Len(rest) /\ m <= k /\ (m = Len(rest) \/ m = k)
  <2>1. m = IF k <= Len(rest) THEN k ELSE Len(rest)
    BY <1>2, <1>3, LeastOf
  <2> HIDE DEF m
  <2> QED
    BY <1>2, <1>3, <2>1
<1> HIDE DEF m
<1>6. /\ words \in Seq(Words) /\ Len(words) = m /\ \A i \in 1..m : words[i] = rest[i]
  BY <1>2, <1>5, PartOf
<1>7. rest' = SubSeq(rest, m + 1, Len(rest)) /\ tail' = Carried(words) /\ ~ Matched(v)
  BY <1>6 DEF m
<1>8. /\ rest' \in Seq(Words) /\ Len(rest') = Len(rest) - m
      /\ \A i \in 1..(Len(rest) - m) : rest'[i] = rest[m + i]
  <2> DEFINE r == SubSeq(rest, m + 1, Len(rest))
  <2>1. /\ r \in Seq(Words) /\ Len(r) = Len(rest) - m
        /\ \A i \in 1..(Len(rest) - m) : r[i] = rest[m + i]
    BY <1>2, <1>5, PartOf
  <2> HIDE DEF r
  <2>2. rest' = r
    BY <1>7 DEF r
  <2> QED
    BY <2>1, <2>2
<1> HIDE DEF words
<1>9. /\ tail' \in Seq(Words) /\ Len(tail') = n
      /\ \A i \in 1..n : tail'[i] = words[m - n + i]
  <2> DEFINE r == Carried(words)
  <2>1. /\ r \in Seq(Words) /\ Len(r) = n /\ \A i \in 1..n : r[i] = words[m - n + i]
    BY <1>6, CarriedWords
  <2> HIDE DEF r, n
  <2>2. tail' = r
    BY <1>7 DEF r
  <2> QED
    BY <2>1, <2>2
<1>10. /\ v \in Seq(Words) /\ Len(v) = t + m
       /\ \A i \in 1..t : v[i] = tail[i]
       /\ \A i \in 1..m : v[t + i] = words[i]
  <2>1. /\ v \in Seq(Words) /\ Len(v) = Len(tail) + Len(words)
        /\ \A i \in 1..Len(tail) : v[i] = tail[i]
        /\ \A i \in 1..Len(words) : v[Len(tail) + i] = words[i]
    <3>1. tail \in Seq(Words) /\ words \in Seq(Words)
      BY <1>2, <1>6
    <3> QED
      BY <3>1, JoinedAt
  <2> QED
    BY <1>6, <2>1 DEF t
<1> HIDE DEF v
<1>11. Recorded' = c + m /\ Len(rest') <= N
  <2> DEFINE r == Len(rest)
             s == Len(rest')
  <2>1. s = r - m /\ r = N - c /\ r \in Nat /\ m \in 0..r /\ Recorded' = N - s
    BY <1>3, <1>4, <1>5, <1>8
  <2> HIDE DEF r, s
  <2>2. N - s = c + m /\ s <= N
    BY <1>1, <1>3, <2>1
  <2> QED
    BY <2>1, <2>2 DEF s
<1>12. /\ N \in Nat /\ l \in Nat /\ q \in Nat /\ t \in Nat /\ k \in Nat /\ c \in Nat /\ m \in Nat
       /\ l + q <= N /\ c + m <= N /\ m <= k
       /\ c > 0 => t <= c /\ q <= t + 1
  <2>1. Len(rest) \in Nat /\ m <= Len(rest) /\ m \in Nat
    BY <1>3, <1>5
  <2>2. c \in Nat /\ c + m <= N
    BY <1>1, <1>3, <2>1
  <2> QED
    BY <1>1, <1>2, <1>3, <1>5, <2>1, <2>2
<1>13. ASSUME NEW i \in 1..m PROVE words[i] = W[c + i]
  <2>1. Len(rest) \in Nat /\ m \in 0..Len(rest)
    BY <1>3, <1>5
  <2>2. i \in 1..Len(rest)
    BY <2>1
  <2>3. words[i] = rest[i]
    BY <1>6
  <2>4. rest[i] = W[c + i]
    BY <1>3, <2>2
  <2> QED
    BY <2>3, <2>4
<1>14. ASSUME NEW i \in 1..Len(rest') PROVE rest'[i] = W[c + m + i]
  <2>1. /\ i \in 1..(Len(rest) - m)
    BY <1>8
  <2>2. m + i \in 1..Len(rest)
    BY <1>3, <1>12, <2>1
  <2>3. rest[m + i] = W[c + (m + i)]
    BY <1>3, <2>2
  <2>4. c + (m + i) = c + m + i
    BY <1>12, <2>1
  <2> QED
    BY <1>8, <2>1, <2>3, <2>4
<1>15. n \in Nat /\ n <= m /\ (m = k => q <= n + 1)
  <2>1. q <= 4 /\ q <= k + 1
    BY <1>3 DEF Catchable, MaxTailWords, q
  <2> QED
    BY <1>1, <1>2, <1>5, <2>1
<1> HIDE DEF n
<1>16. ASSUME NEW i \in 1..Len(tail') PROVE tail'[i] = W[c + m - n + i]
  <2>1. i \in 1..n
    BY <1>9
  <2>2. m - n + i \in 1..m /\ c + (m - n + i) = c + m - n + i
    BY <1>15, <1>12, <2>1
  <2>3. words[m - n + i] = W[c + (m - n + i)]
    BY <1>13, <2>2
  <2> QED
    BY <1>9, <2>1, <2>2, <2>3
<1>17. ASSUME c + m >= l + q PROVE ~ Matched(spoken.wake)
  <2>1. CASE c >= l + q
    BY <1>3, <2>1
  <2>2. CASE c < l + q /\ c = 0
    <3> DEFINE o == t + l
    <3>1. o \in Nat /\ o + q <= Len(v)
      BY <1>10, <1>17, <1>12, <2>2
    <3>2. ASSUME NEW i \in 1..q PROVE v[o + i] = spoken.wake[i]
      <4>1. l + i \in 1..m /\ o + i = t + (l + i) /\ c + (l + i) = l + i
        BY <1>17, <1>12, <2>2
      <4>2. v[t + (l + i)] = words[l + i] /\ words[l + i] = W[c + (l + i)]
        BY <1>10, <1>13, <4>1
      <4>3. W[l + i] = spoken.wake[i]
        BY <1>1
      <4> QED
        BY <4>1, <4>2, <4>3
    <3> HIDE DEF o
    <3>3. PartAt(spoken.wake, v, o)
      BY <3>1, <3>2 DEF PartAt, q
    <3> QED
      BY <1>1, <1>7, <1>10, <3>3, PartMatched DEF Said
  <2>3. CASE c < l + q /\ c > 0
    <3> DEFINE o == l - (c - t)
    <3>1. o \in Nat /\ o + q <= t + m /\ Len(v) = t + m
      <4>1. t <= c /\ q <= t + 1 /\ c < l + q
        BY <1>12, <2>3
      <4>2. l \in Nat /\ q \in Nat /\ t \in Nat /\ c \in Nat /\ m \in Nat
        BY <1>12
      <4> HIDE DEF o
      <4>3. o = l - (c - t)
        BY DEF o
      <4>4. o \in Nat
        BY <4>1, <4>2, <4>3
      <4>5. o + q <= t + m
        BY <1>17, <4>1, <4>2, <4>3
      <4> QED
        BY <1>10, <4>4, <4>5
    <3>2. ASSUME NEW j \in 1..(t + m) PROVE v[j] = W[c - t + j]
      <4>1. CASE j <= t
        <5>1. j \in 1..t
          BY <1>12, <4>1
        <5> QED
          BY <1>3, <1>10, <2>3, <5>1
      <4>2. CASE j > t
        <5> DEFINE i == j - t
        <5>1. i \in 1..m /\ t + i = j /\ c + i = c - t + j
          BY <1>12, <4>2
        <5> HIDE DEF i
        <5>2. v[t + i] = words[i] /\ words[i] = W[c + i]
          BY <1>10, <1>13, <5>1
        <5> QED
          BY <5>1, <5>2
      <4> QED
        BY <1>12, <4>1, <4>2
    <3>3. ASSUME NEW i \in 1..q PROVE v[o + i] = spoken.wake[i]
      <4>1. o + i \in 1..(t + m)
        <5> HIDE DEF o
        <5> QED
          BY <1>12, <3>1
      <4>2. c - t + (o + i) = l + i
        BY <1>12
      <4>3. v[o + i] = W[c - t + (o + i)]
        BY <3>2, <4>1
      <4>4. W[l + i] = spoken.wake[i]
        BY <1>1
      <4> QED
        BY <4>2, <4>3, <4>4
    <3> HIDE DEF o
    <3>4. PartAt(spoken.wake, v, o)
      BY <3>1, <3>3 DEF PartAt, q
    <3> QED
      BY <1>1, <1>7, <1>10, <3>4, PartMatched DEF Said
  <2> QED
    BY <1>12, <2>1, <2>2, <2>3
<1>18. rest' # <<>> => m = k
  <2>1. ASSUME NEW r \in Seq(Words), Len(r) = 0 PROVE r = <<>>
    BY <2>1
  <2>2. rest' # <<>> => Len(rest') # 0
    BY <1>8, <2>1
  <2>3. Len(rest) - m # 0 => m = k
    BY <1>3, <1>5
  <2> QED
    BY <1>8, <2>2, <2>3
<1>19. Followed'
  <2>1. Catchable(spoken.wake)'
    BY <1>3 DEF Catchable
  <2>2. /\ (Len(rest) <= Len(Sentence))'
        /\ (\A i \in 1..Len(rest) : rest[i] = Sentence[Recorded + i])'
    BY <1>4, <1>11, <1>14 DEF N
  <2>3. (Recorded > 0 => /\ Len(tail) <= Recorded
                         /\ \A i \in 1..Len(tail) : tail[i] = Sentence[Recorded - Len(tail) + i]
                         /\ rest # <<>> => Len(spoken.wake) <= Len(tail) + 1)'
    <3>1. Len(tail') <= Recorded'
      <4>1. n <= c + m
        BY <1>15, <1>12
      <4>2. Len(tail') = n /\ Recorded' = c + m
        BY <1>9, <1>11
      <4> QED
        BY <4>1, <4>2
    <3>2. \A i \in 1..Len(tail') : tail'[i] = Sentence'[Recorded' - Len(tail') + i]
      <4>1. Len(tail') = n /\ Recorded' = c + m /\ Sentence' = W
        BY <1>4, <1>9, <1>11
      <4>2. ASSUME NEW i \in 1..Len(tail')
            PROVE  tail'[i] = Sentence'[Recorded' - Len(tail') + i]
        <5>1. tail'[i] = W[c + m - n + i]
          BY <1>16
        <5>2. Recorded' - Len(tail') + i = c + m - n + i
          <6> DEFINE r == Recorded'
                     s == Len(tail')
          <6> HIDE DEF n
          <6>1. r = c + m /\ s = n
            BY <4>1
          <6>2. s \in Nat
            BY <6>1, <1>15
          <6>3. i \in Nat
            BY <6>2
          <6> HIDE DEF r, s
          <6>4. r - s + i = c + m - n + i
            BY <6>1, <6>2, <6>3, <1>12, <1>15
          <6> QED
            BY <6>4 DEF r, s
        <5> QED
          BY <4>1, <5>1, <5>2
      <4> QED
        BY <4>2
    <3>3. rest' # <<>> => Len(spoken'.wake) <= Len(tail') + 1
      BY <1>9, <1>15, <1>18 DEF q
    <3> QED
      BY <3>1, <3>2, <3>3
  <2>4. (Recorded >= Len(spoken.lead) + Len(spoken.wake) => ~ Matched(spoken.wake))'
    <3>1. Matched(spoken'.wake) <=> Matched(spoken.wake)
      OBVIOUS
    <3>2. Recorded' >= Len(spoken'.lead) + Len(spoken'.wake) => ~ Matched(spoken.wake)
      BY <1>11, <1>17 DEF l, q
    <3> QED
      BY <3>1, <3>2 DEF Matched, Matches, Found, Tokens, Joins, Aliases
  <2> QED
    BY <2>1, <2>2, <2>3, <2>4 DEF Followed
<1> QED
  BY <1>8, <1>9, <1>19

(* Of no words there are no tokens.                                         *)
LEMMA NoTokens == Len(Tokens(<<>>, 0)) = 0
<1>1. Tokens(<<>>, 0) = [i \in 1..0 |-> [word |-> <<>>[i], end |-> i]]
  BY DEF Tokens
<1> QED
  BY <1>1

LEMMA NothingHeard == ASSUME NEW S, Phrase \in Seq(S) PROVE ~ Matched(<<>>)
<1> SUFFICES ASSUME NEW m \in (DOMAIN Aliases) \X Joins(<<>>),
                    NEW s \in Found(<<>>, Aliases[m[1]], m[2])
             PROVE  FALSE
  BY DEF Matched, Matches
<1>1. m[1] \in DOMAIN Aliases /\ m[2] \in Joins(<<>>) /\ <<>> \in Seq(S) /\ Len(<<>>) = 0
  OBVIOUS
<1>2. m[2] = 0
  BY <1>1 DEF Joins
<1>3. Len(Tokens(<<>>, 0)) = 0
  BY NoTokens
<1>4. Len(Aliases[m[1]]) \in Nat \ {0}
  <2>1. CASE Phrase \in {<<"gonken">>, <<"gon", "ken">>}
    <3>1. Aliases = <<Phrase, <<"gonken">>, <<"hey", "gonken">>, <<"gon", "ken">>,
                      <<"hey", "gon", "ken">>>>
      BY <2>1 DEF Aliases
    <3>2. m[1] \in 1..5
      BY <1>1, <3>1
    <3>3. Aliases[m[1]] \in {<<"gonken">>, <<"gon", "ken">>, <<"hey", "gonken">>,
                             <<"hey", "gon", "ken">>}
      BY <2>1, <3>1, <3>2
    <3> DEFINE alias == Aliases[m[1]]
    <3>4. CASE alias = <<"gonken">>
      <4>1. Len(alias) = 1
        BY <3>4
      <4> QED
        BY <4>1
    <3>5. CASE alias \in {<<"gon", "ken">>, <<"hey", "gonken">>}
      <4>1. Len(alias) = 2
        BY <3>5
      <4> QED
        BY <4>1
    <3>6. CASE alias = <<"hey", "gon", "ken">>
      <4>1. Len(alias) = 3
        BY <3>6
      <4> QED
        BY <4>1
    <3> QED
      BY <3>3, <3>4, <3>5, <3>6
  <2>2. CASE Phrase \notin {<<"gonken">>, <<"gon", "ken">>}
    <3>1. Aliases[m[1]] = Phrase
      BY <1>1, <2>2 DEF Aliases
    <3> QED
      BY <3>1, PhraseAssumption
  <2> QED
    BY <2>1, <2>2
<1>5. s \in 1..(0 + 1 - Len(Aliases[m[1]]))
  BY <1>2, <1>3 DEF Found
<1> QED
  BY <1>4, <1>5

(* Where nothing is said, heard and done.                                   *)
LEMMA Elsewhere ==
  ASSUME NEW Words, Listening(Words), spoken' = spoken, rest' = rest, tail' = tail,
         heard' = heard,
         at' = at \/ heard # "no" \/ at' \in {"closing", "stopped"}
  PROVE  Listening(Words)'
<1>1. heard' = "no" => at' \in {"standby", "follow", "closing", "stopped"}
  BY DEF Listening
<1>2. ASSUME heard' = "no", at' = "standby" PROVE Followed'
  <2>1. Followed
    BY <1>2 DEF Listening
  <2>2. Sentence' = Sentence /\ Recorded' = Recorded
    BY DEF Sentence, Recorded, Whole
  <2>3. spoken' = spoken /\ rest' = rest /\ tail' = tail
    OBVIOUS
  <2>4. Followed' <=> Followed
    BY <2>2, <2>3 DEF Followed, Catchable, Matched, Matches, Found, Tokens, Joins, Aliases
  <2> QED
    BY <2>1, <2>4
<1> QED
  BY <1>1, <1>2 DEF Listening, Speech

LEMMA Understood ==
  ASSUME NEW Words, heard' # "no", spoken' \in Speech(Words), rest' \in Seq(Words),
         tail' \in Seq(Words)
  PROVE  Listening(Words)'
BY DEF Listening, Speech

LEMMA SpeakListens ==
  ASSUME NEW Words, Said(Words), WakeFits, Listening(Words), turn \in Nat, Speak
  PROVE  Listening(Words)'
<1>1. PICK u \in Utterances[turn + 1] :
        spoken' = u /\ rest' = u.lead \o u.wake \o u.sentence
  BY DEF Speak, Whole
<1>2. turn + 1 \in DOMAIN Utterances
  BY DEF Speak, Said
<1>3. u \in Speech(Words) /\ Catchable(u.wake)
  <2>1. Utterances[turn + 1] \subseteq Speech(Words)
    BY <1>2 DEF Said
  <2> QED
    BY <1>1, <1>2, <2>1 DEF WakeFits, Sayings
<1>4. /\ tail' = tail /\ tail \in Seq(Words) /\ at' = "standby" /\ heard' = "no"
  BY DEF Speak, main, Listening
<1>5. Sentence' = rest'
  BY <1>1 DEF Sentence, Whole
<1>6. u.lead \in Seq(Words) /\ u.wake \in Seq(Words) /\ u.sentence \in Seq(Words)
  BY <1>3 DEF Speech
<1>7. u.lead \o u.wake \in Seq(Words) /\ rest' \in Seq(Words)
  BY <1>1, <1>6
<1>8. Len(rest') \in Nat /\ Recorded' = 0
  BY <1>5, <1>7 DEF Recorded
<1>9. Followed'
  <2>1. Catchable(spoken.wake)'
    BY <1>1, <1>3 DEF Catchable
  <2>2. (Len(rest) <= Len(Sentence))'
    BY <1>5, <1>8
  <2>3. (\A i \in 1..Len(rest) : rest[i] = Sentence[Recorded + i])'
    <3>1. \A i \in 1..Len(rest') : 0 + i = i
      OBVIOUS
    <3> QED
      BY <1>5, <1>8, <3>1
  <2>4. ~ (Recorded' > 0)
    BY <1>8
  <2>5. (Recorded >= Len(spoken.lead) + Len(spoken.wake) => ~ Matched(spoken.wake))'
    <3>1. SUFFICES ASSUME Recorded' >= Len(u.lead) + Len(u.wake) PROVE ~ Matched(u.wake)'
      BY <1>1
    <3>2. Len(u.lead) \in Nat /\ Len(u.wake) \in Nat
      BY <1>6
    <3>3. Len(u.wake) = 0
      <4> DEFINE a == Len(u.lead)
                 b == Len(u.wake)
      <4>1. a \in Nat /\ b \in Nat /\ 0 >= a + b
        BY <1>8, <3>1, <3>2
      <4> HIDE DEF a, b
      <4>2. b = 0
        BY <4>1
      <4> QED
        BY <4>2 DEF b
    <3>4. u.wake = <<>>
      BY <1>6, <3>3
    <3> QED
      BY <3>4, NothingHeard DEF Said
  <2> QED
    BY <2>1, <2>2, <2>3, <2>4, <2>5 DEF Followed
<1> QED
  BY <1>1, <1>3, <1>4, <1>7, <1>9 DEF Listening, Speech

LEMMA WindowListens ==
  ASSUME NEW Words, Said(Words), Listening(Words), Window
  PROVE  Listening(Words)'
<1>1. PICK k \in WindowWords :
        LET words == SubSeq(rest, 1, Min({k, Len(rest)}))
        IN /\ rest # <<>>
           /\ rest' = SubSeq(rest, Len(words) + 1, Len(rest))
           /\ IF Matched(tail \o words)
              THEN initial' = Remainder(tail \o words) /\ tail' = <<>> /\ at' = "follow"
              ELSE tail' = Carried(words) /\ UNCHANGED <<initial, at>>
  BY DEF Window
<1> DEFINE m == Min({k, Len(rest)})
           words == SubSeq(rest, 1, m)
<1>2. /\ at = "standby" /\ spoken' = spoken /\ heard' = heard /\ spoken \in Speech(Words)
      /\ rest \in Seq(Words) /\ k \in Nat
  BY DEF Window, Listening, Said
<1>3. m \in 0..Len(rest)
  <2>1. Len(rest) \in Nat
    BY <1>2
  <2> HIDE DEF m
  <2>2. m = IF k <= Len(rest) THEN k ELSE Len(rest)
    BY <1>2, <2>1, LeastOf DEF m
  <2> QED
    BY <1>2, <2>1, <2>2
<1> HIDE DEF m
<1>4. words \in Seq(Words) /\ Len(words) = m
  BY <1>2, <1>3, PartOf
<1>5. rest' \in Seq(Words)
  <2>1. SubSeq(rest, m + 1, Len(rest)) \in Seq(Words)
    BY <1>2, <1>3, PartOf
  <2>2. rest' = SubSeq(rest, m + 1, Len(rest))
    BY <1>1, <1>4 DEF m
  <2> QED
    BY <2>1, <2>2
<1>6. tail' \in Seq(Words)
  <2>1. <<>> \in Seq(Words)
    OBVIOUS
  <2>2. tail' = <<>> \/ tail' = Carried(words)
    BY <1>1 DEF m
  <2> HIDE DEF words
  <2>3. words \in Seq(Words)
    BY <1>4
  <2>4. Carried(words) \in Seq(Words)
    BY <2>3, CarriedWords
  <2> QED
    BY <2>1, <2>2, <2>4
<1>7. at' \in {"standby", "follow"}
  BY <1>1, <1>2
<1>8. ASSUME heard' = "no", at' = "standby" PROVE Followed'
  <2>1. ~ Matched(tail \o words) /\ tail' = Carried(words)
    BY <1>1, <1>8 DEF m
  <2> QED
    BY <1>1, <1>2, <1>8, <2>1, WindowFollowed DEF m
<1> QED
  BY <1>2, <1>5, <1>6, <1>7, <1>8 DEF Listening, Speech

LEMMA NextListens ==
  ASSUME NEW Words, Said(Words), WakeFits, Listening(Words), Inv, [Next]_vars
  PROVE  Listening(Words)'
<1>1. /\ spoken \in Speech(Words) /\ rest \in Seq(Words) /\ tail \in Seq(Words)
      /\ heard = "no" => at \in {"standby", "follow", "closing", "stopped"}
      /\ Silence \in Speech(Words) /\ <<>> \in Seq(Words) /\ turn \in Nat
  BY DEF Listening, Silence, Speech, Inv, Replies, Shapes
<1>2. CASE UNCHANGED <<speech, main>>
  BY <1>2, Elsewhere DEF speech, main
<1>3. CASE FollowUp
  <2>1. heard' \in {"whole", "cut", "partly"}
    BY <1>3 DEF FollowUp
  <2>2. heard' # "no" /\ spoken' = spoken /\ rest' = <<>> /\ tail' = tail
    BY <1>3, <2>1 DEF FollowUp
  <2> QED
    BY <1>1, <2>2, Understood
<1>4. CASE Ask
  <2>1. /\ rest' = rest /\ tail' = tail /\ at = "ask"
        /\ \/ spoken' = spoken /\ heard' = heard
           \/ spoken' = Silence /\ heard' = "whole"
    BY <1>4 DEF Ask
  <2>2. heard' # "no" /\ spoken' \in Speech(Words)
    BY <1>1, <2>1
  <2> QED
    BY <1>1, <2>1, <2>2, Understood
<1>5. CASE Collect \/ Abandon \/ Probed \/ StopSeen \/ Close
  <2>1. /\ UNCHANGED speech
        /\ at \in {"await", "probing"} \/ at' \in {"closing", "stopped"}
    BY <1>5 DEF Collect, Abandon, Probed, StopSeen, Close
  <2> QED
    BY <1>1, <2>1, Elsewhere DEF speech
<1>6. CASE Deliver \/ Recover
  <2>1. heard' = "whole" /\ spoken' = Silence /\ rest' = rest /\ tail' = tail
    BY <1>6 DEF Deliver, Recover
  <2> QED
    BY <1>1, <2>1, Understood
<1>7. CASE Speak
  BY <1>1, <1>7, SpeakListens
<1>8. CASE Window
  BY <1>8, WindowListens
<1>9. CASE \/ Stop \/ Expire \/ CutOff \/ UNCHANGED vars
           \/ \E x \in Threads : Work(x) \/ Receive(x)
  <2>1. UNCHANGED <<speech, main>>
    BY <1>9 DEF Stop, Expire, CutOff, vars, Work, Receive, Handle, Acquire, Connect, Check,
       Broken, Parse, Execute, Vanish
  <2> QED
    BY <1>2, <2>1
<1> QED
  BY <1>3, <1>4, <1>5, <1>6, <1>7, <1>8, <1>9 DEF Next, Hear, Serve

LEMMA InitListens == ASSUME NEW Words PROVE Init => Listening(Words)
<1> SUFFICES ASSUME Init PROVE Listening(Words)
  OBVIOUS
<1>1. spoken = Silence /\ rest = <<>> /\ tail = <<>> /\ heard = "whole"
  BY DEF Init
<1> QED
  BY <1>1 DEF Listening, Silence, Speech

LEMMA ListeningHears ==
  ASSUME NEW Words, Listening(Words)
  PROVE  SplitWakeHeard
<1> SUFFICES ASSUME heard = "no", at = "standby", ~ (Len(rest) > Len(spoken.sentence))
             PROVE  ~ Matched(spoken.wake)
  BY DEF SplitWakeHeard
<1> DEFINE l == spoken.lead
           w == spoken.wake
           s == spoken.sentence
           lw == l \o w
<1>1. l \in Seq(Words) /\ w \in Seq(Words) /\ s \in Seq(Words)
  BY DEF Listening, Speech
<1>2. Followed /\ rest \in Seq(Words) /\ Len(rest) \in Nat
  BY DEF Listening
<1>3. Sentence = lw \o s
  BY DEF Sentence, Whole
<1>4. Recorded >= Len(l) + Len(w) => ~ Matched(spoken.wake)
  BY <1>2 DEF Followed
<1>5. ~ (Len(rest) > Len(s))
  OBVIOUS
<1> HIDE DEF l, w, s
<1>6. lw \in Seq(Words) /\ Len(lw) = Len(l) + Len(w) /\ Len(l) \in Nat /\ Len(w) \in Nat
  BY <1>1, JoinedAt
<1> HIDE DEF lw
<1>7. Len(lw \o s) = Len(lw) + Len(s) /\ Len(s) \in Nat
  <2>1. lw \in Seq(Words)
    BY <1>6
  <2> QED
    BY <1>1, <2>1, JoinedAt
<1>8. Recorded = Len(lw) + Len(s) - Len(rest)
  BY <1>3, <1>7 DEF Recorded
<1>9. Recorded >= Len(l) + Len(w)
  BY <1>2, <1>5, <1>6, <1>7, <1>8
<1> QED
  BY <1>4, <1>9

(* The wake phrase is noticed wherever the windows cut it, in whatever is   *)
(* said before and behind it, misheard or in two pieces: as long as it is   *)
(* no longer than the tail and one word, and no longer than any window of   *)
(* running speech and one word (voice_runtime.py                            *)
(* RollingWakeTranscriptMatcher).                                           *)
THEOREM WakeIsHeard ==
  ASSUME NEW CONSTANT Words, Said(Words), WakeFits
  PROVE  Spec => []SplitWakeHeard
<1>1. Listening(Words) /\ Inv /\ [Next]_vars => Listening(Words)'
  BY NextListens
<1>2. Init => Listening(Words)
  BY InitListens
<1>3. Listening(Words) => SplitWakeHeard
  BY ListeningHears
<1> QED
  BY <1>1, <1>2, <1>3, InitInv, NextKeeps, PTL DEF Spec
-----------------------------------------------------------------------------
(* What the windows make of a sentence: its parts, as parts of the whole.   *)

LEMMA Slice ==
  ASSUME NEW S, NEW s \in Seq(S), NEW a \in 1..(Len(s) + 1), NEW b \in (a - 1)..Len(s)
  PROVE  /\ SubSeq(s, a, b) \in Seq(S) /\ Len(SubSeq(s, a, b)) = b - a + 1
         /\ b - a + 1 \in Nat
         /\ \A i \in 1..(b - a + 1) : SubSeq(s, a, b)[i] = s[a + i - 1]
<1>1. Len(s) \in Nat /\ a \in Nat /\ b \in Nat /\ 1 <= a /\ a - 1 <= b /\ b <= Len(s)
  OBVIOUS
<1>2. SubSeq(s, a, b) \in Seq(S)
  BY <1>1
<1>3. Len(SubSeq(s, a, b)) = b - a + 1 /\ b - a + 1 \in Nat
  <2>1. Len(SubSeq(s, a, b)) = IF a <= b THEN b - a + 1 ELSE 0
    BY <1>1
  <2> QED
    BY <1>1, <2>1
<1>4. ASSUME NEW i \in 1..(b - a + 1) PROVE SubSeq(s, a, b)[i] = s[a + i - 1]
  BY <1>1
<1> QED
  BY <1>2, <1>3, <1>4

LEMMA SameWords ==
  ASSUME NEW S, NEW s \in Seq(S), NEW t \in Seq(S), Len(s) = Len(t),
         \A i \in 1..Len(s) : s[i] = t[i]
  PROVE  s = t
<1>1. s = [i \in 1..Len(s) |-> s[i]] /\ t = [i \in 1..Len(t) |-> t[i]]
  OBVIOUS
<1> QED
  BY <1>1

(* A part of a part.                                                        *)
LEMMA SliceOfSlice ==
  ASSUME NEW S, NEW s \in Seq(S), NEW a \in 1..(Len(s) + 1), NEW b \in (a - 1)..Len(s),
         NEW p \in 1..(b - a + 2), NEW q \in (p - 1)..(b - a + 1)
  PROVE  SubSeq(SubSeq(s, a, b), p, q) = SubSeq(s, a + p - 1, a + q - 1)
<1> DEFINE u == SubSeq(s, a, b)
           v == SubSeq(u, p, q)
           w == SubSeq(s, a + p - 1, a + q - 1)
           x == a + p - 1
           y == a + q - 1
<1>1. /\ Len(s) \in Nat /\ a \in Nat /\ b \in Nat /\ p \in Nat /\ q \in Nat
      /\ 1 <= a /\ a - 1 <= b /\ b <= Len(s) /\ 1 <= p /\ p - 1 <= q /\ q <= b - a + 1
  <2>1. Len(s) \in Nat /\ a \in Nat
    OBVIOUS
  <2>2. b \in Nat
    BY <2>1
  <2> QED
    BY <2>1, <2>2
<1>2. /\ u \in Seq(S) /\ Len(u) = b - a + 1
      /\ \A i \in 1..(b - a + 1) : u[i] = s[a + i - 1]
  BY Slice
<1> HIDE DEF u
<1>3. p \in 1..(Len(u) + 1) /\ q \in (p - 1)..Len(u)
  BY <1>1, <1>2
<1>4. /\ v \in Seq(S) /\ Len(v) = q - p + 1
      /\ \A i \in 1..(q - p + 1) : v[i] = u[p + i - 1]
  BY <1>2, <1>3, Slice
<1>5. x \in 1..(Len(s) + 1) /\ y \in (x - 1)..Len(s) /\ y - x + 1 = q - p + 1
  BY <1>1
<1>6. w = SubSeq(s, x, y) /\ x = a + p - 1 /\ y = a + q - 1
  OBVIOUS
<1> HIDE DEF v, w, x, y
<1>7. /\ w \in Seq(S) /\ Len(w) = q - p + 1
      /\ \A i \in 1..(q - p + 1) : w[i] = s[x + i - 1]
  BY <1>5, <1>6, Slice
<1>8. ASSUME NEW i \in 1..Len(v) PROVE v[i] = w[i]
  <2>1. i \in 1..(q - p + 1) /\ i \in Nat
    BY <1>1, <1>4
  <2>2. p + i - 1 \in 1..(b - a + 1) /\ a + (p + i - 1) - 1 = x + i - 1
    BY <1>1, <1>6, <2>1
  <2>3. u[p + i - 1] = s[a + (p + i - 1) - 1]
    BY <1>2, <2>2
  <2> QED
    BY <1>4, <1>7, <2>1, <2>2, <2>3
<1>9. v = w
  BY <1>4, <1>7, <1>8, SameWords
<1> QED
  BY <1>9 DEF v, w, u

LEMMA AllOf == ASSUME NEW S, NEW s \in Seq(S) PROVE SubSeq(s, 1, Len(s)) = s
<1> DEFINE t == SubSeq(s, 1, Len(s))
<1>1. Len(s) \in Nat
  OBVIOUS
<1>2. t \in Seq(S) /\ Len(t) = Len(s) /\ \A i \in 1..Len(s) : t[i] = s[i]
  BY <1>1, PartOf
<1> HIDE DEF t
<1>3. t = s
  BY <1>2, SameWords
<1> QED
  BY <1>3 DEF t

(* What is carried out of a part is the end of all that is recorded.        *)
LEMMA CarriedEnds ==
  ASSUME NEW S, NEW s \in Seq(S), NEW c \in 0..Len(s), NEW m \in 0..(Len(s) - c)
  PROVE  Carried(SubSeq(s, c + 1, c + m)) \in Ends(SubSeq(s, 1, c + m))
<1> DEFINE b == c + m
           n == IF m > 3 THEN 3 ELSE m
           words == SubSeq(s, c + 1, b)
           front == SubSeq(s, 1, b)
<1>1. Len(s) \in Nat /\ c \in Nat /\ m \in Nat /\ b \in 0..Len(s) /\ c <= b /\ m = b - c
  <2>1. Len(s) \in Nat /\ c \in Nat
    OBVIOUS
  <2>2. m \in Nat
    BY <2>1
  <2> QED
    BY <2>1, <2>2
<1>2. n \in 0..3 /\ n <= m /\ (m > n => n = 3) /\ n <= b
  BY <1>1
<1>3. words \in Seq(S) /\ Len(words) = m
  <2>1. c + 1 \in 1..(Len(s) + 1) /\ b \in (c + 1 - 1)..Len(s) /\ b - (c + 1) + 1 = m
    BY <1>1
  <2> HIDE DEF b
  <2> QED
    BY <2>1, Slice
<1>4. front \in Seq(S) /\ Len(front) = b
  BY <1>1, PartOf
<1>5. Carried(words) = SubSeq(words, m - n + 1, m)
  <2>1. Carried(words) = SubSeq(words, IF m > 3 THEN m - 3 + 1 ELSE 1, m)
    BY <1>3 DEF Carried, TailKept, LastWords, MaxTailWords
  <2>2. (IF m > 3 THEN m - 3 + 1 ELSE 1) = m - n + 1
    BY <1>1
  <2> QED
    BY <2>1, <2>2
<1>6. LastWords(front, n) = SubSeq(front, b - n + 1, b)
  <2>1. LastWords(front, n) = SubSeq(front, IF b > n THEN b - n + 1 ELSE 1, b)
    BY <1>4 DEF LastWords
  <2>2. (IF b > n THEN b - n + 1 ELSE 1) = b - n + 1
    BY <1>1, <1>2
  <2> QED
    BY <2>1, <2>2
<1> HIDE DEF n
<1>7. SubSeq(words, m - n + 1, m) = SubSeq(s, b - n + 1, b)
  <2>1. c + 1 \in 1..(Len(s) + 1) /\ b \in (c + 1 - 1)..Len(s)
    BY <1>1
  <2>2. m - n + 1 \in 1..(b - (c + 1) + 2) /\ m \in (m - n + 1 - 1)..(b - (c + 1) + 1)
    BY <1>1, <1>2
  <2>3. c + 1 + (m - n + 1) - 1 = b - n + 1 /\ c + 1 + m - 1 = b
    BY <1>1, <1>2
  <2> HIDE DEF b
  <2> DEFINE a == c + 1
             p == m - n + 1
  <2>4. b \in Nat /\ m = b - c
    BY <1>1
  <2>5. /\ a \in 1..(Len(s) + 1) /\ b \in (a - 1)..Len(s)
        /\ p \in 1..(b - a + 2) /\ m \in (p - 1)..(b - a + 1)
    BY <1>1, <1>2, <2>4
  <2> HIDE DEF a, p
  <2>6. SubSeq(SubSeq(s, a, b), p, m) = SubSeq(s, a + p - 1, a + m - 1)
    BY <2>5, SliceOfSlice
  <2> QED
    BY <2>3, <2>6 DEF a, p
<1>8. SubSeq(front, b - n + 1, b) = SubSeq(s, b - n + 1, b)
  <2>1. 1 \in 1..(Len(s) + 1) /\ b \in (1 - 1)..Len(s)
    BY <1>1
  <2>2. b - n + 1 \in 1..(b - 1 + 2) /\ b \in (b - n + 1 - 1)..(b - 1 + 1)
    BY <1>1, <1>2
  <2>3. 1 + (b - n + 1) - 1 = b - n + 1 /\ 1 + b - 1 = b
    BY <1>1, <1>2
  <2> DEFINE a == 1
             p == b - n + 1
  <2> HIDE DEF b
  <2>4. /\ a \in 1..(Len(s) + 1) /\ b \in (a - 1)..Len(s)
        /\ p \in 1..(b - a + 2) /\ b \in (p - 1)..(b - a + 1)
    BY <1>1, <1>2, <2>1, <2>2
  <2> HIDE DEF a, p
  <2>5. SubSeq(SubSeq(s, a, b), p, b) = SubSeq(s, a + p - 1, a + b - 1)
    BY <2>4, SliceOfSlice
  <2> QED
    BY <2>3, <2>5 DEF a, p
<1>9. Carried(words) = LastWords(front, n)
  BY <1>5, <1>6, <1>7, <1>8
<1>10. Carried(words) \in Ends(front)
  BY <1>2, <1>9 DEF Ends, MaxTailWords
<1> QED
  BY <1>10

(* The windows so far have cut the sentence behind its word c.              *)
Waiting ==
  \E c \in 0..Len(Sentence) :
    rest = SubSeq(Sentence, c + 1, Len(Sentence)) /\ tail \in Before(Sentence, c)

(* A window from there to the word b held the wake phrase.                  *)
Called ==
  \E c \in 0..Len(Sentence) : \E b \in c..Len(Sentence) : \E t \in Before(Sentence, c) :
    LET window == t \o SubSeq(Sentence, c + 1, b)
    IN /\ Matched(window) /\ initial = Remainder(window)
       /\ rest = SubSeq(Sentence, b + 1, Len(Sentence))

Meant(Words) ==
  /\ spoken \in Speech(Words)
  /\ heard = "no" =>
       spoken \in Sayings /\ at \in {"standby", "follow", "closing", "stopped"}
  /\ heard # "no" => rest = <<>> /\ tail = <<>> /\ at # "follow"
  /\ heard = "no" /\ at = "standby" => Waiting
  /\ at = "follow" => tail = <<>> /\ Called
  /\ heard \in {"whole", "cut"} /\ at = "ask" => Faithful(Meaning(question), spoken)
  /\ WholeOrNothing

LEMMA InitMeant == ASSUME NEW Words PROVE Init => Meant(Words)
<1> SUFFICES ASSUME Init PROVE Meant(Words)
  OBVIOUS
<1>1. /\ spoken = Silence /\ rest = <<>> /\ tail = <<>> /\ heard = "whole" /\ at = "standby"
  BY DEF Init
<1> QED
  BY <1>1 DEF Meant, Silence, Speech, WholeOrNothing

(* What is said and the matcher's words stay as they are.                   *)
LEMMA MeantElsewhere ==
  ASSUME NEW Words, Meant(Words), spoken' = spoken, rest' = rest, tail' = tail,
         heard' = heard, initial' = initial, question' = question,
         at' = at \/ at' \notin {"standby", "follow", "ask"} \/ (heard # "no" /\ at' = "standby"),
         heard = "no" /\ at' # at => at' \in {"closing", "stopped"},
         WholeOrNothing'
  PROVE  Meant(Words)'
<1>1. Sentence' = Sentence
  BY DEF Sentence
<1>2. Waiting => Waiting'
  BY <1>1 DEF Waiting
<1>3. Called => Called'
  BY <1>1 DEF Called
<1>4. Faithful(Meaning(question), spoken) => Faithful(Meaning(question), spoken)'
  BY DEF Faithful
<1>5. /\ (heard = "no" =>
            spoken \in Sayings /\ at \in {"standby", "follow", "closing", "stopped"})'
      /\ (heard # "no" => rest = <<>> /\ tail = <<>> /\ at # "follow")'
  BY DEF Meant
<1>6. (heard = "no" /\ at = "standby" => Waiting)'
  BY <1>2 DEF Meant
<1>7. (at = "follow" => tail = <<>> /\ Called)'
  BY <1>3 DEF Meant
<1>8. (heard \in {"whole", "cut"} /\ at = "ask" => Faithful(Meaning(question), spoken))'
  BY <1>4 DEF Meant
<1> QED
  BY <1>5, <1>6, <1>7, <1>8 DEF Meant

(* A thread keeps what its question means for as long as it is waited for.  *)
LEMMA KeepsMeaning ==
  ASSUME Inv, worker = Main, NEW x \in Threads, Work(x) \/ Receive(x)
  PROVE  th'[Main].meaning = th[Main].meaning
<1>1. /\ DOMAIN th = Threads /\ Main \in Threads
      /\ \A y \in Threads : DOMAIN th[y] = Fields
  BY DEF Inv, Replies, Shapes, Record, Threads
<1>2. ASSUME NEW place, Move(x, place) PROVE th'[Main].meaning = th[Main].meaning
  BY <1>1, <1>2 DEF Move, Fields
<1>3. ASSUME Refuse(x) PROVE th'[Main].meaning = th[Main].meaning
  BY <1>1, <1>3 DEF Refuse, Fields
<1>4. ASSUME NEW v, NEW i, NEW place, Claim(x, v, i, place)
      PROVE  th'[Main].meaning = th[Main].meaning
  BY <1>1, <1>4 DEF Claim, Fields
<1>5. ASSUME NEW i, NEW place, Request(x, i, place)
      PROVE  th'[Main].meaning = th[Main].meaning
  BY <1>2, <1>4, <1>5 DEF Request
<1>6. CASE Handle(x)
  BY <1>2, <1>5, <1>6 DEF Handle
<1>7. CASE Acquire(x) \/ Check(x) \/ Broken(x)
  BY <1>2, <1>7 DEF Acquire, Check, Broken
<1>8. CASE Connect(x)
  BY <1>8 DEF Connect
<1>9. CASE Parse(x)
  BY <1>2, <1>3, <1>9 DEF Parse
<1>10. CASE Execute(x)
  <2>1. ASSUME th' = [th EXCEPT ![x].calls = Tail(@)]
        PROVE  th'[Main].meaning = th[Main].meaning
    BY <1>1, <2>1 DEF Fields
  <2> QED
    BY <1>2, <1>3, <1>5, <1>10, <2>1 DEF Execute, Look
<1>11. CASE Vanish(x)
  BY <1>1, <1>11 DEF Vanish
<1>12. CASE Receive(x)
  <2>1. ASSUME Replied(x) PROVE th'[Main].meaning = th[Main].meaning
    <3>1. CASE th[x].at = "chat"
      <4>1. PICK calls \in Proposals :
              th' = [th EXCEPT ![x].at = IF calls = <<>> THEN "finished" ELSE "tools",
                               ![x].calls = calls]
        BY <2>1, <3>1 DEF Replied
      <4> QED
        BY <1>1, <4>1 DEF Fields
    <3>2. CASE th[x].at \in {"identity", "plain", "warm"}
      BY <1>2, <2>1, <3>2 DEF Replied
    <3>3. th[x].at \in Requests
      BY <1>12, WorkersAssumption DEF Receive, Inv, Replies, Shapes, Connected, Threads
    <3> QED
      BY <3>1, <3>2, <3>3 DEF Requests
  <2> QED
    BY <1>2, <1>12, <2>1 DEF Receive
<1> QED
  BY <1>6, <1>7, <1>8, <1>9, <1>10, <1>11, <1>12 DEF Work

LEMMA SaidWords ==
  ASSUME NEW Words, Said(Words), NEW u \in Sayings
  PROVE  u \in Speech(Words) /\ Whole(u) \in Seq(Words)
<1>1. PICK n \in DOMAIN Utterances : u \in Utterances[n]
  BY DEF Sayings
<1>2. Utterances[n] \subseteq Speech(Words)
  BY <1>1 DEF Said
<1>3. u \in Speech(Words)
  BY <1>1, <1>2
<1>4. u.lead \in Seq(Words) /\ u.wake \in Seq(Words) /\ u.sentence \in Seq(Words)
  BY <1>3 DEF Speech
<1>5. u.lead \o u.wake \in Seq(Words)
  BY <1>4
<1>6. Whole(u) \in Seq(Words)
  BY <1>4, <1>5 DEF Whole
<1> QED
  BY <1>3, <1>6

(* What may be carried is made of words.                                    *)
LEMMA BeforeWords ==
  ASSUME NEW Words, Said(Words), NEW s \in Seq(Words), NEW c \in 0..Len(s), NEW t \in Before(s, c)
  PROVE  t \in Seq(Words)
<1>1. ASSUME NEW r \in Seq(Words), NEW e \in Ends(r) PROVE e \in Seq(Words)
  <2>1. PICK n \in 0..MaxTailWords : e = LastWords(r, n)
    BY <1>1 DEF Ends
  <2>2. e = SubSeq(r, IF Len(r) > n THEN Len(r) - n + 1 ELSE 1, Len(r))
    BY <2>1 DEF LastWords
  <2> DEFINE m == IF Len(r) > n THEN Len(r) - n ELSE 0
  <2>3. m \in 0..Len(r) /\ (IF Len(r) > n THEN Len(r) - n + 1 ELSE 1) = m + 1
    BY DEF MaxTailWords
  <2> HIDE DEF m
  <2>4. e = SubSeq(r, m + 1, Len(r))
    BY <2>2, <2>3
  <2> QED
    BY <2>3, <2>4, PartOf
<1>2. CASE c = 0
  <2>1. t = <<>> \/ \E u \in Sayings : t \in Ends(Whole(u))
    BY <1>2 DEF Before
  <2>2. <<>> \in Seq(Words)
    OBVIOUS
  <2> QED
    BY <1>1, <2>1, <2>2, SaidWords
<1>3. CASE c # 0
  <2>1. SubSeq(s, 1, c) \in Seq(Words)
    BY PartOf
  <2>2. t \in Ends(SubSeq(s, 1, c))
    BY <1>3 DEF Before
  <2> QED
    BY <1>1, <2>1, <2>2
<1> QED
  BY <1>2, <1>3

LEMMA SpeakMeant ==
  ASSUME NEW Words, Said(Words), Meant(Words), turn \in Nat, Speak
  PROVE  Meant(Words)'
<1>1. PICK u \in Utterances[turn + 1] : spoken' = u /\ rest' = Whole(u)
  BY DEF Speak
<1>2. /\ at = "standby" /\ at' = "standby" /\ rest = <<>> /\ heard' = "no" /\ tail' = tail
      /\ turn + 1 \in DOMAIN Utterances
  BY DEF Speak, main, Said
<1>3. u \in Sayings
  BY <1>1, <1>2 DEF Sayings
<1>4. u \in Speech(Words) /\ Whole(u) \in Seq(Words) /\ Sentence' = Whole(u)
  BY <1>1, <1>3, SaidWords DEF Sentence
<1>5. tail \in Before(Whole(u), 0)
  <2>1. CASE heard # "no"
    <3>1. tail = <<>>
      BY <2>1 DEF Meant
    <3> QED
      BY <3>1 DEF Before
  <2>2. CASE heard = "no"
    <3> DEFINE W == Sentence
               N == Len(W)
    <3>1. spoken \in Sayings /\ spoken \in Speech(Words) /\ W = Whole(spoken)
      BY <2>2 DEF Meant, Sentence
    <3>2. W \in Seq(Words) /\ N \in Nat
      BY <3>1, Uttered
    <3>3. PICK c \in 0..N : rest = SubSeq(W, c + 1, N) /\ tail \in Before(W, c)
      BY <1>2, <2>2 DEF Meant, Waiting
    <3> HIDE DEF W
    <3>4. c = N
      <4>1. Len(SubSeq(W, c + 1, N)) = N - c
        BY <3>2, PartOf
      <4>2. Len(rest) = 0
        BY <1>2
      <4> HIDE DEF N
      <4>3. N - c = 0
        BY <3>3, <4>1, <4>2
      <4> QED
        BY <3>2, <4>3
    <3>5. CASE c = 0
      BY <3>3, <3>5 DEF Before
    <3>6. CASE c # 0
      <4>1. SubSeq(W, 1, c) = W
        BY <3>2, <3>4, AllOf
      <4>2. tail \in Ends(W)
        BY <3>3, <3>6, <4>1 DEF Before
      <4> QED
        BY <3>1, <4>2 DEF Before
    <3> QED
      BY <3>5, <3>6
  <2> QED
    BY <2>1, <2>2
<1>6. Waiting'
  <2>1. Len(Whole(u)) \in Nat
    BY <1>4
  <2>2. rest' = SubSeq(Whole(u), 0 + 1, Len(Whole(u)))
    BY <1>1, <1>4, AllOf
  <2>3. 0 \in 0..Len(Whole(u)) /\ tail' \in Before(Whole(u), 0)
    BY <1>2, <1>5, <2>1
  <2> QED
    BY <1>4, <2>2, <2>3 DEF Waiting
<1> QED
  BY <1>1, <1>2, <1>3, <1>4, <1>6 DEF Meant, Speech, WholeOrNothing

LEMMA WindowMeant ==
  ASSUME NEW Words, Said(Words), Meant(Words), Window
  PROVE  Meant(Words)'
<1> DEFINE W == Sentence
           N == Len(W)
<1>1. PICK k \in WindowWords :
        LET words == SubSeq(rest, 1, Min({k, Len(rest)}))
        IN /\ rest # <<>>
           /\ rest' = SubSeq(rest, Len(words) + 1, Len(rest))
           /\ IF Matched(tail \o words)
              THEN initial' = Remainder(tail \o words) /\ tail' = <<>> /\ at' = "follow"
              ELSE tail' = Carried(words) /\ UNCHANGED <<initial, at>>
  BY DEF Window
<1>2. /\ at = "standby" /\ heard = "no" /\ spoken \in Sayings /\ spoken \in Speech(Words)
      /\ spoken' = spoken /\ heard' = heard /\ question' = question
  BY <1>1 DEF Window, Meant
<1>3. W \in Seq(Words) /\ N \in Nat /\ Sentence' = W
  BY <1>2, Uttered DEF Sentence
<1>4. PICK c \in 0..N : rest = SubSeq(W, c + 1, N) /\ tail \in Before(W, c)
  BY <1>2 DEF Meant, Waiting
<1> HIDE DEF W
<1> DEFINE m == Min({k, Len(rest)})
           b == c + m
           words == SubSeq(rest, 1, m)
<1>5. rest \in Seq(Words) /\ Len(rest) = N - c
  BY <1>3, <1>4, PartOf
<1> HIDE DEF N
<1>6. m \in 0..(N - c) /\ m \in Nat
  <2>1. k \in Nat /\ Len(rest) \in Nat
    BY <1>5 DEF Said
  <2> HIDE DEF m
  <2>2. m = IF k <= Len(rest) THEN k ELSE Len(rest)
    BY <2>1, LeastOf DEF m
  <2> QED
    BY <1>5, <2>1, <2>2
<1> HIDE DEF m
<1>7. words \in Seq(Words) /\ Len(words) = m
  BY <1>5, <1>6, PartOf
<1>8. c + 1 \in 1..(N + 1) /\ N \in (c + 1 - 1)..N /\ b \in c..N /\ b \in 0..N
  BY <1>3, <1>6
<1>9. words = SubSeq(W, c + 1, b)
  <2> DEFINE a == c + 1
  <2>1. /\ a \in 1..(Len(W) + 1) /\ N \in (a - 1)..Len(W)
        /\ 1 \in 1..(N - a + 2) /\ m \in (1 - 1)..(N - a + 1)
    BY <1>3, <1>6, <1>8 DEF N
  <2>2. a + 1 - 1 = a /\ a + m - 1 = b
    BY <1>6
  <2> HIDE DEF a, b
  <2>3. SubSeq(SubSeq(W, a, N), 1, m) = SubSeq(W, a + 1 - 1, a + m - 1)
    BY <1>3, <2>1, SliceOfSlice
  <2> QED
    BY <1>4, <2>2, <2>3 DEF a
<1>10. rest' = SubSeq(W, b + 1, N)
  <2> DEFINE a == c + 1
             p == m + 1
             q == N - c
  <2>1. /\ a \in 1..(Len(W) + 1) /\ N \in (a - 1)..Len(W)
        /\ p \in 1..(N - a + 2) /\ q \in (p - 1)..(N - a + 1)
    BY <1>3, <1>6, <1>8 DEF N
  <2>2. a + p - 1 = b + 1 /\ a + q - 1 = N
    BY <1>3, <1>6
  <2>3. rest' = SubSeq(rest, p, q)
    BY <1>1, <1>5, <1>7 DEF m
  <2> HIDE DEF a, p, q
  <2>4. SubSeq(SubSeq(W, a, N), p, q) = SubSeq(W, a + p - 1, a + q - 1)
    BY <1>3, <2>1, SliceOfSlice
  <2> QED
    BY <1>4, <2>2, <2>3, <2>4 DEF a
<1>11. CASE Matched(tail \o words)
  <2>1. initial' = Remainder(tail \o words) /\ tail' = <<>> /\ at' = "follow"
    BY <1>1, <1>11 DEF m
  <2>2. tail \o words = tail \o SubSeq(W, c + 1, b)
    BY <1>9
  <2> HIDE DEF words
  <2>3. Called'
    <3>1. c \in 0..Len(Sentence') /\ b \in c..Len(Sentence') /\ tail \in Before(Sentence', c)
      BY <1>3, <1>4, <1>8 DEF N
    <3>2. /\ Matched(tail \o SubSeq(Sentence', c + 1, b))
          /\ initial' = Remainder(tail \o SubSeq(Sentence', c + 1, b))
          /\ rest' = SubSeq(Sentence', b + 1, Len(Sentence'))
      BY <1>3, <1>10, <1>11, <2>1, <2>2 DEF N
    <3> HIDE DEF b
    <3> QED
      BY <3>1, <3>2 DEF Called
  <2> QED
    BY <1>2, <2>1, <2>3 DEF Meant, Speech, WholeOrNothing
<1>12. CASE ~ Matched(tail \o words)
  <2>1. tail' = Carried(words) /\ at' = at
    BY <1>1, <1>12 DEF m
  <2>2. Carried(words) \in Ends(SubSeq(W, 1, b))
    <3>1. c \in 0..Len(W) /\ m \in 0..(Len(W) - c)
      BY <1>4, <1>6 DEF N
    <3> QED
      BY <1>3, <1>9, <3>1, CarriedEnds
  <2>3. b = 0 => Carried(words) = <<>>
    <3>1. b = 0 => m = 0
      BY <1>6
    <3>2. CASE m = 0
      <4>1. words \in Seq(Words) /\ Len(words) = 0
        BY <1>7, <3>2
      <4> HIDE DEF words
      <4>2. /\ Carried(words) \in Seq(Words)
            /\ Len(Carried(words)) = IF Len(words) > 3 THEN 3 ELSE Len(words)
        BY <4>1, CarriedWords
      <4>3. Len(Carried(words)) = 0
        BY <4>1, <4>2
      <4> QED
        BY <4>2, <4>3
    <3> QED
      BY <3>1, <3>2
  <2> HIDE DEF b, words
  <2>4. tail' \in Before(W, b)
    BY <2>1, <2>2, <2>3 DEF Before
  <2>5. Waiting'
    BY <1>3, <1>8, <1>10, <2>4 DEF Waiting, N
  <2> QED
    BY <1>2, <2>1, <2>5 DEF Meant, Speech, WholeOrNothing
<1> QED
  BY <1>11, <1>12

LEMMA FollowUpMeant ==
  ASSUME NEW Words, Said(Words), Unmistakable, Meant(Words), FollowUp
  PROVE  Meant(Words)'
<1> DEFINE W == Sentence
           N == Len(W)
<1>1. /\ at = "follow" /\ heard = "no" /\ tail = <<>> /\ spoken \in Sayings
      /\ spoken \in Speech(Words) /\ W = Whole(spoken) /\ Called
  BY DEF FollowUp, Meant, Sentence
<1>2. W \in Seq(Words) /\ N \in Nat
  BY <1>1, Uttered
<1>3. PICK c \in 0..N :
        \E b \in c..N : \E t \in Before(W, c) :
          /\ Matched(t \o SubSeq(W, c + 1, b))
          /\ initial = Remainder(t \o SubSeq(W, c + 1, b))
          /\ rest = SubSeq(W, b + 1, N)
  BY <1>1 DEF Called
<1>4. PICK b \in c..N :
        \E t \in Before(W, c) :
          /\ Matched(t \o SubSeq(W, c + 1, b))
          /\ initial = Remainder(t \o SubSeq(W, c + 1, b))
          /\ rest = SubSeq(W, b + 1, N)
  BY <1>3
<1>5. CutAt(spoken, c, b)
  BY <1>1, <1>3, <1>4 DEF Unmistakable
<1> HIDE DEF W
<1>6. \A q \in Questions(initial, rest) : Faithful(Meaning(q), spoken)
  BY <1>1, <1>4, <1>5 DEF CutAt
<1>7. rest \in Seq(Words) /\ Len(rest) \in Nat
  <2>1. b \in 0..N
    BY <1>2, <1>3, <1>4
  <2> QED
    BY <1>2, <1>4, <2>1, PartOf
<1>8. /\ spoken' = spoken /\ rest' = <<>> /\ tail' = <<>> /\ at' \in {"standby", "ask"}
      /\ heard' \in {"whole", "cut", "partly"}
  BY <1>1 DEF FollowUp
<1>9. ASSUME heard' \in {"whole", "cut"} PROVE question' \in Questions(initial, rest)
  <2>1. CASE rest = <<>> /\ question' = initial
    BY <2>1 DEF Questions
  <2>2. CASE \E missed \in 0..Len(rest) :
               /\ question' = Question(initial, SubSeq(rest, missed + 1, Len(rest)))
               /\ heard' = IF missed = 0 THEN "whole"
                           ELSE IF missed = Len(rest) THEN "cut" ELSE "partly"
    <3>1. PICK missed \in 0..Len(rest) :
            /\ question' = Question(initial, SubSeq(rest, missed + 1, Len(rest)))
            /\ missed \in {0, Len(rest)}
      BY <1>9, <2>2
    <3>2. CASE missed = 0
      <4>1. SubSeq(rest, missed + 1, Len(rest)) = rest
        BY <1>7, <3>2, AllOf
      <4> QED
        BY <3>1, <4>1 DEF Question, Questions
    <3>3. CASE missed = Len(rest)
      <4>1. SubSeq(rest, missed + 1, Len(rest)) \in Seq(Words)
        BY <1>7, PartOf
      <4>2. Len(SubSeq(rest, missed + 1, Len(rest))) = 0
        BY <1>7, <3>3, PartOf
      <4>3. SubSeq(rest, missed + 1, Len(rest)) = <<>>
        BY <4>1, <4>2
      <4> QED
        BY <3>1, <4>3 DEF Question, Questions
    <3> QED
      BY <3>1, <3>2, <3>3
  <2> QED
    BY <2>1, <2>2 DEF FollowUp
<1>10. (heard \in {"whole", "cut"} /\ at = "ask" => Faithful(Meaning(question), spoken))'
  BY <1>6, <1>8, <1>9 DEF Faithful
<1> QED
  BY <1>1, <1>8, <1>10 DEF Meant, Speech, WholeOrNothing

LEMMA AskMeant ==
  ASSUME NEW Words, Inv, Meant(Words), Ask
  PROVE  Meant(Words)'
<1>1. /\ at = "ask" /\ at' = "await" /\ rest' = rest /\ tail' = tail /\ heard # "no"
      /\ spoken \in Speech(Words) /\ rest = <<>> /\ tail = <<>>
      /\ heard \in {"whole", "cut"} => Faithful(Meaning(question), spoken)
  BY DEF Ask, Meant
<1>2. Silence \in Speech(Words)
  BY DEF Silence, Speech
<1>3. CASE IsFast(question)
  <2>1. /\ th' = [th EXCEPT ![Main] = Asked] /\ UNCHANGED <<spoken, heard>>
    BY <1>3 DEF Ask
  <2>2. Main \in DOMAIN th
    BY DEF Inv, Replies, Shapes, Threads
  <2>3. th'[Main].meaning = Meaning(question)
    BY <2>1, <2>2 DEF Asked, NoThread
  <2> QED
    BY <1>1, <2>1, <2>3 DEF Meant, WholeOrNothing, Faithful, Speech
<1>4. CASE ~ IsFast(question)
  <2>1. /\ spoken' = Silence /\ heard' = "whole" /\ worker' = CHOOSE w \in Workers : Free(w)
        /\ \E w \in Workers : Free(w)
    BY <1>4 DEF Ask
  <2>2. worker' # Main
    BY <2>1, WorkersAssumption
  <2> QED
    BY <1>1, <1>2, <2>1, <2>2 DEF Meant, WholeOrNothing, Speech
<1> QED
  BY <1>3, <1>4

LEMMA NextMeant ==
  ASSUME NEW Words, Said(Words), Unmistakable, Meant(Words), Inv, [Next]_vars
  PROVE  Meant(Words)'
<1>1. turn \in Nat /\ Silence \in Speech(Words)
  BY DEF Inv, Replies, Shapes, Silence, Speech
<1>2. CASE Speak
  BY <1>1, <1>2, SpeakMeant
<1>3. CASE Window
  BY <1>3, WindowMeant
<1>4. CASE FollowUp
  BY <1>4, FollowUpMeant
<1>5. CASE Ask
  BY <1>5, AskMeant
<1>6. CASE Collect \/ Abandon \/ Probed \/ StopSeen \/ Close
  <2>1. UNCHANGED speech
    BY <1>6 DEF Collect, Abandon, Probed, StopSeen, Close
  <2>2. /\ at' # "await"
        /\ at' \notin {"standby", "follow", "ask"} \/ (at = "probing" /\ at' = "standby")
        /\ heard = "no" => at' \in {"closing", "stopped"}
    BY <1>6 DEF Collect, Abandon, Probed, StopSeen, Close, Meant
  <2>3. WholeOrNothing'
    BY <2>2 DEF WholeOrNothing
  <2>4. heard # "no" \/ at' \notin {"standby", "follow", "ask"}
    BY <2>2 DEF Meant
  <2> QED
    BY <2>1, <2>2, <2>3, <2>4, MeantElsewhere DEF speech
<1>7. CASE Deliver \/ Recover
  <2>1. /\ spoken' = Silence /\ heard' = "whole" /\ rest' = rest /\ tail' = tail
        /\ at' \in {"standby", "failed", "closing", "probing"} /\ at \in {"deliver", "failed"}
    BY <1>7 DEF Deliver, Recover
  <2>2. rest = <<>> /\ tail = <<>>
    BY <2>1 DEF Meant
  <2> QED
    BY <1>1, <2>1, <2>2 DEF Meant, Speech, WholeOrNothing
<1>8. CASE Stop \/ Expire \/ CutOff \/ UNCHANGED vars
  <2>1. UNCHANGED <<speech, main, th>>
    BY <1>8 DEF Stop, Expire, CutOff, vars
  <2>2. WholeOrNothing'
    BY <2>1 DEF Meant, WholeOrNothing, speech, main
  <2> QED
    BY <2>1, <2>2, MeantElsewhere DEF speech, main
<1>9. CASE \E x \in Threads : Work(x) \/ Receive(x)
  <2>1. PICK x \in Threads : Work(x) \/ Receive(x)
    BY <1>9
  <2>2. UNCHANGED <<speech, main>>
    BY <2>1 DEF Work, Receive, Handle, Acquire, Connect, Check, Broken, Parse, Execute, Vanish
  <2>3. worker = Main => th'[Main].meaning = th[Main].meaning
    BY <2>1, KeepsMeaning
  <2>4. WholeOrNothing'
    BY <2>2, <2>3 DEF Meant, WholeOrNothing, speech, main
  <2> QED
    BY <2>2, <2>4, MeantElsewhere DEF speech, main
<1> QED
  BY <1>2, <1>3, <1>4, <1>5, <1>6, <1>7, <1>8, <1>9 DEF Next, Hear, Serve

(* What is done without asking the model is what the whole sentence means,  *)
(* or nothing is done: however the windows cut the sentence, whatever of it *)
(* the tail holds and whoever else still replies.  What the grammar must do *)
(* for that is Unmistakable: a fact about sentences, of no step             *)
(* (voice_runtime.py _question_after_wake, operational.py handle).          *)
THEOREM CommandsAreWhole ==
  ASSUME NEW CONSTANT Words, Said(Words), Unmistakable
  PROVE  Spec => []WholeOrNothing
<1>1. Meant(Words) /\ Inv /\ [Next]_vars => Meant(Words)'
  BY NextMeant
<1>2. Init => Meant(Words)
  BY InitMeant
<1>3. Meant(Words) => WholeOrNothing
  BY DEF Meant
<1> QED
  BY <1>1, <1>2, <1>3, InitInv, NextKeeps, PTL DEF Spec
=============================================================================
