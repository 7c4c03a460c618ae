---------------------------- MODULE WakePipeline ----------------------------
(***************************************************************************)
(* One capture thread of the voice appliance and what its owner does to it *)
(* (voice_runtime.WakeCapturePipeline, wake_stream.StreamingWakePipeline   *)
(* and the worker of PushToTalkVoiceAdapter), as operators on its record.  *)
(* A window or an utterance is the number it was captured under; `files`   *)
(* are the temporary recordings that are on disk.                          *)
(***************************************************************************)
EXTENDS Sequences, SequencesExt, Naturals, FiniteSets

CONSTANT QueueSize      \* windows kept for the transcriber

ASSUME QueueAssumption == QueueSize \in 1..4

(* whisper: windows one after another; streaming: one utterance; ptt: one   *)
(* recording, kept when it is cancelled.                                    *)
Modes == {"whisper", "streaming", "ptt"}

NewPipe == [thread |-> "none", cancel |-> FALSE, error |-> FALSE,
            queue |-> <<>>, made |-> 0, files |-> {}, late |-> FALSE]

Alive(q) == q.thread \in {"recording", "captured"}

Recording(q) == q.thread = "recording"

Started(q) == [q EXCEPT !.thread = "recording"]

Cancelled(q) == [q EXCEPT !.cancel = TRUE]

Ended(q) == [q EXCEPT !.thread = "ended"]

(* stop() gave up waiting for the thread; it goes on by itself.             *)
Late(q) == [q EXCEPT !.late = TRUE]

-----------------------------------------------------------------------------
(* The capture thread *)

(* The recorder has been reaped and its file is there.                      *)
Captured(q) == [q EXCEPT !.thread = "captured", !.files = @ \cup {q.made + 1}]

(* Cancelled while it records: the recorder is interrupted, the file goes.  *)
(* Push-to-talk keeps what was recorded so far, if the recorder had begun.  *)
Interrupted(q, mode) == {Ended(q)} \cup (IF mode = "ptt" THEN {Captured(q)} ELSE {})

(* Any other failure is left for the owner, except by a stream that was     *)
(* cancelled; the pipeline cancels itself.                                  *)
Failed(q, mode) ==
  Ended([q EXCEPT !.error = mode = "streaming" => ~ q.cancel, !.cancel = TRUE])

KeepFile(q) == [q EXCEPT !.queue = Tail(@)]        \* forgets to unlink

(* Room for a window: the oldest one and its file go.                       *)
DropOldest(q) == [q EXCEPT !.queue = Tail(@), !.files = @ \ {Head(q.queue)}]

Put(q) == LET room == IF Len(q.queue) = QueueSize THEN DropOldest(q) ELSE q
          IN [room EXCEPT !.queue = Append(@, q.made)]

(* What the thread does with a capture: a cancelled pipeline drops it, else *)
(* it is queued and, for windows, the next capture begins.                  *)
Delivered(q, mode) ==
  LET n == q.made + 1 IN
  IF q.cancel /\ mode # "ptt"
  THEN Ended([q EXCEPT !.files = @ \ {n}])
  ELSE LET queued == Put([q EXCEPT !.made = n])
       IN IF mode = "whisper" THEN Started(queued) ELSE Ended(queued)

-----------------------------------------------------------------------------
(* The owner *)

(* next_window: whether it raises.  A streaming pipeline hands out its      *)
(* utterance first.                                                         *)
Raises(q, mode) == q.error /\ (mode = "streaming" => q.queue = <<>>)

Taken(q) == [q EXCEPT !.queue = Tail(@)]

Unlinked(q, n) == [q EXCEPT !.files = @ \ {n}]

(* stop() after a successful join: what was not handed out goes.            *)
Drained(q) == [q EXCEPT !.queue = <<>>, !.files = @ \ ToSet(q.queue)]

=============================================================================
