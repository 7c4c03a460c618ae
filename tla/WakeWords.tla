----------------------------- MODULE WakeWords ------------------------------
(***************************************************************************)
(* The wake phrase in transcripts (voice_runtime.py): its aliases, two     *)
(* words read as one, one wrong letter, and the tail of words carried from *)
(* one window to the next.                                                 *)
(***************************************************************************)
EXTENDS Naturals, Sequences

LOCAL INSTANCE FiniteSetsExt

CONSTANT Phrase   \* the configured wake phrase, a sequence of words

ASSUME PhraseAssumption == Phrase # <<>>

MaxTailWords == 3

(* wake_matcher_aliases: only the default name has others.                  *)
Aliases ==
  IF Phrase \in {<<"gonken">>, <<"gon", "ken">>}
  THEN <<Phrase, <<"gonken">>, <<"hey", "gonken">>, <<"gon", "ken">>, <<"hey", "gon", "ken">>>>
  ELSE <<Phrase>>

Joined(a, b) == IF <<a, b>> = <<"gon", "ken">> THEN "gonken" ELSE "another word"

(* The words with the pair at `join` read as one (none for 0), each with    *)
(* the place in the transcript where it ends.                               *)
Tokens(words, join) ==
  [i \in 1..(IF join = 0 THEN Len(words) ELSE Len(words) - 1) |->
     IF join = 0 \/ i < join THEN [word |-> words[i], end |-> i]
     ELSE [word |-> IF i = join THEN Joined(words[i], words[i + 1]) ELSE words[i + 1],
           end |-> i + 1]]

(* _edit_distance_at_most_one, for the name alone: words one letter off.    *)
OneLetterOff == {"gunken", "gonkin", "onken"}

Heard(actual, expected) ==
  actual = expected \/ (expected = "gonken" /\ actual \in OneLetterOff)

(* _wake_match: where the phrase may end, in the order of the search: the   *)
(* alias, the joined pair, the first word.                                  *)
Found(words, alias, join) ==
  LET read == Tokens(words, join)
  IN {s \in 1..(Len(read) + 1 - Len(alias)) :
        \A k \in DOMAIN alias : Heard(read[s + k - 1].word, alias[k])}

End(words, alias, join) ==
  Tokens(words, join)[Min(Found(words, alias, join)) + Len(alias) - 1].end

Joins(words) == 0..(IF words = <<>> THEN 0 ELSE Len(words) - 1)

Matches(words) ==
  {m \in (DOMAIN Aliases) \X Joins(words) : Found(words, Aliases[m[1]], m[2]) # {}}

Matched(words) == Matches(words) # {}

(* What follows the phrase.                                                 *)
Remainder(words) ==
  LET a == Min({m[1] : m \in Matches(words)})
      join == Min({m[2] : m \in {n \in Matches(words) : n[1] = a}})
  IN SubSeq(words, End(words, Aliases[a], join) + 1, Len(words))

LastWords(words, n) == SubSeq(words, IF Len(words) > n THEN Len(words) - n + 1 ELSE 1, Len(words))

(* Mutant: a window is matched by itself.                                   *)
NoTail(words) == <<>>

TailKept(words) == LastWords(words, MaxTailWords)

(* RollingWakeTranscriptMatcher.observe: what is carried on.                *)
Carried(words) == TailKept(words)
=============================================================================
