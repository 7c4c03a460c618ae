--------------------------- MODULE MCConversation ---------------------------
(* TLC instance of Conversation: an explicitly configured wake phrase of    *)
(* two words, and sentences that take every way through the grammar.        *)
EXTENDS Conversation, TLC

MCPhrase == <<"hey", "gonken">>

Commands ==
  {<<"turn", "fan", "on">>, <<"turn", "fan", "on", "in", "2", "minutes">>,
   <<"turn", "fan", "on", "in", "2", "minutes", "for", "3", "minutes">>,
   <<"run", "fan", "for", "3", "minutes">>, <<"turn", "fan", "on", "and", "off">>,
   <<"start", "threshold", "28", "stop", "threshold", "26">>,
   <<"set", "fan", "mode", "automatic">>, <<"don't", "turn", "fan", "on">>,
   <<"cancel", "timers">>, <<"restart", "system">>, <<"what", "is", "temperature">>}

Chat == {<<"turn", "fan", "right", "on">>, <<"how", "are", "you">>}

(* Said in words of its own, in two pieces, misheard; and not said.         *)
Calling == {<<"hey", "gonken">>, <<"hey", "gon", "ken">>, <<"hey", "gunken">>, <<"gonken">>}

Plain(sentences) ==
  {[lead |-> <<>>, wake |-> <<"hey", "gonken">>, sentence |-> s] : s \in sentences}

MCUtterances ==
  <<Plain(Commands \cup Chat)
      \cup [lead : {<<>>, <<"well">>, <<"well", "ok">>}, wake : Calling, sentence : {<<"turn", "fan", "on">>}],
    Plain({<<"turn", "fan", "right", "on">>, <<"turn", "fan", "on">>})>>

MCProposals ==
  {<<>>, <<"on">>, <<"off">>, <<"on", "on">>, <<"read", "on">>, <<"on", "unknown">>}

MCWords ==
  ToSet(Phrase) \cup UNION {ToSet(Whole(u)) : u \in Sayings}

(* The hypotheses of the theorems hold of these sayings.                      *)
ASSUME MCSaid == Said(MCWords)
ASSUME MCWakeFits == WakeFits
ASSUME MCUnmistakable == Unmistakable
=============================================================================
