------------------------------ MODULE Grammar -------------------------------
(***************************************************************************)
(* What a sentence amounts to before any model sees it: words about power  *)
(* (power.py), timers (command_intents.py), the clock and the model's      *)
(* authority over the fan (tool_broker.py), the room (environment/         *)
(* intents.py).  A sentence is a sequence of words: articles, "room" and   *)
(* "please" left out, spoken numbers in figures, a quotation mark a word.  *)
(***************************************************************************)
EXTENDS Naturals, Sequences

(* An intent is a tuple; nothing recognised is the empty one.               *)
Nothing == <<>>

Clarify == <<"clarify">>

Quote == "'"

Numbers == {"2", "3", "26", "28"}

Units == {"seconds", "minutes", "hours"}

(* Rules in their order: the first that says anything.                      *)
a ?? b == IF a = Nothing THEN b ELSE a

When(condition, intent) == IF condition THEN intent ELSE Nothing

-----------------------------------------------------------------------------
(* Matching: a form is a sequence of sets of words.                         *)

Has(t, words) == \E i \in DOMAIN t : t[i] \in words

Fits(t, i, form) ==
  /\ i + Len(form) - 1 <= Len(t)
  /\ \A k \in DOMAIN form : t[i + k - 1] \in form[k]

Says(t, form) == \E i \in DOMAIN t : Fits(t, i, form)

Starts(t, form) == t # <<>> /\ Fits(t, 1, form)

Is(t, form) == Len(t) = Len(form) /\ Fits(t, 1, form)

(* The words of the sets come in this order, whatever is in between.        *)
InOrder(t, a, b) == \E i, j \in DOMAIN t : i < j /\ t[i] \in a /\ t[j] \in b

InOrder3(t, a, b, c) ==
  \E i, j, k \in DOMAIN t : i < j /\ j < k /\ t[i] \in a /\ t[j] \in b /\ t[k] \in c

(* _contains_any looks for letters, not words: some words hold another.     *)
Letters(n) ==
  CASE n = "on" -> {"on", "seconds", "conditions", "confirm"} [] n = "is" -> {"is", "rises", "list"}
    [] n = "start" -> {"start", "restart"} [] n = "set" -> {"set", "settings"}
    [] OTHER -> {n}

Holds(t, needles) == Has(t, UNION {Letters(n) : n \in needles})

-----------------------------------------------------------------------------
(* Power: power_related, and what PowerSession.handle answers besides.      *)
PowerRelated(t) ==
  /\ ~ Is(t, <<{"power"}, {"off"}, {"fan"}>>)
  /\ \/ Has(t, {"reboot", "restart", "shutdown"})
     \/ Says(t, <<{"shut"}, {"down"}>>) \/ Says(t, <<{"power"}, {"off"}>>)
     \/ t \in {<<"cancel">>, <<"cancel", "restart">>, <<"cancel", "shutdown">>}

PowerAnswers(t) == PowerRelated(t) \/ (Len(t) > 1 /\ t[1] = "confirm")

-----------------------------------------------------------------------------
(* Timers: parse_command *)

Switch == {"turn", "switch"}
Delay == {"in", "after"}
Span == <<Numbers, Units>>
For == <<{"for"}>> \o Span
Every == <<{"every"}>> \o Span
AndOff == <<{"and"}, Switch, {"it", "fan"}, {"off"}>>
Once(power) == <<Switch, {"fan"}, {power}, Delay>> \o Span
Report == {<<{"tell"}, {"me"}>>, <<{"report"}>>, <<{"announce"}>>}
Reading == {"temperature", "humidity", "conditions"}
Rise == <<{"when"}, {"temperature"}, {"rises"}, {"by"}, Numbers, {"degrees"}>>

(* The whole sentences that make a timer of each kind.                      *)
Timers ==
  [fan_on |-> {Once("on"), <<{"start"}, {"fan"}, Delay>> \o Span},
   fan_off |-> {Once("off"), <<{"stop"}, {"fan"}, Delay>> \o Span},
   fan_run |-> {Once("on") \o For, Once("on") \o AndOff \o For,
                <<{"run"}, {"fan"}>> \o For, <<Switch, {"fan"}, {"on"}>> \o For},
   fan_cycle |-> {cycle \o lease : cycle \in {<<Switch, {"fan"}, {"on"}, {"and"}, {"off"}>> \o Every,
                                              <<{"cycle"}, {"fan"}>> \o Every},
                                   lease \in {<<>>, For}},
   report |-> {r \o <<Reading, Delay>> \o Span : r \in Report}
              \cup {r \o <<Reading>> \o Every \o lease : r \in Report, lease \in {<<>>, For}},
   temperature_delta |-> {r \o Rise : r \in {<<{"tell", "notify"}, {"me"}>>, <<{"announce"}>>}}]

(* Whole sentences with a span where it means nothing.                      *)
Misplaced == {Once("off") \o For, Once("off") \o AndOff \o For}
             \cup {r \o <<Reading, Delay>> \o Span \o For : r \in Report}

Listed == ({"list", "show"} \X {"timers", "schedules"}) \cup {<<"what", "timers", "are", "set">>}
CancelAll == {<<"cancel", "timers">>, <<"cancel", "all", "timers">>,
              <<"cancel", "all", "schedules">>, <<"stop", "all", "timers">>}
CancelOne == <<{"cancel", "stop"}, {"timer", "schedule"}, {"5f3a0c11"}>>

(* Anything else that looks like a timer is asked back, never passed on.    *)
AboutTime(t) ==
  \/ Has(t, {"timer", "timers", "schedule", "schedules"})
  \/ /\ Has(t, {"in", "after", "every", "for", "when", "if", "increases", "rises"})
     /\ \/ Starts(t, <<{"turn", "switch", "start", "stop", "run", "cycle", "report", "announce"}>>)
        \/ Starts(t, <<{"tell", "notify"}, {"me"}>>)

Timed(t) == {<<"automation.add", k>> : k \in {l \in DOMAIN Timers : \E form \in Timers[l] : Is(t, form)}}

ParseCommand(t) ==
  When(t \in CancelAll \/ Is(t, CancelOne), <<"automation.cancel">>)
  ?? When(t \in Listed, <<"automation.list">>)
  ?? (IF Timed(t) # {} THEN CHOOSE intent \in Timed(t) : TRUE ELSE Nothing)
  ?? When((\E form \in Misplaced : Is(t, form)) \/ AboutTime(t), Clarify)

-----------------------------------------------------------------------------
(* The clock: direct_clock_intent *)
AsksTime(t) ==
  \/ InOrder(t, {"what", "tell", "give", "show"}, {"time", "date", "day"})
  \/ t \in {<<"time">>, <<"date">>, <<"current", "time">>, <<"current", "date">>}

-----------------------------------------------------------------------------
(* The room: parse_environment_intent, on the words without quotation marks *)

Related(t) == Holds(t, {"environment", "temperature", "humidity", "fan", "relay"})

(* Quoted, negated, hypothetical.                                           *)
Doubtful(t, quoted) ==
  \/ Has(t, {"not", "never", "don't", "should", "would", "could", "hypothetical",
             "example", "say", "imagine"})
  \/ Starts(t, <<{"what"}, {"happens", "if"}>>)
  \/ Starts(t, <<{"how", "if", "suppose", "imagine"}>>)
  \/ quoted

Asking(t) == Starts(t, <<{"why", "explain", "define", "describe"}>>)
             \/ Starts(t, <<{"what"}, {"causes"}>>)

(* Number patterns: a verb phrase, a preposition or none, the number.       *)
Thresholds(heads, preposition) ==
  {h \o p \o <<Numbers>> : h \in heads, p \in {<<>>, <<preposition>>}}

StartForms ==
  Thresholds({v \o o \o <<{"on"}>> : v \in {<<{"come", "turn", "switch", "start"}>>},
                                     o \in {<<>>, <<{"it", "fan"}>>}},
             {"at", "above", "when", "if", "from"})
  \cup Thresholds({<<{"on", "start"}, {"threshold"}>>}, {"at", "to"})
  \cup {<<{"on", "start"}, {"at", "above"}, Numbers>>}

StopForms ==
  Thresholds({v \o o \o <<{"off"}>> : v \in {<<{"turn", "switch", "stop"}>>},
                                      o \in {<<>>, <<{"it", "fan"}>>}},
             {"at", "below", "when", "if"})
  \cup Thresholds({<<{"off", "stop"}, {"threshold"}>>}, {"at", "to"})
  \cup Thresholds({<<{"stop"}>>}, {"at", "below"})
  \cup {<<{"off"}, {"at", "below"}, Numbers>>}

NamesThreshold(t) == \E form \in StartForms \cup StopForms : Says(t, form)

DirectSetting(t) ==
  \/ Starts(t, <<{"use", "set", "change", "update", "turn", "switch", "start", "stop"}>>)
  \/ Starts(t, <<{"on", "off"}, {"threshold"}>>)

(* _ambiguous_temperature_setting *)
WhichThreshold(t) ==
  /\ Holds(t, {"set", "change", "update"}) /\ Holds(t, {"temperature", "threshold"})
  /\ Has(t, Numbers) /\ ~ Holds(t, {"start", "stop", "on", "off"})

(* _requested_mode with _looks_like_mode_command                            *)
RequestedMode(t) ==
  When(Has(t, {"semi-automatic"}), <<"mode.set", "semi_automatic">>)
  ?? When(Has(t, {"automatic", "auto"}), <<"mode.set", "automatic">>)
  ?? When(Has(t, {"manual"}), <<"mode.set", "manual">>)
  ?? When(Has(t, {"disabled", "disable"}) /\ Holds(t, {"mode", "control", "environment", "fan"}),
          <<"mode.set", "disabled">>)

ModeCommand(t) ==
  Holds(t, {"set", "use", "switch", "change", "mode", "control", "enable", "disable"})

AsksFan(t) ==
  /\ Holds(t, {"fan"}) /\ Holds(t, {"status", "state", "on", "off", "running", "power"})
  /\ Holds(t, {"is", "what", "tell", "show", "report", "whether", "currently", "status"})

OnForms == {<<{"turn", "switch", "start", "run", "enable", "power"}, {"fan"}, {"on"}>>,
            <<{"turn", "switch", "power"}, {"on"}, {"fan"}>>, <<{"start", "run", "enable"}, {"fan"}>>,
            <<{"get"}, {"fan"}, {"going", "running"}>>, <<{"fan"}, {"on"}>>}

OffForms == {<<{"turn", "switch", "shut", "power", "stop", "disable"}, {"fan"}, {"off"}>>,
             <<{"turn", "switch", "shut", "power"}, {"off"}, {"fan"}>>,
             <<{"stop", "shut", "disable"}, {"fan"}>>, <<{"fan"}, {"off"}>>}

(* _requested_fan_power *)
RequestedPower(t) ==
  When(\E form \in OnForms : Says(t, form), <<"fan.set", "on">>)
  ?? When(\E form \in OffForms : Says(t, form), <<"fan.set", "off">>)

AsksReading(t) ==
  \/ Holds(t, {"temperature", "humidity"}) \/ Says(t, <<{"how"}, {"hot", "warm", "cold", "cool"}>>)

AsksPolicy(t) ==
  /\ Holds(t, {"fan", "environment"}) /\ Holds(t, {"policy", "threshold", "settings"})
  /\ ~ Has(t, {"set", "change", "update"})

AsksState(t) == Holds(t, {"environment", "fan"}) /\ Holds(t, {"status", "state", "health", "ready"})

(* Thresholds, the mode, the power of the fan.                              *)
Setting(t) ==
  When(NamesThreshold(t), IF DirectSetting(t) THEN <<"policy.update">> ELSE Clarify)
  ?? When(WhichThreshold(t), Clarify)
  ?? When(ModeCommand(t), RequestedMode(t))
  ?? When(Holds(t, {"fan"}) /\ Has(t, {"on"}) /\ Has(t, {"off"})
            /\ Has(t, {"turn", "switch", "start", "stop"}), Clarify)
  ?? When(Holds(t, {"fan"}) /\ ~ AsksFan(t), RequestedPower(t))

AskedAbout(t) ==
  When(AsksReading(t), <<"sensor.read">>)
  ?? When(AsksPolicy(t), <<"policy.get">>)
  ?? When(AsksFan(t) \/ AsksState(t), <<"status.get">>)
  ?? When(Related(t) /\ Has(t, {"set", "change", "update", "make", "configure", "run"}), Clarify)

ParseEnvironment(sentence) ==
  LET t == SelectSeq(sentence, LAMBDA w : w # Quote)
      quoted == t # sentence \/ Has(t, {"don't"})
  IN When(Related(t) /\ Doubtful(t, quoted)
            /\ Has(t, {"turn", "switch", "set", "start", "stop", "change", "enable", "disable"}), Clarify)
     ?? When(~ Asking(t), Setting(t) ?? AskedAbout(t))

-----------------------------------------------------------------------------
(* OperationalCommands: what handle does with a sentence, without a model.  *)
Meaning(t) ==
  When(PowerAnswers(t), <<"power">>)
  ?? ParseCommand(t)
  ?? When(AsksTime(t), <<"time">>)
  ?? ParseEnvironment(t)

IsFast(t) == Meaning(t) # Nothing

(* complete_inline: an unfinished timer may still be a complete command for *)
(* the environment grammar.                                                 *)
CompleteInline(t) ==
  \/ PowerRelated(t) \/ AsksTime(t)
  \/ ParseCommand(t) \notin {Nothing, Clarify} \/ ParseEnvironment(t) \notin {Nothing, Clarify}

Mutates(intent) ==
  intent # Nothing /\ intent[1] \in {"fan.set", "mode.set", "policy.update",
                                      "automation.add", "automation.cancel"}

(* _mutation_authorized: the words themselves must ask for this power.      *)
Unsafe(t) ==
  \/ Has(t, {"don't", "hypothetical", "pretend", "example", "quote", "quoted"})
  \/ Says(t, <<{"do"}, {"not"}>>) \/ Says(t, <<{"not"}, {"turn", "switch", "start", "stop"}>>)
  \/ Says(t, <<{"what"}, {"if"}>>) \/ Says(t, <<{"if"}, {"i", "you"}>>)
  \/ Says(t, <<{"would"}, {"you"}>>) \/ Says(t, <<{"could"}, {"you"}, {"explain"}>>) \/ Says(t, <<{"how"}, {"would"}>>)
  \/ Says(t, <<{"without"}, {"turning"}>>)
  \/ Has(t, {Quote}) /\ Has(t, {"turn", "switch", "start", "stop", "fan"})

Wish == {"want", "need"}

Asks(t, power) ==
  IF power = "on"
  THEN \/ InOrder3(t, {"turn", "switch", "power", "start", "run", "enable"}, {"fan"},
                   {"on", "going", "running"})
       \/ Says(t, <<{"start", "run", "enable"}, {"fan"}>>)
       \/ Says(t, <<{"get"}, {"fan"}, {"going", "running"}>>)
       \/ \E i \in DOMAIN t : Fits(t, i, <<{"i"}, Wish>>) /\ InOrder3(t, Wish, {"fan"}, {"on"})
  ELSE \/ InOrder(t, {"turn", "switch", "power", "shut", "stop", "disable"}, {"fan"})
       \/ \E i \in DOMAIN t : Fits(t, i, <<{"i"}, Wish>>) /\ InOrder3(t, Wish, {"fan"}, {"off"})

Authorizes(t, power) == ~ Unsafe(t) /\ Asks(t, power)
=============================================================================
