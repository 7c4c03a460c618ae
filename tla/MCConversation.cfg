SPECIFICATION FairSpec
CONSTANTS
  None = None
  Main = Main
  w1 = w1
  w2 = w2
  Workers = {w1, w2}
  Phrase <- MCPhrase
  Utterances <- MCUtterances
  WindowWords = {2, 5}
  Proposals <- MCProposals
  MaxFaults = 1
INVARIANTS SaidIsDone WholeOrNothing SplitWakeHeard
PROPERTIES QuestionsEnd
CHECK_DEADLOCK FALSE
