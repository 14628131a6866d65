CONSTANTS
  Cases <- MCCases
  Answers <- MCAnswers
SPECIFICATION FairSpec
INVARIANTS
  NoPrivateDialed
  NoDnsLeak
  EveryFamilyTried
PROPERTIES
  KickedEnds
CHECK_DEADLOCK FALSE
