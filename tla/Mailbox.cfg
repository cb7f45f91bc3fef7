\* Two tasks, three calls between them.
SPECIFICATION FairSpec
CONSTANTS
  t1 = t1
  t2 = t2
  Tasks = {t1, t2}
  CounterMax = 3
  ClearTries = 2
  ArrayLen = 2
  MaxEntries = 2
  ValueLen = 8
  SegLen = 7
  InfoParts <- MCInfoParts
  Calls <- MCCalls
  Faults = {"timeout", "bus", "abort"}
  MaxOps = 2
  MaxEmergencies = 1
INVARIANTS
  OwnAnswer
  AnswersObject
  ArrayConsistent
PROPERTIES
  Acknowledged
  CounterSeparates
  EveryTransferEnds
CHECK_DEADLOCK FALSE
