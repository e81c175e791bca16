SPECIFICATION FairSpec
CONSTANTS
  Stream <- TwoStreams
  MaxChunks = 1
  Burst = 1
  Artifacts = 1
  MaxGens = 2
PROPERTIES OutcomeIsTrue FoundAdvances AnswerComes CallsEnd
CHECK_DEADLOCK FALSE
