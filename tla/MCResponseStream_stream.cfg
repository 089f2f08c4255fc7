SPECIFICATION FairSpec
CONSTANTS
  Modes <- EveryMode
  TornModes = {"passthrough"}
  ChatLines <- Chunks
  MaxLines <- Lengths
  MaxPieces = 2
  Attempts = 2
  NoLine = none
INVARIANTS Faithful TruncationTold StoredAsTold
PROPERTIES KeepsProtocol AnswerEnds
CHECK_DEADLOCK FALSE
