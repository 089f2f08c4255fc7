SPECIFICATION Spec
CONSTANTS
  Modes <- MessagesTranslated
  TornModes = {}
  ChatLines <- FewChunks
  MaxLines <- Lengths
  MaxPieces = 2
  Attempts = 1
  NoLine = none
INVARIANTS StartsFirst
CHECK_DEADLOCK FALSE
