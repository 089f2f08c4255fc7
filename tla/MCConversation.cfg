SPECIFICATION Spec
CONSTANTS
  Workers = {w1}
  Slots = {blue, green}
  Asks <- SomeAsks
  Routes <- SomeRoutes
  Answers <- SomeAnswers
  Fields <- SomeFields
  Aliases <- SomeAliases
  Names <- SomeNames
  Refused = refused
  MaxEntries = 2
  TTL = 2
  MaxAnswers = 3
SYMMETRY Symmetric
INVARIANTS TextsAndCallsKept Remembered ResultsFollowCalls DeepseekAccepts
CHECK_DEADLOCK FALSE
