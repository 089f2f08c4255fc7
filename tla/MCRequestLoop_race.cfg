SPECIFICATION Spec
CONSTANTS
  k1 = k1  k2 = k2  k3 = k3  a1 = a1  a2 = a2  m1 = m1  r1 = r1  r2 = r2
  Keys = {k1, k2}
  Aliases = {a1}
  Models = {m1}
  Sessions = {s1}
  NoKey = none
  Pool <- OneAlias
  ModelOf <- OneModel
  Weight <- EqualWeights
  QuotaKeys = {}
  SessionTTL = 1
  ConnectFreeze = 1
  RetryLadder <- ShortLadder
  PermanentDelay = 9
  Requests = {r1, r2}
  NoSession = nosession
  Route <- OneHop
  Providers <- OneProvider
  Replies = {"ok", "embedded", "broken", "zero", "invalid", "transient", "connect"}
  AttemptsPerKey = 2
  InvalidFreeze = 2
  DifferentialFreeze = 2
  ExhaustedFreeze = 1
  Waits = {1}
  MaxTime = 2
SYMMETRY Interchangeable
INVARIANTS TypeOK DatabaseMirrorsMemory
PROPERTIES FreezeHolds ServingKeySpared AffinityKept
