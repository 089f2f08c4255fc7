SPECIFICATION FairSpec
CONSTANTS
  k1 = k1  k2 = k2  k3 = k3  a1 = a1  a2 = a2  m1 = m1  r1 = r1  r2 = r2
  Keys = {k1, k2, k3}
  Aliases = {a1, a2}
  Models = {m1}
  Sessions = {s1}
  NoKey = none
  Pool <- TwoAliases
  ModelOf <- SameModel
  Weight <- RetiredKey
  QuotaKeys = {k1}
  SessionTTL = 1
  ConnectFreeze = 1
  RetryLadder <- ShortLadder
  PermanentDelay = 9
  Requests = {r1}
  NoSession = nosession
  Route <- TwoHops
  Providers <- TwoProviders
  Replies = {"ok", "missing", "unsupported", "limited", "transient", "zero", "connect"}
  AttemptsPerKey = 2
  InvalidFreeze = 1
  DifferentialFreeze = 1
  ExhaustedFreeze = 1
  Waits = {0, 1}
  MaxTime = 1
PROPERTIES GivesUpForCause RequestsEnd
