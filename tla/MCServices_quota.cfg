SPECIFICATION Spec
CONSTANTS
  Parts = {"usage"}
  Broken = broken
  Backends = {"blue", "green"}
  FreezeKeys = {"k"}
  Durations = {1, 2, 3}
  FreezeTime = 5
  ConfiguredSlots = {"A", "B"}
  ConfiguringSlots = {"A"}
  InitialFiles <- SomeFiles
  Requests <- SomeRequests
  ProviderOrder <- SomeOrder
  MaxChanges = 2
  UsageWorkers = {1}
  Asks <- SomeAsks
  Pools <- SomePools
  Prices <- SomePrices
  Openings <- SomeOpenings
  Tables <- SomeTables
  Outcomes <- SomeOutcomes
  UsageRecords = 2
  UsageTime = 1
  TrafficSessions = {"s1", "s2"}
  NoTrafficSession = "none"
  Buckets = 3
  Windows = {1, 2, 3}
  MaxSessions = 1
  TrafficTime = 5
  TrafficRecords = 3
  Searches = {s1, s2}
  Requested = {"none", "auto", "chrome", "bing", "tavily", "duck"}
  SearchContents <- SomeContents
  None = "none"
  Budget = 1
  MaxLost = 1
  MaxEdits = 1
  JudgingSlots = {"A", "B"}
  RulingSlots = {"A"}
  NoRulesFile <- NoFile
  Builtin <- InCode
  RuleContents <- SomeRules
  Upstreams = {"p", "q", "ark"}
  Replies <- SomeReplies
  MaxWrites = 3
  Lookups = {l1, l2}
  Hosts = {"h"}
  NameContents <- SomeNames
  MaxUpdates = 2
  NameTime = 1
INVARIANTS QuotaRespected
CHECK_DEADLOCK FALSE
