-------------------------------- MODULE Services ------------------------------
(***************************************************************************)
(* The parts of a backend that share no state with each other, side by     *)
(* side: the freezes in the database, the configuration, the rules that    *)
(* judge failures, name resolution, usage and selection, traffic and web   *)
(* search.                                                                 *)
(* A behaviour is one of the part it starts with; the others stand still.  *)
(***************************************************************************)
EXTENDS Integers, FiniteSets, Sequences

CONSTANTS
  Parts,           \* the parts to explore
  Broken,          \* the content of a half-written file
  Backends, FreezeKeys, Durations, FreezeTime,              \* SharedStore
  ConfiguredSlots, ConfiguringSlots, InitialFiles, Requests, ProviderOrder,
  MaxChanges,                                               \* Configuration
  UsageWorkers, Asks, Pools, Prices, Openings, Tables, Outcomes, UsageRecords,
  UsageTime,                                                \* Usage
  TrafficSessions, NoTrafficSession, Buckets, Windows, MaxSessions, TrafficTime,
  TrafficRecords,                                           \* Traffic
  Searches, Requested, SearchContents, None, Budget, MaxLost, MaxEdits,   \* WebSearch
  JudgingSlots, RulingSlots, NoRulesFile, Builtin, RuleContents, Upstreams, Replies,
  MaxWrites,                                                \* FailureRules
  Lookups, Hosts, NameContents, MaxUpdates, NameTime        \* NameResolution

\* Time goes on, and a freeze lasts some of it.
ASSUME DurationsAssumption == Durations \subseteq Nat

\* The configuration is one of the four files.
ASSUME FilesAssumption ==
  InitialFiles = [f \in {"providers", "models", "pools", "virtual"} |-> InitialFiles[f]]

ASSUME SearchesAssumption == IsFiniteSet(Searches)

\* A file of web search has its fields; no request names what stands for no name.
ASSUME SearchContentsAssumption ==
  SearchContents \subseteq
    [chrome : {[unset |-> TRUE]} \cup [enabled : BOOLEAN, engines : Seq(STRING)],
     providers : Seq([name : STRING,
                      keys : Seq([name : STRING, weight : Int, enabled : BOOLEAN,
                                  configured : BOOLEAN])])]
ASSUME NoneAssumption == None \notin {"chrome", "google", "bing", "tavily", "exa", "brave"}

\* A finite number of routes, none of them empty, with their keys.  "nobody" is whom the
\* dashboard is asked for in vain.
ASSUME PoolsAssumption ==
  /\ IsFiniteSet(DOMAIN Pools)
  /\ \A a \in DOMAIN Pools :
       Pools[a] \in
         Seq([model : STRING, weight : Int, strategy : STRING,
              keys : Seq([provider : STRING \ {"nobody"}, name : Nat, weight : Int,
                          quota : Int])]) \ {<<>>}

\* What a request leaves and the table holds are numbers, under the provider and the name
\* of a key, and prices are numbers.
ASSUME UsageAssumption ==
  /\ Outcomes \subseteq [ok : BOOLEAN, prompt : Int, cached : Int, output : Int]
  /\ Tables \subseteq Seq([ok : BOOLEAN, prompt : Int, cached : Int, output : Int, at : Int,
                           model : STRING, key : STRING \X Nat, session : Int])
  /\ \A model \in DOMAIN Prices : Prices[model] \in [uncached : Int, cached : Int, output : Int]

\* "all" is no session: the sum of all has a place of its own.
ASSUME TrafficAssumption == "all" \notin TrafficSessions

\* A ring has a bucket for every second of the longest window.
ASSUME BucketsAssumption == Buckets \in Nat \ {0} /\ Windows \subseteq 0 .. Buckets

VARIABLES
  part,
  clock, frozen, frozenRows,                                        \* SharedStore
  disk, config, stale, noticed, edit, saving, clean, changes,       \* Configuration
  events, now, bound, flight, records,                                      \* Usage
  second, rings, totals, last, history,                             \* Traffic
  file, search, tabs, lost, put, edits,                             \* WebSearch
  rulesFile, rules, unseen, seen, putting, writes,                  \* FailureRules
  namesFile, resolver, ttl, updates, cache, lookup, update, time    \* NameResolution

freezes == <<clock, frozen, frozenRows>>
configuration == <<disk, config, stale, noticed, edit, saving, clean, changes>>
usage == <<events, now, bound, flight, records>>
traffic == <<second, rings, totals, last, history>>
web == <<file, search, tabs, lost, put, edits>>
judging == <<rulesFile, rules, unseen, seen, putting, writes>>
naming == <<namesFile, resolver, ttl, updates, cache, lookup, update, time>>
vars == <<part, freezes, configuration, usage, traffic, web, judging, naming>>

-------------------------------------------------------------------------------
(* SharedStore *)

Sharing == INSTANCE SharedStore WITH
  now <- clock, Keys <- FreezeKeys, MaxTime <- FreezeTime,
  \* of the request loop, which has no part here
  Aliases <- {}, Models <- {}, Sessions <- {}, NoKey <- "none", Pool <- <<>>, ModelOf <- <<>>,
  Weight <- <<>>, QuotaKeys <- {}, SessionTTL <- 1, ConnectFreeze <- 1, RetryLadder <- <<>>,
  PermanentDelay <- 1

RowsKept == Sharing!RowsKept

-------------------------------------------------------------------------------
(* Configuration *)

Configuring == INSTANCE Configuration WITH
  Slots <- ConfiguredSlots, Editors <- ConfiguringSlots

ReferencesKept == part = "configuration" => Configuring!ReferencesKept

\* A pool reaches what it names, and an old one what it was announced with.
RoutesReach == part = "configuration" => Configuring!RoutesReach /\ Configuring!LegacyKept

-------------------------------------------------------------------------------
(* Usage *)

Using == INSTANCE Usage WITH
  Workers <- UsageWorkers, MaxRecords <- UsageRecords, MaxTime <- UsageTime

DashboardAddsUp == part = "usage" => Using!DashboardAddsUp
RoutesFair == part = "usage" => Using!RoutesFair
QuotaRespected == part = "usage" => Using!QuotaRespected

-------------------------------------------------------------------------------
(* Traffic *)

Counting == INSTANCE Traffic WITH
  Sessions <- TrafficSessions, Slots <- Buckets, MaxTime <- TrafficTime,
  NoSession <- NoTrafficSession, MaxRecords <- TrafficRecords, now <- second

RatesExact == part = "traffic" => Counting!RatesExact

-------------------------------------------------------------------------------
(* WebSearch *)

Searching == INSTANCE WebSearch WITH
  Workers <- Searches, Contents <- SearchContents

TabsReturned == part = "web" => Searching!TabsReturned
AnswersHonest == part = "web" => Searching!AnswersHonest

-------------------------------------------------------------------------------
(* FailureRules *)

Judging == INSTANCE FailureRules WITH
  Slots <- JudgingSlots, Editors <- RulingSlots, Contents <- RuleContents,
  Absent <- NoRulesFile, Providers <- Upstreams, MaxChanges <- MaxWrites

\* What a backend serves and judges by is what its files say.
Converged == /\ part = "configuration" => Configuring!Converged
             /\ part = "rules" => Judging!Converged

-------------------------------------------------------------------------------
(* NameResolution *)

Naming == INSTANCE NameResolution WITH
  Workers <- Lookups, Contents <- NameContents, MaxTime <- NameTime,
  saving <- update, now <- time

NamesFresh == part = "names" => Naming!NamesFresh

-------------------------------------------------------------------------------
Init ==
  /\ part \in Parts
  /\ Sharing!Init /\ Configuring!Init /\ Using!Init /\ Counting!Init /\ Searching!Init
  /\ Judging!Init /\ Naming!Init
  /\ part # "web" => file = CHOOSE content \in SearchContents : TRUE
  /\ part # "rules" => rulesFile = NoRulesFile
  /\ part # "names" => namesFile = CHOOSE content \in NameContents : TRUE

FreezesStep == /\ part = "freezes" /\ Sharing!Next
               /\ UNCHANGED <<part, judging, naming, configuration, usage, traffic, web>>
ConfigurationStep == /\ part = "configuration" /\ Configuring!Next
                     /\ UNCHANGED <<part, judging, naming, freezes, usage, traffic, web>>
UsageStep == /\ part = "usage" /\ Using!Next
             /\ UNCHANGED <<part, judging, naming, freezes, configuration, traffic, web>>
TrafficStep == /\ part = "traffic" /\ Counting!Next
               /\ UNCHANGED <<part, judging, naming, freezes, configuration, usage, web>>
WebStep == /\ part = "web" /\ Searching!Next
           /\ UNCHANGED <<part, judging, naming, freezes, configuration, usage, traffic>>

RulesStep == /\ part = "rules" /\ Judging!Next
             /\ UNCHANGED <<part, freezes, configuration, usage, traffic, web, naming>>
NamesStep == /\ part = "names" /\ Naming!Next
             /\ UNCHANGED <<part, freezes, configuration, usage, traffic, web, judging>>

Next ==
  \/ FreezesStep \/ ConfigurationStep \/ UsageStep \/ TrafficStep \/ WebStep
  \/ RulesStep \/ NamesStep

Spec == Init /\ [][Next]_vars

\* The state of each part has its type, and its containers their limits.
TypeOK ==
  /\ part \in Parts
  /\ part = "configuration" => Configuring!TypeOK
  /\ part = "usage" => Using!TypeOK
  /\ part = "traffic" => Counting!TypeOK
  /\ part = "web" => Searching!TypeOK
  /\ part = "rules" => Judging!TypeOK
  /\ part = "names" => Naming!TypeOK
===============================================================================
