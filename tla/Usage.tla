--------------------------------- MODULE Usage --------------------------------
(***************************************************************************)
(* The usage table: what every request leaves in it, what the selection of *)
(* targets and keys reads back from it, and what the dashboard makes of it.*)
(*                                                                         *)
(* A key is a record of its provider, its name, its weight and its quota.  *)
(* In the table a key is named by a sequence: <<provider, name>>, or <<>>  *)
(* and a bare name.  Retries and freezes are those of RequestLoop: here    *)
(* the environment says which keys are open.                               *)
(***************************************************************************)
EXTENDS Selection

CONSTANTS
  Workers,    \* requests in flight at a time
  Asks,       \* what requests ask for: [alias, session], a session being the number
              \* its hash makes, or NoSession
  Pools,      \* alias -> the candidates of its route
  Prices,     \* alias -> what a token of each kind costs
  Openings,   \* the keys that may be open at a time: sets of them
  Outcomes,   \* what a request can leave: [ok, prompt, cached, output]
  Tables,     \* what the table may hold at the start, from earlier processes
  MaxRecords, MaxTime   \* bounds of the requests recorded and of time, for model checking

VARIABLES
  events,   \* the usage table, oldest first
  now,      \* hours
  bound,    \* <<alias, session>> -> key, where bound
  flight,   \* worker -> the request it is at
  records   \* requests recorded so far

vars == <<events, now, bound, flight, records>>

NoSession == -1
DayLength == 1     \* hours
MonthLength == 2   \* hours
Window == 1        \* hours the dashboard calls active
Idle == [at |-> "idle"]

Aliases == DOMAIN Pools
Keys == UNION {UNION {ToSet(c.keys) : c \in ToSet(Pools[a])} : a \in Aliases}
Names == {k.name : k \in Keys}
Providers == {k.provider : k \in Keys}

BareName(key) == <<key.name>>
UsageKeyName(key) == <<key.provider, key.name>>

-------------------------------------------------------------------------------
(* Reading the table *)

Chosen(Test(_)) == {i \in DOMAIN events : Test(events[i])}

SumOver(rows, field) == SumFunctionOnSet([i \in DOMAIN events |-> events[i][field]], rows)

StartOf(period) ==
  CASE period = "today" -> now - (now % DayLength)
    [] period = "day" -> now - DayLength
    [] period = "month" -> now - (now % MonthLength)
    [] OTHER -> 0

\* Mutant of KeyFilter: no names are no filter.
KeyFilterLoose(filter, name) == filter \subseteq {<<>>} \/ name \in filter

\* No filter is a filter of its own; a provider without keys matches nothing.
NoFilter == {<<>>}
KeyFilter(filter, name) == filter = NoFilter \/ name \in filter

Rows(period, filter) ==
  Chosen(LAMBDA e : e.at >= StartOf(period) /\ KeyFilter(filter, e.key))

TokensToday(names) ==
  [n \in names |-> LET rows == Rows("today", {<<n>>})
                   IN SumOver(rows, "prompt") + SumOver(rows, "output")]

TokensTodayOf(alias, names) ==
  [n \in names |-> LET rows == {i \in Rows("today", {<<n>>}) : events[i].model = alias}
                   IN SumOver(rows, "prompt") + SumOver(rows, "output")]

-------------------------------------------------------------------------------
(* Requests *)

RouteAliases(alias, session) ==
  LET all == Pools[alias]
      strategy == all[1].strategy
      candidates == IF strategy = "priority" THEN DropExhausted(all, TokensToday(Names)) ELSE all
      preferred == IF strategy = "usage-aware"
                   THEN UsagePreferred(all, TokensTodayOf(alias, Names)) ELSE {}
  IN OrderTargets(candidates, session, preferred)

\* The key the session is bound to, unless its quota is used up; otherwise what the
\* strategy makes of the open keys.
SelectKey(alias, candidate, session, open) ==
  LET keys == SelectSeq(candidate.keys, LAMBDA k : k.weight > 0 /\ k \in open)
      held == IF <<alias, session>> \in DOMAIN bound THEN {bound[<<alias, session>>]} ELSE {}
      totals == TokensToday(Names)
      sticky == {k \in held \cap ToSet(keys) : ~Exhausted(k, totals)}
      picked == CASE candidate.strategy = "weighted" -> WeightedPick(keys, session)
                  [] candidate.strategy = "priority" ->
                       IF PriorityPick(keys, totals) # {} THEN PriorityPick(keys, totals)
                       ELSE WeightedPick(keys, session)
                  [] OTHER -> UsageAdjustedPick(keys, TokensTodayOf(alias, Names), session)
  IN IF keys = <<>> THEN {} ELSE IF sticky # {} THEN sticky ELSE picked

Init ==
  /\ events \in Tables
  /\ now = 0
  /\ bound = <<>>
  /\ flight = [w \in Workers |-> Idle]
  /\ records = 0

Arrive(w, ask) ==
  /\ flight[w] = Idle
  /\ \E route \in RouteAliases(ask.alias, ask.session) :
       flight' = [flight EXCEPT ![w] = [at |-> "select", alias |-> ask.alias,
                                        session |-> ask.session, route |-> route, tried |-> {}]]
  /\ UNCHANGED <<events, now, bound, records>>

Select(w, open) ==
  LET f == flight[w]
      picks == SelectKey(f.alias, f.route[1], f.session, open \ f.tried)
  IN /\ f.at = "select"
     /\ \/ \E key \in picks :
             /\ flight' = [flight EXCEPT ![w] = [f EXCEPT !.at = "sent"] @@ [key |-> key]]
             /\ bound' = IF f.session = NoSession THEN bound
                         ELSE (<<f.alias, f.session>> :> key) @@ bound
        \/ /\ picks = {}
           /\ flight' = [flight EXCEPT ![w] = IF Len(f.route) = 1 THEN Idle
                                              ELSE [f EXCEPT !.route = Tail(@)]]
           /\ UNCHANGED bound
     /\ UNCHANGED <<events, now, records>>

\* Every attempt is recorded, under the qualified name of its key.
Record(w, outcome) ==
  LET f == flight[w]
      again == [at |-> "select", alias |-> f.alias, session |-> f.session,
                route |-> f.route, tried |-> f.tried \cup {f.key}]
  IN /\ f.at = "sent"
     /\ records < MaxRecords /\ records' = records + 1
     /\ events' = Append(events, [ok |-> outcome.ok, prompt |-> outcome.prompt,
                                  cached |-> outcome.cached, output |-> outcome.output,
                                  at |-> now, model |-> f.alias,
                                  key |-> UsageKeyName(f.key), session |-> f.session])
     /\ flight' = [flight EXCEPT ![w] = IF outcome.ok THEN Idle ELSE again]
     /\ UNCHANGED <<now, bound>>

ResetUsage == events' = <<>> /\ events # <<>> /\ UNCHANGED <<now, bound, flight, records>>

Tick == now < MaxTime /\ now' = now + 1 /\ UNCHANGED <<events, bound, flight, records>>

Next ==
  \/ \E w \in Workers : \/ \E ask \in Asks : Arrive(w, ask)
                        \/ \E open \in Openings : Select(w, open)
                        \/ \E outcome \in Outcomes : Record(w, outcome)
  \/ ResetUsage \/ Tick

Spec == Init /\ [][Next]_vars

-------------------------------------------------------------------------------
(* What the dashboard shows *)

Uncached(prompt, cached) == IF prompt > cached THEN prompt - cached ELSE 0

Fields == {"requests", "errors", "prompt", "cached", "uncached", "output"}

Bucket(rows) ==
  [f \in Fields |->
     CASE f = "requests" -> Cardinality(rows)
       [] f = "errors" -> Cardinality({i \in rows : ~events[i].ok})
       [] f = "uncached" -> Uncached(SumOver(rows, "prompt"), SumOver(rows, "cached"))
       [] OTHER -> SumOver(rows, f)]

ZeroBucket == Bucket({})

\* The buckets of the values of a column.
Grouped(column, rows) ==
  [g \in {events[i][column] : i \in rows} |-> Bucket({i \in rows : events[i][column] = g})]

\* Hours or days for each value of the column.
GroupedSeries(column, rows, hours) ==
  [g \in {events[i][column] : i \in rows} |->
     LET own == {i \in rows : events[i][column] = g}
     IN [b \in {events[i].at \div hours : i \in own} |->
           Bucket({i \in own : events[i].at \div hours = b})]]

\* Buckets are added up field by field.
SumBuckets(groups) ==
  [f \in Fields |-> SumFunctionOnSet([g \in DOMAIN groups |-> groups[g][f]], DOMAIN groups)]

OtherKeys == <<"other">>

\* The groups with the most tokens stay, any among equals; the others become one,
\* bucket by bucket.
MergeTop(series, top) ==
  LET tokens(g) == LET all == SumBuckets(series[g]) IN all.prompt + all.output
      kept == {K \in SUBSET DOMAIN series : /\ Cardinality(K) = top
                                            /\ \A g \in K, o \in DOMAIN series \ K : tokens(g) >= tokens(o)}
      merged(K) ==
        LET others == DOMAIN series \ K
            at(b) == {g \in others : b \in DOMAIN series[g]}
        IN [b \in UNION {DOMAIN series[g] : g \in others} |->
              SumBuckets([g \in at(b) |-> series[g][b]])]
  IN IF top = 0 \/ Cardinality(DOMAIN series) <= top THEN {series}
     ELSE {[g \in K \cup {OtherKeys} |-> IF g = OtherKeys THEN merged(K) ELSE series[g]]
             : K \in kept}

\* Every group gets every bucket.
FillZero(series) ==
  LET buckets == UNION {DOMAIN series[g] : g \in DOMAIN series}
  IN [g \in DOMAIN series |->
        [b \in buckets |-> IF b \in DOMAIN series[g] THEN series[g][b] ELSE ZeroBucket]]

KeyNamesOf(provider) == {UsageKeyName(k) : k \in {k \in Keys : k.provider = provider}}

CostOf(bucket, price) ==
  bucket.uncached * price.uncached + bucket.cached * price.cached + bucket.output * price.output

\* The sum of what the models cost; one without a price costs nothing.
PricedAt(model, bucket) == IF model \in DOMAIN Prices THEN CostOf(bucket, Prices[model]) ELSE 0
TotalCost(groups) ==
  SumFunctionOnSet([m \in DOMAIN groups |-> PricedAt(m, groups[m])], DOMAIN groups)

\* The sessions that did something in the last hours, requests without one apart.
ActiveSessions ==
  LET recent == Chosen(LAMBDA e : e.at > now - Window)
      within(rows, hours) == {i \in rows : events[i].at > now - hours}
      row(rows) == [requests |-> Cardinality(rows),
                    errors |-> Cardinality({i \in rows : ~events[i].ok}),
                    out1 |-> SumOver(within(rows, 1), "output"),
                    out2 |-> SumOver(within(rows, 2), "output"),
                    out3 |-> SumOver(rows, "output")]
  IN [s \in {events[i].session : i \in recent} |-> row({i \in recent : events[i].session = s})]

-------------------------------------------------------------------------------
(* Properties *)

TypeOK ==
  /\ now \in 0 .. MaxTime
  /\ records \in 0 .. MaxRecords
  /\ \A i \in DOMAIN events : /\ events[i].at \in 0 .. now
                              /\ events[i].model \in Aliases
  /\ \A i, j \in DOMAIN events : i < j => events[i].at <= events[j].at
  /\ \A b \in DOMAIN bound : b[1] \in Aliases /\ b[2] # NoSession /\ bound[b] \in Keys
  /\ \A w \in Workers : flight[w].at \in {"idle", "select", "sent"}

\* Whatever the dashboard groups by, cuts down to a provider or to the largest
\* groups, and fills up with zeros, the parts add up to the total beside them, and
\* the cost is that of the requests one by one.  What was not cached adds up, and costs
\* what it should, as long as no upstream says it cached more than it was asked.  A
\* provider answers for the rows of its keys only, not for those of keys since removed.
DashboardAddsUp ==
  \A period \in {"today", "day", "month", "all"} :
    LET rows == Rows(period, NoFilter)
        plausible == \A i \in rows : events[i].cached <= events[i].prompt
        sums(bucket, of) ==
          \A f \in Fields : f # "uncached" \/ plausible => bucket[f] = Bucket(of)[f]
        known == {i \in rows : events[i].key \in {UsageKeyName(k) : k \in Keys}}
        spent == SumFunctionOnSet([i \in rows |-> PricedAt(events[i].model, Bucket({i}))], rows)
    IN /\ \A column \in {"model", "key", "ok"} : sums(SumBuckets(Grouped(column, rows)), rows)
       /\ plausible => TotalCost(Grouped("model", rows)) = spent
       /\ sums(SumBuckets([p \in Providers |-> Bucket(Rows(period, KeyNamesOf(p)))]), known)
       /\ Bucket(Rows(period, KeyNamesOf("nobody"))) = ZeroBucket
       /\ \A top \in 0 .. 1 : \A series \in MergeTop(GroupedSeries("key", rows, DayLength), top) :
            LET filled == FillZero(series)
            IN sums(SumBuckets([g \in DOMAIN filled |-> SumBuckets(filled[g])]), rows)
       /\ SumFunctionOnSet([s \in DOMAIN ActiveSessions |-> ActiveSessions[s].requests],
                           DOMAIN ActiveSessions)
          = Cardinality(Chosen(LAMBDA e : e.at > now - Window))

\* A route that is given out holds every candidate of its pool as often as the pool does,
\* but for those whose quota is used up; each may be the first as often as its weight
\* says, over all sessions there can be, and a session always meets the same order.
RoutesFair ==
  \A a \in Aliases :
    LET pool == Pools[a]
        hashes == 0 .. (Total(pool) - 1)
        given == {<<s, RouteAliases(a, s)>> : s \in hashes \cup {NoSession}}
        whole == IF pool[1].strategy = "priority" THEN DropExhausted(pool, TokensToday(Names))
                 ELSE pool
        times(items, c) == Cardinality({i \in DOMAIN items : items[i] = c})
        first(c) == {g \in given : g[1] # NoSession /\ \E route \in g[2] : route[1] = c}
        weights(c) == SumFunctionOnSet([i \in DOMAIN pool |-> Weight(pool[i])],
                                       {i \in DOMAIN pool : pool[i] = c})
    IN /\ \A g \in given :
            /\ g[1] # NoSession => Cardinality(g[2]) = 1
            /\ \A route \in g[2] : /\ Len(route) = Len(whole)
                                   /\ \A c \in ToSet(whole) : times(route, c) = times(whole, c)
       /\ pool[1].strategy = "weighted" =>
            \A c \in ToSet(pool) : Cardinality(first(c)) = weights(c)

\* A key whose quota of the day is used up is not taken while another open key of the
\* pool has some left.
QuotaRespected ==
  \A w \in Workers :
    LET f == flight[w]
        used(k) == LET rows == Rows("today", {UsageKeyName(k)})
                   IN SumOver(rows, "prompt") + SumOver(rows, "output")
        spent(k) == k.quota # NoQuota /\ used(k) >= k.quota
    IN f.at = "select" /\ f.route[1].strategy = "priority" =>
         \A key \in SelectKey(f.alias, f.route[1], f.session, Keys \ f.tried) :
           spent(key) => \A k \in ToSet(f.route[1].keys) \ f.tried : k.weight > 0 => spent(k)
===============================================================================
