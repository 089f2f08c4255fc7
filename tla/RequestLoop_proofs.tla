--------------------------- MODULE RequestLoop_proofs -------------------------
(***************************************************************************)
(* Proofs about RequestLoop, for every pool, route, tunable and number of  *)
(* requests.                                                               *)
(***************************************************************************)
EXTENDS RequestLoop, TLAPS

-------------------------------------------------------------------------------
(* What the operators of RouterState return *)

\* Every operator on a freeze table gives a freeze table.
LEMMA FreezeTypes ==
  ASSUME NEW f \in [Keys -> Nat], NEW rows \in [Keys -> Nat], NEW K, NEW until \in Nat,
         NEW time \in Nat
  PROVE  /\ FreezeAll(f, K, until) \in [Keys -> Nat]
         /\ StoreFreezeAll(rows, f, K, until) \in [Keys -> Nat]
         /\ Thaw(f, time) \in [Keys -> Nat]
         /\ StoreThaw(rows, f, time) \in [Keys -> Nat]
BY DEF FreezeAll, StoreFreezeAll, Thaw, StoreThaw

\* Every operator on a binding table gives a binding table.
LEMMA BindingTypes ==
  ASSUME NEW b \in [Affinities -> Binding], NEW rows \in [Affinities -> Binding],
         NEW a \in Aliases, NEW s \in Sessions, NEW k \in Keys, NEW time \in Nat
  PROVE  /\ Bind(b, a, s, k, time) \in [Affinities -> Binding]
         /\ Unbind(b, a, s) \in [Affinities -> Binding]
         /\ DropExpired(b, time) \in [Affinities -> Binding]
         /\ StoreDropExpired(rows, b, time) \in [Affinities -> Binding]
<1>1. Unbound \in Binding
  BY DEF Unbound, Binding
<1>2. [key |-> k, expires |-> time + SessionTTL] \in Binding
  BY TunablesAssumption DEF Binding
<1> QED
  BY <1>1, <1>2 DEF Bind, Unbind, DropExpired, StoreDropExpired

\* A rung's delay is a number of seconds.
LEMMA DelayType ==
  ASSUME NEW n \in Nat \ {0}
  PROVE  Delay(n) \in Nat
BY TunablesAssumption DEF Delay

\* A step up the ladder gives a rung, and never the empty one.
LEMMA RungType ==
  ASSUME NEW old \in Rung, NEW time \in Nat
  PROVE  /\ NextRung(old, time) \in Rung
         /\ NextRung(old, time).attempt > 0
<1>1. Len(RetryLadder) \in Nat
  BY TunablesAssumption
<1> DEFINE climbed == IF old.attempt <= Len(RetryLadder) THEN old.attempt + 1
                                                         ELSE old.attempt
<1>2. climbed \in 1..Len(RetryLadder) + 1
  BY <1>1 DEF Rung
<1>3. Delay(climbed) \in Nat
  BY <1>2, DelayType
<1> QED
  BY <1>1, <1>2, <1>3 DEF NextRung, Rung

\* A further connect failure gives a streak.
LEMMA StreakType ==
  ASSUME NEW old \in Streak, NEW time \in Nat
  PROVE  NextStreak(old, time) \in Streak
<1> DEFINE count == IF old.count > 0 /\ time - old.last < 4 * old.ttl
                    THEN IF old.count < Len(Doubling) THEN old.count + 1
                                                      ELSE Len(Doubling)
                    ELSE 1
<1>1. Len(Doubling) = 6
  BY DEF Doubling
<1>2. count \in 1..6
  BY <1>1 DEF Streak
<1>3. Doubling[count] \in {1, 2, 4, 8, 16, 32}
  BY <1>2 DEF Doubling
<1>4. ConnectFreeze * Doubling[count] \in Nat
  BY <1>3, TunablesAssumption
<1> QED
  BY <1>1, <1>2, <1>4 DEF NextStreak, Streak

\* The alias a request is at, its model and its pool.
LEMMA AliasType ==
  ASSUME TypeOK, NEW r \in Requests
  PROVE  /\ AliasOf(r) \in Aliases
         /\ ModelOf[AliasOf(r)] \in Models
         /\ Pool[AliasOf(r)] \subseteq Keys
<1>1. Route \in Seq(Aliases) /\ hop[r] \in 1..Len(Route)
  BY LoopAssumption DEF TypeOK
<1>2. AliasOf(r) \in Aliases
  BY <1>1 DEF AliasOf
<1> QED
  BY <1>2, KeysAssumption

\* A key is chosen from the usable keys of the pool, so it is untried and open.
LEMMA ChoicesUsable ==
  ASSUME NEW f, NEW b, NEW u, NEW a, NEW s, NEW gone, NEW time,
         NEW k \in Choices(f, b, u, a, s, gone, time)
  PROVE  k \in Pool[a] /\ k \notin gone /\ ~IsFrozen(f, k, time)
BY DEF Choices, Supported, Usable

-------------------------------------------------------------------------------
(* Type correctness *)

FreezesOK == frozen \in [Keys -> Nat] /\ frozenRows \in [Keys -> Nat]
BindingsOK ==
  bindings \in [Affinities -> Binding] /\ bindingRows \in [Affinities -> Binding]
LadderOK ==
  unsupported \in [Ladders -> Rung] /\ ladderRows \in [Ladders -> Rung]
LocalsOK ==
  /\ pc \in [Requests -> Places]
  /\ session \in [Requests -> Sessions \union {NoSession}]
  /\ hop \in [Requests -> 1..Len(Route)]
  /\ key \in [Requests -> Keys \union {NoKey}]
  /\ attempt \in [Requests -> 0..AttemptsPerKey - 1]
  /\ tried \in [Requests -> SUBSET Keys] /\ ambiguous \in [Requests -> SUBSET Keys]
  /\ transient \in [Requests -> BOOLEAN]

\* A lock section that freezes keeps the types of memory and table.
LEMMA FreezingType ==
  ASSUME TypeOK, NEW K, NEW until \in Nat, Freezing(K, until)
  PROVE  FreezesOK'
BY FreezeTypes DEF TypeOK, Freezing, FreezesOK

\* ... and so does one that freezes nothing.
LEMMA NoFreezingType ==
  ASSUME TypeOK, NoFreezing
  PROVE  FreezesOK'
BY DEF TypeOK, NoFreezing, FreezesOK

\* A lock section that unbinds keeps the types of memory and table.
LEMMA UnbindingType ==
  ASSUME TypeOK, NEW r \in Requests, Unbinding(r)
  PROVE  BindingsOK'
<1>1. CASE session[r] \in Sessions
  <2>1. AliasOf(r) \in Aliases
    BY AliasType
  <2>2. Unbound \in Binding
    BY DEF Unbound, Binding
  <2> QED
    BY <1>1, <2>1, <2>2 DEF TypeOK, Unbinding, BindingsOK, Unbind
<1>2. CASE session[r] \notin Sessions
  BY <1>2 DEF TypeOK, Unbinding, BindingsOK
<1> QED
  BY <1>1, <1>2

\* Fresh locals have their types.
LEMMA BeginType ==
  ASSUME TypeOK, NEW r \in Requests, NEW place \in Places,
         NEW s \in Sessions \union {NoSession}, NEW h \in 1..Len(Route),
         Begin(r, place, s, h)
  PROVE  LocalsOK'
<1>1. 0 \in 0..AttemptsPerKey - 1
  BY LoopAssumption
<1> QED
  BY <1>1 DEF TypeOK, LocalsOK, Begin

\* The locals of a request that has ended have their types.
LEMMA EndedType ==
  ASSUME TypeOK, NEW r \in Requests, Ended(r)
  PROVE  LocalsOK'
<1>1. 1 \in 1..Len(Route)
  BY LoopAssumption
<1> QED
  BY <1>1, BeginType DEF Ended, Places

\* The locals for the next alias have their types.
LEMMA NextHopType ==
  ASSUME TypeOK, NEW r \in Requests, NextHop(r)
  PROVE  LocalsOK'
<1>1. CASE hop[r] < Len(Route)
  <2>1. hop[r] + 1 \in 1..Len(Route) /\ session[r] \in Sessions \union {NoSession}
    BY <1>1, LoopAssumption DEF TypeOK
  <2> QED
    BY <1>1, <2>1, BeginType DEF NextHop, Places
<1>2. CASE ~(hop[r] < Len(Route))
  BY <1>2, EndedType DEF NextHop
<1> QED
  BY <1>1, <1>2

\* The locals after a failure have their types.
LEMMA FailedType ==
  ASSUME TypeOK, NEW r \in Requests, NEW isTransient \in BOOLEAN,
         NEW blamed \in SUBSET Keys, Failed(r, isTransient, blamed)
  PROVE  LocalsOK'
<1>1. 0 \in 0..AttemptsPerKey - 1
  BY LoopAssumption
<1> QED
  BY <1>1 DEF TypeOK, LocalsOK, Failed, Places

\* A request that only moves keeps the types of its locals.
LEMMA MovesType ==
  ASSUME TypeOK, NEW r \in Requests, NEW place \in Places, Moves(r, place)
  PROVE  LocalsOK'
BY DEF TypeOK, LocalsOK, Moves

\* The variables fall into groups, and an action touches few of them.
LEMMA TypeGroups ==
  ASSUME now' \in Nat, (streaks \in [Keys -> Streak])',
         FreezesOK', BindingsOK', LadderOK', LocalsOK'
  PROVE  TypeOK'
BY DEF TypeOK, FreezesOK, BindingsOK, LadderOK, LocalsOK

\* A key in use was chosen by this request and is not among those it blames, and a
\* retry is one the key has left.
Chosen ==
  \A r \in Requests :
    /\ ambiguous[r] \subseteq tried[r]
    /\ pc[r] \in {"send", "retry", "settle"} => key[r] \in tried[r] \ ambiguous[r]
    /\ pc[r] = "retry" => attempt[r] + 1 < AttemptsPerKey

\* The first state has its type.
LEMMA InitType == Init => TypeOK
<1> SUFFICES ASSUME Init PROVE TypeOK
  OBVIOUS
<1>1. Unbound \in Binding /\ NoStreak \in Streak /\ NoRung \in Rung
  BY TunablesAssumption DEF Unbound, Binding, NoStreak, Streak, NoRung, Rung, Doubling
<1>2. 0 \in 0..AttemptsPerKey - 1 /\ 1 \in 1..Len(Route)
  BY LoopAssumption
<1> QED
  BY <1>1, <1>2 DEF Init, TypeOK, Places

\* Selection preserves the types.
LEMMA SelectType ==
  ASSUME TypeOK, NEW r \in Requests, Select(r)
  PROVE  TypeOK'
<1> DEFINE alias == AliasOf(r)
           s == session[r]
           live == DropExpired(bindings, now)
           liveRows == StoreDropExpired(bindingRows, bindings, now)
           choices == Choices(frozen, live, unsupported, alias, s, tried[r], now)
<1>1. alias \in Aliases /\ Pool[alias] \subseteq Keys /\ now \in Nat
  BY AliasType DEF TypeOK
<1>2. FreezesOK'
  BY <1>1, FreezeTypes DEF TypeOK, Select, FreezesOK
<1>3. live \in [Affinities -> Binding] /\ liveRows \in [Affinities -> Binding]
  <2>1. Unbound \in Binding
    BY DEF Unbound, Binding
  <2> QED
    BY <2>1 DEF TypeOK, DropExpired, StoreDropExpired
<1>4. BindingsOK' /\ LocalsOK'
  <2>1. CASE /\ choices = {} /\ bindings' = live /\ bindingRows' = liveRows
             /\ IF transient[r] THEN Moves(r, "breaker") ELSE NextHop(r)
    BY <1>3, <2>1, MovesType, NextHopType DEF BindingsOK, Places
  <2>2. ASSUME NEW k \in choices,
               IF s \in Sessions
               THEN /\ bindings' = Bind(live, alias, s, k, now)
                    /\ bindingRows' = Bind(liveRows, alias, s, k, now)
               ELSE bindings' = live /\ bindingRows' = liveRows,
               pc' = [pc EXCEPT ![r] = "send"],
               key' = [key EXCEPT ![r] = k],
               attempt' = [attempt EXCEPT ![r] = 0],
               tried' = [tried EXCEPT ![r] = @ \union {k}],
               UNCHANGED <<session, hop, ambiguous, transient>>
        PROVE  BindingsOK' /\ LocalsOK'
    <3>1. k \in Keys
      BY <1>1, ChoicesUsable
    <3>2. BindingsOK'
      BY <1>1, <1>3, <2>2, <3>1, BindingTypes DEF BindingsOK
    <3>3. 0 \in 0..AttemptsPerKey - 1
      BY LoopAssumption
    <3> QED
      BY <2>2, <3>1, <3>2, <3>3 DEF TypeOK, LocalsOK, Places
  <2> QED
    BY <2>1, <2>2 DEF Select
<1> QED
  BY <1>2, <1>4, TypeGroups DEF Select, TypeOK, LadderOK

\* The bookkeeping after a success preserves the types.
LEMMA SettleType ==
  ASSUME TypeOK, Chosen, NEW r \in Requests, Settle(r)
  PROVE  TypeOK'
<1>1. NoStreak \in Streak /\ NoRung \in Rung
  BY TunablesAssumption DEF NoStreak, Streak, NoRung, Rung, Doubling
<1>2. LadderOK'
  BY <1>1 DEF TypeOK, Settle, LadderOK
<1>3. streaks' \in [Keys -> Streak]
  BY <1>1 DEF TypeOK, Settle
<1>4. LocalsOK'
  BY EndedType DEF Settle
<1> QED
  BY <1>2, <1>3, <1>4, TypeGroups DEF Settle, TypeOK, FreezesOK, BindingsOK

\* The key a reply is for, and the instants its handler may freeze keys until.
LEMMA ReplyTimes ==
  ASSUME TypeOK, Chosen, NEW r \in Requests, Reply(r)
  PROVE  /\ key[r] \in Keys
         /\ NextStreak(streaks[key[r]], now) \in Streak
         /\ now + NextStreak(streaks[key[r]], now).ttl \in Nat
         /\ now + InvalidFreeze \in Nat /\ now + DifferentialFreeze \in Nat
         /\ \A wait \in Waits : now + wait \in Nat
<1>1. now \in Nat /\ streaks \in [Keys -> Streak]
  BY DEF TypeOK
<1>2. key[r] \in Keys
  BY DEF Chosen, TypeOK, Reply, Answered, MissingKeyValue, Succeed, EmbeddedError,
         StreamBreak, ZeroOutput, Invalid, RateLimited, ModelUnsupported, Transient,
         ConnectFailure
<1>3. NextStreak(streaks[key[r]], now) \in Streak
  BY <1>1, <1>2, StreakType
<1>4. NextStreak(streaks[key[r]], now).ttl \in Nat
  BY <1>3 DEF Streak
<1>5. now + NextStreak(streaks[key[r]], now).ttl \in Nat
  BY <1>1, <1>4
<1>6. /\ now + InvalidFreeze \in Nat /\ now + DifferentialFreeze \in Nat
      /\ \A wait \in Waits : now + wait \in Nat
  BY <1>1, LoopAssumption
<1> QED
  BY <1>2, <1>3, <1>5, <1>6

\* Every reply of the upstream preserves the types.
LEMMA ReplyType ==
  ASSUME TypeOK, Chosen, NEW r \in Requests, Reply(r)
  PROVE  TypeOK'
<1>1. /\ now \in Nat /\ streaks \in [Keys -> Streak]
      /\ FALSE \in BOOLEAN /\ TRUE \in BOOLEAN /\ {} \in SUBSET Keys
  BY DEF TypeOK
<1>2. /\ now + InvalidFreeze \in Nat /\ now + DifferentialFreeze \in Nat
      /\ \A wait \in Waits : now + wait \in Nat
  BY ReplyTimes
<1>3. key[r] \in Keys
  BY ReplyTimes
<1>4. CASE MissingKeyValue(r)
  <2>1. LocalsOK'
    BY <1>1, <1>4, FailedType DEF MissingKeyValue
  <2> QED
    BY <1>4, <2>1, TypeGroups
       DEF MissingKeyValue, TypeOK, FreezesOK, BindingsOK, LadderOK, memory, database
<1>5. CASE Succeed(r)
  <2>1. FreezesOK'
    BY <1>2, <1>5, FreezingType DEF Succeed
  <2>2. LocalsOK'
    BY <1>5, MovesType DEF Succeed, Places
  <2> QED
    BY <1>5, <2>1, <2>2, TypeGroups DEF Succeed, TypeOK, BindingsOK, LadderOK
<1>6. CASE EmbeddedError(r)
  <2>1. FreezesOK'
    BY <1>2, <1>6, FreezingType, NoFreezingType DEF EmbeddedError
  <2>2. BindingsOK' /\ LocalsOK'
    BY <1>6, UnbindingType, EndedType DEF EmbeddedError
  <2> QED
    BY <1>6, <2>1, <2>2, TypeGroups DEF EmbeddedError, TypeOK, LadderOK
<1>7. CASE StreamBreak(r)
  <2>1. BindingsOK' /\ LocalsOK'
    BY <1>7, UnbindingType, EndedType DEF StreamBreak
  <2> QED
    BY <1>7, <2>1, TypeGroups DEF StreamBreak, TypeOK, FreezesOK, LadderOK
<1>8. CASE ZeroOutput(r)
  <2>1. FreezesOK' /\ BindingsOK' /\ LocalsOK'
    BY <1>1, <1>2, <1>8, FreezingType, UnbindingType, FailedType DEF ZeroOutput
  <2> QED
    BY <1>8, <2>1, TypeGroups DEF ZeroOutput, TypeOK, LadderOK
<1>9. CASE Invalid(r)
  <2>1. FreezesOK' /\ BindingsOK' /\ LocalsOK'
    BY <1>1, <1>2, <1>9, FreezingType, UnbindingType, FailedType DEF Invalid
  <2> QED
    BY <1>9, <2>1, TypeGroups DEF Invalid, TypeOK, LadderOK
<1>10. CASE RateLimited(r)
  <2>1. FreezesOK'
    BY <1>2, <1>10, FreezingType, NoFreezingType DEF RateLimited
  <2>2. BindingsOK' /\ LocalsOK'
    BY <1>1, <1>10, UnbindingType, FailedType DEF RateLimited
  <2> QED
    BY <1>10, <2>1, <2>2, TypeGroups DEF RateLimited, TypeOK, LadderOK
<1>11. CASE ModelUnsupported(r)
  <2> DEFINE rung == <<ModelOf[AliasOf(r)], key[r]>>
  <2>1. LadderOK'
    <3>1. rung \in Ladders
      BY <1>3, AliasType DEF Ladders
    <3>2. NextRung(unsupported[rung], now) \in Rung
      BY <1>1, <3>1, RungType DEF TypeOK
    <3> QED
      BY <1>11, <3>2 DEF ModelUnsupported, TypeOK, LadderOK
  <2>2. BindingsOK' /\ LocalsOK'
    BY <1>11, UnbindingType, EndedType DEF ModelUnsupported
  <2> QED
    BY <1>11, <2>1, <2>2, TypeGroups DEF ModelUnsupported, TypeOK, FreezesOK
<1>12. CASE Transient(r)
  <2>1. LocalsOK'
    <3>1. CASE attempt[r] + 1 < AttemptsPerKey
      BY <1>12, <3>1, MovesType DEF Transient, Places
    <3>2. CASE ~(attempt[r] + 1 < AttemptsPerKey)
      BY <1>1, <1>3, <1>12, <3>2, FailedType DEF Transient
    <3> QED
      BY <3>1, <3>2
  <2>2. BindingsOK'
    BY <1>12, UnbindingType DEF Transient
  <2> QED
    BY <1>12, <2>1, <2>2, TypeGroups DEF Transient, TypeOK, FreezesOK, LadderOK
<1>13. CASE ConnectFailure(r)
  <2> DEFINE next == NextStreak(streaks[key[r]], now)
  <2>1. next \in Streak
    BY ReplyTimes
  <2>2. now + next.ttl \in Nat
    BY ReplyTimes
  <2>3. FreezesOK' /\ (streaks \in [Keys -> Streak])'
    BY <1>1, <1>13, <2>1, <2>2, FreezingType, NoFreezingType DEF ConnectFailure
  <2>4. BindingsOK' /\ LocalsOK'
    BY <1>1, <1>3, <1>13, UnbindingType, FailedType DEF ConnectFailure
  <2> QED
    BY <1>13, <2>3, <2>4, TypeGroups DEF ConnectFailure, TypeOK, LadderOK
<1> QED
  BY <1>4, <1>5, <1>6, <1>7, <1>8, <1>9, <1>10, <1>11, <1>12, <1>13 DEF Reply

\* The circuit breaker preserves the types.
LEMMA BreakerType ==
  ASSUME TypeOK, NEW r \in Requests, Breaker(r)
  PROVE  TypeOK'
<1>1. now + ExhaustedFreeze \in Nat
  BY LoopAssumption DEF TypeOK
<1>2. FreezesOK'
  BY <1>1, FreezingType, NoFreezingType DEF Breaker
<1>3. LocalsOK'
  BY NextHopType DEF Breaker
<1> QED
  BY <1>2, <1>3, TypeGroups DEF Breaker, TypeOK, BindingsOK, LadderOK

\* What does not belong to a request's loop.
Environment ==
  \/ Tick
  \/ ClearFrozen
  \/ \E P \in Providers : ClearProvider(P)
  \/ \E k \in Keys : RefreshUnsupported({k})
  \/ Restart

\* Arrival, disconnection, clock, dashboard and crash preserve the types.
LEMMA EnvironmentType ==
  ASSUME TypeOK, Environment
  PROVE  TypeOK'
<1>1. /\ Unbound \in Binding /\ NoStreak \in Streak /\ NoRung \in Rung
      /\ 0 \in 0..AttemptsPerKey - 1 /\ 1 \in 1..Len(Route)
  BY TunablesAssumption, LoopAssumption
     DEF Unbound, Binding, NoStreak, Streak, NoRung, Rung, Doubling
<1>2. CASE Tick
  BY <1>2 DEF Tick, TypeOK, memory, database, locals
<1>3. CASE ClearFrozen
  BY <1>1, <1>3 DEF ClearFrozen, TypeOK, locals
<1>4. CASE \E P \in Providers : ClearProvider(P)
  BY <1>1, <1>4 DEF ClearProvider, TypeOK, locals
<1>5. CASE \E k \in Keys : RefreshUnsupported({k})
  BY <1>1, <1>5 DEF RefreshUnsupported, TypeOK, locals
<1>6. CASE Restart
  BY <1>1, <1>6 DEF Restart, TypeOK, Thaw, DropExpired, Places, database
<1> QED
  BY <1>2, <1>3, <1>4, <1>5, <1>6 DEF Environment

-------------------------------------------------------------------------------
(* The key in use *)

\* Fresh locals hold no key.
LEMMA BeginChosen ==
  ASSUME TypeOK, Chosen, NEW r \in Requests, NEW place \in {"idle", "select"}, NEW s, NEW h,
         Begin(r, place, s, h)
  PROVE  Chosen'
BY DEF TypeOK, Chosen, Begin

\* A request that has ended holds no key.
LEMMA EndedChosen ==
  ASSUME TypeOK, Chosen, NEW r \in Requests, Ended(r)
  PROVE  Chosen'
BY BeginChosen DEF Ended

\* A request at its next alias holds no key.
LEMMA NextHopChosen ==
  ASSUME TypeOK, Chosen, NEW r \in Requests, NextHop(r)
  PROVE  Chosen'
BY BeginChosen, EndedChosen DEF NextHop

\* A failed request blames only keys it has tried, its own included.
LEMMA FailedChosen ==
  ASSUME TypeOK, Chosen, NEW r \in Requests, NEW isTransient,
         NEW blamed \in SUBSET tried[r], Failed(r, isTransient, blamed)
  PROVE  Chosen'
BY DEF TypeOK, Chosen, Failed

\* The key selected is fresh, so it is none of those blamed.
LEMMA SelectChosen ==
  ASSUME TypeOK, Chosen, NEW r \in Requests, Select(r)
  PROVE  Chosen'
<1> DEFINE choices == Choices(frozen, DropExpired(bindings, now), unsupported,
                              AliasOf(r), session[r], tried[r], now)
<1>1. CASE choices = {} /\ (IF transient[r] THEN Moves(r, "breaker") ELSE NextHop(r))
  <2>1. CASE transient[r]
    BY <1>1, <2>1 DEF TypeOK, Chosen, Moves
  <2>2. CASE ~transient[r]
    BY <1>1, <2>2, NextHopChosen
  <2> QED
    BY <2>1, <2>2
<1>2. ASSUME NEW k \in choices,
             pc' = [pc EXCEPT ![r] = "send"], key' = [key EXCEPT ![r] = k],
             attempt' = [attempt EXCEPT ![r] = 0],
             tried' = [tried EXCEPT ![r] = @ \union {k}], ambiguous' = ambiguous
      PROVE  Chosen'
  <2>1. k \notin tried[r]
    BY ChoicesUsable
  <2> QED
    BY <1>2, <2>1 DEF TypeOK, Chosen
<1> QED
  BY <1>1, <1>2 DEF Select

\* No reply blames the key that stays in use.
LEMMA ReplyChosen ==
  ASSUME TypeOK, Chosen, NEW r \in Requests, Reply(r)
  PROVE  Chosen'
<1>1. {key[r]} \in SUBSET tried[r] /\ {} \in SUBSET tried[r] /\ pc[r] = "send"
  BY DEF Chosen, TypeOK, Reply, Answered, MissingKeyValue, Succeed, EmbeddedError,
         StreamBreak, ZeroOutput, Invalid, RateLimited, ModelUnsupported, Transient,
         ConnectFailure
<1>2. CASE Succeed(r)
  BY <1>1, <1>2 DEF Succeed, Moves, TypeOK, Chosen
<1>3. CASE MissingKeyValue(r) \/ ZeroOutput(r) \/ Invalid(r) \/ RateLimited(r)
  BY <1>1, <1>3, FailedChosen DEF MissingKeyValue, ZeroOutput, Invalid, RateLimited
<1>4. CASE EmbeddedError(r) \/ StreamBreak(r) \/ ModelUnsupported(r)
  BY <1>4, EndedChosen DEF EmbeddedError, StreamBreak, ModelUnsupported
<1>5. CASE Transient(r)
  <2>1. CASE attempt[r] + 1 < AttemptsPerKey
    BY <1>1, <1>5, <2>1 DEF Transient, Moves, TypeOK, Chosen
  <2>2. CASE ~(attempt[r] + 1 < AttemptsPerKey)
    BY <1>1, <1>5, <2>2, FailedChosen DEF Transient
  <2> QED
    BY <2>1, <2>2
<1>6. CASE ConnectFailure(r)
  BY <1>1, <1>6, FailedChosen DEF ConnectFailure
<1> QED
  BY <1>2, <1>3, <1>4, <1>5, <1>6 DEF Reply

\* The next attempt of a key preserves the types, and the key stays in use.
LEMMA RetrySameSafe ==
  ASSUME TypeOK, Chosen, NEW r \in Requests, RetrySame(r)
  PROVE  TypeOK' /\ Chosen'
<1>1. attempt[r] + 1 \in 0..AttemptsPerKey - 1
  BY LoopAssumption DEF TypeOK, Chosen, RetrySame
<1>2. LocalsOK'
  BY <1>1 DEF RetrySame, TypeOK, LocalsOK, Places
<1>3. TypeOK'
  BY <1>2, TypeGroups
     DEF RetrySame, TypeOK, FreezesOK, BindingsOK, LadderOK, memory, database
<1>4. Chosen'
  BY DEF RetrySame, TypeOK, Chosen
<1> QED
  BY <1>3, <1>4

\* Nor does any step of the environment.
LEMMA EnvironmentChosen ==
  ASSUME TypeOK, Chosen, Environment
  PROVE  Chosen'
<1>1. CASE Restart
  BY <1>1 DEF Restart, Chosen
<1>2. CASE UNCHANGED locals
  BY <1>2 DEF Chosen, locals
<1> QED
  BY <1>1, <1>2 DEF Environment, Tick, ClearFrozen, ClearProvider, RefreshUnsupported

-------------------------------------------------------------------------------
(* The invariant *)

Safe == TypeOK /\ Chosen

\* The inductive invariant holds at first.
LEMMA InitSafe == Init => Safe
BY InitType DEF Init, Safe, Chosen

\* The inductive invariant is preserved by every step.
LEMMA NextSafe ==
  ASSUME Safe, [Next]_vars
  PROVE  Safe'
<1> USE DEF Safe
<1>1. ASSUME NEW r \in Requests, Select(r) \/ Settle(r) \/ Breaker(r)
      PROVE  Safe'
  BY <1>1, SelectType, SelectChosen, SettleType, EndedChosen, BreakerType, NextHopChosen
     DEF Settle, Breaker
<1>2. ASSUME NEW r \in Requests, Reply(r) \/ RetrySame(r)
      PROVE  Safe'
  BY <1>2, ReplyType, ReplyChosen, RetrySameSafe
<1>3. ASSUME NEW r \in Requests, NEW s \in Sessions \union {NoSession}, Arrive(r, s)
      PROVE  Safe'
  <2>1. 1 \in 1..Len(Route)
    BY LoopAssumption
  <2>2. LocalsOK' /\ Chosen'
    BY <1>3, <2>1, BeginType, BeginChosen DEF Arrive, Places
  <2> QED
    BY <1>3, <2>2, TypeGroups
       DEF Arrive, TypeOK, FreezesOK, BindingsOK, LadderOK, memory, database
<1>4. ASSUME NEW r \in Requests, Disconnect(r)
      PROVE  Safe'
  <2>1. LocalsOK' /\ Chosen'
    BY <1>4, EndedType, EndedChosen DEF Disconnect
  <2> QED
    BY <1>4, <2>1, TypeGroups
       DEF Disconnect, TypeOK, FreezesOK, BindingsOK, LadderOK, memory, database
<1>5. CASE Environment
  BY <1>5, EnvironmentType, EnvironmentChosen
<1>6. CASE UNCHANGED vars
  BY <1>6 DEF vars, memory, database, locals, TypeOK, Chosen
<1> QED
  BY <1>1, <1>2, <1>3, <1>4, <1>5, <1>6 DEF Next, Step, Environment

\* The state of every process has its type, whatever the interleaving.
THEOREM TypeCorrect == Spec => []TypeOK
<1>1. Spec => []Safe
  BY InitSafe, NextSafe, PTL DEF Spec
<1> QED
  BY <1>1, PTL DEF Safe

\* A key that answers well is never frozen by the request it answered: the keys a
\* request blames never include the one in use.
THEOREM ServingKeyIsSpared == Spec => ServingKeySpared
<1>1. Spec => []Safe
  BY InitSafe, NextSafe, PTL DEF Spec
<1>2. Safe => [\A r \in Requests : Succeed(r) => frozen'[key[r]] = frozen[key[r]]]_vars
  <2> SUFFICES ASSUME Safe, NEW r \in Requests, Succeed(r)
               PROVE  frozen'[key[r]] = frozen[key[r]]
    OBVIOUS
  <2>1. key[r] \in Keys \ ambiguous[r]
    BY DEF Safe, TypeOK, Chosen, Succeed, Answered
  <2> QED
    BY <2>1 DEF Safe, TypeOK, Succeed, Freezing, FreezeAll
<1> QED
  BY <1>1, <1>2, PTL DEF ServingKeySpared

-------------------------------------------------------------------------------
(* Memory and database *)

FreezesMirrored ==
  \A k \in Keys : IF IsFrozen(frozen, k, now) THEN frozenRows[k] = frozen[k]
                                             ELSE frozenRows[k] <= now

BindingsMirrored ==
  \A i \in Affinities : IF bindings[i].expires > now THEN bindingRows[i] = bindings[i]
                                                     ELSE bindingRows[i].expires <= now

\* Settle deletes the row only when memory has an entry, so no entry may hide
\* behind a count of 0.
LadderMirrored ==
  /\ ladderRows = unsupported
  /\ \A i \in Ladders : unsupported[i].attempt = 0 => unsupported[i] = NoRung

Mirrored == FreezesMirrored /\ BindingsMirrored /\ LadderMirrored

\* An entry memory takes and its row differ only where both have expired, so
\* writing the later instant keeps them together.
LEMMA FreezingMirrored ==
  ASSUME TypeOK, FreezesMirrored, NEW K, NEW until \in Nat, Freezing(K, until), now' = now
  PROVE  FreezesMirrored'
BY DEF TypeOK, FreezesMirrored, Freezing, FreezeAll, StoreFreezeAll, IsFrozen

\* A step that leaves the freezes and the clock alone keeps them mirrored.
LEMMA FreezesKept ==
  ASSUME FreezesMirrored, UNCHANGED <<now, frozen, frozenRows>>
  PROVE  FreezesMirrored'
BY DEF FreezesMirrored, IsFrozen

\* ... likewise for the bindings ...
LEMMA BindingsKept ==
  ASSUME BindingsMirrored, UNCHANGED <<now, bindings, bindingRows>>
  PROVE  BindingsMirrored'
BY DEF BindingsMirrored

\* ... and for the ladder.
LEMMA LadderKept ==
  ASSUME LadderMirrored, UNCHANGED <<unsupported, ladderRows>>
  PROVE  LadderMirrored'
BY DEF LadderMirrored

\* Unbinding clears the entry in memory and its row together.
LEMMA UnbindingMirrored ==
  ASSUME TypeOK, BindingsMirrored, NEW r \in Requests, Unbinding(r), now' = now
  PROVE  BindingsMirrored'
<1>1. CASE session[r] \in Sessions
  <2> SUFFICES ASSUME NEW i \in Affinities
               PROVE  IF bindings'[i].expires > now' THEN bindingRows'[i] = bindings'[i]
                                                     ELSE bindingRows'[i].expires <= now'
    BY DEF BindingsMirrored
  <2>1. CASE i = <<AliasOf(r), session[r]>>
    <3>1. bindings'[i] = Unbound /\ bindingRows'[i] = Unbound
      BY <1>1, <2>1 DEF TypeOK, Unbinding, Unbind
    <3> QED
      BY <3>1 DEF TypeOK, Unbound
  <2>2. CASE i # <<AliasOf(r), session[r]>>
    <3>1. bindings'[i] = bindings[i] /\ bindingRows'[i] = bindingRows[i]
      BY <1>1, <2>2 DEF TypeOK, Unbinding, Unbind
    <3> QED
      BY <3>1 DEF BindingsMirrored
  <2> QED
    BY <2>1, <2>2
<1>2. CASE session[r] \notin Sessions
  BY <1>2, BindingsKept DEF Unbinding
<1> QED
  BY <1>1, <1>2

\* Sweep and bind write the same to memory and to the tables.
LEMMA SelectMirrored ==
  ASSUME TypeOK, Mirrored, NEW r \in Requests, Select(r)
  PROVE  Mirrored'
<1> DEFINE live == DropExpired(bindings, now)
           liveRows == StoreDropExpired(bindingRows, bindings, now)
<1>1. FreezesMirrored'
  BY DEF TypeOK, Mirrored, FreezesMirrored, Select, Thaw, StoreThaw, IsFrozen
<1>2. \A i \in Affinities : IF live[i].expires > now THEN liveRows[i] = live[i]
                                                     ELSE liveRows[i].expires <= now
  BY DEF TypeOK, Mirrored, BindingsMirrored, DropExpired, StoreDropExpired, Unbound
<1>3. /\ live \in [Affinities -> Binding] /\ liveRows \in [Affinities -> Binding]
      /\ now \in Nat /\ AliasOf(r) \in Aliases
  <2>1. Unbound \in Binding
    BY DEF Unbound, Binding
  <2> QED
    BY <2>1, AliasType DEF TypeOK, DropExpired, StoreDropExpired
<1>4. BindingsMirrored'
  <2>1. CASE bindings' = live /\ bindingRows' = liveRows
    BY <1>2, <2>1 DEF BindingsMirrored, Select
  <2>2. ASSUME NEW k,
               bindings' = Bind(live, AliasOf(r), session[r], k, now),
               bindingRows' = Bind(liveRows, AliasOf(r), session[r], k, now)
        PROVE  BindingsMirrored'
    <3> SUFFICES ASSUME NEW i \in Affinities
                 PROVE  IF bindings'[i].expires > now' THEN bindingRows'[i] = bindings'[i]
                                                       ELSE bindingRows'[i].expires <= now'
      BY DEF BindingsMirrored
    <3>1. now' = now
      BY DEF Select
    <3>2. CASE i = <<AliasOf(r), session[r]>>
      <4> DEFINE new == [key |-> k, expires |-> now + SessionTTL]
      <4>1. bindings'[i] = new /\ bindingRows'[i] = new
        BY <1>3, <2>2, <3>2 DEF Bind
      <4>2. new.expires \in Nat
        BY <1>3, TunablesAssumption
      <4> QED
        BY <1>3, <3>1, <4>1, <4>2
    <3>3. CASE i # <<AliasOf(r), session[r]>>
      <4>1. bindings'[i] = live[i] /\ bindingRows'[i] = liveRows[i]
        BY <1>3, <2>2, <3>3 DEF Bind
      <4> QED
        BY <1>2, <3>1, <4>1
    <3> QED
      BY <3>2, <3>3
  <2> QED
    BY <2>1, <2>2 DEF Select
<1>5. LadderMirrored'
  BY LadderKept DEF Mirrored, Select
<1> QED
  BY <1>1, <1>4, <1>5 DEF Mirrored

\* The row of a rung is deleted whenever memory drops the rung.
LEMMA SettleMirrored ==
  ASSUME Safe, Mirrored, NEW r \in Requests, Settle(r)
  PROVE  Mirrored'
<1> DEFINE rung == <<ModelOf[AliasOf(r)], key[r]>>
<1>1. rung \in Ladders
  BY AliasType DEF Safe, TypeOK, Chosen, Settle, Ladders
<1>2. LadderMirrored'
  <2>1. ladderRows' = unsupported'
    <3>1. CASE unsupported[rung].attempt > 0
      BY <3>1 DEF Mirrored, LadderMirrored, Settle
    <3>2. CASE ~(unsupported[rung].attempt > 0)
      <4>1. unsupported[rung].attempt \in Nat
        BY <1>1, TunablesAssumption DEF Safe, TypeOK, Rung
      <4>2. unsupported[rung] = NoRung
        BY <1>1, <3>2, <4>1 DEF Mirrored, LadderMirrored
      <4>3. unsupported' = unsupported
        BY <1>1, <4>2 DEF Safe, TypeOK, Settle
      <4> QED
        BY <3>2, <4>3 DEF Mirrored, LadderMirrored, Settle
    <3> QED
      BY <3>1, <3>2
  <2>2. \A i \in Ladders : unsupported'[i] = NoRung \/ unsupported'[i] = unsupported[i]
    BY DEF Safe, TypeOK, Settle
  <2> QED
    BY <2>1, <2>2 DEF Mirrored, LadderMirrored
<1> QED
  BY <1>2, FreezesKept, BindingsKept DEF Mirrored, Settle

\* Every failure handler writes through what it does to memory.
LEMMA ReplyMirrored ==
  ASSUME Safe, Mirrored, NEW r \in Requests, Reply(r)
  PROVE  Mirrored'
<1> USE DEF Safe, Mirrored
<1>1. now \in Nat /\ key[r] \in Keys
  BY ReplyTimes DEF TypeOK
<1>2. /\ now + InvalidFreeze \in Nat /\ now + DifferentialFreeze \in Nat
      /\ \A wait \in Waits : now + wait \in Nat
      /\ now + NextStreak(streaks[key[r]], now).ttl \in Nat
  BY ReplyTimes
<1>3. FreezesMirrored'
  <2>1. now' = now
    BY DEF Reply, MissingKeyValue, Succeed, EmbeddedError, StreamBreak, ZeroOutput, Invalid,
           RateLimited, ModelUnsupported, Transient, ConnectFailure
  <2>2. ASSUME NEW K, NEW until \in Nat, Freezing(K, until)
        PROVE  FreezesMirrored'
    BY <2>1, <2>2, FreezingMirrored
  <2>3. ASSUME UNCHANGED <<frozen, frozenRows>>
        PROVE  FreezesMirrored'
    BY <2>1, <2>3, FreezesKept
  <2>4. CASE \/ MissingKeyValue(r) \/ StreamBreak(r) \/ ModelUnsupported(r) \/ Transient(r)
    BY <2>3, <2>4
       DEF MissingKeyValue, StreamBreak, ModelUnsupported, Transient, memory, database
  <2>5. CASE Succeed(r) \/ ZeroOutput(r) \/ Invalid(r)
    BY <1>2, <2>2, <2>5 DEF Succeed, ZeroOutput, Invalid
  <2>6. CASE EmbeddedError(r) \/ RateLimited(r)
    BY <1>2, <2>2, <2>3, <2>6 DEF EmbeddedError, RateLimited, NoFreezing
  <2>7. CASE ConnectFailure(r)
    BY <1>2, <2>2, <2>3, <2>7 DEF ConnectFailure, NoFreezing
  <2> QED
    BY <2>4, <2>5, <2>6, <2>7 DEF Reply
<1>4. BindingsMirrored'
  BY UnbindingMirrored, BindingsKept
     DEF Reply, MissingKeyValue, Succeed, EmbeddedError, StreamBreak, ZeroOutput, Invalid,
         RateLimited, ModelUnsupported, Transient, ConnectFailure, memory, database
<1>5. LadderMirrored'
  <2> DEFINE rung == <<ModelOf[AliasOf(r)], key[r]>>
  <2>1. CASE /\ unsupported' = [unsupported EXCEPT ![rung] = NextRung(@, now)]
             /\ ladderRows' = [ladderRows EXCEPT ![rung] = NextRung(unsupported[rung], now)]
    <3>1. rung \in Ladders
      BY <1>1, AliasType DEF Ladders
    <3>2. NextRung(unsupported[rung], now).attempt > 0
      BY <1>1, <3>1, RungType DEF TypeOK
    <3> QED
      BY <2>1, <3>1, <3>2 DEF LadderMirrored, TypeOK
  <2>2. CASE UNCHANGED <<unsupported, ladderRows>>
    BY <2>2, LadderKept
  <2> QED
    BY <2>1, <2>2
       DEF Reply, MissingKeyValue, Succeed, EmbeddedError, StreamBreak, ZeroOutput, Invalid,
           RateLimited, ModelUnsupported, Transient, ConnectFailure, memory, database
<1> QED
  BY <1>3, <1>4, <1>5

\* The clock only expires both sides; the dashboard clears both; a crash copies the tables.
LEMMA EnvironmentMirrored ==
  ASSUME TypeOK, Mirrored, Environment
  PROVE  Mirrored'
<1> USE DEF Mirrored
<1>1. CASE Tick
  <2>1. FreezesMirrored'
    BY <1>1 DEF Tick, TypeOK, FreezesMirrored, IsFrozen, memory, database
  <2>2. BindingsMirrored'
    BY <1>1 DEF Tick, TypeOK, BindingsMirrored, Binding, memory, database
  <2> QED
    BY <1>1, <2>1, <2>2, LadderKept DEF Tick, memory, database
<1>2. CASE ClearFrozen
  <2>1. FreezesMirrored'
    BY <1>2 DEF ClearFrozen, TypeOK, FreezesMirrored, IsFrozen
  <2> QED
    BY <1>2, <2>1, BindingsKept, LadderKept DEF ClearFrozen
<1>3. ASSUME NEW P \in Providers, ClearProvider(P)
      PROVE  Mirrored'
  <2>1. FreezesMirrored'
    BY <1>3 DEF ClearProvider, TypeOK, FreezesMirrored, IsFrozen
  <2> QED
    BY <1>3, <2>1, BindingsKept, LadderKept DEF ClearProvider
<1>4. ASSUME NEW k \in Keys, RefreshUnsupported({k})
      PROVE  Mirrored'
  <2>1. LadderMirrored'
    BY <1>4 DEF RefreshUnsupported, TypeOK, LadderMirrored
  <2> QED
    BY <1>4, <2>1, FreezesKept, BindingsKept DEF RefreshUnsupported
<1>5. CASE Restart
  <2>1. FreezesMirrored'
    BY <1>5 DEF Restart, TypeOK, FreezesMirrored, IsFrozen, Thaw, database
  <2>2. BindingsMirrored'
    BY <1>5 DEF Restart, TypeOK, BindingsMirrored, DropExpired, Unbound, Binding, database
  <2>3. LadderMirrored'
    BY <1>5 DEF Restart, LadderMirrored, database
  <2> QED
    BY <2>1, <2>2, <2>3
<1> QED
  BY <1>1, <1>2, <1>3, <1>4, <1>5 DEF Environment

\* The circuit breaker freezes memory and table alike.
LEMMA BreakerMirrored ==
  ASSUME TypeOK, Mirrored, NEW r \in Requests, Breaker(r)
  PROVE  Mirrored'
<1>1. now + ExhaustedFreeze \in Nat
  BY LoopAssumption DEF TypeOK
<1>2. FreezesMirrored'
  BY <1>1, FreezingMirrored, FreezesKept DEF Mirrored, Breaker, NoFreezing
<1> QED
  BY <1>2, BindingsKept, LadderKept DEF Mirrored, Breaker

\* Memory and tables start empty.
LEMMA InitMirrored == Init => Mirrored
BY DEF Init, Mirrored, FreezesMirrored, BindingsMirrored, LadderMirrored, IsFrozen,
       Unbound, NoRung

\* Every step keeps memory and database in step.
LEMMA NextMirrored ==
  ASSUME Safe, Mirrored, [Next]_vars
  PROVE  Mirrored'
<1>1. ASSUME NEW r \in Requests, Select(r) \/ Reply(r) \/ Settle(r) \/ Breaker(r)
      PROVE  Mirrored'
  BY <1>1, SelectMirrored, ReplyMirrored, SettleMirrored, BreakerMirrored DEF Safe
<1>2. CASE Environment
  BY <1>2, EnvironmentMirrored DEF Safe
<1>3. CASE UNCHANGED <<now, memory, database>>
  BY <1>3, FreezesKept, BindingsKept, LadderKept DEF Mirrored, memory, database
<1>4. ASSUME NEW r \in Requests,
             \/ \E s \in Sessions \union {NoSession} : Arrive(r, s)
             \/ RetrySame(r)
             \/ Disconnect(r)
      PROVE  Mirrored'
  BY <1>3, <1>4 DEF Arrive, RetrySame, Disconnect
<1>5. CASE UNCHANGED vars
  BY <1>3, <1>5 DEF vars
<1> QED
  BY <1>1, <1>2, <1>4, <1>5 DEF Next, Step, Environment

\* A restart finds in state.sqlite3 exactly the live freezes, live bindings and
\* ladder that the process had in memory, at every moment it may die.
THEOREM DatabaseMirrors == Spec => []DatabaseMirrorsMemory
<1>1. Spec => [](Safe /\ Mirrored)
  BY InitSafe, NextSafe, InitMirrored, NextMirrored, PTL DEF Spec
<1>2. Mirrored => DatabaseMirrorsMemory
  BY DEF Mirrored, FreezesMirrored, BindingsMirrored, LadderMirrored, DatabaseMirrorsMemory
<1> QED
  BY <1>1, <1>2, PTL

-------------------------------------------------------------------------------
(* Freezes hold *)

\* freeze() never moves an entry to an earlier instant.
LEMMA FreezingExtends ==
  ASSUME TypeOK, NEW K, NEW until \in Nat, Freezing(K, until), NEW k \in Keys
  PROVE  frozen'[k] >= frozen[k]
BY DEF TypeOK, Freezing, FreezeAll

\* No reply of the upstream shortens a freeze.
LEMMA ReplyExtends ==
  ASSUME Safe, NEW r \in Requests, Reply(r), NEW k \in Keys
  PROVE  frozen'[k] >= frozen[k]
<1> USE DEF Safe
<1>1. frozen[k] \in Nat
  BY DEF TypeOK
<1>2. /\ now + InvalidFreeze \in Nat /\ now + DifferentialFreeze \in Nat
      /\ \A wait \in Waits : now + wait \in Nat
      /\ now + NextStreak(streaks[key[r]], now).ttl \in Nat
  BY ReplyTimes
<1>3. ASSUME frozen' = frozen
      PROVE  frozen'[k] >= frozen[k]
  BY <1>1, <1>3
<1>4. CASE MissingKeyValue(r) \/ StreamBreak(r) \/ ModelUnsupported(r) \/ Transient(r)
  BY <1>3, <1>4 DEF MissingKeyValue, StreamBreak, ModelUnsupported, Transient, memory
<1>5. CASE Succeed(r) \/ ZeroOutput(r) \/ Invalid(r)
  BY <1>2, <1>5, FreezingExtends DEF Succeed, ZeroOutput, Invalid
<1>6. CASE EmbeddedError(r) \/ RateLimited(r)
  BY <1>2, <1>3, <1>6, FreezingExtends DEF EmbeddedError, RateLimited, NoFreezing
<1>7. CASE ConnectFailure(r)
  BY <1>2, <1>3, <1>7, FreezingExtends DEF ConnectFailure, NoFreezing
<1> QED
  BY <1>4, <1>5, <1>6, <1>7 DEF Reply

\* No failure, success, breaker, sweep or crash shortens a freeze: only the two
\* clearing calls of the dashboard do.
THEOREM FreezesHold == Spec => FreezeHolds
<1>1. Spec => [](Safe /\ Mirrored)
  BY InitSafe, NextSafe, InitMirrored, NextMirrored, PTL DEF Spec
<1> DEFINE Holds == \A k \in Keys : frozen[k] > now' =>
                      \/ frozen'[k] >= frozen[k]
                      \/ ClearFrozen
                      \/ \E P \in Providers : k \in P /\ ClearProvider(P)
<1>2. Safe /\ Mirrored /\ [Next]_vars => [Holds]_vars
  <2> SUFFICES ASSUME Safe, Mirrored, Next, NEW k \in Keys, frozen[k] > now'
               PROVE  \/ frozen'[k] >= frozen[k]
                      \/ ClearFrozen
                      \/ \E P \in Providers : k \in P /\ ClearProvider(P)
    OBVIOUS
  <2>1. frozen \in [Keys -> Nat] /\ now \in Nat
    BY DEF Safe, TypeOK
  <2>2. CASE frozen' = frozen
    BY <2>1, <2>2
  <2>3. ASSUME NEW r \in Requests, Select(r)
        PROVE  frozen'[k] >= frozen[k]
    BY <2>1, <2>3 DEF Select, Thaw
  <2>4. ASSUME NEW r \in Requests, Reply(r)
        PROVE  frozen'[k] >= frozen[k]
    BY <2>4, ReplyExtends
  <2>5. ASSUME NEW r \in Requests, Breaker(r)
        PROVE  frozen'[k] >= frozen[k]
    <3>1. now + ExhaustedFreeze \in Nat
      BY <2>1, LoopAssumption
    <3> QED
      BY <2>1, <2>5, <3>1, FreezingExtends DEF Breaker, NoFreezing, Safe
  <2>6. ASSUME NEW P \in Providers, ClearProvider(P)
        PROVE  frozen'[k] >= frozen[k] \/ k \in P
    BY <2>1, <2>6 DEF ClearProvider
  <2>7. CASE Restart
    BY <2>1, <2>7 DEF Restart, Thaw, Mirrored, FreezesMirrored, IsFrozen, Safe, TypeOK
  <2> QED
    BY <2>2, <2>3, <2>4, <2>5, <2>6, <2>7
       DEF Next, Step, Arrive, RetrySame, Settle, Disconnect, Tick, RefreshUnsupported, memory
<1>3. (Safe /\ Mirrored) /\ [Next]_vars => [Holds]_vars
  BY <1>2
<1> QED
  BY <1>1, <1>3, PTL DEF Spec, FreezeHolds

-------------------------------------------------------------------------------
(* Affinity *)

\* A session is only ever bound to a key of the pool of its alias, in memory and in
\* the table, so a key that lost its session never lost it for not being in the pool.
InPool ==
  \A i \in Affinities : {bindings[i].key, bindingRows[i].key} \subseteq Pool[i[1]] \union {NoKey}

\* A step that leaves the bindings alone leaves them in their pools.
LEMMA InPoolKept ==
  ASSUME InPool, UNCHANGED <<bindings, bindingRows>>
  PROVE  InPool'
BY DEF InPool

\* What a swept table holds, it held before.
LEMMA SweptBindings ==
  ASSUME TypeOK, NEW i \in Affinities
  PROVE  /\ DropExpired(bindings, now)[i].key \in {bindings[i].key, NoKey}
         /\ bindings[i].expires > now => DropExpired(bindings, now)[i] = bindings[i]
         /\ StoreDropExpired(bindingRows, bindings, now)[i].key \in {bindingRows[i].key, NoKey}
BY DEF TypeOK, Binding, DropExpired, StoreDropExpired, Unbound

\* An entry of the table after a selection: the one the session is bound to, if that
\* is the entry, else what the sweep left.
LEMMA SelectBindings ==
  ASSUME TypeOK, NEW r \in Requests, Select(r), NEW i \in Affinities
  PROVE  \/ /\ bindings'[i] = DropExpired(bindings, now)[i]
            /\ bindingRows'[i] = StoreDropExpired(bindingRows, bindings, now)[i]
         \/ /\ i = <<AliasOf(r), session[r]>>
            /\ \E k \in Choices(frozen, DropExpired(bindings, now), unsupported, AliasOf(r),
                                session[r], tried[r], now) :
                 bindings'[i].key = k /\ bindingRows'[i].key = k
<1> DEFINE live == DropExpired(bindings, now)
           liveRows == StoreDropExpired(bindingRows, bindings, now)
           choices == Choices(frozen, live, unsupported, AliasOf(r), session[r], tried[r], now)
<1>1. live \in [Affinities -> Binding] /\ liveRows \in [Affinities -> Binding]
  <2>1. Unbound \in Binding
    BY DEF Unbound, Binding
  <2> QED
    BY <2>1 DEF TypeOK, DropExpired, StoreDropExpired
<1>2. CASE bindings' = live /\ bindingRows' = liveRows
  BY <1>2
<1>3. ASSUME NEW k \in choices,
             bindings' = Bind(live, AliasOf(r), session[r], k, now),
             bindingRows' = Bind(liveRows, AliasOf(r), session[r], k, now)
      PROVE  \/ bindings'[i] = live[i] /\ bindingRows'[i] = liveRows[i]
             \/ /\ i = <<AliasOf(r), session[r]>>
                /\ bindings'[i].key = k /\ bindingRows'[i].key = k
  BY <1>1, <1>3 DEF Bind
<1>4. \/ bindings' = live /\ bindingRows' = liveRows
      \/ \E k \in choices : /\ bindings' = Bind(live, AliasOf(r), session[r], k, now)
                            /\ bindingRows' = Bind(liveRows, AliasOf(r), session[r], k, now)
  BY DEF Select
<1> HIDE DEF live, liveRows, choices
<1>5. \/ bindings'[i] = live[i] /\ bindingRows'[i] = liveRows[i]
      \/ /\ i = <<AliasOf(r), session[r]>>
         /\ \E k \in choices : bindings'[i].key = k /\ bindingRows'[i].key = k
  BY <1>2, <1>3, <1>4
<1> QED
  BY <1>5 DEF live, liveRows, choices

\* A failure handler leaves a binding alone or drops it.
LEMMA ReplyBindings ==
  ASSUME TypeOK, NEW r \in Requests, Reply(r), NEW i \in Affinities
  PROVE  /\ bindings'[i].key \in {bindings[i].key, NoKey}
         /\ bindingRows'[i].key \in {bindingRows[i].key, NoKey}
<1>1. CASE Unbinding(r)
  <2>1. CASE session[r] \in Sessions
    <3>1. \/ bindings'[i] = bindings[i] /\ bindingRows'[i] = bindingRows[i]
          \/ bindings'[i] = Unbound /\ bindingRows'[i] = Unbound
      BY <1>1, <2>1 DEF TypeOK, Unbinding, Unbind
    <3> QED
      BY <3>1 DEF Unbound
  <2>2. CASE session[r] \notin Sessions
    BY <1>1, <2>2 DEF Unbinding
  <2> QED
    BY <2>1, <2>2
<1>2. CASE UNCHANGED <<bindings, bindingRows>>
  BY <1>2
<1>3. Unbinding(r) \/ UNCHANGED <<bindings, bindingRows>>
  BY DEF Reply, MissingKeyValue, Succeed, EmbeddedError, StreamBreak, ZeroOutput, Invalid,
         RateLimited, ModelUnsupported, Transient, ConnectFailure, memory, database
<1> QED
  BY <1>1, <1>2, <1>3

\* Selection, failure handlers and a restart only bind within the pool.
LEMMA NextInPool ==
  ASSUME Safe, InPool, [Next]_vars
  PROVE  InPool'
<1> USE DEF Safe
<1>1. ASSUME NEW r \in Requests, Select(r), NEW i \in Affinities
      PROVE  {bindings'[i].key, bindingRows'[i].key} \subseteq Pool[i[1]] \union {NoKey}
  <2>1. \A k \in Choices(frozen, DropExpired(bindings, now), unsupported, AliasOf(r),
                         session[r], tried[r], now) : k \in Pool[AliasOf(r)]
    BY ChoicesUsable
  <2> QED
    BY <1>1, <2>1, SelectBindings, SweptBindings DEF InPool
<1>2. ASSUME NEW r \in Requests, Reply(r), NEW i \in Affinities
      PROVE  {bindings'[i].key, bindingRows'[i].key} \subseteq Pool[i[1]] \union {NoKey}
  BY <1>2, ReplyBindings DEF InPool
<1>3. CASE Restart
  BY <1>3 DEF Restart, InPool, DropExpired, Unbound, database
<1>4. CASE UNCHANGED <<bindings, bindingRows>>
  BY <1>4, InPoolKept
<1> QED
  BY <1>1, <1>2, <1>3, <1>4
     DEF Next, Step, Arrive, RetrySame, Settle, Breaker, Disconnect, Tick, ClearFrozen,
         ClearProvider, RefreshUnsupported, vars, memory, database, InPool

\* A binding, while it lives, moves to another key only in a selection of its own
\* session and alias, and then the key it leaves was not fit to be chosen.
THEOREM AffinityIsKept == Spec => AffinityKept
<1> DEFINE Cause(i, bound) ==
             \/ bindings[i].expires <= now
             \/ IsFrozen(frozen, bound, now) \/ Blocked(unsupported, i[1], bound, now)
             \/ Weight[bound] = 0 \/ bound \in QuotaKeys
             \/ \E r \in Requests : /\ pc[r] = "select" /\ bound \in tried[r]
                                   /\ AliasOf(r) = i[1] /\ session[r] = i[2]
           Kept == \A i \in Affinities :
                     LET bound == bindings[i].key
                     IN  bound # NoKey /\ bindings'[i].key \notin {bound, NoKey} =>
                           \/ bindings[i].expires <= now
                           \/ IsFrozen(frozen, bound, now) \/ Blocked(unsupported, i[1], bound, now)
                           \/ Weight[bound] = 0 \/ bound \in QuotaKeys
                           \/ \E r \in Requests : /\ pc[r] = "select" /\ bound \in tried[r]
                                                 /\ AliasOf(r) = i[1] /\ session[r] = i[2]
<1>1. Init => InPool
  BY DEF Init, InPool, Unbound
<1>2. Safe /\ InPool /\ [Next]_vars => InPool'
  BY NextInPool
<1>3. Spec => [](Safe /\ Mirrored /\ InPool)
  BY <1>1, <1>2, InitSafe, NextSafe, InitMirrored, NextMirrored, PTL DEF Spec
<1>4. (Safe /\ Mirrored /\ InPool) /\ [Next]_vars => [Kept]_vars
  <2> SUFFICES ASSUME Safe, Mirrored, InPool, Next, NEW i \in Affinities,
                      bindings[i].key # NoKey,
                      bindings'[i].key \notin {bindings[i].key, NoKey}
               PROVE  Cause(i, bindings[i].key)
    OBVIOUS
  <2> DEFINE bound == bindings[i].key
  <2>1. ASSUME NEW r \in Requests, Select(r), bindings[i].expires > now
        PROVE  Cause(i, bound)
    <3> DEFINE live == DropExpired(bindings, now)
    <3>1. PICK k \in Choices(frozen, live, unsupported, AliasOf(r), session[r], tried[r], now) :
            bindings'[i].key = k
      BY <2>1, SelectBindings, SweptBindings DEF Safe
    <3>2. i = <<AliasOf(r), session[r]>>
      BY <2>1, SelectBindings, SweptBindings DEF Safe
    <3>3. live[i] = bindings[i] /\ session[r] \in Sessions
      BY <2>1, <3>2, SweptBindings DEF Safe, Affinities
    <3>4. bound \notin Supported(frozen, unsupported, AliasOf(r), tried[r], now) \ QuotaKeys
      BY <3>1, <3>2, <3>3 DEF Choices
    <3>5. bound \in Pool[AliasOf(r)]
      BY <3>2 DEF InPool
    <3>6. Weight[bound] \in Nat
      BY <3>5, AliasType, KeysAssumption DEF Safe
    <3>7. pc[r] = "select" /\ AliasOf(r) = i[1] /\ session[r] = i[2]
      BY <2>1, <3>2 DEF Select
    <3> QED
      BY <3>4, <3>5, <3>6, <3>7 DEF Supported, Usable
  <2>2. ASSUME NEW r \in Requests, Reply(r)
        PROVE  FALSE
    BY <2>2, ReplyBindings DEF Safe
  <2>3. CASE Restart /\ bindings[i].expires > now
    BY <2>3 DEF Restart, DropExpired, Unbound, Mirrored, BindingsMirrored
  <2>4. bindings' # bindings
    OBVIOUS
  <2>5. bindings[i].expires > now \/ bindings[i].expires <= now
    BY DEF Safe, TypeOK, Binding
  <2> QED
    BY <2>1, <2>2, <2>3, <2>4, <2>5
       DEF Next, Step, Arrive, RetrySame, Settle, Breaker, Disconnect, Tick, ClearFrozen,
           ClearProvider, RefreshUnsupported, memory
<1> QED
  BY <1>3, <1>4, PTL DEF Spec, AffinityKept

\* A request leaves an alias unanswered only when every weighted key of the pool was
\* tried or is frozen: the ladder of unsupported models is no reason to give up.
THEOREM GivesUpOnlyForCause == Spec => GivesUpForCause
<1> DEFINE ForCause == \A r \in Requests :
                         Select(r) /\ pc'[r] # "send" =>
                           \A k \in Pool[AliasOf(r)] :
                             Weight[k] > 0 => k \in tried[r] \/ IsFrozen(frozen, k, now)
<1>1. Spec => []Safe
  BY InitSafe, NextSafe, PTL DEF Spec
<1>2. Safe /\ [Next]_vars => [ForCause]_vars
  <2> SUFFICES ASSUME Safe, NEW r \in Requests, Select(r), pc'[r] # "send",
                      NEW k \in Pool[AliasOf(r)], Weight[k] > 0
               PROVE  k \in tried[r] \/ IsFrozen(frozen, k, now)
    OBVIOUS
  <2>1. Choices(frozen, DropExpired(bindings, now), unsupported, AliasOf(r), session[r],
                tried[r], now) = {}
    BY DEF Select, Safe, TypeOK
  <2>2. Usable(frozen, AliasOf(r), tried[r], now) = {}
    BY <2>1 DEF Choices, Supported
  <2> QED
    BY <2>2 DEF Usable
<1> QED
  BY <1>1, <1>2, PTL DEF Spec, GivesUpForCause
===============================================================================
