------------------------------ MODULE RequestLoop -----------------------------
(***************************************************************************)
(* One backend process: any number of requests, each running the           *)
(* select / send / classify loop of routes/responses.rs, routes/messages.rs *)
(* and features/responses/stream/mod.rs against the shared RouterState.    *)
(*                                                                         *)
(* An action is one section under the state lock, joined with the awaits   *)
(* before it that touch no shared state: the reply of the upstream is      *)
(* taken together with the failure handler it leads to.  Between a request *)
(* selecting a key and its reply, the other requests, the clock, the       *)
(* dashboard and a crash may all step.                                     *)
(***************************************************************************)
EXTENDS RouterState

CONSTANTS
  Requests,            \* handler tasks
  NoSession,           \* a request whose session id could not be resolved
  Route,               \* route_aliases(model): the aliases tried in order
  Providers,           \* the keys of each provider
  Replies,             \* what the upstream may answer
  AttemptsPerKey,      \* tunable transient_attempts_per_key
  InvalidFreeze,       \* tunable invalid_freeze_seconds
  DifferentialFreeze,  \* tunable differential_freeze_seconds
  ExhaustedFreeze,     \* tunable transient_exhausted_freeze_seconds
  Waits,               \* seconds until the reset a rate-limit reply announces
  MaxTime              \* bound of the clock, for model checking

ASSUME LoopAssumption ==
  /\ NoSession \notin Sessions
  /\ Route \in Seq(Aliases) /\ Route # <<>>
  /\ Providers \subseteq SUBSET Keys
  /\ Replies \subseteq {"ok", "embedded", "broken", "zero", "missing", "invalid",
                        "limited", "unsupported", "transient", "connect"}
  /\ AttemptsPerKey \in Nat \ {0}
  /\ {InvalidFreeze, DifferentialFreeze, ExhaustedFreeze} \subseteq Nat
  /\ Waits \subseteq Nat
  /\ MaxTime \in Nat

VARIABLES
  now,           \* the wall clock
  frozen,        \* RouterState.frozen
  bindings,      \* RouterState.bindings
  streaks,       \* RouterState.connect_streaks
  unsupported,   \* RouterState.unsupported
  frozenRows,    \* table frozen_keys
  bindingRows,   \* table session_bindings
  ladderRows,    \* table key_model_unsupported
  (* and, for each handler task, where it is and its local variables *)
  pc,
  session,
  hop,           \* position in Route
  key,           \* the key in use
  attempt,       \* same_key_attempt
  tried,
  ambiguous,
  transient      \* last_failure_transient

memory == <<frozen, bindings, streaks, unsupported>>
database == <<frozenRows, bindingRows, ladderRows>>
locals == <<pc, session, hop, key, attempt, tried, ambiguous, transient>>
vars == <<now, memory, database, locals>>

\* "select" the next key; "send" the key's reply is awaited; "retry" the delay before
\* the same key is tried again; "settle" the reply was good and its bookkeeping is
\* left; "breaker" the pool is exhausted after a transient failure.
Places == {"idle", "select", "send", "retry", "settle", "breaker"}
AliasOf(r) == Route[hop[r]]

TypeOK ==
  /\ now \in Nat
  /\ frozen \in [Keys -> Nat] /\ frozenRows \in [Keys -> Nat]
  /\ bindings \in [Affinities -> Binding] /\ bindingRows \in [Affinities -> Binding]
  /\ streaks \in [Keys -> Streak]
  /\ unsupported \in [Ladders -> Rung] /\ ladderRows \in [Ladders -> Rung]
  /\ pc \in [Requests -> Places]
  /\ session \in [Requests -> Sessions \union {NoSession}]
  /\ hop \in [Requests -> 1..Len(Route)]
  /\ key \in [Requests -> Keys \union {NoKey}]
  /\ attempt \in [Requests -> 0..AttemptsPerKey - 1]
  /\ tried \in [Requests -> SUBSET Keys] /\ ambiguous \in [Requests -> SUBSET Keys]
  /\ transient \in [Requests -> BOOLEAN]

Init ==
  /\ now = 1
  /\ frozen = [k \in Keys |-> 0] /\ frozenRows = frozen
  /\ bindings = [i \in Affinities |-> Unbound] /\ bindingRows = bindings
  /\ streaks = [k \in Keys |-> NoStreak]
  /\ unsupported = [i \in Ladders |-> NoRung] /\ ladderRows = unsupported
  /\ pc = [r \in Requests |-> "idle"]
  /\ session = [r \in Requests |-> NoSession]
  /\ hop = [r \in Requests |-> 1]
  /\ key = [r \in Requests |-> NoKey]
  /\ attempt = [r \in Requests |-> 0]
  /\ tried = [r \in Requests |-> {}] /\ ambiguous = tried
  /\ transient = [r \in Requests |-> FALSE]

-------------------------------------------------------------------------------
(* What a lock section writes *)

\* Mutant of Freezing: the freeze is not written through.
FreezingMemory(K, until) ==
  frozen' = FreezeAll(frozen, K, until) /\ UNCHANGED frozenRows

\* freeze(), memory and database.
Freezing(K, until) ==
  /\ frozen' = FreezeAll(frozen, K, until)
  /\ frozenRows' = StoreFreezeAll(frozenRows, frozen, K, until)

NoFreezing == UNCHANGED <<frozen, frozenRows>>

\* unbind() of the request's session, memory and database.
Unbinding(r) ==
  IF session[r] \in Sessions
  THEN /\ bindings' = Unbind(bindings, AliasOf(r), session[r])
       /\ bindingRows' = Unbind(bindingRows, AliasOf(r), session[r])
  ELSE UNCHANGED <<bindings, bindingRows>>

\* The request goes back to selection after a failure.
Failed(r, isTransient, blamed) ==
  /\ pc' = [pc EXCEPT ![r] = "select"]
  /\ key' = [key EXCEPT ![r] = NoKey]
  /\ attempt' = [attempt EXCEPT ![r] = 0]
  /\ ambiguous' = [ambiguous EXCEPT ![r] = @ \union blamed]
  /\ transient' = [transient EXCEPT ![r] = isTransient]
  /\ UNCHANGED <<session, hop, tried>>

\* Fresh local variables, for the h-th alias of the route.
Begin(r, place, s, h) ==
  /\ pc' = [pc EXCEPT ![r] = place]
  /\ session' = [session EXCEPT ![r] = s]
  /\ hop' = [hop EXCEPT ![r] = h]
  /\ key' = [key EXCEPT ![r] = NoKey]
  /\ attempt' = [attempt EXCEPT ![r] = 0]
  /\ tried' = [tried EXCEPT ![r] = {}]
  /\ ambiguous' = [ambiguous EXCEPT ![r] = {}]
  /\ transient' = [transient EXCEPT ![r] = FALSE]

Ended(r) == Begin(r, "idle", NoSession, 1)

\* NoAvailable for this alias: the next one starts with fresh locals, or the
\* client is told that every key is frozen.
NextHop(r) ==
  IF hop[r] < Len(Route) THEN Begin(r, "select", session[r], hop[r] + 1)
                         ELSE Ended(r)

\* The request is elsewhere, and nothing else of it changes.
Moves(r, place) ==
  /\ pc' = [pc EXCEPT ![r] = place]
  /\ UNCHANGED <<session, hop, key, attempt, tried, ambiguous, transient>>

-------------------------------------------------------------------------------
(* The loop *)

Arrive(r, s) ==
  /\ pc[r] = "idle"
  /\ Begin(r, "select", s, 1)
  /\ UNCHANGED <<now, memory, database>>

\* select_key_excluding: sweep what has expired, choose a key, bind the session
\* to it.  Without a key the pool is exhausted; a transient last failure then
\* trips the circuit breaker in a lock section of its own.
Select(r) ==
  LET alias == AliasOf(r)
      s == session[r]
      live == DropExpired(bindings, now)
      liveRows == StoreDropExpired(bindingRows, bindings, now)
      choices == Choices(frozen, live, unsupported, alias, s, tried[r], now)
  IN  /\ pc[r] = "select"
      /\ frozen' = Thaw(frozen, now)
      /\ frozenRows' = StoreThaw(frozenRows, frozen, now)
      /\ \/ /\ choices = {}
            /\ bindings' = live
            /\ bindingRows' = liveRows
            /\ IF transient[r]
               THEN Moves(r, "breaker")
               ELSE NextHop(r)
         \/ \E k \in choices :
            /\ IF s \in Sessions
               THEN /\ bindings' = Bind(live, alias, s, k, now)
                    /\ bindingRows' = Bind(liveRows, alias, s, k, now)
               ELSE bindings' = live /\ bindingRows' = liveRows
            /\ pc' = [pc EXCEPT ![r] = "send"]
            /\ key' = [key EXCEPT ![r] = k]
            /\ attempt' = [attempt EXCEPT ![r] = 0]
            /\ tried' = [tried EXCEPT ![r] = @ \union {k}]
            /\ UNCHANGED <<session, hop, ambiguous, transient>>
      /\ UNCHANGED <<now, streaks, unsupported, ladderRows>>

\* The upstream answered "reply" to the request's key.
Answered(r, reply) == reply \in Replies /\ pc[r] = "send"

\* upstream_key_value is None: no request is sent, the breaker is disarmed.
MissingKeyValue(r) ==
  /\ Answered(r, "missing")
  /\ Failed(r, FALSE, {})
  /\ UNCHANGED <<now, memory, database>>

\* note_success_differential: the keys that failed before this one are at fault.
Succeed(r) ==
  /\ Answered(r, "ok")
  /\ Freezing(ambiguous[r], now + DifferentialFreeze)
  /\ Moves(r, "settle")
  /\ UNCHANGED <<now, bindings, bindingRows, streaks, unsupported, ladderRows>>

\* clear_unsupported_if_ok, in the next lock section.
Settle(r) ==
  LET rung == <<ModelOf[AliasOf(r)], key[r]>>
  IN  /\ pc[r] = "settle"
      /\ unsupported' = [unsupported EXCEPT ![rung] = NoRung]
      /\ ladderRows' = IF unsupported[rung].attempt > 0
                       THEN [ladderRows EXCEPT ![rung] = NoRung]
                       ELSE ladderRows
      /\ streaks' = [streaks EXCEPT ![key[r]] = NoStreak]
      /\ Ended(r)
      /\ UNCHANGED <<now, frozen, bindings, frozenRows, bindingRows>>

\* A 200 whose body or stream carries an error (apply_embedded_failure): the
\* reply is already committed, so the request ends.
EmbeddedError(r) ==
  /\ Answered(r, "embedded")
  /\ Unbinding(r)
  /\ \/ Freezing({key[r]}, now + InvalidFreeze)
     \/ \E wait \in Waits : Freezing({key[r]}, now + wait)
     \/ NoFreezing
  /\ Ended(r)
  /\ UNCHANGED <<now, streaks, unsupported, ladderRows>>

\* note_stream_break.
StreamBreak(r) ==
  /\ Answered(r, "broken")
  /\ Unbinding(r)
  /\ Ended(r)
  /\ UNCHANGED <<now, frozen, streaks, unsupported, frozenRows, ladderRows>>

\* note_zero_output_incomplete: nothing reached the client, so the request goes
\* on with another key; unlike the other transient failures it blames nobody.
ZeroOutput(r) ==
  /\ Answered(r, "zero")
  /\ Unbinding(r)
  /\ Freezing({key[r]}, now + DifferentialFreeze)
  /\ Failed(r, TRUE, {})
  /\ UNCHANGED <<now, streaks, unsupported, ladderRows>>

\* handle_response_failure, one action per class.
Invalid(r) ==
  /\ Answered(r, "invalid")
  /\ Unbinding(r)
  /\ Freezing({key[r]}, now + InvalidFreeze)
  /\ Failed(r, FALSE, {})
  /\ UNCHANGED <<now, streaks, unsupported, ladderRows>>

RateLimited(r) ==
  /\ Answered(r, "limited")
  /\ Unbinding(r)
  /\ \/ \E wait \in Waits : Freezing({key[r]}, now + wait)
     \/ NoFreezing
  /\ Failed(r, FALSE, {})
  /\ UNCHANGED <<now, streaks, unsupported, ladderRows>>

\* The rejection is returned to the client; only a 404 that says "not support"
\* moves the key up the ladder.
ModelUnsupported(r) ==
  LET rung == <<ModelOf[AliasOf(r)], key[r]>>
  IN  /\ Answered(r, "unsupported")
      /\ Unbinding(r)
      /\ \/ /\ unsupported' = [unsupported EXCEPT ![rung] = NextRung(@, now)]
            /\ ladderRows' = [ladderRows EXCEPT ![rung] = NextRung(unsupported[rung], now)]
         \/ UNCHANGED <<unsupported, ladderRows>>
      /\ Ended(r)
      /\ UNCHANGED <<now, frozen, streaks, frozenRows>>

\* Mutants of Transient: one attempt too many; a key that is about to be retried
\* is already blamed.
TransientOnceMore(r) ==
  /\ Answered(r, "transient")
  /\ Unbinding(r)
  /\ IF attempt[r] < AttemptsPerKey
     THEN Moves(r, "retry")
     ELSE Failed(r, TRUE, {key[r]})
  /\ UNCHANGED <<now, frozen, streaks, unsupported, frozenRows, ladderRows>>

TransientBlamedEarly(r) ==
  /\ Answered(r, "transient")
  /\ Unbinding(r)
  /\ IF attempt[r] + 1 < AttemptsPerKey
     THEN /\ pc' = [pc EXCEPT ![r] = "retry"]
          /\ ambiguous' = [ambiguous EXCEPT ![r] = @ \union {key[r]}]
          /\ UNCHANGED <<session, hop, key, attempt, tried, transient>>
     ELSE Failed(r, TRUE, {key[r]})
  /\ UNCHANGED <<now, frozen, streaks, unsupported, frozenRows, ladderRows>>

Transient(r) ==
  /\ Answered(r, "transient")
  /\ Unbinding(r)
  /\ IF attempt[r] + 1 < AttemptsPerKey
     THEN Moves(r, "retry")
     ELSE Failed(r, TRUE, {key[r]})
  /\ UNCHANGED <<now, frozen, streaks, unsupported, frozenRows, ladderRows>>

\* handle_connect_failure: both sends failed.  The only key of a pool is
\* exempt from the connect_error freeze.
ConnectFailure(r) ==
  LET k == key[r]
      exempt == Pool[AliasOf(r)] = {k} \/ ConnectFreeze = 0
  IN  /\ Answered(r, "connect")
      /\ Unbinding(r)
      /\ IF exempt
         THEN NoFreezing /\ UNCHANGED streaks
         ELSE /\ streaks' = [streaks EXCEPT ![k] = NextStreak(@, now)]
              /\ Freezing({k}, now + NextStreak(streaks[k], now).ttl)
      /\ Failed(r, TRUE, {k})
      /\ UNCHANGED <<now, unsupported, ladderRows>>

\* circuit_breaker_on_exhaustion: every key of the pool that is not frozen by
\* now, tried by this request or not.  (is_frozen drops an expired entry first;
\* the new freeze takes its place.)
Breaker(r) ==
  LET pool == {k \in Pool[AliasOf(r)] : Weight[k] > 0}
      open == {k \in pool : ~IsFrozen(frozen, k, now)}
  IN  /\ pc[r] = "breaker"
      /\ IF ExhaustedFreeze > 0 THEN Freezing(open, now + ExhaustedFreeze)
                                ELSE NoFreezing
      /\ NextHop(r)
      /\ UNCHANGED <<now, bindings, bindingRows, streaks, unsupported, ladderRows>>

\* Mutant of RetrySame: the attempt is not counted.
RetrySameUncounted(r) ==
  /\ pc[r] = "retry"
  /\ Moves(r, "send")
  /\ UNCHANGED <<now, memory, database>>

\* FailureAction::RetrySame: after the delay the key is taken again, without a
\* selection, and the attempt counted.
RetrySame(r) ==
  /\ pc[r] = "retry"
  /\ pc' = [pc EXCEPT ![r] = "send"]
  /\ attempt' = [attempt EXCEPT ![r] = @ + 1]
  /\ UNCHANGED <<session, hop, key, tried, ambiguous, transient>>
  /\ UNCHANGED <<now, memory, database>>

\* The client goes away: the task is dropped at its await.
Disconnect(r) ==
  /\ pc[r] \in {"send", "retry"}
  /\ Ended(r)
  /\ UNCHANGED <<now, memory, database>>

-------------------------------------------------------------------------------
(* Clock, dashboard, crash *)

Tick ==
  /\ now < MaxTime
  /\ now' = now + 1
  /\ UNCHANGED <<memory, database, locals>>

\* clear_frozen.
ClearFrozen ==
  /\ frozen' = [k \in Keys |-> 0] /\ frozenRows' = frozen'
  /\ streaks' = [k \in Keys |-> NoStreak]
  /\ UNCHANGED <<now, bindings, bindingRows, unsupported, ladderRows, locals>>

\* clear_frozen_for_provider: the rows of the entries memory holds.
ClearProvider(P) ==
  /\ frozen' = [k \in Keys |-> IF k \in P THEN 0 ELSE frozen[k]]
  /\ frozenRows' = [k \in Keys |-> IF k \in P /\ frozen[k] > 0 THEN 0 ELSE frozenRows[k]]
  /\ streaks' = [k \in Keys |-> IF k \in P THEN NoStreak ELSE streaks[k]]
  /\ UNCHANGED <<now, bindings, bindingRows, unsupported, ladderRows, locals>>

\* refresh_unsupported, filtered by key.
RefreshUnsupported(K) ==
  /\ unsupported' = [i \in Ladders |-> IF i[2] \in K THEN NoRung ELSE unsupported[i]]
  /\ ladderRows' = [i \in Ladders |-> IF i[2] \in K THEN NoRung ELSE ladderRows[i]]
  /\ UNCHANGED <<now, frozen, frozenRows, bindings, bindingRows, streaks, locals>>

\* The process dies and RouterState::new loads what the database still holds.
Restart ==
  /\ frozen' = Thaw(frozenRows, now)
  /\ bindings' = DropExpired(bindingRows, now)
  /\ unsupported' = ladderRows
  /\ streaks' = [k \in Keys |-> NoStreak]
  /\ pc' = [r \in Requests |-> "idle"]
  /\ session' = [r \in Requests |-> NoSession]
  /\ hop' = [r \in Requests |-> 1]
  /\ key' = [r \in Requests |-> NoKey]
  /\ attempt' = [r \in Requests |-> 0]
  /\ tried' = [r \in Requests |-> {}] /\ ambiguous' = tried'
  /\ transient' = [r \in Requests |-> FALSE]
  /\ UNCHANGED <<now, database>>

-------------------------------------------------------------------------------
Reply(r) ==
  \/ MissingKeyValue(r) \/ Succeed(r) \/ EmbeddedError(r) \/ StreamBreak(r)
  \/ ZeroOutput(r) \/ Invalid(r) \/ RateLimited(r) \/ ModelUnsupported(r)
  \/ Transient(r) \/ ConnectFailure(r)

Step(r) == Select(r) \/ Reply(r) \/ RetrySame(r) \/ Settle(r) \/ Breaker(r)

Next ==
  \/ \E r \in Requests :
       \/ \E s \in Sessions \union {NoSession} : Arrive(r, s)
       \/ Step(r)
       \/ Disconnect(r)
  \/ Tick
  \/ ClearFrozen
  \/ \E P \in Providers : ClearProvider(P)
  \/ \E k \in Keys : RefreshUnsupported({k})
  \/ Restart

Spec == Init /\ [][Next]_vars

\* tokio runs every ready task, and each await ends: the HTTP client has
\* connect and read timeouts, which count as a reply.
Fairness == \A r \in Requests : WF_vars(Step(r))

FairSpec == Spec /\ Fairness

-------------------------------------------------------------------------------
(* Properties *)

\* What RouterState::new would load is what memory holds: the live freezes, the
\* live bindings and the ladder, whatever the requests in flight did in between.
DatabaseMirrorsMemory ==
  /\ \A k \in Keys :
       IF IsFrozen(frozen, k, now) THEN frozenRows[k] = frozen[k]
                                   ELSE frozenRows[k] <= now
  /\ \A i \in Affinities :
       IF bindings[i].expires > now THEN bindingRows[i] = bindings[i]
                                    ELSE bindingRows[i].expires <= now
  /\ ladderRows = unsupported

\* A freeze holds until its instant: no later failure, success, breaker, sweep
\* or crash shortens it ("freeze only extends"); only the dashboard lifts it.
FreezeHolds ==
  [][\A k \in Keys : frozen[k] > now' =>
       \/ frozen'[k] >= frozen[k]
       \/ ClearFrozen
       \/ \E P \in Providers : k \in P /\ ClearProvider(P)]_vars

\* A request that ends well never freezes the key that served it, however many
\* transient failures and same-key retries came before.
ServingKeySpared ==
  [][\A r \in Requests : Succeed(r) => frozen'[key[r]] = frozen[key[r]]]_vars

\* A session is moved from a live key to another one only for a cause the code
\* names: the key is frozen, out of rotation, not supporting the model, subject
\* to a daily quota, or already tried by a request of this session.
AffinityKept ==
  [][\A i \in Affinities :
       LET bound == bindings[i].key
       IN  bound # NoKey /\ bindings'[i].key \notin {bound, NoKey} =>
             \/ bindings[i].expires <= now
             \/ IsFrozen(frozen, bound, now) \/ Blocked(unsupported, i[1], bound, now)
             \/ Weight[bound] = 0 \/ bound \in QuotaKeys
             \/ \E r \in Requests : /\ pc[r] = "select" /\ bound \in tried[r]
                                   /\ AliasOf(r) = i[1] /\ session[r] = i[2]]_vars

\* A request leaves an alias without an answer only when each of its weighted
\* keys was tried or is frozen: a ladder that blocks every key does not do it.
GivesUpForCause ==
  [][\A r \in Requests :
       Select(r) /\ pc'[r] # "send" =>
         \A k \in Pool[AliasOf(r)] :
           Weight[k] > 0 => k \in tried[r] \/ IsFrozen(frozen, k, now)]_vars

\* No run checks it, for the breaker breaks it: while the upstream fails only at the
\* connection, the only key of a pool stays open.  "A pool of one key is recorded and
\* not frozen, the next request connects again" (handle_connect_failure's comment).
SoleKeyOpen ==
  Replies \subseteq {"ok", "connect"} =>
    \A a \in Aliases, k \in Keys : Pool[a] = {k} => ~IsFrozen(frozen, k, now)

\* Every request is answered: neither stickiness nor retries nor the fallback
\* route can keep it in the loop.
RequestsEnd == \A r \in Requests : pc[r] # "idle" ~> pc[r] = "idle"
===============================================================================
