----------------------------- MODULE RouterState ------------------------------
(***************************************************************************)
(* The values the router keeps behind its one Mutex<RouterState>, and what *)
(* each method of RouterState does to them (src/features/router/state/     *)
(* mod.rs), together with the rows StateStore writes through to            *)
(* state.sqlite3 (src/state_store.rs).  Nothing here is a state machine:   *)
(* the operators take the old value and the clock and give the new value,  *)
(* so that a lock section that calls several methods is one expression.    *)
(*                                                                         *)
(* A freeze table maps a key to the instant its freeze ends, 0 when it has *)
(* no entry; a binding table maps <<alias, session>> to a key and the      *)
(* instant the binding expires; the ladder maps <<model, key>> to how      *)
(* often the upstream said "model not supported" and when to probe again.  *)
(***************************************************************************)
EXTENDS Integers, Sequences

CONSTANTS
  Keys,            \* key_state_id: "provider/name"
  Aliases,         \* model aliases; each has a pool of keys
  Models,          \* upstream models
  Sessions,        \* resolved session ids
  NoKey,           \* "no binding"
  Pool,            \* alias -> the keys of its target
  ModelOf,         \* alias -> the upstream model it stands for
  Weight,          \* key -> weight; 0 takes the key out of rotation
  QuotaKeys,       \* keys with a daily_token_quota
  SessionTTL,      \* session_ttl_seconds
  ConnectFreeze,   \* tunable connect_error_freeze_seconds
  RetryLadder,     \* UNSUPPORTED_RETRY_LADDER
  PermanentDelay   \* UNSUPPORTED_PERMANENT_THRESHOLD

ASSUME KeysAssumption ==
  /\ NoKey \notin Keys
  /\ Pool \in [Aliases -> SUBSET Keys]
  /\ ModelOf \in [Aliases -> Models]
  /\ Weight \in [Keys -> Nat]
  /\ QuotaKeys \subseteq Keys

ASSUME TunablesAssumption ==
  /\ SessionTTL \in Nat
  /\ ConnectFreeze \in Nat
  /\ PermanentDelay \in Nat
  /\ RetryLadder \in Seq(Nat)

Affinities == Aliases \X Sessions  \* the keys of the binding table
Ladders == Models \X Keys         \* the keys of the unsupported table

Binding == [key : Keys \union {NoKey}, expires : Nat]
Unbound == [key |-> NoKey, expires |-> 0]

\* connect_streaks stops doubling after 2^5; attempt and count saturate here.
Doubling == <<1, 2, 4, 8, 16, 32>>
Streak == [count : 0..Len(Doubling), last : Nat, ttl : Nat]
NoStreak == [count |-> 0, last |-> 0, ttl |-> 0]

Rung == [attempt : 0..Len(RetryLadder) + 1, retry : Nat]
NoRung == [attempt |-> 0, retry |-> 0]

-------------------------------------------------------------------------------
(* Freezes *)

IsFrozen(f, k, now) == f[k] > now

\* Mutant of FreezeAll: the later freeze wins, even when it ends earlier.
FreezeAllOverwriting(f, K, until) == [k \in Keys |-> IF k \in K THEN until ELSE f[k]]

\* freeze() of every key of K: an entry is only ever replaced by a later one.
FreezeAll(f, K, until) ==
  [k \in Keys |-> IF k \in K /\ until > f[k] THEN until ELSE f[k]]

\* Mutant of StoreFreezeAll: the row is overwritten whatever it holds.
StoreFreezeAllBlindly(rows, f, K, until) ==
  [k \in Keys |-> IF k \in K /\ until > f[k] THEN until ELSE rows[k]]

\* What freeze() upserts: only the entries memory took, and the row itself
\* only moves to a later instant.
StoreFreezeAll(rows, f, K, until) ==
  [k \in Keys |-> IF k \in K /\ until > f[k] /\ until > rows[k]
                  THEN until ELSE rows[k]]

\* cleanup() drops the expired entries ...
Thaw(f, now) == [k \in Keys |-> IF f[k] <= now THEN 0 ELSE f[k]]

\* ... and deletes, by name, the rows of the entries it dropped.
StoreThaw(rows, f, now) ==
  [k \in Keys |-> IF f[k] > 0 /\ f[k] <= now THEN 0 ELSE rows[k]]

-------------------------------------------------------------------------------
(* Session bindings *)

Bind(b, alias, s, k, now) ==
  [b EXCEPT ![<<alias, s>>] = [key |-> k, expires |-> now + SessionTTL]]

Unbind(b, alias, s) == [b EXCEPT ![<<alias, s>>] = Unbound]

DropExpired(b, now) ==
  [i \in Affinities |-> IF b[i].expires <= now THEN Unbound ELSE b[i]]

StoreDropExpired(rows, b, now) ==
  [i \in Affinities |-> IF b[i].key # NoKey /\ b[i].expires <= now
                   THEN Unbound ELSE rows[i]]

-------------------------------------------------------------------------------
(* Connection-failure streaks *)

\* note_connect_failure_streak: a failure within four times the last freeze
\* continues the streak, a later one starts a new streak.
NextStreak(old, now) ==
  LET count == IF old.count > 0 /\ now - old.last < 4 * old.ttl
               THEN IF old.count < Len(Doubling) THEN old.count + 1
                                                 ELSE Len(Doubling)
               ELSE 1
  IN  [count |-> count, last |-> now, ttl |-> ConnectFreeze * Doubling[count]]

-------------------------------------------------------------------------------
(* The "model not supported" ladder *)

Delay(attempt) ==
  IF attempt <= Len(RetryLadder) THEN RetryLadder[attempt] ELSE PermanentDelay

NextRung(old, now) ==
  LET attempt == IF old.attempt <= Len(RetryLadder) THEN old.attempt + 1
                                                    ELSE old.attempt
  IN  [attempt |-> attempt, retry |-> now + Delay(attempt)]

Blocked(u, alias, k, now) ==
  LET rung == u[<<ModelOf[alias], k>>]
  IN  /\ rung.attempt > 0
      /\ Delay(rung.attempt) >= PermanentDelay \/ now < rung.retry

-------------------------------------------------------------------------------
(* Selection *)

\* Mutant of Usable: the keys this request tried are not excluded.
UsableAgain(f, alias, tried, now) ==
  {k \in Pool[alias] : Weight[k] > 0 /\ ~IsFrozen(f, k, now)}

Usable(f, alias, tried, now) ==
  {k \in Pool[alias] : Weight[k] > 0 /\ k \notin tried /\ ~IsFrozen(f, k, now)}

Supported(f, u, alias, tried, now) ==
  {k \in Usable(f, alias, tried, now) : ~Blocked(u, alias, k, now)}

\* Mutants of Choices: the binding is not looked up; the ladder is final.
ChoicesUnbound(f, b, u, alias, s, tried, now) ==
  LET supported == Supported(f, u, alias, tried, now)
  IN  IF supported # {} THEN supported ELSE Usable(f, alias, tried, now)

ChoicesSupportedOnly(f, b, u, alias, s, tried, now) ==
  Supported(f, u, alias, tried, now)

\* The keys select_key_excluding may return, {} for NoAvailableKeyError.  A
\* session keeps the key it is bound to, unless that key's daily quota is
\* spent; otherwise the strategy picks a supported key and, when the ladder
\* blocks them all, any usable one.
Choices(f, b, u, alias, s, tried, now) ==
  LET usable == Usable(f, alias, tried, now)
      supported == Supported(f, u, alias, tried, now)
      bound == IF s \in Sessions THEN b[<<alias, s>>].key ELSE NoKey
  IN  IF bound \in supported \ QuotaKeys THEN {bound}
      ELSE IF supported # {} THEN supported
      ELSE usable
===============================================================================
