# llm-provider-router in TLA+

This directory models the router: key health and the retry loop of a request, the SQLite tables
two backends share, streamed answers and conversations in three protocols, the configuration and
how it reaches the backends, usage and selection, web search, name resolution, the delta context
protocol between the pi extension and the router's cache, and the blue/green deployment. TLC
checks the models on small instances, TLAPS proves part of the results for every value of the
constants. `PROJECT.json` maps each definition to the source lines it stands for and lists runs,
mutants, hazards, findings and theorems.

Run a check with `tlc -config MCRequestLoop_race.cfg MCRequestLoop`, a proof with
`tlapm RequestLoop_proofs.tla`.

## 1. Inventory

The program is one binary in two roles. `llm-provider-router backend` serves the LLM routes; it
runs twice, as slot blue and slot green, each under its systemd unit. `llm-provider-router`
(front proxy) is the stable entry that forwards to the active slot. Around them are the deploy
script `bin/hot-deploy-router.py`, its lock `bin/deploy_lock.py`, and the extension
`pi-extensions/delta-context.ts` inside each pi client.

| Component | State it keeps | Operations | What makes it correct | Status |
|---|---|---|---|---|
| Key health, affinity, ladder (`features/router/state`) | freezes, session bindings, connect streaks, unsupported ladder, in memory; the first two and the ladder also as rows of `state.sqlite3` | freeze, bind, unbind, mark/clear unsupported, cleanup, select, load at start | memory and table agree whenever the process may die; a freeze holds; a session moves only for a cause | `RouterState`, `RequestLoop`; diagnostics left out |
| Request loop (`routes/responses.rs`, `messages.rs`, `responses/stream`, `router/failure.rs`) | per request: key, tried set, blamed keys, retry counter, position in the fallback route | select, send, classify, retry, fall back, breaker | it ends; it gives up only when the pool is exhausted; it does not punish the key that served it | `RequestLoop` |
| Error rules (`error_rules.rs`) | a file; the templates in force | match, classify, PUT, reload | each backend judges by the file | `FailureRules` |
| Two backends on one database (`state_store.rs`) | one memory each, one table | freeze, sweep, restart | one process does not lose the other's freeze, but by the sweep | `SharedStore` (freezes) |
| Stream translation, passthrough guard (`responses/stream`, `anthropic/stream.rs`) | per stream: open items, sequence, half lines, held bytes | lines in, events out, finish, retry, break | event order, one ending, every item told, truncation told | `ResponseStream`, `ResponseProtocol` |
| Response store (`responses/store.rs`) | ring with TTL, per process | put, get, delete | an answer can be gone on from as long as promised | `Conversation` |
| Translation of requests and answers | — | Messages to Responses to chat and back; DeepSeek's demands | texts, images, calls and results kept, in order; files refused | `Translation`, `Conversation` |
| Selection (`selection.rs`, `costing.rs`) | — | order targets, pick a key | every candidate gets its share; quotas | `Selection`, `Usage` |
| Configuration v2, hot reload (`config/v2`, `state/v2.rs`, `hot_reload.rs`) | four files; what each backend has loaded; the watcher's snapshot | edits, renames, migration, resolve, reload | backends end on what the files say; no dangling reference; a route reaches what it names | `Configuration` |
| Usage, cost, traffic (`usage_store.rs`, `traffic.rs`) | usage rows; rings of seconds | record, sum, group, fill; add, window, evict | parts add up to totals; rates are exact | `Usage`, `Traffic` |
| Web search (`search.rs`, `search_chrome.rs`) | a file; open tabs of the browser | plan, engines, fallback, update | a tab is closed; the answer is from whom was asked | `WebSearch` |
| DNS overrides (`dns_override.rs`) | a file; configuration and cache of the resolver | look up, update | no address of an old configuration in the cache | `NameResolution` |
| Delta cache (`responses/delta.rs`) | token -> items, base hash, LRU order, byte total; enabled flag | register_full, apply_delta (two lock sections), dump, load, clear, toggle | only the exact context goes upstream; accounting and caps | `DeltaCache`, `DeltaLink` |
| Delta extension (`delta-context.ts`) | mode, token, base hash, last input, pending | three hooks | never refused twice in a row; base and token belong together | `DeltaLink` |
| Front proxy (`front_proxy.rs`) | active slot (a file), in-flight guards | forward with two attempts per slot, switch | every request ends; only the lock's holder switches | `Deployment` |
| Slot manager (`slot_manager.rs`) | last traffic, last action per slot | touch, periodic check, ensure_running | a dead active slot comes back; a spare is stopped only when idle | `Deployment` |
| Deploy lock and script | flock + token file; the locals of a run | deploy, stage, switch, verify, roll back, release, force | one session at a time; the lock is given back | `Deployment`; handoff in `DeltaLink` |
| Shutdown, systemd units | service state | SIGTERM drain, 85 s watchdog, Restart=on-failure | — | in `Deployment` |
| Session fingerprint, dashboard, operator tools | — | — | — | see "Not modelled" |

How they interact: handlers share `Mutex<RouterState>` and release it for every await; both
backends write one SQLite file and read the same configuration files, which only one of them, or
an operator, edits; the proxy reads the active-slot file on every request, the manager once per
round, the script at its start; the script and the proxy meet at the lock file and at
`POST /_proxy/active/{slot}`; the extension and the cache meet only through requests that can be
repeated, lost or land in another slot; a streamed answer and the ring of answers meet in
`put_full`, at the end of the stream.

The hard behaviours are listed, each at its line, under `hazards` in `PROJECT.json`, with the
properties that cover it or the reason why none does.

## 2. Modules

`RouterState` — operators, no state machine. What each method of `RouterState` and the
write-through of `StateStore` do to a freeze table, a binding table, the streaks and the ladder;
and `Choices`, the candidates of `select_key_excluding`: key in rotation, untried, not frozen,
not blocked, the ladder lifted when it blocks everything, the bound key first.

`RequestLoop` EXTENDS `RouterState` — one backend process. Per handler: `pc`, `session`, `hop`,
`key`, `attempt`, `tried`, `ambiguous`, `transient`, the locals of the source. One action is one
section under the state lock together with the awaits before it that touch nothing shared.
`Select` is the selection (with its cleanup), then one action per class of reply: `Succeed`/
`Settle`, `EmbeddedError`, `StreamBreak`, `ZeroOutput`, `MissingKeyValue`, `Invalid`,
`RateLimited`, `ModelUnsupported`, `Transient`, `ConnectFailure`; `RetrySame` is the delay before
the same key's next attempt and the count of it; `Breaker` (circuit_breaker_on_exhaustion) is a
section of its own, as in the code. Environment: `Tick`,
the dashboard's `ClearFrozen`, `ClearProvider`, `RefreshUnsupported`, a client's `Disconnect` (a
dropped future, hence only at awaits) and `Restart`, a crash and reload at any instant.

`FailureRules` — `error-rules.json`: which class a failure is (`Classify`), and how the file
reaches the backends. The PUT holds the backend's lock from emptying the file to putting the
rules in force; the watcher takes its snapshot (`Notice`) and later, under that lock, reloads.

`SharedStore` EXTENDS `RouterState` — the freezes of two processes over one table.

`ResponseProtocol` — the abstract specification of a streamed answer, whatever the API: it
starts once, only open items grow, items close once, a complete answer leaves none open.
`ResponseStream` — one answer from the upstream's socket to the client. Pieces of lines arrive in
any cut; `TranslateChunk`, `TranslateEnd` and `Settle` are the loop over a chat upstream with the
translator's `Feed` and `FinishSse`; `PassChunk`, `RetryZeroOutput`, `PassEnd` and `StreamBreak`
the loop over a Responses upstream with the guard; `Deliver` is wrap_sse, for a Messages client
with its translator; `Read` what the client makes of an event. `told` is what a client that heard
the Responses upstream of this attempt directly would have made of it; a client whose answer got
an error event has the status "error". `Protocol == INSTANCE ResponseProtocol` with the client's
view is the refinement: the property `KeepsProtocol` is `Protocol!Spec`.

`Translation` — operators: the three request translations, the two of answers, the history kept
of an answer, and the last preparation of a chat request with DeepSeek's demands. `Conversation`
EXTENDS it — requests of both APIs at two slots, each with its ring: `Begin` (fetching what
previous_response_id names, translating), `Dispatch` over the route, `Frozen`, `Answer` with
put_full, `End`; `Look` and `DeleteResponse` for GET and DELETE; `Switch` and `Restart`.

`Selection` — operators: `OrderTargets`, `WeightedPick`, `PriorityPick`, `DropExhausted`,
`UsagePreferred`. A session is the number its hash makes; without one every draw may happen. A
choice is the set of what the code may choose. `Usage` EXTENDS it — the usage table that requests
append to, what selection reads back, and what the dashboard computes. `Traffic` — the rings of
bytes per second, of all sessions and of each.

`Configuration` — four files (`disk`), what each backend serves (`config`), what its watcher has
not looked at (`stale`) and has seen (`noticed`). An edit is a sequence of writes, each emptying a
file (`Truncate`) and filling it (`Fill`); `Finish` reloads, `GiveUp` is an edit that fails half
way, `Crash` one that stops there. `StartSaving`/`Save` is an operator's editor. Resolution,
`RenameIn*` and `Migrate` are functions of the files.

`WebSearch` EXTENDS `Selection` — `Ask` plans under the pool's lock; `Connect`, `OpenTab`,
`Render`, `CloseTab` go through the engines; `Fallback` and `Execute` use the pool; `PutBegins`
and `PutWrites` are the two lock sections of the update. `NameResolution` — a lookup is `Hit` or
`Miss`, then `ReadConfig`, `AskServer`, `TakeStatic`, `AskSystem`; an update is `Replace`, `Clear`
and `WriteFile`.

`Services` composes SharedStore, Configuration, FailureRules, NameResolution, Usage, Traffic and
WebSearch, which share no state with each other; `MCServices` gives it its values. `part` says which
of them a behaviour is about: one run explores them one after another, which costs the sum and not
the product of their state spaces. Nothing is lost by it, since no action of one reads another's
variables.

`DeltaCache` — operators: what each lock section does to `DeltaInner`. `DeltaLink` EXTENDS it —
clients, slots, handler tasks, messages. `Send`/`Receive`/`SessionStart` are the hooks of the
extension; `Resend` and `Lose` its HTTP layer, which may send any body again while its first copy
is under way and lose any answer; `Admit`, `Register`, `ReadBack` the steps of
register_full; `Admit`, `Take`, `Commit` those of apply_delta; `Dump`, `Load`, `Switch` the
deploy script's handoff, each of which may not happen; `Toggle` and `Restart` of a slot. `strayed`
is a history variable that no action reads: it marks a client for which one of the two things has
happened that the code does not survive (section 6, 3 and 4), until it starts over.

`Deployment` — proxy, slot manager, systemd, script, lock. Every await of the proxy, every
command of the script and every job of systemd is an action. `orders` are the systemctl commands
that were spawned and not waited for. `round`, `seen`, `seenLock` are what `check_once` sampled
when its round began and still uses later. A session's `step` is where its command is; `staged`
means stage has printed its token, `orphaned` that stage raised and left a holder whose token
nobody has; the locals of a session are `None` while it runs no command; mode `unheld` is a stage
command whose forked holder has been killed.

`*_proofs` — theorems. `FoldLemmas` — what the folds of the library compute over sets and over
sequences, and what a flattening of parts has, proved. `ResponseStream_lemmas` — what the operators
of `ResponseStream` do, proved. `MC*` — values of constants for TLC. Each property has a mutant, an
operator named next to the definition it would replace, that breaks it under the run's own
configuration.

### Abstractions

- The state mutex is held by one task at a time, so lock sections are atomic. Rust panics are not
  modelled.
- In `RequestLoop`, which class a reply falls into is the environment's choice (`Replies`);
  `FailureRules` is the function that makes it.
- An event is what one `data:` line carries, a text the number of its deltas; texts, images and
  calls of a conversation are identifiers. In `ResponseStream` an attempt is a number: which key
  it is, and what a failure does to it, is `RequestLoop`'s.
- A name of the configuration is the sequence of its segments, since the code cuts at the first
  slash. A file that is being written is `Broken`, as a reader finds it.
- Hours and seconds are small numbers; a day has one hour in `Usage` so that a quota renews.
- Loading at a start and the watcher's first snapshot are one step; the code has a moment
  between them (hot_reload.rs:47) in which a write would go unnoticed until the next one.
- `tried` holds bare names in the source and key ids here: the models have no two keys of one
  name in a pool.
- Streak count and ladder attempts saturate where the source's effect does (2^5; past the last
  rung).
- The hash of a context is the context: base_hash is content addressed, collisions are left out.
  Each item weighs one byte.
- TTL expiry of the delta cache removes any number of the oldest sessions.
- In `Deployment` the proxy itself stays up, the active-slot file exists (bootstrap has run),
  auto_heal is on, a token is the session that wrote it. Check and write of the switch handler
  are one step: no await lies between them.
- `--slot` of stage may name any slot, `--slot` of deploy any but the active one, as the script
  checks; switch is run with the slot that was staged.

## 3. Runs

| Run | Checks | Instance |
|---|---|---|
| `race` | TypeOK, DatabaseMirrorsMemory, FreezeHolds, ServingKeySpared, AffinityKept | 2 requests, 2 keys, 1 session and none, 2 attempts per key, 2 instants |
| `fallback` | GivesUpForCause, RequestsEnd | 1 request over 2 targets sharing a key, a retired key, a quota key, 2 attempts per key, ladder of one rung, 1 instant |
| `stream` | Faithful, TruncationTold, StoredAsTold, KeepsProtocol, AnswerEnds | 3 chunks of 9 kinds, or 5 events; 2 pieces in the socket; 2 attempts |
| `conversation` | TextsAndCallsKept, Remembered, ResultsFollowCalls, DeepseekAccepts | 1 handler, 2 slots with a ring of 2, 3 answers, 5 requests, 2 routes |
| `services` | TypeOK, Converged, NamesFresh, ReferencesKept, RoutesReach, DashboardAddsUp, RoutesFair, RatesExact, TabsReturned, AnswersHonest, RowsKept | seven parts, see below |
| `delta_handoff` | TypeOK, ContextExact, EntriesMatchHash | 2 slots, 1 client, 3 tokens, 1 session per cache, 2 bytes, 1 per session; contexts that grow and compact, answers lost |
| `delta_concurrent` | ContextExact, Accounted, RefusedOnce | 1 slot, 2 tasks of 1 client, 3 tokens, 2 sessions, 2 bytes; contexts that grow and go back, answers lost, bodies sent twice |
| `deploy_switch` | ExclusiveWindow, SwitchesGuarded | 2 sessions of either mode, no requests |
| `deploy_lifecycle` | ActiveComesBack, DeployEnds | 1 one-shot session, no idle shutdown, cooldown 1 |
| `deploy_traffic` | TypeOK, RequestsAnswered, ActiveComesBack | 1 request, no session, idle 1, no cooldown |
| `quota` | QuotaRespected is violated | the usage part of `services` |
| `stream_messages` | StartsFirst is violated | a Messages client of a translated chat upstream, 2 kinds of chunk |

What the properties of the new runs say. `KeepsProtocol`: the client's view of any stream, torn,
retried, broken or abandoned, is a behaviour of `ResponseProtocol`. `Faithful`: an answer that is
told to have ended has every item the upstream sent in that attempt, whole and in order, compared
with an accumulator-free reading of what was sent. `TruncationTold`: completed exactly when a
finish_reason "stop" was sent. `StoredAsTold`: the ring keeps what was streamed.
`TextsAndCallsKept`: the chat request is what the answer gone on from said, followed by every text,
image, call and result of the request, in order, and a request with a file is refused. Reasoning,
thinking, calls of built-in tools and what the router does not know count as saying nothing: the
code drops them without a word (section 6, 8). `Remembered`: an answer can be gone on from until TTL
or as many later answers as the ring has places, and from no other. `ResultsFollowCalls`: between a
call and its result come only other calls, results and the instructions of the request, never a
text. That is less than chat completions demands, which wants the results of a message right behind
it and which the code does not see to (section 6, 8). `DeepseekAccepts`: what DeepSeek is known to
refuse is not sent. `ContextExact`: the answer a client waits for was made from the context it
means, unless the client has strayed. `Converged`: a backend whose watcher has nothing left to look
at serves, and judges failures by, what the files say. `ReferencesKept`: edits that ran to their end
leave no dangling reference. `RoutesReach`: resolution against a reference definition by
reachability (circles included), and migration keeps what a pool was announced with.
`DashboardAddsUp`, `RoutesFair`, `RatesExact`: sums and shares against definitions from the raw
rows. `NamesFresh`, `TabsReturned`, `AnswersHonest`, `RowsKept`: see the modules.

The bounds. `MaxTime` (2 or 3) is the number of instants: with freezes of 1 and 2 it makes a
freeze live, expire and be extended by a later, longer one; every rule about time compares two
instants, so more of them repeat the same orders. Two requests give every interleaving of two
handlers on a key and a binding; three keys give a shared key, an exclusive one and one out of
rotation. Two handler tasks per client are what the HTTP layer's re-send needs; three tokens let
a client come back with one the cache has evicted while another is handed out. `SessionMax` 1
with contexts of 2 in `delta_handoff` makes a registration and, after a delta, the load refuse an
oversize session; `MaxBytes` 2 in `delta_concurrent` makes eviction hit a session whose items are
taken out. Both runs lose answers of every kind, and `delta_concurrent` has every body sent twice
at any time. `fallback` has every way for a request to stay in the loop: two attempts per key,
connection errors, empty answers, two aliases; `race` has all replies but a model that is not
supported, and a missing key value and a rate limit, which `fallback` has. In `Deployment`
two sessions suffice for a lock; `Idle` and `Cooldown` are compared with a threshold only, so 0
(off, or always over it) and 1 are the cases. `deploy_switch` has `Idle = 0`: the stop of a
spare is irrelevant to who holds the lock. `deploy_lifecycle` heals under a cooldown and a held
lock, `deploy_traffic` after a stop that was decided on a stale sample. `deploy_traffic` is
without sessions because the lock changes nothing for a request but the slots' states, which
`Manual`, `Crash` and the manager produce, too.

`stream`: three chunks give every order of two items with an end in any place, or none; two attempts
are a retry and the last one; lines are torn in the mode of `TornModes`, passthrough, whose guard
keeps halves (the translating loop does not, section 6). Five events are the shortest whole
Responses answer with an item, so that the guard's buffer, its release and its refusal all happen.
`conversation`: a ring of two and three answers make it drop one; ages 0, 1 and 2 with a TTL of two
make it expire one; the requests hold every kind of block, item and part, those that are dropped and
those that are refused among them, results of calls in the history, and instructions in front of
them. `services`: the files of `Configuration` have a pool in a pool and a virtual model, ten
requests rename, remove, add and put pools into a circle, two edits in any order on two backends of
which one edits; `FailureRules` two files, one without a default, three writes; `NameResolution` two
lookups of one host, three contents, two updates, an instant that lets an entry expire; `Usage` two
keys of one name at two providers, three strategies, a pool that lists a candidate twice, a table
that has a row of a key since removed with more cached tokens than prompted, two new rows; `Traffic`
a ring of three that goes round within five seconds, one session more than is kept; `WebSearch` two
searches, six things to ask for, three files, one of which names an engine twice, one lost command
and one edit.

Where a property has a precondition on the environment it is in the configuration: the requests of
`services` rename no provider of a model whose own name
has a slash (section 6, number 9). They do delete a virtual mapping that is in use, and
`ReferencesKept` excuses the reference to a virtual name that this leaves.

Symmetry is used in safety runs only (keys with equal weights, requests, sessions, tokens,
copies, searches, lookups; the two slots, of which `Other` names one by the other).

Fairness. `RequestLoop`: weak fairness of each handler's own step; connect and
read-idle timeouts end each wait for the upstream (app.rs; a stream that trickles for ever is taken
to end), and tokio polls every task. A crash, the clock, the dashboard and a client going away
are not fair. `Deployment`: the manager's loop and time go on (WF of Wake, Check, Tick); systemd
carries a start out once the unit is not draining, again and again if it must (SF of Execute
start), and a drain ends by the watchdog (WF of Exits); an attempt of the proxy ends and a
command of the script ends, well or not (WF). The last two lean on what is outside the code: a
request that a backend accepts but never answers waits until its client leaves, because the
proxy's client sets no timeout, and `systemctl` in the script has none either. The start and the
health of a slot are not fair: it may fail every time. `ResponseStream`: the generator and the
client are polled while they can move (tokio), and an upstream that says nothing runs into the
client's read timeout (app.rs), WF of Break. The first two are written with state predicates that
say when the action is enabled; a lengthy ENABLED of the folds is beyond TLC. That an attempt ends
does not mean that it succeeds.

## 4. Proofs

`RequestLoop_proofs`, for any pools, route, sessions, requests and tunables:

- `TypeCorrect`: Spec => []TypeOK.
- `ServingKeyIsSpared`: ServingKeySpared is an action property about `ambiguous`, which no
  single step shows: it needs `Chosen`, that the key in use is never in `tried` and the blamed
  keys are all in `tried`. `Safe == TypeOK /\ Chosen` is the inductive invariant; it holds because
  selection draws from untried keys (`ChoicesUsable`) and every failure that blames a key also
  puts it into `tried`.
- `AffinityIsKept`, `GivesUpOnlyForCause`: action properties about the key in use and the pool it
  was chosen from. The choice is made from a pool, and the request gives up for a pool; `InPool`
  adds to `Safe` that the key a request holds is one of the pool of its place in the route.
- `DatabaseMirrors`: by parts (`Mirrored`), one for each table: freeze's two rules (memory keeps
  the later instant, the upsert's WHERE) agree on a mirrored table; cleanup deletes the rows of
  just what it drops; time only moves live entries to expired ones on both sides.
- `FreezesHold`: from `DatabaseMirrors`, which makes a restart reload every live freeze.

`Deployment_proofs`, for any number of sessions and requests, any idle and cooldown times:

- `TypeCorrect`, which includes that a request holds an in-flight guard exactly while in flight.
- `WindowIsExclusive`: ExclusiveWindow is inductive relative to TypeOK. A one-shot session alone
  would not be: a stage command that ends without its holder clears the lock, so the invariant
  must say of every session that restarts a slot, staged ones too, that the lock is its own.
- `SwitchesAreGuarded`: every step that changes the active slot passes `Allowed`.

`DeltaLink_proofs`, for any clients, copies, slots, tokens, items and caps:

- `TypeCorrect`, from `Safe`: TypeOK with the place of every handler (`Tidy`) and that a client
  waiting for the reply to a delta counts it as pending (`Pending`).
- `AccountsKept`: Spec => []Accounted. Inductive relative to `Safe`, by one lemma for each operator
  of `DeltaCache` (`WithoutBalanced`, `EvictWithinCaps`, `PutCache`, `EmptiedCache`, `MergeCache`):
  the byte total kept by hand is the sum over the sessions held.
- `HashesMatch`: Spec => []EntriesMatchHash. A handler between Take and Commit owns the entry it
  has emptied: nothing but its Commit puts content back, and a restart, which ends the handler,
  empties the cache with it.
- `RefusedOnceOnly`: Spec => RefusedOnce, an action property: `Resent` says that a client that was
  refused has sent, or will send, everything.
- `ContextSent`: Spec => []ContextExact, with no hypothesis about copies or lost answers. It takes
  EntriesMatchHash, for what a handler finds under a hash, and `Exact`, which is about the clients
  that have not strayed: the delta a client waits for says what it means, a client that may send one
  has as its base the context it sent last, and what a handler has made of it is what was meant.

`Services_proofs` is about the parts of `Services`, each for all values of its constants, and states
their properties of the composition, as the run does (`Alone`: a step of the composition is one of
a part, or the part stands still):

- `NamesAreFresh`: NamesFresh alone is inductive but for the shape of `update`: an entry stored is
  of the configuration in force or marked as overtaken, replacing the configuration opens the window
  between the two locks, clearing closes it.
- `BackendsConverge`: Converged of the configuration and of the error rules. The inductive
  invariants (`ConfigInv`, `RulesInv`) say more, that what is served is the files' own: every write
  makes all watchers look again, so that a reload that failed is followed by another when the file
  is made whole.
- `TabsAreReturned`, one step per action from four lemmas on what moving one search does to the
  number of those that hold a tab.
- `RowsAreKept`: Spec => RowsKept, from the types and the two rules about which of two freezes wins.
- `RatesAreExact`: `Exact(ring, total, known, history, second)` says that each bucket holds the sum
  of all known entries of its second and that the last round of seconds has its buckets; then a
  window, which is no longer than a round, is the sum of its buckets (`SummedParts`), and the bucket
  a new second takes over is of no window. A session that is not kept has nothing known, so that it
  starts from nothing when it comes back.
- `AnswersAreHonest`: Spec => []AnswersHonest. A search is idle, answered as the property says, or
  `Underway`: it browses, and then the engines it has left are the end of its plan and those before
  them have failed (`Behind`); or all of its engines have failed and it is at the pool; or it
  executes at a provider that is known, the one it was told if it was told one. What the pool picks
  is known because `Materialised` keeps known providers only. An earlier form of the property, that
  an engine that answers has not failed before, was no invariant: chrome_search.rs takes an engine
  the file names twice twice, and TLC finds the counterexample once a file does. It is stated by
  the place in the plan.
- `RoutesAreFair`: Spec => []RoutesFair, of the operators of `Selection`, whatever the usage table
  holds. `UpTo`, the weights added up from the left, does not fall (`UpToGrows`), so that every draw
  below the total is of exactly one item (`DrawnThere`) and an item is drawn as often as its weight
  says (`DrawnAsOften`: the draws of a candidate are an interval for each of its places, and
  intervals of different places share none). The order behind the first is told by ranks: of a
  linear order of the places, the number of those before a place is a bijection with 0 .. n - 1
  (`Ranked`), hence an arrangement has each place once (`ArrangedOnce`) and a route has each
  candidate as often as the pool (`Rearranged`). A pool may list a candidate twice; an earlier form
  of the property compared sets and assumed that it does not.
- `TheDashboardAddsUp`: Spec => []DashboardAddsUp. The inductive invariant is `Ledger`: every row is
  typed and its key is a provider and a name, never the "other" that merging writes. Each field of
  a bucket is a sum over its rows (`BucketSums`), what was not cached because no row has more cached
  than prompt tokens, so groups, days, merged and filled series, providers and sessions are
  classes of the same rows, and classes add up to the whole (`SumClasses`, `SumGrid`); a cost is
  linear in the fields (`CostsSum`). A period that holds no row shows nothing that adds to it
  (`FilledSum`), and whatever the number of groups kept, those merged are the ones that are not
  (`MergedSeries`).

`ResponseStream_proofs`, for any upstream: completions and answers of any length, any number of
attempts, any room in the socket, every way to tear and to break a stream. All four theorems have
the hypothesis `<<"messages", "translate">> \notin Modes`: that pair of client and upstream loses
its response.created and does break the protocol (run `stream_messages`).

- `KeepsTheProtocol`: Spec => KeepsProtocol, the refinement. Every step of the stream is a step of
  `ResponseProtocol` or a stutter on the client's view.
- `StoresWhatWasTold`: Spec => []StoredAsTold.
- `AnswersFaithfully`: Faithful of every answer that was passed through, however its lines were
  torn, and of every translated one if "translate" is not in `TornModes`, as in the run: the
  translating loop does drop a torn line (section 6, 6).
- `TellsTruncation`: Spec => []TruncationTold, under the same hypothesis about `TornModes`.

That what the client has read is legal says nothing about the next event. The inductive invariant
(`Telling`) is about what is still on its way, in the order in which the client will get it: the
inbox, the body, the events the guard holds back, the socket, the tail of a torn line. A client
that reads them all goes through legal steps only and ends with a view that is known (`Reaches`),
for a passthrough `told`, for a completion that of the translator. A step of the backend moves
events from one of these places to the next and leaves that end as it was, or appends events that
are legal after it, or drops what can be dropped because nobody was told of it (the retry). A
Messages client hears the second translator, so that what it will make of the answer is coupled to
that translator's state (`Coupled`). When the answer is over or the client gone, nothing moves any
more (`Over`), and that is where the other three are read off. `Reading` says of a translated
completion that what `ResponsesSse` keeps is what was said in the lines that are not in the socket
any more (`Recorded`): one item for each index, in the order in which they were first mentioned,
with as many deltas as were said, and the finish.

`ResponseStream_lemmas` has the operators' part of this, by operator: `Ended` and `Lines`, which
put torn lines together, are homomorphisms up to the half line between two pieces; `Reaches` goes
through a concatenation; what `PushDelta`, `FeedPart`, `Feed` and `FinishSse` emit is legal where
the translator stands, and what they keep is `Recorded`; one step of the second translator keeps
`Coupled`.

`Conversation_proofs`, for any asks, answers, routes, fields and aliases, slots, handlers and
limits. The four properties are of one inductive invariant, `Types /\ Sound /\ Complete /\ Meant`:

- `RemembersAnswers`: Spec => []Remembered. The property asks the translation whether an answer can
  be gone on from, so what must be inductive is what a ring holds. `Sound`: a ring is in the order
  of its ids, within MaxEntries, and each entry is of an answer that its slot gave, is as old and
  keeps its history. `Complete`: an answer of the age < TTL is in the ring of its slot, or
  MaxEntries later answers of that slot are. Putting an answer first drops the expired entries and
  then the oldest: that the oldest of a full ring has MaxEntries later ones follows from `Sound`
  alone, by counting. That `Only` keeps order and members is `OnlyKeeps`.
- `TextsAndCallsAreKept`: Spec => []TextsAndCallsKept. `Meant`: a request that was translated is
  what it goes on from, as the ring had it then, followed by its input. It is about an answer told
  earlier, whose entry may have expired or been deleted since. `Sound` gives it in the step that
  translates.
- `DeepseekAcceptsAll`: Spec => []DeepseekAccepts. What `Normalize` does to the fields does not
  bring back what it has removed, and the hint it adds misses no reasoning (`HintMissesNothing`).

- `ResultsFollowTheirCalls`: when every ask is `Orderly`, Spec => []ResultsFollowCalls. `Orderly` is
  what the protocols demand of one request of a client: a result comes behind its call with only
  calls and results between or, if the call was in the answer it goes on from, only behind such; and
  no message of a Responses request is empty. It says nothing of histories, backends or what the
  router does; MCConversation has TLC evaluate it of the asks of the run (`OrderlyAsks`). By
  `RequestSays`, what a chat says is what its history says, which ends with the calls
  (`HistorySays`), then what was asked, so it is in order (`BehindBoth`). That the messages are then
  in order (`CalledByOne`) needs that none is empty (`FlushFull`: the translation of a turn makes no
  empty item) and that a tool message says its result and no more (`FullItemProper`). The system
  message of instructions, which comes between an answer and what is asked, says nothing and is
  passed over. What is proved is what the code keeps, not what chat completions demands
  (`ResultsAtOnce`, section 6, 8).

What a translation keeps, whatever its length, is stated of maps: `Spoken` and the translations are
flattenings of what is made of each part (`FlatMap`), so that to say what was said after a
translation is a flattening again (`FlatMapsTwice`), equal to the original part by part. The one
that is not is that of a turn of a Messages request, which gathers texts until a call or a result
comes in between: there the trace of the fold says, at each block, that what was emitted and what
is still gathered is what was said so far.

The assumptions of `Conversation` say what its constants are: items, turns and answers of the known
types over `Names`, routes of at least one target (resolve.rs refuses an empty one), a `Refused`
that is not a list of messages, all five fields in every record of parameters, and a ring of at
least one place. They leave lengths, orders and combinations open.

The proofs found two places where the model did not say what TLC checked: the cases of
TranslateRequest, and of four operators of `Configuration`, overlapped and relied on the order in
which TLC tries the arms of a CASE. They are IF/ELSE now, in the order of the code's returns.

`FoldLemmas` has the folds. Over sequences, a FoldLeft is the last element of a trace
(`TraceExists`), so that what each step preserves the fold preserves (`StepByStep`). The sums of the
library are folds, functions chosen by their recursion equation. That the function exists, that it
depends on the summands only and in no order, and that a sum splits over parts, is induction on the
size of a set, as is that sums may be added, multiplied and taken class by class. The library's
induction theorems take an operator; `NatInduct` is the instance that can be cited, from the
well-foundedness of the naturals: a set of naturals closed under + 1 is all of them.

The assumptions are the ASSUMEs of the modules: distinct null values, functions and numbers of
the right kind, two slots, keys that are a provider and a name, of which no provider is the "nobody"
the dashboard is asked for in vain. TLC evaluates them in the runs.

Only model-checked: the liveness properties (RequestsEnd, ActiveComesBack, DeployEnds,
RequestsAnswered, AnswerEnds), which need fairness and ENABLED; RoutesReach, which compares the
leaves a recursive expansion finds with a definition of them by paths, an induction over the data
of the four files; ReferencesKept, which is about renames by segment and fails for names of some
depth (section 6, 9); and the types of `Services`, which bound its counters.

## 5. What the runs found

- `quota`: usage is recorded under "provider/key" and looked up by the bare name of the key, so
  a key with a daily quota never reaches it (QuotaRespected), and a pick by usage sees zero for
  every key.
- `stream_messages`: the translator writes response.created without the "type" the Messages
  translator looks for, so a Messages client of a chat upstream gets no message_start
  (StartsFirst).

## 6. What the modules contain and no run keeps

These are consequences of the code that the modules show, by TLC or by the shape of a translated
definition, without a run of their own. Of the first five and of the eighth, the property and the
instance that show each are named, so that the trace can be had again. Several are plainly meant;
they are here because a reader of the properties must know what they do not say.

1. The breaker freezes the only key of a pool right after handle_connect_failure has exempted it
   (failure.rs:444, :571), whose comment says the next request tries again. `SoleKeyOpen` in
   `RequestLoop`, a pool of one key, replies ok and connect error.
2. cleanup deletes rows by key name (state_store.rs:204), and so deletes the later freeze the
   other slot has stored: a restart then forgets it. `RowsKept` of `SharedStore` with FALSE for
   its conclusion, two backends and one key; as it stands it says what remains true, that nothing
   but such a sweep cuts a freeze short.
3. apply_delta leaves the hash on an entry whose items it has taken out (delta.rs:288); a copy of
   the same body passes the check and goes upstream with a truncated context. `NeverWrong` of
   `DeltaLink`, what delta-context.ts:12 promises ("any inconsistency degrades to a full resend, the
   wrong context is never sent silently"), in the instance of `delta_concurrent`.
4. A full resend moves the extension's baseline, not its token, and marks nothing as pending
   (delta-context.ts:145); if its answer is lost the next delta extends the wrong context.
   `NeverWrong` in the instance of `delta_handoff`. ContextExact excuses a client from the moment
   either of these two has happened to it (`strayed`) until it starts over, and nobody else.
5. The deploy script chooses its target before it waits for the lock (hot-deploy-router.py:430)
   and then restarts the slot that has become active. `SparesActive` of `Deployment`, two one-shot
   sessions.
6. The loop that translates a chat upstream splits each chunk into lines by itself, so a data
   line torn by a chunk's end is dropped, with the text it carried. Faithful of `ResponseStream`
   with that mode in `TornModes`.
7. A stream that breaks after its terminal event gets an error event behind it. An upstream that
   ends while the passthrough guard still buffers gives an empty answer with status 200. The
   answer is put into the ring behind the last yield, so a client that leaves before it is polled
   once more leaves nothing to go on from. A failed answer becomes "end_turn" for a Messages
   client. StoredAsTold and TruncationTold say what holds beside these.
8. Translations. That "what cannot be kept, a file or an unknown type of item, returns an error,
   lest content be dropped silently" (responses request.rs:13) is not so: an unknown item without
   content is skipped (:187), as are the calls of built-in tools (:172, with a comment that says
   so), and the Messages side skips blocks it does not know (anthropic request.rs:235).
   `UnknownRefused` of `Conversation` states the promise, TLC finds it violated in the instance of
   `conversation`. Chat completions demands the results of a message's calls right behind it; two
   function_calls of a turn become two assistant messages with both results behind the second
   (request.rs:141), and instructions come between the answer gone on from and its results:
   `ResultsAtOnce` is violated in the same instance. A non-streamed answer that was cut short is
   told "completed" (responses response.rs:165), and so "end_turn" to a Messages client.
   Conversations: what is gone on from is the last answer alone, not the conversation before it;
   instructions do not come first when a request goes on from an answer; a previous_response_id that
   is unknown is a 400 on a mixed route; an answer of nothing but streamed reasoning leaves nothing
   to go on from.
9. Renaming the provider of a model whose own name has a slash cuts that name at its next slash
   (mutate.rs:47): the routes that named it dangle. ReferencesKept of `Configuration` with
   `DeepFiles` in `MCServices`.
10. Other edits of the configuration: a rename does not touch the virtual mappings; deleting a
    mapping is not guarded by its uses; deleting a logical model may leave a file the next start
    refuses; files are written in place and one after another, so that a crash leaves a broken or
    a half renamed set, and a broken mapping file is read as empty and then overwritten. Migration
    looks one level deep, and the strategy of an outer pool is ignored when its first target is a
    pool. ReferencesKept excuses the crashed and the virtual ones by name.
11. Web search: "auto" goes to the pool where its comment promises the browser first; a client
    that leaves, or a close that fails, leaves a tab open (TabsReturned counts those); an update
    reads and writes in two lock sections and may overwrite another.
12. Usage and traffic: grouping overwrites a group that is itself named "other"
    (usage_store.rs:640); an upstream that reports more cached than prompt tokens is believed
    (usage_store.rs:716), and since what was not cached is cut off at zero in each bucket (:729) the
    uncached tokens and the costs of the parts then exceed those of the total, which is why
    DashboardAddsUp asks for `plausible` there; requests in flight overshoot a quota; a session is
    evicted from the traffic table by when it came, not by when it was last active.
13. DNS: an update that turns the overrides off is reported as applied while the resolver goes
    on; the other slot sees an update only at its restart; a lookup in flight refills the cache
    that was cleared, which NamesFresh allows while `saving` says so.
14. Error rules: the file replaces the built-in templates instead of being merged with them, and
    one without a default makes every failure transient. A quota reply without a reset time leaves
    its key unfrozen.
15. The watcher takes its first snapshot after the files were loaded (hot_reload.rs:47): a write
    between them goes unnoticed until the next one.
16. The manager may stop a slot that became active after its sample (ActiveComesBack shows the
    slot is started again); a request may enter a slot between the decision to stop it and SIGTERM;
    a stage that raises leaves a lock only a forced release can free.

## 7. Plan

Done: `RouterState` and `RequestLoop`, `SharedStore`, `DeltaCache` and `DeltaLink`, `Deployment`,
`ResponseStream` refining `ResponseProtocol`, `Translation` and `Conversation`, `Configuration`,
`FailureRules`, `NameResolution`, `Selection` and `Usage`, `Traffic`, `WebSearch`, and the proofs
of section 4, that refinement among them. What is left, in order:

1. `KeyHealth`: an abstract specification of one pool (a key is open, resting or retired) that
   `RequestLoop` refines; bindings and ladder rows in `SharedStore`.
2. The bootstrap of a machine, and the races of the lock file itself between two processes that
   acquire it; `Deployment` takes acquiring as one step, as the flock makes it.

## 8. Not modelled

- Session fingerprint: a pure function of a request with no state; a session here is an
  identifier.
- Authentication, the reading views of the dashboard, the React frontend, recent errors: they
  change nothing another part reads.
- Operator tools, client exports, the single-file configuration of old, schema upgrades: run
  once, by hand, on files nobody else writes meanwhile.
- DNS packets, the scraping of search pages, prices, latencies: formats and numbers of others.
- Wording, layout and header details of messages; TLS, HTTP framing and timeouts inside the
  libraries, which appear as the outcomes a call may have.
