---------------------------- MODULE Services_proofs ---------------------------
(***************************************************************************)
(* Proofs about the parts that share no state, for any sizes, files,       *)
(* configurations and lengths of time: each part alone, and then the       *)
(* properties of their composition.                                        *)
(***************************************************************************)
EXTENDS Services, Sequences, FoldLemmas

-------------------------------------------------------------------------------
(* A step of the composition is one of a part, or the part stands still. *)

\* A step of the composition is, for every part, a step of it or none.
LEMMA Alone ==
  ASSUME [Next]_vars
  PROVE  /\ [Sharing!Next]_Sharing!vars /\ [Configuring!Next]_Configuring!vars
         /\ [Counting!Next]_Counting!vars /\ [Searching!Next]_Searching!vars
         /\ [Judging!Next]_Judging!vars /\ [Naming!Next]_Naming!vars
         /\ [Using!Next]_Using!vars
<1> USE DEF vars, freezes, configuration, usage, traffic, web, judging, naming,
            Sharing!vars, Configuring!vars, Counting!vars, Searching!vars, Judging!vars,
            Naming!vars, Using!vars
<1>1. CASE FreezesStep \/ ConfigurationStep \/ UsageStep \/ TrafficStep
  BY <1>1 DEF FreezesStep, ConfigurationStep, UsageStep, TrafficStep
<1>2. CASE WebStep \/ RulesStep \/ NamesStep
  BY <1>2 DEF WebStep, RulesStep, NamesStep
<1>3. CASE UNCHANGED vars
  BY <1>3
<1>. QED
  BY <1>1, <1>2, <1>3 DEF Next

-------------------------------------------------------------------------------
(* Name resolution *)

\* An update under way knows its content until it is through: what NamesFresh needs to
\* be inductive, for Replace and Clear say only what becomes of `at'.
UpdateOK ==
  update \in {Naming!NoUpdate} \cup [at : {"resolver", "cache", "file"}, content : NameContents]

NamesInv == UpdateOK /\ Naming!NamesFresh

\* What a lookup stores is of the configuration in force, or marked.
LEMMA StoredFresh ==
  ASSUME NEW l, NEW address,
         \A h \in DOMAIN cache : cache[h].generation = updates \/ cache[h].overtaken
  PROVE  \A h \in DOMAIN Naming!Stored(l, address) :
           \/ Naming!Stored(l, address)[h].generation = updates
           \/ Naming!Stored(l, address)[h].overtaken
BY DEF Naming!Stored

\* The cache of names starts empty.
LEMMA NamesInit == Naming!Init => NamesInv
BY DEF Naming!Init, NamesInv, UpdateOK, Naming!NamesFresh, Naming!NoUpdate

\* Every step of a lookup, an update or the clock keeps NamesInv.
LEMMA NamesKept == NamesInv /\ [Naming!Next]_Naming!vars => NamesInv'
<1> SUFFICES ASSUME NamesInv, [Naming!Next]_Naming!vars PROVE NamesInv'
  OBVIOUS
<1> USE DEF NamesInv, UpdateOK, Naming!NamesFresh
<1>1. ASSUME NEW w \in Lookups, NEW host \in Hosts, Naming!Hit(w, host) \/ Naming!Miss(w, host)
      PROVE  NamesInv'
  BY <1>1 DEF Naming!Hit, Naming!Miss
<1>2. ASSUME NEW w \in Lookups, Naming!ReadConfig(w) \/ Naming!Done(w)
      PROVE  NamesInv'
  BY <1>2 DEF Naming!ReadConfig, Naming!Done
<1>3. ASSUME NEW w \in Lookups, Naming!AskServer(w) \/ Naming!TakeStatic(w) \/ Naming!AskSystem(w)
      PROVE  NamesInv'
  <2>1. UNCHANGED <<update, updates>>
    BY <1>3 DEF Naming!AskServer, Naming!TakeStatic, Naming!AskSystem
  <2>2. CASE UNCHANGED cache
    BY <2>1, <2>2
  <2>3. CASE \E address : cache' = Naming!Stored(lookup[w], address)
    BY <2>1, <2>3, StoredFresh
  <2>. QED
    BY <1>3, <2>2, <2>3 DEF Naming!AskServer, Naming!TakeStatic, Naming!AskSystem
<1>4. ASSUME NEW content \in NameContents, Naming!Begin(content)
      PROVE  NamesInv'
  BY <1>4 DEF Naming!Begin, Naming!NoUpdate
<1>5. CASE Naming!Replace
  BY <1>5 DEF Naming!Replace, Naming!NoUpdate
<1>6. CASE Naming!Clear
  <2>1. DOMAIN cache' = {}
    BY <1>6 DEF Naming!Clear
  <2>2. UpdateOK'
    BY <1>6 DEF Naming!Clear, Naming!NoUpdate
  <2>. QED
    BY <2>1, <2>2
<1>7. CASE Naming!WriteFile
  BY <1>7 DEF Naming!WriteFile, Naming!NoUpdate
<1>8. CASE Naming!Restart
  <2>1. DOMAIN cache' = {} /\ update' = Naming!NoUpdate
    BY <1>8 DEF Naming!Restart, Naming!Started
  <2>. QED
    BY <2>1
<1>9. CASE Naming!Tick \/ UNCHANGED Naming!vars
  BY <1>9 DEF Naming!Tick, Naming!vars
<1>. QED
  BY <1>1, <1>2, <1>3, <1>4, <1>5, <1>6, <1>7, <1>8, <1>9 DEF Naming!Next

\* NamesFresh holds of any number of lookups that race any updates: the two locks of
\* update_config, taken one after the other, leave nothing of the old configuration in
\* the cache.  (dns_override.rs:170)
THEOREM NamesAreFresh == Spec => []NamesFresh
<1>1. Init => NamesInv
  BY NamesInit DEF Init
<1>2. NamesInv /\ [Next]_vars => NamesInv'
  BY Alone, NamesKept
<1>3. NamesInv => NamesFresh
  BY DEF NamesInv, NamesFresh
<1>. QED
  BY <1>1, <1>2, <1>3, PTL DEF Spec

-------------------------------------------------------------------------------
(* The rules of failures *)

\* A backend with nothing left to look at has the rules of the file itself, not only
\* ones that judge alike; and every backend has an entry.
RulesInv ==
  /\ DOMAIN rules = JudgingSlots /\ DOMAIN putting = JudgingSlots
  /\ \A s \in JudgingSlots :
       Judging!Running(s) /\ s \notin unseen \cup seen /\ putting[s] = Judging!Nothing /\ Judging!Loads =>
         rules[s] = Judging!Loaded

\* Backends start with the rules of their file.
LEMMA RulesInit == Judging!Init => RulesInv
BY DEF Judging!Init, RulesInv, Judging!OnStart

\* Every edit, reload, crash and start keeps RulesInv.
LEMMA RulesKept == RulesInv /\ [Judging!Next]_Judging!vars => RulesInv'
<1> SUFFICES ASSUME RulesInv, [Judging!Next]_Judging!vars PROVE RulesInv'
  OBVIOUS
<1> USE DEF RulesInv, Judging!Running, Judging!Loads, Judging!Loaded
<1>1. ASSUME NEW s \in JudgingSlots, NEW content \in RuleContents, Judging!PutBegins(s, content)
      PROVE  RulesInv'
  BY <1>1 DEF Judging!PutBegins
<1>2. ASSUME NEW s \in JudgingSlots, Judging!PutEnds(s)
      PROVE  RulesInv'
  BY <1>2 DEF Judging!PutEnds
<1>3. ASSUME NEW content, Judging!HandEdit(content)
      PROVE  RulesInv'
  BY <1>3 DEF Judging!HandEdit
<1>4. ASSUME NEW s \in JudgingSlots, Judging!Notice(s)
      PROVE  RulesInv'
  BY <1>4 DEF Judging!Notice
<1>5. ASSUME NEW s \in JudgingSlots, Judging!HotReload(s)
      PROVE  RulesInv'
  BY <1>5 DEF Judging!HotReload, Judging!Reloaded
<1>6. ASSUME NEW s \in JudgingSlots, Judging!Crash(s)
      PROVE  RulesInv'
  BY <1>6 DEF Judging!Crash
<1>7. ASSUME NEW s \in JudgingSlots, Judging!Start(s)
      PROVE  RulesInv'
  BY <1>7 DEF Judging!Start, Judging!OnStart
<1>8. CASE UNCHANGED Judging!vars
  BY <1>8 DEF Judging!vars
<1>. QED
  BY <1>1, <1>2, <1>3, <1>4, <1>5, <1>6, <1>7, <1>8 DEF Judging!Next

-------------------------------------------------------------------------------
(* The configuration *)

\* A backend that has nothing left to look at serves its files, at an edit too: what it
\* writes its own watcher sees as well.  The files stay the four.
ConfigInv ==
  /\ disk = [f \in Configuring!Files |-> disk[f]]
  /\ DOMAIN config = ConfiguredSlots /\ DOMAIN stale = ConfiguredSlots
  /\ \A s \in ConfiguredSlots :
       /\ Configuring!Running(s) /\ stale[s] = {} /\ s \notin noticed
       /\ Configuring!Loadable(disk)
       => config[s] = Configuring!Unvalidated(disk)

\* Backends start with what their files say.
LEMMA ConfigInit == Configuring!Init => ConfigInv
BY FilesAssumption DEF Configuring!Init, ConfigInv, Configuring!Files

\* Only what is written wakes a watcher, and that wakes every one.
LEMMA Woken ==
  ASSUME NEW written, stale' = Configuring!Wrote(written)
  PROVE  /\ DOMAIN stale' = ConfiguredSlots
         /\ \A s \in ConfiguredSlots : stale'[s] = {} =>
              stale[s] = {} /\ written \cap Configuring!Files = {}
BY DEF Configuring!Wrote, Configuring!WatchPaths

\* Writing a file keeps ConfigInv, for it wakes every watcher.
LEMMA Written ==
  ASSUME ConfigInv, NEW name, NEW content,
         disk' = [disk EXCEPT ![name] = content], stale' = Configuring!Wrote({name}),
         UNCHANGED <<config, noticed>>
  PROVE  ConfigInv'
<1>1. disk' = [f \in Configuring!Files |-> disk'[f]]
  BY DEF ConfigInv
<1>2. name \notin Configuring!Files => disk' = disk
  BY DEF ConfigInv
<1>3. ASSUME NEW s \in ConfiguredSlots, stale'[s] = {}
      PROVE  stale[s] = {} /\ disk' = disk
  BY <1>2, <1>3, Woken
<1>4. DOMAIN stale' = ConfiguredSlots
  BY Woken
<1>. QED
  BY <1>1, <1>3, <1>4 DEF ConfigInv, Configuring!Running

\* So does loading them again: it writes what it migrates.
LEMMA Reloaded ==
  ASSUME ConfigInv, NEW s \in ConfiguredSlots, Configuring!Reload(s),
         noticed \subseteq noticed' \cup {s}
  PROVE  ConfigInv'
<1> DEFINE d == Configuring!Migrate(disk)
<1>1. /\ disk' = d
      /\ stale' = Configuring!Wrote({f \in Configuring!Files : d[f] # disk[f]})
      /\ config' = IF Configuring!Loadable(disk)
                   THEN [config EXCEPT ![s] = Configuring!Unvalidated(disk)] ELSE config
  BY DEF Configuring!Reload
<1>2. d = [f \in Configuring!Files |-> d[f]]
  BY DEF Configuring!Migrate, ConfigInv
<1>. HIDE DEF d
<1>3. ASSUME NEW t \in ConfiguredSlots, stale'[t] = {}
      PROVE  stale[t] = {} /\ disk' = disk
  <2>1. {f \in Configuring!Files : d[f] # disk[f]} \cap Configuring!Files = {} /\ stale[t] = {}
    BY <1>1, <1>3, Woken
  <2>. QED
    BY <1>1, <1>2, <2>1 DEF ConfigInv
<1>4. DOMAIN stale' = ConfiguredSlots
  BY <1>1, Woken
<1>5. ASSUME NEW t \in ConfiguredSlots, stale'[t] = {}, t \notin noticed', Configuring!Running(t)',
             Configuring!Loadable(disk')
      PROVE  config'[t] = Configuring!Unvalidated(disk')
  <2>1. stale[t] = {} /\ disk' = disk
    BY <1>3, <1>5
  <2>2. CASE t = s
    BY <1>1, <1>5, <2>1, <2>2 DEF ConfigInv
  <2>3. CASE t # s
    BY <1>1, <1>5, <2>1, <2>3 DEF ConfigInv, Configuring!Running
  <2>. QED
    BY <2>2, <2>3
<1>6. disk' = [f \in Configuring!Files |-> disk'[f]]
  BY <1>1, <1>2
<1>7. DOMAIN config' = ConfiguredSlots
  BY <1>1 DEF ConfigInv
<1>. QED
  BY <1>4, <1>5, <1>6, <1>7 DEF ConfigInv

\* Every edit, reload, crash and start keeps ConfigInv.
LEMMA ConfigKept == ConfigInv /\ [Configuring!Next]_Configuring!vars => ConfigInv'
<1> SUFFICES ASSUME ConfigInv, [Configuring!Next]_Configuring!vars PROVE ConfigInv'
  OBVIOUS
<1>1. ASSUME NEW s \in ConfiguredSlots, NEW r \in Requests, Configuring!Edit(s, r)
      PROVE  ConfigInv'
  <2>1. ASSUME NEW e, Configuring!Begin(s, e)
        PROVE  UNCHANGED <<disk, config, stale, noticed>>
    BY <2>1 DEF Configuring!Begin
  <2>2. UNCHANGED <<disk, config, stale, noticed>>
    BY <1>1, <2>1 DEF Configuring!Edit
  <2>. QED
    BY <2>2 DEF ConfigInv, Configuring!Running
<1>2. ASSUME NEW s \in ConfiguredSlots, Configuring!Truncate(s) \/ Configuring!Fill(s)
      PROVE  ConfigInv'
  BY <1>2, Written DEF Configuring!Truncate, Configuring!Fill
<1>3. ASSUME NEW s \in ConfiguredSlots,
             Configuring!Finish(s) \/ Configuring!HotReload(s) \/ Configuring!Start(s)
      PROVE  ConfigInv'
  <2>1. Configuring!Reload(s) /\ noticed \subseteq noticed' \cup {s}
    BY <1>3 DEF Configuring!Finish, Configuring!HotReload, Configuring!Start
  <2>. QED
    BY <2>1, Reloaded
<1>4. ASSUME NEW s \in ConfiguredSlots, Configuring!GiveUp(s)
      PROVE  ConfigInv'
  BY <1>4 DEF Configuring!GiveUp, ConfigInv, Configuring!Running
<1>5. ASSUME NEW s \in ConfiguredSlots, Configuring!Notice(s)
      PROVE  ConfigInv'
  BY <1>5 DEF Configuring!Notice, ConfigInv, Configuring!Running
<1>6. ASSUME NEW s \in ConfiguredSlots, Configuring!Crash(s)
      PROVE  ConfigInv'
  BY <1>6 DEF Configuring!Crash, ConfigInv, Configuring!Running
<1>7. ASSUME NEW f \in Configuring!Files, Configuring!StartSaving(f)
      PROVE  ConfigInv'
  BY <1>7, Written DEF Configuring!StartSaving
<1>8. CASE Configuring!Save
  BY <1>8, Written DEF Configuring!Save
<1>9. CASE UNCHANGED Configuring!vars
  BY <1>9 DEF Configuring!vars, ConfigInv, Configuring!Running
<1>. QED
  BY <1>1, <1>2, <1>3, <1>4, <1>5, <1>6, <1>7, <1>8, <1>9 DEF Configuring!Next

\* Converged holds whatever the orders of edits, writes of an operator, polls, loads that
\* fail, crashes and starts, with any files and any requests of the dashboard: the watcher
\* may move its snapshot before it reloads, for a reload that fails means that a file is
\* broken, and making it whole is another change.  (hot_reload.rs:64, state/v2.rs:760)
THEOREM BackendsConverge == Spec => []Converged
<1>1. Init => ConfigInv /\ RulesInv
  BY ConfigInit, RulesInit DEF Init
<1>2. ConfigInv /\ RulesInv /\ [Next]_vars => (ConfigInv /\ RulesInv)'
  BY Alone, ConfigKept, RulesKept
<1>3. ConfigInv => Configuring!Converged
  BY DEF ConfigInv, Configuring!Converged
<1>4. RulesInv => Judging!Converged
  BY DEF RulesInv, Judging!Converged
<1>5. ConfigInv /\ RulesInv => Converged
  BY <1>3, <1>4 DEF Converged
<1>. QED
  BY <1>1, <1>2, <1>5, PTL DEF Spec

-------------------------------------------------------------------------------
(* Freezes *)

FreezesInv ==
  /\ clock \in Nat
  /\ frozen \in [Backends -> [FreezeKeys -> Nat]]
  /\ frozenRows \in [FreezeKeys -> Nat]

\* Nothing is frozen at the start.
LEMMA FreezesInit == Sharing!Init => FreezesInv
BY DEF Sharing!Init, FreezesInv

\* Freezing, sweeping, reloading and time keep the types.
LEMMA FreezesKept ==
  ASSUME Durations \subseteq Nat, FreezesInv, [Sharing!Next]_Sharing!vars
  PROVE  FreezesInv'
<1> USE DEF FreezesInv
<1>1. ASSUME NEW p \in Backends, NEW k \in FreezeKeys, NEW duration \in Durations,
             Sharing!Freeze(p, k, duration)
      PROVE  FreezesInv'
  <2>1. clock + duration \in Nat
    OBVIOUS
  <2>2. Sharing!FreezeAll(frozen[p], {k}, clock + duration) \in [FreezeKeys -> Nat]
    BY <2>1 DEF Sharing!FreezeAll
  <2>3. Sharing!StoreFreezeAll(frozenRows, frozen[p], {k}, clock + duration) \in [FreezeKeys -> Nat]
    BY <2>1 DEF Sharing!StoreFreezeAll
  <2>. QED
    BY <1>1, <2>2, <2>3 DEF Sharing!Freeze
<1>2. ASSUME NEW p \in Backends, Sharing!Sweep(p)
      PROVE  FreezesInv'
  <2>1. Sharing!Thaw(frozen[p], clock) \in [FreezeKeys -> Nat]
    BY DEF Sharing!Thaw
  <2>2. Sharing!StoreThaw(frozenRows, frozen[p], clock) \in [FreezeKeys -> Nat]
    BY DEF Sharing!StoreThaw
  <2>. QED
    BY <1>2, <2>1, <2>2 DEF Sharing!Sweep
<1>3. ASSUME NEW p \in Backends, Sharing!Restart(p)
      PROVE  FreezesInv'
  <2>1. Sharing!Thaw(frozenRows, clock) \in [FreezeKeys -> Nat]
    BY DEF Sharing!Thaw
  <2>. QED
    BY <1>3, <2>1 DEF Sharing!Restart
<1>4. CASE Sharing!Tick \/ UNCHANGED Sharing!vars
  BY <1>4 DEF Sharing!Tick, Sharing!vars
<1>. QED
  BY <1>1, <1>2, <1>3, <1>4 DEF Sharing!Next

\* A row that is not over gets an earlier end by a sweep alone.
LEMMA OnlySweepsShorten ==
  ASSUME Durations \subseteq Nat, FreezesInv, Sharing!Next, NEW k \in FreezeKeys,
         frozenRows'[k] < frozenRows[k]
  PROVE  \E p \in Backends : Sharing!Sweep(p) /\ 0 < frozen[p][k] /\ frozen[p][k] <= clock
<1> USE DEF FreezesInv
<1>1. ASSUME NEW p \in Backends, NEW j \in FreezeKeys, NEW duration \in Durations,
             Sharing!Freeze(p, j, duration)
      PROVE  FALSE
  <2>1. clock + duration \in Nat
    OBVIOUS
  <2>2. frozenRows'[k] >= frozenRows[k]
    BY <1>1, <2>1 DEF Sharing!Freeze, Sharing!StoreFreezeAll
  <2>. QED
    BY <2>1, <2>2, <1>1 DEF Sharing!Freeze, Sharing!StoreFreezeAll
<1>2. ASSUME NEW p \in Backends, Sharing!Sweep(p)
      PROVE  0 < frozen[p][k] /\ frozen[p][k] <= clock
  BY <1>2 DEF Sharing!Sweep, Sharing!StoreThaw
<1>3. ASSUME NEW p \in Backends, Sharing!Restart(p) \/ Sharing!Tick
      PROVE  FALSE
  BY <1>3 DEF Sharing!Restart, Sharing!Tick
<1>4. ~Sharing!Tick
  BY DEF Sharing!Tick
<1>. QED
  BY <1>1, <1>2, <1>3, <1>4 DEF Sharing!Next

\* RowsKept holds of any number of backends: the WHERE of the upsert and the reload at a
\* start never lose a freeze that another process stored; the sweep by name is the only
\* way.  (state_store.rs:82, state/mod.rs:185)
THEOREM RowsAreKept == Spec => RowsKept
<1>1. Init => FreezesInv
  BY FreezesInit DEF Init
<1>2. FreezesInv /\ [Next]_vars => FreezesInv'
  BY Alone, FreezesKept, DurationsAssumption
<1>3. FreezesInv /\ [Next]_vars =>
        [\A k \in FreezeKeys :
           frozenRows'[k] < frozenRows[k] /\ frozenRows[k] > clock =>
             \E p \in Backends :
               Sharing!Sweep(p) /\ 0 < frozen[p][k] /\ frozen[p][k] <= clock]_Sharing!vars
  BY Alone, OnlySweepsShorten, DurationsAssumption
<1>. QED
  BY <1>1, <1>2, <1>3, PTL DEF Spec, RowsKept, Sharing!RowsKept

-------------------------------------------------------------------------------
(* Traffic *)

Amounts == [up : Nat, down : Nat]

\* Traffic adds with the SumFunctionOnSet of its own instance.
LEMMA SameSum == \A f, S : Counting!SumFunctionOnSet(f, S) = SumFunctionOnSet(f, S)
BY Zenon DEF Counting!SumFunctionOnSet, Counting!FoldFunctionOnSet, Counting!MapThenFoldSet,
             SumFunctionOnSet, FoldFunctionOnSet, MapThenFoldSet

\* Nothing sums up to nothing.
LEMMA SummedEmpty ==
  ASSUME NEW f
  PROVE  Counting!Summed(f, {}) = Counting!Zero
BY SameSum, SumEmpty DEF Counting!Summed, Counting!Zero, Counting!Bytes

\* What Counting!Summed is, for functions into Amounts.
LEMMA SummedIs ==
  ASSUME NEW f, NEW S
  PROVE  Counting!Summed(f, S) =
           [up |-> SumFunctionOnSet([i \in DOMAIN f |-> f[i].up], S),
            down |-> SumFunctionOnSet([i \in DOMAIN f |-> f[i].down], S)]
BY SameSum, Zenon DEF Counting!Summed, Counting!Bytes

\* A sum depends on the summands only.
LEMMA SummedSame ==
  ASSUME NEW f, NEW g, NEW S, IsFiniteSet(S),
         \A i \in S : i \in DOMAIN f /\ i \in DOMAIN g /\ f[i] = g[i]
  PROVE  Counting!Summed(f, S) = Counting!Summed(g, S)
<1> DEFINE fu == [i \in DOMAIN f |-> f[i].up]
           fd == [i \in DOMAIN f |-> f[i].down]
           gu == [i \in DOMAIN g |-> g[i].up]
           gd == [i \in DOMAIN g |-> g[i].down]
<1>1. \A i \in S : fu[i] = gu[i] /\ fd[i] = gd[i]
  OBVIOUS
<1>2. Counting!Summed(f, S) = [up |-> SumFunctionOnSet(fu, S), down |-> SumFunctionOnSet(fd, S)]
  BY SummedIs
<1>3. Counting!Summed(g, S) = [up |-> SumFunctionOnSet(gu, S), down |-> SumFunctionOnSet(gd, S)]
  BY SummedIs
<1>. HIDE DEF fu, fd, gu, gd
<1>. QED
  BY <1>1, <1>2, <1>3, SumCongruent

\* One more summand.
LEMMA SummedAdd ==
  ASSUME NEW f, NEW S, IsFiniteSet(S), NEW x, x \notin S,
         \A i \in S \cup {x} : i \in DOMAIN f /\ f[i] \in Amounts
  PROVE  Counting!Summed(f, S \cup {x}) = Counting!Plus(Counting!Summed(f, S), f[x])
<1> DEFINE fu == [i \in DOMAIN f |-> f[i].up]
           fd == [i \in DOMAIN f |-> f[i].down]
           T == S \cup {x}
<1>1. /\ \A i \in T : fu[i] \in Int /\ fd[i] \in Int
      /\ fu[x] = f[x].up /\ fd[x] = f[x].down
  BY DEF Amounts
<1>2. Counting!Summed(f, T) = [up |-> SumFunctionOnSet(fu, T), down |-> SumFunctionOnSet(fd, T)]
  BY SummedIs
<1>3. Counting!Summed(f, S) = [up |-> SumFunctionOnSet(fu, S), down |-> SumFunctionOnSet(fd, S)]
  BY SummedIs
<1>4. IsFiniteSet(T) /\ x \in T /\ T \ {x} = S
  BY FS_AddElement
<1>. HIDE DEF fu, fd, T
<1>5. /\ SumFunctionOnSet(fu, T) = fu[x] + SumFunctionOnSet(fu, S)
      /\ SumFunctionOnSet(fd, T) = fd[x] + SumFunctionOnSet(fd, S)
  BY <1>1, <1>4, SumRemove
<1>6. SumFunctionOnSet(fu, S) \in Int /\ SumFunctionOnSet(fd, S) \in Int
  BY <1>1, <1>4, SumType
<1>7. Counting!Summed(f, T) = Counting!Plus(Counting!Summed(f, S), f[x])
  BY <1>1, <1>2, <1>3, <1>4, <1>5, <1>6 DEF Counting!Plus, Counting!Bytes
<1>. QED
  BY <1>7 DEF T

\* A sum is the sum of the sums of its parts: c tells the part of each summand.
LEMMA SummedParts ==
  ASSUME NEW f, NEW S, IsFiniteSet(S), \A i \in S : i \in DOMAIN f /\ f[i] \in Amounts,
         NEW c, NEW I, IsFiniteSet(I)
  PROVE  Counting!Summed([i \in I |-> Counting!Summed(f, {x \in S : c[x] = i})], I)
           = Counting!Summed(f, {x \in S : c[x] \in I})
<1> DEFINE fu == [i \in DOMAIN f |-> f[i].up]
           fd == [i \in DOMAIN f |-> f[i].down]
           Of(i) == {x \in S : c[x] = i}
           g == [i \in I |-> Counting!Summed(f, Of(i))]
           gu == [i \in DOMAIN g |-> g[i].up]
           gd == [i \in DOMAIN g |-> g[i].down]
<1>1. \A i \in S : fu[i] \in Int /\ fd[i] \in Int
  BY DEF Amounts
<1>2. \A T : Counting!Summed(f, T) = [up |-> SumFunctionOnSet(fu, T), down |-> SumFunctionOnSet(fd, T)]
  BY SummedIs
<1>3. Counting!Summed(g, I) = [up |-> SumFunctionOnSet(gu, I), down |-> SumFunctionOnSet(gd, I)]
  BY SummedIs
<1>. HIDE DEF fu, fd, Of
<1>4. /\ gu = [i \in I |-> SumFunctionOnSet(fu, Of(i))]
      /\ gd = [i \in I |-> SumFunctionOnSet(fd, Of(i))]
  BY <1>2
<1>5. /\ SumFunctionOnSet(gu, I) = SumFunctionOnSet(fu, {x \in S : c[x] \in I})
      /\ SumFunctionOnSet(gd, I) = SumFunctionOnSet(fd, {x \in S : c[x] \in I})
  <2>. HIDE DEF gu, gd
  <2>. QED
    BY <1>1, <1>4, SumParts DEF Of
<1>. HIDE DEF g, gu, gd
<1>6. Counting!Summed(g, I) = Counting!Summed(f, {x \in S : c[x] \in I})
  BY <1>2, <1>3, <1>5
<1>. QED
  BY <1>6 DEF g, Of

\* Two seconds of one round of the ring have one bucket only if they are one.
LEMMA OneRound ==
  ASSUME NEW n \in Nat \ {0}, NEW a \in Nat, NEW b \in Nat, a <= b, b < a + n, a % n = b % n
  PROVE  a = b
<1> DEFINE p == a \div n
           q == b \div n
<1>1. a = n * p + (a % n) /\ b = n * q + (b % n) /\ p \in Int /\ q \in Int /\ a % n \in Int
  OBVIOUS
<1>. HIDE DEF p, q
<1>2. 0 <= n * (q - p) /\ n * (q - p) < n /\ n * (q - p) = b - a
  BY <1>1
<1>3. ~(q - p >= 1)
  <2>. SUFFICES ASSUME q - p >= 1 PROVE FALSE
    OBVIOUS
  <2>1. n * (q - p) >= n
    BY <1>1
  <2>. QED
    BY <1>1, <1>2, <2>1
<1>4. ~(q - p <= -1)
  <2>. SUFFICES ASSUME q - p <= -1 PROVE FALSE
    OBVIOUS
  <2>1. n * (q - p) <= 0 - n
    BY <1>1
  <2>. QED
    BY <1>1, <1>2, <2>1
<1>5. q - p = 0
  BY <1>1, <1>3, <1>4
<1>. QED
  BY <1>1, <1>2, <1>5

\* A second has its bucket.
LEMMA Slot ==
  ASSUME NEW a \in Nat
  PROVE  a % Buckets \in 0 .. (Buckets - 1)
BY BucketsAssumption

BytesIn(h) == [i \in DOMAIN h |-> h[i].bytes]

\* A ring and a total that know the entries `known' of the history h at the second t.  A
\* bucket holds all that is known of its second, though it be long past; the last round of
\* the known has its buckets still.
Entries(known, h, t) ==
  /\ IsFiniteSet(known) /\ known \subseteq DOMAIN h
  /\ \A j \in known : h[j].at \in Nat \ {0} /\ h[j].at <= t /\ h[j].bytes \in Amounts

Exact(ring, sum, known, h, t) ==
  /\ Entries(known, h, t)
  /\ DOMAIN ring = 0 .. (Buckets - 1)
  /\ \A i \in DOMAIN ring :
       /\ ring[i].sec \in 0 .. t
       /\ ring[i].sec # 0 => ring[i].sec % Buckets = i
       /\ ring[i].bytes =
            Counting!Summed(BytesIn(h), {j \in known : h[j].at = ring[i].sec})
  /\ \A j \in known :
       h[j].at + Buckets > t => ring[h[j].at % Buckets].sec = h[j].at
  /\ sum = Counting!Summed(BytesIn(h), known)

\* A new ring knows nothing, and shows nothing.
LEMMA ExactNew ==
  ASSUME NEW h, NEW t \in Nat
  PROVE  Exact(Counting!NewRing, Counting!Zero, {}, h, t)
<1>1. Entries({}, h, t)
  BY FS_EmptySet DEF Entries
<1>2. \A i : {j \in {} : h[j].at = i} = {}
  OBVIOUS
<1>. QED
  BY <1>1, <1>2, SummedEmpty DEF Exact, Counting!NewRing

\* What is appended to the history changes nothing for who need not know it.
LEMMA ExactKept ==
  ASSUME NEW ring, NEW sum, NEW known, NEW h, NEW t, NEW g, Exact(ring, sum, known, h, t),
         \A i \in DOMAIN h : i \in DOMAIN g /\ g[i] = h[i]
  PROVE  Exact(ring, sum, known, g, t)
<1>1. Entries(known, h, t) /\ Entries(known, g, t)
  BY DEF Exact, Entries
<1>2. ASSUME NEW S \in SUBSET known
      PROVE  Counting!Summed(BytesIn(h), S) = Counting!Summed(BytesIn(g), S)
  <2>1. IsFiniteSet(S)
    BY <1>1, FS_Subset DEF Entries
  <2>2. \A i \in S : /\ i \in DOMAIN BytesIn(h) /\ i \in DOMAIN BytesIn(g)
                     /\ BytesIn(h)[i] = BytesIn(g)[i]
    BY <1>1 DEF Entries, BytesIn
  <2>. QED
    BY <2>1, <2>2, SummedSame
<1>3. \A s : {j \in known : h[j].at = s} = {j \in known : g[j].at = s}
  BY <1>1 DEF Entries
<1>4. ASSUME NEW i \in DOMAIN ring
      PROVE  ring[i].bytes =
               Counting!Summed(BytesIn(g), {j \in known : g[j].at = ring[i].sec})
  <2>1. {j \in known : h[j].at = ring[i].sec} \in SUBSET known
    OBVIOUS
  <2>. QED
    BY <1>2, <1>3, <2>1 DEF Exact
<1>5. sum = Counting!Summed(BytesIn(g), known)
  BY <1>2 DEF Exact
<1>6. \A j \in known : g[j] = h[j]
  BY <1>1 DEF Entries
<1>. QED
  BY <1>1, <1>4, <1>5, <1>6 DEF Exact

\* Time alone makes no ring wrong.
LEMMA ExactLater ==
  ASSUME NEW ring, NEW sum, NEW known, NEW h, NEW t \in Nat, Exact(ring, sum, known, h, t)
  PROVE  Exact(ring, sum, known, h, t + 1)
<1>1. Entries(known, h, t + 1)
  BY DEF Exact, Entries
<1>2. \A i \in DOMAIN ring : ring[i].sec \in 0 .. (t + 1)
  <2>1. \A s : s \in 0 .. t => s \in 0 .. (t + 1)
    OBVIOUS
  <2>. QED
    BY <2>1 DEF Exact
<1>3. ASSUME NEW j \in known, h[j].at + Buckets > t + 1
      PROVE  ring[h[j].at % Buckets].sec = h[j].at
  BY <1>3, BucketsAssumption DEF Exact, Entries
<1>. QED
  BY <1>1, <1>2, <1>3 DEF Exact

\* An entry of the second is added to the bucket of the second, which forgets what it had
\* of another one: that is a round old and in no window.
LEMMA ExactAdded ==
  ASSUME NEW ring, NEW sum, NEW known, NEW h, NEW g, NEW n, NEW bytes \in Amounts,
         second \in Nat \ {0}, Exact(ring, sum, known, h, second),
         \A i \in DOMAIN h : i \in DOMAIN g /\ g[i] = h[i],
         n \in DOMAIN g \ DOMAIN h, g[n].at = second, g[n].bytes = bytes
  PROVE  Exact(Counting!Add(ring, bytes), Counting!Plus(sum, bytes), known \cup {n}, g, second)
<1> DEFINE here == second % Buckets
           add == Counting!Add(ring, bytes)
           all == known \cup {n}
           at(i) == {j \in known : g[j].at = ring[i].sec}
<1>1. Exact(ring, sum, known, g, second)
  BY ExactKept
<1>2. Entries(known, g, second) /\ n \notin known
  BY <1>1 DEF Exact, Entries
<1>3. Entries(all, g, second)
  <2>1. IsFiniteSet(all)
    BY <1>2, FS_AddElement DEF Entries
  <2>. QED
    BY <1>2, <2>1 DEF Entries
<1>4. here \in DOMAIN ring
  BY <1>1, Slot DEF Exact
<1>5. /\ DOMAIN add = DOMAIN ring
      /\ \A i \in DOMAIN ring \ {here} : add[i] = ring[i]
      /\ add[here].sec = second
      /\ add[here].bytes = IF ring[here].sec = second
                           THEN Counting!Plus(ring[here].bytes, bytes) ELSE bytes
  BY <1>4 DEF Counting!Add
<1>6. ASSUME NEW S \in SUBSET known
      PROVE  Counting!Summed(BytesIn(g), S \cup {n})
               = Counting!Plus(Counting!Summed(BytesIn(g), S), bytes)
  <2>1. IsFiniteSet(S) /\ n \notin S
    BY <1>2, FS_Subset DEF Entries
  <2>2. \A i \in S \cup {n} : i \in DOMAIN BytesIn(g) /\ BytesIn(g)[i] \in Amounts
    BY <1>2 DEF Entries, BytesIn
  <2>3. BytesIn(g)[n] = bytes
    BY DEF BytesIn
  <2>. QED
    BY <2>1, <2>2, <2>3, SummedAdd
<1>. HIDE DEF add
<1>7. ASSUME NEW i \in DOMAIN ring, i # here
      PROVE  {j \in all : g[j].at = add[i].sec} = at(i)
  <2>1. ring[i].sec # second
    BY <1>1, <1>7 DEF Exact
  <2>. QED
    BY <1>2, <1>5, <1>7, <2>1
<1>8. {j \in all : g[j].at = add[here].sec} = {j \in known : g[j].at = second} \cup {n}
  BY <1>5
<1>9. add[here].bytes =
        Counting!Plus(Counting!Summed(BytesIn(g), {j \in known : g[j].at = second}), bytes)
  <2>1. CASE ring[here].sec = second
    BY <1>1, <1>4, <1>5, <2>1 DEF Exact
  <2>2. CASE ring[here].sec # second
    <3>1. ASSUME NEW j \in known, g[j].at = second
          PROVE  FALSE
      BY <1>1, <2>2, <3>1, BucketsAssumption DEF Exact
    <3>2. {j \in known : g[j].at = second} = {}
      BY <3>1
    <3>3. Counting!Plus(Counting!Zero, bytes) = bytes
      BY DEF Counting!Plus, Counting!Zero, Counting!Bytes, Amounts
    <3>. QED
      BY <1>5, <2>2, <3>2, <3>3, SummedEmpty
  <2>. QED
    BY <2>1, <2>2
<1>10. ASSUME NEW i \in DOMAIN add
       PROVE  /\ add[i].sec \in 0 .. second
              /\ add[i].sec # 0 => add[i].sec % Buckets = i
              /\ add[i].bytes = Counting!Summed(BytesIn(g), {j \in all : g[j].at = add[i].sec})
  <2>1. CASE i = here
    <3>1. {j \in known : g[j].at = second} \in SUBSET known
      OBVIOUS
    <3>. QED
      BY <1>5, <1>6, <1>8, <1>9, <2>1, <3>1
  <2>2. CASE i # here
    BY <1>1, <1>5, <1>7, <2>2 DEF Exact
  <2>. QED
    BY <2>1, <2>2
<1>11. ASSUME NEW j \in all, g[j].at + Buckets > second
       PROVE  add[g[j].at % Buckets].sec = g[j].at
  <2>1. CASE j = n
    BY <1>5, <2>1
  <2>2. CASE j # n /\ g[j].at % Buckets # here
    <3>1. g[j].at % Buckets \in DOMAIN ring
      BY <1>1, <1>2, <2>2, Slot DEF Entries, Exact
    <3>. QED
      BY <1>1, <1>5, <1>11, <2>2, <3>1 DEF Exact
  <2>3. CASE j # n /\ g[j].at % Buckets = here
    <3>1. g[j].at = second
      BY <1>2, <1>11, <2>3, OneRound, BucketsAssumption DEF Entries
    <3>. QED
      BY <1>5, <2>3, <3>1
  <2>. QED
    BY <2>1, <2>2, <2>3
<1>12. Counting!Plus(sum, bytes) = Counting!Summed(BytesIn(g), all)
  BY <1>1, <1>6 DEF Exact
<1>13. DOMAIN add = 0 .. (Buckets - 1)
  BY <1>1, <1>5 DEF Exact
<1>. HIDE DEF all
<1>14. Exact(add, Counting!Plus(sum, bytes), all, g, second)
  BY <1>3, <1>10, <1>11, <1>12, <1>13 DEF Exact
<1>. QED
  BY <1>14 DEF add, all

\* What a window shows of such a ring.
LEMMA ExactWindow ==
  ASSUME NEW ring, NEW sum, NEW known, Exact(ring, sum, known, history, second),
         NEW w \in Windows, second \in Nat
  PROVE  Counting!WindowSum(ring, w)
           = Counting!SumOf({i \in known : Counting!InWindow(history[i].at, w)})
<1> DEFINE f == BytesIn(history)
           S == {j \in known : Counting!InWindow(history[j].at, w)}
           I == {i \in DOMAIN ring : Counting!InWindow(ring[i].sec, w)}
           c == [j \in known |-> history[j].at % Buckets]
           held == [i \in DOMAIN ring |-> ring[i].bytes]
           parts == [i \in I |-> Counting!Summed(f, {x \in S : c[x] = i})]
<1>0. w \in Nat /\ w <= Buckets /\ Buckets \in Nat \ {0}
  BY BucketsAssumption
<1>1. IsFiniteSet(S) /\ \A i \in S : i \in DOMAIN f /\ f[i] \in Amounts
  BY FS_Subset DEF Exact, Entries, BytesIn
<1>2. IsFiniteSet(I)
  <2>1. IsFiniteSet(DOMAIN ring)
    BY <1>0, FS_Interval DEF Exact
  <2>. QED
    BY <2>1, FS_Subset
<1>3. ASSUME NEW j \in S
      PROVE  /\ c[j] \in I /\ ring[c[j]].sec = history[j].at
  <2>1. history[j].at + Buckets > second /\ history[j].at \in Nat
    BY <1>0 DEF Counting!InWindow, Exact, Entries
  <2>2. c[j] \in DOMAIN ring
    BY <2>1, Slot DEF Exact
  <2>3. ring[c[j]].sec = history[j].at
    BY <2>1 DEF Exact
  <2>. QED
    BY <2>2, <2>3
<1>4. ASSUME NEW i \in I
      PROVE  {j \in known : history[j].at = ring[i].sec} = {x \in S : c[x] = i}
  <2>1. ASSUME NEW j \in known, history[j].at = ring[i].sec
        PROVE  j \in S /\ c[j] = i
    BY <2>1 DEF Counting!InWindow, Exact
  <2>2. ASSUME NEW j \in S, c[j] = i
        PROVE  j \in known /\ history[j].at = ring[i].sec
    BY <1>3, <2>2
  <2>. QED
    BY <2>1, <2>2
<1>5. \A i \in I : i \in DOMAIN held /\ i \in DOMAIN parts /\ held[i] = parts[i]
  BY <1>4 DEF Exact
<1>6. {x \in S : c[x] \in I} = S
  BY <1>3
<1>7. Counting!WindowSum(ring, w) = Counting!Summed(held, I)
  BY DEF Counting!WindowSum
<1>8. Counting!SumOf(S) = Counting!Summed(f, S)
  BY DEF Counting!SumOf, BytesIn
<1>. HIDE DEF f, S, I, c, held
<1>9. Counting!Summed(parts, I) = Counting!Summed(f, {x \in S : c[x] \in I})
  BY <1>1, <1>2, SummedParts
<1>. HIDE DEF parts
<1>10. Counting!Summed(held, I) = Counting!Summed(parts, I)
  BY <1>2, <1>5, SummedSame
<1>11. Counting!WindowSum(ring, w) = Counting!SumOf(S)
  BY <1>6, <1>7, <1>8, <1>9, <1>10
<1>. QED
  BY <1>11 DEF S

Rows == [at : Nat \ {0}, session : TrafficSessions \cup {NoTrafficSession}, bytes : Amounts,
         gone : SUBSET TrafficSessions]
Counted == (TrafficSessions \ {NoTrafficSession}) \cup {"all"}

\* Every ring that is kept is exact, and of a session that is not kept nothing is to be
\* known: so that a ring that starts empty is exact, too.
TrafficInv ==
  /\ second \in Nat \ {0} /\ history \in Seq(Rows)
  /\ DOMAIN last \subseteq TrafficSessions \ {NoTrafficSession}
  /\ DOMAIN rings = DOMAIN last \cup {"all"} /\ DOMAIN totals = DOMAIN rings
  /\ \A r \in Counted \ DOMAIN rings : Counting!Known(r) = {}
  /\ \A r \in DOMAIN rings : Exact(rings[r], totals[r], Counting!Known(r), history, second)

\* The ring of all starts empty.
LEMMA TrafficInit == Counting!Init => TrafficInv
<1> SUFFICES ASSUME Counting!Init PROVE TrafficInv
  OBVIOUS
<1>1. history = <<>> /\ second = 1 /\ DOMAIN last = {}
  BY DEF Counting!Init
<1>2. \A r : Counting!Known(r) = {}
  BY <1>1 DEF Counting!Known
<1>3. /\ DOMAIN rings = {"all"} /\ DOMAIN totals = {"all"}
      /\ rings["all"] = Counting!NewRing /\ totals["all"] = Counting!Zero
  BY DEF Counting!Init, Counting!All
<1>4. Exact(Counting!NewRing, Counting!Zero, {}, history, second)
  BY <1>1, ExactNew
<1>5. \A r \in DOMAIN rings :
        Exact(rings[r], totals[r], Counting!Known(r), history, second)
  BY <1>2, <1>3, <1>4
<1>6. history \in Seq(Rows) /\ second \in Nat \ {0}
  BY <1>1
<1>. QED
  BY <1>1, <1>2, <1>3, <1>5, <1>6 DEF TrafficInv

\* What is to be known after one more entry.
LEMMA KnownAppended ==
  ASSUME history \in Seq(Rows), NEW e \in Rows, history' = Append(history, e),
         NEW r \in Counted
  PROVE  LET n == Len(history) + 1
         IN /\ r \notin e.gone /\ r \in {"all", e.session} =>
                 Counting!Known(r)' = Counting!Known(r) \cup {n}
            /\ r \notin e.gone /\ r \notin {"all", e.session} =>
                 Counting!Known(r)' = Counting!Known(r)
            /\ r \in e.gone /\ r \notin {"all", e.session} => Counting!Known(r)' = {}
<1> DEFINE n == Len(history) + 1
<1>1. /\ DOMAIN history' = DOMAIN history \cup {n} /\ n \notin DOMAIN history
      /\ \A i \in DOMAIN history : i < n /\ history'[i] = history[i]
      /\ history'[n] = e
  OBVIOUS
<1>2. \A j \in DOMAIN history' : j > n => FALSE
  BY <1>1
<1>3. n \in Nat /\ \A i \in DOMAIN history : i \in Nat
  OBVIOUS
<1>. HIDE DEF n
<1>4. CASE r \notin e.gone
  <2>1. ASSUME NEW i \in DOMAIN history
        PROVE  i \in Counting!Known(r)' <=> i \in Counting!Known(r)
    BY <1>1, <1>4 DEF Counting!Known
  <2>2. n \in Counting!Known(r)' <=> r \in {"all", e.session}
    BY <1>1, <1>2 DEF Counting!Known, Counting!All
  <2>3. Counting!Known(r)' \subseteq DOMAIN history \cup {n} /\ Counting!Known(r) \subseteq DOMAIN history
    BY <1>1 DEF Counting!Known
  <2>. QED
    BY <1>4, <2>1, <2>2, <2>3 DEF n
<1>5. CASE r \in e.gone
  <2>1. ASSUME r \notin {"all", e.session}, NEW i \in Counting!Known(r)'
        PROVE  FALSE
    <3>1. i \in DOMAIN history'
      BY DEF Counting!Known
    <3>2. CASE i = n
      BY <1>1, <2>1, <3>2 DEF Counting!Known, Counting!All
    <3>3. CASE i \in DOMAIN history
      <4>1. n > i
        BY <1>1, <1>3, <3>3
      <4>2. r \in history'[n].gone /\ n \in DOMAIN history'
        BY <1>1, <1>5
      <4>. QED
        BY <2>1, <4>1, <4>2 DEF Counting!Known, Counting!All
    <3>. QED
      BY <1>1, <3>1, <3>2, <3>3
  <2>. QED
    BY <1>5, <2>1
<1>. QED
  BY <1>4, <1>5 DEF n

\* Room is made by a session that is kept, for one that is not.
LEMMA EvictedKept ==
  ASSUME NEW session, NEW gone \in Counting!Evicted(session)
  PROVE  gone \subseteq DOMAIN last /\ session \notin gone
BY DEF Counting!Evicted, Counting!Kept

\* Recording keeps TrafficInv, the session that makes room included.  (traffic.rs:105,
\* 173)
LEMMA RecordKept ==
  ASSUME TrafficInv, NEW session \in TrafficSessions \cup {NoTrafficSession},
         NEW bytes \in Amounts, Counting!Record(session, bytes)
  PROVE  TrafficInv'
<1>1. PICK gone \in Counting!Evicted(session) :
        LET counted == {"all"} \cup ({session} \ {NoTrafficSession})
            kept == (DOMAIN rings \ gone) \cup counted
        IN /\ rings' = [r \in kept |-> IF r \in counted
                                       THEN Counting!Add(Counting!Ring(r), bytes) ELSE rings[r]]
           /\ totals' = [r \in kept |-> IF r \in counted
                                        THEN Counting!Plus(Counting!TotalOf(r), bytes)
                                        ELSE totals[r]]
           /\ DOMAIN last' = kept \ {"all"}
           /\ history' = Append(history, Counting!Entry(session, bytes, gone))
  BY DEF Counting!Record, Counting!All, Counting!TouchSession
<1> DEFINE counted == {"all"} \cup ({session} \ {NoTrafficSession})
           kept == (DOMAIN rings \ gone) \cup counted
           e == Counting!Entry(session, bytes, gone)
           n == Len(history) + 1
<1>2. gone \subseteq DOMAIN last /\ session \notin gone
  BY EvictedKept
<1>3. e \in Rows /\ e.session = session /\ e.gone = gone /\ e.at = second /\ e.bytes = bytes
  BY <1>2 DEF Counting!Entry, Rows, TrafficInv
<1>4. /\ history' \in Seq(Rows) /\ history' = Append(history, e)
      /\ \A i \in DOMAIN history : i \in DOMAIN history' /\ history'[i] = history[i]
      /\ n \in DOMAIN history' \ DOMAIN history /\ history'[n] = e
  BY <1>1, <1>3 DEF TrafficInv
<1>5. second' = second
  BY DEF Counting!Record
<1>6. kept \subseteq Counted /\ counted \subseteq Counted /\ counted \cap gone = {}
  BY <1>2, TrafficAssumption DEF Counted, TrafficInv
<1>7. /\ DOMAIN rings' = kept /\ DOMAIN totals' = kept /\ DOMAIN last' = kept \ {"all"}
      /\ \A r \in counted : /\ rings'[r] = Counting!Add(Counting!Ring(r), bytes)
                            /\ totals'[r] = Counting!Plus(Counting!TotalOf(r), bytes)
      /\ \A r \in kept \ counted : rings'[r] = rings[r] /\ totals'[r] = totals[r]
  BY <1>1
<1>. HIDE DEF e, n
<1>8. ASSUME NEW r \in Counted
      PROVE  /\ r \in counted => Counting!Known(r)' = Counting!Known(r) \cup {n}
             /\ r \notin counted /\ r \notin gone => Counting!Known(r)' = Counting!Known(r)
             /\ r \notin counted /\ r \in gone => Counting!Known(r)' = {}
  <2>1. r \in counted <=> r \in {"all", e.session}
    BY <1>3 DEF Counted
  <2>2. history \in Seq(Rows)
    BY DEF TrafficInv
  <2>. QED
    BY <1>3, <1>4, <1>6, <2>1, <2>2, KnownAppended DEF n
<1>9. ASSUME NEW r \in counted
      PROVE  Exact(rings'[r], totals'[r], Counting!Known(r)', history', second)
  <2>1. Exact(Counting!Ring(r), Counting!TotalOf(r), Counting!Known(r), history, second)
    <3>1. CASE r \in DOMAIN rings
      BY <3>1 DEF TrafficInv, Counting!Ring, Counting!TotalOf
    <3>2. CASE r \notin DOMAIN rings
      <4>1. Counting!Known(r) = {}
        BY <1>6, <3>2 DEF TrafficInv
      <4>2. Counting!Ring(r) = Counting!NewRing /\ Counting!TotalOf(r) = Counting!Zero
        BY <3>2 DEF TrafficInv, Counting!Ring, Counting!TotalOf
      <4>. QED
        BY <4>1, <4>2, ExactNew DEF TrafficInv
    <3>. QED
      BY <3>1, <3>2
  <2>2. second \in Nat \ {0}
    BY DEF TrafficInv
  <2>3. Exact(Counting!Add(Counting!Ring(r), bytes), Counting!Plus(Counting!TotalOf(r), bytes),
              Counting!Known(r) \cup {n}, history', second)
    BY <1>3, <1>4, <2>1, <2>2, ExactAdded
  <2>. QED
    BY <1>6, <1>7, <1>8, <2>3
<1>10. ASSUME NEW r \in kept \ counted
       PROVE  Exact(rings'[r], totals'[r], Counting!Known(r)', history', second)
  <2>1. Exact(rings[r], totals[r], Counting!Known(r), history, second)
    BY DEF TrafficInv
  <2>2. Exact(rings[r], totals[r], Counting!Known(r), history', second)
    BY <1>4, <2>1, ExactKept
  <2>. QED
    BY <1>6, <1>7, <1>8, <2>2
<1>11. ASSUME NEW r \in Counted \ kept
       PROVE  Counting!Known(r)' = {}
  <2>1. CASE r \in gone
    BY <1>8, <2>1
  <2>2. CASE r \notin gone
    BY <1>8, <2>2 DEF TrafficInv
  <2>. QED
    BY <2>1, <2>2
<1>12. DOMAIN last' \subseteq TrafficSessions \ {NoTrafficSession} /\ "all" \in kept
  BY <1>6, <1>7 DEF Counted
<1>. HIDE DEF kept, counted
<1>. QED
  BY <1>4, <1>5, <1>7, <1>9, <1>10, <1>11, <1>12 DEF TrafficInv

\* Every step of Traffic keeps TrafficInv.
LEMMA TrafficKept == TrafficInv /\ [Counting!Next]_Counting!vars => TrafficInv'
<1> SUFFICES ASSUME TrafficInv, [Counting!Next]_Counting!vars PROVE TrafficInv'
  OBVIOUS
<1>1. ASSUME NEW s \in TrafficSessions \cup {NoTrafficSession},
             NEW b \in {Counting!Bytes(1, 0), Counting!Bytes(0, 1)}, Counting!Record(s, b)
      PROVE  TrafficInv'
  <2>1. b \in Amounts
    BY DEF Counting!Bytes, Amounts
  <2>. QED
    BY <1>1, <2>1, RecordKept
<1>2. CASE Counting!Tick
  <2>1. /\ second' = second + 1 /\ second \in Nat /\ second' \in Nat \ {0}
        /\ UNCHANGED <<rings, totals, last, history>>
    BY <1>2 DEF Counting!Tick, TrafficInv
  <2>2. \A r : Counting!Known(r)' = Counting!Known(r)
    BY <2>1 DEF Counting!Known
  <2>3. \A r \in DOMAIN rings :
          Exact(rings[r], totals[r], Counting!Known(r), history, second + 1)
    BY <2>1, ExactLater DEF TrafficInv
  <2>. QED
    BY <2>1, <2>2, <2>3 DEF TrafficInv
<1>3. CASE UNCHANGED Counting!vars
  <2>1. UNCHANGED <<second, rings, totals, last, history>>
    BY <1>3 DEF Counting!vars
  <2>2. \A r : Counting!Known(r)' = Counting!Known(r)
    BY <2>1 DEF Counting!Known
  <2>. QED
    BY <2>1, <2>2 DEF TrafficInv
<1>. QED
  BY <1>1, <1>2, <1>3 DEF Counting!Next

\* RatesExact holds of rings of any size and windows no longer, any number of sessions and
\* any room for them: a bucket that is taken over is of no window any more, and a session
\* that comes back after it was dropped starts from nothing.  (traffic.rs:46, 58, 173)
THEOREM RatesAreExact == Spec => []RatesExact
<1>1. Init => TrafficInv
  BY TrafficInit DEF Init
<1>2. TrafficInv /\ [Next]_vars => TrafficInv'
  BY Alone, TrafficKept
<1>3. TrafficInv => RatesExact
  <2> SUFFICES ASSUME TrafficInv, NEW r \in DOMAIN rings
               PROVE  /\ totals[r] = Counting!SumOf(Counting!Known(r))
                      /\ \A w \in Windows :
                           Counting!WindowSum(rings[r], w) =
                             Counting!SumOf({i \in Counting!Known(r) :
                                               Counting!InWindow(history[i].at, w)})
    BY DEF RatesExact, Counting!RatesExact
  <2>1. Exact(rings[r], totals[r], Counting!Known(r), history, second) /\ second \in Nat
    BY DEF TrafficInv
  <2>2. totals[r] = Counting!SumOf(Counting!Known(r))
    BY <2>1 DEF Exact, Counting!SumOf, BytesIn
  <2>. QED
    BY <2>1, <2>2, ExactWindow
<1>. QED
  BY <1>1, <1>2, <1>3, PTL DEF Spec

-------------------------------------------------------------------------------
(* The tabs of web search *)

Holding == {"render", "close"}

\* The searches that hold a tab.
Holders == {w \in Searches : search[w].at \in Holding}

\* A search is always somewhere, so that EXCEPT can move it; and TabsReturned.
TabsInv ==
  /\ tabs \in Int /\ lost \in Int
  /\ DOMAIN search = Searches
  /\ \A w \in Searches : "at" \in DOMAIN search[w]
  /\ tabs = lost + Cardinality(Holders)

\* A search that goes on with its tab, or without one, changes nothing.
LEMMA Unmoved ==
  ASSUME NEW w \in Searches, NEW s, TabsInv, Searching!Set(w, s), "at" \in DOMAIN s,
         search[w].at \in Holding <=> s.at \in Holding,
         UNCHANGED <<tabs, lost>>
  PROVE  TabsInv'
<1>1. Holders' = Holders
  BY DEF Holders, Searching!Set, TabsInv
<1>2. /\ DOMAIN search' = Searches
      /\ \A v \in Searches : "at" \in DOMAIN search'[v]
  BY DEF Searching!Set, TabsInv
<1>. QED
  BY <1>1, <1>2 DEF TabsInv

\* A tab opened is held.
LEMMA Opened ==
  ASSUME NEW w \in Searches, NEW s, IsFiniteSet(Searches), TabsInv, Searching!Set(w, s),
         "at" \in DOMAIN s, search[w].at \notin Holding, s.at \in Holding,
         tabs' = tabs + 1, UNCHANGED lost
  PROVE  TabsInv'
<1>1. Holders' = Holders \cup {w} /\ w \notin Holders
  BY DEF Holders, Searching!Set, TabsInv
<1>2. IsFiniteSet(Holders)
  BY FS_Subset DEF Holders
<1>3. Cardinality(Holders') = Cardinality(Holders) + 1 /\ Cardinality(Holders) \in Nat
  BY <1>1, <1>2, FS_AddElement, FS_CardinalityType
<1>4. /\ DOMAIN search' = Searches
      /\ \A v \in Searches : "at" \in DOMAIN search'[v]
  BY DEF Searching!Set, TabsInv
<1>. QED
  BY <1>3, <1>4 DEF TabsInv

\* A tab given up is closed or lost.
LEMMA GivenUp ==
  ASSUME NEW w \in Searches, NEW s, IsFiniteSet(Searches), TabsInv, Searching!Set(w, s),
         "at" \in DOMAIN s, search[w].at \in Holding, s.at \notin Holding,
         \/ tabs' = tabs - 1 /\ UNCHANGED lost
         \/ lost' = lost + 1 /\ UNCHANGED tabs
  PROVE  TabsInv'
<1>1. Holders' = Holders \ {w} /\ w \in Holders
  BY DEF Holders, Searching!Set, TabsInv
<1>2. IsFiniteSet(Holders)
  BY FS_Subset DEF Holders
<1>3. Cardinality(Holders') = Cardinality(Holders) - 1 /\ Cardinality(Holders) \in Nat
  BY <1>1, <1>2, FS_RemoveElement, FS_CardinalityType
<1>4. /\ DOMAIN search' = Searches
      /\ \A v \in Searches : "at" \in DOMAIN search'[v]
  BY DEF Searching!Set, TabsInv
<1>. QED
  BY <1>3, <1>4 DEF TabsInv

\* No search begins with a tab.
LEMMA Begun ==
  ASSUME NEW requested, NEW s \in Searching!Resolve(requested)
  PROVE  "at" \in DOMAIN s /\ s.at \notin Holding
<1> DEFINE unplanned == Searching!New(requested, "pool", <<>>)
<1>1. \/ s = Searching!Answered(unplanned, "503", FALSE)
      \/ \E plan : s = Searching!New(requested, "connect", plan)
      \/ \E t : s = [unplanned EXCEPT !.at = "execute", !.target = t]
  BY DEF Searching!Resolve
<1>2. \A t : LET e == [unplanned EXCEPT !.at = "execute", !.target = t]
              IN "at" \in DOMAIN e /\ e.at \notin Holding
  BY DEF Searching!New, Holding
<1>3. \A plan : LET e == Searching!New(requested, "connect", plan)
                 IN "at" \in DOMAIN e /\ e.at \notin Holding
  BY DEF Searching!New, Holding
<1>4. LET e == Searching!Answered(unplanned, "503", FALSE)
      IN "at" \in DOMAIN e /\ e.at \notin Holding
  BY DEF Searching!Answered, Holding
<1>. HIDE DEF unplanned
<1>. QED
  BY <1>1, <1>2, <1>3, <1>4

\* An answered search holds no tab.
LEMMA Finished ==
  ASSUME NEW s, NEW by, NEW found
  PROVE  "at" \in DOMAIN Searching!Answered(s, by, found) /\ Searching!Answered(s, by, found).at \notin Holding
BY DEF Searching!Answered, Holding

\* No tab is open at the start.
LEMMA TabsInit == ASSUME Searching!Init PROVE TabsInv
<1>1. Holders = {}
  BY DEF Searching!Init, Holders, Searching!Idle, Holding
<1>. QED
  BY <1>1, FS_EmptySet DEF Searching!Init, TabsInv, Searching!Idle

\* Every step of a search keeps TabsInv.
LEMMA TabsKept ==
  ASSUME IsFiniteSet(Searches), TabsInv, [Searching!Next]_Searching!vars
  PROVE  TabsInv'
<1>1. ASSUME NEW w \in Searches, NEW requested, Searching!Ask(w, requested)
      PROVE  TabsInv'
  <2>1. PICK s \in Searching!Resolve(requested) : Searching!Set(w, s)
    BY <1>1 DEF Searching!Ask
  <2>2. search[w].at \notin Holding /\ UNCHANGED <<tabs, lost>>
    BY <1>1 DEF Searching!Ask, Searching!Idle, Holding
  <2>. QED
    BY <2>1, <2>2, Begun, Unmoved
<1>2. ASSUME NEW w \in Searches, Searching!Connect(w)
      PROVE  TabsInv'
  <2> DEFINE to == [search[w] EXCEPT !.at = "engine"]
             failed == [Searching!Unfound(search[w]) EXCEPT !.failed = Searching!ToSet(search[w].plan)]
  <2>1. Searching!Set(w, to) \/ Searching!Set(w, failed)
    BY <1>2 DEF Searching!Connect
  <2>2. search[w].at \notin Holding /\ UNCHANGED <<tabs, lost>>
    BY <1>2 DEF Searching!Connect, Holding
  <2>3. "at" \in DOMAIN to /\ to.at \notin Holding
    BY DEF TabsInv, Holding
  <2>4. "at" \in DOMAIN failed /\ failed.at \notin Holding
    BY DEF Searching!Unfound, TabsInv, Holding
  <2>. HIDE DEF to, failed
  <2>. QED
    BY <2>1, <2>2, <2>3, <2>4, Unmoved
<1>3. ASSUME NEW w \in Searches, Searching!OpenTab(w)
      PROVE  TabsInv'
  <2> DEFINE s == search[w]
  <2>1. s.at \notin Holding /\ "at" \in DOMAIN s
    BY <1>3 DEF Searching!OpenTab, Holding, TabsInv
  <2>2. CASE \E left : /\ Searching!Set(w, [s EXCEPT !.at = "render", !.left = left])
                       /\ tabs' = tabs + 1 /\ UNCHANGED lost
    BY <2>1, <2>2, Opened DEF Holding
  <2>3. "at" \in DOMAIN Searching!NextEngine(s) /\ Searching!NextEngine(s).at \notin Holding
    BY <2>1 DEF Searching!NextEngine, Holding
  <2>4. CASE Searching!Set(w, Searching!NextEngine(s)) /\ UNCHANGED <<tabs, lost>>
    BY <2>1, <2>3, <2>4, Unmoved
  <2>5. CASE Searching!Set(w, Searching!NextEngine(s)) /\ tabs' = tabs + 1 /\ lost' = lost + 1
    <3>1. Holders' = Holders
      BY <2>1, <2>3, <2>5 DEF Holders, Searching!Set, TabsInv
    <3>2. /\ DOMAIN search' = Searches
          /\ \A v \in Searches : "at" \in DOMAIN search'[v]
      BY <2>3, <2>5 DEF Searching!Set, TabsInv
    <3>3. Cardinality(Holders) \in Nat
      BY FS_Subset, FS_CardinalityType DEF Holders
    <3>. QED
      BY <2>5, <3>1, <3>2, <3>3 DEF TabsInv
  <2>. QED
    BY <1>3, <2>2, <2>4, <2>5 DEF Searching!OpenTab
<1>4. ASSUME NEW w \in Searches, Searching!NoEngineLeft(w)
      PROVE  TabsInv'
  <2>1. /\ Searching!Set(w, Searching!Unfound(search[w])) /\ search[w].at \notin Holding
        /\ UNCHANGED <<tabs, lost>>
    BY <1>4 DEF Searching!NoEngineLeft, Holding
  <2>2. "at" \in DOMAIN Searching!Unfound(search[w]) /\ Searching!Unfound(search[w]).at \notin Holding
    BY DEF Searching!Unfound, TabsInv, Holding
  <2>. QED
    BY <2>1, <2>2, Unmoved
<1>5. ASSUME NEW w \in Searches, Searching!Render(w)
      PROVE  TabsInv'
  <2> DEFINE closing(page) == [search[w] EXCEPT !.at = "close", !.page = page]
             later == [search[w] EXCEPT !.left = @ - 1]
  <2>1. PICK s : Searching!Set(w, s) /\ (s = later \/ \E page : s = closing(page))
    BY <1>5 DEF Searching!Render
  <2>2. search[w].at \in Holding /\ UNCHANGED <<tabs, lost>>
    BY <1>5 DEF Searching!Render, Holding
  <2>3. "at" \in DOMAIN later /\ later.at \in Holding
    BY <2>2 DEF TabsInv
  <2>4. \A page : "at" \in DOMAIN closing(page) /\ closing(page).at \in Holding
    BY DEF TabsInv, Holding
  <2>5. "at" \in DOMAIN s /\ s.at \in Holding
    BY <2>1, <2>3, <2>4
  <2>. QED
    BY <2>1, <2>2, <2>5, Unmoved
<1>6. ASSUME NEW w \in Searches, Searching!CloseTab(w)
      PROVE  TabsInv'
  <2> DEFINE s == IF search[w].page = "found"
                  THEN Searching!Answered(search[w], Head(search[w].engines), TRUE)
                  ELSE Searching!NextEngine(search[w])
  <2>0. "at" \in DOMAIN Searching!NextEngine(search[w]) /\ Searching!NextEngine(search[w]).at \notin Holding
    BY DEF Searching!NextEngine, TabsInv, Holding
  <2>1. Searching!Set(w, s) /\ "at" \in DOMAIN s /\ s.at \notin Holding
    BY <1>6, <2>0, Finished DEF Searching!CloseTab
  <2>2. /\ search[w].at \in Holding
        /\ \/ tabs' = tabs - 1 /\ UNCHANGED lost
           \/ lost' = lost + 1 /\ UNCHANGED tabs
    BY <1>6 DEF Searching!CloseTab, Holding
  <2>. HIDE DEF s
  <2>. QED
    BY <2>1, <2>2, GivenUp
<1>7. ASSUME NEW w \in Searches, Searching!Fallback(w)
      PROVE  TabsInv'
  <2> DEFINE to(t) == [search[w] EXCEPT !.at = "execute", !.target = t]
  <2>1. PICK s : /\ Searching!Set(w, s)
                 /\ (\E r : s = Searching!Answered(r, "503", FALSE)) \/ (\E t : s = to(t))
    BY <1>7 DEF Searching!Fallback
  <2>2. search[w].at \notin Holding /\ UNCHANGED <<tabs, lost>>
    BY <1>7 DEF Searching!Fallback, Holding
  <2>3. \A t : "at" \in DOMAIN to(t) /\ to(t).at \notin Holding
    BY DEF TabsInv, Holding
  <2>4. "at" \in DOMAIN s /\ s.at \notin Holding
    BY <2>1, <2>3, Finished
  <2>. QED
    BY <2>1, <2>2, <2>4, Unmoved
<1>8. ASSUME NEW w \in Searches, Searching!Execute(w)
      PROVE  TabsInv'
  <2>1. PICK s, r, by, found : Searching!Set(w, s) /\ s = Searching!Answered(r, by, found)
    BY <1>8 DEF Searching!Execute
  <2>2. search[w].at \notin Holding /\ UNCHANGED <<tabs, lost>>
    BY <1>8 DEF Searching!Execute, Holding
  <2>. QED
    BY <2>1, <2>2, Finished, Unmoved
<1>9. ASSUME NEW w \in Searches, Searching!Leave(w)
      PROVE  TabsInv'
  <2>1. Searching!Set(w, Searching!Idle) /\ "at" \in DOMAIN Searching!Idle /\ Searching!Idle.at \notin Holding
    BY <1>9 DEF Searching!Leave, Searching!Idle, Holding
  <2>2. CASE search[w].at \in Holding
    BY <1>9, <2>1, <2>2, GivenUp DEF Searching!Leave, Holding
  <2>3. CASE search[w].at \notin Holding
    BY <1>9, <2>1, <2>3, Unmoved DEF Searching!Leave, Holding
  <2>. QED
    BY <2>2, <2>3
<1>10. ASSUME NEW w \in Searches, Searching!Done(w)
       PROVE  TabsInv'
  <2>1. Searching!Set(w, Searching!Idle) /\ "at" \in DOMAIN Searching!Idle /\ Searching!Idle.at \notin Holding
    BY <1>10 DEF Searching!Done, Searching!Idle, Holding
  <2>2. search[w].at \notin Holding /\ UNCHANGED <<tabs, lost>>
    BY <1>10 DEF Searching!Done, Holding
  <2>. QED
    BY <2>1, <2>2, Unmoved
<1>11. CASE \/ UNCHANGED Searching!vars \/ Searching!PutWrites \/ Searching!HandEdit
            \/ \E content \in SearchContents, withChrome \in BOOLEAN : Searching!PutBegins(content, withChrome)
  BY <1>11 DEF Searching!vars, Searching!PutWrites, Searching!HandEdit, Searching!PutBegins, TabsInv, Holders
<1>. QED
  BY <1>1, <1>2, <1>3, <1>4, <1>5, <1>6, <1>7, <1>8, <1>9, <1>10, <1>11 DEF Searching!Next

\* WebSearch counts with the Cardinality of its own instance.
LEMMA SameCardinality == \A S : Searching!Cardinality(S) = Cardinality(S)
BY Zenon DEF Searching!Cardinality, Cardinality

\* TabsReturned holds of any number of searches and any file: no path through the
\* engines, the deadline, a failed command or a client that leaves forgets a tab without
\* it being counted as lost.  (search_chrome.rs:325)
THEOREM TabsAreReturned == Spec => []TabsReturned
<1>1. Init => TabsInv
  BY TabsInit DEF Init
<1>2. TabsInv /\ [Next]_vars => TabsInv'
  BY Alone, TabsKept, SearchesAssumption
<1>3. TabsInv => TabsReturned
  BY SameCardinality DEF TabsInv, TabsReturned, Searching!TabsReturned, Holders, Holding
<1>. QED
  BY <1>1, <1>2, <1>3, PTL DEF Spec

-------------------------------------------------------------------------------
(* The answers of web search *)

Engines == Searching!KnownEngines \cup STRING
SearchKeys == [name : STRING, weight : Int, enabled : BOOLEAN, configured : BOOLEAN]
SearchProviders == [name : STRING, keys : Seq(SearchKeys)]
SearchFiles ==
  [chrome : {Searching!Unset} \cup [enabled : BOOLEAN, engines : Seq(Engines)],
   providers : Seq(SearchProviders)]

\* The file is whole, missing or half written; what the dashboard is about to write is whole.
FilesKept ==
  /\ file \in {Searching!Absent, Broken} \cup SearchFiles
  /\ put # Searching!NoPut => put.content \in SearchFiles

\* A search that has all its fields, so that EXCEPT can move it.
Shaped(s) ==
  {"asked", "at", "plan", "engines", "left", "page", "failed", "pool", "target"} \subseteq DOMAIN s

\* The engines that are left are the end of the plan, and those before them have failed.
Behind(s) ==
  /\ s.engines \in Seq(Engines) /\ Len(s.engines) <= Len(s.plan)
  /\ \A j \in 1 .. Len(s.engines) :
       s.engines[j] = s.plan[(Len(s.plan) - Len(s.engines)) + j]
  /\ \A j \in 1 .. (Len(s.plan) - Len(s.engines)) : s.plan[j] \in s.failed

\* A search that may be with Chrome, and its plan.
ByChrome(s) ==
  /\ Searching!Explicit(s.asked) \/ s.asked = None
  /\ s.asked \in Searching!KnownEngines => s.plan = <<s.asked>>
AllFailed(s) == \A j \in 1 .. Len(s.plan) : s.plan[j] \in s.failed

\* Where a search is that has not been answered, and what it has come from.
Browsing(s) ==
  /\ s.at \in {"connect", "engine", "render", "close"} /\ ByChrome(s) /\ Behind(s)
  /\ s.at \in {"render", "close"} => s.engines # <<>> /\ Head(s.engines) \in Searching!KnownEngines
Beaten(s) == s.at = "fallback" /\ ByChrome(s) /\ AllFailed(s)
Executing(s) ==
  /\ s.at = "execute" /\ ~Searching!Explicit(s.asked)
  /\ s.target.provider \in Searching!KnownProviders
  /\ s.asked \in Searching!KnownProviders => s.target.provider = s.asked
  /\ AllFailed(s)
Underway(s) ==
  /\ Shaped(s) /\ s.plan \in Seq(Engines)
  /\ Browsing(s) \/ Beaten(s) \/ Executing(s)

\* What AnswersHonest says of one answer.
Honest(s) ==
  /\ s.asked \in Searching!KnownEngines \cup Searching!KnownProviders => s.by \in {s.asked, "503"}
  /\ s.asked = "chrome" => s.by \in Searching!KnownEngines \cup {"503"}
  /\ s.by \in Searching!KnownEngines =>
       s.found /\ \E i \in DOMAIN s.plan :
                    s.plan[i] = s.by /\ \A j \in 1 .. (i - 1) : s.plan[j] \in s.failed
  /\ s.plan # <<>> /\ s.by \notin Searching!KnownEngines => Searching!ToSet(s.plan) \subseteq s.failed
  /\ s.asked = None /\ s.plan # <<>> /\ s.by = "503" => s.pool # "untried"

Placed(s) ==
  \/ s = Searching!Idle
  \/ Underway(s)
  \/ s.at = "answered" /\ Honest(s)

HonestInv == FilesKept /\ DOMAIN search = Searches /\ \A w \in Searches : Placed(search[w])

\* WebSearch flattens and adds with the operators of its own instance.
LEMMA SameFlatten == \A ss : Searching!FlattenSeq(ss) = FlattenSeq(ss)
BY Zenon DEF Searching!FlattenSeq, FlattenSeq
LEMMA SameSearchSum == \A f, S : Searching!SumFunctionOnSet(f, S) = SumFunctionOnSet(f, S)
BY Zenon DEF Searching!SumFunctionOnSet, Searching!FoldFunctionOnSet, Searching!MapThenFoldSet,
             SumFunctionOnSet, FoldFunctionOnSet, MapThenFoldSet

\* Items have a weight each.
Weighed(items) == \A j \in 1 .. Len(items) : items[j].weight \in Int

\* The weights of the first items add up to a number, none of them to nothing.
LEMMA WeightsAddUp ==
  ASSUME NEW X, NEW items \in Seq(X), Weighed(items)
  PROVE  /\ Searching!UpTo(items, 0) = 0
         /\ \A i \in 0 .. Len(items) : Searching!UpTo(items, i) \in Nat
<1> DEFINE f == [j \in DOMAIN items |-> Searching!Weight(items[j])]
<1>1. \A i : Searching!UpTo(items, i) = SumFunctionOnSet(f, 1 .. i)
  BY SameSearchSum DEF Searching!UpTo
<1>2. \A j \in 1 .. Len(items) : f[j] \in Nat
  BY DEF Weighed, Searching!Weight
<1> HIDE DEF f
<1>3. Searching!UpTo(items, 0) = 0
  <2>1. 1 .. 0 = {}
    OBVIOUS
  <2> QED BY <1>1, <2>1, SumEmpty
<1>4. ASSUME NEW i \in 0 .. Len(items) PROVE Searching!UpTo(items, i) \in Nat
  <2>1. IsFiniteSet(1 .. i) /\ \A j \in 1 .. i : f[j] \in Nat
    BY <1>2, FS_Interval
  <2> QED BY <1>1, <2>1, SumNat
<1> QED BY <1>3, <1>4

\* A draw below the total falls on an item.
LEMMA DrawnSomewhere ==
  ASSUME NEW X, NEW items \in Seq(X), Weighed(items), NEW d \in 0 .. (Searching!Total(items) - 1)
  PROVE  \E i \in DOMAIN items : Searching!UpTo(items, i - 1) <= d /\ d < Searching!UpTo(items, i)
<1> DEFINE U(i) == Searching!UpTo(items, i)
           n == Len(items)
<1>1. U(0) = 0 /\ (\A i \in 0 .. n : U(i) \in Nat) /\ n \in Nat /\ DOMAIN items = 1 .. n
  BY WeightsAddUp
<1>2. Searching!Total(items) = U(n)
  BY DEF Searching!Total
<1>3. \E i \in 1 .. n : U(i - 1) <= d /\ d < U(i)
  <2> SUFFICES ASSUME \A i \in 1 .. n : ~(U(i - 1) <= d /\ d < U(i)) PROVE FALSE
    OBVIOUS
  <2> HIDE DEF n, U
  <2> DEFINE T == {i \in Nat : i <= n => U(i) <= d}
  <2>1. 0 \in T
    BY <1>1, <1>2
  <2>2. ASSUME NEW i \in T PROVE i + 1 \in T
    <3>1. i \in Nat /\ (i <= n => U(i) <= d)
      OBVIOUS
    <3>2. CASE i + 1 <= n
      <4>1. i + 1 \in 1 .. n /\ (i + 1) - 1 = i
        BY <1>1, <3>1, <3>2
      <4>2. U(i) <= d /\ i + 1 \in 0 .. n
        BY <1>1, <3>1, <3>2
      <4>3. ~(d < U(i + 1)) /\ U(i + 1) \in Nat
        BY <1>1, <4>1, <4>2
      <4> QED BY <1>1, <1>2, <3>1, <4>3
    <3> QED BY <3>1, <3>2
  <2>3. T = Nat
    <3>1. T \subseteq Nat
      OBVIOUS
    <3> HIDE DEF T
    <3> QED BY <2>1, <2>2, <3>1, NatInduct
  <2>4. n \in T
    BY <1>1, <2>3
  <2>5. U(n) <= d /\ U(n) \in Nat
    BY <1>1, <2>4
  <2> QED BY <1>2, <2>5
<1> QED BY <1>1, <1>3

LEMMA DrawnThere ==
  ASSUME NEW X, NEW items \in Seq(X), Weighed(items), NEW d \in 0 .. (Searching!Total(items) - 1)
  PROVE  Searching!Drawn(items, d) \in DOMAIN items
BY DrawnSomewhere DEF Searching!Drawn

\* The keys a provider may draw from are keys.
LEMMA KeysAvailable ==
  ASSUME NEW p \in SearchProviders
  PROVE  Searching!AvailableKeys(p) \in Seq(SearchKeys)
<1> DEFINE ks == p.keys
           part_(i) == IF ks[i].enabled /\ ks[i].weight > 0 /\ ks[i].configured THEN <<ks[i]>> ELSE <<>>
           ss == [i \in DOMAIN ks |-> part_(i)]
<1>1. ks \in Seq(SearchKeys)
  BY DEF SearchProviders
<1> HIDE DEF ks
<1>2. \A i \in 1 .. Len(ks) : part_(i) \in Seq(SearchKeys)
  BY <1>1
<1>3. [i \in 1 .. Len(ks) |-> part_(i)] \in Seq(Seq(SearchKeys))
  <2>1. Len(ks) \in Nat
    BY <1>1
  <2> HIDE DEF part_
  <2> QED BY <1>2, <2>1, IsASeq
<1>4. ss \in Seq(Seq(SearchKeys))
  <2>1. DOMAIN ks = 1 .. Len(ks)
    BY <1>1
  <2> QED BY <1>3, <2>1
<1>5. Searching!AvailableKeys(p) = FlattenSeq(ss)
  BY SameFlatten DEF Searching!AvailableKeys, ks
<1> HIDE DEF ss
<1> QED BY <1>4, <1>5, FlattenType

\* What is offered is of the providers named.
Offered(names) == [name : names, keys : Seq(SearchKeys), weight : Nat]
LEMMA OfferIs ==
  ASSUME NEW names, Searching!Get.providers \in Seq(SearchProviders)
  PROVE  Searching!Offer(names) \in Seq(Offered(names))
<1> DEFINE ps == Searching!Get.providers
           keys(p) == Searching!AvailableKeys(p)
           item(p) == [name |-> p.name, keys |-> keys(p), weight |-> Searching!Total(keys(p))]
           given(i) == IF ps[i].name \in names /\ keys(ps[i]) # <<>> THEN <<item(ps[i])>> ELSE <<>>
           ss == [i \in DOMAIN ps |-> given(i)]
<1>1. Searching!Offer(names) = FlattenSeq(ss)
  BY SameFlatten DEF Searching!Offer
<1> HIDE DEF ps
<1>0. ps \in Seq(SearchProviders) /\ Len(ps) \in Nat /\ DOMAIN ps = 1 .. Len(ps)
  BY DEF ps
<1>2. ASSUME NEW i \in 1 .. Len(ps) PROVE given(i) \in Seq(Offered(names))
  <2>1. ps[i] \in SearchProviders
    BY <1>0
  <2>2. keys(ps[i]) \in Seq(SearchKeys)
    BY <2>1, KeysAvailable
  <2> HIDE DEF keys
  <2>3. Weighed(keys(ps[i]))
    <3>1. \A j \in 1 .. Len(keys(ps[i])) : keys(ps[i])[j] \in SearchKeys
      BY <2>2
    <3> QED BY <3>1 DEF Weighed, SearchKeys
  <2>4. Searching!Total(keys(ps[i])) \in Nat
    BY <2>2, <2>3, WeightsAddUp DEF Searching!Total
  <2>5. CASE ps[i].name \in names
    <3>1. item(ps[i]) \in Offered(names)
      BY <2>2, <2>4, <2>5 DEF Offered
    <3> HIDE DEF item
    <3> QED BY <3>1
  <2>6. CASE ps[i].name \notin names
    BY <2>6
  <2> QED BY <2>5, <2>6
<1>3. [i \in 1 .. Len(ps) |-> given(i)] \in Seq(Seq(Offered(names)))
  <2> HIDE DEF given
  <2> QED BY <1>0, <1>2, IsASeq
<1>4. ss \in Seq(Seq(Offered(names)))
  BY <1>0, <1>3
<1> HIDE DEF ss
<1> QED BY <1>1, <1>4, FlattenType

\* What is drawn is a provider that is known, and the one that was asked for.
LEMMA PicksAre ==
  ASSUME FilesKept, NEW r, NEW t \in Searching!Picks(r)
  PROVE  /\ t.provider \in Searching!KnownProviders
         /\ r \in Searching!KnownProviders => t.provider = r
<1> DEFINE cs == Searching!Candidates(r)
           names == {n \in Searching!ProviderNames : r \in {None, "auto", n}}
<1>1. Searching!Get \in SearchFiles
  <2>1. Searching!EmptyFile \in SearchFiles
    BY DEF Searching!EmptyFile, SearchFiles
  <2> QED BY <2>1 DEF FilesKept, Searching!Get
<1>2. Searching!Get.providers \in Seq(SearchProviders)
  BY <1>1 DEF SearchFiles
<1>3. cs \in Seq(Offered(names))
  BY <1>2, OfferIs DEF Searching!Candidates
<1>4. /\ r \in Searching!KnownProviders \cup {None, "auto"} /\ cs # <<>>
      /\ \A p \in Searching!ToSet(Searching!Get.providers) : p.name \in Searching!KnownProviders
      /\ \E d \in 0 .. (Searching!Total(cs) - 1) : \E k : t = Searching!PickProviderKey(r, d, k)
  BY DEF Searching!Picks
<1>5. PICK d \in 0 .. (Searching!Total(cs) - 1) : \E k : t = Searching!PickProviderKey(r, d, k)
  BY <1>4
<1>6. names \subseteq Searching!KnownProviders
  BY <1>4 DEF Searching!ProviderNames
<1>7. t.provider = IF r \in {None, "auto"} THEN cs[Searching!Drawn(cs, d)].name ELSE cs[1].name
  BY <1>5 DEF Searching!PickProviderKey
<1> HIDE DEF cs
<1>8. \A i \in DOMAIN cs : cs[i].name \in names /\ cs[i].weight \in Int
  <2>1. \A i \in DOMAIN cs : cs[i] \in Offered(names)
    BY <1>3
  <2> QED BY <2>1 DEF Offered
<1>9. Searching!Drawn(cs, d) \in DOMAIN cs /\ 1 \in DOMAIN cs
  <2>1. Weighed(cs)
    BY <1>3, <1>8 DEF Weighed
  <2> QED BY <1>3, <1>4, <1>5, <2>1, DrawnThere
<1>10. r \in Searching!KnownProviders => r # None /\ r # "auto"
  BY NoneAssumption DEF Searching!KnownProviders
<1> QED BY <1>4, <1>6, <1>7, <1>8, <1>9, <1>10

\* What the file may hold is whole.
LEMMA ContentsAreFiles == SearchContents \subseteq SearchFiles
<1> SUFFICES ASSUME NEW c \in SearchContents PROVE c \in SearchFiles
  OBVIOUS
<1>1. \A q \in Seq(STRING) : q \in Seq(Engines)
  BY DEF Engines
<1>2. [enabled : BOOLEAN, engines : Seq(STRING)] \subseteq [enabled : BOOLEAN, engines : Seq(Engines)]
  BY <1>1
<1>3. c \in [chrome : {[unset |-> TRUE]} \cup [enabled : BOOLEAN, engines : Seq(STRING)],
             providers : Seq(SearchProviders)]
  BY SearchContentsAssumption DEF SearchProviders, SearchKeys
<1> QED BY <1>2, <1>3 DEF SearchFiles, Searching!Unset

\* The files stay whole, missing or half written.
LEMMA FilesStay ==
  ASSUME FilesKept, [Searching!Next]_Searching!vars
  PROVE  FilesKept'
<1>0. SearchContents \subseteq SearchFiles
  BY ContentsAreFiles
<1>1. Searching!EmptyFile \in SearchFiles
  BY DEF Searching!EmptyFile, SearchFiles
<1>2. Searching!Get \in SearchFiles
  BY <1>1 DEF FilesKept, Searching!Get
<1>3. Searching!Materialised => file' \in {Searching!Absent, Broken} \cup SearchFiles
  BY <1>1 DEF FilesKept, Searching!Materialised
<1>4. CASE \/ UNCHANGED Searching!vars \/ Searching!HandEdit \/ Searching!PutWrites
  BY <1>0, <1>4 DEF FilesKept, Searching!vars, Searching!HandEdit, Searching!PutWrites
<1>5. ASSUME NEW content \in SearchContents, NEW withChrome \in BOOLEAN,
             Searching!PutBegins(content, withChrome)
      PROVE  FilesKept'
  <2> DEFINE new == [content EXCEPT !.chrome = IF withChrome THEN @ ELSE Searching!Get.chrome]
  <2>1. content \in SearchFiles
    BY <1>0
  <2>2. new \in SearchFiles
    BY <1>2, <2>1 DEF SearchFiles
  <2>3. put'.content = new
    BY <1>5 DEF Searching!PutBegins
  <2>4. file' \in {Searching!Absent, Broken} \cup SearchFiles
    BY <1>3, <1>5 DEF Searching!PutBegins, FilesKept
  <2> HIDE DEF new
  <2> QED BY <2>2, <2>3, <2>4 DEF FilesKept
<1>6. ASSUME NEW w \in Searches, \/ \E requested \in Requested : Searching!Ask(w, requested)
                                 \/ Searching!Fallback(w)
      PROVE  FilesKept'
  <2>1. \A requested : Searching!Ask(w, requested) => Searching!Materialised /\ UNCHANGED put
    BY Zenon DEF Searching!Ask
  <2>2. Searching!Fallback(w) => (Searching!Materialised \/ UNCHANGED file) /\ UNCHANGED put
    BY Zenon DEF Searching!Fallback
  <2>3. (Searching!Materialised \/ UNCHANGED file) /\ UNCHANGED put
    BY <1>6, <2>1, <2>2
  <2> QED BY <1>3, <2>3 DEF FilesKept
<1>7. ASSUME NEW w \in Searches,
             \/ Searching!Connect(w) \/ Searching!OpenTab(w) \/ Searching!NoEngineLeft(w)
             \/ Searching!Render(w) \/ Searching!CloseTab(w) \/ Searching!Execute(w)
             \/ Searching!Leave(w) \/ Searching!Done(w)
      PROVE  FilesKept'
  <2>1. /\ Searching!Connect(w) => UNCHANGED <<file, put>>
        /\ Searching!NoEngineLeft(w) => UNCHANGED <<file, put>>
        /\ Searching!Execute(w) => UNCHANGED <<file, put>>
        /\ Searching!Leave(w) => UNCHANGED <<file, put>>
        /\ Searching!Done(w) => UNCHANGED <<file, put>>
    BY DEF Searching!Connect, Searching!NoEngineLeft, Searching!Execute, Searching!Leave,
           Searching!Done
  <2>2. Searching!OpenTab(w) => UNCHANGED <<file, put>>
    BY Zenon DEF Searching!OpenTab
  <2>3. Searching!Render(w) => UNCHANGED <<file, put>>
    BY DEF Searching!Render
  <2>4. Searching!CloseTab(w) => UNCHANGED <<file, put>>
    BY DEF Searching!CloseTab
  <2>5. UNCHANGED <<file, put>>
    BY <1>7, <2>1, <2>2, <2>3, <2>4
  <2> QED BY <2>5 DEF FilesKept
<1> QED BY <1>4, <1>5, <1>6, <1>7 DEF Searching!Next

Names == Searching!KnownEngines \cup Searching!KnownProviders \cup {"chrome"}
LEMMA NoneIsNoName == None \notin Names
BY NoneAssumption DEF Names, Searching!KnownEngines, Searching!KnownProviders

\* Where a search may begin.
LEMMA Started ==
  ASSUME FilesKept, NEW r, NEW s \in Searching!Resolve(r)
  PROVE  Placed(s)
<1> DEFINE unplanned == Searching!New(r, "pool", <<>>)
           engines == IF r \in Searching!KnownEngines THEN <<r>>
                      ELSE Searching!EnginesOrDefault(Searching!ChromeConfig)
<1>1. \/ s = Searching!Answered(unplanned, "503", FALSE)
      \/ /\ Searching!Explicit(r) \/ r = None
         /\ s = Searching!New(r, "connect", engines)
      \/ /\ ~Searching!Explicit(r)
         /\ \E t \in Searching!Picks(r) : s = [unplanned EXCEPT !.at = "execute", !.target = t]
  BY Zenon DEF Searching!Resolve
<1>2. engines \in Seq(Engines)
  <2>1. <<"google", "bing">> \in Seq(Engines)
    BY DEF Engines, Searching!KnownEngines
  <2>2. Searching!Get \in SearchFiles
    <3>1. Searching!EmptyFile \in SearchFiles
      BY DEF Searching!EmptyFile, SearchFiles
    <3> QED BY <3>1 DEF FilesKept, Searching!Get
  <2>3. Searching!ChromeConfig.engines \in Seq(Engines)
    BY <2>2 DEF Searching!ChromeConfig, SearchFiles
  <2>4. r \in Searching!KnownEngines => <<r>> \in Seq(Engines)
    BY DEF Engines
  <2> QED BY <2>1, <2>3, <2>4 DEF Searching!EnginesOrDefault
<1>3. CASE s = Searching!Answered(unplanned, "503", FALSE)
  <2>1. /\ s.at = "answered" /\ s.by = "503" /\ s.plan = <<>>
    BY <1>3 DEF Searching!Answered, Searching!New
  <2> QED BY <2>1 DEF Placed, Honest, Searching!KnownEngines
<1>4. CASE /\ Searching!Explicit(r) \/ r = None
           /\ s = Searching!New(r, "connect", engines)
  <2> HIDE DEF engines
  <2>1. /\ Shaped(s) /\ s.at = "connect" /\ s.asked = r
        /\ s.plan = engines /\ s.engines = engines
    BY <1>4 DEF Searching!New, Shaped
  <2>2. Behind(s)
    BY <1>2, <2>1 DEF Behind
  <2>3. ByChrome(s)
    BY <1>4, <2>1 DEF ByChrome, engines
  <2> QED BY <1>2, <2>1, <2>2, <2>3 DEF Placed, Underway, Browsing
<1>5. CASE /\ ~Searching!Explicit(r)
           /\ \E t \in Searching!Picks(r) : s = [unplanned EXCEPT !.at = "execute", !.target = t]
  <2>1. PICK t \in Searching!Picks(r) : s = [unplanned EXCEPT !.at = "execute", !.target = t]
    BY <1>5, Zenon
  <2>2. /\ Shaped(s) /\ s.at = "execute" /\ s.asked = r /\ s.plan = <<>> /\ s.target = t
    BY <2>1 DEF Searching!New, Shaped
  <2>3. /\ t.provider \in Searching!KnownProviders
        /\ r \in Searching!KnownProviders => t.provider = r
    BY PicksAre
  <2>4. s.plan \in Seq(Engines) /\ AllFailed(s)
    BY <2>2 DEF AllFailed
  <2> QED BY <1>5, <2>2, <2>3, <2>4 DEF Placed, Underway, Executing
<1> HIDE DEF engines, unplanned
<1> QED BY <1>1, <1>3, <1>4, <1>5, Zenon

\* A search that is at work is underway.
LEMMA AtWork ==
  ASSUME NEW s, Placed(s), s.at \notin {"idle", "answered"}
  PROVE  Underway(s)
BY DEF Placed, Searching!Idle

\* A search leaves an engine that failed behind.
LEMMA PassedOver ==
  ASSUME NEW s, Underway(s), Browsing(s), s.engines # <<>>
  PROVE  Placed(Searching!NextEngine(s))
<1> DEFINE t == Searching!NextEngine(s)
           n == Len(s.plan)
           k == Len(s.engines)
<1>1. /\ Shaped(t) /\ t.at = "engine" /\ t.asked = s.asked /\ t.plan = s.plan
      /\ t.failed = s.failed \cup {Head(s.engines)} /\ t.engines = Tail(s.engines)
  BY DEF Underway, Shaped, Searching!NextEngine
<1>2. s.engines \in Seq(Engines) /\ k \in Nat /\ k > 0 /\ n \in Nat /\ k <= n /\ s.plan \in Seq(Engines)
  BY DEF Underway, Browsing, Behind
<1>3. /\ Tail(s.engines) \in Seq(Engines) /\ Len(Tail(s.engines)) = k - 1
      /\ \A j \in 1 .. (k - 1) : Tail(s.engines)[j] = s.engines[j + 1]
      /\ Head(s.engines) = s.engines[1]
  BY <1>2, HeadTailProperties
<1>4. /\ \A j \in 1 .. k : s.engines[j] = s.plan[(n - k) + j]
      /\ \A j \in 1 .. (n - k) : s.plan[j] \in s.failed
  BY DEF Browsing, Behind
<1> HIDE DEF n, k, t
<1>5. \A j \in 1 .. (k - 1) : Tail(s.engines)[j] = s.plan[(n - (k - 1)) + j]
  <2> SUFFICES ASSUME NEW j \in 1 .. (k - 1)
               PROVE  Tail(s.engines)[j] = s.plan[(n - (k - 1)) + j]
    OBVIOUS
  <2>1. j + 1 \in 1 .. k /\ (n - k) + (j + 1) = (n - (k - 1)) + j
    BY <1>2
  <2> QED BY <1>3, <1>4, <2>1
<1>6. \A j \in 1 .. (n - (k - 1)) : s.plan[j] \in s.failed \cup {Head(s.engines)}
  <2> SUFFICES ASSUME NEW j \in 1 .. (n - (k - 1))
               PROVE  s.plan[j] \in s.failed \cup {Head(s.engines)}
    OBVIOUS
  <2>1. j \in 1 .. (n - k) \/ j = (n - k) + 1
    BY <1>2
  <2>2. 1 \in 1 .. k
    BY <1>2
  <2> QED BY <1>3, <1>4, <2>1, <2>2
<1>7. Behind(t)
  <2>1. Len(t.engines) = k - 1 /\ Len(t.plan) = n /\ k - 1 <= n
    BY <1>1, <1>2, <1>3 DEF n
  <2> QED BY <1>1, <1>3, <1>5, <1>6, <2>1 DEF Behind
<1>8. ByChrome(t)
  BY <1>1 DEF Browsing, ByChrome
<1> QED BY <1>1, <1>2, <1>7, <1>8 DEF Placed, Underway, Browsing, t

\* The pool is what is left when all engines have failed.
LEMMA AllPassedOver ==
  ASSUME NEW s, Underway(s), Browsing(s), s.engines = <<>>
  PROVE  Placed(Searching!Unfound(s))
<1> DEFINE t == Searching!Unfound(s)
<1>1. /\ Shaped(t) /\ t.at = "fallback" /\ t.asked = s.asked /\ t.plan = s.plan
      /\ t.failed = s.failed
  BY DEF Underway, Shaped, Searching!Unfound
<1>2. AllFailed(t)
  <2>1. Len(s.engines) = 0 /\ Len(s.plan) \in Nat
    BY DEF Underway
  <2>2. \A j \in 1 .. Len(s.plan) : s.plan[j] \in s.failed
    BY <2>1 DEF Browsing, Behind
  <2> HIDE DEF t
  <2> QED BY <1>1, <2>2 DEF AllFailed
<1> HIDE DEF t
<1>3. ByChrome(t) /\ t.plan \in Seq(Engines)
  BY <1>1 DEF Underway, Browsing, ByChrome
<1> QED BY <1>1, <1>2, <1>3 DEF Placed, Underway, Beaten, t

\* So it is when there is no browser to connect to.
LEMMA Unconnected ==
  ASSUME NEW s, Underway(s), Browsing(s)
  PROVE  Placed([Searching!Unfound(s) EXCEPT !.failed = Searching!ToSet(s.plan)])
<1> DEFINE t == [Searching!Unfound(s) EXCEPT !.failed = Searching!ToSet(s.plan)]
<1>1. /\ Shaped(t) /\ t.at = "fallback" /\ t.asked = s.asked /\ t.plan = s.plan
      /\ t.failed = Searching!ToSet(s.plan)
  BY DEF Underway, Shaped, Searching!Unfound
<1> HIDE DEF t
<1>2. AllFailed(t)
  <2>1. \A j \in 1 .. Len(s.plan) : s.plan[j] \in Searching!ToSet(s.plan)
    BY DEF Underway, Searching!ToSet
  <2> QED BY <1>1, <2>1 DEF AllFailed
<1>3. ByChrome(t) /\ t.plan \in Seq(Engines)
  BY <1>1 DEF Underway, Browsing, ByChrome
<1> QED BY <1>1, <1>2, <1>3 DEF Placed, Underway, Beaten, t

\* A search with Chrome that goes on with the same engine.
LEMMA SameEngine ==
  ASSUME NEW s, NEW t, Underway(s), Browsing(s), Shaped(t),
         t.at \in {"engine", "render", "close"}, t.asked = s.asked, t.plan = s.plan,
         t.engines = s.engines, t.failed = s.failed,
         t.at \in {"render", "close"} => s.engines # <<>> /\ Head(s.engines) \in Searching!KnownEngines
  PROVE  Placed(t)
BY DEF Placed, Underway, Browsing, ByChrome, Behind

\* What an engine has found is told in its name.
LEMMA FoundByEngine ==
  ASSUME NEW s, Underway(s), Browsing(s), s.at = "close"
  PROVE  Placed(Searching!Answered(s, Head(s.engines), TRUE))
<1> DEFINE t == Searching!Answered(s, Head(s.engines), TRUE)
           n == Len(s.plan)
           k == Len(s.engines)
<1>1. /\ t.at = "answered" /\ t.asked = s.asked /\ t.plan = s.plan /\ t.failed = s.failed
      /\ t.by = Head(s.engines) /\ t.found = TRUE
  BY DEF Searching!Answered
<1>2. /\ s.engines \in Seq(Engines) /\ s.engines # <<>> /\ s.plan \in Seq(Engines)
      /\ Head(s.engines) \in Searching!KnownEngines /\ k <= n
      /\ \A j \in 1 .. k : s.engines[j] = s.plan[(n - k) + j]
      /\ \A j \in 1 .. (n - k) : s.plan[j] \in s.failed
  BY DEF Underway, Browsing, Behind
<1>3. k \in Nat /\ n \in Nat /\ k > 0 /\ Head(s.engines) = s.engines[1] /\ DOMAIN s.plan = 1 .. n
  BY <1>2
<1> HIDE DEF t, n, k
<1>4. /\ (n - k) + 1 \in 1 .. n /\ s.plan[(n - k) + 1] = t.by
      /\ \A j \in 1 .. (((n - k) + 1) - 1) : s.plan[j] \in s.failed
  <2>1. 1 \in 1 .. k /\ ((n - k) + 1) - 1 = n - k
    BY <1>2, <1>3
  <2> QED BY <1>1, <1>2, <1>3, <2>1
<1>5. \E i \in DOMAIN t.plan : t.plan[i] = t.by /\ \A j \in 1 .. (i - 1) : t.plan[j] \in t.failed
  BY <1>1, <1>3, <1>4
<1>6. s.asked \in Searching!KnownEngines => t.by = s.asked
  <2> SUFFICES ASSUME s.asked \in Searching!KnownEngines PROVE t.by = s.asked
    OBVIOUS
  <2>1. s.plan = <<s.asked>>
    BY DEF Browsing, ByChrome
  <2>2. n = 1
    BY <2>1 DEF n
  <2>3. s.plan[1] = s.asked /\ (n - k) + 1 = 1
    BY <1>2, <1>3, <2>1, <2>2
  <2> QED BY <1>4, <2>3
<1>7. s.asked \notin Searching!KnownProviders /\ t.by # "503"
  BY <1>1, <1>2, NoneIsNoName
    DEF Browsing, ByChrome, Searching!Explicit, Names, Searching!KnownEngines, Searching!KnownProviders
<1> QED BY <1>1, <1>2, <1>5, <1>6, <1>7 DEF Placed, Honest, t

\* Who named Chrome or an engine gets its failure.
LEMMA Refused503 ==
  ASSUME NEW s, Underway(s), s.at = "fallback", Searching!Explicit(s.asked)
  PROVE  Placed(Searching!Answered(s, "503", FALSE))
<1> DEFINE t == Searching!Answered(s, "503", FALSE)
<1>1. /\ t.at = "answered" /\ t.asked = s.asked /\ t.plan = s.plan /\ t.failed = s.failed
      /\ t.by = "503"
  BY DEF Searching!Answered
<1>2. Searching!ToSet(s.plan) \subseteq s.failed
  BY DEF Underway, Browsing, Beaten, Executing, AllFailed, Searching!ToSet
<1>3. t.asked # None
  BY <1>1, NoneIsNoName DEF Searching!Explicit, Names
<1> HIDE DEF t
<1> QED BY <1>1, <1>2, <1>3 DEF Placed, Honest, Searching!KnownEngines, t

\* The others get the pool, or are told that it has nothing, either.
LEMMA NothingInPool ==
  ASSUME NEW s, Underway(s), s.at = "fallback"
  PROVE  Placed(Searching!Answered([s EXCEPT !.pool = "none"], "503", FALSE))
<1> DEFINE e == [s EXCEPT !.pool = "none"]
           t == Searching!Answered(e, "503", FALSE)
<1>1. e.asked = s.asked /\ e.plan = s.plan /\ e.failed = s.failed /\ e.pool = "none"
  BY DEF Underway, Shaped
<1> HIDE DEF e
<1>2. /\ t.at = "answered" /\ t.asked = s.asked /\ t.plan = s.plan /\ t.failed = s.failed
      /\ t.by = "503" /\ t.pool = "none"
  BY <1>1 DEF Searching!Answered
<1>3. Searching!ToSet(s.plan) \subseteq s.failed
  BY DEF Underway, Browsing, Beaten, Executing, AllFailed, Searching!ToSet
<1> HIDE DEF t
<1> QED BY <1>2, <1>3 DEF Placed, Honest, Searching!KnownEngines, t, e
LEMMA ToPool ==
  ASSUME FilesKept, NEW s, Underway(s), s.at = "fallback", ~Searching!Explicit(s.asked),
         NEW p \in Searching!Picks(s.asked)
  PROVE  Placed([s EXCEPT !.at = "execute", !.target = p])
<1> DEFINE t == [s EXCEPT !.at = "execute", !.target = p]
<1>1. /\ Shaped(t) /\ t.at = "execute" /\ t.asked = s.asked /\ t.plan = s.plan
      /\ t.failed = s.failed /\ t.target = p
  BY DEF Underway, Shaped
<1>2. /\ p.provider \in Searching!KnownProviders
      /\ s.asked \in Searching!KnownProviders => p.provider = s.asked
  BY PicksAre
<1> HIDE DEF t
<1>3. AllFailed(t) /\ t.plan \in Seq(Engines)
  BY <1>1 DEF Underway, Browsing, Beaten, Executing, AllFailed
<1> QED BY <1>1, <1>2, <1>3 DEF Placed, Underway, Executing, t

\* The provider's answer is told in its name, its failure as 503.
LEMMA FoundByProvider ==
  ASSUME NEW s, Underway(s), s.at = "execute", NEW found
  PROVE  Placed(Searching!Answered(s, s.target.provider, found))
<1> DEFINE t == Searching!Answered(s, s.target.provider, found)
<1>1. /\ t.at = "answered" /\ t.asked = s.asked /\ t.plan = s.plan /\ t.failed = s.failed
      /\ t.by = s.target.provider
  BY DEF Searching!Answered
<1>2. Executing(s)
  BY DEF Underway, Browsing, Beaten
<1>3. Searching!ToSet(s.plan) \subseteq s.failed
  BY <1>2 DEF Underway, Executing, AllFailed, Searching!ToSet
<1> HIDE DEF t
<1>4. t.by \notin Searching!KnownEngines /\ t.by # "503"
  BY <1>1, <1>2 DEF Executing, Searching!KnownEngines, Searching!KnownProviders
<1> QED BY <1>1, <1>2, <1>3, <1>4 DEF Placed, Honest, Executing, Searching!Explicit, t
LEMMA FailedInPool ==
  ASSUME NEW s, Underway(s), s.at = "execute", NEW reply \in {"empty", "failed"}
  PROVE  Placed(Searching!Answered([s EXCEPT !.pool = reply], "503", FALSE))
<1> DEFINE e == [s EXCEPT !.pool = reply]
           t == Searching!Answered(e, "503", FALSE)
<1>1. e.asked = s.asked /\ e.plan = s.plan /\ e.failed = s.failed /\ e.pool = reply
  BY DEF Underway, Shaped
<1> HIDE DEF e
<1>2. /\ t.at = "answered" /\ t.asked = s.asked /\ t.plan = s.plan /\ t.failed = s.failed
      /\ t.by = "503" /\ t.pool = reply
  BY <1>1 DEF Searching!Answered
<1>3. Searching!ToSet(s.plan) \subseteq s.failed
  BY DEF Underway, Browsing, Beaten, Executing, AllFailed, Searching!ToSet
<1> HIDE DEF t
<1> QED BY <1>2, <1>3 DEF Placed, Honest, Searching!KnownEngines, t, e

\* What a search is moved to is where it then is.
LEMMA Moved ==
  ASSUME HonestInv, FilesKept', NEW w \in Searches, NEW s, Searching!Set(w, s), Placed(s)
  PROVE  HonestInv'
BY DEF HonestInv, Searching!Set

\* No search has begun at the start.
LEMMA HonestInit == ASSUME Searching!Init PROVE HonestInv
<1>1. FilesKept
  <2>1. SearchContents \subseteq SearchFiles
    BY ContentsAreFiles
  <2> QED BY <2>1 DEF FilesKept, Searching!Init
<1> QED BY <1>1 DEF HonestInv, Placed, Searching!Init

\* Every step of a search keeps HonestInv.
LEMMA HonestKept ==
  ASSUME HonestInv, [Searching!Next]_Searching!vars
  PROVE  HonestInv'
<1>0. FilesKept /\ FilesKept' /\ \A w \in Searches : Placed(search[w])
  BY FilesStay DEF HonestInv
<1>1. ASSUME NEW w \in Searches, NEW requested, Searching!Ask(w, requested)
      PROVE  HonestInv'
  <2>1. PICK s \in Searching!Resolve(requested) : Searching!Set(w, s)
    BY <1>1 DEF Searching!Ask
  <2> QED BY <1>0, <2>1, Started, Moved
<1>2. ASSUME NEW w \in Searches, Searching!Connect(w)
      PROVE  HonestInv'
  <2> DEFINE s == search[w]
             to == [s EXCEPT !.at = "engine"]
             failed == [Searching!Unfound(s) EXCEPT !.failed = Searching!ToSet(s.plan)]
  <2>1. s.at = "connect" /\ (Searching!Set(w, to) \/ Searching!Set(w, failed))
    BY <1>2, Zenon DEF Searching!Connect
  <2>2. Underway(s) /\ Browsing(s)
    BY <1>0, <2>1, AtWork DEF Underway, Beaten, Executing
  <2>3. Placed(to)
    <3>1. /\ Shaped(to) /\ to.at = "engine" /\ to.asked = s.asked /\ to.plan = s.plan
          /\ to.engines = s.engines /\ to.failed = s.failed
      BY <2>2 DEF Underway, Shaped
    <3> HIDE DEF to, s
    <3> QED BY <2>2, <3>1, SameEngine
  <2>4. Placed(failed)
    BY <2>2, Unconnected
  <2> HIDE DEF to, failed
  <2> QED BY <1>0, <2>1, <2>3, <2>4, Moved
<1>3. ASSUME NEW w \in Searches, Searching!OpenTab(w)
      PROVE  HonestInv'
  <2> DEFINE s == search[w]
             to(left) == [s EXCEPT !.at = "render", !.left = left]
  <2>1. s.at = "engine" /\ s.engines # <<>>
    BY <1>3, Zenon DEF Searching!OpenTab
  <2>5. \/ Searching!Set(w, Searching!NextEngine(s))
        \/ Head(s.engines) \in Searching!KnownEngines /\ \E left : Searching!Set(w, to(left))
    BY <1>3, Zenon DEF Searching!OpenTab
  <2>2. Underway(s) /\ Browsing(s)
    BY <1>0, <2>1, AtWork DEF Underway, Beaten, Executing
  <2>3. Placed(Searching!NextEngine(s))
    BY <2>1, <2>2, PassedOver
  <2>4. ASSUME Head(s.engines) \in Searching!KnownEngines, NEW left PROVE Placed(to(left))
    <3> DEFINE t == to(left)
    <3>1. /\ Shaped(t) /\ t.at = "render" /\ t.asked = s.asked /\ t.plan = s.plan
          /\ t.engines = s.engines /\ t.failed = s.failed
      BY <2>2 DEF Underway, Shaped
    <3> HIDE DEF t, to, s
    <3>2. Placed(t)
      BY <2>1, <2>2, <2>4, <3>1, SameEngine
    <3> QED BY <3>2 DEF t
  <2> HIDE DEF to
  <2> QED BY <1>0, <2>3, <2>4, <2>5, Moved
<1>4. ASSUME NEW w \in Searches, Searching!NoEngineLeft(w)
      PROVE  HonestInv'
  <2> DEFINE s == search[w]
  <2>1. s.at = "engine" /\ s.engines = <<>> /\ Searching!Set(w, Searching!Unfound(s))
    BY <1>4 DEF Searching!NoEngineLeft
  <2>2. Underway(s) /\ Browsing(s)
    BY <1>0, <2>1, AtWork DEF Underway, Beaten, Executing
  <2>3. Placed(Searching!Unfound(s))
    BY <2>1, <2>2, AllPassedOver
  <2> QED BY <1>0, <2>1, <2>3, Moved
<1>5. ASSUME NEW w \in Searches, Searching!Render(w)
      PROVE  HonestInv'
  <2> DEFINE s == search[w]
             closing(page) == [s EXCEPT !.at = "close", !.page = page]
             later == [s EXCEPT !.left = @ - 1]
  <2>1. s.at = "render"
    BY <1>5, Zenon DEF Searching!Render
  <2>6. \/ Searching!Set(w, closing("timeout")) \/ Searching!Set(w, later)
        \/ \E page \in {"found", "empty", "failed"} : Searching!Set(w, closing(page))
    BY <1>5, Zenon DEF Searching!Render
  <2>2. Underway(s) /\ Browsing(s)
    BY <1>0, <2>1, AtWork DEF Underway, Beaten, Executing
  <2>3. s.engines # <<>> /\ Head(s.engines) \in Searching!KnownEngines
    BY <2>1, <2>2 DEF Browsing
  <2>4. Placed(later)
    <3>1. /\ Shaped(later) /\ later.at = "render" /\ later.asked = s.asked /\ later.plan = s.plan
          /\ later.engines = s.engines /\ later.failed = s.failed
      BY <2>1, <2>2 DEF Underway, Shaped
    <3> HIDE DEF later, s
    <3> QED BY <2>2, <2>3, <3>1, SameEngine
  <2>5. ASSUME NEW page PROVE Placed(closing(page))
    <3> DEFINE t == closing(page)
    <3>1. /\ Shaped(t) /\ t.at = "close" /\ t.asked = s.asked /\ t.plan = s.plan
          /\ t.engines = s.engines /\ t.failed = s.failed
      BY <2>2 DEF Underway, Shaped
    <3> HIDE DEF t, closing, s
    <3>2. Placed(t)
      BY <2>2, <2>3, <3>1, SameEngine
    <3> QED BY <3>2 DEF t
  <2> HIDE DEF later, closing
  <2> QED BY <1>0, <2>4, <2>5, <2>6, Moved
<1>6. ASSUME NEW w \in Searches, Searching!CloseTab(w)
      PROVE  HonestInv'
  <2> DEFINE s == search[w]
             answered == Searching!Answered(s, Head(s.engines), TRUE)
  <2>1. s.at = "close" /\ (Searching!Set(w, answered) \/ Searching!Set(w, Searching!NextEngine(s)))
    BY <1>6 DEF Searching!CloseTab
  <2>2. Underway(s) /\ Browsing(s)
    BY <1>0, <2>1, AtWork DEF Underway, Beaten, Executing
  <2>3. Placed(Searching!NextEngine(s))
    <3>1. s.engines # <<>>
      BY <2>1, <2>2 DEF Browsing
    <3> QED BY <2>2, <3>1, PassedOver
  <2>4. Placed(answered)
    BY <2>1, <2>2, FoundByEngine
  <2> HIDE DEF answered
  <2> QED BY <1>0, <2>1, <2>3, <2>4, Moved
<1>7. ASSUME NEW w \in Searches, Searching!Fallback(w)
      PROVE  HonestInv'
  <2> DEFINE s == search[w]
             refused == Searching!Answered(s, "503", FALSE)
             nothing == Searching!Answered([s EXCEPT !.pool = "none"], "503", FALSE)
             to(t) == [s EXCEPT !.at = "execute", !.target = t]
  <2>1. s.at = "fallback"
    BY <1>7, Zenon DEF Searching!Fallback
  <2>2. \/ Searching!Explicit(s.asked) /\ Searching!Set(w, refused)
        \/ /\ ~Searching!Explicit(s.asked)
           /\ \/ Searching!Set(w, nothing)
              \/ \E t \in Searching!Picks(s.asked) : Searching!Set(w, to(t))
    BY <1>7, Zenon DEF Searching!Fallback
  <2>3. Underway(s)
    BY <1>0, <2>1, AtWork
  <2>4. Searching!Explicit(s.asked) => Placed(refused)
    BY <2>1, <2>3, Refused503
  <2>5. Placed(nothing)
    BY <2>1, <2>3, NothingInPool
  <2>6. ASSUME ~Searching!Explicit(s.asked), NEW t \in Searching!Picks(s.asked) PROVE Placed(to(t))
    <3>1. FilesKept
      BY <1>0
    <3> HIDE DEF s
    <3>2. Placed([s EXCEPT !.at = "execute", !.target = t])
      BY <2>1, <2>3, <2>6, <3>1, ToPool, Zenon
    <3> QED BY <3>2
  <2> HIDE DEF refused, nothing, to, s
  <2> QED BY <1>0, <2>2, <2>4, <2>5, <2>6, Moved
<1>8. ASSUME NEW w \in Searches, Searching!Execute(w)
      PROVE  HonestInv'
  <2> DEFINE s == search[w]
             given(found) == Searching!Answered(s, s.target.provider, found)
             failed(reply) == Searching!Answered([s EXCEPT !.pool = reply], "503", FALSE)
  <2>1. s.at = "execute"
    BY <1>8, Zenon DEF Searching!Execute
  <2>2. \/ \E found : Searching!Set(w, given(found))
        \/ \E reply \in {"empty", "failed"} : Searching!Set(w, failed(reply))
    <3>1. PICK reply \in {"found", "empty", "failed"} :
            Searching!Set(w, IF reply = "found" \/ (reply = "empty" /\ ~(s.plan # <<>>))
                             THEN given(reply = "found") ELSE failed(reply))
      BY <1>8, Zenon DEF Searching!Execute
    <3> HIDE DEF given, failed
    <3> QED BY <3>1
  <2>3. Underway(s)
    BY <1>0, <2>1, AtWork
  <2>4. \A found : Placed(given(found))
    BY <2>1, <2>3, FoundByProvider
  <2>5. \A reply \in {"empty", "failed"} : Placed(failed(reply))
    BY <2>1, <2>3, FailedInPool
  <2> HIDE DEF given, failed
  <2> QED BY <1>0, <2>2, <2>4, <2>5, Moved
<1>9. ASSUME NEW w \in Searches, Searching!Leave(w) \/ Searching!Done(w)
      PROVE  HonestInv'
  <2>1. Searching!Set(w, Searching!Idle)
    BY <1>9 DEF Searching!Leave, Searching!Done
  <2> QED BY <1>0, <2>1, Moved DEF Placed
<1>10. CASE \/ UNCHANGED Searching!vars \/ Searching!PutWrites \/ Searching!HandEdit
            \/ \E content \in SearchContents, withChrome \in BOOLEAN : Searching!PutBegins(content, withChrome)
  <2>1. UNCHANGED search
    BY <1>10 DEF Searching!vars, Searching!PutWrites, Searching!HandEdit, Searching!PutBegins
  <2> QED BY <1>0, <2>1 DEF HonestInv
<1> QED
  BY <1>1, <1>2, <1>3, <1>4, <1>5, <1>6, <1>7, <1>8, <1>9, <1>10 DEF Searching!Next

\* Whoever names an engine or a provider gets it or 503, and what comes in place of an
\* engine comes after all that were planned before it have failed, whatever the file holds
\* and however it changes under the search.  (search.rs, resolve and pick_provider_key;
\* routes/search.rs)
THEOREM AnswersAreHonest == Spec => []AnswersHonest
<1>1. Init => HonestInv
  BY HonestInit DEF Init
<1>2. HonestInv /\ [Next]_vars => HonestInv'
  BY Alone, HonestKept
<1>3. HonestInv => AnswersHonest
  <2> SUFFICES ASSUME HonestInv, NEW w \in Searches, search[w].at = "answered"
               PROVE  Honest(search[w])
    BY DEF AnswersHonest, Searching!AnswersHonest, Honest
  <2>1. Placed(search[w])
    BY DEF HonestInv
  <2> QED BY <2>1 DEF Placed, Searching!Idle, Underway, Browsing, Beaten, Executing
<1> QED BY <1>1, <1>2, <1>3, PTL DEF Spec
-------------------------------------------------------------------------------
(* Selection *)

\* The selection of keys and that of search providers draw with the same operators.
LEMMA SameDraws ==
  /\ \A f, S : Using!SumFunctionOnSet(f, S) = SumFunctionOnSet(f, S)
  /\ \A ss : Using!FlattenSeq(ss) = FlattenSeq(ss)
  /\ \A S : Using!Cardinality(S) = Cardinality(S) /\ Using!ToSet(S) = ToSet(S)
  /\ \A items, i : Using!UpTo(items, i) = Searching!UpTo(items, i)
  /\ \A items : Using!Total(items) = Searching!Total(items)
  /\ \A items, d : Using!Drawn(items, d) = Searching!Drawn(items, d)
<1>1. \A f, S : Using!SumFunctionOnSet(f, S) = SumFunctionOnSet(f, S)
  BY Zenon DEF Using!SumFunctionOnSet, Using!FoldFunctionOnSet, Using!MapThenFoldSet,
               SumFunctionOnSet, FoldFunctionOnSet, MapThenFoldSet
<1>2. \A ss : Using!FlattenSeq(ss) = FlattenSeq(ss)
  BY Zenon DEF Using!FlattenSeq, FlattenSeq
<1>3. \A items, i : Using!UpTo(items, i) = Searching!UpTo(items, i)
  BY <1>1, SameSearchSum DEF Using!UpTo, Searching!UpTo, Using!Weight, Searching!Weight
<1>4. \A items : Using!Total(items) = Searching!Total(items)
  BY <1>3 DEF Using!Total, Searching!Total
<1>5. \A items, d : Using!Drawn(items, d) = Searching!Drawn(items, d)
  BY <1>3 DEF Using!Drawn, Searching!Drawn
<1>6. \A S : Using!Cardinality(S) = Cardinality(S)
  BY Zenon DEF Using!Cardinality, Cardinality
<1>7. \A s : Using!ToSet(s) = ToSet(s)
  BY DEF Using!ToSet, ToSet
<1> QED BY <1>1, <1>2, <1>3, <1>4, <1>5, <1>6, <1>7

\* Candidates without their weights would have no order.
LEMMA WeightType ==
  ASSUME NEW X, NEW items \in Seq(X), Weighed(items), NEW i \in DOMAIN items
  PROVE  Using!Weight(items[i]) \in Nat
BY DEF Weighed, Using!Weight

\* The pairs of an order of the first n numbers.
Orders(R, n) ==
  /\ \A i \in 1 .. n : <<i, i>> \notin R
  /\ \A i, j, k \in 1 .. n : <<i, j>> \in R /\ <<j, k>> \in R => <<i, k>> \in R
  /\ \A i, j \in 1 .. n : i # j => <<i, j>> \in R \/ <<j, i>> \in R

\* An order of finitely many things puts each in a place of its own.
LEMMA Ranked ==
  ASSUME NEW n \in Nat, NEW R, Orders(R, n)
  PROVE  [i \in 1 .. n |-> 1 + Cardinality({j \in 1 .. n : <<j, i>> \in R})]
           \in Bijection(1 .. n, 1 .. n)
<1> DEFINE D == 1 .. n
           Before(i) == {j \in D : <<j, i>> \in R}
           f == [i \in D |-> 1 + Cardinality(Before(i))]
<1>0. IsFiniteSet(D) /\ Cardinality(D) = n
  BY FS_Interval
<1> USE DEF Orders
<1>1. \A i \in D : /\ IsFiniteSet(Before(i)) /\ Cardinality(Before(i)) \in Nat
                   /\ Cardinality(Before(i)) <= n - 1
  <2> TAKE i \in D
  <2>1. Before(i) \in SUBSET (D \ {i})
    OBVIOUS
  <2>2. IsFiniteSet(D \ {i}) /\ Cardinality(D \ {i}) = n - 1
    BY <1>0, FS_RemoveElement
  <2> HIDE DEF Before
  <2> QED BY <2>1, <2>2, FS_Subset, FS_CardinalityType
<1>2. f \in [D -> D]
  <2> HIDE DEF Before
  <2> QED BY <1>1
<1>3. ASSUME NEW i \in D, NEW k \in D, <<i, k>> \in R PROVE f[i] < f[k]
  <2>1. Before(i) \cup {i} \in SUBSET Before(k) /\ i \notin Before(i)
    BY <1>3
  <2> HIDE DEF Before
  <2>2. /\ IsFiniteSet(Before(i) \cup {i})
        /\ Cardinality(Before(i) \cup {i}) = Cardinality(Before(i)) + 1
    BY <1>1, <2>1, FS_AddElement
  <2>3. Cardinality(Before(i) \cup {i}) <= Cardinality(Before(k))
    BY <1>1, <2>1, FS_Subset
  <2>4. f[i] = 1 + Cardinality(Before(i)) /\ f[k] = 1 + Cardinality(Before(k))
    OBVIOUS
  <2>5. Cardinality(Before(i)) \in Nat /\ Cardinality(Before(k)) \in Nat
    BY <1>1
  <2> QED BY <2>2, <2>3, <2>4, <2>5
<1>4. \A i, k \in D : i # k => f[i] # f[k]
  <2> HIDE DEF f
  <2> TAKE i, k \in D
  <2>1. f[i] \in Int /\ f[k] \in Int
    BY <1>2
  <2>2. i # k => <<i, k>> \in R \/ <<k, i>> \in R
    OBVIOUS
  <2>3. <<i, k>> \in R => f[i] < f[k]
    BY <1>3
  <2>4. <<k, i>> \in R => f[k] < f[i]
    BY <1>3
  <2> QED BY <2>1, <2>2, <2>3, <2>4
<1> HIDE DEF f
<1>5. f \in Injection(D, D)
  BY <1>2, <1>4 DEF Injection, IsInjective
<1>6. f \in Surjection(D, D)
  BY <1>0, <1>5, FS_Injection
<1>7. f \in Bijection(D, D)
  BY <1>5, <1>6 DEF Bijection
<1> QED BY <1>7 DEF f

\* A route is a rearrangement of its pool, with the chosen one first.
LEMMA ArrangedOnce ==
  ASSUME NEW X, NEW cs \in Seq(X), Weighed(cs), NEW first \in DOMAIN cs
  PROVE  /\ Using!Arrangement(cs, first) \in Bijection(DOMAIN cs, DOMAIN cs)
         /\ Using!Arrangement(cs, first)[1] = first
<1> DEFINE n == Len(cs)
           D == 1 .. n
           w(i) == Using!Weight(cs[i])
           Before(j, i) == i # first /\ (j = first \/ Using!Heavier(cs, j, i))
           R == {q \in D \X D : Before(q[1], q[2])}
           f == [i \in D |-> 1 + Cardinality({j \in D : <<j, i>> \in R})]
           o == Using!Arrangement(cs, first)
<1>0. n \in Nat /\ DOMAIN cs = D /\ first \in D
  OBVIOUS
<1>1. \A i \in D : w(i) \in Nat
  BY <1>0, WeightType
<1>2. \A j, i \in D : /\ <<j, i>> \in R <=> Before(j, i)
                      /\ Using!Heavier(cs, j, i) <=> w(j) > w(i) \/ (w(j) = w(i) /\ j < i)
  BY DEF Using!Heavier
<1> HIDE DEF R
<1>3. \A i \in D : <<i, i>> \notin R
  <2> HIDE DEF w
  <2> QED BY <1>0, <1>1, <1>2
<1>4. \A i, j, k \in D : <<i, j>> \in R /\ <<j, k>> \in R => <<i, k>> \in R
  <2> TAKE i, j, k \in D
  <2>1. w(i) \in Nat /\ w(j) \in Nat /\ w(k) \in Nat /\ i \in Int /\ j \in Int /\ k \in Int
    BY <1>0, <1>1
  <2> HIDE DEF w, D
  <2> QED BY <1>2, <2>1
<1>5. \A i, j \in D : i # j => <<i, j>> \in R \/ <<j, i>> \in R
  <2> TAKE i, j \in D
  <2>1. w(i) \in Nat /\ w(j) \in Nat /\ i \in Int /\ j \in Int
    BY <1>0, <1>1
  <2> HIDE DEF w, D
  <2> QED BY <1>2, <2>1
<1>6. f \in Bijection(D, D)
  <2>1. n \in Nat /\ Orders(R, n)
    BY <1>0, <1>3, <1>4, <1>5 DEF Orders
  <2> HIDE DEF n
  <2> QED BY <2>1, Ranked
<1>7. o \in [D -> D] /\ \A p \in D : f[o[p]] = p
  <2> DEFINE place(i) == 1 + Using!Cardinality({j \in DOMAIN cs : Before(j, i)})
  <2>1. \A i \in D : {j \in D : <<j, i>> \in R} = {j \in DOMAIN cs : Before(j, i)}
    BY <1>0, <1>2
  <2>2. \A i \in D : f[i] = place(i)
    BY <2>1, SameDraws
  <2>3. o = [p \in DOMAIN cs |-> CHOOSE i \in DOMAIN cs : place(i) = p]
    BY DEF Using!Arrangement
  <2> HIDE DEF f, place, o
  <2>4. \A p \in D : \E i \in D : place(i) = p
    BY <1>6, <2>2 DEF Bijection, Surjection
  <2>5. \A p \in D : o[p] \in D /\ place(o[p]) = p
    BY <1>0, <2>3, <2>4
  <2> QED BY <1>0, <2>2, <2>3, <2>5
<1>8. f[first] = 1
  <2>1. {j \in D : <<j, first>> \in R} = {}
    BY <1>0, <1>2
  <2>2. f[first] = 1 + Cardinality({j \in D : <<j, first>> \in R})
    BY <1>0
  <2> QED BY <2>1, <2>2, FS_EmptySet
<1> HIDE DEF f, o
<1>9. \A p \in D : o[p] \in D /\ f[o[p]] = p
  BY <1>7
<1>10. \A i \in D : o[f[i]] = i
  <2> TAKE i \in D
  <2>1. f[i] \in D
    BY <1>6 DEF Bijection, Injection
  <2>2. o[f[i]] \in D /\ f[o[f[i]]] = f[i]
    BY <1>9, <2>1
  <2> QED BY <1>6, <2>2 DEF Bijection, Injection, IsInjective
<1>11. o \in Bijection(D, D)
  <2>1. o \in [D -> D]
    BY <1>7
  <2>2. \A p, q \in D : o[p] = o[q] => p = q
    BY <1>9
  <2>3. \A i \in D : f[i] \in D /\ o[f[i]] = i
    BY <1>6, <1>10 DEF Bijection, Injection
  <2> QED BY <2>1, <2>2, <2>3 DEF Bijection, Injection, Surjection, IsInjective
<1>12. o[1] = first
  <2>1. 1 \in D /\ o[1] \in D
    BY <1>0, <1>9
  <2>2. o[f[first]] = first
    BY <1>0, <1>10
  <2> QED BY <1>8, <2>2
<1> QED BY <1>0, <1>11, <1>12 DEF o

\* A route has the candidates of a pool, each as often.
Rearranged(route, cs) ==
  /\ Len(route) = Len(cs)
  /\ \A c : Using!Cardinality({i \in DOMAIN route : route[i] = c})
              = Using!Cardinality({i \in DOMAIN cs : cs[i] = c})

LEMMA FirstThenTheRest ==
  ASSUME NEW X, NEW cs \in Seq(X), Weighed(cs), NEW first \in DOMAIN cs
  PROVE  /\ Rearranged(Using!FirstThenByWeight(cs, first), cs)
         /\ Using!FirstThenByWeight(cs, first)[1] = cs[first]
<1> DEFINE n == Len(cs)
           D == 1 .. n
           o == Using!Arrangement(cs, first)
           r == Using!FirstThenByWeight(cs, first)
<1>0. n \in Nat /\ DOMAIN cs = D /\ first \in D /\ 1 \in D
  OBVIOUS
<1>1. o \in Bijection(D, D) /\ o[1] = first
  BY <1>0, ArrangedOnce
<1>2. r = [p \in D |-> cs[o[p]]]
  BY <1>0 DEF Using!FirstThenByWeight
<1> HIDE DEF o, r
<1>3. Len(r) = n /\ DOMAIN r = D
  <2>1. \A p \in D : cs[o[p]] \in X
    BY <1>0, <1>1 DEF Bijection, Injection
  <2> HIDE DEF n
  <2>2. r \in Seq(X)
    BY <1>0, <1>2, <2>1, IsASeq
  <2> QED BY <1>0, <1>2, <2>2, LenProperties
<1>4. ASSUME NEW c
      PROVE  Using!Cardinality({i \in DOMAIN r : r[i] = c})
               = Using!Cardinality({i \in DOMAIN cs : cs[i] = c})
  <2> DEFINE S == {i \in D : r[i] = c}
             T == {i \in D : cs[i] = c}
             g == [i \in S |-> o[i]]
  <2>1. g \in Bijection(S, T)
    <3>1. g \in [S -> T]
      BY <1>1, <1>2 DEF Bijection, Injection
    <3>2. \A i, j \in S : g[i] = g[j] => i = j
      BY <1>1 DEF Bijection, Injection, IsInjective
    <3>3. \A t \in T : \E i \in S : g[i] = t
      <4> TAKE t \in T
      <4>1. PICK i \in D : o[i] = t
        BY <1>1 DEF Bijection, Surjection
      <4> QED BY <1>2, <4>1
    <3> HIDE DEF g, S, T
    <3> QED BY <3>1, <3>2, <3>3 DEF Bijection, Injection, Surjection, IsInjective
  <2>2. IsFiniteSet(S)
    <3>1. IsFiniteSet(D) /\ S \in SUBSET D
      BY <1>0, FS_Interval
    <3> HIDE DEF S, D
    <3> QED BY <3>1, FS_Subset
  <2> HIDE DEF g, S, T
  <2>3. Cardinality(T) = Cardinality(S)
    BY <2>1, <2>2, FS_Bijection DEF ExistsBijection
  <2> QED BY <1>0, <1>3, <2>3, SameDraws DEF S, T
<1>5. r[1] = cs[first]
  BY <1>0, <1>1, <1>2
<1> QED BY <1>3, <1>4, <1>5 DEF Rearranged, r

\* What is left of a pool has candidates of it, and at least one.
LEMMA DropKeeps ==
  ASSUME NEW X, NEW cs \in Seq(X), cs # <<>>, NEW used
  PROVE  Using!DropExhausted(cs, used) \in Seq(X) \ {<<>>}
<1> DEFINE weighted(c) == {k \in Using!ToSet(c.keys) : k.weight > 0}
           spent(c) == weighted(c) # {} /\ \A k \in weighted(c) : Using!Exhausted(k, used)
           of(i) == IF spent(cs[i]) THEN <<>> ELSE <<cs[i]>>
           ss == [i \in DOMAIN cs |-> of(i)]
           kept == Using!FlattenSeq(ss)
<1>1. Using!DropExhausted(cs, used) = IF kept = <<>> THEN cs ELSE kept
  BY DEF Using!DropExhausted
<1> HIDE DEF spent
<1>2. Len(cs) \in Nat /\ DOMAIN cs = 1 .. Len(cs)
  OBVIOUS
<1>3. \A i \in 1 .. Len(cs) : of(i) \in Seq(X)
  OBVIOUS
<1>4. ss \in Seq(Seq(X))
  <2> HIDE DEF of
  <2> QED BY <1>2, <1>3, IsASeq
<1> HIDE DEF ss
<1>5. kept \in Seq(X)
  BY <1>4, FlattenType, SameDraws
<1> HIDE DEF kept
<1> QED BY <1>1, <1>5

\* Every draw of a request falls on a candidate.
LEMMA DrawsThere ==
  ASSUME NEW X, NEW cs \in Seq(X), Weighed(cs), NEW session \in Int, Using!Total(cs) # 0
  PROVE  /\ Using!Total(cs) \in Nat
         /\ Using!Draws(cs, session) \subseteq 0 .. (Using!Total(cs) - 1)
         /\ \A d \in Using!Draws(cs, session) : Using!Drawn(cs, d) \in DOMAIN cs
<1>1. Using!Total(cs) \in Nat
  BY WeightsAddUp, SameDraws DEF Searching!Total
<1>2. Using!Draws(cs, session) \subseteq 0 .. (Using!Total(cs) - 1)
  BY <1>1 DEF Using!Draws
<1>3. \A d \in 0 .. (Using!Total(cs) - 1) : Using!Drawn(cs, d) \in DOMAIN cs
  BY DrawnThere, SameDraws
<1> QED BY <1>1, <1>2, <1>3

AtMostOne(S) == \A i, j \in S : i = j

\* The routes of a request are rearrangements, and only one when the first candidate is
\* told by its session or by usage.
LEMMA OrderTargetsIs ==
  ASSUME NEW X, NEW cs \in Seq(X), Weighed(cs), NEW session \in Int,
         NEW preferred \in SUBSET (DOMAIN cs), AtMostOne(preferred)
  PROVE  /\ \A route \in Using!OrderTargets(cs, session, preferred) : Rearranged(route, cs)
         /\ session >= 0 => \E route : Using!OrderTargets(cs, session, preferred) = {route}
<1> DEFINE firsts == IF preferred # {} THEN preferred
                     ELSE {Using!Drawn(cs, d) : d \in Using!Draws(cs, session)}
           routes == Using!OrderTargets(cs, session, preferred)
<1>1. Rearranged(cs, cs)
  BY DEF Rearranged
<1>2. \/ routes = {cs}
      \/ /\ Using!Total(cs) # 0
         /\ routes = {Using!FirstThenByWeight(cs, i) : i \in firsts}
  BY DEF Using!OrderTargets
<1> HIDE DEF routes
<1>3. CASE routes = {cs}
  BY <1>1, <1>3 DEF routes
<1>4. CASE /\ Using!Total(cs) # 0
           /\ routes = {Using!FirstThenByWeight(cs, i) : i \in firsts}
  <2>1. firsts \subseteq DOMAIN cs
    BY <1>4, DrawsThere
  <2>2. session >= 0 => \E i : firsts = {i}
    <3>1. CASE preferred # {}
      <4>1. PICK i \in preferred : TRUE
        BY <3>1
      <4>2. preferred = {i} /\ firsts = preferred
        BY <3>1, <4>1 DEF AtMostOne
      <4> HIDE DEF firsts
      <4> QED BY <4>2
    <3>2. CASE preferred = {}
      <4>1. session >= 0 => firsts = {Using!Drawn(cs, session % Using!Total(cs))}
        BY <3>2 DEF Using!Draws
      <4> DEFINE it == Using!Drawn(cs, session % Using!Total(cs))
      <4> HIDE DEF firsts, it
      <4>2. session >= 0 => firsts = {it}
        BY <4>1 DEF it
      <4> QED BY <4>2
    <3> QED BY <3>1, <3>2
  <2> HIDE DEF firsts
  <2>3. \A route \in routes : Rearranged(route, cs)
    BY <1>4, <2>1, FirstThenTheRest
  <2>4. session >= 0 => \E route : routes = {route}
    <3> SUFFICES ASSUME session >= 0 PROVE \E route : routes = {route}
      OBVIOUS
    <3>1. PICK i : firsts = {i}
      BY <2>2
    <3>2. routes = {Using!FirstThenByWeight(cs, i)}
      BY <1>4, <3>1
    <3> QED BY <3>2
  <2> QED BY <2>3, <2>4 DEF routes
<1> QED BY <1>2, <1>3, <1>4

\* The weights add up one after the other.
LEMMA UpToGrows ==
  ASSUME NEW X, NEW items \in Seq(X), Weighed(items)
  PROVE  /\ Using!UpTo(items, 0) = 0
         /\ \A i \in 0 .. Len(items) : Using!UpTo(items, i) \in Nat
         /\ \A i \in 1 .. Len(items) :
              Using!UpTo(items, i) = Using!UpTo(items, i - 1) + Using!Weight(items[i])
         /\ \A i, j \in 0 .. Len(items) : i <= j => Using!UpTo(items, i) <= Using!UpTo(items, j)
<1> DEFINE n == Len(items)
           f == [j \in DOMAIN items |-> Using!Weight(items[j])]
           U(i) == Using!UpTo(items, i)
<1>0. n \in Nat /\ DOMAIN items = 1 .. n
  OBVIOUS
<1>1. U(0) = 0 /\ \A i \in 0 .. n : U(i) \in Nat
  BY WeightsAddUp, SameDraws
<1>2. \A j \in 1 .. n : f[j] \in Nat /\ f[j] = Using!Weight(items[j])
  BY <1>0, WeightType
<1>3. \A i : U(i) = SumFunctionOnSet(f, 1 .. i)
  BY SameDraws DEF Using!UpTo
<1> HIDE DEF f, U
<1>4. ASSUME NEW i \in 1 .. n PROVE U(i) = U(i - 1) + f[i]
  <2>0. IsFiniteSet(1 .. i)
    BY <1>0, FS_Interval
  <2>1. i \in 1 .. i /\ (1 .. i) \ {i} = 1 .. (i - 1)
    BY <1>0
  <2>2. \A j \in 1 .. i : f[j] \in Int
    BY <1>0, <1>2
  <2>3. U(i) = f[i] + SumFunctionOnSet(f, (1 .. i) \ {i})
    BY <1>3, <2>0, <2>1, <2>2, SumRemove
  <2>4. U(i - 1) \in Nat /\ U(i - 1) = SumFunctionOnSet(f, 1 .. (i - 1))
    BY <1>0, <1>1, <1>3
  <2>5. f[i] \in Nat
    BY <1>2
  <2>6. U(i) = f[i] + U(i - 1)
    BY <2>1, <2>3, <2>4
  <2> QED BY <2>4, <2>5, <2>6
<1>5. ASSUME NEW i \in 0 .. n PROVE \A j \in 0 .. n : i <= j => U(i) <= U(j)
  <2> DEFINE T == {j \in 0 .. n : i <= j => U(i) <= U(j)}
  <2>1. 0 \in T
    BY <1>0, <1>1
  <2>2. ASSUME NEW j \in 0 .. (n - 1), j \in T PROVE j + 1 \in T
    <3>1. j + 1 \in 1 .. n /\ (j + 1) - 1 = j
      BY <1>0
    <3>2. U(j + 1) = U(j) + f[j + 1] /\ f[j + 1] \in Nat
      BY <1>2, <1>4, <3>1
    <3>3. U(j) \in Nat /\ U(i) \in Nat
      BY <1>0, <1>1
    <3>4. i <= j \/ i = j + 1 \/ ~(i <= j + 1)
      BY <1>0
    <3>5. i <= j => U(i) <= U(j)
      BY <2>2
    <3> QED BY <1>0, <3>1, <3>2, <3>3, <3>4, <3>5
  <2>3. \A j \in 0 .. n : j \in T
    <3> HIDE DEF T
    <3> QED BY <1>0, <2>1, <2>2, StepByStep
  <2> QED BY <2>3
<1>6. \A i \in 1 .. n : U(i) = U(i - 1) + Using!Weight(items[i])
  BY <1>2, <1>4
<1> QED BY <1>1, <1>5, <1>6 DEF U

\* An item is what its own stretch of draws falls on.
LEMMA DrawnWithin ==
  ASSUME NEW X, NEW items \in Seq(X), Weighed(items),
         NEW d \in 0 .. (Using!Total(items) - 1), NEW i \in DOMAIN items
  PROVE  Using!Drawn(items, d) = i <=> Using!UpTo(items, i - 1) <= d /\ d < Using!UpTo(items, i)
<1> DEFINE n == Len(items)
           U(j) == Using!UpTo(items, j)
           In(j) == U(j - 1) <= d /\ d < U(j)
           t == Using!Drawn(items, d)
<1>0. n \in Nat /\ DOMAIN items = 1 .. n
  OBVIOUS
<1>1. /\ \A j \in 0 .. n : U(j) \in Nat
      /\ \A j, k \in 0 .. n : j <= k => U(j) <= U(k)
  BY UpToGrows
<1> HIDE DEF U
<1>2. \A j, k \in 1 .. n : In(j) /\ In(k) => j = k
  <2> SUFFICES ASSUME NEW j \in 1 .. n, NEW k \in 1 .. n, In(j), In(k), j < k PROVE FALSE
    BY <1>0
  <2>1. j \in 0 .. n /\ k - 1 \in 0 .. n /\ j <= k - 1
    BY <1>0
  <2>2. U(j) <= U(k - 1) /\ U(j) \in Nat /\ U(k - 1) \in Nat
    BY <1>1, <2>1
  <2> QED BY <2>2
<1>3. t \in DOMAIN items
  BY DrawnThere, SameDraws
<1>4. In(t)
  <2>1. \E j \in DOMAIN items : In(j)
    BY DrawnSomewhere, SameDraws DEF U
  <2>2. t = CHOOSE j \in DOMAIN items : In(j)
    BY DEF Using!Drawn, U
  <2> HIDE DEF In, t
  <2> QED BY <2>1, <2>2
<1> HIDE DEF In, t
<1>5. t = i <=> In(i)
  BY <1>0, <1>2, <1>3, <1>4
<1> QED BY <1>5 DEF In, U, t

\* Any items are drawn as often as their weights say.
LEMMA DrawnAsOften ==
  ASSUME NEW X, NEW items \in Seq(X), Weighed(items), NEW I \in SUBSET (DOMAIN items)
  PROVE  Cardinality({d \in 0 .. (Using!Total(items) - 1) : Using!Drawn(items, d) \in I})
           = SumFunctionOnSet([i \in DOMAIN items |-> Using!Weight(items[i])], I)
<1> DEFINE n == Len(items)
           S == 0 .. (Using!Total(items) - 1)
           U(j) == Using!UpTo(items, j)
           w == [i \in DOMAIN items |-> Using!Weight(items[i])]
           ones == [d \in S |-> 1]
           on == [d \in S |-> Using!Drawn(items, d)]
           Of(i) == {d \in S : on[d] = i}
           sums == [i \in I |-> SumFunctionOnSet(ones, Of(i))]
<1>0. n \in Nat /\ DOMAIN items = 1 .. n
  OBVIOUS
<1>1. /\ U(0) = 0 /\ \A j \in 0 .. n : U(j) \in Nat
      /\ \A j \in 1 .. n : U(j) = U(j - 1) + w[j] /\ w[j] \in Nat
      /\ \A j, k \in 0 .. n : j <= k => U(j) <= U(k)
      /\ Using!Total(items) = U(n)
  BY UpToGrows, WeightType DEF Using!Total
<1>2. IsFiniteSet(S) /\ IsFiniteSet(I) /\ \A d \in S : ones[d] = 1 /\ ones[d] \in Int
  <2>0. n \in 0 .. n /\ IsFiniteSet(1 .. n)
    BY <1>0, FS_Interval
  <2>1. U(n) \in Nat /\ IsFiniteSet(DOMAIN items)
    BY <1>0, <1>1, <2>0
  <2>2. IsFiniteSet(I)
    BY <2>1, FS_Subset
  <2>3. IsFiniteSet(S)
    BY <1>1, <2>1, FS_Interval
  <2> QED BY <2>2, <2>3
<1>3. ASSUME NEW i \in I PROVE SumFunctionOnSet(ones, Of(i)) = w[i]
  <2>1. i \in 1 .. n /\ i - 1 \in 0 .. n /\ i \in 0 .. n /\ n \in 0 .. n
    BY <1>0
  <2> HIDE DEF U, w
  <2>2. /\ U(i) \in Nat /\ U(i - 1) \in Nat /\ w[i] \in Nat /\ U(i) = U(i - 1) + w[i]
        /\ U(i) <= U(n) /\ U(n) \in Nat
    <3>1. U(i) = U(i - 1) + w[i] /\ w[i] \in Nat
      BY <1>1, <2>1
    <3>2. U(i) \in Nat /\ U(i - 1) \in Nat /\ U(n) \in Nat
      BY <1>1, <2>1
    <3>3. i <= n /\ U(i) <= U(n)
      BY <1>0, <1>1, <2>1
    <3> QED BY <3>1, <3>2, <3>3
  <2>3. \A d \in S : on[d] = i <=> U(i - 1) <= d /\ d < U(i)
    BY <1>0, <2>1, DrawnWithin DEF U
  <2> HIDE DEF on, ones
  <2>4. Of(i) = U(i - 1) .. (U(i) - 1)
    <3> DEFINE a == U(i - 1)
               b == U(i)
               c == U(n)
    <3>1. S = 0 .. (c - 1) /\ Of(i) = {d \in S : a <= d /\ d < b}
      BY <1>1, <2>3
    <3>2. a \in Nat /\ b \in Nat /\ c \in Nat /\ b <= c
      BY <2>2
    <3> HIDE DEF a, b, c, S, Of
    <3>3. Of(i) = a .. (b - 1)
      BY <3>1, <3>2
    <3> QED BY <3>3 DEF a, b
  <2>5. Of(i) \in SUBSET S
    OBVIOUS
  <2>6. Cardinality(Of(i)) = w[i]
    <3> DEFINE a == U(i - 1)
               b == U(i) - 1
    <3>1. a \in Int /\ b \in Int /\ w[i] = IF a > b THEN 0 ELSE b - a + 1
      BY <2>2
    <3>2. Of(i) = a .. b
      BY <2>4
    <3> HIDE DEF a, b, Of
    <3> QED BY <3>1, <3>2, FS_Interval
  <2> HIDE DEF Of, S
  <2>7. SumFunctionOnSet(ones, Of(i)) = Cardinality(Of(i))
    <3>1. IsFiniteSet(Of(i))
      BY <1>2, <2>5, FS_Subset
    <3>2. \A d \in Of(i) : ones[d] = 1
      BY <1>2, <2>5
    <3> QED BY <3>1, <3>2, SumOfOnes
  <2> QED BY <2>6, <2>7
<1>4. SumFunctionOnSet(sums, I) = SumFunctionOnSet(ones, {d \in S : on[d] \in I})
  <2> HIDE DEF S, ones, on
  <2> QED BY <1>2, SumParts
<1>5. SumFunctionOnSet(sums, I) = SumFunctionOnSet(w, I)
  <2> HIDE DEF S, ones, on, w, Of
  <2>1. \A i \in I : sums[i] = w[i]
    BY <1>3
  <2> HIDE DEF sums
  <2> QED BY <1>2, <2>1, SumCongruent
<1>6. SumFunctionOnSet(ones, {d \in S : on[d] \in I}) = Cardinality({d \in S : on[d] \in I})
  <2> DEFINE H == {d \in S : on[d] \in I}
  <2>1. H \in SUBSET S
    OBVIOUS
  <2>2. \A d \in H : ones[d] = 1
    OBVIOUS
  <2> HIDE DEF S, ones, on, H
  <2>3. IsFiniteSet(H)
    BY <1>2, <2>1, FS_Subset
  <2> QED BY <2>2, <2>3, SumOfOnes DEF H
<1>7. {d \in S : on[d] \in I} = {d \in S : Using!Drawn(items, d) \in I}
  OBVIOUS
<1> HIDE DEF S, ones, on, w, sums
<1> QED BY <1>4, <1>5, <1>6, <1>7 DEF S, w

Candidates ==
  [model : STRING, weight : Int, strategy : STRING,
   keys : Seq([provider : STRING \ {"nobody"}, name : Nat, weight : Int, quota : Int])]

LEMMA CandidatesWeighed ==
  ASSUME NEW cs \in Seq(Candidates)
  PROVE  Weighed(cs)
<1>1. \A j \in 1 .. Len(cs) : cs[j] \in Candidates
  OBVIOUS
<1> QED BY <1>1 DEF Weighed, Candidates

\* The routes of an alias rearrange what is left of its pool; that of a session is one, and
\* starts where a weighted pool is drawn.
LEMMA RoutesOf ==
  ASSUME NEW a \in DOMAIN Pools, NEW session \in Int,
         NEW whole, whole = IF Pools[a][1].strategy = "priority"
                            THEN Using!DropExhausted(Pools[a], Using!TokensToday(Using!Names))
                            ELSE Pools[a]
  PROVE  /\ \A route \in Using!RouteAliases(a, session) : Rearranged(route, whole)
         /\ session >= 0 => \E route : Using!RouteAliases(a, session) = {route}
         /\ Pools[a][1].strategy = "weighted" /\ session \in 0 .. (Using!Total(Pools[a]) - 1) =>
              \E route : /\ Using!RouteAliases(a, session) = {route}
                         /\ route[1] = Pools[a][Using!Drawn(Pools[a], session)]
<1> DEFINE all == Pools[a]
           strategy == all[1].strategy
           used == Using!TokensTodayOf(a, Using!Names)
           preferred == IF strategy = "usage-aware" THEN Using!UsagePreferred(all, used) ELSE {}
           routes == Using!RouteAliases(a, session)
<1>1. all \in Seq(Candidates) /\ all # <<>>
  BY PoolsAssumption DEF Candidates
<1>2. whole \in Seq(Candidates)
  BY <1>1, DropKeeps
<1>3. routes = Using!OrderTargets(whole, session, preferred)
  BY DEF Using!RouteAliases
<1>4. /\ preferred \in SUBSET (DOMAIN all) /\ \A i, j \in preferred : i = j
      /\ preferred \in SUBSET (DOMAIN whole)
  <2>1. Len(all) \in Nat /\ DOMAIN all = 1 .. Len(all)
    BY <1>1
  <2>2. \E least \in SUBSET (DOMAIN all) :
          Using!UsagePreferred(all, used) = {i \in least : \A j \in least : i <= j}
    BY DEF Using!UsagePreferred
  <2> HIDE DEF all, used
  <2>3. PICK least \in SUBSET (DOMAIN all) :
          Using!UsagePreferred(all, used) = {i \in least : \A j \in least : i <= j}
    BY <2>2
  <2>4. preferred \in SUBSET (DOMAIN all) /\ \A i, j \in preferred : i = j
    BY <2>1, <2>3
  <2>5. preferred # {} => whole = all
    BY DEF all
  <2> QED BY <2>4, <2>5
<1> HIDE DEF preferred, routes, used
<1>5. Weighed(whole)
  BY <1>2, CandidatesWeighed
<1>6. /\ \A route \in routes : Rearranged(route, whole)
      /\ session >= 0 => \E route : routes = {route}
  <2>1. AtMostOne(preferred)
    BY <1>4 DEF AtMostOne
  <2>2. preferred \in SUBSET (DOMAIN whole)
    BY <1>4
  <2> QED BY <1>2, <1>3, <1>5, <2>1, <2>2, OrderTargetsIs
<1>7. ASSUME strategy = "weighted", session \in 0 .. (Using!Total(all) - 1)
      PROVE  \E route : routes = {route} /\ route[1] = all[Using!Drawn(all, session)]
  <2>1. whole = all /\ preferred = {}
    BY <1>7 DEF preferred
  <2>2. Using!Total(all) \in Nat
    BY <1>1, <1>5, <2>1, UpToGrows DEF Using!Total
  <2>3. Using!Total(all) # 0 /\ session >= 0 /\ session % Using!Total(all) = session
    BY <1>7, <2>2
  <2> DEFINE i == Using!Drawn(all, session)
             route == Using!FirstThenByWeight(all, i)
  <2>4. Using!Draws(all, session) = {session}
    BY <2>3 DEF Using!Draws
  <2>5. {Using!Drawn(all, d) : d \in Using!Draws(all, session)} = {i}
    BY <2>4
  <2>6. routes = {Using!FirstThenByWeight(all, j) : j \in {i}}
    <3>1. routes = Using!OrderTargets(all, session, {})
      BY <1>3, <2>1
    <3>2. all[1].strategy # "priority"
      BY <1>7
    <3> HIDE DEF i, all
    <3> QED BY <1>1, <2>3, <2>5, <3>1, <3>2 DEF Using!OrderTargets
  <2>7. i \in DOMAIN all
    BY <1>1, <1>5, <1>7, <2>1, DrawnThere, SameDraws
  <2>8. route[1] = all[i]
    BY <1>1, <1>5, <2>1, <2>7, FirstThenTheRest
  <2>9. routes = {route}
    BY <2>6
  <2> HIDE DEF route
  <2> QED BY <2>8, <2>9
<1> QED BY <1>6, <1>7 DEF routes

\* Whatever is in the usage table, a route gives every candidate of its pool as often as the
\* pool lists it, one order to a session, and over all sessions each candidate of a weighted
\* pool goes first as often as its weights say.  (selection.rs, order_targets and
\* weighted_first_index; routing.rs, route_aliases)
LEMMA RoutesAre == Using!RoutesFair
<1> SUFFICES ASSUME NEW a \in Using!Aliases
    PROVE LET pool == Pools[a]
              hashes == 0 .. (Using!Total(pool) - 1)
              given == {<<s, Using!RouteAliases(a, s)>> : s \in hashes \cup {Using!NoSession}}
              whole == IF pool[1].strategy = "priority"
                       THEN Using!DropExhausted(pool, Using!TokensToday(Using!Names)) ELSE pool
              times(items, c) == Using!Cardinality({i \in DOMAIN items : items[i] = c})
              first(c) == {g \in given : /\ g[1] # Using!NoSession
                                         /\ \E route \in g[2] : route[1] = c}
              weights(c) == Using!SumFunctionOnSet([i \in DOMAIN pool |-> Using!Weight(pool[i])],
                                                   {i \in DOMAIN pool : pool[i] = c})
          IN /\ \A g \in given :
                  /\ g[1] # Using!NoSession => Using!Cardinality(g[2]) = 1
                  /\ \A route \in g[2] :
                       /\ Len(route) = Len(whole)
                       /\ \A c \in Using!ToSet(whole) : times(route, c) = times(whole, c)
             /\ pool[1].strategy = "weighted" =>
                  \A c \in Using!ToSet(pool) : Using!Cardinality(first(c)) = weights(c)
  BY Zenon DEF Using!RoutesFair
<1> DEFINE pool == Pools[a]
           hashes == 0 .. (Using!Total(pool) - 1)
           given == {<<s, Using!RouteAliases(a, s)>> : s \in hashes \cup {Using!NoSession}}
           whole == IF pool[1].strategy = "priority"
                    THEN Using!DropExhausted(pool, Using!TokensToday(Using!Names)) ELSE pool
           first(c) == {g \in given : /\ g[1] # Using!NoSession
                                      /\ \E route \in g[2] : route[1] = c}
           weigh == [i \in DOMAIN pool |-> Using!Weight(pool[i])]
<1>1. Using!NoSession = -1 /\ a \in DOMAIN Pools /\ pool \in Seq(Candidates)
  BY PoolsAssumption DEF Using!NoSession, Using!Aliases, Candidates
<1>2. \A s \in hashes : s \in Int /\ s >= 0
  OBVIOUS
<1> HIDE DEF pool, hashes, whole
<1>3. ASSUME NEW s \in hashes \cup {Using!NoSession}
      PROVE  /\ \A route \in Using!RouteAliases(a, s) : Rearranged(route, whole)
             /\ s # Using!NoSession => \E route : Using!RouteAliases(a, s) = {route}
  <2>1. s \in Int /\ (s # Using!NoSession => s >= 0)
    BY <1>1, <1>2
  <2>2. whole = IF Pools[a][1].strategy = "priority"
                THEN Using!DropExhausted(Pools[a], Using!TokensToday(Using!Names)) ELSE Pools[a]
    BY DEF whole, pool
  <2> HIDE DEF whole
  <2> QED BY <1>1, <2>1, <2>2, RoutesOf
<1>4. ASSUME NEW g \in given
      PROVE  /\ g[1] # Using!NoSession => Using!Cardinality(g[2]) = 1
             /\ \A route \in g[2] :
                  /\ Len(route) = Len(whole)
                  /\ \A c : Using!Cardinality({i \in DOMAIN route : route[i] = c})
                              = Using!Cardinality({i \in DOMAIN whole : whole[i] = c})
  <2>1. PICK s \in hashes \cup {Using!NoSession} : g = <<s, Using!RouteAliases(a, s)>>
    OBVIOUS
  <2>2. g[1] = s /\ g[2] = Using!RouteAliases(a, s)
    BY <2>1
  <2>3. \A route \in g[2] : Rearranged(route, whole)
    BY <1>3, <2>2
  <2>4. ASSUME s # Using!NoSession PROVE Using!Cardinality(g[2]) = 1
    <3>1. PICK route : g[2] = {route}
      BY <1>3, <2>2, <2>4
    <3>2. Cardinality({route}) = 1
      BY FS_Singleton
    <3> QED BY <3>1, <3>2, SameDraws
  <2> QED BY <2>2, <2>3, <2>4 DEF Rearranged
<1>5. ASSUME pool[1].strategy = "weighted", NEW c
      PROVE  Using!Cardinality(first(c))
               = Using!SumFunctionOnSet(weigh, {i \in DOMAIN pool : pool[i] = c})
  <2> DEFINE I == {i \in DOMAIN pool : pool[i] = c}
             H == {s \in hashes : Using!Drawn(pool, s) \in I}
             f == [s \in H |-> <<s, Using!RouteAliases(a, s)>>]
  <2>1. Weighed(pool)
    BY <1>1, CandidatesWeighed
  <2>2. Cardinality(H) = SumFunctionOnSet(weigh, I)
    <3>1. I \in SUBSET (DOMAIN pool)
      OBVIOUS
    <3> HIDE DEF I
    <3> QED BY <1>1, <2>1, <3>1, DrawnAsOften DEF hashes
  <2>3. ASSUME NEW s \in hashes
        PROVE  /\ Using!Drawn(pool, s) \in DOMAIN pool
               /\ \E route : /\ Using!RouteAliases(a, s) = {route}
                             /\ route[1] = pool[Using!Drawn(pool, s)]
    <3>1. s \in 0 .. (Using!Total(pool) - 1) /\ s \in Int
      BY <1>2 DEF hashes
    <3>2. Using!Drawn(pool, s) \in DOMAIN pool
      BY <1>1, <2>1, <3>1, DrawnThere, SameDraws
    <3> QED BY <1>1, <1>5, <3>1, <3>2, RoutesOf DEF pool
  <2>4. \A s \in hashes : s \in H <=> \E route \in Using!RouteAliases(a, s) : route[1] = c
    <3> TAKE s \in hashes
    <3>1. PICK route : /\ Using!RouteAliases(a, s) = {route}
                       /\ route[1] = pool[Using!Drawn(pool, s)]
      BY <2>3
    <3>2. Using!Drawn(pool, s) \in DOMAIN pool
      BY <2>3
    <3> QED BY <3>1, <3>2
  <2>5. \A s \in hashes : s # Using!NoSession
    BY <1>1, <1>2
  <2>6. f \in Bijection(H, first(c))
    <3>1. \A s \in H : f[s] = <<s, Using!RouteAliases(a, s)>> /\ f[s] \in first(c)
      BY <2>4, <2>5
    <3>2. \A g \in first(c) : \E s \in H : f[s] = g
      <4> TAKE g \in first(c)
      <4>1. PICK s \in hashes \cup {Using!NoSession} : g = <<s, Using!RouteAliases(a, s)>>
        OBVIOUS
      <4>2. s \in hashes /\ \E route \in Using!RouteAliases(a, s) : route[1] = c
        BY <4>1
      <4>3. s \in H
        BY <2>4, <4>2
      <4> QED BY <4>1, <4>3
    <3>3. \A s, t \in H : f[s] = f[t] => s = t
      BY <3>1
    <3>4. f \in [H -> first(c)]
      BY <3>1
    <3> HIDE DEF f, H, first
    <3> QED BY <3>2, <3>3, <3>4 DEF Bijection, Injection, Surjection, IsInjective
  <2>7. IsFiniteSet(H)
    <3>1. H \in SUBSET hashes
      OBVIOUS
    <3>2. Using!Total(pool) \in Nat
      <4>1. Len(pool) \in 0 .. Len(pool)
        BY <1>1
      <4> QED BY <1>1, <2>1, <4>1, UpToGrows DEF Using!Total
    <3>3. IsFiniteSet(hashes)
      BY <3>2, FS_Interval DEF hashes
    <3> HIDE DEF H
    <3> QED BY <3>1, <3>3, FS_Subset
  <2> HIDE DEF f, H, first, weigh, I
  <2>8. Cardinality(first(c)) = Cardinality(H)
    BY <2>6, <2>7, FS_Bijection DEF ExistsBijection
  <2> QED BY <2>2, <2>8, SameDraws DEF I
<1>6. \A g \in given :
        /\ g[1] # Using!NoSession => Using!Cardinality(g[2]) = 1
        /\ \A route \in g[2] :
             /\ Len(route) = Len(whole)
             /\ \A c \in Using!ToSet(whole) : Using!Cardinality({i \in DOMAIN route : route[i] = c})
                                               = Using!Cardinality({i \in DOMAIN whole : whole[i] = c})
  <2> TAKE g \in given
  <2>1. g[1] # Using!NoSession => Using!Cardinality(g[2]) = 1
    BY <1>4
  <2>2. \A route \in g[2] :
          /\ Len(route) = Len(whole)
          /\ \A c : Using!Cardinality({i \in DOMAIN route : route[i] = c})
                      = Using!Cardinality({i \in DOMAIN whole : whole[i] = c})
    BY <1>4
  <2> QED BY <2>1, <2>2, Zenon
<1>7. pool[1].strategy = "weighted" =>
        \A c \in Using!ToSet(pool) :
          Using!Cardinality(first(c))
            = Using!SumFunctionOnSet(weigh, {i \in DOMAIN pool : pool[i] = c})
  <2> HIDE DEF first, weigh
  <2> QED BY <1>5
<1> QED BY <1>6, <1>7, Zenon DEF whole, hashes, pool

THEOREM RoutesAreFair == Spec => []RoutesFair
<1>1. RoutesFair
  BY RoutesAre DEF RoutesFair
<1> QED BY <1>1, PTL

-------------------------------------------------------------------------------
(* Usage: what the dashboard adds up *)

Numbered(e) ==
  /\ e.prompt \in Int /\ e.cached \in Int /\ e.output \in Int
  /\ e.key # Using!OtherKeys

\* The rows of the table are numbered, whatever else is in them.
Ledger == \E S : events \in Seq(S) /\ \A e \in S : Numbered(e)

Logged == IsFiniteSet(DOMAIN events) /\ \A i \in DOMAIN events : Numbered(events[i])

LEMMA LedgerInit == Using!Init => Ledger
<1> SUFFICES ASSUME Using!Init PROVE Ledger
  OBVIOUS
<1> DEFINE R == [ok : BOOLEAN, prompt : Int, cached : Int, output : Int, at : Int,
                 model : STRING, key : STRING \X Nat, session : Int]
<1>1. events \in Seq(R)
  BY UsageAssumption DEF Using!Init
<1>2. \A e \in R : Numbered(e)
  BY DEF Numbered, Using!OtherKeys
<1> HIDE DEF R
<1> QED BY <1>1, <1>2 DEF Ledger

LEMMA LedgerKept == Ledger /\ [Using!Next]_Using!vars => Ledger'
<1> SUFFICES ASSUME Ledger, [Using!Next]_Using!vars PROVE Ledger'
  OBVIOUS
<1>1. CASE UNCHANGED events
  BY <1>1, Zenon DEF Ledger
<1>2. ASSUME NEW w \in UsageWorkers, NEW outcome \in Outcomes, Using!Record(w, outcome)
      PROVE  Ledger'
  <2>1. PICK S : events \in Seq(S) /\ \A e \in S : Numbered(e)
    BY DEF Ledger
  <2> DEFINE e == [ok |-> outcome.ok, prompt |-> outcome.prompt, cached |-> outcome.cached,
                   output |-> outcome.output, at |-> now, model |-> flight[w].alias,
                   key |-> Using!UsageKeyName(flight[w].key), session |-> flight[w].session]
             T == S \cup {e}
  <2>2. events' = Append(events, e)
    BY <1>2 DEF Using!Record
  <2>3. Numbered(e)
    BY UsageAssumption DEF Numbered, Using!UsageKeyName, Using!OtherKeys
  <2> HIDE DEF e
  <2>4. events \in Seq(T) /\ e \in T
    BY <2>1
  <2> HIDE DEF T
  <2>5. events' \in Seq(T)
    BY <2>2, <2>4
  <2>6. \A x \in T : Numbered(x)
    BY <2>1, <2>3 DEF T
  <2> QED BY <2>5, <2>6 DEF Ledger
<1>3. CASE Using!ResetUsage
  <2>1. events' = <<>>
    BY <1>3 DEF Using!ResetUsage
  <2>2. events' \in Seq({}) /\ \A e \in {} : Numbered(e)
    BY <2>1
  <2> QED BY <2>2 DEF Ledger
<1>4. ASSUME NEW w \in UsageWorkers, NEW ask \in Asks, Using!Arrive(w, ask)
      PROVE  UNCHANGED events
  BY <1>4, Zenon DEF Using!Arrive
<1>5. ASSUME NEW w \in UsageWorkers, NEW open \in Openings, Using!Select(w, open)
      PROVE  UNCHANGED events
  BY <1>5, Zenon DEF Using!Select
<1>6. Using!Tick \/ UNCHANGED Using!vars => UNCHANGED events
  BY Zenon DEF Using!Tick, Using!vars
<1> QED BY <1>1, <1>2, <1>3, <1>4, <1>5, <1>6 DEF Using!Next

LEMMA LedgerLogged == Ledger => Logged
<1> SUFFICES ASSUME Ledger PROVE Logged
  OBVIOUS
<1>1. PICK S : events \in Seq(S) /\ \A e \in S : Numbered(e)
  BY DEF Ledger
<1>2. DOMAIN events = 1 .. Len(events) /\ Len(events) \in Nat
  BY <1>1
<1>3. IsFiniteSet(DOMAIN events)
  BY <1>2, FS_Interval
<1>4. \A i \in DOMAIN events : events[i] \in S
  BY <1>1
<1> QED BY <1>1, <1>3, <1>4 DEF Logged

\* What a row is worth in a field of a bucket.
Value(f) ==
  [i \in DOMAIN events |->
     IF f = "requests" THEN 1
     ELSE IF f = "errors" THEN (IF events[i].ok THEN 0 ELSE 1)
     ELSE IF f = "uncached" THEN events[i].prompt - events[i].cached
     ELSE events[i][f]]

Plausible(rows) == \A i \in rows : events[i].cached <= events[i].prompt

LEMMA ValueType ==
  ASSUME Logged, NEW f \in Using!Fields, NEW i \in DOMAIN events
  PROVE  Value(f)[i] \in Int
BY DEF Logged, Numbered, Value, Using!Fields

\* A bucket is, field by field, the sum over its rows; what was not cached only while no
\* row cached more than it was asked.
LEMMA BucketSums ==
  ASSUME Logged, NEW rows \in SUBSET (DOMAIN events), NEW f \in Using!Fields,
         f = "uncached" => Plausible(rows)
  PROVE  Using!Bucket(rows)[f] = SumFunctionOnSet(Value(f), rows)
<1>0. IsFiniteSet(rows)
  BY FS_Subset DEF Logged
<1> DEFINE over(field) == SumFunctionOnSet([i \in DOMAIN events |-> events[i][field]], rows)
<1>1. \A field : Using!SumOver(rows, field) = over(field)
  BY SameDraws DEF Using!SumOver
<1>2. ASSUME NEW field \in {"prompt", "cached", "output"}
      PROVE  over(field) = SumFunctionOnSet(Value(field), rows)
  <2> DEFINE e == [i \in DOMAIN events |-> events[i][field]]
  <2>1. \A i \in rows : e[i] = Value(field)[i]
    BY DEF Value
  <2> HIDE DEF e
  <2> QED BY <1>0, <2>1, SumCongruent DEF e
<1> HIDE DEF over
<1>3. CASE f = "requests"
  <2>1. Using!Bucket(rows)[f] = Cardinality(rows)
    BY <1>3, SameDraws DEF Using!Bucket, Using!Fields
  <2>2. \A i \in rows : Value(f)[i] = 1
    BY <1>3 DEF Value
  <2> QED BY <1>0, <2>1, <2>2, SumOfOnes
<1>4. CASE f = "errors"
  <2> DEFINE T == {i \in rows : ~events[i].ok}
  <2>1. Using!Bucket(rows)[f] = Cardinality(T)
    BY <1>4, SameDraws DEF Using!Bucket, Using!Fields
  <2>2. \A i \in T : Value(f)[i] = 1
    BY <1>4 DEF Value
  <2>3. \A i \in rows \ T : Value(f)[i] = 0
    BY <1>4 DEF Value
  <2>4. T \in SUBSET rows
    OBVIOUS
  <2> HIDE DEF T
  <2> QED BY <1>0, <2>1, <2>2, <2>3, <2>4, SumCounts
<1>5. CASE f = "uncached"
  <2> DEFINE p == SumFunctionOnSet(Value("prompt"), rows)
             c == SumFunctionOnSet(Value("cached"), rows)
             u == SumFunctionOnSet(Value("uncached"), rows)
  <2>1. Using!Bucket(rows)[f] = Using!Uncached(p, c)
    BY <1>1, <1>2, <1>5 DEF Using!Bucket, Using!Fields
  <2>2. \A i \in rows : /\ Value("cached")[i] \in Int /\ Value("uncached")[i] \in Int
                        /\ Value("prompt")[i] = Value("cached")[i] + Value("uncached")[i]
    BY DEF Value, Logged, Numbered
  <2>3. p = c + u
    BY <1>0, <2>2, SumAdded
  <2>4. \A i \in rows : /\ Value("cached")[i] \in Int /\ Value("prompt")[i] \in Int
                        /\ Value("cached")[i] <= Value("prompt")[i]
    BY <1>5 DEF Value, Logged, Numbered, Plausible
  <2>5. c <= p
    BY <1>0, <2>4, SumAtLeast
  <2>6. c \in Int /\ p \in Int /\ u \in Int
    <3>1. \A i \in rows : Value("cached")[i] \in Int
      BY <2>2
    <3>2. \A i \in rows : Value("prompt")[i] \in Int
      BY <2>4
    <3>3. \A i \in rows : Value("uncached")[i] \in Int
      BY <2>2
    <3> QED BY <1>0, <3>1, <3>2, <3>3, SumType
  <2> HIDE DEF p, c, u
  <2>7. Using!Uncached(p, c) = u
    BY <2>3, <2>5, <2>6 DEF Using!Uncached
  <2> QED BY <1>5, <2>1, <2>7 DEF u
<1>6. CASE f \in {"prompt", "cached", "output"}
  <2>1. Using!Bucket(rows)[f] = over(f)
    BY <1>1, <1>6 DEF Using!Bucket, Using!Fields
  <2> QED BY <1>2, <1>6, <2>1
<1> QED BY <1>3, <1>4, <1>5, <1>6 DEF Using!Fields

\* c tells the group of each row, and a group is the bucket of its rows.
Grouping(groups, rows, c) ==
  \A g \in DOMAIN groups : groups[g] = Using!Bucket({i \in rows : c[i] = g})

\* Buckets of groups add up to that of all rows.
LEMMA GroupsSum ==
  ASSUME Logged, NEW rows \in SUBSET (DOMAIN events), NEW c, NEW groups,
         IsFiniteSet(DOMAIN groups), Grouping(groups, rows, c),
         \A i \in rows : c[i] \in DOMAIN groups,
         NEW f \in Using!Fields, f = "uncached" => Plausible(rows)
  PROVE  Using!SumBuckets(groups)[f] = Using!Bucket(rows)[f]
<1> DEFINE I == DOMAIN groups
           e == [g \in I |-> groups[g][f]]
           v == Value(f)
<1>1. Using!SumBuckets(groups)[f] = SumFunctionOnSet(e, I)
  BY SameDraws DEF Using!SumBuckets
<1>2. ASSUME NEW g \in I PROVE e[g] = SumFunctionOnSet(v, {i \in rows : c[i] = g})
  <2> DEFINE own == {i \in rows : c[i] = g}
  <2>1. own \in SUBSET (DOMAIN events) /\ (f = "uncached" => Plausible(own))
    BY DEF Plausible
  <2>2. groups[g] = Using!Bucket(own)
    BY DEF Grouping
  <2> HIDE DEF own
  <2>3. Using!Bucket(own)[f] = SumFunctionOnSet(v, own)
    BY <2>1, BucketSums
  <2>4. e[g] = groups[g][f]
    OBVIOUS
  <2> HIDE DEF e, v
  <2> QED BY <2>2, <2>3, <2>4 DEF own
<1>3. PartSums(e, v, rows, c, I)
  BY <1>2 DEF PartSums
<1>4. IsFiniteSet(rows) /\ \A i \in rows : v[i] \in Int
  BY FS_Subset, ValueType DEF Logged
<1>5. Using!Bucket(rows)[f] = SumFunctionOnSet(v, rows)
  BY BucketSums
<1> HIDE DEF e, v
<1>6. SumFunctionOnSet(e, I) = SumFunctionOnSet(v, rows)
  BY <1>3, <1>4, SumClasses
<1> QED BY <1>1, <1>5, <1>6

\* The rows of a column's values are the groups of that column.
LEMMA ColumnsSum ==
  ASSUME Logged, NEW rows \in SUBSET (DOMAIN events), NEW column,
         NEW f \in Using!Fields, f = "uncached" => Plausible(rows)
  PROVE  Using!SumBuckets(Using!Grouped(column, rows))[f] = Using!Bucket(rows)[f]
<1> DEFINE c == [i \in rows |-> events[i][column]]
           groups == Using!Grouped(column, rows)
<1>1. DOMAIN groups = {c[i] : i \in rows}
  BY DEF Using!Grouped
<1>2. IsFiniteSet({c[i] : i \in rows})
  <2>1. IsFiniteSet(rows)
    BY FS_Subset DEF Logged
  <2> HIDE DEF c
  <2> QED BY <2>1, ImageFinite
<1>3. Grouping(groups, rows, c)
  <2> SUFFICES ASSUME NEW g \in DOMAIN groups
               PROVE  groups[g] = Using!Bucket({i \in rows : c[i] = g})
    BY DEF Grouping
  <2>1. groups[g] = Using!Bucket({i \in rows : events[i][column] = g})
    BY DEF Using!Grouped
  <2>2. {i \in rows : events[i][column] = g} = {i \in rows : c[i] = g}
    OBVIOUS
  <2> QED BY <2>1, <2>2
<1>4. \A i \in rows : c[i] \in DOMAIN groups
  BY <1>1
<1> HIDE DEF c, groups
<1>5. IsFiniteSet(DOMAIN groups)
  BY <1>1, <1>2
<1>6. Using!SumBuckets(groups)[f] = Using!Bucket(rows)[f]
  BY <1>3, <1>4, <1>5, GroupsSum
<1> QED BY <1>6 DEF groups

\* The rows of a period, and of some keys.
LEMMA RowsThere ==
  ASSUME NEW period, NEW filter
  PROVE  Using!Rows(period, filter)
           = {i \in DOMAIN events : /\ events[i].at >= Using!StartOf(period)
                                    /\ filter = {<<>>} \/ events[i].key \in filter}
BY DEF Using!Rows, Using!Chosen, Using!KeyFilter, Using!NoFilter

\* Keys, and hence providers, are finitely many.
LEMMA ProvidersFinite == IsFiniteSet(Using!Providers)
<1> DEFINE keysOf(a) == UNION {Using!ToSet(c.keys) : c \in Using!ToSet(Pools[a])}
<1>1. ASSUME NEW a \in DOMAIN Pools PROVE IsFiniteSet(keysOf(a))
  <2> DEFINE C == Using!ToSet(Pools[a])
             K == {Using!ToSet(c.keys) : c \in C}
  <2>1. Pools[a] \in Seq(Candidates)
    BY PoolsAssumption DEF Candidates
  <2>2. IsFiniteSet(C) /\ \A c \in C : c \in Candidates
    <3>1. Pools[a] \in [1 .. Len(Pools[a]) -> Candidates] /\ Len(Pools[a]) \in Nat
      BY <2>1
    <3>2. IsFiniteSet(DOMAIN Pools[a])
      BY <3>1, FS_Interval
    <3>3. IsFiniteSet({Pools[a][i] : i \in DOMAIN Pools[a]})
      BY <3>2, ImageFinite
    <3>4. C = {Pools[a][i] : i \in DOMAIN Pools[a]}
      BY DEF Using!ToSet
    <3> HIDE DEF C
    <3> QED BY <3>1, <3>3, <3>4
  <2>3. ASSUME NEW c \in C PROVE IsFiniteSet(Using!ToSet(c.keys))
    <3> DEFINE s == c.keys
    <3>1. s \in [1 .. Len(s) -> Range(s)] /\ Len(s) \in Nat
      BY <2>2, <2>3 DEF Candidates, Range
    <3> HIDE DEF s
    <3>2. IsFiniteSet(DOMAIN s)
      BY <3>1, FS_Interval
    <3>3. IsFiniteSet({s[i] : i \in DOMAIN s})
      BY <3>2, ImageFinite
    <3>4. Using!ToSet(s) = {s[i] : i \in DOMAIN s}
      BY DEF Using!ToSet
    <3> QED BY <3>3, <3>4 DEF s
  <2> HIDE DEF C
  <2>4. IsFiniteSet(K)
    <3> DEFINE f == [c \in C |-> Using!ToSet(c.keys)]
    <3>1. \A c \in C : f[c] = Using!ToSet(c.keys)
      OBVIOUS
    <3> HIDE DEF f
    <3>2. IsFiniteSet({f[c] : c \in C})
      BY <2>2, ImageFinite
    <3>3. {f[c] : c \in C} = K
      BY <3>1
    <3> QED BY <3>2, <3>3
  <2>5. \A x \in K : IsFiniteSet(x)
    BY <2>3
  <2> HIDE DEF K
  <2>6. IsFiniteSet(UNION K)
    BY <2>4, <2>5, FS_UNION
  <2> QED BY <2>6 DEF K, C
<1> HIDE DEF keysOf
<1>2. IsFiniteSet({keysOf(a) : a \in DOMAIN Pools})
  <2> DEFINE f == [a \in DOMAIN Pools |-> keysOf(a)]
  <2>1. {f[a] : a \in DOMAIN Pools} = {keysOf(a) : a \in DOMAIN Pools}
    OBVIOUS
  <2> HIDE DEF f
  <2>2. IsFiniteSet({f[a] : a \in DOMAIN Pools})
    BY PoolsAssumption, ImageFinite
  <2> QED BY <2>1, <2>2
<1> DEFINE A == {keysOf(a) : a \in DOMAIN Pools}
<1>3. \A x \in A : IsFiniteSet(x)
  BY <1>1
<1> HIDE DEF A
<1>4. IsFiniteSet(UNION A)
  BY <1>2, <1>3, FS_UNION DEF A
<1>5. Using!Keys = UNION A
  BY DEF A, keysOf, Using!Keys, Using!Aliases
<1> DEFINE K == Using!Keys
<1>6. IsFiniteSet(K)
  BY <1>4, <1>5
<1> HIDE DEF K
<1>7. IsFiniteSet({k.provider : k \in K})
  <2> DEFINE f == [k \in K |-> k.provider]
  <2>1. {f[k] : k \in K} = {k.provider : k \in K}
    OBVIOUS
  <2> HIDE DEF f
  <2>2. IsFiniteSet({f[k] : k \in K})
    BY <1>6, ImageFinite
  <2> QED BY <2>1, <2>2
<1> QED BY <1>7 DEF Using!Providers, K

\* The keys of the providers are the known ones, each of its own.
LEMMA ProvidersSum ==
  ASSUME Logged, NEW period, NEW rows, rows = Using!Rows(period, Using!NoFilter),
         NEW known, known = {i \in rows : events[i].key \in {Using!UsageKeyName(k) : k \in Using!Keys}},
         NEW f \in Using!Fields, f = "uncached" => Plausible(known)
  PROVE  Using!SumBuckets([p \in Using!Providers |->
                             Using!Bucket(Using!Rows(period, Using!KeyNamesOf(p)))])[f]
           = Using!Bucket(known)[f]
<1> DEFINE P == Using!Providers
           groups == [p \in P |-> Using!Bucket(Using!Rows(period, Using!KeyNamesOf(p)))]
           c == [i \in known |-> events[i].key[1]]
<1>1. known \in SUBSET (DOMAIN events)
  BY RowsThere
<1>2. \A i \in known : \E k \in Using!Keys : events[i].key = <<k.provider, k.name>>
  BY DEF Using!UsageKeyName
<1>3. \A i \in known : c[i] \in DOMAIN groups
  BY <1>2 DEF Using!Providers
<1>4. ASSUME NEW p \in P PROVE {i \in known : c[i] = p} = Using!Rows(period, Using!KeyNamesOf(p))
  <2>1. Using!KeyNamesOf(p) = {<<k.provider, k.name>> : k \in {k \in Using!Keys : k.provider = p}}
    BY DEF Using!KeyNamesOf, Using!UsageKeyName
  <2>2. <<>> \notin Using!KeyNamesOf(p)
    BY <2>1
  <2>3. \A i \in rows : events[i].key \in Using!KeyNamesOf(p) <=> i \in known /\ c[i] = p
    <3> TAKE i \in rows
    <3>1. ASSUME events[i].key \in Using!KeyNamesOf(p) PROVE i \in known /\ c[i] = p
      <4>1. PICK k \in Using!Keys : k.provider = p /\ events[i].key = <<k.provider, k.name>>
        BY <2>1, <3>1
      <4>2. i \in known
        BY <4>1 DEF Using!UsageKeyName
      <4> QED BY <4>1, <4>2
    <3>2. ASSUME i \in known, c[i] = p PROVE events[i].key \in Using!KeyNamesOf(p)
      <4>1. PICK k \in Using!Keys : events[i].key = <<k.provider, k.name>>
        BY <1>2, <3>2
      <4>2. k.provider = p
        BY <3>2, <4>1
      <4> QED BY <2>1, <4>1, <4>2
    <3> QED BY <3>1, <3>2
  <2>4. rows = {i \in DOMAIN events : events[i].at >= Using!StartOf(period)}
    BY RowsThere DEF Using!NoFilter
  <2>5. Using!Rows(period, Using!KeyNamesOf(p))
          = {i \in rows : events[i].key \in Using!KeyNamesOf(p)}
    BY <2>2, <2>4, RowsThere
  <2> HIDE DEF c, groups
  <2> QED BY <2>3, <2>5
<1>5. Grouping(groups, known, c)
  <2> SUFFICES ASSUME NEW p \in P
               PROVE  groups[p] = Using!Bucket({i \in known : c[i] = p})
    BY DEF Grouping
  <2> HIDE DEF c
  <2> QED BY <1>4
<1>6. DOMAIN groups = P /\ IsFiniteSet(P)
  BY ProvidersFinite
<1> HIDE DEF c, groups, P
<1>7. Using!SumBuckets(groups)[f] = Using!Bucket(known)[f]
  BY <1>1, <1>3, <1>5, <1>6, GroupsSum
<1> QED BY <1>7 DEF groups, P

\* Nobody has keys.
LEMMA NobodySum ==
  ASSUME NEW period
  PROVE  Using!Bucket(Using!Rows(period, Using!KeyNamesOf("nobody"))) = Using!ZeroBucket
<1>1. \A k \in Using!Keys : k.provider # "nobody"
  <2> SUFFICES ASSUME NEW a \in DOMAIN Pools, NEW c \in Using!ToSet(Pools[a]),
                      NEW k \in Using!ToSet(c.keys)
               PROVE  k.provider # "nobody"
    BY DEF Using!Keys, Using!Aliases
  <2>1. c \in Candidates
    <3>1. Pools[a] \in Seq(Candidates)
      BY PoolsAssumption DEF Candidates
    <3> QED BY <3>1 DEF Using!ToSet
  <2> DEFINE K == [provider : STRING \ {"nobody"}, name : Nat, weight : Int, quota : Int]
             s == c.keys
  <2>2. s \in Seq(K)
    BY <2>1 DEF Candidates
  <2> HIDE DEF K, s
  <2>3. k \in K
    <3>1. PICK i \in DOMAIN s : k = s[i]
      BY DEF Using!ToSet, s
    <3> QED BY <2>2, <3>1
  <2> QED BY <2>3 DEF K
<1>2. Using!KeyNamesOf("nobody") = {}
  BY <1>1 DEF Using!KeyNamesOf
<1>3. Using!Rows(period, {}) = {}
  BY RowsThere
<1> QED BY <1>2, <1>3 DEF Using!ZeroBucket

\* A series has a bucket for some hours of each of its groups: c tells the group of a row, d
\* its hour, and the bucket is worth the rows of both.  A row has a bucket.
Series(series, f, rows, c, d) ==
  /\ IsFiniteSet(DOMAIN series)
  /\ \A g \in DOMAIN series :
       /\ DOMAIN series[g] \subseteq {d[i] : i \in rows}
       /\ \A b \in DOMAIN series[g] :
            series[g][b][f] = SumFunctionOnSet(Value(f), {i \in rows : c[i] = g /\ d[i] = b})
  /\ \A i \in rows : c[i] \in DOMAIN series /\ d[i] \in DOMAIN series[c[i]]

\* Filled up with zeros, the hours of all groups add up to the bucket of all rows.
LEMMA FilledSum ==
  ASSUME Logged, NEW rows \in SUBSET (DOMAIN events),
         NEW f \in Using!Fields, f = "uncached" => Plausible(rows),
         NEW c, NEW d, NEW series, Series(series, f, rows, c, d),
         NEW filled, filled = Using!FillZero(series)
  PROVE  Using!SumBuckets([g \in DOMAIN filled |-> Using!SumBuckets(filled[g])])[f]
           = Using!Bucket(rows)[f]
<1> DEFINE I == DOMAIN series
           J == UNION {DOMAIN series[g] : g \in I}
           v == Value(f)
           h == [g \in I |-> [b \in J |-> filled[g][b][f]]]
           e == [g \in I |-> Using!SumBuckets(filled[g])[f]]
           cell(g, b) == {i \in rows : c[i] = g /\ d[i] = b}
<1>1. /\ filled = [g \in I |-> [b \in J |-> IF b \in DOMAIN series[g] THEN series[g][b]
                                           ELSE Using!ZeroBucket]]
      /\ DOMAIN filled = I /\ \A g \in I : DOMAIN filled[g] = J
  BY DEF Using!FillZero
<1>2. IsFiniteSet(rows) /\ \A i \in rows : v[i] \in Int
  BY FS_Subset, ValueType DEF Logged
<1>3. IsFiniteSet(I) /\ IsFiniteSet(J)
  <2> DEFINE H == {d[i] : i \in rows}
  <2>1. IsFiniteSet(H)
    <3> HIDE DEF v
    <3> QED BY <1>2, ImageFinite
  <2>2. J \in SUBSET H
    BY DEF Series
  <2> HIDE DEF H, J
  <2>3. IsFiniteSet(J)
    BY <2>1, <2>2, FS_Subset
  <2> QED BY <2>3 DEF Series
<1>4. \A i \in rows : c[i] \in I /\ d[i] \in J
  BY DEF Series
<1>5. ASSUME NEW g \in I, NEW b \in J
      PROVE  h[g][b] = SumFunctionOnSet(v, cell(g, b))
  <2>1. h[g][b] = IF b \in DOMAIN series[g] THEN series[g][b][f] ELSE Using!ZeroBucket[f]
    BY <1>1
  <2>2. ASSUME b \in DOMAIN series[g]
        PROVE  series[g][b][f] = SumFunctionOnSet(v, cell(g, b))
    BY <2>2 DEF Series
  <2>3. ASSUME b \notin DOMAIN series[g]
        PROVE  Using!ZeroBucket[f] = SumFunctionOnSet(v, cell(g, b))
    <3>1. cell(g, b) = {}
      BY <2>3 DEF Series
    <3>2. Using!ZeroBucket[f] = SumFunctionOnSet(v, {})
      <4>1. {} \in SUBSET (DOMAIN events) /\ Plausible({})
        BY DEF Plausible
      <4> QED BY <4>1, BucketSums DEF Using!ZeroBucket
    <3> HIDE DEF cell
    <3> QED BY <3>1, <3>2
  <2> HIDE DEF h, v, cell
  <2> QED BY <2>1, <2>2, <2>3
<1>6. RowSums(e, h, I, J)
  <2> SUFFICES ASSUME NEW g \in I PROVE e[g] = SumFunctionOnSet(h[g], J)
    BY DEF RowSums
  <2>1. Using!SumBuckets(filled[g])[f] = SumFunctionOnSet([b \in J |-> filled[g][b][f]], J)
    BY <1>1, SameDraws DEF Using!SumBuckets
  <2> HIDE DEF J
  <2>2. h[g] = [b \in J |-> filled[g][b][f]] /\ e[g] = Using!SumBuckets(filled[g])[f]
    OBVIOUS
  <2> QED BY <2>1, <2>2
<1>7. Using!SumBuckets([g \in DOMAIN filled |-> Using!SumBuckets(filled[g])])[f]
        = SumFunctionOnSet(e, I)
  <2> DEFINE groups == [g \in I |-> Using!SumBuckets(filled[g])]
  <2>1. [g \in DOMAIN filled |-> Using!SumBuckets(filled[g])] = groups
    BY <1>1
  <2>2. DOMAIN groups = I /\ [g \in I |-> groups[g][f]] = e
    OBVIOUS
  <2> HIDE DEF groups, e, I
  <2>3. Using!SumBuckets(groups)[f] = SumFunctionOnSet([g \in DOMAIN groups |-> groups[g][f]],
                                                       DOMAIN groups)
    BY SameDraws DEF Using!SumBuckets
  <2> QED BY <2>1, <2>2, <2>3
<1>8. GridSums(h, v, rows, c, d, I, J)
  BY <1>5 DEF GridSums
<1>9. Using!Bucket(rows)[f] = SumFunctionOnSet(v, rows)
  BY BucketSums
<1> HIDE DEF I, J, v, h, e
<1>10. SumFunctionOnSet(e, I) = SumFunctionOnSet(v, rows)
  BY <1>2, <1>3, <1>4, <1>6, <1>8, SumGrid
<1> QED BY <1>7, <1>9, <1>10

\* What the rows are grouped by: their key, and for how long.
KeyOf == [i \in DOMAIN events |-> events[i].key]
HourOf(hours) == [i \in DOMAIN events |-> events[i].at \div hours]

LEMMA SeriesOfKeys ==
  ASSUME Logged, NEW rows \in SUBSET (DOMAIN events), NEW hours,
         NEW f \in Using!Fields, f = "uncached" => Plausible(rows)
  PROVE  /\ Series(Using!GroupedSeries("key", rows, hours), f, rows, KeyOf, HourOf(hours))
         /\ DOMAIN Using!GroupedSeries("key", rows, hours) = {KeyOf[i] : i \in rows}
<1> DEFINE series == Using!GroupedSeries("key", rows, hours)
           c == KeyOf
           d == HourOf(hours)
           own(g) == {i \in rows : events[i].key = g}
           cell(g, b) == {i \in rows : c[i] = g /\ d[i] = b}
<1>0. \A i \in rows : c[i] = events[i].key /\ d[i] = events[i].at \div hours
  BY DEF KeyOf, HourOf
<1>1. DOMAIN series = {events[i].key : i \in rows}
  BY DEF Using!GroupedSeries
<1>a. ASSUME NEW g \in DOMAIN series
      PROVE  series[g] = [b \in {events[i].at \div hours : i \in own(g)} |->
                            Using!Bucket({i \in own(g) : events[i].at \div hours = b})]
  BY DEF Using!GroupedSeries
<1> HIDE DEF series, c, d
<1>2. DOMAIN series = {c[i] : i \in rows}
  BY <1>0, <1>1
<1>3. IsFiniteSet(DOMAIN series)
  <2>1. IsFiniteSet(rows)
    BY FS_Subset DEF Logged
  <2> QED BY <1>2, <2>1, ImageFinite
<1>4. ASSUME NEW g \in DOMAIN series
      PROVE  DOMAIN series[g] = {d[i] : i \in own(g)}
  <2>1. DOMAIN series[g] = {events[i].at \div hours : i \in own(g)}
    BY <1>a
  <2> QED BY <1>0, <2>1
<1>5. ASSUME NEW g \in DOMAIN series, NEW b \in DOMAIN series[g]
      PROVE  series[g][b][f] = SumFunctionOnSet(Value(f), cell(g, b))
  <2>1. {i \in own(g) : events[i].at \div hours = b} = cell(g, b)
    BY <1>0
  <2>2. series[g][b] = Using!Bucket(cell(g, b))
    <3>1. series[g][b] = Using!Bucket({i \in own(g) : events[i].at \div hours = b})
      BY <1>a
    <3> QED BY <2>1, <3>1
  <2>3. cell(g, b) \in SUBSET (DOMAIN events) /\ (f = "uncached" => Plausible(cell(g, b)))
    BY DEF Plausible
  <2> HIDE DEF cell
  <2> QED BY <2>2, <2>3, BucketSums
<1>6. ASSUME NEW i \in rows PROVE c[i] \in DOMAIN series /\ d[i] \in DOMAIN series[c[i]]
  <2>1. c[i] \in DOMAIN series
    BY <1>2
  <2>2. i \in own(c[i])
    BY <1>0
  <2> QED BY <1>4, <2>1, <2>2
<1>7. \A g \in DOMAIN series : DOMAIN series[g] \subseteq {d[i] : i \in rows}
  <2> TAKE g \in DOMAIN series
  <2>1. DOMAIN series[g] = {d[i] : i \in own(g)}
    BY <1>4
  <2> QED BY <2>1
<1>8. Series(series, f, rows, c, d)
  BY <1>3, <1>5, <1>6, <1>7 DEF Series
<1> QED BY <1>2, <1>8 DEF series, c, d

Merged(all, K) ==
  [g \in K \cup {Using!OtherKeys} |->
     IF g = Using!OtherKeys
     THEN [b \in UNION {DOMAIN all[o] : o \in DOMAIN all \ K} |->
             Using!SumBuckets([o \in {o \in DOMAIN all \ K : b \in DOMAIN all[o]} |->
                                 all[o][b]])]
     ELSE all[g]]

\* Some groups stay as they are, and all others are one.
LEMMA MergeTopIs ==
  ASSUME NEW all, NEW top, NEW series \in Using!MergeTop(all, top), series # all
  PROVE  \E K \in SUBSET (DOMAIN all) : series = Merged(all, K)
BY DEF Using!MergeTop, Merged

\* The groups that are merged are one, with their rows.
LEMMA MergedSeries ==
  ASSUME Logged, NEW rows \in SUBSET (DOMAIN events), NEW hours, NEW top,
         NEW f \in Using!Fields, f = "uncached" => Plausible(rows),
         NEW series \in Using!MergeTop(Using!GroupedSeries("key", rows, hours), top)
  PROVE  \E c : Series(series, f, rows, c, HourOf(hours))
<1> DEFINE all == Using!GroupedSeries("key", rows, hours)
           k == KeyOf
           d == HourOf(hours)
           v == Value(f)
           cell(g, b) == {i \in rows : k[i] = g /\ d[i] = b}
<1>1. Series(all, f, rows, k, d) /\ DOMAIN all = {k[i] : i \in rows}
  BY SeriesOfKeys
<1>2. ASSUME series = all PROVE \E c : Series(series, f, rows, c, d)
  <2> HIDE DEF all, k, d
  <2> QED BY <1>1, <1>2
<1>3. ASSUME series # all PROVE \E c : Series(series, f, rows, c, d)
  <2>1. PICK K \in SUBSET (DOMAIN all) : series = Merged(all, K)
    <3>1. series \in Using!MergeTop(all, top)
      OBVIOUS
    <3> HIDE DEF all
    <3> QED BY <1>3, <3>1, MergeTopIs
  <2> DEFINE at(b) == {g \in DOMAIN all \ K : b \in DOMAIN all[g]}
             m == [b \in UNION {DOMAIN all[g] : g \in DOMAIN all \ K} |->
                     Using!SumBuckets([g \in at(b) |-> all[g][b]])]
             o == Using!OtherKeys
             c == [i \in rows |-> IF k[i] \in K THEN k[i] ELSE o]
             S(b) == {i \in rows : k[i] \notin K /\ d[i] = b}
  <2>2. \A i \in rows : k[i] # o /\ k[i] \in DOMAIN all /\ d[i] \in DOMAIN all[k[i]]
    BY <1>1 DEF KeyOf, Logged, Numbered, Series
  <2>3. o \notin K
    BY <1>1, <2>2
  <2>4. DOMAIN series = K \cup {o} /\ series[o] = m /\ \A g \in K : series[g] = all[g]
    BY <2>1, <2>3 DEF Merged
  <2> HIDE DEF all, k, d, o
  <2>5. IsFiniteSet(rows) /\ IsFiniteSet(DOMAIN all) /\ IsFiniteSet(K)
    BY <1>1, FS_Subset DEF Logged, Series
  <2>6. IsFiniteSet(DOMAIN series)
    BY <2>4, <2>5, FS_AddElement
  <2>7. DOMAIN m = UNION {DOMAIN all[g] : g \in DOMAIN all \ K}
    OBVIOUS
  <2>8. \A b \in DOMAIN m : \A g \in at(b) :
          all[g][b][f] = SumFunctionOnSet(v, cell(g, b))
    BY <1>1 DEF Series
  <2>9. ASSUME NEW b \in DOMAIN m PROVE m[b][f] = SumFunctionOnSet(v, S(b))
    <3> DEFINE I == at(b)
               e == [g \in I |-> all[g][b][f]]
    <3>1. m[b][f] = SumFunctionOnSet(e, I)
      <4> DEFINE groups == [g \in I |-> all[g][b]]
      <4>1. m[b] = Using!SumBuckets(groups)
        BY <2>9
      <4>2. DOMAIN groups = I /\ [g \in I |-> groups[g][f]] = e
        OBVIOUS
      <4> HIDE DEF groups, e, I, m
      <4>3. Using!SumBuckets(groups)[f]
              = SumFunctionOnSet([g \in DOMAIN groups |-> groups[g][f]], DOMAIN groups)
        BY SameDraws DEF Using!SumBuckets
      <4> QED BY <4>1, <4>2, <4>3
    <3>2. IsFiniteSet(I)
      <4>1. I \in SUBSET (DOMAIN all)
        OBVIOUS
      <4> HIDE DEF I
      <4> QED BY <2>5, <4>1, FS_Subset
    <3>3. IsFiniteSet(S(b)) /\ \A i \in S(b) : v[i] \in Int
      <4>1. S(b) \in SUBSET rows
        OBVIOUS
      <4>2. \A i \in rows : v[i] \in Int
        BY ValueType
      <4> HIDE DEF S, v
      <4> QED BY <2>5, <4>1, <4>2, FS_Subset
    <3>4. \A i \in S(b) : k[i] \in I
      BY <2>2
    <3>5. \A g \in I : {i \in S(b) : k[i] = g} = cell(g, b)
      OBVIOUS
    <3>6. PartSums(e, v, S(b), k, I)
      <4> SUFFICES ASSUME NEW g \in I
                   PROVE  e[g] = SumFunctionOnSet(v, {i \in S(b) : k[i] = g})
        BY DEF PartSums
      <4>1. {i \in S(b) : k[i] = g} = cell(g, b)
        BY <3>5
      <4>2. e[g] = all[g][b][f]
        OBVIOUS
      <4>3. all[g][b][f] = SumFunctionOnSet(v, cell(g, b))
        BY <2>8, <2>9
      <4> HIDE DEF e, v, S, cell
      <4> QED BY <4>1, <4>2, <4>3
    <3> HIDE DEF I, e, v, S, m
    <3>7. SumFunctionOnSet(e, I) = SumFunctionOnSet(v, S(b))
      BY <3>2, <3>3, <3>4, <3>6, SumClasses
    <3> QED BY <3>1, <3>7
  <2>10. ASSUME NEW g \in DOMAIN series, NEW b \in DOMAIN series[g]
         PROVE  series[g][b][f] = SumFunctionOnSet(v, {i \in rows : c[i] = g /\ d[i] = b})
    <3>1. ASSUME g = o PROVE S(b) = {i \in rows : c[i] = g /\ d[i] = b}
      BY <2>3, <3>1
    <3>2. ASSUME g \in K PROVE cell(g, b) = {i \in rows : c[i] = g /\ d[i] = b}
      BY <2>3, <3>2
    <3>3. ASSUME g = o PROVE series[g][b][f] = SumFunctionOnSet(v, S(b))
      <4>1. series[g] = m /\ b \in DOMAIN m
        BY <2>4, <2>10, <3>3
      <4> HIDE DEF m, S, v
      <4> QED BY <2>9, <4>1
    <3>4. ASSUME g \in K PROVE series[g][b][f] = SumFunctionOnSet(v, cell(g, b))
      <4>1. series[g] = all[g] /\ g \in DOMAIN all
        BY <2>4, <3>4
      <4> QED BY <1>1, <2>10, <4>1 DEF Series
    <3> HIDE DEF c, S, cell, v
    <3> QED BY <2>4, <3>1, <3>2, <3>3, <3>4
  <2>11. \A g \in DOMAIN series : DOMAIN series[g] \subseteq {d[i] : i \in rows}
    <3>1. \A g \in DOMAIN all : DOMAIN all[g] \subseteq {d[i] : i \in rows}
      BY <1>1 DEF Series
    <3>2. DOMAIN m \subseteq {d[i] : i \in rows}
      BY <2>7, <3>1
    <3> HIDE DEF m
    <3> QED BY <2>4, <3>1, <3>2
  <2>12. ASSUME NEW i \in rows PROVE c[i] \in DOMAIN series /\ d[i] \in DOMAIN series[c[i]]
    <3>1. CASE k[i] \in K
      BY <2>2, <2>4, <3>1
    <3>2. CASE k[i] \notin K
      <4>1. c[i] = o /\ d[i] \in DOMAIN m
        BY <2>2, <2>7, <3>2
      <4> HIDE DEF m, c
      <4> QED BY <2>4, <4>1
    <3> QED BY <3>1, <3>2
  <2> HIDE DEF c, m, v
  <2>13. Series(series, f, rows, c, d)
    BY <2>6, <2>10, <2>11, <2>12 DEF Series, v
  <2> QED BY <2>13
<1> QED BY <1>2, <1>3 DEF d

\* The rows of one model cost together what they cost one by one.
LEMMA PricedRows ==
  ASSUME Logged, NEW own \in SUBSET (DOMAIN events), Plausible(own), NEW m,
         \A i \in own : events[i].model = m,
         NEW w, \A i \in own : w[i] = Using!PricedAt(events[i].model, Using!Bucket({i}))
  PROVE  /\ Using!PricedAt(m, Using!Bucket(own)) = SumFunctionOnSet(w, own)
         /\ \A i \in own : w[i] \in Int
<1>0. IsFiniteSet(own)
  BY FS_Subset DEF Logged
<1>1. CASE m \notin DOMAIN Prices
  <2>1. \A i \in own : w[i] = 0
    BY <1>1 DEF Using!PricedAt
  <2>2. Using!PricedAt(m, Using!Bucket(own)) = 0
    BY <1>1 DEF Using!PricedAt
  <2>3. SumFunctionOnSet(w, own) = 0
    BY <1>0, <2>1, SumOfZeros
  <2> QED BY <2>1, <2>2, <2>3
<1>2. CASE m \in DOMAIN Prices
  <2> DEFINE p == Prices[m]
             a == Value("uncached")
             b == Value("cached")
             c == Value("output")
  <2>1. p.uncached \in Int /\ p.cached \in Int /\ p.output \in Int
    BY <1>2, UsageAssumption
  <2>2. \A i \in DOMAIN events : a[i] \in Int /\ b[i] \in Int /\ c[i] \in Int
    BY ValueType DEF Using!Fields
  <2>3. ASSUME NEW rows \in SUBSET own
        PROVE  Using!PricedAt(m, Using!Bucket(rows))
                 = SumFunctionOnSet(a, rows) * p.uncached + SumFunctionOnSet(b, rows) * p.cached
                     + SumFunctionOnSet(c, rows) * p.output
    <3>1. rows \in SUBSET (DOMAIN events) /\ Plausible(rows)
      BY DEF Plausible
    <3>2. /\ Using!Bucket(rows)["uncached"] = SumFunctionOnSet(a, rows)
          /\ Using!Bucket(rows)["cached"] = SumFunctionOnSet(b, rows)
          /\ Using!Bucket(rows)["output"] = SumFunctionOnSet(c, rows)
      BY <3>1, BucketSums DEF Using!Fields
    <3> HIDE DEF a, b, c
    <3> QED BY <1>2, <3>2 DEF Using!PricedAt, Using!CostOf
  <2> HIDE DEF a, b, c
  <2>4. ASSUME NEW i \in own
        PROVE  w[i] = a[i] * p.uncached + b[i] * p.cached + c[i] * p.output
    <3>1. w[i] = Using!PricedAt(m, Using!Bucket({i}))
      OBVIOUS
    <3>2. /\ SumFunctionOnSet(a, {i}) = a[i] /\ SumFunctionOnSet(b, {i}) = b[i]
          /\ SumFunctionOnSet(c, {i}) = c[i]
      BY <2>2, SumOfOne
    <3>3. {i} \in SUBSET own
      OBVIOUS
    <3> HIDE DEF p
    <3> QED BY <2>3, <3>1, <3>2, <3>3
  <2>5. \A i \in own : w[i] \in Int
    <3> TAKE i \in own
    <3>1. a[i] \in Int /\ b[i] \in Int /\ c[i] \in Int
      BY <2>2
    <3> HIDE DEF p
    <3> QED BY <2>1, <2>4, <3>1
  <2>6. SumFunctionOnSet(w, own)
          = SumFunctionOnSet(a, own) * p.uncached + SumFunctionOnSet(b, own) * p.cached
              + SumFunctionOnSet(c, own) * p.output
    <3>1. \A i \in own : a[i] \in Int /\ b[i] \in Int /\ c[i] \in Int
      BY <2>2
    <3>2. \A i \in own : w[i] = a[i] * p.uncached + b[i] * p.cached + c[i] * p.output
      BY <2>4
    <3> DEFINE k == p.uncached
               l == p.cached
               n == p.output
    <3>3. k \in Int /\ l \in Int /\ n \in Int
      BY <2>1
    <3>4. \A i \in own : w[i] = a[i] * k + b[i] * l + c[i] * n
      BY <3>2
    <3> HIDE DEF k, l, n
    <3>5. SumFunctionOnSet(w, own)
            = SumFunctionOnSet(a, own) * k + SumFunctionOnSet(b, own) * l
                + SumFunctionOnSet(c, own) * n
      BY <1>0, <3>1, <3>3, <3>4, SumLinear
    <3> QED BY <3>5 DEF k, l, n
  <2>7. own \in SUBSET own
    OBVIOUS
  <2> HIDE DEF p
  <2> QED BY <2>3, <2>5, <2>6, <2>7
<1> QED BY <1>1, <1>2

OneByOne(rows) == [i \in rows |-> Using!PricedAt(events[i].model, Using!Bucket({i}))]

\* What the models cost together is what the rows cost one by one.
LEMMA CostsSum ==
  ASSUME Logged, NEW rows \in SUBSET (DOMAIN events), Plausible(rows)
  PROVE  Using!TotalCost(Using!Grouped("model", rows)) = SumFunctionOnSet(OneByOne(rows), rows)
<1> DEFINE w == OneByOne(rows)
           c == [i \in rows |-> events[i].model]
           groups == Using!Grouped("model", rows)
           I == DOMAIN groups
           own(m) == {i \in rows : c[i] = m}
           e == [m \in I |-> Using!PricedAt(m, groups[m])]
<1>1. /\ I = {c[i] : i \in rows}
      /\ \A m \in I : groups[m] = Using!Bucket({i \in rows : events[i]["model"] = m})
  BY DEF Using!Grouped
<1>2. \A m \in I : groups[m] = Using!Bucket(own(m))
  <2> TAKE m \in I
  <2>1. {i \in rows : events[i]["model"] = m} = own(m)
    OBVIOUS
  <2>2. groups[m] = Using!Bucket({i \in rows : events[i]["model"] = m})
    BY <1>1
  <2> QED BY <2>1, <2>2
<1>3. Using!TotalCost(groups) = SumFunctionOnSet(e, I)
  BY SameDraws DEF Using!TotalCost
<1>4. IsFiniteSet(rows)
  BY FS_Subset DEF Logged
<1>5. \A i \in rows : c[i] \in I
  BY <1>1
<1>6. ASSUME NEW m
      PROVE  /\ Using!PricedAt(m, Using!Bucket(own(m))) = SumFunctionOnSet(w, own(m))
             /\ \A i \in own(m) : w[i] \in Int
  <2>1. own(m) \in SUBSET (DOMAIN events) /\ Plausible(own(m))
    BY DEF Plausible
  <2>2. \A i \in own(m) : /\ events[i].model = m
                          /\ w[i] = Using!PricedAt(events[i].model, Using!Bucket({i}))
    BY DEF OneByOne
  <2> DEFINE O == own(m)
  <2>3. /\ O \in SUBSET (DOMAIN events) /\ Plausible(O)
        /\ \A i \in O : events[i].model = m
    BY <2>1, <2>2
  <2>4. \A i \in O : w[i] = Using!PricedAt(events[i].model, Using!Bucket({i}))
    BY <2>2
  <2> HIDE DEF O, w
  <2>5. /\ Using!PricedAt(m, Using!Bucket(O)) = SumFunctionOnSet(w, O)
        /\ \A i \in O : w[i] \in Int
    BY <2>3, <2>4, PricedRows
  <2> QED BY <2>5 DEF O
<1> HIDE DEF groups, w
<1>7. \A i \in rows : w[i] \in Int
  <2> TAKE i \in rows
  <2>1. i \in own(c[i])
    OBVIOUS
  <2> HIDE DEF own
  <2> QED BY <1>6, <2>1
<1>8. PartSums(e, w, rows, c, I)
  <2> SUFFICES ASSUME NEW m \in I
               PROVE  e[m] = SumFunctionOnSet(w, {i \in rows : c[i] = m})
    BY DEF PartSums
  <2>1. e[m] = Using!PricedAt(m, Using!Bucket(own(m)))
    BY <1>2
  <2> HIDE DEF e, c
  <2> QED BY <1>6, <2>1
<1> HIDE DEF c
<1>9. IsFiniteSet(I)
  BY <1>1, <1>4, ImageFinite
<1> HIDE DEF I, e
<1>10. SumFunctionOnSet(e, I) = SumFunctionOnSet(w, rows)
  BY <1>4, <1>5, <1>7, <1>8, <1>9, SumClasses
<1> QED BY <1>3, <1>10 DEF groups, w

\* The sessions that are active have the recent requests between them.
LEMMA SessionsSum ==
  ASSUME Logged
  PROVE  SumFunctionOnSet([s \in DOMAIN Using!ActiveSessions |-> Using!ActiveSessions[s].requests],
                          DOMAIN Using!ActiveSessions)
           = Cardinality(Using!Chosen(LAMBDA e : e.at > now - Using!Window))
<1> DEFINE recent == {i \in DOMAIN events : events[i].at > now - Using!Window}
           active == Using!ActiveSessions
           I == DOMAIN active
           c == [i \in recent |-> events[i].session]
           own(s) == {i \in recent : c[i] = s}
           e == [s \in I |-> active[s].requests]
           v == [i \in recent |-> 1]
<1>1. Using!Chosen(LAMBDA x : x.at > now - Using!Window) = recent
  BY DEF Using!Chosen
<1>2. I = {events[i].session : i \in recent}
  BY DEF Using!ActiveSessions, Using!Chosen
<1>3. ASSUME NEW s \in I
      PROVE  active[s].requests = Using!Cardinality({i \in recent : events[i].session = s})
  BY DEF Using!ActiveSessions, Using!Chosen
<1> HIDE DEF active
<1>4. IsFiniteSet(recent)
  BY FS_Subset DEF Logged
<1>5. I = {c[i] : i \in recent}
  BY <1>2
<1>6. \A i \in recent : c[i] \in I
  BY <1>5
<1>7. IsFiniteSet(I)
  <2> HIDE DEF c, recent
  <2> QED BY <1>4, <1>5, ImageFinite
<1>8. PartSums(e, v, recent, c, I)
  <2> SUFFICES ASSUME NEW s \in I
               PROVE  e[s] = SumFunctionOnSet(v, {i \in recent : c[i] = s})
    BY DEF PartSums
  <2>1. {i \in recent : events[i].session = s} = own(s)
    OBVIOUS
  <2>2. e[s] = Cardinality(own(s))
    BY <1>3, <2>1, SameDraws
  <2>3. own(s) \in SUBSET recent /\ \A i \in own(s) : v[i] = 1
    OBVIOUS
  <2> DEFINE O == own(s)
  <2>4. IsFiniteSet(O)
    BY <1>4, <2>3, FS_Subset
  <2>5. \A i \in O : v[i] = 1
    BY <2>3
  <2> HIDE DEF O, v, e, recent
  <2>6. SumFunctionOnSet(v, O) = Cardinality(O)
    BY <2>4, <2>5, SumOfOnes
  <2> QED BY <2>2, <2>6 DEF O
<1>9. \A i \in recent : v[i] = 1 /\ v[i] \in Int
  OBVIOUS
<1> HIDE DEF recent, c, e, v, I
<1>10. SumFunctionOnSet(v, recent) = Cardinality(recent)
  BY <1>4, <1>9, SumOfOnes
<1>11. SumFunctionOnSet(e, I) = SumFunctionOnSet(v, recent)
  BY <1>4, <1>6, <1>7, <1>8, <1>9, SumClasses
<1> QED BY <1>1, <1>10, <1>11 DEF e, I, active

\* Whatever is in the table, the parts that the dashboard shows add up.
LEMMA AddsUp == Logged => Using!DashboardAddsUp
<1> SUFFICES ASSUME Logged, NEW period \in {"today", "day", "month", "all"}
    PROVE LET rows == Using!Rows(period, Using!NoFilter)
              plausible == \A i \in rows : events[i].cached <= events[i].prompt
              sums(bucket, of) ==
                \A f \in Using!Fields :
                  f # "uncached" \/ plausible => bucket[f] = Using!Bucket(of)[f]
              known == {i \in rows : events[i].key \in {Using!UsageKeyName(k) : k \in Using!Keys}}
              spent == Using!SumFunctionOnSet(
                         [i \in rows |-> Using!PricedAt(events[i].model, Using!Bucket({i}))], rows)
          IN /\ \A column \in {"model", "key", "ok"} :
                  sums(Using!SumBuckets(Using!Grouped(column, rows)), rows)
             /\ plausible => Using!TotalCost(Using!Grouped("model", rows)) = spent
             /\ sums(Using!SumBuckets([p \in Using!Providers |->
                                         Using!Bucket(Using!Rows(period, Using!KeyNamesOf(p)))]), known)
             /\ Using!Bucket(Using!Rows(period, Using!KeyNamesOf("nobody"))) = Using!ZeroBucket
             /\ \A top \in 0 .. 1 :
                \A series \in Using!MergeTop(Using!GroupedSeries("key", rows, Using!DayLength), top) :
                  LET filled == Using!FillZero(series)
                  IN sums(Using!SumBuckets([g \in DOMAIN filled |-> Using!SumBuckets(filled[g])]), rows)
             /\ Using!SumFunctionOnSet([s \in DOMAIN Using!ActiveSessions |->
                                          Using!ActiveSessions[s].requests],
                                       DOMAIN Using!ActiveSessions)
                = Using!Cardinality(Using!Chosen(LAMBDA e : e.at > now - Using!Window))
  BY Zenon DEF Using!DashboardAddsUp
<1> DEFINE rows == Using!Rows(period, Using!NoFilter)
           known == {i \in rows : events[i].key \in {Using!UsageKeyName(k) : k \in Using!Keys}}
           plausible == \A i \in rows : events[i].cached <= events[i].prompt
           sums(bucket, of) ==
             \A f \in Using!Fields : f # "uncached" \/ plausible => bucket[f] = Using!Bucket(of)[f]
<1>1. rows \in SUBSET (DOMAIN events)
  BY RowsThere
<1>2. plausible => Plausible(rows) /\ Plausible(known)
  BY DEF Plausible
<1>3. \A column : sums(Using!SumBuckets(Using!Grouped(column, rows)), rows)
  <2> HIDE DEF rows
  <2> QED BY <1>1, <1>2, ColumnsSum
<1>4. ASSUME plausible
      PROVE  Using!TotalCost(Using!Grouped("model", rows))
               = Using!SumFunctionOnSet(
                   [i \in rows |-> Using!PricedAt(events[i].model, Using!Bucket({i}))], rows)
  <2> HIDE DEF rows
  <2>1. Using!TotalCost(Using!Grouped("model", rows)) = SumFunctionOnSet(OneByOne(rows), rows)
    BY <1>1, <1>2, <1>4, CostsSum
  <2> QED BY <2>1, SameDraws DEF OneByOne
<1>5. sums(Using!SumBuckets([p \in Using!Providers |->
                               Using!Bucket(Using!Rows(period, Using!KeyNamesOf(p)))]), known)
  <2> SUFFICES ASSUME NEW f \in Using!Fields, f # "uncached" \/ plausible
      PROVE Using!SumBuckets([p \in Using!Providers |->
              Using!Bucket(Using!Rows(period, Using!KeyNamesOf(p)))])[f] = Using!Bucket(known)[f]
    OBVIOUS
  <2>1. f = "uncached" => Plausible(known)
    BY <1>2
  <2> HIDE DEF plausible
  <2> QED BY <2>1, ProvidersSum
<1>6. ASSUME NEW top \in 0 .. 1,
             NEW series \in Using!MergeTop(Using!GroupedSeries("key", rows, Using!DayLength), top)
      PROVE  LET filled == Using!FillZero(series)
             IN sums(Using!SumBuckets([g \in DOMAIN filled |-> Using!SumBuckets(filled[g])]), rows)
  <2> DEFINE filled == Using!FillZero(series)
  <2> SUFFICES ASSUME NEW f \in Using!Fields, f # "uncached" \/ plausible
      PROVE Using!SumBuckets([g \in DOMAIN filled |-> Using!SumBuckets(filled[g])])[f]
              = Using!Bucket(rows)[f]
    OBVIOUS
  <2>1. f = "uncached" => Plausible(rows)
    BY <1>2
  <2> HIDE DEF plausible, rows
  <2>2. PICK c : Series(series, f, rows, c, HourOf(Using!DayLength))
    BY <1>1, <2>1, MergedSeries
  <2> HIDE DEF filled
  <2> QED BY <1>1, <2>1, <2>2, FilledSum DEF filled
<1>7. Using!SumFunctionOnSet([s \in DOMAIN Using!ActiveSessions |->
                                Using!ActiveSessions[s].requests],
                             DOMAIN Using!ActiveSessions)
        = Using!Cardinality(Using!Chosen(LAMBDA e : e.at > now - Using!Window))
  BY SessionsSum, SameDraws
<1> QED BY <1>3, <1>4, <1>5, <1>6, <1>7, NobodySum, Zenon

THEOREM TheDashboardAddsUp == Spec => []DashboardAddsUp
<1>1. Init => Ledger
  BY LedgerInit DEF Init
<1>2. Ledger /\ [Next]_vars => Ledger'
  BY Alone, LedgerKept
<1>3. Ledger => DashboardAddsUp
  BY LedgerLogged, AddsUp DEF DashboardAddsUp
<1> QED BY <1>1, <1>2, <1>3, PTL DEF Spec
===============================================================================
