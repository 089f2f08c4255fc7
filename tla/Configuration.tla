----------------------------- MODULE Configuration ----------------------------
(***************************************************************************)
(* The layered configuration: four files that every backend reads and the  *)
(* dashboard edits through one of them, what a backend has loaded, the     *)
(* watcher that loads again what changed, and how a model name becomes the *)
(* candidates of a route.                                                  *)
(*                                                                         *)
(* A name is the sequence of its segments: "p/m" is <<"p", "m">>.  A file  *)
(* that does not parse, because it is half written, is Broken.             *)
(***************************************************************************)
EXTENDS Integers, FiniteSets, SequencesExt

CONSTANTS
  Slots,          \* backends
  Editors,        \* those that get the edits of the dashboard
  Broken,         \* the content of a half-written file
  InitialFiles,   \* the files at the start
  Requests,       \* what the dashboard may ask for
  ProviderOrder,  \* the names of providers, sorted
  MaxChanges      \* bound of the edits, for model checking

VARIABLES
  disk,     \* file -> its content
  config,   \* slot -> the configuration it serves, or Down
  stale,    \* slot -> the files that changed since its watcher last looked
  noticed,  \* slots whose watcher has seen a change and not loaded it yet
  edit,     \* slot -> the edit it is at, with what is left to write
  saving,   \* the operator's editor: the file it is saving, or nothing
  clean,    \* no write was cut short or overwritten yet (history)
  changes   \* edits so far

vars == <<disk, config, stale, noticed, edit, saving, clean, changes>>

Files == {"providers", "models", "pools", "virtual"}
Down == [down |-> TRUE]
NoEdit == [writes |-> <<>>, half |-> FALSE, end |-> "none"]
NoFile == [file |-> "none"]
AnyKey == {}     \* an empty list of keys allows all of them
NoWindow == -1

-------------------------------------------------------------------------------
(* Loading *)

Qualified(name) == Len(name) > 1

\* p/v where p maps the virtual model v.
ScopedVirtual(cfg, name) ==
  /\ Qualified(name)
  /\ Tail(name) \in DOMAIN cfg.virtual
  /\ Head(name) \in DOMAIN cfg.virtual[Tail(name)]

Known(cfg, pool, name) ==
  \/ name \in DOMAIN cfg.models \cup DOMAIN cfg.virtual
  \/ name \in DOMAIN cfg.pools \ {pool}
  \/ ScopedVirtual(cfg, name) /\ Head(name) \in DOMAIN cfg.providers

TargetNames(cfg, pool) == {t.model : t \in ToSet(cfg.pools[pool].targets)}

Valid(cfg) ==
  /\ \A p \in DOMAIN cfg.providers : cfg.providers[p].url
  /\ \A m \in DOMAIN cfg.models :
       cfg.models[m].provider \in DOMAIN cfg.providers /\ cfg.models[m].window # 0
  /\ \A l \in DOMAIN cfg.pools :
       cfg.pools[l].targets # <<>> /\ \A n \in TargetNames(cfg, l) : Known(cfg, l, n)

Parses(d) == \A f \in Files \ {"virtual"} : d[f] # Broken

\* A pool of an old file says itself that it takes images: its physical models get
\* that, those of the pools it names too, and the pool says it no more.
PhysicalTargets(d, pool) ==
  LET direct == TargetNames(d, pool)
      nested == UNION {TargetNames(d, l) : l \in (direct \ DOMAIN d.models) \cap DOMAIN d.pools}
  IN (direct \cup nested) \cap DOMAIN d.models

Migrate(d) ==
  LET old == {l \in DOMAIN d.pools : d.pools[l].legacy}
      heirs == UNION {PhysicalTargets(d, l) : l \in old}
  IN IF ~Parses(d) THEN d ELSE
     [d EXCEPT
        !.models = [m \in DOMAIN d.models |->
                      IF m \in heirs /\ @[m].image = "unset"
                      THEN [@[m] EXCEPT !.image = "yes"] ELSE @[m]],
        !.pools = [l \in DOMAIN d.pools |-> [@[l] EXCEPT !.legacy = FALSE]]]

\* A missing or broken file of virtual models counts as an empty one.
Unvalidated(d) == [Migrate(d) EXCEPT !.virtual = IF @ = Broken THEN <<>> ELSE @]
Loadable(d) == Parses(d) /\ Valid(Unvalidated(d))

\* Mutant of WatchPaths: the newest file was forgotten.
WatchPathsFew == Files \ {"virtual"}

\* A watcher sees that a file was written by its time and length.
WatchPaths == Files
Wrote(files) == [s \in Slots |-> stale[s] \cup (files \cap WatchPaths)]

-------------------------------------------------------------------------------
(* Routes *)

EnabledKeys(cfg, p, allowed) ==
  {k \in DOMAIN cfg.providers[p].keys :
     cfg.providers[p].keys[k] /\ (allowed = AnyKey \/ k \in allowed)}

Candidate(cfg, pool, p, upstream, target) ==
  [pool |-> pool, target |-> target.model, provider |-> p, upstream |-> upstream,
   keys |-> EnabledKeys(cfg, p, target.keys)]

\* Mutant of PhysicalCandidate: it stays one, too, when the target's keys are off.
PhysicalCandidateAlways(cfg, pool, target) ==
  LET m == cfg.models[target.model]
  IN <<Candidate(cfg, pool, m.provider, m.upstream, target)>>

\* A physical model without keys stays a candidate unless the target's list of
\* keys left none.
PhysicalCandidate(cfg, pool, target) ==
  LET m == cfg.models[target.model]
      c == Candidate(cfg, pool, m.provider, m.upstream, target)
  IN IF target.keys # AnyKey /\ c.keys = {} THEN <<>> ELSE <<c>>

VirtualCandidate(cfg, pool, p, upstream, target) ==
  IF p \notin DOMAIN cfg.providers \/ EnabledKeys(cfg, p, target.keys) = {} THEN <<>>
  ELSE <<Candidate(cfg, pool, p, upstream, target)>>

VirtualCandidates(cfg, pool, target) ==
  LET name == target.model
      mapping == cfg.virtual[name]
      mapped == SelectSeq(ProviderOrder, LAMBDA p : p \in DOMAIN mapping)
  IN IF name \in DOMAIN cfg.virtual
     THEN FlattenSeq([i \in DOMAIN mapped |->
            VirtualCandidate(cfg, pool, mapped[i], mapping[mapped[i]], target)])
     ELSE VirtualCandidate(cfg, pool, Head(name), cfg.virtual[Tail(name)][Head(name)], target)

\* The candidates of a pool in the order of its targets; a pool on the path from
\* the one asked for is not entered again.
ResolveTargets(cfg, alias) ==
  LET resolve[pool \in DOMAIN cfg.pools, path \in SUBSET DOMAIN cfg.pools] ==
        LET targets == SelectSeq(cfg.pools[pool].targets, LAMBDA t : t.enabled)
            expand(t) ==
              IF t.model \in DOMAIN cfg.models THEN PhysicalCandidate(cfg, pool, t)
              ELSE IF t.model \in DOMAIN cfg.virtual \/ ScopedVirtual(cfg, t.model)
                   THEN VirtualCandidates(cfg, pool, t)
              ELSE IF t.model \in DOMAIN cfg.pools THEN resolve[t.model, path \cup {pool}]
              ELSE <<>>
        IN IF pool \in path THEN <<>>
           ELSE FlattenSeq([i \in DOMAIN targets |-> expand(targets[i])])
  IN IF alias \in DOMAIN cfg.pools THEN resolve[alias, {}] ELSE <<>>

KeysUsable(cfg, target) ==
  target.keys = AnyKey \/ EnabledKeys(cfg, cfg.models[target.model].provider, target.keys) # {}

\* What /v1/models lists for a pool: the first physical model with a key it may
\* use, or nothing.  Virtual models do not count.
FirstPhysical(cfg, alias) ==
  LET first[pool \in DOMAIN cfg.pools, path \in SUBSET DOMAIN cfg.pools] ==
        LET found(t) ==
              IF ~t.enabled THEN <<>>
              ELSE IF t.model \in DOMAIN cfg.models
                   THEN IF KeysUsable(cfg, t) THEN t.model ELSE <<>>
              ELSE IF t.model \in DOMAIN cfg.pools \ (path \cup {pool})
                   THEN first[t.model, path \cup {pool}]
              ELSE <<>>
        IN FoldLeft(LAMBDA got, t : IF got # <<>> THEN got ELSE found(t),
                    <<>>, cfg.pools[pool].targets)
  IN first[alias, {}]

\* A pool is announced as taking images when all its candidates do; a candidate is
\* looked up by its provider and the name it has there.
TakesImages(cfg, pool) ==
  LET candidates == ToSet(ResolveTargets(cfg, pool))
      takes(c) == \E m \in DOMAIN cfg.models :
                    /\ cfg.models[m].provider = c.provider
                    /\ cfg.models[m].upstream = c.upstream
                    /\ cfg.models[m].image = "yes"
  IN candidates # {} /\ \A c \in candidates : takes(c)

-------------------------------------------------------------------------------
(* Edits: what each writes, file after file, and whether it loads again *)

Write(file, content) == <<[file |-> file, content |-> content]>>
Accepted(writes) == [writes |-> writes, half |-> FALSE, end |-> "reload"]
Failed(writes) == [writes |-> writes, half |-> FALSE, end |-> "error"]
Refused(writes) == [writes |-> writes, half |-> FALSE, end |-> "refused"]
Rejected == Refused(<<>>)

\* The name of a model in its provider, after the provider got another one: the
\* second segment of the id.
RenamedId(name, id) == <<name, IF Qualified(id) THEN id[2] ELSE id[1]>>

RenameInModels(models, old, new) ==
  LET of(id) == IF models[id].provider = old THEN RenamedId(new, id) ELSE id
  IN [id \in {of(m) : m \in DOMAIN models} |->
        LET m == models[CHOOSE m \in DOMAIN models : of(m) = id]
        IN [m EXCEPT !.provider = IF @ = old THEN new ELSE @]]

Retarget(pools, rename(_)) ==
  [l \in DOMAIN pools |->
     [pools[l] EXCEPT !.targets =
        [i \in DOMAIN @ |-> [@[i] EXCEPT !.model = rename(@)]]]]

\* Mutant of RenameInPools: the targets keep the old name.
RenameInPoolsNot(pools, old, new) == pools

RenameInPools(pools, old, new) ==
  Retarget(pools, LAMBDA n : IF Qualified(n) /\ Head(n) = old THEN <<new>> \o Tail(n) ELSE n)

\* The mappings of virtual models keep the old name.
UpdateProvider(d, r) ==
  LET providers == (r.new :> [url |-> TRUE, keys |-> r.keys])
                     @@ Restrict(d.providers, DOMAIN d.providers \ {r.name})
      written == Write("providers", providers)
      models == Write("models", RenameInModels(d.models, r.name, r.new))
  IN IF \/ d.providers = Broken
        \/ r.name \notin DOMAIN d.providers
        \/ r.new \in DOMAIN d.providers \ {r.name} THEN Rejected
     ELSE IF r.new = r.name THEN Accepted(written)
     ELSE IF d.models = Broken THEN Failed(written)
     ELSE IF d.pools = Broken THEN Failed(written \o models)
     ELSE Accepted(written \o models \o Write("pools", RenameInPools(d.pools, r.name, r.new)))

CreateProvider(d, r) ==
  IF d.providers = Broken \/ r.name \in DOMAIN d.providers THEN Rejected
  ELSE Accepted(Write("providers", (r.name :> [url |-> TRUE, keys |-> r.keys]) @@ d.providers))

Model(id) == [provider |-> Head(id), upstream |-> Tail(id), image |-> "unset",
              window |-> NoWindow]

\* What the edits of pools and virtual models check against: the files, valid or
\* not, so that an edit can mend them.  Reading them migrates them.
ForEdit(d) == IF Parses(d) THEN Unvalidated(d) ELSE Broken

Migrated(d) ==
  LET m == Migrate(d)
  IN (IF m.models # d.models THEN Write("models", m.models) ELSE <<>>)
     \o (IF m.pools # d.pools THEN Write("pools", m.pools) ELSE <<>>)

\* auto_register_target_models, then validate_targets: a rejected edit may leave
\* models it registered.
EditPools(d, cfg, self, targets, pools) ==
  LET names == {t.model : t \in ToSet(targets)}
      unregistered == {n \in names : /\ Qualified(n)
                                     /\ Head(n) \in DOMAIN cfg.providers
                                     /\ n \notin DOMAIN cfg.models}
      models == [n \in unregistered |-> Model(n)] @@ cfg.models
      before == Migrated(d) \o IF unregistered = {} THEN <<>> ELSE Write("models", models)
  IN IF \A n \in names : Known([cfg EXCEPT !.models = models], self, n)
     THEN Accepted(before \o Write("pools", pools))
     ELSE IF unregistered # {} THEN Accepted(before) ELSE Refused(before)

NameTaken(cfg, name) == name \in DOMAIN cfg.pools \cup DOMAIN cfg.models \cup DOMAIN cfg.virtual

Pool(targets) == [targets |-> targets, legacy |-> FALSE]

CreatePool(d, r) ==
  LET cfg == ForEdit(d)
  IN IF cfg = Broken \/ NameTaken(cfg, r.name) \/ r.targets = <<>> THEN Rejected
     ELSE EditPools(d, cfg, r.name, r.targets, (r.name :> Pool(r.targets)) @@ cfg.pools)

\* Renamed, the pools that name it follow.
UpdatePool(d, r) ==
  LET cfg == ForEdit(d)
      others == Restrict(cfg.pools, DOMAIN cfg.pools \ {r.name})
      cascade == Retarget(others, LAMBDA n : IF n = r.name THEN r.new ELSE n)
      selfish == \E t \in ToSet(r.targets) : t.model \in {r.name, r.new}
  IN IF \/ cfg = Broken
        \/ r.name \notin DOMAIN cfg.pools
        \/ r.targets = <<>>
        \/ r.new # r.name /\ (NameTaken(cfg, r.new) \/ selfish)
     THEN Rejected
     ELSE EditPools(d, cfg, r.new, r.targets, (r.new :> Pool(r.targets)) @@ cascade)

\* The targets that name the pool go with it, even the last ones.
DeletePool(d, r) ==
  LET others == Restrict(d.pools, DOMAIN d.pools \ {r.name})
  IN IF d.pools = Broken \/ r.name \notin DOMAIN d.pools THEN Rejected
     ELSE Accepted(Write("pools",
            [l \in DOMAIN others |->
               [others[l] EXCEPT !.targets = SelectSeq(@, LAMBDA t : t.model # r.name)]]))

MapVirtual(d, r) ==
  LET cfg == ForEdit(d)
      mapping == IF r.name \in DOMAIN cfg.virtual THEN cfg.virtual[r.name] ELSE <<>>
  IN IF \/ cfg = Broken
        \/ r.provider \notin DOMAIN cfg.providers
        \/ r.name \in DOMAIN cfg.models \cup DOMAIN cfg.pools
     THEN Rejected
     ELSE Accepted(Migrated(d) \o
            Write("virtual", (r.name :> ((r.provider :> r.upstream) @@ mapping)) @@ cfg.virtual))

\* Nobody looks whether a pool still names it.
UnmapVirtual(d, r) ==
  IF \/ d.virtual = Broken
     \/ r.name \notin DOMAIN d.virtual
     \/ r.provider \notin DOMAIN d.virtual[r.name]
  THEN Rejected
  ELSE LET mapping == Restrict(d.virtual[r.name], DOMAIN d.virtual[r.name] \ {r.provider})
           others == Restrict(d.virtual, DOMAIN d.virtual \ {r.name})
       IN Accepted(Write("virtual", IF mapping = <<>> THEN others
                                    ELSE (r.name :> mapping) @@ others))

\* What is known is what is loaded, and what is written is the file: a model that is
\* only in the file is registered anew.  Thinking maps are set on known ones only.
SetModels(d, loaded, r) ==
  LET fresh == r.ids \ DOMAIN loaded.models
      registrable == r.register /\ \A n \in fresh :
                       Qualified(n) /\ Head(n) \in DOMAIN loaded.providers
      models == [n \in fresh |-> Model(n)] @@ d.models
  IN IF d.models = Broken \/ (fresh # {} /\ ~registrable) THEN Rejected
     ELSE Accepted(Write("models", [n \in DOMAIN models |->
            IF n \in r.ids THEN [models[n] EXCEPT !.window = r.window] ELSE models[n]]))

-------------------------------------------------------------------------------
(* Steps *)

Running(s) == config[s] # Down

Init ==
  /\ disk = InitialFiles
  /\ config = [s \in Slots |-> Unvalidated(InitialFiles)]
  /\ stale = [s \in Slots |-> {}]
  /\ noticed = {}
  /\ edit = [s \in Slots |-> NoEdit]
  /\ saving = NoFile
  /\ clean = TRUE
  /\ changes = 0

\* reload_v2: what cannot be loaded leaves what is loaded.
Reload(s) ==
  LET d == Migrate(disk)
  IN /\ disk' = d
     /\ stale' = Wrote({f \in Files : d[f] # disk[f]})
     /\ config' = IF Loadable(disk) THEN [config EXCEPT ![s] = Unvalidated(disk)] ELSE config

\* An edit holds the lock of its backend to the end.
Begin(s, e) ==
  /\ s \in Editors /\ Running(s) /\ edit[s] = NoEdit
  /\ e.writes # <<>>
  /\ changes < MaxChanges
  /\ edit' = [edit EXCEPT ![s] = e]
  /\ changes' = changes + 1
  /\ UNCHANGED <<disk, config, stale, noticed, saving, clean>>

Edit(s, r) ==
  \/ r.op = "update_provider" /\ Begin(s, UpdateProvider(disk, r))
  \/ r.op = "create_provider" /\ Begin(s, CreateProvider(disk, r))
  \/ r.op = "create_pool" /\ Begin(s, CreatePool(disk, r))
  \/ r.op = "update_pool" /\ Begin(s, UpdatePool(disk, r))
  \/ r.op = "delete_pool" /\ Begin(s, DeletePool(disk, r))
  \/ r.op = "map_virtual" /\ Begin(s, MapVirtual(disk, r))
  \/ r.op = "unmap_virtual" /\ Begin(s, UnmapVirtual(disk, r))
  \/ r.op = "set_models" /\ Begin(s, SetModels(disk, config[s], r))

\* fs::write empties the file and then fills it.
Truncate(s) ==
  /\ edit[s].writes # <<>> /\ ~edit[s].half
  /\ LET f == Head(edit[s].writes).file
     IN disk' = [disk EXCEPT ![f] = Broken] /\ stale' = Wrote({f})
  /\ edit' = [edit EXCEPT ![s].half = TRUE]
  /\ UNCHANGED <<config, noticed, saving, clean, changes>>

Fill(s) ==
  /\ edit[s].half
  /\ LET w == Head(edit[s].writes)
     IN disk' = [disk EXCEPT ![w.file] = w.content] /\ stale' = Wrote({w.file})
  /\ edit' = [edit EXCEPT ![s].half = FALSE, ![s].writes = Tail(@)]
  /\ UNCHANGED <<config, noticed, saving, clean, changes>>

Finish(s) ==
  /\ edit[s].end = "reload" /\ edit[s].writes = <<>>
  /\ Reload(s)
  /\ edit' = [edit EXCEPT ![s] = NoEdit]
  /\ UNCHANGED <<noticed, saving, clean, changes>>

\* An edit that found a file it cannot read has written some of the others; one that
\* was refused has at most migrated them.
GiveUp(s) ==
  /\ edit[s].end \in {"error", "refused"} /\ edit[s].writes = <<>>
  /\ edit' = [edit EXCEPT ![s] = NoEdit]
  /\ clean' = (clean /\ edit[s].end = "refused")
  /\ UNCHANGED <<disk, config, stale, noticed, saving, changes>>

\* The watcher takes its snapshot first, and then waits for the lock.
Notice(s) ==
  /\ Running(s) /\ s \notin noticed /\ stale[s] # {}
  /\ noticed' = noticed \cup {s}
  /\ stale' = [stale EXCEPT ![s] = {}]
  /\ UNCHANGED <<disk, config, edit, saving, clean, changes>>

HotReload(s) ==
  /\ s \in noticed /\ edit[s] = NoEdit
  /\ Reload(s)
  /\ noticed' = noticed \ {s}
  /\ UNCHANGED <<edit, saving, clean, changes>>

\* A backend that dies at an edit leaves the rest of it unwritten.
Crash(s) ==
  /\ Running(s)
  /\ config' = [config EXCEPT ![s] = Down]
  /\ stale' = [stale EXCEPT ![s] = {}]
  /\ noticed' = noticed \ {s}
  /\ edit' = [edit EXCEPT ![s] = NoEdit]
  /\ clean' = (clean /\ edit[s] = NoEdit)
  /\ UNCHANGED <<disk, saving, changes>>

\* A backend does not start on files it cannot load.
Start(s) ==
  /\ ~Running(s) /\ Loadable(disk)
  /\ Reload(s)
  /\ UNCHANGED <<noticed, edit, saving, clean, changes>>

\* The operator saves a file: an old one of pools that say they take images, or one
\* as it was.
Saved(f) ==
  IF f = "pools" THEN [l \in DOMAIN disk.pools |-> [disk.pools[l] EXCEPT !.legacy = TRUE]]
  ELSE disk[f]

StartSaving(f) ==
  /\ saving = NoFile /\ disk[f] # Broken /\ changes < MaxChanges
  /\ saving' = [file |-> f, content |-> Saved(f)]
  /\ disk' = [disk EXCEPT ![f] = Broken]
  /\ stale' = Wrote({f})
  /\ changes' = changes + 1
  /\ UNCHANGED <<config, noticed, edit, clean>>

Save ==
  /\ saving # NoFile
  /\ disk' = [disk EXCEPT ![saving.file] = saving.content]
  /\ stale' = Wrote({saving.file})
  /\ clean' = (/\ clean
               /\ disk[saving.file] = Broken
               /\ \A s \in Slots : edit[s] = NoEdit)
  /\ saving' = NoFile
  /\ UNCHANGED <<config, noticed, edit, changes>>

Next ==
  \/ \E s \in Slots : \/ \E r \in Requests : Edit(s, r)
                      \/ Truncate(s) \/ Fill(s) \/ Finish(s) \/ GiveUp(s)
                      \/ Notice(s) \/ HotReload(s)
                      \/ Crash(s) \/ Start(s)
  \/ \E f \in Files : StartSaving(f)
  \/ Save

Spec == Init /\ [][Next]_vars
-------------------------------------------------------------------------------
(* Properties *)

Whole(cfg) ==
  /\ \A f \in Files : cfg[f] # Broken
  /\ \A m \in DOMAIN cfg.models : cfg.models[m].image \in {"unset", "yes", "no"}
  /\ \A l \in DOMAIN cfg.pools : cfg.pools[l].targets \in Seq([model : Seq(STRING),
                                   enabled : BOOLEAN, keys : SUBSET STRING])

\* What is served is always whole, files may be torn.
TypeOK ==
  /\ \A s \in Slots : Running(s) => Whole(config[s])
  /\ stale \in [Slots -> SUBSET Files]
  /\ noticed \subseteq {s \in Slots : Running(s)}
  /\ \A s \in Slots : edit[s].half => edit[s].writes # <<>>
  /\ clean \in BOOLEAN
  /\ changes \in 0..MaxChanges

\* A backend whose watcher has nothing left to look at serves what the files say,
\* when they can be loaded: no order of writes, polls, failed loads and restarts
\* leaves it on an old configuration.  (hot_reload.rs:64, state/v2.rs:760)
Converged ==
  \A s \in Slots :
    (/\ Running(s) /\ stale[s] = {} /\ s \notin noticed /\ edit[s] = NoEdit
     /\ Loadable(disk))
      => config[s] = Unvalidated(disk)

VirtualNames ==
  DOMAIN InitialFiles.virtual
    \cup {r.name : r \in {q \in Requests : q.op = "map_virtual"}}

\* Edits that ran to their end leave no reference to a provider, a physical model or
\* a pool that is not there, whatever is renamed, removed or registered on the way, as
\* long as no model of a renamed provider has a name of several segments (RenameInModels
\* cuts those).  Edits that failed, crashed or overwrote another (~clean) are excused.
\* (state/v2.rs:379, 492, 608)
ReferencesKept ==
  LET cfg == Unvalidated(disk)
      virtual(n) == n \in VirtualNames \/ (Qualified(n) /\ Tail(n) \in VirtualNames)
  IN (Parses(disk) /\ clean /\ saving = NoFile /\ \A s \in Slots : edit[s] = NoEdit) =>
       /\ \A m \in DOMAIN cfg.models : cfg.models[m].provider \in DOMAIN cfg.providers
       /\ \A l \in DOMAIN cfg.pools : \A n \in TargetNames(cfg, l) :
            Known(cfg, l, n) \/ virtual(n)

\* Resolving gives exactly the enabled targets that the pool reaches through enabled
\* pools, also when pools name each other in circles; and a pool is listed with the
\* first physical one of them, or not at all.  (resolve.rs:28, fold.rs:9)
RoutesReach ==
  \A s \in Slots : Running(s) =>
    LET cfg == config[s]
        enabled(l) == {t \in ToSet(cfg.pools[l].targets) : t.enabled}
        leads(t) == t.model \notin DOMAIN cfg.models \cup DOMAIN cfg.virtual
                    /\ ~ScopedVirtual(cfg, t.model)
        reach[n \in Nat, l \in DOMAIN cfg.pools] ==
          IF n = 0 THEN {l}
          ELSE {l} \cup UNION {reach[n - 1, t.model] : t \in {u \in enabled(l) : leads(u)}}
        offers(l, t) ==
          IF t.model \in DOMAIN cfg.models
          THEN {<<cfg.models[t.model].provider, cfg.models[t.model].upstream>>}
          ELSE IF leads(t) THEN {}
          ELSE IF t.model \in DOMAIN cfg.virtual
          THEN {<<p, cfg.virtual[t.model][p]>> : p \in DOMAIN cfg.virtual[t.model]}
          ELSE {<<Head(t.model), cfg.virtual[Tail(t.model)][Head(t.model)]>>}
        usable(t, p) == /\ p \in DOMAIN cfg.providers
                        /\ \/ EnabledKeys(cfg, p, t.keys) # {}
                           \/ t.model \in DOMAIN cfg.models /\ t.keys = AnyKey
        promised(l, t) == {o \in offers(l, t) : usable(t, o[1])}
    IN \A l \in DOMAIN cfg.pools :
         LET route == ResolveTargets(cfg, l)
             physical == SelectSeq(route, LAMBDA c : c.target \in DOMAIN cfg.models)
         IN /\ {<<c.pool, c.provider, c.upstream>> : c \in ToSet(route)}
                 = UNION {UNION {{<<m, o[1], o[2]>> : o \in promised(m, t)} : t \in enabled(m)} :
                            m \in reach[Cardinality(DOMAIN cfg.pools), l]}
            /\ FirstPhysical(cfg, l) = IF physical = <<>> THEN <<>> ELSE physical[1].target

\* An old pool that takes images is still announced as taking them once that is up to
\* its physical models, when it has only such, directly or one pool away, and none of
\* them says no.  (io.rs:104)
LegacyKept ==
  Loadable(disk) =>
    \A l \in DOMAIN disk.pools :
      LET heirs == PhysicalTargets(disk, l)
          candidates == ToSet(ResolveTargets(Unvalidated(disk), l))
      IN (/\ disk.pools[l].legacy
          /\ candidates # {} /\ {c.target : c \in candidates} \subseteq heirs
          /\ \A m \in heirs : disk.models[m].image # "no")
           => TakesImages(Unvalidated(disk), l)
===============================================================================
