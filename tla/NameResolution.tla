----------------------------- MODULE NameResolution ----------------------------
(***************************************************************************)
(* How a backend finds the addresses of its upstreams: its cache, the name *)
(* servers of dns-overrides.json in order, the addresses that file fixes,  *)
(* and the system; and what an update from the dashboard does to lookups   *)
(* under way.  An address is named by whom it came from.                   *)
(*                                                                         *)
(* The handler of the update and the lookups run on threads of their own:  *)
(* every lock section is a step.                                           *)
(***************************************************************************)
EXTENDS Naturals, SequencesExt

CONSTANTS
  Workers,    \* lookups at a time
  Hosts,
  Contents,   \* what the file may say: [enabled, nameservers, static, ttl]
  MaxUpdates, MaxTime   \* bounds, for model checking

VARIABLES
  namesFile,  \* dns-overrides.json
  resolver,   \* [nameservers, static] in force, or Off
  ttl,        \* cache_ttl, as it was when the process started
  updates,    \* updates so far: the generation of the resolver's configuration
  cache,      \* host -> the entry
  lookup,     \* worker -> the lookup it is at
  saving,     \* the update under way, or NoUpdate
  now         \* seconds

vars == <<namesFile, resolver, ttl, updates, cache, lookup, saving, now>>

Off == [off |-> TRUE]
Idle == [at |-> "idle"]
NoUpdate == [at |-> "none"]

\* parse_resolver_config: without servers and fixed addresses there is none.
Parsed(content) ==
  IF content.nameservers = <<>> /\ content.static = <<>> THEN Off
  ELSE [nameservers |-> content.nameservers, static |-> content.static]

\* resolver_from_config_file
FromFile(content) == IF content.enabled THEN Parsed(content) ELSE Off

Cached(host) == host \in DOMAIN cache /\ now - cache[host].at < ttl

\* cache_store
Stored(l, address) ==
  [host \in DOMAIN cache \cup {l.host} |->
     IF host = l.host
     THEN [address |-> address, at |-> now, generation |-> l.generation,
           overtaken |-> l.generation # updates]
     ELSE cache[host]]

Set(w, l) == lookup' = [lookup EXCEPT ![w] = l]
Answer(address) == [at |-> "answered", address |-> address]

-------------------------------------------------------------------------------
(* resolve_chain *)

Hit(w, host) ==
  /\ lookup[w] = Idle /\ resolver # Off
  /\ Cached(host)
  /\ Set(w, Answer(cache[host].address))
  /\ UNCHANGED <<namesFile, resolver, ttl, updates, cache, saving, now>>

Miss(w, host) ==
  /\ lookup[w] = Idle /\ resolver # Off
  /\ ~Cached(host)
  /\ Set(w, [at |-> "missed", host |-> host])
  /\ UNCHANGED <<namesFile, resolver, ttl, updates, cache, saving, now>>

\* The lookup goes on with the configuration as it is now.
ReadConfig(w) ==
  /\ lookup[w].at = "missed"
  /\ Set(w, [at |-> "asking", host |-> lookup[w].host, generation |-> updates,
             servers |-> resolver.nameservers, static |-> resolver.static])
  /\ UNCHANGED <<namesFile, resolver, ttl, updates, cache, saving, now>>

\* L1: the first server that has an address; one that fails or has none is passed over.
AskServer(w) ==
  LET l == lookup[w]
  IN /\ l.at = "asking" /\ l.servers # <<>>
     /\ \/ cache' = Stored(l, Head(l.servers)) /\ Set(w, Answer(Head(l.servers)))
        \/ Set(w, [l EXCEPT !.servers = Tail(@)]) /\ UNCHANGED cache
     /\ UNCHANGED <<namesFile, resolver, ttl, updates, saving, now>>

\* L2
TakeStatic(w) ==
  LET l == lookup[w]
  IN /\ l.at = "asking" /\ l.servers = <<>> /\ l.host \in DOMAIN l.static
     /\ cache' = Stored(l, l.static[l.host])
     /\ Set(w, Answer(l.static[l.host]))
     /\ UNCHANGED <<namesFile, resolver, ttl, updates, saving, now>>

\* L3; a system that has no answer in time either is an error of the connection.
AskSystem(w) ==
  LET l == lookup[w]
  IN /\ l.at = "asking" /\ l.servers = <<>> /\ l.host \notin DOMAIN l.static
     /\ \/ cache' = Stored(l, "system") /\ Set(w, Answer("system"))
        \/ Set(w, Answer("none")) /\ UNCHANGED cache
     /\ UNCHANGED <<namesFile, resolver, ttl, updates, saving, now>>

Done(w) ==
  /\ lookup[w].at = "answered" /\ Set(w, Idle)
  /\ UNCHANGED <<namesFile, resolver, ttl, updates, cache, saving, now>>

-------------------------------------------------------------------------------
(* api_config_dns_overrides_update: the resolver first, then the file; the dashboard *)
(* sends one update at a time                                                       *)

\* Off in the process or in the update, or nothing to resolve with: only the file is
\* written, and the resolver stays as it is.
Begin(content) ==
  /\ saving = NoUpdate /\ updates < MaxUpdates
  /\ saving' = [at |-> IF content.enabled /\ resolver # Off /\ Parsed(content) # Off
                       THEN "resolver" ELSE "file",
                content |-> content]
  /\ UNCHANGED <<namesFile, resolver, ttl, updates, cache, lookup, now>>

\* update_config, its first lock
Replace ==
  /\ saving.at = "resolver"
  /\ resolver' = Parsed(saving.content) /\ updates' = updates + 1
  /\ saving' = [saving EXCEPT !.at = "cache"]
  /\ UNCHANGED <<namesFile, ttl, cache, lookup, now>>

\* Mutant of Clear: only the hosts the update fixes are forgotten.
ClearFixed ==
  /\ saving.at = "cache"
  /\ cache' = [h \in DOMAIN cache \ DOMAIN saving.content.static |-> cache[h]]
  /\ saving' = [saving EXCEPT !.at = "file"]
  /\ UNCHANGED <<namesFile, resolver, ttl, updates, lookup, now>>

\* ... and its second
Clear ==
  /\ saving.at = "cache"
  /\ cache' = <<>>
  /\ saving' = [saving EXCEPT !.at = "file"]
  /\ UNCHANGED <<namesFile, resolver, ttl, updates, lookup, now>>

WriteFile ==
  /\ saving.at = "file"
  /\ namesFile' = saving.content
  /\ saving' = NoUpdate
  /\ UNCHANGED <<resolver, ttl, updates, cache, lookup, now>>

-------------------------------------------------------------------------------

Started(content) ==
  /\ resolver' = FromFile(content) /\ ttl' = content.ttl
  /\ updates' = updates /\ cache' = <<>> /\ saving' = NoUpdate
  /\ lookup' = [w \in Workers |-> Idle]

Restart == Started(namesFile) /\ UNCHANGED <<namesFile, now>>

Tick ==
  /\ now < MaxTime /\ now' = now + 1
  /\ UNCHANGED <<namesFile, resolver, ttl, updates, cache, lookup, saving>>

Init ==
  /\ namesFile \in Contents
  /\ resolver = FromFile(namesFile) /\ ttl = namesFile.ttl
  /\ updates = 0 /\ cache = <<>> /\ saving = NoUpdate /\ now = 0
  /\ lookup = [w \in Workers |-> Idle]

Next ==
  \/ \E w \in Workers : \/ \E host \in Hosts : Hit(w, host) \/ Miss(w, host)
                        \/ ReadConfig(w) \/ AskServer(w) \/ TakeStatic(w) \/ AskSystem(w)
                        \/ Done(w)
  \/ \E content \in Contents : Begin(content)
  \/ Replace \/ Clear \/ WriteFile \/ Restart \/ Tick

Spec == Init /\ [][Next]_vars

-------------------------------------------------------------------------------
(* Properties *)

TypeOK ==
  /\ namesFile \in Contents /\ updates \in 0 .. MaxUpdates /\ now \in 0 .. MaxTime
  /\ \A h \in DOMAIN cache : h \in Hosts /\ cache[h].at \in 0 .. now
  /\ \A w \in Workers : lookup[w].at \in {"idle", "missed", "asking", "answered"}

\* But between the two locks of an update, what the cache answers with was found under
\* the configuration in force, or by a lookup that was already asking when the
\* configuration was replaced.  (dns_override.rs:170)
NamesFresh ==
  saving.at # "cache" =>
    \A h \in DOMAIN cache : cache[h].generation = updates \/ cache[h].overtaken
===============================================================================
