------------------------------- MODULE DeltaLink ------------------------------
(***************************************************************************)
(* The delta context protocol between pi clients (pi-extensions/           *)
(* delta-context.ts) and the backend slots behind the front proxy          *)
(* (features/responses/delta.rs, routes/responses.rs).                     *)
(*                                                                         *)
(* A client sends one request after the other; its HTTP layer may send the *)
(* body of one request again, and a reply may get lost.  Each copy of a    *)
(* request that reaches a slot is a task there, and every lock section of  *)
(* register_full and apply_delta is an action of its own.                  *)
(***************************************************************************)
EXTENDS DeltaCache

CONSTANTS
  Clients,   \* pi processes
  Slots,     \* backend processes
  Copies,    \* handler tasks a client may have at the same time
  None,      \* no token, no slot, no reply awaited
  Conversations \* the contexts a client may come to mean

ASSUME LinkAssumption ==
  /\ None \notin Tokens \union Copies \union Slots
  /\ Conversations \subseteq Contexts

VARIABLES
  cache,    \* slot -> DeltaInner
  enabled,  \* slot -> ENABLED
  active,   \* the slot the front proxy sends new requests to
  moving,   \* the dump the deploy script carries to the other slot
  (* each client *)
  ext,      \* the state of the extension
  awaits,   \* the copy whose reply its HTTP layer waits for
  refused,  \* whether its last request was a miss
  strayed,  \* history, read by properties only: what may put the client and the
            \* cache out of step has happened since the client last started over
  (* each handler task, a copy of a request of a client *)
  pc,
  job,      \* the request as it arrived
  token,    \* the token it names or was given
  payload,  \* the context the handler holds, <<>> before a delta is applied
  reply

routing == <<enabled, active, moving>>
clients == <<ext, awaits, refused, strayed>>
tasks == <<pc, job, token, payload, reply>>
vars == <<cache, routing, clients, tasks>>

Tasks == Clients \X Copies
NoDump == [t \in Tokens |-> Absent]

\* delta-context.ts, DeltaState.
Extension ==
  [mode : {"full", "delta"}, token : Tokens \union {None}, base : Seq(Items),
   last : Seq(Items), pending : BOOLEAN]

\* resetState.
Reset == [mode |-> "full", token |-> None, base |-> <<>>, last |-> <<>>, pending |-> FALSE]

\* meant is the context the client means the model to see.
Job == [kind : {"full", "delta"}, slot : Slots, base : Seq(Items), append : Seq(Items),
        meant : Seq(Items)]
NoJob == [kind |-> "none", slot |-> None, base |-> <<>>, append |-> <<>>, meant |-> <<>>]

Init ==
  /\ cache = [s \in Slots |-> EmptyCache]
  /\ enabled = [s \in Slots |-> TRUE]
  /\ active \in Slots
  /\ moving = NoDump
  /\ ext = [c \in Clients |-> Reset]
  /\ awaits = [c \in Clients |-> None]
  /\ refused = [c \in Clients |-> FALSE]
  /\ strayed = [c \in Clients |-> FALSE]
  /\ pc = [i \in Tasks |-> "free"]
  /\ job = [i \in Tasks |-> NoJob]
  /\ token = [i \in Tasks |-> None]
  /\ payload = [i \in Tasks |-> <<>>]
  /\ reply = [i \in Tasks |-> "none"]

\* The locals of handler i.
Becomes(i, place, j, t, context) ==
  /\ pc' = [pc EXCEPT ![i] = place]
  /\ job' = [job EXCEPT ![i] = j]
  /\ token' = [token EXCEPT ![i] = t]
  /\ payload' = [payload EXCEPT ![i] = context]
  /\ reply' = [reply EXCEPT ![i] = "none"]

Done(i) == Becomes(i, "free", NoJob, None, <<>>)

Replies(i, r) ==
  /\ pc' = [pc EXCEPT ![i] = "replied"]
  /\ reply' = [reply EXCEPT ![i] = r]
  /\ UNCHANGED <<job, token, payload>>

-------------------------------------------------------------------------------
(* The client *)

\* Mutant of Checked: a dangling delta is not noticed.
CheckedNever(c) == ext[c]

\* before_provider_request starts with the check of a dangling delta.
Checked(c) == IF ext[c].pending THEN Reset ELSE ext[c]

\* Mutant of Eligible: the length is compared, not the content.
EligibleByLength(e, context) ==
  e.mode = "delta" /\ e.last # <<>> /\ Len(e.last) <= Len(context)

\* deltaEligible: same instructions, and the new input extends the last one.
Eligible(e, context) == e.mode = "delta" /\ e.last # <<>> /\ IsPrefix(e.last, context)

Send(c, context) ==
  LET e == Checked(c)
      tail == SubSeq(context, Len(e.last) + 1, Len(context))
      delta == Eligible(e, context)
  IN  /\ awaits[c] = None
      /\ \E i \in Copies :
           /\ pc[<<c, i>>] = "free"
           /\ IF delta
              THEN Becomes(<<c, i>>, "arrived",
                           [kind |-> "delta", slot |-> active, base |-> e.base,
                            append |-> tail, meant |-> context], e.token, <<>>)
              ELSE Becomes(<<c, i>>, "arrived",
                           [kind |-> "full", slot |-> active, base |-> <<>>,
                            append |-> <<>>, meant |-> context], None, context)
           /\ awaits' = [awaits EXCEPT ![c] = i]
      /\ ext' = [ext EXCEPT ![c] = [e EXCEPT !.last = context, !.pending = delta]]
      /\ strayed' = [strayed EXCEPT ![c] = @ /\ ~ext[c].pending]
      /\ UNCHANGED <<cache, routing, refused>>

\* The HTTP layer takes the first copy for failed, its reply being an error or its
\* connection broken, and sends the same body again; no hook runs, and the first
\* copy may still be under way in its slot.
Resend(c) ==
  LET first == <<c, awaits[c]>>
  IN  /\ awaits[c] # None
      /\ \E i \in Copies :
           /\ pc[<<c, i>>] = "free"
           /\ IF job[first].kind = "delta"
              THEN Becomes(<<c, i>>, "arrived", [job[first] EXCEPT !.slot = active],
                           token[first], <<>>)
              ELSE Becomes(<<c, i>>, "arrived", [job[first] EXCEPT !.slot = active],
                           None, job[first].meant)
           /\ awaits' = [awaits EXCEPT ![c] = i]
      /\ UNCHANGED <<cache, routing, ext, refused, strayed>>

\* after_provider_response; the hash a ready or an advance carries is that of the
\* payload.
Heard(e, i) ==
  CASE reply[i] = "ready" ->
         [e EXCEPT !.mode = "delta", !.token = token[i], !.base = payload[i],
                   !.pending = FALSE]
    [] reply[i] = "advance" -> [e EXCEPT !.base = payload[i], !.pending = FALSE]
    [] reply[i] = "miss" -> Reset
    [] reply[i] = "plain" -> IF e.mode = "delta" THEN Reset ELSE e

Receive(c) ==
  LET i == <<c, awaits[c]>>
  IN  /\ awaits[c] # None /\ pc[i] = "replied"
      /\ ext' = [ext EXCEPT ![c] = Heard(@, i)]
      /\ awaits' = [awaits EXCEPT ![c] = None]
      /\ refused' = [refused EXCEPT ![c] = reply[i] = "miss"]
      /\ strayed' = [strayed EXCEPT ![c] = @ /\ reply[i] = "advance"]
      /\ Done(i)
      /\ UNCHANGED <<cache, routing>>

\* The extension keeps its token and its base while the cache no longer follows
\* what it sent last: the answer that would have told it a new token is lost.
Unheard(c) == job[<<c, awaits[c]>>].kind = "full" /\ ext[c].mode = "delta"

\* The client's HTTP layer gives up: the connection broke, or the status was an
\* error, for which the extension's response hook does not run.
Lose(c) ==
  LET i == <<c, awaits[c]>>
  IN  /\ awaits[c] # None
      /\ awaits' = [awaits EXCEPT ![c] = None]
      /\ refused' = [refused EXCEPT ![c] = reply[i] = "miss"]
      /\ strayed' = [strayed EXCEPT ![c] = @ \/ Unheard(c)]
      /\ UNCHANGED <<cache, routing, ext, tasks>>

\* A handler nobody waits for ends.
Abandoned(c, i) ==
  /\ pc[<<c, i>>] = "replied" /\ awaits[c] # i
  /\ Done(<<c, i>>)
  /\ UNCHANGED <<cache, routing, clients>>

\* session_start, between two requests.
SessionStart(c) ==
  /\ awaits[c] = None
  /\ ext' = [ext EXCEPT ![c] = Reset]
  /\ strayed' = [strayed EXCEPT ![c] = FALSE]
  /\ UNCHANGED <<cache, routing, awaits, refused, tasks>>

-------------------------------------------------------------------------------
(* The router *)

Open(s) == enabled[s] /\ MaxSessions > 0 /\ MaxBytes > 0

\* The checks register_full and apply_delta make before they take the lock.
Admit(i) ==
  /\ pc[i] = "arrived"
  /\ IF Open(job[i].slot) /\ (job[i].kind = "full" => Size(payload[i]) <= SessionMax)
     THEN pc' = [pc EXCEPT ![i] = "admitted"] /\ UNCHANGED <<job, token, payload, reply>>
     ELSE Replies(i, IF job[i].kind = "full" THEN "plain" ELSE "miss")
  /\ UNCHANGED <<cache, routing, clients>>

\* A token no client, handler, cache or dump refers to stands for a new one.
InUse ==
  {ext[c].token : c \in Clients} \union {token[i] : i \in Tasks}
    \union UNION {Held(cache[s]) : s \in Slots} \union {t \in Tokens : moving[t] # Absent}

\* register_full, first lock section; n sessions have expired.
Register(i) ==
  LET s == job[i].slot
  IN  /\ pc[i] = "admitted" /\ job[i].kind = "full"
      /\ \E n \in 0..Len(cache[s].order), t \in Tokens \ InUse :
           /\ cache' = [cache EXCEPT ![s] = Evict(Put(Expire(@, n), t, payload[i]))]
           /\ token' = [token EXCEPT ![i] = t]
      /\ pc' = [pc EXCEPT ![i] = "stored"]
      /\ UNCHANGED <<routing, clients, job, payload, reply>>

\* register_full, second lock section: ready is only sent while the session is
\* still there.
ReadBack(i) ==
  /\ pc[i] = "stored"
  /\ Replies(i, IF token[i] \in Held(cache[job[i].slot]) THEN "ready" ELSE "plain")
  /\ UNCHANGED <<cache, routing, clients>>

\* Mutant of Hit: the hash is not compared.
HitAnyHash(c, i) == token[i] \in Held(c)

Hit(c, i) == token[i] \in Held(c) /\ c.entry[token[i]].hash = job[i].base

\* Another handler has taken the items of this one's entry.
ItemsOut(i) ==
  \E k \in Tasks \ {i} :
    pc[k] = "taken" /\ job[k].slot = job[i].slot /\ token[k] = token[i]

\* apply_delta, first lock section: the items are taken out of the entry.
Take(i) ==
  LET s == job[i].slot
  IN  /\ pc[i] = "admitted" /\ job[i].kind = "delta"
      /\ \E n \in 0..Len(cache[s].order) :
           LET live == Expire(cache[s], n)
           IN  IF Hit(live, i)
               THEN /\ cache' = [cache EXCEPT ![s] = Emptied(live, token[i])]
                    /\ strayed' = [c \in Clients |->
                                     strayed[c] \/ (i = <<c, awaits[c]>> /\ ItemsOut(i))]
                    /\ pc' = [pc EXCEPT ![i] = "taken"]
                    /\ payload' = [payload EXCEPT ![i] =
                                     live.entry[token[i]].context \o job[i].append]
                    /\ UNCHANGED <<job, token, reply>>
               ELSE /\ cache' = [cache EXCEPT ![s] = live]
                    /\ Replies(i, "miss")
                    /\ UNCHANGED strayed
      /\ UNCHANGED <<routing, ext, awaits, refused>>

\* apply_delta, second lock section: the entry moves on, if it is still there.
\* The request goes upstream with its payload either way.
Commit(i) ==
  LET s == job[i].slot
      t == token[i]
  IN  /\ pc[i] = "taken"
      /\ cache' = [cache EXCEPT ![s] = IF t \in Held(@) THEN Evict(Put(@, t, payload[i]))
                                                        ELSE @]
      /\ Replies(i, "advance")
      /\ UNCHANGED <<routing, clients>>

-------------------------------------------------------------------------------
(* Dashboard and deployment *)

\* set_enabled.
Toggle(s) ==
  /\ enabled' = [enabled EXCEPT ![s] = ~@]
  /\ cache' = [cache EXCEPT ![s] = IF enabled[s] THEN EmptyCache ELSE @]
  /\ UNCHANGED <<active, moving, clients, tasks>>

\* The process is restarted; the requests it was handling get no answer.
Restart(s) ==
  LET dead == {i \in Tasks : job[i].slot = s}
  IN  /\ cache' = [cache EXCEPT ![s] = EmptyCache]
      /\ enabled' = [enabled EXCEPT ![s] = TRUE]
      /\ pc' = [i \in Tasks |-> IF i \in dead THEN "free" ELSE pc[i]]
      /\ job' = [i \in Tasks |-> IF i \in dead THEN NoJob ELSE job[i]]
      /\ token' = [i \in Tasks |-> IF i \in dead THEN None ELSE token[i]]
      /\ payload' = [i \in Tasks |-> IF i \in dead THEN <<>> ELSE payload[i]]
      /\ reply' = [i \in Tasks |-> IF i \in dead THEN "none" ELSE reply[i]]
      /\ awaits' = [c \in Clients |-> IF <<c, awaits[c]>> \in dead THEN None ELSE awaits[c]]
      /\ refused' = [c \in Clients |-> refused[c] /\ <<c, awaits[c]>> \notin dead]
      /\ strayed' = [c \in Clients |->
                       strayed[c] \/ (<<c, awaits[c]>> \in dead /\ Unheard(c))]
      /\ UNCHANGED <<active, moving, ext>>

\* handoff_delta_cache: dump the active slot, load into another one.
Dump ==
  /\ moving' = cache[active].entry
  /\ UNCHANGED <<cache, enabled, active, clients, tasks>>

Load(s) ==
  /\ s # active /\ moving # NoDump
  /\ moving' = NoDump
  /\ IF Open(s)
     THEN \E n \in 0..Len(cache[s].order),
             listed \in SetToSeqs({t \in Tokens : moving[t] # Absent}) :
            cache' = [cache EXCEPT ![s] = Evict(Merge(Expire(@, n), moving, listed))]
     ELSE UNCHANGED cache
  /\ UNCHANGED <<enabled, active, clients, tasks>>

\* POST /_proxy/active/{slot}, whether or not the handoff succeeded.
Switch(s) ==
  /\ s # active
  /\ active' = s
  /\ UNCHANGED <<cache, enabled, moving, clients, tasks>>

-------------------------------------------------------------------------------
ClientStep(c) ==
  \/ \E context \in Conversations : Send(c, context)
  \/ Resend(c) \/ Receive(c) \/ Lose(c) \/ SessionStart(c)
  \/ \E i \in Copies : Abandoned(c, i)

RouterStep(i) == Admit(i) \/ Register(i) \/ ReadBack(i) \/ Take(i) \/ Commit(i)

Operator == Dump \/ \E s \in Slots : Toggle(s) \/ Restart(s) \/ Switch(s) \/ Load(s)

Next ==
  \/ \E c \in Clients : ClientStep(c)
  \/ \E i \in Tasks : RouterStep(i)
  \/ Operator

Spec == Init /\ [][Next]_vars

-------------------------------------------------------------------------------
(* Properties *)

TypeOK ==
  /\ cache \in [Slots -> Cache]
  /\ enabled \in [Slots -> BOOLEAN]
  /\ active \in Slots
  /\ moving \in [Tokens -> Entry \union {Absent}]
  /\ ext \in [Clients -> Extension]
  /\ awaits \in [Clients -> Copies \union {None}]
  /\ refused \in [Clients -> BOOLEAN]
  /\ strayed \in [Clients -> BOOLEAN]
  /\ pc \in [Tasks -> {"free", "arrived", "admitted", "taken", "stored", "replied"}]
  /\ job \in [Tasks -> Job \union {NoJob}]
  /\ token \in [Tasks -> Tokens \union {None}]
  /\ payload \in [Tasks -> Seq(Items)]
  /\ reply \in [Tasks -> {"none", "ready", "advance", "miss", "plain"}]

\* What the answer a client waits for was made from is the context it means,
\* whichever of full resend, reassembled delta, second copy, eviction, lost answer,
\* restart, toggle or handoff led to it.  Two things excuse it, until the client
\* starts over: the answer of a full resend got lost while the extension went on
\* with its old token, and a copy was applied to an entry whose items another one
\* had taken out.
ContextExact ==
  \A c \in Clients :
    LET i == <<c, awaits[c]>>
    IN  awaits[c] # None /\ ~strayed[c] /\ pc[i] = "replied" /\ reply[i] # "miss" =>
          payload[i] = job[i].meant

\* The protocol's third rule: "any inconsistency degrades to a full resend, the wrong
\* context is never sent silently".  The code breaks it in the two cases above.
NeverWrong ==
  \A i \in Tasks :
    pc[i] = "replied" /\ reply[i] # "miss" => payload[i] = job[i].meant

\* An entry whose items do not match its hash is one an apply_delta has emptied
\* and not yet written back: no dump, crash, eviction or second copy leaves one.
EntriesMatchHash ==
  \A s \in Slots : \A t \in Held(cache[s]) :
    cache[s].entry[t].context # cache[s].entry[t].hash =>
      \E i \in Tasks : pc[i] = "taken" /\ job[i].slot = s /\ token[i] = t

\* total_bytes is the sum over the sessions held and the caps hold after every
\* lock section, so that the saturating and plain subtractions never diverge.
Accounted ==
  \A s \in Slots :
    /\ cache[s].total = BytesOf(cache[s], Held(cache[s]))
    /\ ToSet(cache[s].order) = Held(cache[s])
    /\ WithinCaps(cache[s])

\* A client is never refused twice in a row: after a miss it sends everything,
\* also when the refusal itself got lost.
RefusedOnce ==
  [][\A c \in Clients : Receive(c) \/ Lose(c) => ~(refused[c] /\ refused'[c])]_vars
===============================================================================
