------------------------------ MODULE DeltaCache ------------------------------
(***************************************************************************)
(* The delta context cache of one backend process (struct DeltaInner of    *)
(* src/features/responses/delta.rs) and what each lock section does to it. *)
(*                                                                         *)
(* A context is instructions followed by the input items, so its head is   *)
(* the instructions.  compute_base_hash is content addressed: the hash of  *)
(* a context is modelled by the context itself, which is what an injective *)
(* hash amounts to.  The instructions and each item weigh one byte.        *)
(***************************************************************************)
EXTENDS Integers, Sequences, FiniteSetsExt, SequencesExt

CONSTANTS
  Items,        \* instructions and input items
  Tokens,       \* cache tokens
  MaxSessions,  \* delta_cache_max_sessions
  MaxBytes,     \* delta_cache_max_total_bytes
  SessionMax    \* delta_cache_session_max_bytes

ASSUME CapsAssumption == {MaxSessions, MaxBytes, SessionMax} \subseteq Nat
ASSUME TokensAssumption == IsFiniteSet(Tokens)

Contexts == Seq(Items) \ {<<>>}
Absent == [context |-> <<>>, hash |-> <<>>]
Entry == [context : Contexts, hash : Contexts]  \* SessionEntry
Size(context) == Len(context)                   \* entry_bytes

\* order lists the tokens from the least to the most recently accessed.
Cache ==
  [entry : [Tokens -> Entry \union {Absent}], order : Seq(Tokens), total : Int]

EmptyCache == [entry |-> [t \in Tokens |-> Absent], order |-> <<>>, total |-> 0]

Held(c) == {t \in Tokens : c.entry[t] # Absent}

\* SessionEntry.bytes: the size of the context the hash commits to, also while
\* the items are taken out.
Bytes(c, t) == Size(c.entry[t].hash)

BytesOf(c, T) == SumFunctionOnSet([t \in Tokens |-> Bytes(c, t)], T)

\* The tokens of T in the order they have in s.
Among(s, T) ==
  LET kept[n \in 0..Len(s)] ==
        IF n = 0 THEN <<>>
        ELSE IF s[n] \in T THEN Append(kept[n - 1], s[n]) ELSE kept[n - 1]
  IN  kept[Len(s)]

\* The sessions of T leave the cache.
Without(c, T) ==
  [entry |-> [t \in Tokens |-> IF t \in T THEN Absent ELSE c.entry[t]],
   order |-> Among(c.order, Tokens \ T),
   total |-> c.total - BytesOf(c, T \intersect Held(c))]

Oldest(c, n) == {c.order[i] : i \in 1..n}

\* remove_expired: what has been idle for the TTL are the n oldest sessions, for
\* an n that depends on the time that has passed.
Expire(c, n) == Without(c, Oldest(c, n))

\* evict_lru: the oldest sessions leave, no more of them than needed.
WithinCaps(c) == Len(c.order) <= MaxSessions /\ c.total <= MaxBytes
Evict(c) ==
  LET enough == {n \in 0..Len(c.order) : WithinCaps(Expire(c, n)) \/ n = Len(c.order)}
  IN  Expire(c, Min(enough))

\* Mutants of Put: the bytes of the entry that is replaced stay counted.
PutUncounted(c, t, context) ==
  [entry |-> [c.entry EXCEPT ![t] = [context |-> context, hash |-> context]],
   order |-> Append(Among(c.order, Tokens \ {t}), t),
   total |-> c.total + Size(context)]

\* Mutant of Put: a session that is replaced keeps the hash it had.
PutStaleHash(c, t, context) ==
  [entry |-> [c.entry EXCEPT ![t] =
                [context |-> context,
                 hash |-> IF t \in Held(c) THEN c.entry[t].hash ELSE context]],
   order |-> Append(Among(c.order, Tokens \ {t}), t),
   total |-> c.total - (IF t \in Held(c) THEN Bytes(c, t) ELSE 0) + Size(context)]

\* The entry of t is inserted or replaced, and is now the most recent one.
Put(c, t, context) ==
  [entry |-> [c.entry EXCEPT ![t] = [context |-> context, hash |-> context]],
   order |-> Append(Among(c.order, Tokens \ {t}), t),
   total |-> c.total - (IF t \in Held(c) THEN Bytes(c, t) ELSE 0) + Size(context)]

\* Mutant of Emptied: the instructions are taken, too.
EmptiedWholly(c, t) ==
  [entry |-> [c.entry EXCEPT ![t] = [context |-> <<>>, hash |-> c.entry[t].hash]],
   order |-> c.order, total |-> c.total]

\* mem::take: the items leave the entry; instructions, hash and bytes stay.
Emptied(c, t) ==
  [entry |-> [c.entry EXCEPT ![t] = [context |-> <<Head(c.entry[t].context)>>,
                                     hash |-> c.entry[t].hash]],
   order |-> c.order, total |-> c.total]

\* Mutant of Sound: the content is not compared with the hash.
SoundSize(e) == e # Absent /\ Size(e.context) <= SessionMax

\* load takes a dumped session whose content matches its hash and is not oversize.
Sound(e) == e # Absent /\ e.context = e.hash /\ Size(e.context) <= SessionMax

\* load, before its evict_lru: the sound sessions of the dump replace what the
\* cache has under their tokens; they all count as accessed now, in any order.
Merge(c, dump, listed) ==
  LET sound == {t \in Tokens : Sound(dump[t])}
  IN  [entry |-> [t \in Tokens |-> IF t \in sound THEN dump[t] ELSE c.entry[t]],
       order |-> Among(c.order, Tokens \ sound) \o Among(listed, sound),
       total |-> c.total - BytesOf(c, sound \intersect Held(c))
                   + SumFunctionOnSet([t \in Tokens |-> Size(dump[t].context)], sound)]
===============================================================================
