---------------------------- MODULE DeltaLink_proofs ---------------------------
(***************************************************************************)
(* Proofs about DeltaLink, for any tokens, items, caps, slots and numbers  *)
(* of clients and copies: the types (Safe, which also says where a handler *)
(* and the client it serves are), the accounts of the caches, the entries  *)
(* and their hashes, the refusals, and what goes upstream.                 *)
(***************************************************************************)
EXTENDS DeltaLink, FoldLemmas, SequenceTheorems

-------------------------------------------------------------------------------
(* The cache *)

\* kept as the function the definition of Among chooses.
Keeps(kept, s, T) ==
  kept = [n \in 0..Len(s) |->
            IF n = 0 THEN <<>>
            ELSE IF s[n] \in T THEN Append(kept[n - 1], s[n]) ELSE kept[n - 1]]

\* The function that Among chooses exists: it is built up along the sequence.
LEMMA KeepsExists ==
  ASSUME NEW S, NEW s \in Seq(S), NEW T
  PROVE  \E kept : Keeps(kept, s, T)
<1> DEFINE Value(kept, n) ==
             IF n = 0 THEN <<>>
             ELSE IF s[n] \in T THEN Append(kept[n - 1], s[n]) ELSE kept[n - 1]
           Partial(kept, m) == kept = [n \in 0..m |-> Value(kept, n)]
           N == {m \in Nat : \E kept : Partial(kept, m)}
<1>1. 0 \in N
  <2>1. Partial([n \in 0..0 |-> <<>>], 0)
    OBVIOUS
  <2>2. \E kept : Partial(kept, 0)
    <3> HIDE DEF Partial
    <3> QED BY <2>1
  <2> HIDE DEF Partial
  <2> QED BY <2>2
<1>2. ASSUME NEW m \in N PROVE m + 1 \in N
  <2>1. PICK k : Partial(k, m)
    OBVIOUS
  <2> DEFINE next == [n \in 0..(m + 1) |-> IF n = 0 THEN <<>>
                        ELSE IF s[n] \in T THEN Append(k[n - 1], s[n]) ELSE k[n - 1]]
  <2>2. \A n \in 0..m : next[n] = k[n]
    <3>1. \A n \in 0..m : k[n] = Value(k, n)
      BY <2>1
    <3> QED BY <3>1
  <2>3. \A n \in 0..(m + 1) : n # 0 => n - 1 \in 0..m
    OBVIOUS
  <2>4. Partial(next, m + 1)
    BY <2>2, <2>3
  <2>5. \E kept : Partial(kept, m + 1)
    <3> HIDE DEF next, Partial
    <3> QED BY <2>4
  <2> HIDE DEF Partial
  <2> QED BY <2>5
<1>3. N = Nat
  <2> HIDE DEF N
  <2>1. N \subseteq Nat BY DEF N
  <2> QED BY <1>1, <1>2, <2>1, NatInduct
<1>4. Len(s) \in N
  BY <1>3
<1> QED BY <1>4 DEF Keeps

\* Appending to a sequence adds one member.
LEMMA ToSetAppend ==
  ASSUME NEW S, NEW s \in Seq(S), NEW x \in S
  PROVE  ToSet(Append(s, x)) = ToSet(s) \union {x}
<1>1. /\ Len(Append(s, x)) = Len(s) + 1
      /\ \A j \in 1..Len(s) : Append(s, x)[j] = s[j]
      /\ Append(s, x)[Len(s) + 1] = x
      /\ Append(s, x) \in Seq(S)
  BY AppendProperties
<1>2. /\ DOMAIN Append(s, x) = 1..(Len(s) + 1) /\ DOMAIN s = 1..Len(s)
      /\ 1..(Len(s) + 1) = 1..Len(s) \union {Len(s) + 1}
  BY <1>1, LenProperties
<1>3. ToSet(Append(s, x)) = {Append(s, x)[j] : j \in 1..Len(s) \union {Len(s) + 1}}
  BY <1>2 DEF ToSet
<1>4. ToSet(s) = {s[j] : j \in 1..Len(s)}
  BY <1>2 DEF ToSet
<1> HIDE <1>2
<1> DEFINE a == Append(s, x)
<1> HIDE DEF a
<1> QED BY <1>1, <1>3, <1>4 DEF a

\* Among keeps the tokens of T, and no others, and makes no sequence longer.
LEMMA AmongKeeps ==
  ASSUME NEW S, NEW s \in Seq(S), NEW T
  PROVE  /\ Among(s, T) \in Seq(S)
         /\ ToSet(Among(s, T)) = ToSet(s) \intersect T
         /\ Len(Among(s, T)) <= Len(s)
<1> DEFINE kept == CHOOSE kept : Keeps(kept, s, T)
<1>1. Among(s, T) = kept[Len(s)]
  BY DEF Among, Keeps
<1>2. Keeps(kept, s, T)
  BY KeepsExists
<1> HIDE DEF kept
<1> DEFINE Good(n) == /\ kept[n] \in Seq(S)
                      /\ ToSet(kept[n]) = {s[j] : j \in 1..n} \intersect T
                      /\ Len(kept[n]) <= n
           N == {n \in Nat : n <= Len(s) => Good(n)}
<1>3. 0 \in N
  <2>1. kept[0] = <<>>
    BY <1>2 DEF Keeps
  <2>2. Good(0)
    BY <2>1 DEF ToSet
  <2> QED BY <2>2
<1>4. ASSUME NEW n \in N PROVE n + 1 \in N
  <2> SUFFICES ASSUME n + 1 <= Len(s) PROVE Good(n + 1)
    OBVIOUS
  <2>1. Good(n)
    OBVIOUS
  <2>2. s[n + 1] \in S
    OBVIOUS
  <2>3. kept[n + 1] = IF s[n + 1] \in T THEN Append(kept[n], s[n + 1]) ELSE kept[n]
    <3>1. n + 1 \in 0..Len(s) /\ n + 1 # 0 /\ (n + 1) - 1 = n
      OBVIOUS
    <3>2. \A m \in 0..Len(s) :
            kept[m] = IF m = 0 THEN <<>>
                      ELSE IF s[m] \in T THEN Append(kept[m - 1], s[m]) ELSE kept[m - 1]
      BY <1>2 DEF Keeps
    <3> HIDE DEF Good
    <3> QED BY <3>1, <3>2
  <2>4. {s[j] : j \in 1..(n + 1)} = {s[j] : j \in 1..n} \union {s[n + 1]}
    OBVIOUS
  <2>5. CASE s[n + 1] \in T
    <3>1. kept[n + 1] = Append(kept[n], s[n + 1])
      BY <2>3, <2>5
    <3>2. kept[n + 1] \in Seq(S) /\ Len(kept[n + 1]) = Len(kept[n]) + 1
      BY <2>1, <2>2, <3>1, AppendProperties
    <3>3. ToSet(kept[n + 1]) = ToSet(kept[n]) \union {s[n + 1]}
      BY <2>1, <2>2, <3>1, ToSetAppend
    <3> QED BY <2>1, <2>4, <2>5, <3>2, <3>3
  <2>6. CASE s[n + 1] \notin T
    BY <2>1, <2>3, <2>4, <2>6
  <2> QED BY <2>5, <2>6
<1>5. N = Nat
  <2> HIDE DEF N
  <2>1. N \subseteq Nat BY DEF N
  <2> QED BY <1>3, <1>4, <2>1, NatInduct
<1>6. Good(Len(s))
  <2>1. Len(s) \in N /\ Len(s) <= Len(s)
    <3> HIDE DEF N
    <3> QED BY <1>5
  <2> HIDE DEF Good
  <2> QED BY <2>1
<1>7. ToSet(s) = {s[j] : j \in 1..Len(s)}
  BY DEF ToSet
<1> QED BY <1>1, <1>6, <1>7

\* What a step leaves of the cache is a cache, of the same sessions or fewer.
LEMMA TokensFinite == \A T : IsFiniteSet(T \intersect Tokens)
BY TokensAssumption, FS_Subset, FS_Intersection

\* A session weighs a natural number of bytes, and one that is not held nothing.
LEMMA EntryBytes ==
  ASSUME NEW c \in Cache, NEW t \in Tokens
  PROVE  Bytes(c, t) \in Nat /\ (t \notin Held(c) => Bytes(c, t) = 0)
<1>1. c.entry[t] \in Entry \union {Absent}
  BY DEF Cache
<1>2. c.entry[t].hash \in Seq(Items)
  <2>1. CASE c.entry[t] = Absent
    BY <2>1 DEF Absent
  <2>2. CASE c.entry[t] \in Entry
    BY <2>2 DEF Entry, Contexts
  <2> QED BY <1>1, <2>1, <2>2
<1> QED BY <1>2 DEF Bytes, Size, Held, Absent

\* So does a set of sessions.
LEMMA BytesOfNat ==
  ASSUME NEW c \in Cache, NEW T
  PROVE  BytesOf(c, T \intersect Held(c)) \in Nat
<1> DEFINE f == [t \in Tokens |-> Bytes(c, t)]
<1>1. \A t \in T \intersect Held(c) : f[t] \in Nat
  BY EntryBytes DEF Held
<1>2. IsFiniteSet(T \intersect Held(c))
  BY TokensAssumption, FS_Subset DEF Held
<1> HIDE DEF f
<1>3. SumFunctionOnSet(f, T \intersect Held(c)) \in Nat
  BY <1>1, <1>2, SumNat
<1> QED BY <1>3 DEF f, BytesOf

\* Sessions leave the cache, and nothing else changes.
LEMMA WithoutCache ==
  ASSUME NEW c \in Cache, NEW T
  PROVE  /\ Without(c, T) \in Cache
         /\ Held(Without(c, T)) = Held(c) \ T
         /\ \A t \in Tokens \ T : Without(c, T).entry[t] = c.entry[t]
         /\ ToSet(Without(c, T).order) = ToSet(c.order) \ T
         /\ Len(Without(c, T).order) <= Len(c.order)
<1> DEFINE w == Without(c, T)
<1>1. /\ c.entry \in [Tokens -> Entry \union {Absent}]
      /\ c.order \in Seq(Tokens) /\ c.total \in Int
  BY DEF Cache
<1>2. w.total \in Int
  <2>1. w.total = c.total - BytesOf(c, T \intersect Held(c))
    BY DEF Without
  <2>2. BytesOf(c, T \intersect Held(c)) \in Nat
    BY BytesOfNat
  <2> HIDE DEF w
  <2> QED BY <1>1, <2>1, <2>2
<1>3. w.entry \in [Tokens -> Entry \union {Absent}]
  BY <1>1 DEF Without
<1>4. /\ w.order \in Seq(Tokens)
      /\ ToSet(w.order) = ToSet(c.order) \intersect (Tokens \ T)
      /\ Len(w.order) <= Len(c.order)
  BY <1>1, AmongKeeps DEF Without
<1>5. ToSet(c.order) \subseteq Tokens
  BY <1>1 DEF ToSet
<1>6. w = [entry |-> w.entry, order |-> w.order, total |-> w.total]
  BY DEF Without
<1>7. w \in Cache
  BY <1>2, <1>3, <1>4, <1>6 DEF Cache
<1>8. \A t \in Tokens : w.entry[t] = IF t \in T THEN Absent ELSE c.entry[t]
  BY DEF Without
<1>9. Held(w) = Held(c) \ T
  BY <1>8 DEF Held
<1> QED BY <1>4, <1>5, <1>7, <1>8, <1>9

\* evict_lru takes the oldest away until the caps hold, or all.  (delta.rs:169)
LEMMA EvictExpires ==
  ASSUME NEW c \in Cache
  PROVE  \E n \in 0..Len(c.order) :
           /\ Evict(c) = Expire(c, n)
           /\ WithinCaps(Expire(c, n)) \/ n = Len(c.order)
<1> DEFINE enough == {n \in 0..Len(c.order) : WithinCaps(Expire(c, n)) \/ n = Len(c.order)}
<1>1. Len(c.order) \in enough
  <2>1. Len(c.order) \in 0..Len(c.order)
    BY DEF Cache
  <2> QED BY <2>1
<1>2. enough \subseteq Nat
  OBVIOUS
<1>3. Min(enough) \in enough
  <2> HIDE DEF enough
  <2>1. \E m \in enough : \A n \in enough : m <= n
    BY <1>1, <1>2, NatMin
  <2> QED BY <2>1 DEF Min
<1> QED BY <1>3 DEF Evict

\* The accounts of a cache: its total, and the order of its sessions.
Balanced(c) == c.total = BytesOf(c, Held(c)) /\ ToSet(c.order) = Held(c)

\* What leaves is taken off the total, which falls.
LEMMA WithoutBalanced ==
  ASSUME NEW c \in Cache, Balanced(c), NEW T
  PROVE  Balanced(Without(c, T)) /\ Without(c, T).total <= c.total
<1> DEFINE w == Without(c, T)
           f == [t \in Tokens |-> Bytes(c, t)]
           g == [t \in Tokens |-> Bytes(w, t)]
           H == Held(c)
<1>1. IsFiniteSet(H) /\ H \subseteq Tokens
  BY TokensAssumption, FS_Subset DEF Held
<1>2. Held(w) = H \ T /\ ToSet(w.order) = ToSet(c.order) \ T
  BY WithoutCache
<1>3. \A t \in H \ T : g[t] = f[t]
  <2> TAKE t \in H \ T
  <2>1. t \in Tokens \ T
    BY <1>1
  <2>2. w.entry[t] = c.entry[t]
    BY <2>1, WithoutCache
  <2> QED BY <2>1, <2>2 DEF Bytes
<1>4. SumFunctionOnSet(g, H \ T) = SumFunctionOnSet(f, H \ T)
  <2>1. IsFiniteSet(H \ T)
    BY <1>1, FS_Subset
  <2> HIDE DEF f, g, H
  <2> QED BY <1>3, <2>1, SumCongruent
<1>5. \A t \in H : f[t] \in Nat
  BY <1>1, EntryBytes
<1>6. SumFunctionOnSet(f, H) = SumFunctionOnSet(f, H \intersect T) + SumFunctionOnSet(f, H \ T)
  <2> HIDE DEF f, H
  <2>1. H \intersect T \in SUBSET H /\ H \ (H \intersect T) = H \ T
    OBVIOUS
  <2>2. SumFunctionOnSet(f, H) = SumFunctionOnSet(f, H \intersect T)
                                 + SumFunctionOnSet(f, H \ (H \intersect T))
    BY <1>1, <1>5, <2>1, SumSplit
  <2> QED BY <2>1, <2>2
<1>7. /\ w.total = c.total - BytesOf(c, T \intersect H)
      /\ c.total = SumFunctionOnSet(f, H)
      /\ BytesOf(c, T \intersect H) = SumFunctionOnSet(f, H \intersect T)
      /\ BytesOf(w, Held(w)) = SumFunctionOnSet(g, H \ T)
  <2>1. T \intersect H = H \intersect T
    OBVIOUS
  <2> QED BY <1>2, <2>1 DEF Without, Balanced, BytesOf
<1>8. /\ SumFunctionOnSet(f, H \intersect T) \in Nat
      /\ SumFunctionOnSet(f, H \ T) \in Nat
  <2> HIDE DEF f, H
  <2>1. IsFiniteSet(H \intersect T) /\ IsFiniteSet(H \ T)
    BY <1>1, FS_Subset
  <2> QED BY <1>5, <2>1, SumNat
<1>9. w.total = BytesOf(w, Held(w)) /\ w.total <= c.total
  <2> HIDE DEF f, g, H, w
  <2> QED BY <1>4, <1>6, <1>7, <1>8
<1> QED BY <1>2, <1>9 DEF Balanced

\* A cache with true accounts is within its caps after evict_lru.
LEMMA EvictWithinCaps ==
  ASSUME NEW c \in Cache, Balanced(c)
  PROVE  Balanced(Evict(c)) /\ WithinCaps(Evict(c)) /\ Evict(c) \in Cache
<1>1. PICK n \in 0..Len(c.order) :
        /\ Evict(c) = Expire(c, n)
        /\ WithinCaps(Expire(c, n)) \/ n = Len(c.order)
  BY EvictExpires
<1>2. Balanced(Evict(c)) /\ Evict(c) \in Cache
  BY <1>1, WithoutBalanced, WithoutCache DEF Expire
<1>3. CASE WithinCaps(Expire(c, n))
  BY <1>1, <1>2, <1>3
<1>4. CASE n = Len(c.order)
  <2> DEFINE e == Expire(c, n)
  <2>1. e = Without(c, ToSet(c.order))
    <3>1. c.order \in Seq(Tokens)
      BY DEF Cache
    <3>2. DOMAIN c.order = 1..n
      BY <1>4, <3>1
    <3> QED BY <3>2 DEF Expire, Oldest, ToSet
  <2>2. Held(e) = {} /\ ToSet(e.order) = {}
    BY <2>1, WithoutCache DEF Balanced
  <2>3. e.order \in Seq(Tokens) /\ e.total = BytesOf(e, {})
    BY <1>1, <1>2, <2>2 DEF Balanced, Cache
  <2>4. Len(e.order) = 0
    <3> HIDE DEF e
    <3>1. \A i \in 1..Len(e.order) : e.order[i] \in ToSet(e.order)
      BY <2>3 DEF ToSet
    <3> QED BY <2>2, <2>3, <3>1
  <2>5. e.total = 0
    BY <2>3, SumEmpty DEF BytesOf
  <2>6. WithinCaps(e)
    <3> HIDE DEF e
    <3> QED BY <2>4, <2>5, CapsAssumption DEF WithinCaps
  <2> QED BY <1>1, <1>2, <2>6
<1> QED BY <1>1, <1>3, <1>4

\* An entry that is inserted or replaced, and what it does to the accounts.
\* (delta.rs:207)
LEMMA PutCache ==
  ASSUME NEW c \in Cache, NEW t \in Tokens, NEW context \in Contexts
  PROVE  /\ Put(c, t, context) \in Cache
         /\ Held(Put(c, t, context)) = Held(c) \union {t}
         /\ Put(c, t, context).entry[t] = [context |-> context, hash |-> context]
         /\ \A u \in Tokens \ {t} : Put(c, t, context).entry[u] = c.entry[u]
         /\ Balanced(c) => Balanced(Put(c, t, context))
<1> DEFINE p == Put(c, t, context)
           new == [context |-> context, hash |-> context]
           f == [u \in Tokens |-> Bytes(c, u)]
           g == [u \in Tokens |-> Bytes(p, u)]
           H == Held(c)
           rest == Among(c.order, Tokens \ {t})
<1>1. /\ c.entry \in [Tokens -> Entry \union {Absent}]
      /\ c.order \in Seq(Tokens) /\ c.total \in Int
  BY DEF Cache
<1>2. new \in Entry /\ new # Absent /\ Size(context) \in Nat
  BY DEF Entry, Absent, Contexts, Size
<1>3. /\ p.entry \in [Tokens -> Entry \union {Absent}]
      /\ p.entry[t] = new
      /\ \A u \in Tokens \ {t} : p.entry[u] = c.entry[u]
  BY <1>1, <1>2 DEF Put
<1>4. rest \in Seq(Tokens) /\ ToSet(rest) = ToSet(c.order) \intersect (Tokens \ {t})
  BY <1>1, AmongKeeps
<1>5. p.order = Append(rest, t)
  BY DEF Put
<1>6. p.order \in Seq(Tokens) /\ ToSet(p.order) = ToSet(rest) \union {t}
  <2> HIDE DEF rest
  <2> QED BY <1>4, <1>5, ToSetAppend
<1>7. p.total = c.total - (IF t \in H THEN f[t] ELSE 0) + Size(context)
  BY DEF Put
<1>8. \A u \in Tokens : f[u] \in Nat
  BY EntryBytes
<1>9. p.total \in Int
  <2> HIDE DEF p, f, H
  <2> QED BY <1>1, <1>2, <1>7, <1>8
<1>10. p \in Cache
  <2>1. p = [entry |-> p.entry, order |-> p.order, total |-> p.total]
    BY DEF Put
  <2> HIDE DEF p
  <2> QED BY <1>3, <1>6, <1>9, <2>1 DEF Cache
<1>11. Held(p) = H \union {t}
  <2> HIDE DEF p
  <2> QED BY <1>2, <1>3 DEF Held
<1>12. ASSUME Balanced(c) PROVE Balanced(p)
  <2>1. IsFiniteSet(H) /\ H \subseteq Tokens
    BY TokensAssumption, FS_Subset DEF Held
  <2>2. IsFiniteSet(H \union {t}) /\ IsFiniteSet(H \ {t}) /\ H \union {t} \subseteq Tokens
    BY <2>1, TokensAssumption, FS_Subset
  <2>3. \A u \in H \ {t} : g[u] = f[u]
    BY <1>3, <2>1 DEF Bytes
  <2>4. g[t] = Size(context)
    BY <1>3 DEF Bytes
  <2>5. \A u \in Tokens : g[u] \in Nat
    BY <1>10, EntryBytes
  <2> HIDE DEF g, f, H, p
  <2>6. SumFunctionOnSet(g, H \union {t}) = g[t] + SumFunctionOnSet(g, H \ {t})
    <3>1. (H \union {t}) \ {t} = H \ {t} /\ t \in H \union {t}
      OBVIOUS
    <3>2. \A u \in H \union {t} : g[u] \in Int
      BY <2>2, <2>5
    <3>3. SumFunctionOnSet(g, H \union {t})
            = g[t] + SumFunctionOnSet(g, (H \union {t}) \ {t})
      BY <2>2, <3>1, <3>2, SumRemove
    <3> QED BY <3>1, <3>3
  <2>7. SumFunctionOnSet(g, H \ {t}) = SumFunctionOnSet(f, H \ {t})
    BY <2>2, <2>3, SumCongruent
  <2>8. SumFunctionOnSet(f, H \ {t})
          = SumFunctionOnSet(f, H) - (IF t \in H THEN f[t] ELSE 0)
    <3>1. \A u \in H : f[u] \in Int
      BY <1>8, <2>1
    <3>2. SumFunctionOnSet(f, H) \in Int /\ SumFunctionOnSet(f, H \ {t}) \in Int
      BY <2>1, <2>2, <3>1, SumType
    <3>3. CASE t \in H
      <4>1. SumFunctionOnSet(f, H) = f[t] + SumFunctionOnSet(f, H \ {t})
        BY <2>1, <3>1, <3>3, SumRemove
      <4> QED BY <3>1, <3>2, <3>3, <4>1
    <3>4. CASE t \notin H
      <4>1. SumFunctionOnSet(f, H \ {t}) = SumFunctionOnSet(f, H)
        <5>1. H \ {t} = H
          BY <3>4
        <5> QED BY <5>1
      <4> QED BY <3>2, <3>4, <4>1
    <3> QED BY <3>3, <3>4
  <2>9. c.total = SumFunctionOnSet(f, H) /\ ToSet(c.order) = H
    BY <1>12 DEF Balanced, BytesOf, f, H
  <2>10. p.total = SumFunctionOnSet(g, H \union {t})
    <3>1. SumFunctionOnSet(f, H) \in Int /\ (t \in H => f[t] \in Int)
      BY <1>8, <2>1, SumType
    <3> QED BY <1>2, <1>7, <2>4, <2>6, <2>7, <2>8, <2>9, <3>1
  <2>11. BytesOf(p, Held(p)) = SumFunctionOnSet(g, H \union {t})
    BY <1>11 DEF BytesOf, g
  <2>12. ToSet(p.order) = Held(p)
    BY <1>4, <1>6, <1>11, <2>1, <2>9
  <2> QED BY <2>10, <2>11, <2>12 DEF Balanced
<1> QED BY <1>3, <1>10, <1>11, <1>12

\* Taking the items out of an entry leaves hash, bytes and order.  (delta.rs:288)
LEMMA EmptiedCache ==
  ASSUME NEW c \in Cache, NEW t \in Held(c)
  PROVE  /\ Emptied(c, t) \in Cache
         /\ Held(Emptied(c, t)) = Held(c)
         /\ \A u \in Tokens \ {t} : Emptied(c, t).entry[u] = c.entry[u]
         /\ Emptied(c, t).order = c.order /\ Emptied(c, t).total = c.total
         /\ Balanced(c) => Balanced(Emptied(c, t))
<1> DEFINE p == Emptied(c, t)
           rest == [context |-> <<Head(c.entry[t].context)>>, hash |-> c.entry[t].hash]
           f == [u \in Tokens |-> Bytes(c, u)]
           g == [u \in Tokens |-> Bytes(p, u)]
<1>1. /\ c.entry \in [Tokens -> Entry \union {Absent}]
      /\ c.order \in Seq(Tokens) /\ c.total \in Int
      /\ t \in Tokens /\ c.entry[t] # Absent /\ c.entry[t] \in Entry
  BY DEF Cache, Held
<1>2. rest \in Entry /\ rest # Absent
  BY <1>1 DEF Entry, Contexts, Absent
<1>3. /\ p.entry \in [Tokens -> Entry \union {Absent}]
      /\ p.entry[t] = rest
      /\ \A u \in Tokens \ {t} : p.entry[u] = c.entry[u]
      /\ p.order = c.order /\ p.total = c.total
  BY <1>1, <1>2 DEF Emptied
<1>4. p = [entry |-> p.entry, order |-> p.order, total |-> p.total]
  BY DEF Emptied
<1>5. \A u \in Tokens : g[u] = f[u]
  BY <1>3 DEF Bytes
<1> HIDE DEF p
<1>6. p \in Cache
  BY <1>1, <1>3, <1>4 DEF Cache
<1>7. Held(p) = Held(c)
  BY <1>1, <1>2, <1>3 DEF Held
<1>8. ASSUME Balanced(c) PROVE Balanced(p)
  <2>1. IsFiniteSet(Held(c)) /\ Held(c) \subseteq Tokens
    BY TokensAssumption, FS_Subset DEF Held
  <2>2. SumFunctionOnSet(g, Held(c)) = SumFunctionOnSet(f, Held(c))
    <3> HIDE DEF g, f
    <3> QED BY <1>5, <2>1, SumCongruent
  <2> QED BY <1>3, <1>7, <1>8, <2>2 DEF Balanced, BytesOf
<1> QED BY <1>3, <1>6, <1>7, <1>8 DEF p

\* A listing of a set of tokens is a sequence of just these.
LEMMA Listed ==
  ASSUME NEW T \in SUBSET Tokens, NEW listed \in SetToSeqs(T)
  PROVE  listed \in Seq(Tokens) /\ ToSet(listed) = T
<1>1. IsFiniteSet(T) /\ Cardinality(T) \in Nat
  BY TokensAssumption, FS_Subset, FS_CardinalityType
<1> DEFINE D == 1..Cardinality(T)
<1>2. IsFiniteSet(D) /\ Cardinality(D) = Cardinality(T)
  BY <1>1, FS_Interval
<1>3. listed \in [D -> T] /\ \A i, j \in D : i # j => listed[i] # listed[j]
  BY DEF SetToSeqs
<1>4. listed \in Injection(D, T)
  BY <1>3 DEF Injection, IsInjective
<1>5. listed \in Surjection(D, T)
  BY <1>1, <1>2, <1>4, FS_Injection
<1>6. ToSet(listed) = T
  BY <1>3, <1>5 DEF Surjection, ToSet
<1> QED BY <1>1, <1>3, <1>6

\* load replaces sessions and keeps the accounts true.  (delta.rs:368)
LEMMA MergeCache ==
  ASSUME NEW c \in Cache, NEW dump \in [Tokens -> Entry \union {Absent}],
         NEW listed \in SetToSeqs({t \in Tokens : dump[t] # Absent})
  PROVE  /\ Merge(c, dump, listed) \in Cache
         /\ \A t \in Tokens : Merge(c, dump, listed).entry[t] =
                               IF Sound(dump[t]) THEN dump[t] ELSE c.entry[t]
         /\ Balanced(c) => Balanced(Merge(c, dump, listed))
<1> DEFINE sound == {t \in Tokens : Sound(dump[t])}
           m == Merge(c, dump, listed)
           old == Among(c.order, Tokens \ sound)
           new == Among(listed, sound)
           size == [t \in Tokens |-> Size(dump[t].context)]
           f == [t \in Tokens |-> Bytes(c, t)]
           g == [t \in Tokens |-> Bytes(m, t)]
           H == Held(c)
<1>1. /\ c.entry \in [Tokens -> Entry \union {Absent}]
      /\ c.order \in Seq(Tokens) /\ c.total \in Int
  BY DEF Cache
<1>2. /\ sound \subseteq Tokens /\ IsFiniteSet(sound) /\ IsFiniteSet(H) /\ H \subseteq Tokens
      /\ \A t \in sound : dump[t] # Absent /\ dump[t] \in Entry
                            /\ dump[t].context = dump[t].hash
  BY TokensAssumption, FS_Subset DEF Sound, Held
<1>3. /\ m.entry = [t \in Tokens |-> IF t \in sound THEN dump[t] ELSE c.entry[t]]
      /\ m.order = old \o new
      /\ m.total = c.total - BytesOf(c, sound \intersect H) + SumFunctionOnSet(size, sound)
      /\ m = [entry |-> m.entry, order |-> m.order, total |-> m.total]
  BY DEF Merge
<1>4. /\ old \in Seq(Tokens) /\ ToSet(old) = ToSet(c.order) \intersect (Tokens \ sound)
      /\ new \in Seq(Tokens) /\ ToSet(new) = sound
  <2>1. /\ listed \in Seq(Tokens)
        /\ ToSet(listed) = {t \in Tokens : dump[t] # Absent}
    <3>1. {t \in Tokens : dump[t] # Absent} \in SUBSET Tokens
      OBVIOUS
    <3> QED BY <3>1, Listed
  <2>2. ToSet(listed) \intersect sound = sound
    BY <1>2, <2>1
  <2> QED BY <1>1, <2>1, <2>2, AmongKeeps
<1> HIDE DEF m, old, new, sound
<1>5. m.order \in Seq(Tokens) /\ ToSet(m.order) = ToSet(old) \union ToSet(new)
  <2>1. /\ ToSet(old) = Range(old) /\ ToSet(new) = Range(new)
        /\ ToSet(old \o new) = Range(old \o new)
    BY DEF ToSet, Range
  <2>2. old \o new \in Seq(Tokens)
    BY <1>4, ConcatProperties
  <2> QED BY <1>3, <1>4, <2>1, <2>2, RangeConcatenation
<1>6. \A t \in Tokens : f[t] \in Nat
  BY EntryBytes
<1>7. \A t \in sound : size[t] \in Nat
  BY <1>2 DEF Size, Entry, Contexts
<1>8. SumFunctionOnSet(size, sound) \in Nat
  <2> HIDE DEF size
  <2> QED BY <1>2, <1>7, SumNat
<1>9. m.total \in Int
  <2>1. BytesOf(c, sound \intersect H) \in Nat
    BY BytesOfNat
  <2> HIDE DEF H, size
  <2> QED BY <1>1, <1>3, <1>8, <2>1
<1>10. m.entry \in [Tokens -> Entry \union {Absent}]
  BY <1>1, <1>2, <1>3
<1>11. m \in Cache
  BY <1>3, <1>5, <1>9, <1>10 DEF Cache
<1>12. \A t \in Tokens : m.entry[t] = IF Sound(dump[t]) THEN dump[t] ELSE c.entry[t]
  BY <1>3 DEF sound
<1>13. Held(m) = H \union sound
  BY <1>2, <1>3 DEF Held
<1>14. ASSUME Balanced(c) PROVE Balanced(m)
  <2>1. \A t \in sound : g[t] = size[t]
    BY <1>2, <1>3 DEF Bytes
  <2>2. \A t \in H \ sound : g[t] = f[t]
    BY <1>2, <1>3 DEF Bytes
  <2>3. \A t \in Tokens : g[t] \in Nat
    BY <1>11, EntryBytes
  <2>4. /\ c.total = SumFunctionOnSet(f, H) /\ ToSet(c.order) = H
        /\ BytesOf(c, sound \intersect H) = SumFunctionOnSet(f, sound \intersect H)
    BY <1>14 DEF Balanced, BytesOf
  <2>5. BytesOf(m, Held(m)) = SumFunctionOnSet(g, H \union sound)
    BY <1>13 DEF BytesOf
  <2> HIDE DEF g, f, size, H
  <2>6. IsFiniteSet(H \union sound) /\ IsFiniteSet(H \ sound) /\ H \union sound \subseteq Tokens
        /\ IsFiniteSet(sound \intersect H)
    BY <1>2, TokensAssumption, FS_Subset
  <2>7. SumFunctionOnSet(g, H \union sound)
          = SumFunctionOnSet(g, sound) + SumFunctionOnSet(g, H \ sound)
    <3>1. (H \union sound) \ sound = H \ sound /\ sound \in SUBSET (H \union sound)
      OBVIOUS
    <3>2. \A t \in H \union sound : g[t] \in Int
      BY <2>3, <2>6
    <3>3. SumFunctionOnSet(g, H \union sound)
            = SumFunctionOnSet(g, sound) + SumFunctionOnSet(g, (H \union sound) \ sound)
      BY <2>6, <3>1, <3>2, SumSplit
    <3> QED BY <3>1, <3>3
  <2>8. /\ SumFunctionOnSet(g, sound) = SumFunctionOnSet(size, sound)
        /\ SumFunctionOnSet(g, H \ sound) = SumFunctionOnSet(f, H \ sound)
    BY <1>2, <2>1, <2>2, <2>6, SumCongruent
  <2>9. SumFunctionOnSet(f, H)
          = SumFunctionOnSet(f, sound \intersect H) + SumFunctionOnSet(f, H \ sound)
    <3>1. H \ (sound \intersect H) = H \ sound /\ sound \intersect H \in SUBSET H
      OBVIOUS
    <3>2. \A t \in H : f[t] \in Int
      BY <1>2, <1>6
    <3>3. SumFunctionOnSet(f, H) = SumFunctionOnSet(f, sound \intersect H)
                                   + SumFunctionOnSet(f, H \ (sound \intersect H))
      BY <1>2, <3>1, <3>2, SumSplit
    <3> QED BY <3>1, <3>3
  <2>10. /\ SumFunctionOnSet(f, sound \intersect H) \in Nat
         /\ SumFunctionOnSet(f, H \ sound) \in Nat
    <3>1. \A t \in H : f[t] \in Nat
      BY <1>2, <1>6
    <3> QED BY <2>6, <3>1, SumNat
  <2>11. m.total = BytesOf(m, Held(m))
    BY <1>3, <1>8, <2>4, <2>5, <2>7, <2>8, <2>9, <2>10
  <2>12. ToSet(m.order) = Held(m)
    BY <1>2, <1>4, <1>5, <1>13, <2>4
  <2> QED BY <2>11, <2>12 DEF Balanced
<1> QED BY <1>11, <1>12, <1>14 DEF m

-------------------------------------------------------------------------------
(* Handlers and clients *)

\* What the locals of a handler have to do with its place.
TidyTask(i) ==
  /\ pc[i] = "free" => token[i] = None /\ job[i] = NoJob
  /\ pc[i] # "free" => job[i] \in Job /\ job[i].meant # <<>>
  /\ job[i].kind = "delta" => token[i] \in Tokens
  /\ job[i].kind = "full" =>
       /\ payload[i] = job[i].meant
       /\ reply[i] # "miss"
       /\ pc[i] \in {"arrived", "admitted"} => token[i] = None
  /\ pc[i] = "taken" => job[i].kind = "delta" /\ payload[i] # <<>>
  /\ pc[i] = "stored" => job[i].kind = "full" /\ token[i] \in Tokens
  /\ pc[i] = "replied" <=> reply[i] # "none"
  /\ reply[i] = "ready" => job[i].kind = "full" /\ token[i] \in Tokens
  /\ reply[i] = "advance" => job[i].kind = "delta"
  /\ reply[i] = "plain" => job[i].kind = "full"

Tidy == \A i \in Tasks : TidyTask(i)

Awaited(c) == <<c, awaits[c]>>

\* While a client waits for the reply to a delta its extension counts it as
\* pending, under the token it was sent with.
PendingClient(c) ==
  /\ ext[c].mode = "delta" => ext[c].token \in Tokens
  /\ awaits[c] # None =>
       /\ pc[Awaited(c)] # "free"
       /\ job[Awaited(c)].kind = "delta" =>
            /\ ext[c].mode = "delta" /\ ext[c].pending
            /\ ext[c].token = token[Awaited(c)]

Pending == \A c \in Clients : PendingClient(c)

Safe == TypeOK /\ Tidy /\ Pending

\* The locals of a handler that starts or changes.
LEMMA BecomesTypes ==
  ASSUME TypeOK, NEW i \in Tasks, NEW place \in {"free", "arrived"},
         NEW j \in Job \union {NoJob}, NEW t \in Tokens \union {None},
         NEW context \in Seq(Items), Becomes(i, place, j, t, context)
  PROVE  /\ pc' \in [Tasks -> {"free", "arrived", "admitted", "taken", "stored", "replied"}]
         /\ job' \in [Tasks -> Job \union {NoJob}]
         /\ token' \in [Tasks -> Tokens \union {None}]
         /\ payload' \in [Tasks -> Seq(Items)]
         /\ reply' \in [Tasks -> {"none", "ready", "advance", "miss", "plain"}]
         /\ pc'[i] = place /\ job'[i] = j /\ token'[i] = t /\ payload'[i] = context
         /\ reply'[i] = "none"
         /\ \A k \in Tasks \ {i} :
              /\ pc'[k] = pc[k] /\ job'[k] = job[k] /\ token'[k] = token[k]
              /\ payload'[k] = payload[k] /\ reply'[k] = reply[k]
<1> USE DEF TypeOK, Becomes
<1>1. /\ pc' \in [Tasks -> {"free", "arrived", "admitted", "taken", "stored", "replied"}]
      /\ pc'[i] = place /\ \A k \in Tasks \ {i} : pc'[k] = pc[k]
  OBVIOUS
<1>2. job' \in [Tasks -> Job \union {NoJob}]
      /\ job'[i] = j /\ \A k \in Tasks \ {i} : job'[k] = job[k]
  OBVIOUS
<1>3. token' \in [Tasks -> Tokens \union {None}]
      /\ token'[i] = t /\ \A k \in Tasks \ {i} : token'[k] = token[k]
  OBVIOUS
<1>4. payload' \in [Tasks -> Seq(Items)]
      /\ payload'[i] = context /\ \A k \in Tasks \ {i} : payload'[k] = payload[k]
  OBVIOUS
<1>5. reply' \in [Tasks -> {"none", "ready", "advance", "miss", "plain"}]
      /\ reply'[i] = "none" /\ \A k \in Tasks \ {i} : reply'[k] = reply[k]
  OBVIOUS
<1> QED BY <1>1, <1>2, <1>3, <1>4, <1>5

\* The locals of a handler that has its reply.
LEMMA RepliesTypes ==
  ASSUME TypeOK, NEW i \in Tasks, NEW r \in {"ready", "advance", "miss", "plain"}, Replies(i, r)
  PROVE  /\ pc' \in [Tasks -> {"free", "arrived", "admitted", "taken", "stored", "replied"}]
         /\ reply' \in [Tasks -> {"none", "ready", "advance", "miss", "plain"}]
         /\ UNCHANGED <<job, token, payload>>
         /\ pc'[i] = "replied" /\ reply'[i] = r
         /\ \A k \in Tasks \ {i} : pc'[k] = pc[k] /\ reply'[k] = reply[k]
BY DEF TypeOK, Replies

\* Nothing is held, and nobody waits, at the start.
LEMMA InitSafe == Init => Safe
<1> SUFFICES ASSUME Init PROVE Safe
  OBVIOUS
<1>1. EmptyCache \in Cache
  BY DEF EmptyCache, Cache
<1>2. Reset \in Extension /\ Reset.mode = "full"
  BY DEF Reset, Extension
<1>3. TypeOK
  BY <1>1, <1>2 DEF Init, TypeOK, NoDump
<1>4. Tidy
  BY DEF Init, Tidy, TidyTask, NoJob
<1>5. Pending
  BY <1>2 DEF Init, Pending, PendingClient
<1> QED BY <1>3, <1>4, <1>5 DEF Safe

\* A conversation is a context.
LEMMA ConversationTypes ==
  ASSUME NEW context \in Conversations
  PROVE  context \in Seq(Items) /\ context # <<>>
BY LinkAssumption DEF Contexts

\* No job is no request.
LEMMA NoJobTypes == NoJob \notin Job /\ NoJob.kind = "none"
BY DEF NoJob, Job

\* What the hook makes of a dangling request is an extension, and leaves delta mode.
LEMMA CheckedTypes ==
  ASSUME TypeOK, NEW c \in Clients
  PROVE  /\ Checked(c) \in Extension
         /\ Checked(c).mode = "delta" => Checked(c) = ext[c] /\ ~ext[c].pending
BY DEF TypeOK, Checked, Reset, Extension

\* What a request that is sent looks like.
LEMMA SendShape ==
  ASSUME Safe, NEW c \in Clients, NEW context \in Conversations, Send(c, context)
  PROVE  LET e == Checked(c)
             tail == SubSeq(context, Len(e.last) + 1, Len(context))
             delta == Eligible(e, context)
             j == IF delta THEN [kind |-> "delta", slot |-> active, base |-> e.base,
                                 append |-> tail, meant |-> context]
                  ELSE [kind |-> "full", slot |-> active, base |-> <<>>,
                        append |-> <<>>, meant |-> context]
             t == IF delta THEN e.token ELSE None
         IN  \E i \in Copies :
               /\ pc[<<c, i>>] = "free" /\ awaits[c] = None
               /\ Becomes(<<c, i>>, "arrived", j, t, IF delta THEN <<>> ELSE context)
               /\ j \in Job /\ t \in Tokens \union {None}
               /\ delta => t \in Tokens /\ e.mode = "delta"
               /\ awaits' = [awaits EXCEPT ![c] = i]
               /\ ext' = [ext EXCEPT ![c] = [e EXCEPT !.last = context, !.pending = delta]]
               /\ UNCHANGED <<cache, routing, refused>>
<1> DEFINE e == Checked(c)
           tail == SubSeq(context, Len(e.last) + 1, Len(context))
           delta == Eligible(e, context)
           j == IF delta THEN [kind |-> "delta", slot |-> active, base |-> e.base,
                               append |-> tail, meant |-> context]
                ELSE [kind |-> "full", slot |-> active, base |-> <<>>,
                      append |-> <<>>, meant |-> context]
           t == IF delta THEN e.token ELSE None
<1>1. e \in Extension /\ active \in Slots
  BY CheckedTypes DEF Safe, TypeOK
<1>2. context \in Seq(Items) /\ context # <<>>
  BY ConversationTypes
<1>3. tail \in Seq(Items)
  <2>1. Len(e.last) + 1 \in 1..(Len(context) + 1) \/ Len(e.last) + 1 > Len(context)
    BY <1>1, <1>2 DEF Extension
  <2>2. Len(e.last) \in Nat /\ Len(context) \in Nat
    BY <1>1, <1>2 DEF Extension
  <2> QED BY <1>2, <2>2, SubSeqProperties
<1>4. j \in Job
  BY <1>1, <1>2, <1>3 DEF Job, Extension
<1>5. delta => e.mode = "delta" /\ e.token \in Tokens
  <2>1. delta => e.mode = "delta"
    BY DEF Eligible
  <2> HIDE DEF delta, e
  <2>2. e.mode = "delta" => e = ext[c]
    BY CheckedTypes DEF Safe, e
  <2> QED BY <2>1, <2>2 DEF Safe, Pending, PendingClient
<1>6. PICK i \in Copies :
        /\ pc[<<c, i>>] = "free"
        /\ Becomes(<<c, i>>, "arrived", j, t, IF delta THEN <<>> ELSE context)
        /\ awaits' = [awaits EXCEPT ![c] = i]
  <2> HIDE DEF e, tail
  <2> QED BY DEF Send, e, tail
<1>7. /\ ext' = [ext EXCEPT ![c] = [e EXCEPT !.last = context, !.pending = delta]]
      /\ UNCHANGED <<cache, routing, refused>>
      /\ awaits[c] = None
  BY DEF Send
<1> HIDE DEF e, tail, delta, j
<1>8. t \in Tokens \union {None} /\ (delta => t \in Tokens)
  BY <1>5
<1> HIDE DEF t
<1> QED BY <1>4, <1>5, <1>6, <1>7, <1>8 DEF e, tail, delta, j, t

\* A step of one handler leaves the others tidy.
LEMMA OthersTidy ==
  ASSUME Tidy, NEW i \in Tasks, TidyTask(i)',
         \A k \in Tasks \ {i} :
           /\ pc'[k] = pc[k] /\ job'[k] = job[k] /\ token'[k] = token[k]
           /\ payload'[k] = payload[k] /\ reply'[k] = reply[k]
  PROVE  Tidy'
<1> SUFFICES ASSUME NEW k \in Tasks, k # i PROVE TidyTask(k)'
  BY DEF Tidy
<1>1. TidyTask(k)
  BY DEF Tidy
<1> QED BY <1>1 DEF TidyTask

\* A client whose extension and awaited handler stay as they are stays pending.
LEMMA ClientPending ==
  ASSUME Pending, NEW c \in Clients, ext'[c] = ext[c], awaits'[c] \in {awaits[c], None},
         awaits'[c] # None =>
           /\ pc'[Awaited(c)] # "free" /\ job'[Awaited(c)] = job[Awaited(c)]
           /\ token'[Awaited(c)] = token[Awaited(c)]
  PROVE  PendingClient(c)'
<1>1. PendingClient(c)
  BY DEF Pending
<1>2. CASE awaits'[c] = None
  BY <1>1, <1>2 DEF PendingClient
<1>3. CASE awaits'[c] # None
  <2>1. awaits'[c] = awaits[c] /\ Awaited(c)' = Awaited(c)
    BY <1>3 DEF Awaited
  <2> QED BY <1>1, <1>3, <2>1 DEF PendingClient
<1> QED BY <1>2, <1>3

\* A handler that goes on keeps its client pending.
LEMMA HandlerPending ==
  ASSUME TypeOK, Pending, NEW i \in Tasks, UNCHANGED <<ext, awaits, job>>, pc'[i] # "free",
         job[i].kind = "delta" => token'[i] = token[i],
         \A k \in Tasks \ {i} : pc'[k] = pc[k] /\ token'[k] = token[k]
  PROVE  Pending'
<1> SUFFICES ASSUME NEW c \in Clients PROVE PendingClient(c)'
  BY DEF Pending
<1>1. PendingClient(c)
  BY DEF Pending
<1>2. Awaited(c)' = Awaited(c)
  BY DEF Awaited
<1>3. awaits[c] # None => Awaited(c) \in Tasks
  BY DEF Awaited, Tasks, TypeOK
<1> QED BY <1>1, <1>2, <1>3 DEF PendingClient

\* Safe and before_provider_request.  (delta-context.ts:120)
LEMMA SendSafe ==
  ASSUME Safe, NEW c \in Clients, NEW context \in Conversations, Send(c, context)
  PROVE  Safe'
<1> DEFINE e == Checked(c)
           tail == SubSeq(context, Len(e.last) + 1, Len(context))
           delta == Eligible(e, context)
           j == IF delta THEN [kind |-> "delta", slot |-> active, base |-> e.base,
                               append |-> tail, meant |-> context]
                ELSE [kind |-> "full", slot |-> active, base |-> <<>>,
                      append |-> <<>>, meant |-> context]
           t == IF delta THEN e.token ELSE None
           held == IF delta THEN <<>> ELSE context
<1>1. PICK n \in Copies :
        /\ pc[<<c, n>>] = "free" /\ awaits[c] = None
        /\ Becomes(<<c, n>>, "arrived", j, t, held)
        /\ j \in Job /\ t \in Tokens \union {None}
        /\ delta => t \in Tokens /\ e.mode = "delta"
        /\ awaits' = [awaits EXCEPT ![c] = n]
        /\ ext' = [ext EXCEPT ![c] = [e EXCEPT !.last = context, !.pending = delta]]
        /\ UNCHANGED <<cache, routing, refused>>
  BY SendShape
<1> DEFINE i == <<c, n>>
<1>2. /\ e \in Extension /\ context \in Seq(Items) /\ context # <<>> /\ held \in Seq(Items)
      /\ i \in Tasks /\ delta \in BOOLEAN
      /\ e.mode = "delta" => e = ext[c]
      /\ j.meant = context /\ j.kind = IF delta THEN "delta" ELSE "full"
  BY ConversationTypes, CheckedTypes DEF Safe, Tasks, Eligible
<1> HIDE DEF e, tail, j, delta
<1>3. /\ pc' \in [Tasks -> {"free", "arrived", "admitted", "taken", "stored", "replied"}]
      /\ job' \in [Tasks -> Job \union {NoJob}]
      /\ token' \in [Tasks -> Tokens \union {None}]
      /\ payload' \in [Tasks -> Seq(Items)]
      /\ reply' \in [Tasks -> {"none", "ready", "advance", "miss", "plain"}]
      /\ pc'[i] = "arrived" /\ job'[i] = j /\ token'[i] = t /\ payload'[i] = held
      /\ reply'[i] = "none"
      /\ \A k \in Tasks \ {i} :
              /\ pc'[k] = pc[k] /\ job'[k] = job[k] /\ token'[k] = token[k]
              /\ payload'[k] = payload[k] /\ reply'[k] = reply[k]
  <2> HIDE DEF i, t, held
  <2> QED BY <1>1, <1>2, BecomesTypes DEF Safe, i
<1>4. [e EXCEPT !.last = context, !.pending = delta] \in Extension
  BY <1>2 DEF Extension
<1>5. TypeOK'
  <2> HIDE DEF t, held, i
  <2>1. ext' \in [Clients -> Extension] /\ awaits' \in [Clients -> Copies \union {None}]
    BY <1>1, <1>4 DEF Safe, TypeOK
  <2>2. strayed' \in [Clients -> BOOLEAN]
    BY DEF Send, Safe, TypeOK
  <2> QED BY <1>1, <1>3, <2>1, <2>2 DEF Safe, TypeOK, routing
<1>6. Tidy'
  <2>1. TidyTask(i)'
    <3> HIDE DEF i
    <3> QED BY <1>1, <1>2, <1>3 DEF TidyTask
  <2> QED BY <1>2, <1>3, <2>1, OthersTidy DEF Safe
<1>7. Pending'
  <2> SUFFICES ASSUME NEW d \in Clients PROVE PendingClient(d)'
    BY DEF Pending
  <2>1. CASE d = c
    <3>1. awaits'[c] = n /\ Awaited(c)' = i
      BY <1>1 DEF Safe, TypeOK, Awaited
    <3>2. ext'[c].mode = e.mode /\ ext'[c].token = e.token /\ ext'[c].pending = delta
      BY <1>1, <1>2 DEF Safe, TypeOK, Extension
    <3>3. e.mode = "delta" => e.token \in Tokens
      BY <1>2 DEF Safe, Pending, PendingClient
    <3>4. j.kind = "delta" => delta
      BY <1>2
    <3> HIDE DEF i
    <3> QED BY <1>1, <1>3, <2>1, <3>1, <3>2, <3>3, <3>4 DEF PendingClient
  <2>2. CASE d # c
    <3>1. ext'[d] = ext[d] /\ awaits'[d] = awaits[d]
      BY <1>1, <2>2 DEF Safe, TypeOK
    <3>2. awaits[d] # None => Awaited(d) \in Tasks \ {i} /\ pc[Awaited(d)] # "free"
      BY <2>2 DEF Safe, TypeOK, Awaited, Tasks, Pending, PendingClient
    <3> HIDE DEF i
    <3> QED BY <1>3, <3>1, <3>2, ClientPending DEF Safe
  <2> QED BY <2>1, <2>2
<1> QED BY <1>5, <1>6, <1>7 DEF Safe

\* Safe and the second copy of a request.
LEMMA ResendSafe ==
  ASSUME Safe, NEW c \in Clients, Resend(c)
  PROVE  Safe'
<1> DEFINE first == Awaited(c)
           delta == job[first].kind = "delta"
           j == [job[first] EXCEPT !.slot = active]
           t == IF delta THEN token[first] ELSE None
           held == IF delta THEN <<>> ELSE job[first].meant
<1>1. PICK n \in Copies :
        /\ pc[<<c, n>>] = "free"
        /\ Becomes(<<c, n>>, "arrived", j, t, held)
        /\ awaits' = [awaits EXCEPT ![c] = n]
  BY DEF Resend, Awaited
<1>2. awaits[c] # None /\ UNCHANGED <<cache, routing, ext, refused>>
  BY DEF Resend
<1> DEFINE i == <<c, n>>
<1>3. /\ first \in Tasks /\ i \in Tasks /\ pc[first] # "free"
      /\ delta => ext[c].mode = "delta" /\ ext[c].pending /\ ext[c].token = token[first]
      /\ ext[c].mode = "delta" => ext[c].token \in Tokens
  BY <1>2 DEF Safe, TypeOK, Awaited, Tasks, Pending, PendingClient
<1>4. /\ job[first] \in Job /\ job[first].meant # <<>>
      /\ delta => token[first] \in Tokens
  BY <1>3 DEF Safe, Tidy, TidyTask
<1>5. /\ j \in Job /\ j.kind = job[first].kind /\ j.meant = job[first].meant
      /\ held \in Seq(Items) /\ t \in Tokens \union {None}
      /\ j.kind \in {"full", "delta"}
  <2>1. active \in Slots
    BY DEF Safe, TypeOK
  <2>2. /\ job[first].kind \in {"full", "delta"} /\ job[first].meant \in Seq(Items)
        /\ j \in Job /\ j.kind = job[first].kind /\ j.meant = job[first].meant
    <3> HIDE DEF first
    <3> QED BY <1>4, <2>1 DEF Job
  <2>3. held \in Seq(Items) /\ t \in Tokens \union {None}
    <3> HIDE DEF first
    <3> QED BY <1>4, <2>2
  <2> QED BY <2>2, <2>3
<1> HIDE DEF first, j
<1>6. /\ pc' \in [Tasks -> {"free", "arrived", "admitted", "taken", "stored", "replied"}]
      /\ job' \in [Tasks -> Job \union {NoJob}]
      /\ token' \in [Tasks -> Tokens \union {None}]
      /\ payload' \in [Tasks -> Seq(Items)]
      /\ reply' \in [Tasks -> {"none", "ready", "advance", "miss", "plain"}]
      /\ pc'[i] = "arrived" /\ job'[i] = j /\ token'[i] = t /\ payload'[i] = held
      /\ reply'[i] = "none"
      /\ \A k \in Tasks \ {i} :
              /\ pc'[k] = pc[k] /\ job'[k] = job[k] /\ token'[k] = token[k]
              /\ payload'[k] = payload[k] /\ reply'[k] = reply[k]
  <2> HIDE DEF i, t, held
  <2> QED BY <1>1, <1>3, <1>5, BecomesTypes DEF Safe, i
<1>7. TypeOK'
  <2> HIDE DEF t, held, i
  <2>1. awaits' \in [Clients -> Copies \union {None}]
    BY <1>1 DEF Safe, TypeOK
  <2>2. UNCHANGED strayed
    BY DEF Resend
  <2> QED BY <1>2, <1>6, <2>1, <2>2 DEF Safe, TypeOK, routing
<1>8. Tidy'
  <2>1. TidyTask(i)'
    <3> HIDE DEF i
    <3> QED BY <1>4, <1>5, <1>6 DEF TidyTask
  <2> QED BY <1>3, <1>6, <2>1, OthersTidy DEF Safe
<1>9. Pending'
  <2> SUFFICES ASSUME NEW d \in Clients PROVE PendingClient(d)'
    BY DEF Pending
  <2>1. CASE d = c
    <3>1. awaits'[c] = n /\ Awaited(c)' = i
      BY <1>1 DEF Safe, TypeOK, Awaited
    <3> HIDE DEF i
    <3> QED BY <1>2, <1>3, <1>5, <1>6, <2>1, <3>1 DEF PendingClient
  <2>2. CASE d # c
    <3>1. ext'[d] = ext[d] /\ awaits'[d] = awaits[d]
      BY <1>1, <1>2, <2>2 DEF Safe, TypeOK
    <3>2. awaits[d] # None => Awaited(d) \in Tasks \ {i} /\ pc[Awaited(d)] # "free"
      BY <2>2 DEF Safe, TypeOK, Awaited, Tasks, Pending, PendingClient
    <3> HIDE DEF i
    <3> QED BY <1>6, <3>1, <3>2, ClientPending DEF Safe
  <2> QED BY <2>1, <2>2
<1> QED BY <1>7, <1>8, <1>9 DEF Safe

\* What after_provider_response makes of a reply is an extension with a token, if with
\* deltas.
LEMMA HeardTypes ==
  ASSUME Safe, NEW c \in Clients, NEW i \in Tasks, pc[i] = "replied"
  PROVE  /\ Heard(ext[c], i) \in Extension
         /\ (ext[c].mode = "delta" => ext[c].token \in Tokens) =>
              (Heard(ext[c], i).mode = "delta" => Heard(ext[c], i).token \in Tokens)
<1>1. reply[i] \in {"ready", "advance", "miss", "plain"} /\ TidyTask(i)
  BY DEF Safe, TypeOK, Tidy, TidyTask
<1>2. /\ ext[c] \in Extension /\ token[i] \in Tokens \union {None} /\ payload[i] \in Seq(Items)
      /\ Reset \in Extension /\ Reset.mode = "full"
  BY DEF Safe, TypeOK, Reset, Extension
<1>3. CASE reply[i] = "ready"
  BY <1>1, <1>2, <1>3 DEF Heard, Extension, TidyTask
<1>4. CASE reply[i] = "advance"
  BY <1>2, <1>4 DEF Heard, Extension
<1>5. CASE reply[i] \in {"miss", "plain"}
  BY <1>2, <1>5 DEF Heard
<1> QED BY <1>1, <1>3, <1>4, <1>5

\* The locals of a handler that has ended.
LEMMA DoneTypes ==
  ASSUME TypeOK, NEW i \in Tasks, Done(i)
  PROVE  /\ pc' \in [Tasks -> {"free", "arrived", "admitted", "taken", "stored", "replied"}]
         /\ job' \in [Tasks -> Job \union {NoJob}]
         /\ token' \in [Tasks -> Tokens \union {None}]
         /\ payload' \in [Tasks -> Seq(Items)]
         /\ reply' \in [Tasks -> {"none", "ready", "advance", "miss", "plain"}]
         /\ pc'[i] = "free" /\ job'[i] = NoJob /\ token'[i] = None
         /\ payload'[i] = <<>> /\ reply'[i] = "none"
         /\ \A k \in Tasks \ {i} :
                 /\ pc'[k] = pc[k] /\ job'[k] = job[k] /\ token'[k] = token[k]
                 /\ payload'[k] = payload[k] /\ reply'[k] = reply[k]
<1> USE DEF TypeOK, Becomes, Done
<1>1. /\ pc' \in [Tasks -> {"free", "arrived", "admitted", "taken", "stored", "replied"}]
      /\ pc'[i] = "free" /\ \A k \in Tasks \ {i} : pc'[k] = pc[k]
  OBVIOUS
<1>2. job' \in [Tasks -> Job \union {NoJob}]
      /\ job'[i] = NoJob /\ \A k \in Tasks \ {i} : job'[k] = job[k]
  OBVIOUS
<1>3. token' \in [Tasks -> Tokens \union {None}]
      /\ token'[i] = None /\ \A k \in Tasks \ {i} : token'[k] = token[k]
  OBVIOUS
<1>4. payload' \in [Tasks -> Seq(Items)]
      /\ payload'[i] = <<>> /\ \A k \in Tasks \ {i} : payload'[k] = payload[k]
  OBVIOUS
<1>5. reply' \in [Tasks -> {"none", "ready", "advance", "miss", "plain"}]
      /\ reply'[i] = "none" /\ \A k \in Tasks \ {i} : reply'[k] = reply[k]
  OBVIOUS
<1> QED BY <1>1, <1>2, <1>3, <1>4, <1>5

\* A handler that ends.
LEMMA DoneSafe ==
  ASSUME Safe, NEW i \in Tasks, Done(i), UNCHANGED <<cache, routing>>,
         ext' \in [Clients -> Extension], awaits' \in [Clients -> Copies \union {None}],
         refused' \in [Clients -> BOOLEAN], strayed' \in [Clients -> BOOLEAN],
         \A c \in Clients :
           /\ awaits'[c] \in {awaits[c], None}
           /\ awaits[c] # None /\ Awaited(c) = i => awaits'[c] = None
           /\ IF awaits'[c] = None THEN ext'[c].mode = "delta" => ext'[c].token \in Tokens
                                   ELSE ext'[c] = ext[c]
  PROVE  Safe'
<1>1. /\ pc' \in [Tasks -> {"free", "arrived", "admitted", "taken", "stored", "replied"}]
      /\ job' \in [Tasks -> Job \union {NoJob}]
      /\ token' \in [Tasks -> Tokens \union {None}]
      /\ payload' \in [Tasks -> Seq(Items)]
      /\ reply' \in [Tasks -> {"none", "ready", "advance", "miss", "plain"}]
      /\ pc'[i] = "free" /\ job'[i] = NoJob /\ token'[i] = None
      /\ payload'[i] = <<>> /\ reply'[i] = "none"
      /\ \A k \in Tasks \ {i} :
              /\ pc'[k] = pc[k] /\ job'[k] = job[k] /\ token'[k] = token[k]
              /\ payload'[k] = payload[k] /\ reply'[k] = reply[k]
  BY DoneTypes DEF Safe
<1>2. TypeOK'
  BY <1>1 DEF Safe, TypeOK, routing
<1>3. Tidy'
  <2>1. TidyTask(i)'
    BY <1>1, NoJobTypes DEF TidyTask
  <2> QED BY <1>1, <2>1, OthersTidy DEF Safe
<1>4. Pending'
  <2> SUFFICES ASSUME NEW c \in Clients PROVE PendingClient(c)'
    BY DEF Pending
  <2>1. CASE awaits'[c] = None
    BY <2>1 DEF PendingClient
  <2>2. CASE awaits'[c] # None
    <3>1. awaits[c] # None /\ Awaited(c) \in Tasks \ {i} /\ pc[Awaited(c)] # "free"
      BY <2>2 DEF Safe, TypeOK, Awaited, Tasks, Pending, PendingClient
    <3> QED BY <1>1, <2>2, <3>1, ClientPending DEF Safe
  <2> QED BY <2>1, <2>2
<1> QED BY <1>2, <1>3, <1>4 DEF Safe

\* Safe and after_provider_response.  (delta-context.ts:151)
LEMMA ReceiveSafe ==
  ASSUME Safe, NEW c \in Clients, Receive(c)
  PROVE  Safe'
<1> DEFINE i == Awaited(c)
<1>1. /\ awaits[c] # None /\ pc[i] = "replied"
      /\ ext' = [ext EXCEPT ![c] = Heard(ext[c], i)]
      /\ awaits' = [awaits EXCEPT ![c] = None]
      /\ refused' = [refused EXCEPT ![c] = reply[i] = "miss"]
      /\ Done(i)
      /\ UNCHANGED <<cache, routing>>
  BY DEF Receive, Awaited
<1>2. i \in Tasks
  BY <1>1 DEF Safe, TypeOK, Awaited, Tasks
<1>3. /\ Heard(ext[c], i) \in Extension
      /\ Heard(ext[c], i).mode = "delta" => Heard(ext[c], i).token \in Tokens
  <2>1. ext[c].mode = "delta" => ext[c].token \in Tokens
    BY DEF Safe, Pending, PendingClient
  <2> QED BY <1>1, <1>2, <2>1, HeardTypes
<1> DEFINE h == Heard(ext[c], i)
<1> HIDE DEF h
<1>4. /\ ext' \in [Clients -> Extension] /\ awaits' \in [Clients -> Copies \union {None}]
      /\ refused' \in [Clients -> BOOLEAN]
  BY <1>1, <1>3 DEF Safe, TypeOK, h
<1>6. strayed' \in [Clients -> BOOLEAN]
  BY DEF Receive, Safe, TypeOK
<1>5. ASSUME NEW d \in Clients
      PROVE  /\ awaits'[d] \in {awaits[d], None}
             /\ awaits[d] # None /\ Awaited(d) = i => awaits'[d] = None
             /\ IF awaits'[d] = None THEN ext'[d].mode = "delta" => ext'[d].token \in Tokens
                                     ELSE ext'[d] = ext[d]
  <2>1. CASE d = c
    BY <1>1, <1>3, <2>1 DEF Safe, TypeOK
  <2>2. CASE d # c
    <3>1. awaits'[d] = awaits[d] /\ ext'[d] = ext[d] /\ Awaited(d) # i
      BY <1>1, <2>2 DEF Safe, TypeOK, Awaited
    <3> QED BY <3>1 DEF Safe, Pending, PendingClient
  <2> QED BY <2>1, <2>2
<1> HIDE DEF i
<1> QED BY <1>1, <1>2, <1>4, <1>5, <1>6, DoneSafe

\* Safe and a lost answer.
LEMMA LoseSafe ==
  ASSUME Safe, NEW c \in Clients, Lose(c)
  PROVE  Safe'
<1>1. /\ awaits' = [awaits EXCEPT ![c] = None]
      /\ refused' = [refused EXCEPT ![c] = reply[Awaited(c)] = "miss"]
      /\ UNCHANGED <<cache, routing, ext, tasks>>
  BY DEF Lose, Awaited
<1>2. TypeOK'
  <2>1. strayed' \in [Clients -> BOOLEAN]
    BY DEF Lose, Safe, TypeOK
  <2> QED BY <1>1, <2>1 DEF Safe, TypeOK, routing, tasks
<1>3. Tidy'
  BY <1>1 DEF Safe, Tidy, TidyTask, tasks
<1>4. Pending'
  <2> SUFFICES ASSUME NEW d \in Clients PROVE PendingClient(d)'
    BY DEF Pending
  <2>1. awaits'[d] \in {awaits[d], None} /\ ext'[d] = ext[d]
    BY <1>1 DEF Safe, TypeOK
  <2>2. awaits'[d] # None => pc[Awaited(d)] # "free"
    BY <2>1 DEF Safe, Pending, PendingClient
  <2> QED BY <1>1, <2>1, <2>2, ClientPending DEF Safe, tasks
<1> QED BY <1>2, <1>3, <1>4 DEF Safe

\* Safe and the end of a copy nobody waits for.
LEMMA AbandonedSafe ==
  ASSUME Safe, NEW c \in Clients, NEW n \in Copies, Abandoned(c, n)
  PROVE  Safe'
<1> DEFINE i == <<c, n>>
<1>1. Done(i) /\ awaits[c] # n /\ UNCHANGED <<cache, routing, clients>> /\ i \in Tasks
  BY DEF Abandoned, Tasks
<1>2. ASSUME NEW d \in Clients
      PROVE  /\ awaits'[d] \in {awaits[d], None}
             /\ awaits[d] # None /\ Awaited(d) = i => awaits'[d] = None
             /\ IF awaits'[d] = None THEN ext'[d].mode = "delta" => ext'[d].token \in Tokens
                                     ELSE ext'[d] = ext[d]
  BY <1>1 DEF clients, Awaited, Safe, Pending, PendingClient
<1>3. /\ ext' \in [Clients -> Extension] /\ awaits' \in [Clients -> Copies \union {None}]
      /\ refused' \in [Clients -> BOOLEAN] /\ strayed' \in [Clients -> BOOLEAN]
  BY <1>1 DEF Safe, TypeOK, clients
<1> HIDE DEF i
<1> QED BY <1>1, <1>2, <1>3, DoneSafe

\* Safe and session_start.  (delta-context.ts:181)
LEMMA SessionStartSafe ==
  ASSUME Safe, NEW c \in Clients, SessionStart(c)
  PROVE  Safe'
<1>1. /\ awaits[c] = None /\ ext' = [ext EXCEPT ![c] = Reset]
      /\ UNCHANGED <<cache, routing, awaits, refused, tasks>>
  BY DEF SessionStart
<1>2. Reset \in Extension /\ Reset.mode = "full"
  BY DEF Reset, Extension
<1>3. TypeOK'
  <2>1. strayed' \in [Clients -> BOOLEAN]
    BY DEF SessionStart, Safe, TypeOK
  <2> QED BY <1>1, <1>2, <2>1 DEF Safe, TypeOK, routing, tasks
<1>4. Tidy'
  BY <1>1 DEF Safe, Tidy, TidyTask, tasks
<1>5. Pending'
  <2> SUFFICES ASSUME NEW d \in Clients PROVE PendingClient(d)'
    BY DEF Pending
  <2>1. CASE d = c
    BY <1>1, <1>2, <2>1 DEF PendingClient, Safe, TypeOK
  <2>2. CASE d # c
    <3>1. ext'[d] = ext[d]
      BY <1>1, <2>2 DEF Safe, TypeOK
    <3>2. awaits[d] # None => pc[Awaited(d)] # "free"
      BY DEF Safe, Pending, PendingClient
    <3> QED BY <1>1, <3>1, <3>2, ClientPending DEF Safe, tasks
  <2> QED BY <2>1, <2>2
<1> QED BY <1>3, <1>4, <1>5 DEF Safe

\* What expiry and eviction leave of a cache.
Part(d, c) ==
  /\ d \in Cache
  /\ Held(d) \subseteq Held(c)
  /\ \A t \in Held(d) : d.entry[t] = c.entry[t]
  /\ Balanced(c) => Balanced(d)
  /\ Balanced(c) /\ WithinCaps(c) => WithinCaps(d)

\* remove_expired leaves a part.
LEMMA ExpirePart ==
  ASSUME NEW c \in Cache, NEW n \in 0..Len(c.order)
  PROVE  Part(Expire(c, n), c)
<1> DEFINE d == Without(c, Oldest(c, n))
<1>1. /\ d \in Cache /\ Held(d) = Held(c) \ Oldest(c, n)
      /\ \A t \in Tokens \ Oldest(c, n) : d.entry[t] = c.entry[t]
      /\ Len(d.order) <= Len(c.order)
  BY WithoutCache
<1>2. Balanced(c) => Balanced(d) /\ d.total <= c.total
  BY WithoutBalanced
<1>3. Held(d) \subseteq Tokens
  BY DEF Held
<1> HIDE DEF d
<1>4. /\ Len(d.order) \in Nat /\ Len(c.order) \in Nat /\ d.total \in Int /\ c.total \in Int
  BY <1>1 DEF Cache
<1>5. Balanced(c) /\ WithinCaps(c) => WithinCaps(d)
  BY <1>1, <1>2, <1>4, CapsAssumption DEF WithinCaps
<1> QED BY <1>1, <1>2, <1>3, <1>5 DEF Part, d, Expire

\* evict_lru leaves a part, within the caps.
LEMMA EvictPart ==
  ASSUME NEW c \in Cache
  PROVE  Part(Evict(c), c) /\ (Balanced(c) => WithinCaps(Evict(c)))
BY EvictExpires, ExpirePart, EvictWithinCaps

\* An empty cache is a cache with true accounts.
LEMMA EmptyPart ==
  /\ EmptyCache \in Cache /\ Held(EmptyCache) = {}
  /\ Balanced(EmptyCache) /\ WithinCaps(EmptyCache)
<1>1. EmptyCache \in Cache /\ Held(EmptyCache) = {}
  BY DEF EmptyCache, Cache, Held
<1>2. BytesOf(EmptyCache, {}) = 0
  BY SumEmpty DEF BytesOf
<1>3. EmptyCache.total = 0 /\ EmptyCache.order = <<>>
  BY DEF EmptyCache
<1> QED BY <1>1, <1>2, <1>3, CapsAssumption DEF Balanced, WithinCaps, ToSet

\* What a handler stores: the cache it finds, less what has expired, plus its
\* context, less what is evicted for it.
LEMMA StorePart ==
  ASSUME NEW c \in Cache, NEW n \in 0..Len(c.order), NEW t \in Tokens,
         NEW context \in Contexts, NEW d, Part(d, c)
  PROVE  LET e == Evict(Put(d, t, context))
         IN  /\ e \in Cache
             /\ Held(e) \subseteq Held(c) \union {t}
             /\ t \in Held(e) => e.entry[t] = [context |-> context, hash |-> context]
             /\ \A u \in Held(e) \ {t} : u \in Held(c) /\ e.entry[u] = c.entry[u]
             /\ Balanced(c) => Balanced(e) /\ WithinCaps(e)
<1> DEFINE p == Put(d, t, context)
           e == Evict(p)
<1>1. /\ p \in Cache /\ Held(p) = Held(d) \union {t}
      /\ p.entry[t] = [context |-> context, hash |-> context]
      /\ \A u \in Tokens \ {t} : p.entry[u] = d.entry[u]
      /\ Balanced(d) => Balanced(p)
  BY PutCache DEF Part
<1> HIDE DEF p
<1>2. Part(e, p) /\ (Balanced(p) => WithinCaps(e))
  BY <1>1, EvictPart
<1>3. Held(e) \subseteq Tokens
  BY DEF Held
<1> HIDE DEF e
<1> QED BY <1>1, <1>2, <1>3 DEF Part, p, e

\* Safe and the check whether the cache is open.  (delta.rs:144)
LEMMA AdmitSafe ==
  ASSUME Safe, NEW i \in Tasks, Admit(i)
  PROVE  Safe'
<1>1. pc[i] = "arrived" /\ UNCHANGED <<cache, routing, clients>>
  BY DEF Admit
<1>2. TidyTask(i) /\ job[i] \in Job /\ job[i].kind \in {"full", "delta"}
  BY <1>1 DEF Safe, Tidy, TidyTask, Job
<1>3. CASE pc' = [pc EXCEPT ![i] = "admitted"] /\ UNCHANGED <<job, token, payload, reply>>
  <2>1. TypeOK' /\ pc'[i] = "admitted" /\ \A k \in Tasks \ {i} : pc'[k] = pc[k]
    BY <1>1, <1>3 DEF Safe, TypeOK, routing, clients
  <2>2. TidyTask(i)'
    BY <1>1, <1>2, <1>3, <2>1 DEF TidyTask
  <2>3. Tidy'
    BY <1>3, <2>1, <2>2, OthersTidy DEF Safe
  <2>4. Pending'
    BY <1>1, <1>3, <2>1, HandlerPending DEF Safe, clients
  <2> QED BY <2>1, <2>3, <2>4 DEF Safe
<1>4. CASE Replies(i, IF job[i].kind = "full" THEN "plain" ELSE "miss")
  <2> DEFINE r == IF job[i].kind = "full" THEN "plain" ELSE "miss"
  <2>1. r \in {"ready", "advance", "miss", "plain"}
    OBVIOUS
  <2>2. /\ pc' \in [Tasks -> {"free", "arrived", "admitted", "taken", "stored", "replied"}]
        /\ reply' \in [Tasks -> {"none", "ready", "advance", "miss", "plain"}]
        /\ UNCHANGED <<job, token, payload>>
        /\ pc'[i] = "replied" /\ reply'[i] = r
        /\ \A k \in Tasks \ {i} : pc'[k] = pc[k] /\ reply'[k] = reply[k]
    <3> HIDE DEF r
    <3> QED BY <1>4, <2>1, RepliesTypes DEF Safe, r
  <2>3. TypeOK'
    BY <1>1, <2>2 DEF Safe, TypeOK, routing, clients
  <2>4. TidyTask(i)'
    BY <1>1, <1>2, <2>2 DEF TidyTask
  <2>5. Tidy'
    BY <2>2, <2>4, OthersTidy DEF Safe
  <2>6. Pending'
    BY <1>1, <2>2, HandlerPending DEF Safe, clients
  <2> QED BY <2>3, <2>5, <2>6 DEF Safe
<1> QED BY <1>3, <1>4 DEF Admit

\* Safe and the lookup of the token by register_full.  (delta.rs:225)
LEMMA ReadBackSafe ==
  ASSUME Safe, NEW i \in Tasks, ReadBack(i)
  PROVE  Safe'
<1> DEFINE r == IF token[i] \in Held(cache[job[i].slot]) THEN "ready" ELSE "plain"
<1>1. pc[i] = "stored" /\ UNCHANGED <<cache, routing, clients>> /\ Replies(i, r)
  BY DEF ReadBack
<1>2. TidyTask(i) /\ job[i] \in Job /\ job[i].kind = "full" /\ token[i] \in Tokens
  BY <1>1 DEF Safe, Tidy, TidyTask
<1>3. r \in {"ready", "plain"}
  OBVIOUS
<1> HIDE DEF r
<1>4. /\ pc' \in [Tasks -> {"free", "arrived", "admitted", "taken", "stored", "replied"}]
      /\ reply' \in [Tasks -> {"none", "ready", "advance", "miss", "plain"}]
      /\ UNCHANGED <<job, token, payload>>
      /\ pc'[i] = "replied" /\ reply'[i] = r
      /\ \A k \in Tasks \ {i} : pc'[k] = pc[k] /\ reply'[k] = reply[k]
  BY <1>1, <1>3, RepliesTypes DEF Safe
<1>5. TypeOK'
  BY <1>1, <1>4 DEF Safe, TypeOK, routing, clients
<1>6. Tidy'
  <2>1. TidyTask(i)'
    BY <1>1, <1>2, <1>3, <1>4 DEF TidyTask
  <2> QED BY <1>4, <2>1, OthersTidy DEF Safe
<1>7. Pending'
  BY <1>1, <1>4, HandlerPending DEF Safe, clients
<1> QED BY <1>5, <1>6, <1>7 DEF Safe

\* Safe and the lock section of register_full.  (delta.rs:207)
LEMMA RegisterSafe ==
  ASSUME Safe, NEW i \in Tasks, Register(i)
  PROVE  Safe'
<1> DEFINE s == job[i].slot
<1>1. PICK n \in 0..Len(cache[s].order), t \in Tokens \ InUse :
        /\ cache' = [cache EXCEPT ![s] = Evict(Put(Expire(cache[s], n), t, payload[i]))]
        /\ token' = [token EXCEPT ![i] = t]
  BY DEF Register
<1>2. /\ pc[i] = "admitted" /\ job[i].kind = "full"
      /\ pc' = [pc EXCEPT ![i] = "stored"]
      /\ UNCHANGED <<routing, clients, job, payload, reply>>
  BY DEF Register
<1>3. /\ TidyTask(i) /\ job[i] \in Job /\ s \in Slots
      /\ payload[i] \in Contexts
  BY <1>2 DEF Safe, Tidy, TidyTask, Job, TypeOK, Contexts
<1>4. /\ pc' \in [Tasks -> {"free", "arrived", "admitted", "taken", "stored", "replied"}]
      /\ token' \in [Tasks -> Tokens \union {None}]
      /\ pc'[i] = "stored" /\ token'[i] = t
      /\ \A k \in Tasks \ {i} : pc'[k] = pc[k] /\ token'[k] = token[k]
  BY <1>1, <1>2 DEF Safe, TypeOK
<1>5. Evict(Put(Expire(cache[s], n), t, payload[i])) \in Cache
  <2>1. cache[s] \in Cache
    BY <1>3 DEF Safe, TypeOK
  <2> QED BY <1>3, <2>1, ExpirePart, StorePart
<1>6. TypeOK'
  <2>1. cache' \in [Slots -> Cache]
    BY <1>1, <1>5 DEF Safe, TypeOK
  <2> QED BY <1>2, <1>4, <2>1 DEF Safe, TypeOK, routing, clients
<1>7. Tidy'
  <2>1. TidyTask(i)'
    BY <1>2, <1>3, <1>4 DEF TidyTask
  <2> QED BY <1>2, <1>4, <2>1, OthersTidy DEF Safe
<1>8. Pending'
  BY <1>2, <1>4, HandlerPending DEF Safe, clients
<1> QED BY <1>6, <1>7, <1>8 DEF Safe

\* What a delta that hits takes out of the cache.
LEMMA HitTakes ==
  ASSUME Safe, NEW i \in Tasks, pc[i] = "admitted", job[i].kind = "delta",
         NEW live \in Cache, Hit(live, i)
  PROVE  /\ token[i] \in Held(live) /\ live.entry[token[i]] \in Entry
         /\ live.entry[token[i]].hash = job[i].base
         /\ live.entry[token[i]].context \o job[i].append \in Seq(Items) \ {<<>>}
<1>1. token[i] \in Held(live) /\ live.entry[token[i]].hash = job[i].base
  BY DEF Hit
<1>2. live.entry[token[i]] \in Entry
  BY <1>1 DEF Held, Cache
<1>3. job[i].append \in Seq(Items)
  BY DEF Safe, Tidy, TidyTask, Job
<1> DEFINE context == live.entry[token[i]].context
           append == job[i].append
<1>4. context \in Seq(Items) /\ context # <<>>
  BY <1>2 DEF Entry, Contexts
<1> HIDE DEF context, append
<1>5. context \o append \in Seq(Items) /\ Len(context \o append) = Len(context) + Len(append)
  BY <1>3, <1>4, ConcatProperties DEF append
<1>6. Len(context) \in Nat /\ Len(append) \in Nat /\ Len(context) # 0
  BY <1>3, <1>4 DEF append
<1>7. context \o append # <<>>
  BY <1>5, <1>6
<1> QED BY <1>1, <1>2, <1>5, <1>7 DEF context, append

\* Safe and the first lock section of apply_delta.  (delta.rs:273)
LEMMA TakeSafe ==
  ASSUME Safe, NEW i \in Tasks, Take(i)
  PROVE  Safe'
<1> DEFINE s == job[i].slot
<1>0. strayed' \in [Clients -> BOOLEAN]
  <2> DEFINE Out(c) == i = <<c, awaits[c]>> /\ ItemsOut(i)
  <2>1. \/ strayed' = [c \in Clients |-> strayed[c] \/ Out(c)]
        \/ UNCHANGED strayed
    BY DEF Take
  <2> HIDE DEF Out
  <2> QED BY <2>1 DEF Safe, TypeOK
<1>1. PICK n \in 0..Len(cache[s].order) :
        LET live == Expire(cache[s], n)
        IN  IF Hit(live, i)
            THEN /\ cache' = [cache EXCEPT ![s] = Emptied(live, token[i])]
                 /\ pc' = [pc EXCEPT ![i] = "taken"]
                 /\ payload' = [payload EXCEPT ![i] =
                                  live.entry[token[i]].context \o job[i].append]
                 /\ UNCHANGED <<job, token, reply>>
            ELSE /\ cache' = [cache EXCEPT ![s] = live]
                 /\ Replies(i, "miss")
  BY DEF Take
<1> DEFINE live == Expire(cache[s], n)
<1>2. pc[i] = "admitted" /\ job[i].kind = "delta" /\ UNCHANGED <<routing, ext, awaits, refused>>
  BY DEF Take
<1>3. TidyTask(i) /\ job[i] \in Job /\ s \in Slots /\ token[i] \in Tokens
  BY <1>2 DEF Safe, Tidy, TidyTask, Job
<1>4. live \in Cache
  <2>1. cache[s] \in Cache
    BY <1>3 DEF Safe, TypeOK
  <2> QED BY <2>1, ExpirePart DEF Part
<1> HIDE DEF live, s
<1>5. CASE Hit(live, i)
  <2> DEFINE context == live.entry[token[i]].context \o job[i].append
  <2>1. /\ cache' = [cache EXCEPT ![s] = Emptied(live, token[i])]
        /\ pc' = [pc EXCEPT ![i] = "taken"]
        /\ payload' = [payload EXCEPT ![i] = context]
        /\ UNCHANGED <<job, token, reply>>
    BY <1>1, <1>5 DEF live
  <2>2. token[i] \in Held(live) /\ context \in Seq(Items) /\ context # <<>>
    BY <1>2, <1>4, <1>5, HitTakes
  <2>3. Emptied(live, token[i]) \in Cache
    BY <1>4, <2>2, EmptiedCache
  <2> HIDE DEF context
  <2>4. /\ pc' \in [Tasks -> {"free", "arrived", "admitted", "taken", "stored", "replied"}]
        /\ payload' \in [Tasks -> Seq(Items)]
        /\ pc'[i] = "taken" /\ payload'[i] = context
        /\ \A k \in Tasks \ {i} : pc'[k] = pc[k] /\ payload'[k] = payload[k]
    BY <2>1, <2>2 DEF Safe, TypeOK
  <2>5. TypeOK'
    <3>1. cache' \in [Slots -> Cache]
      BY <2>1, <2>3 DEF Safe, TypeOK
    <3> QED BY <1>2, <1>0, <2>1, <2>4, <3>1 DEF Safe, TypeOK, routing
  <2>6. Tidy'
    <3>1. TidyTask(i)'
      BY <1>2, <1>3, <2>1, <2>2, <2>4 DEF TidyTask
    <3> QED BY <2>1, <2>4, <3>1, OthersTidy DEF Safe
  <2>7. Pending'
    BY <1>2, <2>1, <2>4, HandlerPending DEF Safe
  <2> QED BY <2>5, <2>6, <2>7 DEF Safe
<1>6. CASE ~Hit(live, i)
  <2>1. cache' = [cache EXCEPT ![s] = live] /\ Replies(i, "miss")
    BY <1>1, <1>6 DEF live
  <2>2. /\ pc' \in [Tasks -> {"free", "arrived", "admitted", "taken", "stored", "replied"}]
        /\ reply' \in [Tasks -> {"none", "ready", "advance", "miss", "plain"}]
        /\ UNCHANGED <<job, token, payload>>
        /\ pc'[i] = "replied" /\ reply'[i] = "miss"
        /\ \A k \in Tasks \ {i} : pc'[k] = pc[k] /\ reply'[k] = reply[k]
    BY <2>1, RepliesTypes DEF Safe
  <2>3. TypeOK'
    <3>1. cache' \in [Slots -> Cache]
      BY <1>4, <2>1 DEF Safe, TypeOK
    <3> QED BY <1>2, <1>0, <2>2, <3>1 DEF Safe, TypeOK, routing
  <2>4. Tidy'
    <3>1. TidyTask(i)'
      BY <1>2, <1>3, <2>2 DEF TidyTask
    <3> QED BY <2>2, <3>1, OthersTidy DEF Safe
  <2>5. Pending'
    BY <1>2, <2>2, HandlerPending DEF Safe
  <2> QED BY <2>3, <2>4, <2>5 DEF Safe
<1> QED BY <1>5, <1>6

\* Safe and the second lock section of apply_delta.  (delta.rs:294)
LEMMA CommitSafe ==
  ASSUME Safe, NEW i \in Tasks, Commit(i)
  PROVE  Safe'
<1> DEFINE s == job[i].slot
           t == token[i]
<1>1. /\ pc[i] = "taken"
      /\ cache' = [cache EXCEPT ![s] = IF t \in Held(cache[s])
                                       THEN Evict(Put(cache[s], t, payload[i])) ELSE cache[s]]
      /\ Replies(i, "advance")
      /\ UNCHANGED <<routing, clients>>
  BY DEF Commit
<1>2. /\ TidyTask(i) /\ job[i] \in Job /\ job[i].kind = "delta" /\ s \in Slots /\ t \in Tokens
      /\ payload[i] \in Contexts /\ cache[s] \in Cache
  BY <1>1 DEF Safe, Tidy, TidyTask, TypeOK, Job, Contexts
<1>3. Evict(Put(cache[s], t, payload[i])) \in Cache
  <2>1. Put(cache[s], t, payload[i]) \in Cache
    BY <1>2, PutCache
  <2> HIDE DEF s, t
  <2> QED BY <2>1, EvictPart DEF Part
<1>4. /\ pc' \in [Tasks -> {"free", "arrived", "admitted", "taken", "stored", "replied"}]
      /\ reply' \in [Tasks -> {"none", "ready", "advance", "miss", "plain"}]
      /\ UNCHANGED <<job, token, payload>>
      /\ pc'[i] = "replied" /\ reply'[i] = "advance"
      /\ \A k \in Tasks \ {i} : pc'[k] = pc[k] /\ reply'[k] = reply[k]
  BY <1>1, RepliesTypes DEF Safe
<1>5. TypeOK'
  <2>1. cache' \in [Slots -> Cache]
    BY <1>1, <1>2, <1>3 DEF Safe, TypeOK
  <2> QED BY <1>1, <1>4, <2>1 DEF Safe, TypeOK, routing, clients
<1>6. Tidy'
  <2>1. TidyTask(i)'
    BY <1>1, <1>2, <1>4 DEF TidyTask
  <2> QED BY <1>4, <2>1, OthersTidy DEF Safe
<1>7. Pending'
  BY <1>1, <1>4, HandlerPending DEF Safe, clients
<1> QED BY <1>5, <1>6, <1>7 DEF Safe

\* What an operator does to the caches concerns neither clients nor handlers.
LEMMA OperatorSafe ==
  ASSUME Safe, UNCHANGED <<clients, tasks>>, cache' \in [Slots -> Cache],
         enabled' \in [Slots -> BOOLEAN], active' \in Slots,
         moving' \in [Tokens -> Entry \union {Absent}]
  PROVE  Safe'
<1>1. TypeOK'
  BY DEF Safe, TypeOK, clients, tasks
<1>2. Tidy'
  BY DEF Safe, Tidy, TidyTask, tasks
<1>3. Pending'
  <2>1. \A c \in Clients : Awaited(c)' = Awaited(c)
    BY DEF Awaited, clients
  <2> QED BY <2>1 DEF Safe, Pending, PendingClient, clients, tasks
<1> QED BY <1>1, <1>2, <1>3 DEF Safe

\* Safe and set_enabled.  (delta.rs:42)
LEMMA ToggleSafe ==
  ASSUME Safe, NEW s \in Slots, Toggle(s)
  PROVE  Safe'
<1>1. cache' \in [Slots -> Cache] /\ enabled' \in [Slots -> BOOLEAN]
  BY EmptyPart DEF Toggle, Safe, TypeOK
<1> QED BY <1>1, OperatorSafe DEF Toggle, Safe, TypeOK

\* Safe and dump.  (delta.rs:340)
LEMMA DumpSafe ==
  ASSUME Safe, Dump
  PROVE  Safe'
<1>1. moving' \in [Tokens -> Entry \union {Absent}]
  BY DEF Dump, Safe, TypeOK, Cache
<1> QED BY <1>1, OperatorSafe DEF Dump, Safe, TypeOK

\* Safe and the switch of the active slot.
LEMMA SwitchSafe ==
  ASSUME Safe, NEW s \in Slots, Switch(s)
  PROVE  Safe'
BY OperatorSafe DEF Switch, Safe, TypeOK

\* Safe and load.  (delta.rs:368)
LEMMA LoadSafe ==
  ASSUME Safe, NEW s \in Slots, Load(s)
  PROVE  Safe'
<1>1. cache[s] \in Cache /\ moving \in [Tokens -> Entry \union {Absent}]
  BY DEF Safe, TypeOK
<1>2. cache' \in [Slots -> Cache]
  <2>1. CASE Open(s)
    <3>1. PICK n \in 0..Len(cache[s].order),
               listed \in SetToSeqs({t \in Tokens : moving[t] # Absent}) :
            cache' = [cache EXCEPT ![s] = Evict(Merge(Expire(cache[s], n), moving, listed))]
      BY <2>1 DEF Load
    <3>2. Expire(cache[s], n) \in Cache
      BY <1>1, ExpirePart DEF Part
    <3>3. Merge(Expire(cache[s], n), moving, listed) \in Cache
      BY <1>1, <3>2, MergeCache
    <3>4. Evict(Merge(Expire(cache[s], n), moving, listed)) \in Cache
      BY <3>3, EvictPart DEF Part
    <3> QED BY <3>1, <3>4 DEF Safe, TypeOK
  <2>2. CASE ~Open(s)
    BY <2>2 DEF Load, Safe, TypeOK
  <2> QED BY <2>1, <2>2
<1>3. moving' \in [Tokens -> Entry \union {Absent}]
  BY DEF Load, NoDump
<1> QED BY <1>2, <1>3, OperatorSafe DEF Load, Safe, TypeOK

\* Safe and a restart of a slot, which ends its handlers.
LEMMA RestartSafe ==
  ASSUME Safe, NEW s \in Slots, Restart(s)
  PROVE  Safe'
<1> DEFINE dead == {i \in Tasks : job[i].slot = s}
<1>1. /\ cache' = [cache EXCEPT ![s] = EmptyCache]
      /\ enabled' = [enabled EXCEPT ![s] = TRUE]
      /\ pc' = [i \in Tasks |-> IF i \in dead THEN "free" ELSE pc[i]]
      /\ job' = [i \in Tasks |-> IF i \in dead THEN NoJob ELSE job[i]]
      /\ token' = [i \in Tasks |-> IF i \in dead THEN None ELSE token[i]]
      /\ payload' = [i \in Tasks |-> IF i \in dead THEN <<>> ELSE payload[i]]
      /\ reply' = [i \in Tasks |-> IF i \in dead THEN "none" ELSE reply[i]]
      /\ awaits' = [c \in Clients |-> IF Awaited(c) \in dead THEN None ELSE awaits[c]]
      /\ refused' = [c \in Clients |-> refused[c] /\ Awaited(c) \notin dead]
      /\ UNCHANGED <<active, moving, ext>>
  BY DEF Restart, Awaited
<1> HIDE DEF dead
<1>2. TypeOK'
  <2>1. cache' \in [Slots -> Cache] /\ enabled' \in [Slots -> BOOLEAN]
    BY <1>1, EmptyPart DEF Safe, TypeOK
  <2>2. /\ pc' \in [Tasks -> {"free", "arrived", "admitted", "taken", "stored", "replied"}]
        /\ job' \in [Tasks -> Job \union {NoJob}]
        /\ token' \in [Tasks -> Tokens \union {None}]
        /\ payload' \in [Tasks -> Seq(Items)]
        /\ reply' \in [Tasks -> {"none", "ready", "advance", "miss", "plain"}]
    BY <1>1 DEF Safe, TypeOK
  <2>3. awaits' \in [Clients -> Copies \union {None}] /\ refused' \in [Clients -> BOOLEAN]
    BY <1>1 DEF Safe, TypeOK
  <2>4. strayed' \in [Clients -> BOOLEAN]
    BY DEF Restart, Safe, TypeOK
  <2> QED BY <1>1, <2>1, <2>2, <2>3, <2>4 DEF Safe, TypeOK
<1>3. Tidy'
  <2> SUFFICES ASSUME NEW i \in Tasks PROVE TidyTask(i)'
    BY DEF Tidy
  <2>1. CASE i \in dead
    <3>1. pc'[i] = "free" /\ job'[i] = NoJob /\ token'[i] = None /\ reply'[i] = "none"
      BY <1>1, <2>1
    <3> QED BY <3>1, NoJobTypes DEF TidyTask
  <2>2. CASE i \notin dead
    <3>1. /\ pc'[i] = pc[i] /\ job'[i] = job[i] /\ token'[i] = token[i]
          /\ payload'[i] = payload[i] /\ reply'[i] = reply[i]
      BY <1>1, <2>2
    <3>2. TidyTask(i)
      BY DEF Safe, Tidy
    <3> QED BY <3>1, <3>2 DEF TidyTask
  <2> QED BY <2>1, <2>2
<1>4. Pending'
  <2> SUFFICES ASSUME NEW c \in Clients PROVE PendingClient(c)'
    BY DEF Pending
  <2>1. ext'[c] = ext[c] /\ awaits'[c] = IF Awaited(c) \in dead THEN None ELSE awaits[c]
    BY <1>1
  <2>2. awaits'[c] # None =>
          /\ Awaited(c) \in Tasks \ dead /\ pc[Awaited(c)] # "free"
    BY <2>1 DEF Safe, TypeOK, Awaited, Tasks, Pending, PendingClient
  <2>3. awaits'[c] # None =>
          /\ pc'[Awaited(c)] # "free" /\ job'[Awaited(c)] = job[Awaited(c)]
          /\ token'[Awaited(c)] = token[Awaited(c)]
    BY <1>1, <2>2
  <2> QED BY <2>1, <2>3, ClientPending DEF Safe
<1> QED BY <1>2, <1>3, <1>4 DEF Safe

\* Safe is inductive.
LEMMA StepSafe == Safe /\ [Next]_vars => Safe'
<1> SUFFICES ASSUME Safe, [Next]_vars PROVE Safe'
  OBVIOUS
<1>1. ASSUME NEW c \in Clients, ClientStep(c) PROVE Safe'
  BY <1>1, SendSafe, ResendSafe, ReceiveSafe, LoseSafe, SessionStartSafe, AbandonedSafe
     DEF ClientStep
<1>2. ASSUME NEW i \in Tasks, RouterStep(i) PROVE Safe'
  BY <1>2, AdmitSafe, RegisterSafe, ReadBackSafe, TakeSafe, CommitSafe DEF RouterStep
<1>3. CASE Operator
  BY <1>3, DumpSafe, ToggleSafe, RestartSafe, SwitchSafe, LoadSafe DEF Operator
<1>4. CASE UNCHANGED vars
  BY <1>4, OperatorSafe DEF vars, routing, Safe, TypeOK
<1> QED BY <1>1, <1>2, <1>3, <1>4 DEF Next

\* Types, the places of handlers and what clients wait for, in every behaviour.
THEOREM AlwaysSafe == Spec => []Safe
BY InitSafe, StepSafe, PTL DEF Spec

\* Every state the caches, the clients and the handlers reach is of its type.
THEOREM TypeCorrect == Spec => []TypeOK
<1>1. Safe => TypeOK
  BY DEF Safe
<1> QED BY <1>1, AlwaysSafe, PTL

-------------------------------------------------------------------------------
(* Accounts *)

Settled(c) == Balanced(c) /\ WithinCaps(c)

\* Accounted by caches.
LEMMA AccountedSettled == Accounted <=> \A s \in Slots : Settled(cache[s])
BY DEF Accounted, Settled, Balanced

\* No client touches a cache, and none the locals of a handler at work.
LEMMA ClientTasks ==
  ASSUME Safe, NEW c \in Clients, ClientStep(c)
  PROVE  /\ UNCHANGED <<cache, routing>>
         /\ \A i \in Tasks : pc[i] \notin {"free", "replied"} =>
              /\ pc'[i] = pc[i] /\ job'[i] = job[i] /\ token'[i] = token[i]
              /\ payload'[i] = payload[i] /\ reply'[i] = reply[i]
<1> DEFINE Kept == \A i \in Tasks : pc[i] \notin {"free", "replied"} =>
              /\ pc'[i] = pc[i] /\ job'[i] = job[i] /\ token'[i] = token[i]
              /\ payload'[i] = payload[i] /\ reply'[i] = reply[i]
<1>1. ASSUME NEW k \in Tasks, pc[k] \in {"free", "replied"},
             NEW place, NEW j, NEW t, NEW held, Becomes(k, place, j, t, held)
      PROVE  Kept
  BY <1>1 DEF Becomes, Safe, TypeOK
<1>2. ASSUME NEW context \in Conversations, Send(c, context)
      PROVE  UNCHANGED <<cache, routing>> /\ Kept
  <2>1. PICK n \in Copies : pc[<<c, n>>] = "free" /\ \E j, t, held :
                              Becomes(<<c, n>>, "arrived", j, t, held)
    BY <1>2 DEF Send
  <2>2. <<c, n>> \in Tasks
    BY DEF Tasks
  <2> HIDE DEF Kept
  <2> QED BY <1>1, <1>2, <2>1, <2>2 DEF Send
<1>3. ASSUME Resend(c) PROVE UNCHANGED <<cache, routing>> /\ Kept
  <2>1. PICK n \in Copies : pc[<<c, n>>] = "free" /\ \E j, t, held :
                              Becomes(<<c, n>>, "arrived", j, t, held)
    BY <1>3 DEF Resend
  <2>2. <<c, n>> \in Tasks
    BY DEF Tasks
  <2> HIDE DEF Kept
  <2> QED BY <1>1, <1>3, <2>1, <2>2 DEF Resend
<1>4. ASSUME Receive(c) PROVE UNCHANGED <<cache, routing>> /\ Kept
  <2>1. Awaited(c) \in Tasks /\ pc[Awaited(c)] = "replied" /\ Done(Awaited(c))
    BY <1>4 DEF Receive, Awaited, Tasks, Safe, TypeOK
  <2> HIDE DEF Kept
  <2> QED BY <1>1, <1>4, <2>1 DEF Receive, Done
<1>5. ASSUME NEW n \in Copies, Abandoned(c, n) PROVE UNCHANGED <<cache, routing>> /\ Kept
  <2>1. <<c, n>> \in Tasks /\ pc[<<c, n>>] = "replied" /\ Done(<<c, n>>)
    BY <1>5 DEF Abandoned, Tasks
  <2> HIDE DEF Kept
  <2> QED BY <1>1, <1>5, <2>1 DEF Abandoned, Done
<1>6. ASSUME Lose(c) \/ SessionStart(c) PROVE UNCHANGED <<cache, routing>> /\ Kept
  BY <1>6 DEF Lose, SessionStart, tasks
<1> HIDE DEF Kept
<1>7. UNCHANGED <<cache, routing>> /\ Kept
  BY <1>2, <1>3, <1>4, <1>5, <1>6 DEF ClientStep
<1> QED BY <1>7 DEF Kept

\* What register_full does to the cache of its slot.
LEMMA RegisterStep ==
  ASSUME Safe, NEW i \in Tasks, Register(i)
  PROVE  LET s == job[i].slot
         IN  /\ s \in Slots /\ job[i] \in Job
             /\ \E n \in 0..Len(cache[s].order), t \in Tokens \ InUse :
                  LET e == Evict(Put(Expire(cache[s], n), t, payload[i]))
                  IN  /\ cache' = [cache EXCEPT ![s] = e]
                      /\ cache'[s] = e /\ \A r \in Slots \ {s} : cache'[r] = cache[r]
                      /\ token' = [token EXCEPT ![i] = t]
                      /\ e \in Cache
                      /\ Held(e) \subseteq Held(cache[s]) \union {t}
                      /\ t \in Held(e) => e.entry[t] = [context |-> payload[i],
                                                        hash |-> payload[i]]
                      /\ \A u \in Held(e) \ {t} :
                           u \in Held(cache[s]) /\ e.entry[u] = cache[s].entry[u]
                      /\ Balanced(cache[s]) => Balanced(e) /\ WithinCaps(e)
<1> DEFINE s == job[i].slot
<1>1. /\ job[i] \in Job /\ s \in Slots
      /\ payload[i] \in Contexts /\ cache[s] \in Cache
  BY DEF Register, Safe, Tidy, TidyTask, Job, TypeOK, Contexts
<1>2. PICK n \in 0..Len(cache[s].order), t \in Tokens \ InUse :
        /\ cache' = [cache EXCEPT ![s] = Evict(Put(Expire(cache[s], n), t, payload[i]))]
        /\ token' = [token EXCEPT ![i] = t]
  BY DEF Register
<1> DEFINE e == Evict(Put(Expire(cache[s], n), t, payload[i]))
<1>3. /\ e \in Cache
      /\ Held(e) \subseteq Held(cache[s]) \union {t}
      /\ t \in Held(e) => e.entry[t] = [context |-> payload[i], hash |-> payload[i]]
      /\ \A u \in Held(e) \ {t} : u \in Held(cache[s]) /\ e.entry[u] = cache[s].entry[u]
      /\ Balanced(cache[s]) => Balanced(e) /\ WithinCaps(e)
  BY <1>1, ExpirePart, StorePart
<1> HIDE DEF e
<1>4. cache'[s] = e /\ \A r \in Slots \ {s} : cache'[r] = cache[r]
  BY <1>1, <1>2 DEF Safe, TypeOK, e
<1> HIDE DEF s
<1> QED BY <1>1, <1>2, <1>3, <1>4 DEF e, s

\* What the first lock section of apply_delta does to it.
LEMMA TakeStep ==
  ASSUME Safe, NEW i \in Tasks, Take(i)
  PROVE  LET s == job[i].slot
         IN  /\ s \in Slots /\ job[i] \in Job
             /\ \E n \in 0..Len(cache[s].order) :
                  LET live == Expire(cache[s], n)
                      e == Emptied(live, token[i])
                  IN  /\ Part(live, cache[s])
                      /\ IF Hit(live, i)
                         THEN /\ cache' = [cache EXCEPT ![s] = e]
                              /\ pc' = [pc EXCEPT ![i] = "taken"]
                              /\ payload' = [payload EXCEPT ![i] =
                                   live.entry[token[i]].context \o job[i].append]
                              /\ strayed' = [c \in Clients |->
                                   strayed[c] \/ (i = <<c, awaits[c]>> /\ ItemsOut(i))]
                              /\ UNCHANGED <<job, token, reply>>
                              /\ e \in Cache /\ Held(e) = Held(live)
                              /\ \A u \in Tokens \ {token[i]} : e.entry[u] = live.entry[u]
                              /\ Balanced(live) => Balanced(e)
                              /\ WithinCaps(live) => WithinCaps(e)
                         ELSE /\ cache' = [cache EXCEPT ![s] = live] /\ Replies(i, "miss")
                              /\ UNCHANGED strayed
<1> DEFINE s == job[i].slot
<1>1. /\ job[i] \in Job /\ s \in Slots /\ cache[s] \in Cache
  BY DEF Take, Safe, Tidy, TidyTask, Job, TypeOK
<1>2. PICK n \in 0..Len(cache[s].order) :
        LET live == Expire(cache[s], n)
        IN  IF Hit(live, i)
            THEN /\ cache' = [cache EXCEPT ![s] = Emptied(live, token[i])]
                 /\ pc' = [pc EXCEPT ![i] = "taken"]
                 /\ payload' = [payload EXCEPT ![i] =
                                  live.entry[token[i]].context \o job[i].append]
                 /\ strayed' = [c \in Clients |->
                                  strayed[c] \/ (i = <<c, awaits[c]>> /\ ItemsOut(i))]
                 /\ UNCHANGED <<job, token, reply>>
            ELSE /\ cache' = [cache EXCEPT ![s] = live]
                 /\ Replies(i, "miss") /\ UNCHANGED strayed
  BY DEF Take
<1> DEFINE live == Expire(cache[s], n)
           e == Emptied(live, token[i])
<1>3. Part(live, cache[s])
  BY <1>1, ExpirePart
<1> HIDE DEF live
<1>4. ASSUME Hit(live, i)
      PROVE  /\ e \in Cache /\ Held(e) = Held(live)
             /\ \A u \in Tokens \ {token[i]} : e.entry[u] = live.entry[u]
             /\ Balanced(live) => Balanced(e)
             /\ WithinCaps(live) => WithinCaps(e)
  <2>1. live \in Cache /\ token[i] \in Held(live)
    BY <1>3, <1>4 DEF Part, Hit
  <2>2. /\ e \in Cache /\ Held(e) = Held(live)
        /\ \A u \in Tokens \ {token[i]} : e.entry[u] = live.entry[u]
        /\ e.order = live.order /\ e.total = live.total
        /\ Balanced(live) => Balanced(e)
    BY <2>1, EmptiedCache
  <2> QED BY <2>2 DEF WithinCaps
<1> HIDE DEF e, s
<1> QED BY <1>1, <1>2, <1>3, <1>4 DEF e, live, s

\* What the second one does to it.
LEMMA CommitStep ==
  ASSUME Safe, NEW i \in Tasks, Commit(i)
  PROVE  LET s == job[i].slot
             t == token[i]
             c == cache[s]
             e == cache'[s]
         IN  /\ s \in Slots /\ t \in Tokens
             /\ cache' = [cache EXCEPT ![s] = e]
             /\ Held(e) \subseteq Held(c)
             /\ t \in Held(e) => e.entry[t] = [context |-> payload[i], hash |-> payload[i]]
             /\ \A u \in Held(e) \ {t} : e.entry[u] = c.entry[u]
             /\ Settled(c) => Settled(e)
<1> DEFINE s == job[i].slot
           t == token[i]
           c == cache[s]
           p == Put(c, t, payload[i])
           e == Evict(p)
<1>1. /\ pc[i] = "taken"
      /\ cache' = [cache EXCEPT ![s] = IF t \in Held(c) THEN e ELSE c]
  BY DEF Commit
<1>2. s \in Slots /\ t \in Tokens /\ payload[i] \in Contexts /\ c \in Cache
  BY <1>1 DEF Safe, Tidy, TidyTask, TypeOK, Job, Contexts
<1>3. cache'[s] = (IF t \in Held(c) THEN e ELSE c) /\ cache' = [cache EXCEPT ![s] = cache'[s]]
  BY <1>1, <1>2 DEF Safe, TypeOK
<1>4. CASE t \notin Held(c)
  BY <1>2, <1>3, <1>4
<1>5. CASE t \in Held(c)
  <2>1. /\ p \in Cache /\ Held(p) = Held(c) \union {t}
        /\ p.entry[t] = [context |-> payload[i], hash |-> payload[i]]
        /\ \A u \in Tokens \ {t} : p.entry[u] = c.entry[u]
        /\ Balanced(c) => Balanced(p)
    BY <1>2, PutCache
  <2> HIDE DEF p
  <2>2. Part(e, p) /\ (Balanced(p) => WithinCaps(e))
    BY <2>1, EvictPart
  <2>3. Held(e) \subseteq Tokens
    BY DEF Held
  <2> HIDE DEF e
  <2> QED BY <1>2, <1>3, <1>5, <2>1, <2>2, <2>3 DEF Part, Settled
<1> QED BY <1>4, <1>5

\* What load does to it.
LEMMA LoadStep ==
  ASSUME Safe, NEW s \in Slots, Load(s)
  PROVE  LET c == cache[s]
             e == cache'[s]
         IN  /\ cache' = [cache EXCEPT ![s] = e] /\ UNCHANGED <<clients, tasks>>
             /\ \A t \in Held(e) : \/ t \in Held(c) /\ e.entry[t] = c.entry[t]
                                   \/ Sound(moving[t]) /\ e.entry[t] = moving[t]
             /\ Settled(c) => Settled(e)
<1>1. cache[s] \in Cache /\ moving \in [Tokens -> Entry \union {Absent}]
  BY DEF Safe, TypeOK
<1>2. CASE ~Open(s)
  <2>1. UNCHANGED <<cache, clients, tasks>>
    BY <1>2 DEF Load
  <2> QED BY <2>1 DEF Safe, TypeOK
<1>3. CASE Open(s)
  <2>1. PICK n \in 0..Len(cache[s].order),
             listed \in SetToSeqs({t \in Tokens : moving[t] # Absent}) :
          cache' = [cache EXCEPT ![s] = Evict(Merge(Expire(cache[s], n), moving, listed))]
    BY <1>3 DEF Load
  <2> DEFINE d == Expire(cache[s], n)
             m == Merge(d, moving, listed)
             e == Evict(m)
  <2>2. Part(d, cache[s])
    BY <1>1, ExpirePart
  <2>3. d \in Cache
    BY <2>2 DEF Part
  <2> HIDE DEF d
  <2>4. /\ m \in Cache
        /\ \A t \in Tokens : m.entry[t] = IF Sound(moving[t]) THEN moving[t] ELSE d.entry[t]
        /\ Balanced(d) => Balanced(m)
    BY <1>1, <2>3, MergeCache
  <2> HIDE DEF m
  <2>5. Part(e, m) /\ (Balanced(m) => WithinCaps(e))
    BY <2>4, EvictPart
  <2>6. cache'[s] = e /\ cache' = [cache EXCEPT ![s] = cache'[s]]
    BY <2>1 DEF Safe, TypeOK, e, m, d
  <2>7. \A t \in Held(e) : t \in Held(m) /\ e.entry[t] = m.entry[t] /\ t \in Tokens
    BY <2>5 DEF Part, Held
  <2> HIDE DEF e
  <2>8. \A t \in Held(e) : \/ t \in Held(cache[s]) /\ e.entry[t] = cache[s].entry[t]
                           \/ Sound(moving[t]) /\ e.entry[t] = moving[t]
    <3> TAKE t \in Held(e)
    <3>1. CASE Sound(moving[t])
      BY <2>4, <2>7, <3>1
    <3>2. CASE ~Sound(moving[t])
      <4>1. m.entry[t] = d.entry[t] /\ t \in Held(d)
        BY <2>4, <2>7, <3>2 DEF Held
      <4> QED BY <2>2, <2>7, <4>1 DEF Part
    <3> QED BY <3>1, <3>2
  <2>9. Settled(cache[s]) => Settled(e)
    BY <2>2, <2>4, <2>5 DEF Part, Settled
  <2> QED BY <2>6, <2>8, <2>9 DEF Load
<1> QED BY <1>2, <1>3

\* Every step keeps the accounts.
LEMMA StepAccounted ==
  ASSUME Safe, Accounted, [Next]_vars
  PROVE  Accounted'
<1>1. \A s \in Slots : Settled(cache[s])
  BY AccountedSettled
<1> SUFFICES \A s \in Slots : Settled(cache'[s])
  BY DEF Accounted, Settled, Balanced
<1>2. Safe => cache \in [Slots -> Cache]
  BY DEF Safe, TypeOK
<1>3. ASSUME UNCHANGED cache PROVE \A s \in Slots : Settled(cache'[s])
  BY <1>1, <1>3
<1>4. ASSUME NEW r \in Slots, NEW e, Settled(e), cache' = [cache EXCEPT ![r] = e]
      PROVE  \A s \in Slots : Settled(cache'[s])
  BY <1>1, <1>2, <1>4
<1>5. ASSUME NEW c \in Clients, ClientStep(c) PROVE UNCHANGED cache
  BY <1>5, ClientTasks
<1>6. ASSUME NEW i \in Tasks, RouterStep(i) PROVE \A s \in Slots : Settled(cache'[s])
  <2>1. CASE Admit(i) \/ ReadBack(i)
    BY <1>3, <2>1 DEF Admit, ReadBack
  <2>2. CASE Register(i)
    <3>1. PICK e : /\ job[i].slot \in Slots /\ cache' = [cache EXCEPT ![job[i].slot] = e]
                   /\ Balanced(cache[job[i].slot]) => Balanced(e) /\ WithinCaps(e)
      BY <2>2, RegisterStep
    <3> QED BY <1>1, <1>4, <3>1 DEF Settled
  <2>3. CASE Take(i)
    <3>1. PICK e : /\ job[i].slot \in Slots /\ cache' = [cache EXCEPT ![job[i].slot] = e]
                   /\ Settled(cache[job[i].slot]) => Settled(e)
      BY <2>3, TakeStep DEF Part, Settled
    <3> QED BY <1>1, <1>4, <3>1
  <2>4. CASE Commit(i)
    <3>1. PICK e : /\ job[i].slot \in Slots /\ cache' = [cache EXCEPT ![job[i].slot] = e]
                   /\ Settled(cache[job[i].slot]) => Settled(e)
      BY <2>4, CommitStep
    <3> QED BY <1>1, <1>4, <3>1
  <2> QED BY <1>6, <2>1, <2>2, <2>3, <2>4 DEF RouterStep
<1>7. CASE Operator
  <2>1. CASE Dump \/ \E s \in Slots : Switch(s)
    BY <1>3, <2>1 DEF Dump, Switch
  <2>2. ASSUME NEW s \in Slots, Toggle(s) PROVE \A r \in Slots : Settled(cache'[r])
    <3>1. PICK e \in {EmptyCache, cache[s]} : cache' = [cache EXCEPT ![s] = e]
      BY <2>2 DEF Toggle
    <3>2. Settled(e)
      BY <1>1, <3>1, EmptyPart DEF Settled
    <3> QED BY <1>4, <3>1, <3>2
  <2>3. ASSUME NEW s \in Slots, Restart(s) PROVE \A r \in Slots : Settled(cache'[r])
    BY <1>4, <2>3, EmptyPart DEF Restart, Settled
  <2>4. ASSUME NEW s \in Slots, Load(s) PROVE \A r \in Slots : Settled(cache'[r])
    <3>1. PICK e : /\ cache' = [cache EXCEPT ![s] = e]
                   /\ Settled(cache[s]) => Settled(e)
      BY <2>4, LoadStep
    <3> QED BY <1>1, <1>4, <3>1
  <2> QED BY <1>7, <2>1, <2>2, <2>3, <2>4 DEF Operator
<1>8. CASE UNCHANGED vars
  BY <1>3, <1>8 DEF vars
<1> QED BY <1>3, <1>5, <1>6, <1>7, <1>8 DEF Next

\* After every lock section the running byte total of a cache is the sum over the
\* sessions it holds, its recency list names exactly these sessions, and both
\* caps hold: no step of expiry, replacement, eviction or merge loses count.
THEOREM AccountsKept == Spec => []Accounted
<1>1. Init => Accounted
  <2> SUFFICES ASSUME Init PROVE Accounted
    OBVIOUS
  <2>1. \A s \in Slots : Settled(cache[s])
    BY EmptyPart DEF Init, Settled
  <2> QED BY <2>1, AccountedSettled
<1>2. Safe /\ Accounted /\ [Next]_vars => Accounted'
  BY StepAccounted
<1> QED BY <1>1, <1>2, AlwaysSafe, PTL DEF Spec

-------------------------------------------------------------------------------
(* Hashes *)

\* A handler that holds what it took out of the entry of t.
Taker(i, s, t) == pc[i] = "taken" /\ job[i].slot = s /\ token[i] = t

Matches(e) == e.context = e.hash

\* EntriesMatchHash by takers.
LEMMA MatchedTaken ==
  EntriesMatchHash <=>
    \A s \in Slots : \A t \in Held(cache[s]) :
      Matches(cache[s].entry[t]) \/ \E i \in Tasks : Taker(i, s, t)
BY DEF EntriesMatchHash, Taker, Matches

\* The handlers that hold taken items keep them in every step but their own.
LEMMA TakersStay ==
  ASSUME Safe, NEW i \in Tasks, RouterStep(i)
  PROVE  \A k \in Tasks : \A s, t : Taker(k, s, t) /\ k # i => Taker(k, s, t)'
<1>1. pc' = [pc EXCEPT ![i] = pc'[i]] /\ job' = job
  BY DEF RouterStep, Admit, Register, ReadBack, Take, Commit, Replies, Safe, TypeOK
<1>2. token' = [token EXCEPT ![i] = token'[i]]
  BY DEF RouterStep, Admit, Register, ReadBack, Take, Commit, Replies, Safe, TypeOK
<1> QED BY <1>1, <1>2 DEF Taker, Safe, TypeOK

\* Every step keeps the entries matched or taken.
LEMMA StepMatched ==
  ASSUME Safe, EntriesMatchHash, [Next]_vars
  PROVE  EntriesMatchHash'
<1> DEFINE Known(s, t) == Matches(cache[s].entry[t]) \/ \E i \in Tasks : Taker(i, s, t)
<1>1. \A s \in Slots : \A t \in Held(cache[s]) : Known(s, t)
  BY MatchedTaken
<1> SUFFICES ASSUME NEW s \in Slots, NEW t \in Held(cache'[s])
             PROVE  Known(s, t)'
  BY DEF EntriesMatchHash, Taker, Matches
<1>2. t \in Tokens
  BY DEF Held
<1> HIDE DEF Known
<1>3. ASSUME t \in Held(cache[s]), Known(s, t), cache'[s].entry[t] = cache[s].entry[t],
             \A k \in Tasks : Taker(k, s, t) => Taker(k, s, t)'
      PROVE  Known(s, t)'
  BY <1>3 DEF Known
<1>4. ASSUME NEW c \in Clients, ClientStep(c) PROVE Known(s, t)'
  <2>1. \A k \in Tasks : Taker(k, s, t) => Taker(k, s, t)'
    BY <1>4, ClientTasks DEF Taker
  <2> QED BY <1>1, <1>3, <1>4, <2>1, ClientTasks
<1>5. ASSUME NEW i \in Tasks, RouterStep(i) PROVE Known(s, t)'
  <2>1. pc[i] # "taken" => \A k \in Tasks : Taker(k, s, t) => Taker(k, s, t)'
    BY <1>5, TakersStay DEF Taker
  <2>2. CASE Admit(i) \/ ReadBack(i)
    BY <1>1, <1>3, <2>1, <2>2 DEF Admit, ReadBack
  <2>3. CASE Register(i)
    <3>1. PICK u, e :
            /\ u \in Tokens
            /\ job[i].slot \in Slots
            /\ cache'[job[i].slot] = e /\ \A r \in Slots \ {job[i].slot} : cache'[r] = cache[r]
            /\ u \in Held(e) => e.entry[u] = [context |-> payload[i], hash |-> payload[i]]
            /\ \A v \in Held(e) \ {u} : v \in Held(cache[job[i].slot])
                                          /\ e.entry[v] = cache[job[i].slot].entry[v]
      BY <2>3, RegisterStep
    <3>2. pc[i] # "taken"
      BY <2>3 DEF Register
    <3>3. CASE s = job[i].slot /\ t = u
      BY <3>1, <3>3 DEF Known, Matches
    <3>4. CASE s # job[i].slot \/ t # u
      BY <1>1, <1>3, <2>1, <3>1, <3>2, <3>4
    <3> QED BY <3>3, <3>4
  <2>4. CASE Take(i)
    <3>1. PICK n \in 0..Len(cache[job[i].slot].order) :
                  LET live == Expire(cache[job[i].slot], n)
                      e == Emptied(live, token[i])
                  IN  /\ Part(live, cache[job[i].slot])
                      /\ IF Hit(live, i)
                         THEN /\ cache' = [cache EXCEPT ![job[i].slot] = e]
                              /\ pc' = [pc EXCEPT ![i] = "taken"]
                              /\ UNCHANGED <<job, token>>
                              /\ e \in Cache /\ Held(e) = Held(live)
                              /\ \A u \in Tokens \ {token[i]} : e.entry[u] = live.entry[u]
                         ELSE cache' = [cache EXCEPT ![job[i].slot] = live]
      BY <2>4, TakeStep
    <3>2. pc[i] # "taken"
      BY <2>4 DEF Take
    <3>3. job[i].slot \in Slots
      BY <2>4, TakeStep
    <3> DEFINE live == Expire(cache[job[i].slot], n)
    <3>4. Part(live, cache[job[i].slot])
      BY <3>1
    <3> HIDE DEF live
    <3>5. CASE s # job[i].slot
      <4>1. cache'[s] = cache[s]
        BY <3>1, <3>5 DEF live, Safe, TypeOK
      <4> QED BY <1>1, <1>3, <2>1, <3>2, <4>1
    <3>6. CASE s = job[i].slot /\ ~Hit(live, i)
      <4>1. cache'[s] = live
        BY <3>1, <3>6 DEF live, Safe, TypeOK
      <4> QED BY <1>1, <1>3, <2>1, <3>2, <3>4, <3>6, <4>1 DEF Part
    <3>7. CASE s = job[i].slot /\ Hit(live, i)
      <4> DEFINE e == Emptied(live, token[i])
      <4>1. /\ cache'[s] = e /\ Held(e) = Held(live)
            /\ \A u \in Tokens \ {token[i]} : e.entry[u] = live.entry[u]
            /\ pc'[i] = "taken" /\ UNCHANGED <<job, token>>
        BY <3>1, <3>7 DEF live, Safe, TypeOK
      <4> HIDE DEF e
      <4>2. CASE t = token[i]
        <5>1. Taker(i, s, t)'
          BY <3>7, <4>1, <4>2 DEF Taker
        <5> QED BY <5>1 DEF Known
      <4>3. CASE t # token[i]
        BY <1>1, <1>2, <1>3, <2>1, <3>2, <3>4, <3>7, <4>1, <4>3 DEF Part
      <4> QED BY <4>2, <4>3
    <3> QED BY <3>5, <3>6, <3>7
  <2>5. CASE Commit(i)
    <3> DEFINE r == job[i].slot
    <3>1. /\ r \in Slots
          /\ cache' = [cache EXCEPT ![r] = cache'[r]]
          /\ Held(cache'[r]) \subseteq Held(cache[r])
          /\ token[i] \in Held(cache'[r]) =>
               cache'[r].entry[token[i]] = [context |-> payload[i], hash |-> payload[i]]
          /\ \A u \in Held(cache'[r]) \ {token[i]} : cache'[r].entry[u] = cache[r].entry[u]
      BY <2>5, CommitStep
    <3>2. CASE s = r /\ t = token[i]
      BY <3>1, <3>2 DEF Known, Matches
    <3>3. CASE s # r \/ t # token[i]
      <4>1. ~Taker(i, s, t)
        BY <3>3 DEF Taker
      <4>2. \A k \in Tasks : Taker(k, s, t) => Taker(k, s, t)'
        BY <1>5, <4>1, TakersStay
      <4>3. s # r => cache'[s] = cache[s]
        BY <3>1 DEF Safe, TypeOK
      <4> HIDE DEF r
      <4> QED BY <1>1, <1>3, <3>1, <3>3, <4>2, <4>3
    <3> QED BY <3>2, <3>3
  <2> QED BY <1>5, <2>2, <2>3, <2>4, <2>5 DEF RouterStep
<1>6. CASE Operator
  <2>1. ASSUME UNCHANGED tasks PROVE \A k \in Tasks : Taker(k, s, t) => Taker(k, s, t)'
    BY <2>1 DEF Taker, tasks
  <2>2. CASE Dump \/ \E r \in Slots : Switch(r)
    BY <1>1, <1>3, <2>1, <2>2 DEF Dump, Switch
  <2>3. ASSUME NEW r \in Slots, Toggle(r) PROVE Known(s, t)'
    <3>1. cache'[s] \in {EmptyCache, cache[s]} /\ UNCHANGED tasks
      BY <2>3 DEF Toggle, Safe, TypeOK
    <3> QED BY <1>1, <1>3, <2>1, <3>1, EmptyPart
  <2>4. ASSUME NEW r \in Slots, Restart(r) PROVE Known(s, t)'
    <3>1. cache'[s] = IF s = r THEN EmptyCache ELSE cache[s]
      BY <2>4 DEF Restart, Safe, TypeOK
    <3>2. s # r
      BY <3>1, EmptyPart
    <3>3. \A k \in Tasks : Taker(k, s, t) => Taker(k, s, t)'
      BY <2>4, <3>2 DEF Restart, Taker
    <3> QED BY <1>1, <1>3, <3>1, <3>2, <3>3
  <2>5. ASSUME NEW r \in Slots, Load(r) PROVE Known(s, t)'
    <3>1. /\ cache' = [cache EXCEPT ![r] = cache'[r]] /\ UNCHANGED tasks
          /\ \A u \in Held(cache'[r]) :
               \/ u \in Held(cache[r]) /\ cache'[r].entry[u] = cache[r].entry[u]
               \/ Sound(moving[u]) /\ cache'[r].entry[u] = moving[u]
      BY <2>5, LoadStep
    <3>2. CASE s = r /\ Sound(moving[t]) /\ cache'[r].entry[t] = moving[t]
      BY <3>2 DEF Known, Matches, Sound
    <3>3. CASE s = r /\ t \in Held(cache[r]) /\ cache'[r].entry[t] = cache[r].entry[t]
      BY <1>1, <1>3, <2>1, <3>1, <3>3
    <3>4. CASE s # r
      <4>1. cache'[s] = cache[s]
        BY <3>1, <3>4 DEF Safe, TypeOK
      <4> QED BY <1>1, <1>3, <2>1, <3>1, <4>1
    <3> QED BY <3>1, <3>2, <3>3, <3>4
  <2> QED BY <1>6, <2>2, <2>3, <2>4, <2>5 DEF Operator
<1>7. CASE UNCHANGED vars
  <2>1. \A k \in Tasks : Taker(k, s, t) => Taker(k, s, t)'
    BY <1>7 DEF vars, tasks, Taker
  <2> QED BY <1>1, <1>3, <1>7, <2>1 DEF vars
<1> QED BY <1>4, <1>5, <1>6, <1>7 DEF Next

\* A session whose items differ from its hash is one whose items a handler on the
\* same slot has taken and will put back: eviction, expiry, a dump and its load,
\* a restart or a second copy of a request never leave such a session behind.
THEOREM HashesMatch == Spec => []EntriesMatchHash
<1>1. Init => EntriesMatchHash
  BY EmptyPart DEF Init, EntriesMatchHash
<1>2. Safe /\ EntriesMatchHash /\ [Next]_vars => EntriesMatchHash'
  BY StepMatched
<1> QED BY <1>1, <1>2, AlwaysSafe, PTL DEF Spec

-------------------------------------------------------------------------------
(* Refusals *)

\* A client that was refused sends, or has sent, everything.
ResentClient(c) ==
  refused[c] => IF awaits[c] = None THEN ext[c].mode = "full" \/ ext[c].pending
                                    ELSE job[Awaited(c)].kind = "full"

Resent == \A c \in Clients : ResentClient(c)

\* A client whose state and awaited handler stay as they are.
LEMMA ResentKept ==
  ASSUME Resent, NEW c \in Clients, ext'[c] = ext[c], awaits'[c] = awaits[c],
         refused'[c] => refused[c], awaits[c] # None => job'[Awaited(c)] = job[Awaited(c)]
  PROVE  ResentClient(c)'
<1>1. ResentClient(c) /\ Awaited(c)' = Awaited(c)
  BY DEF Resent, Awaited
<1> QED BY <1>1 DEF ResentClient

\* Every step keeps that a refused client resends.
LEMMA StepResent ==
  ASSUME Safe, Resent, [Next]_vars
  PROVE  Resent'
<1> SUFFICES ASSUME NEW d \in Clients PROVE ResentClient(d)'
  BY DEF Resent
<1>1. /\ awaits[d] # None => Awaited(d) \in Tasks /\ pc[Awaited(d)] # "free"
      /\ ResentClient(d)
  BY DEF Safe, TypeOK, Awaited, Tasks, Pending, PendingClient, Resent
<1>2. ASSUME NEW c \in Clients, ClientStep(c) PROVE ResentClient(d)'
  <2>1. ASSUME NEW context \in Conversations, Send(c, context) PROVE ResentClient(d)'
    <3>1. PICK n, j, t, held :
            /\ n \in Copies
            /\ pc[<<c, n>>] = "free" /\ Becomes(<<c, n>>, "arrived", j, t, held)
            /\ awaits[c] = None /\ awaits' = [awaits EXCEPT ![c] = n]
            /\ j.kind = IF Eligible(Checked(c), context) THEN "delta" ELSE "full"
      <4> DEFINE e == Checked(c)
                 tail == SubSeq(context, Len(e.last) + 1, Len(context))
                 sent == IF Eligible(e, context)
                         THEN [kind |-> "delta", slot |-> active, base |-> e.base,
                               append |-> tail, meant |-> context]
                         ELSE [kind |-> "full", slot |-> active, base |-> <<>>,
                               append |-> <<>>, meant |-> context]
      <4>1. sent.kind = IF Eligible(e, context) THEN "delta" ELSE "full"
        OBVIOUS
      <4>2. \E n \in Copies : \E t, held :
              /\ pc[<<c, n>>] = "free" /\ Becomes(<<c, n>>, "arrived", sent, t, held)
              /\ awaits[c] = None /\ awaits' = [awaits EXCEPT ![c] = n]
        BY <2>1 DEF Send
      <4> HIDE DEF sent, e
      <4> QED BY <4>1, <4>2 DEF e
    <3>2. job' = [job EXCEPT ![<<c, n>>] = j] /\ <<c, n>> \in Tasks
      BY <3>1 DEF Becomes, Tasks
    <3>3. CASE d = c
      <4>1. refused[c] => ~Eligible(Checked(c), context)
        BY <1>1, <3>1, <3>3 DEF ResentClient, Checked, Eligible, Reset
      <4>2. awaits'[c] = n /\ awaits'[c] # None /\ job'[<<c, n>>] = j /\ refused' = refused
        BY <2>1, <3>1, <3>2, LinkAssumption DEF Send, Safe, TypeOK
      <4> QED BY <3>1, <3>3, <4>1, <4>2 DEF ResentClient, Awaited
    <3>4. CASE d # c
      <4>1. ext'[d] = ext[d] /\ awaits'[d] = awaits[d] /\ refused'[d] = refused[d]
        BY <2>1, <3>1, <3>4 DEF Send, Safe, TypeOK
      <4>2. Awaited(d) # <<c, n>>
        BY <3>4 DEF Awaited
      <4>3. awaits[d] # None => job'[Awaited(d)] = job[Awaited(d)]
        BY <1>1, <3>2, <4>2 DEF Safe, TypeOK
      <4> QED BY <4>1, <4>3, ResentKept
    <3> QED BY <3>3, <3>4
  <2>2. ASSUME Resend(c) PROVE ResentClient(d)'
    <3>1. PICK n, j, t, held :
            /\ n \in Copies
            /\ pc[<<c, n>>] = "free" /\ Becomes(<<c, n>>, "arrived", j, t, held)
            /\ awaits' = [awaits EXCEPT ![c] = n]
            /\ j = [job[Awaited(c)] EXCEPT !.slot = active]
      BY <2>2 DEF Resend, Awaited
    <3>2. job' = [job EXCEPT ![<<c, n>>] = j] /\ <<c, n>> \in Tasks
      BY <3>1 DEF Becomes, Tasks
    <3>3. CASE d = c
      <4>1. awaits[c] # None /\ job[Awaited(c)] \in Job
        BY <1>1, <2>2, <3>3 DEF Resend, Safe, Tidy, TidyTask
      <4>2. j.kind = job[Awaited(c)].kind
        BY <3>1, <4>1 DEF Job
      <4>3. awaits'[c] = n /\ awaits'[c] # None /\ job'[<<c, n>>] = j /\ refused' = refused
        BY <2>2, <3>1, <3>2, LinkAssumption DEF Resend, Safe, TypeOK
      <4> QED BY <1>1, <3>3, <4>1, <4>2, <4>3 DEF ResentClient, Awaited
    <3>4. CASE d # c
      <4>1. ext'[d] = ext[d] /\ awaits'[d] = awaits[d] /\ refused'[d] = refused[d]
        BY <2>2, <3>1, <3>4 DEF Resend, Safe, TypeOK
      <4>2. Awaited(d) # <<c, n>>
        BY <3>4 DEF Awaited
      <4>3. awaits[d] # None => job'[Awaited(d)] = job[Awaited(d)]
        BY <1>1, <3>2, <4>2 DEF Safe, TypeOK
      <4> QED BY <4>1, <4>3, ResentKept
    <3> QED BY <3>3, <3>4
  <2>3. ASSUME Receive(c) PROVE ResentClient(d)'
    <3>1. /\ ext' = [ext EXCEPT ![c] = Heard(@, Awaited(c))]
          /\ awaits' = [awaits EXCEPT ![c] = None]
          /\ refused' = [refused EXCEPT ![c] = reply[Awaited(c)] = "miss"]
          /\ job' = [job EXCEPT ![Awaited(c)] = NoJob]
      BY <2>3 DEF Receive, Awaited, Done, Becomes
    <3>2. CASE d = c
      <4>1. refused'[c] => ext'[c] = Reset /\ awaits'[c] = None
        BY <3>1 DEF Safe, TypeOK, Heard
      <4> QED BY <3>2, <4>1 DEF ResentClient, Reset
    <3>3. CASE d # c
      <4>1. ext'[d] = ext[d] /\ awaits'[d] = awaits[d] /\ refused'[d] = refused[d]
        BY <3>1, <3>3 DEF Safe, TypeOK
      <4>2. Awaited(d) # Awaited(c)
        BY <3>3 DEF Awaited
      <4>3. awaits[d] # None => job'[Awaited(d)] = job[Awaited(d)]
        BY <1>1, <3>1, <4>2 DEF Safe, TypeOK
      <4> QED BY <4>1, <4>3, ResentKept
    <3> QED BY <3>2, <3>3
  <2>4. ASSUME Lose(c) PROVE ResentClient(d)'
    <3>1. /\ awaits[c] # None /\ awaits' = [awaits EXCEPT ![c] = None]
          /\ refused' = [refused EXCEPT ![c] = reply[Awaited(c)] = "miss"]
          /\ UNCHANGED <<ext, job>>
      BY <2>4 DEF Lose, Awaited, tasks
    <3>2. CASE d = c
      <4>1. reply[Awaited(c)] = "miss" => ext[c].mode = "delta" /\ ext[c].pending
        <5>1. TidyTask(Awaited(c)) /\ PendingClient(c) /\ pc[Awaited(c)] # "free"
          BY <1>1, <3>1, <3>2 DEF Safe, Tidy, Pending
        <5> QED BY <3>1, <5>1 DEF TidyTask, PendingClient, Job
      <4> QED BY <3>1, <3>2, <4>1 DEF ResentClient, Safe, TypeOK
    <3>3. CASE d # c
      <4>1. awaits'[d] = awaits[d] /\ refused'[d] = refused[d]
        BY <3>1, <3>3 DEF Safe, TypeOK
      <4> QED BY <3>1, <4>1, ResentKept
    <3> QED BY <3>2, <3>3
  <2>5. ASSUME SessionStart(c) PROVE ResentClient(d)'
    <3>1. /\ awaits[c] = None /\ ext' = [ext EXCEPT ![c] = Reset]
          /\ UNCHANGED <<awaits, refused, job>>
      BY <2>5 DEF SessionStart, tasks
    <3>2. CASE d = c
      BY <3>1, <3>2 DEF ResentClient, Reset, Safe, TypeOK
    <3>3. CASE d # c
      <4>1. ext'[d] = ext[d]
        BY <3>1, <3>3 DEF Safe, TypeOK
      <4> QED BY <3>1, <4>1, ResentKept
    <3> QED BY <3>2, <3>3
  <2>6. ASSUME NEW n \in Copies, Abandoned(c, n) PROVE ResentClient(d)'
    <3>1. /\ awaits[c] # n /\ job' = [job EXCEPT ![<<c, n>>] = NoJob]
          /\ UNCHANGED <<ext, awaits, refused>>
      BY <2>6 DEF Abandoned, Done, Becomes, clients
    <3>2. Awaited(d) # <<c, n>>
      BY <3>1 DEF Awaited
    <3>3. awaits[d] # None => job'[Awaited(d)] = job[Awaited(d)]
      BY <1>1, <3>1, <3>2 DEF Safe, TypeOK
    <3> QED BY <3>1, <3>3, ResentKept
  <2> QED BY <1>2, <2>1, <2>2, <2>3, <2>4, <2>5, <2>6 DEF ClientStep
<1>3. ASSUME NEW i \in Tasks, RouterStep(i) PROVE ResentClient(d)'
  <2>1. UNCHANGED <<ext, awaits, refused, job>>
    BY <1>3 DEF RouterStep, Admit, Register, ReadBack, Take, Commit, Replies, clients
  <2> QED BY <2>1, ResentKept
<1>4. CASE Operator
  <2>1. ASSUME NEW s \in Slots, Restart(s) PROVE ResentClient(d)'
    <3> DEFINE dead == {i \in Tasks : job[i].slot = s}
    <3>1. /\ job' = [i \in Tasks |-> IF i \in dead THEN NoJob ELSE job[i]]
          /\ awaits' = [c \in Clients |-> IF Awaited(c) \in dead THEN None ELSE awaits[c]]
          /\ refused' = [c \in Clients |-> refused[c] /\ Awaited(c) \notin dead]
          /\ UNCHANGED ext
      BY <2>1 DEF Restart, Awaited
    <3> HIDE DEF dead
    <3>2. CASE Awaited(d) \in dead
      BY <3>1, <3>2 DEF ResentClient
    <3>3. CASE Awaited(d) \notin dead
      <4>1. awaits'[d] = awaits[d] /\ (refused'[d] => refused[d])
        BY <3>1, <3>3
      <4>2. awaits[d] # None => job'[Awaited(d)] = job[Awaited(d)]
        BY <1>1, <3>1, <3>3
      <4> QED BY <3>1, <4>1, <4>2, ResentKept
    <3> QED BY <3>2, <3>3
  <2>2. ASSUME UNCHANGED <<clients, tasks>> PROVE ResentClient(d)'
    BY <2>2, ResentKept DEF clients, tasks
  <2> QED BY <1>4, <2>1, <2>2 DEF Operator, Dump, Toggle, Switch, Load
<1>5. CASE UNCHANGED vars
  BY <1>5, ResentKept DEF vars, clients, tasks
<1> QED BY <1>2, <1>3, <1>4, <1>5 DEF Next

\* A client is never refused twice in a row, whether it hears of a refusal or
\* the refusal gets lost: after a miss its next request carries everything, and
\* a request that carries everything is not refused.
THEOREM RefusedOnceOnly == Spec => RefusedOnce
<1>1. Init => Resent
  BY DEF Init, Resent, ResentClient
<1>2. Safe /\ Resent /\ [Next]_vars => Resent'
  BY StepResent
<1>3. ASSUME Safe, Resent, NEW c \in Clients, Receive(c) \/ Lose(c)
      PROVE  ~(refused[c] /\ refused'[c])
  <2>1. awaits[c] # None /\ refused' = [refused EXCEPT ![c] = reply[Awaited(c)] = "miss"]
    BY <1>3 DEF Receive, Lose, Awaited
  <2>2. Awaited(c) \in Tasks /\ ResentClient(c)
    BY <1>3, <2>1 DEF Safe, TypeOK, Awaited, Tasks, Resent
  <2>3. job[Awaited(c)].kind = "full" => reply[Awaited(c)] # "miss"
    BY <1>3, <2>2 DEF Safe, Tidy, TidyTask
  <2> QED BY <1>3, <2>1, <2>2, <2>3 DEF ResentClient, Safe, TypeOK
<1>4. Safe /\ Resent =>
        \A c \in Clients : Receive(c) \/ Lose(c) => ~(refused[c] /\ refused'[c])
  BY <1>3
<1>5. Safe /\ Resent =>
        [\A c \in Clients : Receive(c) \/ Lose(c) => ~(refused[c] /\ refused'[c])]_vars
  BY <1>4
<1> QED BY <1>1, <1>2, <1>5, AlwaysSafe, PTL DEF Spec, RefusedOnce

-------------------------------------------------------------------------------
(* Contexts *)

\* The last context a client sent is the one it waits for, and unless the client has
\* strayed: its base is that context once it may send a delta again, the delta it
\* waits for says what it means, and what a handler has made of it is that.
ExactClient(c) ==
  /\ awaits[c] # None => ext[c].last = job[Awaited(c)].meant
  /\ ~strayed[c] =>
       /\ awaits[c] = None /\ ext[c].mode = "delta" /\ ~ext[c].pending =>
            ext[c].base = ext[c].last
       /\ awaits[c] # None =>
            LET i == Awaited(c)
            IN  /\ job[i].kind = "delta" => job[i].meant = job[i].base \o job[i].append
                /\ pc[i] = "taken" \/ reply[i] = "advance" => payload[i] = job[i].meant

Exact == \A c \in Clients : ExactClient(c)

\* A client whose own request goes on, at most, is as exact as it was.
LEMMA ClientKept ==
  ASSUME Exact, NEW c \in Clients, ext'[c] = ext[c], awaits'[c] = awaits[c],
         strayed[c] => strayed'[c],
         awaits[c] # None =>
           /\ job'[Awaited(c)] = job[Awaited(c)]
           /\ payload'[Awaited(c)] = payload[Awaited(c)]
           /\ pc'[Awaited(c)] = "taken" \/ reply'[Awaited(c)] = "advance" =>
                pc[Awaited(c)] = "taken" \/ reply[Awaited(c)] = "advance"
  PROVE  ExactClient(c)'
<1>1. ExactClient(c) /\ Awaited(c)' = Awaited(c)
  BY DEF Exact, Awaited
<1> QED BY <1>1 DEF ExactClient

\* The other clients do not care for a task of this one.
LEMMA OthersExact ==
  ASSUME Safe, Exact, NEW c \in Clients, NEW n \in Copies,
         \A d \in Clients \ {c} :
           ext'[d] = ext[d] /\ awaits'[d] = awaits[d] /\ strayed'[d] = strayed[d],
         \A k \in Tasks \ {<<c, n>>} :
           /\ pc'[k] = pc[k] /\ job'[k] = job[k]
           /\ payload'[k] = payload[k] /\ reply'[k] = reply[k]
  PROVE  \A d \in Clients \ {c} : ExactClient(d)'
<1> TAKE d \in Clients \ {c}
<1>1. awaits[d] # None => Awaited(d) \in Tasks \ {<<c, n>>}
  BY DEF Safe, TypeOK, Awaited, Tasks
<1> QED BY <1>1, ClientKept

\* A sequence is a prefix of it and the rest.
LEMMA PrefixRest ==
  ASSUME NEW s \in Seq(Items), NEW t \in Seq(Items), IsPrefix(s, t)
  PROVE  t = s \o SubSeq(t, Len(s) + 1, Len(t))
<1> DEFINE rest == SubSeq(t, Len(s) + 1, Len(t))
<1>1. Len(s) <= Len(t) /\ Len(s) \in Nat /\ Len(t) \in Nat
  BY DEF IsPrefix
<1>2. SubSeq(s, 1, Len(s)) = SubSeq(t, 1, Len(s))
  BY DEF IsPrefix
<1>3. \A j \in 1..Len(s) : s[j] = t[j]
  <2> TAKE j \in 1..Len(s)
  <2>1. SubSeq(s, 1, Len(s))[j] = s[j]
    BY <1>1, SubSeqProperties
  <2>2. SubSeq(t, 1, Len(s))[j] = t[j]
    BY <1>1, SubSeqProperties
  <2> QED BY <1>2, <2>1, <2>2
<1>4. /\ rest \in Seq(Items) /\ Len(rest) = Len(t) - Len(s)
      /\ \A j \in 1..(Len(t) - Len(s)) : rest[j] = t[Len(s) + j]
  BY <1>1, SubSeqProperties
<1> HIDE DEF rest
<1>5. s \o rest \in Seq(Items) /\ Len(s \o rest) = Len(t)
  BY <1>1, <1>4, ConcatProperties
<1>6. \A j \in 1..Len(t) : (s \o rest)[j] = t[j]
  <2> TAKE j \in 1..Len(t)
  <2>1. CASE j <= Len(s)
    BY <1>1, <1>3, <1>4, <2>1, ConcatProperties
  <2>2. CASE ~(j <= Len(s))
    <3>1. j - Len(s) \in 1..(Len(t) - Len(s)) /\ Len(s) + (j - Len(s)) = j
      BY <1>1, <2>2
    <3>2. (s \o rest)[j] = rest[j - Len(s)]
      <4>1. \A k \in 1..Len(s) + Len(rest) :
              (s \o rest)[k] = IF k <= Len(s) THEN s[k] ELSE rest[k - Len(s)]
        BY <1>4, ConcatProperties
      <4>2. j \in 1..Len(s) + Len(rest) /\ ~(j <= Len(s))
        BY <1>1, <1>4, <2>2
      <4> QED BY <4>1, <4>2
    <3>3. rest[j - Len(s)] = t[Len(s) + (j - Len(s))]
      BY <1>4, <3>1
    <3> QED BY <3>1, <3>2, <3>3
  <2> QED BY <2>1, <2>2
<1>7. s \o rest = t
  BY <1>5, <1>6, SeqEqual
<1> QED BY <1>7 DEF rest

\* A request that arrives says what its client means.
LEMMA ArriveExact ==
  ASSUME Safe, Exact, NEW c \in Clients, NEW n \in Copies,
         NEW j \in Job, NEW t \in Tokens \union {None}, NEW held \in Seq(Items),
         Becomes(<<c, n>>, "arrived", j, t, held),
         awaits' = [awaits EXCEPT ![c] = n],
         \A d \in Clients \ {c} : ext'[d] = ext[d] /\ strayed'[d] = strayed[d],
         ext'[c].last = j.meant,
         ~strayed'[c] /\ j.kind = "delta" => j.meant = j.base \o j.append
  PROVE  Exact'
<1> DEFINE i == <<c, n>>
<1>1. i \in Tasks
  BY DEF Tasks
<1>2. /\ pc'[i] = "arrived" /\ job'[i] = j /\ reply'[i] = "none"
      /\ \A k \in Tasks \ {i} :
           /\ pc'[k] = pc[k] /\ job'[k] = job[k]
           /\ payload'[k] = payload[k] /\ reply'[k] = reply[k]
  BY <1>1, BecomesTypes DEF Safe
<1>3. /\ awaits'[c] = n /\ n # None /\ Awaited(c)' = i
      /\ \A d \in Clients \ {c} : awaits'[d] = awaits[d]
  BY LinkAssumption DEF Awaited, Safe, TypeOK
<1>4. \A d \in Clients \ {c} : ExactClient(d)'
  BY <1>2, <1>3, OthersExact
<1> HIDE DEF i
<1>5. ExactClient(c)'
  BY <1>2, <1>3 DEF ExactClient
<1> QED BY <1>4, <1>5 DEF Exact

\* The tail that is sent is the rest after the base the extension names, for that is
\* the context it sent last.
LEMMA SendExact ==
  ASSUME Safe, Exact, NEW c \in Clients, NEW context \in Conversations, Send(c, context)
  PROVE  Exact'
<1> DEFINE e == Checked(c)
           tail == SubSeq(context, Len(e.last) + 1, Len(context))
           delta == Eligible(e, context)
           j == IF delta THEN [kind |-> "delta", slot |-> active, base |-> e.base,
                               append |-> tail, meant |-> context]
                ELSE [kind |-> "full", slot |-> active, base |-> <<>>,
                      append |-> <<>>, meant |-> context]
           t == IF delta THEN e.token ELSE None
           held == IF delta THEN <<>> ELSE context
<1>1. PICK n \in Copies :
        /\ pc[<<c, n>>] = "free" /\ awaits[c] = None
        /\ Becomes(<<c, n>>, "arrived", j, t, held)
        /\ j \in Job /\ t \in Tokens \union {None}
        /\ delta => t \in Tokens /\ e.mode = "delta"
        /\ awaits' = [awaits EXCEPT ![c] = n]
        /\ ext' = [ext EXCEPT ![c] = [e EXCEPT !.last = context, !.pending = delta]]
        /\ UNCHANGED <<cache, routing, refused>>
  BY SendShape
<1>2. /\ e \in Extension /\ context \in Seq(Items) /\ held \in Seq(Items)
      /\ e.mode = "delta" => e = ext[c] /\ ~ext[c].pending
  BY ConversationTypes, CheckedTypes DEF Safe
<1>3. strayed' = [strayed EXCEPT ![c] = @ /\ ~ext[c].pending]
  BY DEF Send
<1>4. delta => e.mode = "delta" /\ IsPrefix(e.last, context)
  BY DEF Eligible
<1>5. e.mode = "delta" /\ ~strayed'[c] => e.base = e.last
  <2>1. ExactClient(c) /\ awaits[c] = None
    BY <1>1 DEF Exact
  <2>2. e.mode = "delta" /\ ~strayed'[c] => ~strayed[c]
    BY <1>2, <1>3 DEF Safe, TypeOK
  <2> HIDE DEF e
  <2> QED BY <1>2, <2>1, <2>2 DEF ExactClient
<1>6. delta /\ ~strayed'[c] => context = e.base \o tail
  <2>1. e.last \in Seq(Items)
    BY <1>2 DEF Extension
  <2> HIDE DEF e, delta
  <2> QED BY <1>2, <1>4, <1>5, <2>1, PrefixRest
<1>7. /\ j.kind = IF delta THEN "delta" ELSE "full"
      /\ j.meant = context
      /\ delta => j.base = e.base /\ j.append = tail
  OBVIOUS
<1>8. /\ \A d \in Clients \ {c} : ext'[d] = ext[d] /\ strayed'[d] = strayed[d]
      /\ ext'[c].last = context
  <2> HIDE DEF e, delta
  <2> QED BY <1>1, <1>2, <1>3 DEF Safe, TypeOK, Extension
<1> HIDE DEF e, tail, delta, j, t, held
<1>9. ~strayed'[c] /\ j.kind = "delta" => j.meant = j.base \o j.append
  BY <1>6, <1>7
<1>10. ext'[c].last = j.meant
  BY <1>7, <1>8
<1> QED BY <1>1, <1>2, <1>8, <1>9, <1>10, ArriveExact

\* A second copy says the same, also while the first one is at work.
LEMMA ResendExact ==
  ASSUME Safe, Exact, NEW c \in Clients, Resend(c)
  PROVE  Exact'
<1> DEFINE first == Awaited(c)
           j == [job[first] EXCEPT !.slot = active]
           t == IF job[first].kind = "delta" THEN token[first] ELSE None
           held == IF job[first].kind = "delta" THEN <<>> ELSE job[first].meant
<1>1. PICK n \in Copies :
        /\ Becomes(<<c, n>>, "arrived", j, t, held)
        /\ awaits' = [awaits EXCEPT ![c] = n]
  BY DEF Resend, Awaited
<1>2. awaits[c] # None /\ UNCHANGED <<ext, strayed>>
  BY DEF Resend
<1>3. first \in Tasks
  BY <1>2 DEF Safe, TypeOK, Awaited, Tasks
<1>4. job[first] \in Job /\ t \in Tokens \union {None}
  BY <1>2, <1>3 DEF Safe, Tidy, TidyTask, Pending, PendingClient, TypeOK
<1>5. /\ j \in Job /\ j.kind = job[first].kind /\ j.meant = job[first].meant
      /\ j.base = job[first].base /\ j.append = job[first].append
      /\ held \in Seq(Items)
  <2>1. active \in Slots
    BY DEF Safe, TypeOK
  <2> HIDE DEF first
  <2> QED BY <1>4, <2>1 DEF Job
<1>6. /\ ext[c].last = job[first].meant
      /\ ~strayed[c] /\ job[first].kind = "delta" =>
           job[first].meant = job[first].base \o job[first].append
  BY <1>2 DEF Exact, ExactClient
<1> HIDE DEF first, j, t, held
<1> QED BY <1>1, <1>2, <1>4, <1>5, <1>6, ArriveExact

\* A reply that names a base names the context sent last.
LEMMA ReceiveExact ==
  ASSUME Safe, Exact, NEW c \in Clients, Receive(c)
  PROVE  Exact'
<1> DEFINE i == Awaited(c)
           h == Heard(ext[c], i)
<1>1. /\ awaits[c] # None /\ pc[i] = "replied" /\ Done(i)
      /\ ext' = [ext EXCEPT ![c] = h]
      /\ awaits' = [awaits EXCEPT ![c] = None]
      /\ strayed' = [strayed EXCEPT ![c] = @ /\ reply[i] = "advance"]
  BY DEF Receive, Awaited
<1>2. i \in Tasks /\ awaits[c] \in Copies
  BY <1>1 DEF Safe, TypeOK, Awaited, Tasks
<1>3. \A k \in Tasks \ {i} :
        /\ pc'[k] = pc[k] /\ job'[k] = job[k]
        /\ payload'[k] = payload[k] /\ reply'[k] = reply[k]
  BY <1>1, <1>2, DoneTypes DEF Safe
<1>4. /\ ext'[c] = h /\ awaits'[c] = None
      /\ strayed'[c] = (strayed[c] /\ reply[i] = "advance")
      /\ \A d \in Clients \ {c} :
           ext'[d] = ext[d] /\ awaits'[d] = awaits[d] /\ strayed'[d] = strayed[d]
  BY <1>1 DEF Safe, TypeOK
<1>5. ASSUME h.mode = "delta", ~strayed'[c] PROVE h.base = h.last
  <2>1. ExactClient(c) /\ TidyTask(i) /\ ext[c] \in Extension
        /\ reply[i] \in {"ready", "advance", "miss", "plain"}
    BY <1>1, <1>2 DEF Exact, Safe, Tidy, TypeOK, TidyTask
  <2>2. ext[c].last = job[i].meant
    BY <1>1, <2>1 DEF ExactClient
  <2>3. CASE reply[i] = "ready"
    <3>1. payload[i] = job[i].meant
      BY <2>1, <2>3 DEF TidyTask
    <3>2. h.base = payload[i] /\ h.last = ext[c].last
      BY <2>1, <2>3 DEF Heard, Extension
    <3> HIDE DEF h, i
    <3> QED BY <2>2, <3>1, <3>2
  <2>4. CASE reply[i] = "advance"
    <3>1. payload[i] = job[i].meant
      BY <1>1, <1>4, <1>5, <2>1, <2>4 DEF ExactClient
    <3>2. h.base = payload[i] /\ h.last = ext[c].last
      BY <2>1, <2>4 DEF Heard, Extension
    <3> HIDE DEF h, i
    <3> QED BY <2>2, <3>1, <3>2
  <2>5. reply[i] \notin {"miss", "plain"}
    BY <1>5 DEF Heard, Reset
  <2> QED BY <2>1, <2>3, <2>4, <2>5
<1>6. \A d \in Clients \ {c} : ExactClient(d)'
  BY <1>2, <1>3, <1>4, OthersExact DEF Awaited
<1> HIDE DEF h, i
<1>7. ExactClient(c)'
  BY <1>4, <1>5 DEF ExactClient
<1> QED BY <1>6, <1>7 DEF Exact

\* A client whose answer is lost has a delta pending, is in full mode, or has strayed.
LEMMA UnheardStrays ==
  ASSUME Safe, NEW c \in Clients, awaits[c] # None, awaits'[c] = None, ext'[c] = ext[c],
         strayed'[c] = (strayed[c] \/ Unheard(c))
  PROVE  ExactClient(c)'
<1>1. Awaited(c) \in Tasks /\ PendingClient(c)
  BY DEF Safe, TypeOK, Pending, Awaited, Tasks
<1>2. job[Awaited(c)].kind \in {"full", "delta"}
  BY <1>1 DEF PendingClient, Safe, Tidy, TidyTask, Job
<1>3. ~strayed'[c] /\ ext[c].mode = "delta" => ext[c].pending
  BY <1>1, <1>2 DEF Unheard, Awaited, PendingClient
<1> QED BY <1>3 DEF ExactClient

\* A lost answer.
LEMMA LoseExact ==
  ASSUME Safe, Exact, NEW c \in Clients, Lose(c)
  PROVE  Exact'
<1>1. /\ awaits[c] # None
      /\ awaits' = [awaits EXCEPT ![c] = None]
      /\ strayed' = [strayed EXCEPT ![c] = @ \/ Unheard(c)]
      /\ UNCHANGED <<ext, pc, job, token, payload, reply>>
  BY DEF Lose, tasks
<1>2. /\ awaits'[c] = None /\ strayed'[c] = (strayed[c] \/ Unheard(c))
      /\ \A d \in Clients \ {c} : awaits'[d] = awaits[d] /\ strayed'[d] = strayed[d]
  BY <1>1 DEF Safe, TypeOK
<1>3. \A d \in Clients \ {c} : ExactClient(d)'
  BY <1>1, <1>2, ClientKept
<1> QED BY <1>1, <1>2, <1>3, UnheardStrays DEF Exact

\* The end of a copy nobody waits for.
LEMMA AbandonedExact ==
  ASSUME Safe, Exact, NEW c \in Clients, NEW n \in Copies, Abandoned(c, n)
  PROVE  Exact'
<1> DEFINE i == <<c, n>>
<1>1. /\ i \in Tasks /\ awaits[c] # n /\ Done(i)
      /\ UNCHANGED <<ext, awaits, strayed>>
  BY DEF Abandoned, Tasks, clients
<1>2. \A d \in Clients : awaits[d] # None => Awaited(d) \in Tasks \ {i}
  BY <1>1 DEF Awaited, Tasks, Safe, TypeOK
<1> HIDE DEF i
<1>3. \A k \in Tasks \ {i} :
        /\ pc'[k] = pc[k] /\ job'[k] = job[k]
        /\ payload'[k] = payload[k] /\ reply'[k] = reply[k]
  BY <1>1, DoneTypes DEF Safe
<1> QED BY <1>1, <1>2, <1>3, ClientKept DEF Exact

\* A new session has no base.
LEMMA SessionStartExact ==
  ASSUME Safe, Exact, NEW c \in Clients, SessionStart(c)
  PROVE  Exact'
<1>1. /\ awaits[c] = None /\ ext' = [ext EXCEPT ![c] = Reset]
      /\ strayed' = [strayed EXCEPT ![c] = FALSE]
      /\ UNCHANGED <<awaits, pc, job, token, payload, reply>>
  BY DEF SessionStart, tasks
<1>2. /\ ext'[c] = Reset
      /\ \A d \in Clients \ {c} : ext'[d] = ext[d] /\ strayed'[d] = strayed[d]
  BY <1>1 DEF Safe, TypeOK
<1>3. ExactClient(c)'
  <2>1. awaits'[c] = None /\ ext'[c].mode # "delta"
    BY <1>1, <1>2 DEF Reset
  <2> QED BY <2>1 DEF ExactClient
<1>4. \A d \in Clients \ {c} : ExactClient(d)'
  BY <1>1, <1>2, ClientKept
<1> QED BY <1>3, <1>4 DEF Exact

\* A handler that goes on with what it has.
LEMMA GoesOnExact ==
  ASSUME Safe, Exact, NEW i \in Tasks,
         UNCHANGED <<ext, awaits, strayed, job, payload>>,
         \A k \in Tasks \ {i} : pc'[k] = pc[k] /\ reply'[k] = reply[k],
         pc'[i] = "taken" \/ reply'[i] = "advance" => pc[i] = "taken" \/ reply[i] = "advance"
  PROVE  Exact'
<1> SUFFICES ASSUME NEW c \in Clients PROVE ExactClient(c)'
  BY DEF Exact
<1>1. awaits[c] # None => Awaited(c) \in Tasks
  BY DEF Awaited, Tasks, Safe, TypeOK
<1>2. \A k \in Tasks : pc'[k] = "taken" \/ reply'[k] = "advance" =>
                         pc[k] = "taken" \/ reply[k] = "advance"
  OBVIOUS
<1> QED BY <1>1, <1>2, ClientKept

\* A handler that is admitted or refused.
LEMMA AdmitExact ==
  ASSUME Safe, Exact, NEW i \in Tasks, Admit(i)
  PROVE  Exact'
<1>1. pc[i] = "arrived" /\ UNCHANGED <<ext, awaits, strayed, job, payload>> /\ TidyTask(i)
  BY DEF Admit, Replies, clients, Safe, Tidy
<1>2. /\ pc'[i] \in {"admitted", "replied"} /\ reply'[i] # "advance"
      /\ \A k \in Tasks \ {i} : pc'[k] = pc[k] /\ reply'[k] = reply[k]
  BY <1>1 DEF Admit, Replies, Safe, TypeOK, TidyTask
<1> QED BY <1>1, <1>2, GoesOnExact

\* A handler that stores its context.
LEMMA RegisterExact ==
  ASSUME Safe, Exact, NEW i \in Tasks, Register(i)
  PROVE  Exact'
<1>1. /\ pc' = [pc EXCEPT ![i] = "stored"]
      /\ UNCHANGED <<ext, awaits, strayed, job, payload, reply>>
  BY DEF Register, clients
<1>2. pc'[i] # "taken" /\ \A k \in Tasks \ {i} : pc'[k] = pc[k]
  BY <1>1 DEF Safe, TypeOK
<1> QED BY <1>1, <1>2, GoesOnExact

\* A handler that looks up its token.
LEMMA ReadBackExact ==
  ASSUME Safe, Exact, NEW i \in Tasks, ReadBack(i)
  PROVE  Exact'
<1>1. UNCHANGED <<ext, awaits, strayed, job, payload>>
  BY DEF ReadBack, Replies, clients
<1>2. /\ pc'[i] = "replied" /\ reply'[i] # "advance"
      /\ \A k \in Tasks \ {i} : pc'[k] = pc[k] /\ reply'[k] = reply[k]
  BY DEF ReadBack, Replies, Safe, TypeOK
<1> QED BY <1>1, <1>2, GoesOnExact

\* A handler that puts back what it has taken.
LEMMA CommitExact ==
  ASSUME Safe, Exact, NEW i \in Tasks, Commit(i)
  PROVE  Exact'
<1>1. UNCHANGED <<ext, awaits, strayed, job, payload>> /\ pc[i] = "taken"
  BY DEF Commit, Replies, clients
<1>2. \A k \in Tasks \ {i} : pc'[k] = pc[k] /\ reply'[k] = reply[k]
  BY DEF Commit, Replies, Safe, TypeOK
<1> QED BY <1>1, <1>2, GoesOnExact

\* What a hit puts together is what the client means: the hash it has checked is that
\* of the content, or its client strays.
LEMMA TakeExact ==
  ASSUME Safe, Exact, EntriesMatchHash, NEW i \in Tasks, Take(i)
  PROVE  Exact'
<1>1. PICK n \in 0..Len(cache[job[i].slot].order) :
             LET live == Expire(cache[job[i].slot], n)
             IN  /\ Part(live, cache[job[i].slot])
                 /\ IF Hit(live, i)
                    THEN /\ pc' = [pc EXCEPT ![i] = "taken"]
                         /\ payload' = [payload EXCEPT ![i] =
                              live.entry[token[i]].context \o job[i].append]
                         /\ strayed' = [c \in Clients |->
                              strayed[c] \/ (i = <<c, awaits[c]>> /\ ItemsOut(i))]
                         /\ UNCHANGED <<job, token, reply>>
                    ELSE Replies(i, "miss") /\ UNCHANGED strayed
  BY TakeStep
<1> DEFINE live == Expire(cache[job[i].slot], n)
<1>2. /\ pc[i] = "admitted" /\ job[i].kind = "delta" /\ UNCHANGED <<ext, awaits>>
      /\ job[i].slot \in Slots /\ Part(live, cache[job[i].slot])
  BY <1>1, TakeStep DEF Take
<1>3. CASE ~Hit(live, i)
  <2>1. /\ UNCHANGED <<strayed, job, payload>>
        /\ pc'[i] = "replied" /\ reply'[i] = "miss"
        /\ \A k \in Tasks \ {i} : pc'[k] = pc[k] /\ reply'[k] = reply[k]
    BY <1>1, <1>3 DEF Replies, Safe, TypeOK
  <2> HIDE DEF live
  <2> QED BY <1>2, <2>1, GoesOnExact
<1>4. CASE Hit(live, i)
  <2> DEFINE context == live.entry[token[i]].context
             hash == live.entry[token[i]].hash
             append == job[i].append
  <2>1. /\ pc' = [pc EXCEPT ![i] = "taken"]
        /\ payload' = [payload EXCEPT ![i] = context \o append]
        /\ strayed' = [c \in Clients |->
                         strayed[c] \/ (i = <<c, awaits[c]>> /\ ItemsOut(i))]
        /\ UNCHANGED <<job, token, reply>>
    BY <1>1, <1>4
  <2> HIDE DEF live
  <2>2. token[i] \in Held(live) /\ hash = job[i].base
    BY <1>4 DEF Hit
  <2>3. /\ token[i] \in Held(cache[job[i].slot])
        /\ live.entry[token[i]] = cache[job[i].slot].entry[token[i]]
    BY <1>2, <2>2 DEF Part
  <2>4. ~ItemsOut(i) => context = hash
    <3>1. ~ItemsOut(i) => \A k \in Tasks : ~Taker(k, job[i].slot, token[i])
      BY <1>2 DEF ItemsOut, Taker
    <3> QED BY <1>2, <2>3, <3>1, MatchedTaken DEF Matches
  <2>5. /\ payload'[i] = context \o append
        /\ \A k \in Tasks \ {i} : pc'[k] = pc[k] /\ payload'[k] = payload[k]
    BY <2>1 DEF Safe, TypeOK
  <2> HIDE DEF context, hash
  <2>6. ASSUME NEW c \in Clients, awaits[c] # None, Awaited(c) = i PROVE ExactClient(c)'
    <3>1. ExactClient(c) /\ Awaited(c)' = i /\ awaits'[c] # None
      BY <1>2, <2>6 DEF Exact, Awaited
    <3>2. strayed'[c] = (strayed[c] \/ ItemsOut(i))
      BY <2>1, <2>6 DEF Awaited
    <3>3. ~strayed[c] => job[i].meant = job[i].base \o append
      BY <1>2, <2>6, <3>1 DEF ExactClient
    <3>4. ~strayed'[c] => payload'[i] = job[i].meant
      BY <2>2, <2>4, <2>5, <3>2, <3>3
    <3>5. ext'[c].last = job'[i].meant
      BY <1>2, <2>1, <2>6, <3>1 DEF ExactClient
    <3> QED BY <2>1, <3>1, <3>2, <3>3, <3>4, <3>5 DEF ExactClient
  <2>7. ASSUME NEW c \in Clients, awaits[c] = None \/ Awaited(c) # i PROVE ExactClient(c)'
    <3>1. awaits[c] # None => Awaited(c) \in Tasks \ {i}
      BY <2>7 DEF Awaited, Tasks, Safe, TypeOK
    <3>2. strayed[c] => strayed'[c]
      BY <2>1
    <3> QED BY <1>2, <2>1, <2>5, <3>1, <3>2, ClientKept
  <2> QED BY <2>6, <2>7 DEF Exact
<1> QED BY <1>3, <1>4

\* A restart loses the answers of the requests at its slot.
LEMMA RestartExact ==
  ASSUME Safe, Exact, NEW s \in Slots, Restart(s)
  PROVE  Exact'
<1> DEFINE dead == {i \in Tasks : job[i].slot = s}
<1>1. /\ pc' = [i \in Tasks |-> IF i \in dead THEN "free" ELSE pc[i]]
      /\ job' = [i \in Tasks |-> IF i \in dead THEN NoJob ELSE job[i]]
      /\ payload' = [i \in Tasks |-> IF i \in dead THEN <<>> ELSE payload[i]]
      /\ reply' = [i \in Tasks |-> IF i \in dead THEN "none" ELSE reply[i]]
      /\ awaits' = [c \in Clients |-> IF Awaited(c) \in dead THEN None ELSE awaits[c]]
      /\ strayed' = [c \in Clients |->
                       strayed[c] \/ (Awaited(c) \in dead /\ Unheard(c))]
      /\ UNCHANGED ext
  BY DEF Restart, Awaited
<1> HIDE DEF dead
<1>2. ASSUME NEW c \in Clients PROVE ExactClient(c)'
  <2>1. CASE Awaited(c) \in dead
    <3>1. awaits[c] # None
      BY <2>1, LinkAssumption DEF dead, Awaited, Tasks
    <3> QED BY <1>1, <2>1, <3>1, UnheardStrays DEF Safe, TypeOK
  <2>2. CASE Awaited(c) \notin dead
    <3>1. awaits[c] # None => Awaited(c) \in Tasks
      BY DEF Awaited, Tasks, Safe, TypeOK
    <3> QED BY <1>1, <2>2, <3>1, ClientKept
  <2> QED BY <2>1, <2>2
<1> QED BY <1>2 DEF Exact

\* Exact is inductive.
LEMMA StepExact ==
  ASSUME Safe, EntriesMatchHash, Exact, [Next]_vars
  PROVE  Exact'
<1>1. ASSUME NEW c \in Clients, ClientStep(c) PROVE Exact'
  BY <1>1, SendExact, ResendExact, ReceiveExact, LoseExact, SessionStartExact, AbandonedExact
     DEF ClientStep
<1>2. ASSUME NEW i \in Tasks, RouterStep(i) PROVE Exact'
  BY <1>2, AdmitExact, RegisterExact, ReadBackExact, TakeExact, CommitExact DEF RouterStep
<1>3. ASSUME UNCHANGED <<ext, awaits, strayed, pc, job, payload, reply>> PROVE Exact'
  BY <1>3, ClientKept DEF Exact
<1>4. CASE Operator
  BY <1>3, <1>4, RestartExact DEF Operator, Dump, Toggle, Switch, Load, clients, tasks
<1>5. CASE UNCHANGED vars
  BY <1>3, <1>5 DEF vars, clients, tasks
<1> QED BY <1>1, <1>2, <1>4, <1>5 DEF Next

\* The answer a client waits for is made from what the client means: a delta is put
\* together with the very context it was cut from, through eviction, expiry, lost
\* answers, second copies, restarts, toggles and handoffs between slots, however many
\* clients and slots there are.  Until a client starts over, a lost answer of a full
\* resend in delta mode, or an entry whose items another copy has out, ends that.
THEOREM ContextSent == Spec => []ContextExact
<1>1. Init => Exact
  BY DEF Init, Exact, ExactClient, Reset
<1>2. Safe /\ EntriesMatchHash /\ Exact /\ [Next]_vars => Exact'
  BY StepExact
<1>3. Safe /\ Exact => ContextExact
  <2> SUFFICES ASSUME Safe, Exact, NEW c \in Clients, awaits[c] # None, ~strayed[c],
                      pc[Awaited(c)] = "replied", reply[Awaited(c)] # "miss"
               PROVE  payload[Awaited(c)] = job[Awaited(c)].meant
    BY DEF ContextExact, Awaited
  <2>1. Awaited(c) \in Tasks /\ ExactClient(c)
    BY DEF Safe, TypeOK, Awaited, Tasks, Exact
  <2>2. TidyTask(Awaited(c)) /\ reply[Awaited(c)] \in {"ready", "advance", "plain"}
    BY <2>1 DEF Safe, Tidy, TidyTask, TypeOK
  <2> QED BY <2>1, <2>2 DEF TidyTask, ExactClient
<1> QED BY <1>1, <1>2, <1>3, AlwaysSafe, HashesMatch, PTL DEF Spec
================================================================================
