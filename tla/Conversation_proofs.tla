--------------------------- MODULE Conversation_proofs -------------------------
(***************************************************************************)
(* Proofs about conversations, for any asks and answers, slots, handlers   *)
(* and limits.                                                             *)
(***************************************************************************)
EXTENDS Conversation, FoldLemmas

-------------------------------------------------------------------------------
(* The inductive invariant *)

Entries == [id : Nat \ {0}, history : Seq(Messages), age : 0..TTL]
Given == [slot : Slots, answer : Answers, empty : BOOLEAN, status : {"completed", "incomplete"},
          age : 0..TTL]
Requests ==
  [phase : {"next", "sent"}, slot : Slots, ask : Asks, input : Seq(Items),
   prev : Ids \union {NoPrevious}, stream : BOOLEAN,
   route : Seq({"chat", "native"}) \ {<<>>},
   chat : Seq(Messages)]

Types ==
  /\ store \in [Slots -> Seq(Entries)] /\ active \in Slots
  /\ inflight \in [Workers -> {Idle} \union Requests]
  /\ told \in Seq(Given)

\* What an answer leaves to go on from.
Left(t) == IF t.empty THEN <<>> ELSE History(t.answer)

\* The oldest entries come first, and each is of an answer that its slot gave.
Rising(ring) == \A i, j \in DOMAIN ring : i < j => ring[i].id < ring[j].id
Sound ==
  \A s \in Slots :
    /\ Rising(store[s]) /\ Len(store[s]) <= MaxEntries
    /\ \A e \in ToSet(store[s]) :
         /\ e.id \in DOMAIN told /\ told[e.id].slot = s
         /\ told[e.id].age = e.age /\ e.history = Left(told[e.id])

\* An answer that may still be named is in the ring of its slot, or has made room for
\* MaxEntries later ones.
Held(id) == \E e \in ToSet(store[told[id].slot]) : e.id = id
Complete ==
  \A id \in DOMAIN told :
    told[id].age < TTL => Held(id) \/ Cardinality(Later(id)) >= MaxEntries

\* A request has results of its own calls, or of those of the answer it goes on from;
\* one that is translated says what it goes on from, then what was asked.
Resumed(t, id) == IF id = NoPrevious THEN <<>> ELSE History(t[id].answer)
CallsTold(t, id) == IF id \in DOMAIN t THEN ToSet(t[id].answer.calls) ELSE {}
Intended(t, r) ==
  /\ r.input = InputOf(r.ask)
  /\ Results(r.input) \subseteq OwnCalls(r.input) \union CallsTold(t, r.prev)
  /\ r.chat # Untranslated =>
       /\ r.prev # NoPrevious => r.prev \in DOMAIN t
       /\ InputToChat(r.input, r.ask.instructions) # Refused
       /\ r.chat = Resumed(t, r.prev) \o InputToChat(r.input, r.ask.instructions)
Meant == \A w \in Workers : inflight[w] # Idle => Intended(told, inflight[w])

Inv == Types /\ Sound /\ Complete /\ Meant

-------------------------------------------------------------------------------
(* The ring *)

\* What Only keeps of entries, in their order.
Kept(o, r, good) ==
  /\ Rising(o) /\ Len(o) <= Len(r)
  /\ \A e : e \in ToSet(o) <=> e \in ToSet(r) /\ e \in good

LEMMA OnlyKeeps ==
  ASSUME NEW r \in Seq(Entries), Rising(r), NEW good
  PROVE  Only(r, good) \in Seq(Entries) /\ Kept(Only(r, good), r, good)
<1> DEFINE n == Len(r)
           ss == [i \in DOMAIN r |-> IF r[i] \in good THEN <<r[i]>> ELSE <<>>]
           Upto(o, i) == /\ Rising(o) /\ Len(o) <= i
                         /\ \A e : e \in ToSet(o) <=> (e \in good /\ \E j \in 1..i : e = r[j])
<1>0. n \in Nat /\ DOMAIN r = 1..n /\ \A i \in 1..n : r[i] \in Entries
  OBVIOUS
<1>1. ss \in Seq(Seq(Entries)) /\ Len(ss) = n
  <2>1. \A i \in 1..n : (IF r[i] \in good THEN <<r[i]>> ELSE <<>>) \in Seq(Entries)
    BY <1>0
  <2>2. ss = [i \in 1..n |-> ss[i]] /\ \A i \in 1..n : ss[i] \in Seq(Entries)
    BY <1>0, <2>1
  <2> HIDE DEF ss
  <2> QED BY <1>0, <2>2, IsASeq, LenProperties
<1>2. \A i \in 1..n : ss[i] = IF r[i] \in good THEN <<r[i]>> ELSE <<>>
  BY <1>0
<1>3. FlattenSeq(ss) = Only(r, good)
  BY DEF Only
<1> HIDE DEF ss
<1>4. PICK t \in [0..n -> Seq(Entries)] : Concats(t, ss, n) /\ Only(r, good) = t[n]
  BY <1>1, <1>3, FlattenTrace
<1> DEFINE T == {i \in Nat : Upto(t[i], i)}
<1>5. 0 \in T
  <2>1. t[0] = <<>>
    BY <1>4 DEF Concats
  <2>2. Upto(<<>>, 0)
    BY DEF Rising, ToSet
  <2> QED BY <2>1, <2>2
<1>6. ASSUME NEW i \in 0..(n - 1), i \in T PROVE i + 1 \in T
  <2> DEFINE o == t[i]
             k == i + 1
             x == r[k]
  <2>1. o \in Seq(Entries) /\ k \in 1..n /\ x \in Entries /\ Upto(o, i) /\ i \in Nat
    BY <1>0, <1>6
  <2>2. t[k] = o \o ss[k]
    BY <1>4, <1>6 DEF Concats
  <2>3. ss[k] = IF x \in good THEN <<x>> ELSE <<>>
    BY <1>2, <2>1
  <2> HIDE DEF o, x
  <2>4. CASE x \notin good
    <3>1. t[k] = o
      BY <2>1, <2>2, <2>3, <2>4, ConcatEmptySeq
    <3>2. \A e : e \in good => ((\E j \in 1..k : e = r[j]) <=> (\E j \in 1..i : e = r[j]))
      BY <2>1, <2>4 DEF x
    <3> QED BY <3>1, <3>2, <2>1
  <2>5. CASE x \in good
    <3>1. t[k] = Append(o, x)
      BY <2>1, <2>2, <2>3, <2>5, AppendIsConcat
    <3>2. Len(Append(o, x)) = Len(o) + 1 /\ DOMAIN Append(o, x) = 1..(Len(o) + 1)
          /\ Append(o, x)[Len(o) + 1] = x /\ \A a \in 1..Len(o) : Append(o, x)[a] = o[a]
      BY <2>1, AppendProperties
    <3>3. \A a \in 1..Len(o) : o[a].id < x.id
      <4> SUFFICES ASSUME NEW a \in 1..Len(o) PROVE o[a].id < x.id
        OBVIOUS
      <4>1. o[a] \in ToSet(o)
        BY <2>1 DEF ToSet
      <4>2. PICK j \in 1..i : o[a] = r[j]
        BY <2>1, <4>1
      <4>3. j \in DOMAIN r /\ k \in DOMAIN r /\ j < k
        BY <1>0, <2>1
      <4> QED BY <4>2, <4>3 DEF Rising, x
    <3>4. Rising(Append(o, x))
      <4> SUFFICES ASSUME NEW a \in 1..(Len(o) + 1), NEW b \in 1..(Len(o) + 1), a < b
                   PROVE  Append(o, x)[a].id < Append(o, x)[b].id
        BY <3>2 DEF Rising
      <4>1. a \in 1..Len(o) /\ (b \in 1..Len(o) \/ b = Len(o) + 1) /\ Len(o) \in Nat
        BY <2>1
      <4> QED BY <2>1, <3>2, <3>3, <4>1 DEF Rising
    <3>5. ASSUME NEW e PROVE e \in ToSet(Append(o, x)) <=> e \in ToSet(o) \/ e = x
      <4>1. \A a \in 1..Len(o) : o[a] \in ToSet(o)
        BY <2>1 DEF ToSet
      <4>2. ASSUME e \in ToSet(Append(o, x)) PROVE e \in ToSet(o) \/ e = x
        <5>1. PICK a \in 1..(Len(o) + 1) : e = Append(o, x)[a]
          BY <3>2, <4>2 DEF ToSet
        <5>2. a \in 1..Len(o) \/ a = Len(o) + 1
          BY <2>1
        <5> QED BY <3>2, <4>1, <5>1, <5>2
      <4>3. ASSUME e \in ToSet(o) PROVE e \in ToSet(Append(o, x))
        <5>1. PICK a \in 1..Len(o) : e = o[a]
          BY <2>1, <4>3 DEF ToSet
        <5>2. a \in 1..(Len(o) + 1) /\ e = Append(o, x)[a]
          BY <2>1, <3>2, <5>1
        <5> QED BY <3>2, <5>2 DEF ToSet
      <4>4. x \in ToSet(Append(o, x))
        <5>1. Len(o) + 1 \in 1..(Len(o) + 1)
          BY <2>1
        <5> QED BY <3>2, <5>1 DEF ToSet
      <4> QED BY <4>2, <4>3, <4>4
    <3>6. \A e : (\E j \in 1..k : e = r[j]) <=> (e = x \/ \E j \in 1..i : e = r[j])
      BY <2>1 DEF x
    <3>7. \A e : e \in ToSet(Append(o, x)) <=> (e \in good /\ \E j \in 1..k : e = r[j])
      BY <2>1, <2>5, <3>5, <3>6
    <3>8. Len(Append(o, x)) <= k
      BY <2>1, <3>2
    <3>9. Upto(Append(o, x), k)
      BY <3>4, <3>7, <3>8
    <3>10. Upto(t[k], k)
      BY <3>1, <3>9
    <3> HIDE DEF Upto
    <3> QED BY <3>10, <2>1
  <2> QED BY <2>4, <2>5
<1>7. n \in T
  <2> HIDE DEF T
  <2>1. \A i \in 0..n : i \in T
    BY <1>0, <1>5, <1>6, StepByStep
  <2> QED BY <1>0, <2>1
<1>8. \A e : (\E j \in 1..n : e = r[j]) <=> e \in ToSet(r)
  BY <1>0 DEF ToSet
<1> QED BY <1>0, <1>4, <1>7, <1>8 DEF Kept

\* What Live leaves of a ring.
LEMMA LiveKeeps ==
  ASSUME NEW r \in Seq(Entries), Rising(r)
  PROVE  /\ Live(r) \in Seq(Entries) /\ Rising(Live(r)) /\ Len(Live(r)) <= Len(r)
         /\ \A e : e \in ToSet(Live(r)) <=> e \in ToSet(r) /\ e.age < TTL
<1> DEFINE fresh == {e \in ToSet(r) : e.age < TTL}
<1>1. Live(r) \in Seq(Entries) /\ Kept(Live(r), r, fresh)
  BY OnlyKeeps DEF Live
<1> QED BY <1>1 DEF Kept

\* Room is made by dropping the oldest entries only, and no more than there must be.
PutWell(o, r, x) ==
  /\ o \in Seq(Entries) /\ Rising(o) /\ Len(o) <= MaxEntries /\ x \in ToSet(o)
  /\ \A e \in ToSet(o) : e = x \/ e \in ToSet(r)
  /\ \A e \in ToSet(r) : e.age < TTL /\ e \notin ToSet(o) =>
       Len(o) = MaxEntries /\ \A i \in DOMAIN o : e.id < o[i].id

LEMMA PutKeeps ==
  ASSUME NEW r \in Seq(Entries), Rising(r), Len(r) <= MaxEntries,
         NEW x \in Entries, \A e \in ToSet(r) : e.id < x.id
  PROVE  PutWell(PutFull(r, x), r, x)
<1> DEFINE live == Live(r)
           m == Len(live)
           k == IF m >= MaxEntries THEN m - MaxEntries + 1 ELSE 0
           d == SubSeq(live, k + 1, m)
           o == Append(d, x)
<1>0. MaxEntries \in Nat \ {0}
  BY LimitsAssumption
<1>1. /\ live \in Seq(Entries) /\ Rising(live) /\ m <= Len(r) /\ m \in Nat /\ Len(r) \in Nat
      /\ \A e : e \in ToSet(live) <=> e \in ToSet(r) /\ e.age < TTL
  BY LiveKeeps
<1>2. PutFull(r, x) = o
  BY DEF PutFull
<1> HIDE DEF live
<1>3. /\ k \in Nat /\ k <= m /\ m - k + 1 <= MaxEntries
      /\ k # 0 => m - k + 1 = MaxEntries
  BY <1>0, <1>1
<1> HIDE DEF k
<1>4. d \in Seq(Entries) /\ Len(d) = m - k /\ \A i \in 1..(m - k) : d[i] = live[k + i]
  <2>1. \A i \in (k + 1)..m : live[i] \in Entries
    BY <1>1, <1>3
  <2>2. /\ d \in Seq(Entries) /\ Len(d) = IF k + 1 <= m THEN m - (k + 1) + 1 ELSE 0
        /\ \A i \in 1..(m - (k + 1) + 1) : d[i] = live[(k + 1) + i - 1]
    BY <1>1, <1>3, <2>1, SubSeqProperties
  <2> HIDE DEF d
  <2>3. m - (k + 1) + 1 = m - k /\ \A i \in 1..(m - k) : (k + 1) + i - 1 = k + i
    BY <1>1, <1>3
  <2>4. Len(d) = m - k
    BY <1>1, <1>3, <2>2
  <2>5. \A i \in 1..(m - k) : d[i] = live[k + i]
    BY <2>2, <2>3
  <2> QED BY <2>2, <2>4, <2>5
<1> HIDE DEF d
<1>5. /\ o \in Seq(Entries) /\ Len(o) = m - k + 1 /\ DOMAIN o = 1..(m - k + 1)
      /\ o[m - k + 1] = x /\ \A i \in 1..(m - k) : o[i] = live[k + i]
  <2>1. /\ Append(d, x) \in Seq(Entries) /\ Len(Append(d, x)) = Len(d) + 1
        /\ \A i \in 1..Len(d) : Append(d, x)[i] = d[i]
        /\ Append(d, x)[Len(d) + 1] = x
    BY <1>4, AppendProperties
  <2>2. DOMAIN o = 1..Len(o)
    BY <2>1
  <2> QED BY <1>4, <2>1, <2>2
<1> HIDE DEF o
<1>6. \A i \in 1..(m - k) : k + i \in DOMAIN live /\ live[k + i] \in ToSet(r)
  <2> SUFFICES ASSUME NEW i \in 1..(m - k) PROVE k + i \in DOMAIN live /\ live[k + i] \in ToSet(r)
    OBVIOUS
  <2>1. k + i \in DOMAIN live
    BY <1>1, <1>3
  <2>2. live[k + i] \in ToSet(live)
    BY <2>1 DEF ToSet
  <2> QED BY <2>1, <2>2, <1>1
<1>7. \A i \in DOMAIN o : i \in 1..(m - k) \/ i = m - k + 1
  BY <1>1, <1>3, <1>5
<1>8. Rising(o)
  <2> SUFFICES ASSUME NEW i \in DOMAIN o, NEW j \in DOMAIN o, i < j PROVE o[i].id < o[j].id
    BY DEF Rising
  <2>1. i \in 1..(m - k)
    BY <1>1, <1>3, <1>5, <1>7
  <2>2. CASE j = m - k + 1
    BY <2>1, <2>2, <1>5, <1>6
  <2>3. CASE j \in 1..(m - k)
    <3>1. k + i \in DOMAIN live /\ k + j \in DOMAIN live /\ k + i < k + j
      BY <2>1, <2>3, <1>3, <1>6
    <3> QED BY <2>1, <2>3, <3>1, <1>1, <1>5 DEF Rising
  <2> QED BY <1>7, <2>2, <2>3
<1>9. x \in ToSet(o)
  <2>1. m - k + 1 \in DOMAIN o
    BY <1>1, <1>3, <1>5
  <2> QED BY <2>1, <1>5 DEF ToSet
<1>10. ASSUME NEW e \in ToSet(o) PROVE e = x \/ e \in ToSet(r)
  <2>1. PICK i \in DOMAIN o : e = o[i]
    BY DEF ToSet
  <2> QED BY <2>1, <1>5, <1>6, <1>7
<1>11. ASSUME NEW e \in ToSet(r), e.age < TTL, e \notin ToSet(o)
       PROVE  Len(o) = MaxEntries /\ \A i \in DOMAIN o : e.id < o[i].id
  <2>1. e \in ToSet(live)
    BY <1>1, <1>11
  <2>2. PICK j \in DOMAIN live : e = live[j]
    BY <2>1 DEF ToSet
  <2>3. j <= k
    <3> SUFFICES ASSUME ~(j <= k) PROVE FALSE
      OBVIOUS
    <3> DEFINE i == j - k
    <3>1. i \in 1..(m - k) /\ k + i = j /\ i \in DOMAIN o
      BY <1>1, <1>3, <1>5
    <3> HIDE DEF i
    <3>2. o[i] = e
      BY <1>5, <2>2, <3>1
    <3> QED BY <3>1, <3>2, <1>11 DEF ToSet
  <2>4. Len(o) = MaxEntries
    BY <1>1, <1>3, <1>5, <2>2, <2>3
  <2>5. ASSUME NEW i \in DOMAIN o PROVE e.id < o[i].id
    <3>1. CASE i = m - k + 1
      BY <3>1, <1>5
    <3>2. CASE i \in 1..(m - k)
      <4>1. k + i \in DOMAIN live /\ j < k + i
        BY <1>1, <1>3, <1>6, <2>2, <2>3, <3>2
      <4> QED BY <1>1, <1>5, <2>2, <3>2, <4>1 DEF Rising
    <3> QED BY <1>7, <3>1, <3>2
  <2> QED BY <2>4, <2>5
<1>12. Len(o) <= MaxEntries
  BY <1>3, <1>5
<1> QED BY <1>2, <1>5, <1>8, <1>9, <1>10, <1>11, <1>12 DEF PutWell

\* A ring has as many answers as entries.
LEMMA RingCounts ==
  ASSUME NEW o \in Seq(Entries), Rising(o), NEW X, IsFiniteSet(X),
         \A i \in DOMAIN o : o[i].id \in X
  PROVE  Cardinality(X) >= Len(o)
<1> DEFINE n == Len(o)
           f == [i \in 1..n |-> o[i].id]
<1>0. n \in Nat /\ DOMAIN o = 1..n
  OBVIOUS
<1>1. IsFiniteSet(1..n) /\ Cardinality(1..n) = n
  <2> HIDE DEF n
  <2>1. 1 \in Int /\ n \in Int
    BY <1>0
  <2>2. IsFiniteSet(1..n) /\ Cardinality(1..n) = IF 1 > n THEN 0 ELSE n - 1 + 1
    BY <2>1, FS_Interval
  <2> QED BY <1>0, <2>2
<1>2. f \in [1..n -> X]
  BY <1>0
<1>3. \A i, j \in 1..n : f[i] = f[j] => i = j
  <2> SUFFICES ASSUME NEW i \in 1..n, NEW j \in 1..n, i # j PROVE f[i] # f[j]
    OBVIOUS
  <2>0. o[i] \in Entries /\ o[j] \in Entries
    BY <1>0
  <2>1. o[i].id \in Nat /\ o[j].id \in Nat
    BY <2>0 DEF Entries
  <2>2. i < j \/ j < i
    BY <1>0
  <2> QED BY <1>0, <2>1, <2>2 DEF Rising
<1> HIDE DEF f
<1>4. f \in Injection(1..n, X)
  BY <1>2, <1>3 DEF Injection, IsInjective
<1>5. Cardinality(1..n) <= Cardinality(X)
  BY <1>4, FS_Injection
<1>6. Cardinality(X) \in Nat
  BY FS_CardinalityType
<1> QED BY <1>0, <1>1, <1>5, <1>6

-------------------------------------------------------------------------------
(* What the translations keep *)

\* What is said, one by one; the translations as functions of an item.
Uttered == (Roles \union {"tool"}) \X {"text", "image", "input_file", "call", "result"}
             \X Identifiers
ItemSaid == [x \in Items |-> SaidByItem(x)]
MessageSaid == [m \in Messages |-> Said(m)]
ItemTranslated == [x \in Items |-> TranslateItem(x)]

\* What is read off some parts.
PartsSaid(role, parts) == [i \in DOMAIN parts |-> <<role, parts[i].type, parts[i].id>>]

LEMMA PartsSaidType ==
  ASSUME NEW role \in Roles \union {"tool"}, NEW parts \in Seq(Parts)
  PROVE  /\ PartsSaid(role, parts) \in Seq(Uttered)
         /\ PartsSaid(role, <<>>) = <<>>
<1> DEFINE f == [p \in Parts |-> <<role, p.type, p.id>>]
<1>1. f \in [Parts -> Uttered]
  BY DEF Parts, Uttered
<1>2. PartsSaid(role, parts) = [i \in DOMAIN parts |-> f[parts[i]]]
  <2>1. \A i \in DOMAIN parts : parts[i] \in Parts
    OBVIOUS
  <2> QED BY <2>1 DEF PartsSaid
<1> HIDE DEF f
<1>3. PartsSaid(role, parts) \in Seq(Uttered)
  BY <1>1, <1>2, MapType
<1>4. PartsSaid(role, <<>>) = <<>>
  BY DEF PartsSaid
<1> QED BY <1>3, <1>4

\* What the calls of a message say.
CallsSaid(calls) == [i \in DOMAIN calls |-> <<"assistant", "call", calls[i]>>]

LEMMA CallsSaidType ==
  ASSUME NEW calls \in Seq(Identifiers)
  PROVE  CallsSaid(calls) \in Seq(Uttered) /\ CallsSaid(<<>>) = <<>>
<1> DEFINE f == [c \in Identifiers |-> <<"assistant", "call", c>>]
<1>1. f \in [Identifiers -> Uttered]
  BY DEF Uttered, Roles
<1>2. CallsSaid(calls) = [i \in DOMAIN calls |-> f[calls[i]]]
  <2>1. \A i \in DOMAIN calls : calls[i] \in Identifiers
    OBVIOUS
  <2> QED BY <2>1 DEF CallsSaid
<1> HIDE DEF f
<1>3. CallsSaid(calls) \in Seq(Uttered)
  BY <1>1, <1>2, MapType
<1>4. CallsSaid(<<>>) = <<>>
  BY DEF CallsSaid
<1> QED BY <1>3, <1>4

LEMMA SaidType ==
  ASSUME NEW m \in Messages
  PROVE  Said(m) \in Seq(Uttered)
<1> DEFINE r == IF m.role = "tool" THEN << <<"tool", "result", m.id>> >> ELSE <<>>
<1>1. m.role \in Roles \union {"tool"} /\ m.parts \in Seq(Parts) /\ m.calls \in Seq(Identifiers)
      /\ m.id \in Identifiers
  BY DEF Messages
<1>2. r \in Seq(Uttered)
  <2>1. <<"tool", "result", m.id>> \in Uttered
    BY <1>1 DEF Uttered
  <2>2. << <<"tool", "result", m.id>> >> \in Seq(Uttered) /\ <<>> \in Seq(Uttered)
    BY <2>1
  <2> QED BY <2>2
<1>3. Said(m) = (PartsSaid(m.role, m.parts) \o CallsSaid(m.calls)) \o r
  BY DEF Said, PartsSaid, CallsSaid
<1> HIDE DEF r
<1>4. PartsSaid(m.role, m.parts) \o CallsSaid(m.calls) \in Seq(Uttered)
  BY <1>1, PartsSaidType, CallsSaidType, ConcatProperties
<1> QED BY <1>2, <1>3, <1>4, ConcatProperties

LEMMA SaidByItemType ==
  ASSUME NEW x \in Items
  PROVE  SaidByItem(x) \in Seq(Uttered)
<1>1. /\ x.type \in {"message", "function_call", "function_call_output", "reasoning",
                   "builtin_call", "other"}
      /\ x.role \in Roles /\ x.parts \in Seq(Parts) /\ x.id \in Identifiers
  BY DEF Items
<1>2. CASE x.type = "message"
  <2>1. SaidByItem(x) = PartsSaid(x.role, x.parts)
    BY <1>2 DEF SaidByItem, PartsSaid
  <2> QED BY <1>1, <2>1, PartsSaidType
<1>3. CASE x.type = "function_call"
  <2>1. SaidByItem(x) = << <<"assistant", "call", x.id>> >>
    BY <1>3 DEF SaidByItem
  <2>2. <<"assistant", "call", x.id>> \in Uttered
    BY <1>1 DEF Uttered, Roles
  <2> QED BY <2>1, <2>2
<1>4. CASE x.type = "function_call_output"
  <2>1. SaidByItem(x) = << <<"tool", "result", x.id>> >>
    BY <1>4 DEF SaidByItem
  <2>2. <<"tool", "result", x.id>> \in Uttered
    BY <1>1 DEF Uttered
  <2> QED BY <2>1, <2>2
<1>5. CASE x.type \in {"reasoning", "builtin_call", "other"}
  <2>1. SaidByItem(x) = <<>>
    BY <1>5 DEF SaidByItem
  <2> QED BY <2>1
<1> QED BY <1>1, <1>2, <1>3, <1>4, <1>5

\* A message that has only parts, only a call, or only a result.
LEMMA MessageSays ==
  /\ \A role \in Roles, parts \in Seq(Parts) :
       /\ ChatMessage(role, parts, <<>>, NoId) \in Messages
       /\ Said(ChatMessage(role, parts, <<>>, NoId)) = PartsSaid(role, parts)
  /\ \A id \in Identifiers :
       /\ ChatMessage("assistant", <<>>, <<id>>, NoId) \in Messages
       /\ Said(ChatMessage("assistant", <<>>, <<id>>, NoId)) = << <<"assistant", "call", id>> >>
       /\ ChatMessage("tool", <<>>, <<>>, id) \in Messages
       /\ Said(ChatMessage("tool", <<>>, <<>>, id)) = << <<"tool", "result", id>> >>
<1>1. NoId \in Identifiers /\ <<>> \in Seq(Parts) /\ <<>> \in Seq(Identifiers)
  BY DEF Identifiers
<1>2. ASSUME NEW role \in Roles, NEW parts \in Seq(Parts)
      PROVE  /\ ChatMessage(role, parts, <<>>, NoId) \in Messages
             /\ Said(ChatMessage(role, parts, <<>>, NoId)) = PartsSaid(role, parts)
  <2> DEFINE m == ChatMessage(role, parts, <<>>, NoId)
  <2>1. m \in Messages
    BY <1>1 DEF ChatMessage, Messages
  <2>2. m.role = role /\ m.parts = parts /\ m.calls = <<>> /\ role # "tool"
    BY DEF ChatMessage, Roles
  <2> HIDE DEF m
  <2>3. Said(m) = (PartsSaid(role, parts) \o CallsSaid(<<>>)) \o <<>>
    BY <2>2 DEF Said, PartsSaid, CallsSaid
  <2>4. CallsSaid(<<>>) = <<>> /\ PartsSaid(role, parts) \in Seq(Uttered)
    BY <1>1, CallsSaidType, PartsSaidType
  <2>5. Said(m) = PartsSaid(role, parts)
    BY <2>3, <2>4, ConcatEmptySeq
  <2> QED BY <2>1, <2>5 DEF m
<1>3. ASSUME NEW id \in Identifiers
      PROVE  /\ ChatMessage("assistant", <<>>, <<id>>, NoId) \in Messages
             /\ Said(ChatMessage("assistant", <<>>, <<id>>, NoId)) = << <<"assistant", "call", id>> >>
  <2> DEFINE m == ChatMessage("assistant", <<>>, <<id>>, NoId)
  <2>1. m \in Messages
    <3>1. <<id>> \in Seq(Identifiers)
      OBVIOUS
    <3> QED BY <1>1, <3>1 DEF ChatMessage, Messages, Roles
  <2>2. m.role = "assistant" /\ m.parts = <<>> /\ m.calls = <<id>>
    BY DEF ChatMessage
  <2> HIDE DEF m
  <2>3. Said(m) = (PartsSaid("assistant", <<>>) \o CallsSaid(<<id>>)) \o <<>>
    BY <2>2 DEF Said, PartsSaid, CallsSaid
  <2>4. PartsSaid("assistant", <<>>) = <<>>
    BY DEF PartsSaid
  <2>5. CallsSaid(<<id>>) = << <<"assistant", "call", id>> >> /\ CallsSaid(<<id>>) \in Seq(Uttered)
    <3>1. <<id>> \in Seq(Identifiers)
      OBVIOUS
    <3>2. CallsSaid(<<id>>) = << <<"assistant", "call", id>> >>
      BY DEF CallsSaid
    <3> QED BY <3>1, <3>2, CallsSaidType
  <2>6. Said(m) = << <<"assistant", "call", id>> >>
    BY <2>3, <2>4, <2>5, ConcatEmptySeq
  <2> QED BY <2>1, <2>6 DEF m
<1>4. ASSUME NEW id \in Identifiers
      PROVE  /\ ChatMessage("tool", <<>>, <<>>, id) \in Messages
             /\ Said(ChatMessage("tool", <<>>, <<>>, id)) = << <<"tool", "result", id>> >>
  <2> DEFINE m == ChatMessage("tool", <<>>, <<>>, id)
  <2>1. m \in Messages
    BY <1>1 DEF ChatMessage, Messages
  <2>2. m.role = "tool" /\ m.parts = <<>> /\ m.calls = <<>> /\ m.id = id
    BY DEF ChatMessage
  <2> HIDE DEF m
  <2>3. Said(m) = (PartsSaid("tool", <<>>) \o CallsSaid(<<>>)) \o << <<"tool", "result", id>> >>
    BY <2>2 DEF Said, PartsSaid, CallsSaid
  <2>4. PartsSaid("tool", <<>>) = <<>> /\ CallsSaid(<<>>) = <<>>
    BY DEF PartsSaid, CallsSaid
  <2>5. << <<"tool", "result", id>> >> \in Seq(Uttered)
    BY DEF Uttered
  <2>6. (<<>> \o <<>>) \o << <<"tool", "result", id>> >> = << <<"tool", "result", id>> >>
    <3>1. <<>> \o <<>> = <<>>
      OBVIOUS
    <3> QED BY <2>5, <3>1, ConcatEmptySeq
  <2>7. Said(m) = << <<"tool", "result", id>> >>
    BY <2>3, <2>4, <2>6
  <2> QED BY <2>1, <2>7 DEF m
<1> QED BY <1>2, <1>3, <1>4

\* An item becomes the messages that say what it says.
LEMMA ItemKept ==
  ASSUME NEW x \in Items
  PROVE  /\ TranslateItem(x) \in Seq(Messages)
         /\ FlatMap(MessageSaid, TranslateItem(x)) = SaidByItem(x)
<1>1. /\ x.type \in {"message", "function_call", "function_call_output", "reasoning",
                   "builtin_call", "other"}
      /\ x.role \in Roles /\ x.parts \in Seq(Parts) /\ x.id \in Identifiers
  BY DEF Items
<1>2. MessageSaid \in [Messages -> Seq(Uttered)]
  BY SaidType DEF MessageSaid
<1>3. ASSUME NEW m \in Messages, TranslateItem(x) = <<m>>, Said(m) = SaidByItem(x)
      PROVE  /\ TranslateItem(x) \in Seq(Messages)
             /\ FlatMap(MessageSaid, TranslateItem(x)) = SaidByItem(x)
  <2>1. FlatMap(MessageSaid, <<m>>) = MessageSaid[m]
    BY <1>2, FlatMapOne
  <2>2. MessageSaid[m] = Said(m)
    BY DEF MessageSaid
  <2>3. <<m>> \in Seq(Messages)
    OBVIOUS
  <2> QED BY <1>3, <2>1, <2>2, <2>3
<1>4. CASE x.type = "message"
  <2> DEFINE m == ChatMessage(x.role, x.parts, <<>>, NoId)
  <2>1. TranslateItem(x) = <<m>>
    BY <1>4 DEF TranslateItem
  <2>2. SaidByItem(x) = PartsSaid(x.role, x.parts)
    BY <1>4 DEF SaidByItem, PartsSaid
  <2>3. m \in Messages /\ Said(m) = PartsSaid(x.role, x.parts)
    BY <1>1, MessageSays
  <2> HIDE DEF m
  <2> QED BY <1>3, <2>1, <2>2, <2>3
<1>5. CASE x.type = "function_call"
  <2> DEFINE m == ChatMessage("assistant", <<>>, <<x.id>>, NoId)
  <2>1. TranslateItem(x) = <<m>>
    BY <1>5 DEF TranslateItem
  <2>2. SaidByItem(x) = << <<"assistant", "call", x.id>> >>
    BY <1>5 DEF SaidByItem
  <2>3. m \in Messages /\ Said(m) = << <<"assistant", "call", x.id>> >>
    BY <1>1, MessageSays
  <2> HIDE DEF m
  <2> QED BY <1>3, <2>1, <2>2, <2>3
<1>6. CASE x.type = "function_call_output"
  <2> DEFINE m == ChatMessage("tool", <<>>, <<>>, x.id)
  <2>1. TranslateItem(x) = <<m>>
    BY <1>6 DEF TranslateItem
  <2>2. SaidByItem(x) = << <<"tool", "result", x.id>> >>
    BY <1>6 DEF SaidByItem
  <2>3. m \in Messages /\ Said(m) = << <<"tool", "result", x.id>> >>
    BY <1>1, MessageSays
  <2> HIDE DEF m
  <2> QED BY <1>3, <2>1, <2>2, <2>3
<1>7. CASE x.type \in {"reasoning", "builtin_call", "other"}
  <2>1. TranslateItem(x) = <<>> /\ SaidByItem(x) = <<>>
    BY <1>7 DEF TranslateItem, SaidByItem
  <2>2. <<>> \in Seq(Messages)
    OBVIOUS
  <2> QED BY <2>1, <2>2, FlatMapEmpty
<1> QED BY <1>1, <1>4, <1>5, <1>6, <1>7

\* What messages and items say, as maps.
LEMMA SpokenMaps ==
  /\ MessageSaid \in [Messages -> Seq(Uttered)]
  /\ \A q \in Seq(Messages) : Spoken(q) = FlatMap(MessageSaid, q)
  /\ ItemSaid \in [Items -> Seq(Uttered)]
  /\ \A q \in Seq(Items) : FlattenSeq([i \in DOMAIN q |-> SaidByItem(q[i])]) = FlatMap(ItemSaid, q)
<1>1. MessageSaid \in [Messages -> Seq(Uttered)] /\ ItemSaid \in [Items -> Seq(Uttered)]
  BY SaidType, SaidByItemType DEF MessageSaid, ItemSaid
<1>2. ASSUME NEW q \in Seq(Messages) PROVE Spoken(q) = FlatMap(MessageSaid, q)
  <2>1. \A i \in DOMAIN q : q[i] \in Messages
    OBVIOUS
  <2>2. [i \in DOMAIN q |-> Said(q[i])] = [i \in DOMAIN q |-> MessageSaid[q[i]]]
    BY <2>1 DEF MessageSaid
  <2> QED BY <2>2 DEF Spoken, FlatMap
<1>3. ASSUME NEW q \in Seq(Items)
      PROVE  FlattenSeq([i \in DOMAIN q |-> SaidByItem(q[i])]) = FlatMap(ItemSaid, q)
  <2>1. \A i \in DOMAIN q : q[i] \in Items
    OBVIOUS
  <2>2. [i \in DOMAIN q |-> SaidByItem(q[i])] = [i \in DOMAIN q |-> ItemSaid[q[i]]]
    BY <2>1 DEF ItemSaid
  <2> QED BY <2>2 DEF FlatMap
<1> QED BY <1>1, <1>2, <1>3

\* A request that is not refused says all that its items say.
LEMMA ChatSays ==
  ASSUME NEW items \in Seq(Items), NEW instructions \in BOOLEAN,
         InputToChat(items, instructions) # Refused
  PROVE  /\ InputToChat(items, instructions) \in Seq(Messages)
         /\ InputToChat(items, instructions) # <<>>
         /\ Spoken(InputToChat(items, instructions)) = FlatMap(ItemSaid, items)
<1> DEFINE body == FlatMap(ItemTranslated, items)
           system == SystemMessage(instructions)
<1>1. ItemTranslated \in [Items -> Seq(Messages)]
  BY ItemKept DEF ItemTranslated
<1>2. FlattenSeq([i \in DOMAIN items |-> TranslateItem(items[i])]) = body
  <2>1. \A i \in DOMAIN items : items[i] \in Items
    OBVIOUS
  <2>2. [i \in DOMAIN items |-> TranslateItem(items[i])]
          = [i \in DOMAIN items |-> ItemTranslated[items[i]]]
    BY <2>1 DEF ItemTranslated
  <2> QED BY <2>2 DEF FlatMap
<1>3. InputToChat(items, instructions) = system \o body /\ system \o body # <<>>
  BY <1>2 DEF InputToChat
<1>4. body \in Seq(Messages)
  BY <1>1, FlatMapType
<1>5. system \in Seq(Messages) /\ FlatMap(MessageSaid, system) = <<>>
  <2>1. CASE instructions
    <3> DEFINE m == ChatMessage("system", <<>>, <<>>, NoId)
    <3>1. system = <<m>>
      BY <2>1 DEF SystemMessage, Instructions
    <3>2. "system" \in Roles /\ <<>> \in Seq(Parts)
      BY DEF Roles
    <3>3. m \in Messages /\ Said(m) = PartsSaid("system", <<>>)
      BY <3>2, MessageSays
    <3>4. PartsSaid("system", <<>>) = <<>>
      BY DEF PartsSaid
    <3> HIDE DEF m
    <3>5. FlatMap(MessageSaid, <<m>>) = MessageSaid[m]
      BY <3>3, SpokenMaps, FlatMapOne
    <3>6. MessageSaid[m] = Said(m)
      BY <3>3 DEF MessageSaid
    <3>7. <<m>> \in Seq(Messages)
      BY <3>3
    <3> QED BY <3>1, <3>3, <3>4, <3>5, <3>6, <3>7
  <2>2. CASE ~instructions
    <3>1. system = <<>>
      BY <2>2 DEF SystemMessage
    <3>2. <<>> \in Seq(Messages)
      OBVIOUS
    <3> QED BY <3>1, <3>2, FlatMapEmpty
  <2> QED BY <2>1, <2>2
<1>6. FlatMap(MessageSaid, body) = FlatMap(ItemSaid, items)
  <2>1. Composed(ItemSaid, MessageSaid, ItemTranslated, Items)
    BY ItemKept DEF Composed, ItemSaid, ItemTranslated
  <2>2. /\ Maps(ItemTranslated, Items, Messages) /\ Maps(MessageSaid, Messages, Uttered)
        /\ Maps(ItemSaid, Items, Uttered)
    BY <1>1, SpokenMaps DEF Maps
  <2>3. Twice(ItemSaid, MessageSaid, ItemTranslated, Items)
    BY <2>1, <2>2, FlatMapsTwice
  <2> QED BY <2>3 DEF Twice
<1> HIDE DEF body, system
<1>7. system \o body \in Seq(Messages)
  BY <1>4, <1>5, ConcatProperties
<1>8. FlatMap(MessageSaid, system \o body) = FlatMap(MessageSaid, system) \o FlatMap(MessageSaid, body)
  <2>1. Distributes(MessageSaid, Messages)
    BY SpokenMaps, FlatMapDistributes
  <2> QED BY <2>1, <1>4, <1>5 DEF Distributes
<1>9. FlatMap(ItemSaid, items) \in Seq(Uttered)
  BY SpokenMaps, FlatMapType
<1>10. <<>> \o FlatMap(ItemSaid, items) = FlatMap(ItemSaid, items)
  BY <1>9, ConcatEmptySeq
<1>11. Spoken(system \o body) = FlatMap(MessageSaid, system \o body)
  BY <1>7, SpokenMaps
<1> QED BY <1>3, <1>5, <1>6, <1>7, <1>8, <1>10, <1>11

-------------------------------------------------------------------------------
(* Answers *)

\* An answer as items, piece by piece, and what of them is calls.
ReasoningItems(a) == IF a.reasoning THEN <<Item("reasoning", "assistant", <<>>, NoId)>> ELSE <<>>
TextParts(a) == IF a.text THEN <<AnswerText>> ELSE <<>>
TextItems(a) == IF a.text THEN <<Item("message", "assistant", <<AnswerText>>, NoId)>> ELSE <<>>
CallItems(a) == [i \in DOMAIN a.calls |-> Item("function_call", "assistant", <<>>, a.calls[i])]
CallKept == [x \in Items |-> IF x.type = "function_call" THEN <<x>> ELSE <<>>]

LEMMA AnswerType ==
  ASSUME NEW a \in Answers
  PROVE  /\ a.calls \in Seq(Identifiers) /\ a.text \in BOOLEAN /\ a.reasoning \in BOOLEAN
         /\ ReasoningItems(a) \in Seq(Items) /\ TextItems(a) \in Seq(Items)
         /\ CallItems(a) \in Seq(Items) /\ TextParts(a) \in Seq(Parts)
         /\ AnswerToOutput(a) = (ReasoningItems(a) \o TextItems(a)) \o CallItems(a)
         /\ DOMAIN CallItems(a) = DOMAIN a.calls
         /\ \A i \in DOMAIN a.calls :
              CallItems(a)[i] = Item("function_call", "assistant", <<>>, a.calls[i])
<1>1. a.calls \in Seq(Identifiers) /\ a.text \in BOOLEAN /\ a.reasoning \in BOOLEAN
  BY AnswersAssumption
<1>2. NoId \in Identifiers /\ AnswerText \in Parts
  BY DEF Identifiers, AnswerText, Parts
<1>3. <<AnswerText>> \in Seq(Parts) /\ <<>> \in Seq(Parts)
  BY <1>2
<1>4. Item("reasoning", "assistant", <<>>, NoId) \in Items
  BY <1>2, <1>3 DEF Item, Items, Roles
<1>5. Item("message", "assistant", <<AnswerText>>, NoId) \in Items
  BY <1>2, <1>3 DEF Item, Items, Roles
<1>6. ReasoningItems(a) \in Seq(Items)
  <2> DEFINE x == Item("reasoning", "assistant", <<>>, NoId)
  <2>1. x \in Items
    BY <1>4
  <2> HIDE DEF x
  <2>2. <<x>> \in Seq(Items) /\ <<>> \in Seq(Items)
    BY <2>1
  <2>3. ReasoningItems(a) = IF a.reasoning THEN <<x>> ELSE <<>>
    BY DEF ReasoningItems, x
  <2> QED BY <2>2, <2>3
<1>7. TextItems(a) \in Seq(Items)
  <2> DEFINE x == Item("message", "assistant", <<AnswerText>>, NoId)
  <2>1. x \in Items
    BY <1>5
  <2> HIDE DEF x
  <2>2. <<x>> \in Seq(Items) /\ <<>> \in Seq(Items)
    BY <2>1
  <2>3. TextItems(a) = IF a.text THEN <<x>> ELSE <<>>
    BY DEF TextItems, x
  <2> QED BY <2>2, <2>3
<1>8. /\ CallItems(a) \in Seq(Items) /\ DOMAIN CallItems(a) = DOMAIN a.calls
      /\ \A i \in DOMAIN a.calls :
           CallItems(a)[i] = Item("function_call", "assistant", <<>>, a.calls[i])
  <2> DEFINE f == [c \in Identifiers |-> Item("function_call", "assistant", <<>>, c)]
             q == a.calls
  <2>1. f \in [Identifiers -> Items]
    BY <1>3 DEF Item, Items, Roles
  <2>2. \A i \in DOMAIN q : q[i] \in Identifiers
    BY <1>1
  <2>3. CallItems(a) = [i \in DOMAIN q |-> f[q[i]]]
    BY <2>2 DEF CallItems
  <2>4. q \in Seq(Identifiers)
    BY <1>1
  <2> HIDE DEF f, q
  <2>5. CallItems(a) \in Seq(Items)
    BY <2>1, <2>3, <2>4, MapType
  <2> QED BY <2>5 DEF CallItems
<1>9. TextParts(a) \in Seq(Parts)
  BY <1>3 DEF TextParts
<1>10. AnswerToOutput(a) = (ReasoningItems(a) \o TextItems(a)) \o CallItems(a)
  BY DEF AnswerToOutput, ReasoningItems, TextItems, CallItems
<1> QED BY <1>1, <1>6, <1>7, <1>8, <1>9, <1>10

\* A map of an answer is the maps of its pieces.
LEMMA AnswerMaps ==
  ASSUME NEW a \in Answers, NEW S, NEW f, Maps(f, Items, S)
  PROVE  /\ AnswerToOutput(a) \in Seq(Items)
         /\ FlatMap(f, AnswerToOutput(a))
              = (FlatMap(f, ReasoningItems(a)) \o FlatMap(f, TextItems(a)))
                \o FlatMap(f, CallItems(a))
<1> DEFINE x == ReasoningItems(a)
           y == TextItems(a)
           z == CallItems(a)
<1>1. x \in Seq(Items) /\ y \in Seq(Items) /\ z \in Seq(Items) /\ AnswerToOutput(a) = (x \o y) \o z
  BY AnswerType
<1> HIDE DEF x, y, z
<1>2. x \o y \in Seq(Items) /\ (x \o y) \o z \in Seq(Items)
  <2>1. x \o y \in Seq(Items)
    BY <1>1, ConcatProperties
  <2> QED BY <1>1, <2>1, ConcatProperties
<1>3. Distributes(f, Items)
  <2>1. f \in [Items -> Seq(S)]
    BY DEF Maps
  <2> QED BY <2>1, FlatMapDistributes
<1>4. FlatMap(f, x \o y) = FlatMap(f, x) \o FlatMap(f, y)
  BY <1>1, <1>3 DEF Distributes
<1>5. FlatMap(f, (x \o y) \o z) = FlatMap(f, x \o y) \o FlatMap(f, z)
  BY <1>1, <1>2, <1>3 DEF Distributes
<1> QED BY <1>1, <1>2, <1>4, <1>5 DEF x, y, z

\* The history an answer leaves is one message, and says what the answer says.
LEMMA HistorySays ==
  ASSUME NEW a \in Answers
  PROVE  /\ History(a) \in Seq(Messages) /\ History(a) # <<>>
         /\ Spoken(History(a)) = FlatMap(ItemSaid, AnswerToOutput(a))
         /\ FlatMap(ItemSaid, AnswerToOutput(a))
              = PartsSaid("assistant", TextParts(a)) \o CallsSaid(a.calls)
<1> DEFINE m == ChatMessage("assistant", TextParts(a), a.calls, NoId)
           p == PartsSaid("assistant", TextParts(a))
           c == CallsSaid(a.calls)
<1>1. History(a) = <<m>>
  BY DEF History, TextParts
<1>2. m \in Messages
  BY AnswerType DEF ChatMessage, Messages, Roles, Identifiers
<1>3. "assistant" \in Roles
  BY DEF Roles
<1>4. p \in Seq(Uttered) /\ c \in Seq(Uttered)
  BY <1>3, AnswerType, PartsSaidType, CallsSaidType
<1>5. Said(m) = p \o c
  <2>1. m.role = "assistant" /\ m.parts = TextParts(a) /\ m.calls = a.calls
    BY DEF ChatMessage
  <2> HIDE DEF m
  <2>2. Said(m) = (p \o c) \o <<>>
    BY <2>1 DEF Said, PartsSaid, CallsSaid
  <2> HIDE DEF p, c
  <2>3. p \o c \in Seq(Uttered)
    BY <1>4, ConcatProperties
  <2> QED BY <2>2, <2>3, ConcatEmptySeq
<1>6. Spoken(History(a)) = p \o c
  <2> HIDE DEF m, p, c
  <2>1. <<m>> \in Seq(Messages)
    BY <1>2
  <2>2. Spoken(<<m>>) = FlatMap(MessageSaid, <<m>>)
    BY <2>1, SpokenMaps
  <2>3. FlatMap(MessageSaid, <<m>>) = MessageSaid[m]
    BY <1>2, SpokenMaps, FlatMapOne
  <2>4. MessageSaid[m] = Said(m)
    BY <1>2 DEF MessageSaid
  <2> QED BY <1>1, <1>5, <2>2, <2>3, <2>4
<1>7. FlatMap(ItemSaid, ReasoningItems(a)) = <<>>
  <2> DEFINE x == Item("reasoning", "assistant", <<>>, NoId)
  <2>1. CASE a.reasoning
    <3>1. ReasoningItems(a) = <<x>>
      BY <2>1 DEF ReasoningItems
    <3>2. x \in Items
      BY DEF Item, Items, Roles, Identifiers
    <3>3. SaidByItem(x) = <<>>
      BY DEF SaidByItem, Item
    <3> HIDE DEF x
    <3>4. FlatMap(ItemSaid, <<x>>) = ItemSaid[x]
      BY <3>2, SpokenMaps, FlatMapOne
    <3>5. ItemSaid[x] = <<>>
      BY <3>2, <3>3 DEF ItemSaid
    <3> QED BY <3>1, <3>4, <3>5
  <2>2. CASE ~a.reasoning
    BY <2>2, FlatMapEmpty DEF ReasoningItems
  <2> QED BY <2>1, <2>2
<1>8. FlatMap(ItemSaid, TextItems(a)) = p
  <2> DEFINE x == Item("message", "assistant", <<AnswerText>>, NoId)
  <2>1. CASE a.text
    <3>1. TextItems(a) = <<x>> /\ TextParts(a) = <<AnswerText>>
      BY <2>1 DEF TextItems, TextParts
    <3>2. x \in Items
      <4>1. <<AnswerText>> \in Seq(Parts)
        BY <3>1, AnswerType
      <4> QED BY <4>1 DEF Item, Items, Roles, Identifiers
    <3>3. SaidByItem(x) = p
      BY <3>1 DEF SaidByItem, Item, PartsSaid
    <3> HIDE DEF x, p
    <3>4. FlatMap(ItemSaid, <<x>>) = ItemSaid[x]
      BY <3>2, SpokenMaps, FlatMapOne
    <3>5. ItemSaid[x] = p
      BY <3>2, <3>3 DEF ItemSaid
    <3> QED BY <3>1, <3>4, <3>5
  <2>2. CASE ~a.text
    <3>1. TextItems(a) = <<>> /\ p = <<>>
      BY <2>2 DEF TextItems, TextParts, PartsSaid
    <3> QED BY <3>1, FlatMapEmpty
  <2> QED BY <2>1, <2>2
<1>9. FlatMap(ItemSaid, CallItems(a)) = c
  <2> DEFINE z == CallItems(a)
  <2>1. DOMAIN z = DOMAIN c
    BY AnswerType DEF CallsSaid
  <2>2. \A i \in DOMAIN c : ItemSaid[z[i]] = <<c[i]>>
    <3> SUFFICES ASSUME NEW i \in DOMAIN c PROVE ItemSaid[z[i]] = <<c[i]>>
      OBVIOUS
    <3>1. i \in DOMAIN a.calls /\ c[i] = <<"assistant", "call", a.calls[i]>>
      BY DEF CallsSaid
    <3>2. z[i] = Item("function_call", "assistant", <<>>, a.calls[i])
      BY <3>1, AnswerType
    <3>3. z[i] \in Items
      BY <3>1, AnswerType
    <3>4. SaidByItem(z[i]) = << <<"assistant", "call", a.calls[i]>> >>
      BY <3>2 DEF SaidByItem, Item
    <3>5. ItemSaid[z[i]] = SaidByItem(z[i])
      BY <3>3 DEF ItemSaid
    <3> QED BY <3>1, <3>4, <3>5
  <2> HIDE DEF z, c
  <2>3. [i \in DOMAIN z |-> ItemSaid[z[i]]] = [i \in DOMAIN c |-> <<c[i]>>]
    BY <2>1, <2>2
  <2>4. FlatMap(ItemSaid, z) = c
    BY <1>4, <2>3, FlattenSingles DEF FlatMap
  <2> QED BY <2>4 DEF z
<1>10. FlatMap(ItemSaid, AnswerToOutput(a)) = (<<>> \o p) \o c
  <2>1. Maps(ItemSaid, Items, Uttered)
    BY SpokenMaps DEF Maps
  <2> HIDE DEF p, c
  <2> QED BY <1>7, <1>8, <1>9, <2>1, AnswerMaps
<1>11. <<>> \o p = p
  <2> HIDE DEF p
  <2> QED BY <1>4, ConcatEmptySeq
<1>12. <<m>> \in Seq(Messages) /\ <<m>> # <<>>
  <2> HIDE DEF m
  <2> QED BY <1>2
<1> HIDE DEF m, p, c
<1>13. FlatMap(ItemSaid, AnswerToOutput(a)) = p \o c
  BY <1>10, <1>11
<1>14. Spoken(History(a)) = FlatMap(ItemSaid, AnswerToOutput(a))
  BY <1>6, <1>13
<1> QED BY <1>1, <1>12, <1>13, <1>14 DEF p, c

\* What a streamed answer leaves: the same, or nothing if it said nothing to go on from.
LEMMA StreamedHistory ==
  ASSUME NEW a \in Answers
  PROVE  HistoryFromOutput(AnswerToOutput(a)) \in {<<>>, History(a)}
<1> DEFINE output == AnswerToOutput(a)
           x == ReasoningItems(a)
           y == TextItems(a)
           z == CallItems(a)
           calls == Only(output, {item \in ToSet(output) : item.type = "function_call"})
           text == Has(output, {"message"})
           heard == [text |-> text, calls |-> [i \in DOMAIN calls |-> calls[i].id]]
<1>0. /\ x \in Seq(Items) /\ y \in Seq(Items) /\ z \in Seq(Items) /\ output = (x \o y) \o z
      /\ output \in Seq(Items)
  <2>1. Maps(ItemSaid, Items, Uttered)
    BY SpokenMaps DEF Maps
  <2> QED BY <2>1, AnswerType, AnswerMaps
<1>1. HistoryFromOutput(output) = IF ~text /\ calls = <<>> THEN <<>> ELSE History(heard)
  BY DEF HistoryFromOutput
<1>2. CallKept \in [Items -> Seq(Items)]
  <2>1. \A e \in Items : (IF e.type = "function_call" THEN <<e>> ELSE <<>>) \in Seq(Items)
    OBVIOUS
  <2> QED BY <2>1 DEF CallKept
<1>3. calls = FlatMap(CallKept, output)
  <2> HIDE DEF output
  <2> DEFINE good == {item \in ToSet(output) : item.type = "function_call"}
  <2>1. \A i \in DOMAIN output : output[i] \in Items /\ output[i] \in ToSet(output)
    BY <1>0 DEF ToSet
  <2>2. \A i \in DOMAIN output :
          (IF output[i] \in good THEN <<output[i]>> ELSE <<>>) = CallKept[output[i]]
    BY <2>1 DEF CallKept
  <2>3. [i \in DOMAIN output |-> IF output[i] \in good THEN <<output[i]>> ELSE <<>>]
          = [i \in DOMAIN output |-> CallKept[output[i]]]
    BY <2>2
  <2> QED BY <2>3 DEF Only, FlatMap
<1>4. FlatMap(CallKept, x) = <<>>
  <2> DEFINE e == Item("reasoning", "assistant", <<>>, NoId)
  <2>1. CASE a.reasoning
    <3>1. x = <<e>>
      BY <2>1 DEF ReasoningItems
    <3>2. e \in Items
      BY DEF Item, Items, Roles, Identifiers
    <3>3. CallKept[e] = <<>>
      BY <3>2 DEF CallKept, Item
    <3> HIDE DEF e, x
    <3>4. FlatMap(CallKept, <<e>>) = CallKept[e]
      BY <1>2, <3>2, FlatMapOne
    <3> QED BY <3>1, <3>3, <3>4
  <2>2. CASE ~a.reasoning
    BY <2>2, FlatMapEmpty DEF ReasoningItems
  <2> QED BY <2>1, <2>2
<1>5. FlatMap(CallKept, y) = <<>>
  <2> DEFINE e == Item("message", "assistant", <<AnswerText>>, NoId)
  <2>1. CASE a.text
    <3>1. y = <<e>> /\ <<AnswerText>> \in Seq(Parts)
      <4>1. TextParts(a) = <<AnswerText>>
        BY <2>1 DEF TextParts
      <4> QED BY <2>1, <4>1, AnswerType DEF TextItems
    <3>2. e \in Items
      BY <3>1 DEF Item, Items, Roles, Identifiers
    <3>3. CallKept[e] = <<>>
      BY <3>2 DEF CallKept, Item
    <3> HIDE DEF e, y
    <3>4. FlatMap(CallKept, <<e>>) = CallKept[e]
      BY <1>2, <3>2, FlatMapOne
    <3> QED BY <3>1, <3>3, <3>4
  <2>2. CASE ~a.text
    BY <2>2, FlatMapEmpty DEF TextItems
  <2> QED BY <2>1, <2>2
<1>6. FlatMap(CallKept, z) = z
  <2>1. \A i \in DOMAIN z : CallKept[z[i]] = <<z[i]>>
    <3> SUFFICES ASSUME NEW i \in DOMAIN z PROVE CallKept[z[i]] = <<z[i]>>
      OBVIOUS
    <3>1. z[i] = Item("function_call", "assistant", <<>>, a.calls[i])
      BY AnswerType
    <3>2. z[i].type = "function_call"
      BY <3>1 DEF Item
    <3>3. z[i] \in Items
      BY <1>0
    <3> HIDE DEF z
    <3> QED BY <3>2, <3>3 DEF CallKept
  <2> HIDE DEF z
  <2>2. [i \in DOMAIN z |-> CallKept[z[i]]] = [i \in DOMAIN z |-> <<z[i]>>]
    BY <2>1
  <2> QED BY <1>0, <2>2, FlattenSingles DEF FlatMap
<1>7. calls = z
  <2>1. Maps(CallKept, Items, Items)
    BY <1>2 DEF Maps
  <2>2. FlatMap(CallKept, output)
          = (FlatMap(CallKept, x) \o FlatMap(CallKept, y)) \o FlatMap(CallKept, z)
    BY <2>1, AnswerMaps
  <2> HIDE DEF x, y, z, output
  <2>3. <<>> \o <<>> = <<>> /\ <<>> \o z = z
    BY <1>0, ConcatEmptySeq
  <2> QED BY <1>3, <1>4, <1>5, <1>6, <2>2, <2>3
<1>8. heard.calls = a.calls
  <2> DEFINE q == a.calls
  <2>1. DOMAIN z = DOMAIN q /\ q \in Seq(Identifiers)
    BY AnswerType
  <2>2. ASSUME NEW i \in DOMAIN q PROVE z[i].id = q[i]
    <3>1. z[i] = Item("function_call", "assistant", <<>>, q[i])
      BY AnswerType
    <3> QED BY <3>1 DEF Item
  <2> HIDE DEF z, q
  <2>3. [i \in DOMAIN z |-> z[i].id] = [i \in DOMAIN q |-> q[i]]
    BY <2>1, <2>2
  <2>4. q = [i \in DOMAIN q |-> q[i]]
    BY <2>1
  <2>5. heard.calls = [i \in DOMAIN calls |-> calls[i].id]
    OBVIOUS
  <2> HIDE DEF calls
  <2>6. heard.calls = q
    BY <1>7, <2>3, <2>4, <2>5
  <2> QED BY <2>6 DEF q
<1>9. text <=> a.text
  <2>1. /\ Len(x \o y) = Len(x) + Len(y) /\ Len((x \o y) \o z) = Len(x \o y) + Len(z)
        /\ \A i \in 1..Len(x) : (x \o y)[i] = x[i]
        /\ \A i \in 1..Len(y) : (x \o y)[Len(x) + i] = y[i]
        /\ \A i \in 1..Len(x \o y) : ((x \o y) \o z)[i] = (x \o y)[i]
        /\ \A i \in 1..Len(z) : ((x \o y) \o z)[Len(x \o y) + i] = z[i]
        /\ Len(x) \in Nat /\ Len(y) \in Nat /\ Len(z) \in Nat
    <3> HIDE DEF x, y, z
    <3>1. x \o y \in Seq(Items)
      BY <1>0, ConcatProperties
    <3> QED BY <1>0, <3>1, ConcatProperties, LenProperties
  <2>2. \A i \in 1..Len(x) : x[i].type = "reasoning"
    BY DEF ReasoningItems, Item
  <2>3. \A i \in 1..Len(z) : z[i].type = "function_call"
    <3>1. ASSUME NEW i \in DOMAIN z PROVE z[i].type = "function_call"
      <4>1. z[i] = Item("function_call", "assistant", <<>>, a.calls[i])
        BY AnswerType
      <4> QED BY <4>1 DEF Item
    <3>2. DOMAIN z = 1..Len(z)
      BY <1>0
    <3> HIDE DEF z
    <3> QED BY <3>1, <3>2
  <2>4. (a.text => Len(y) = 1 /\ y[1].type = "message") /\ (~a.text => Len(y) = 0)
    BY DEF TextItems, Item
  <2>5. DOMAIN output = 1..Len(output)
    BY <1>0
  <2>6. text <=> \E i \in DOMAIN output : output[i].type = "message"
    BY DEF Has
  <2> HIDE DEF x, y, z, output, text
  <2>7. ASSUME a.text PROVE text
    <3> DEFINE i == Len(x) + 1
    <3>0. Len(y) = 1 /\ Len(x \o y) = Len(x) + 1 /\ Len(output) = Len(x) + 1 + Len(z)
      BY <1>0, <2>1, <2>4, <2>7
    <3>1. i \in 1..Len(output) /\ i \in 1..Len(x \o y) /\ 1 \in 1..Len(y)
      BY <2>1, <3>0
    <3>2. output[i] = y[1]
      BY <1>0, <2>1, <3>1
    <3> QED BY <2>4, <2>5, <2>6, <2>7, <3>1, <3>2
  <2>8. ASSUME text, ~a.text PROVE FALSE
    <3>1. PICK i \in 1..Len(output) : output[i].type = "message"
      BY <2>5, <2>6, <2>8
    <3>2. Len(x \o y) = Len(x) /\ Len(output) = Len(x) + Len(z)
      <4>1. Len(y) = 0
        BY <2>4, <2>8
      <4> QED BY <1>0, <2>1, <4>1
    <3>3. CASE i \in 1..Len(x)
      <4>1. output[i] = x[i]
        BY <1>0, <2>1, <3>2, <3>3
      <4> QED BY <2>2, <3>1, <3>3, <4>1
    <3>4. CASE i \notin 1..Len(x)
      <4> DEFINE j == i - Len(x)
      <4>1. j \in 1..Len(z) /\ i = Len(x \o y) + j
        <5> DEFINE nx == Len(x)
                   nz == Len(z)
                   no == Len(output)
        <5>1. nx \in Nat /\ nz \in Nat /\ i \in 1..no /\ i \notin 1..nx /\ no = nx + nz
          BY <2>1, <3>1, <3>2, <3>4
        <5>2. j = i - nx
          OBVIOUS
        <5> HIDE DEF nx, nz, no, j
        <5>3. j \in 1..nz /\ i = nx + j
          BY <5>1, <5>2
        <5> QED BY <3>2, <5>3 DEF nx, nz
      <4> HIDE DEF j
      <4>2. output[i] = z[j]
        BY <1>0, <2>1, <4>1
      <4> QED BY <2>3, <3>1, <4>1, <4>2
    <3> QED BY <3>3, <3>4
  <2>9. a.text \in BOOLEAN /\ text \in BOOLEAN
    BY AnswerType DEF text, Has
  <2> QED BY <2>7, <2>8, <2>9
<1>10. History(heard) = History(a)
  <2>1. heard.text = text
    OBVIOUS
  <2> HIDE DEF heard, text
  <2> QED BY <1>8, <1>9, <2>1 DEF History
<1> HIDE DEF output, heard, text, calls
<1> QED BY <1>1, <1>10 DEF output

-------------------------------------------------------------------------------
(* Messages requests *)

Gathered == [items : Seq(Items), parts : Seq(Parts)]
Says(st, role) == FlatMap(ItemSaid, st.items) \o PartsSaid(role, st.parts)

\* One item more says what it says.
LEMMA ItemMore ==
  ASSUME NEW items \in Seq(Items), NEW x \in Items
  PROVE  /\ Append(items, x) \in Seq(Items)
         /\ FlatMap(ItemSaid, Append(items, x)) = FlatMap(ItemSaid, items) \o SaidByItem(x)
<1>1. ItemSaid[x] = SaidByItem(x)
  BY DEF ItemSaid
<1>2. FlatMap(ItemSaid, Append(items, x)) = FlatMap(ItemSaid, items) \o ItemSaid[x]
  <2>1. ItemSaid \in [Items -> Seq(Uttered)]
    BY SpokenMaps
  <2> QED BY <2>1, FlatMapAppend
<1> QED BY <1>1, <1>2, AppendProperties

\* Closing a message loses nothing.
LEMMA FlushSays ==
  ASSUME NEW st \in Gathered, NEW role \in Roles
  PROVE  /\ Flush(st, role) \in Gathered /\ Flush(st, role).parts = <<>>
         /\ FlatMap(ItemSaid, Flush(st, role).items) = Says(st, role)
         /\ Says(st, role) \in Seq(Uttered)
<1> DEFINE x == Item("message", role, st.parts, NoId)
           said == FlatMap(ItemSaid, st.items)
<1>1. st.items \in Seq(Items) /\ st.parts \in Seq(Parts)
  BY DEF Gathered
<1>2. said \in Seq(Uttered) /\ PartsSaid(role, st.parts) \in Seq(Uttered)
      /\ PartsSaid(role, <<>>) = <<>>
  BY <1>1, SpokenMaps, FlatMapType, PartsSaidType
<1>3. Says(st, role) \in Seq(Uttered)
  <2> HIDE DEF said
  <2>1. said \o PartsSaid(role, st.parts) \in Seq(Uttered)
    BY <1>2, ConcatProperties
  <2> QED BY <2>1 DEF Says, said
<1>4. CASE st.parts = <<>>
  <2>1. Flush(st, role) = st
    BY <1>4 DEF Flush
  <2>2. Says(st, role) = said \o <<>>
    BY <1>2, <1>4 DEF Says
  <2>3. Says(st, role) = said
    BY <1>2, <2>2, ConcatEmptySeq
  <2> QED BY <1>3, <1>4, <2>1, <2>3
<1>5. CASE st.parts # <<>>
  <2>1. x \in Items
    BY <1>1 DEF Item, Items, Identifiers
  <2>2. SaidByItem(x) = PartsSaid(role, st.parts)
    BY DEF SaidByItem, Item, PartsSaid
  <2>3. Flush(st, role) = [items |-> Append(st.items, x), parts |-> <<>>]
    BY <1>5 DEF Flush
  <2> HIDE DEF x
  <2>4. /\ Append(st.items, x) \in Seq(Items)
        /\ FlatMap(ItemSaid, Append(st.items, x)) = said \o PartsSaid(role, st.parts)
    BY <1>1, <2>1, <2>2, ItemMore
  <2>5. [items |-> Append(st.items, x), parts |-> <<>>] \in Gathered
    BY <2>4 DEF Gathered
  <2> QED BY <1>3, <2>3, <2>4, <2>5 DEF Says
<1> QED BY <1>4, <1>5

\* A block adds what it says.
LEMMA BlockSays ==
  ASSUME NEW st \in Gathered, NEW role \in Roles, NEW b \in Blocks
  PROVE  /\ TranslateBlock(st, role, b) \in Gathered
         /\ SaidByBlock(role, b) \in Seq(Uttered)
         /\ Says(TranslateBlock(st, role, b), role) = Says(st, role) \o SaidByBlock(role, b)
<1> DEFINE said == FlatMap(ItemSaid, st.items)
           new == TranslateBlock(st, role, b)
<1>0. /\ b.type \in {"text", "image", "thinking", "tool_use", "tool_result", "document", "other"}
      /\ b.id \in Identifiers /\ st.items \in Seq(Items) /\ st.parts \in Seq(Parts)
  BY DEF Blocks, Gathered
<1>1. said \in Seq(Uttered) /\ Says(st, role) \in Seq(Uttered)
  BY <1>0, FlushSays, SpokenMaps, FlatMapType
<1>2. CASE b.type \in {"text", "image"}
  <2> DEFINE f == [p \in Parts |-> <<role, p.type, p.id>>]
             r == PartsSaid(role, st.parts)
             e == <<role, b.type, b.id>>
  <2>1. new = [st EXCEPT !.parts = Append(@, b)]
    BY <1>2 DEF TranslateBlock
  <2>2. b \in Parts
    BY <1>2 DEF Blocks, Parts
  <2>3. Append(st.parts, b) \in Seq(Parts)
    BY <1>0, <2>2, AppendProperties
  <2>4. new \in Gathered /\ new.items = st.items /\ new.parts = Append(st.parts, b)
    BY <2>1, <2>3 DEF Gathered
  <2>5. SaidByBlock(role, b) = <<e>> /\ e \in Uttered /\ f[b] = e
    BY <1>0, <1>2, <2>2 DEF SaidByBlock, Uttered
  <2>6. f \in [Parts -> Uttered]
    BY DEF Parts, Uttered
  <2>7. ASSUME NEW q \in Seq(Parts) PROVE PartsSaid(role, q) = [i \in DOMAIN q |-> f[q[i]]]
    <3>1. \A i \in DOMAIN q : q[i] \in Parts
      OBVIOUS
    <3> QED BY <3>1 DEF PartsSaid
  <2>8. r \in Seq(Uttered)
    BY <1>0, PartsSaidType
  <2> HIDE DEF f, e, r, said
  <2>9. PartsSaid(role, Append(st.parts, b)) = Append(r, e)
    <3> DEFINE q == st.parts
               p == Append(q, b)
    <3>1. q \in Seq(Parts) /\ p \in Seq(Parts)
      BY <1>0, <2>3
    <3> HIDE DEF q, p
    <3>2. PartsSaid(role, q) = [i \in DOMAIN q |-> f[q[i]]]
          /\ PartsSaid(role, p) = [i \in DOMAIN p |-> f[p[i]]]
      BY <2>7, <3>1
    <3>3. [i \in DOMAIN p |-> f[p[i]]] = Append([i \in DOMAIN q |-> f[q[i]]], f[b])
      BY <2>2, <2>6, <3>1, MapAppend DEF p
    <3>4. PartsSaid(role, p) = Append(PartsSaid(role, q), f[b])
      BY <3>2, <3>3
    <3> QED BY <2>5, <3>4 DEF p, q, r
  <2>10. Append(r, e) = r \o <<e>> /\ <<e>> \in Seq(Uttered)
    BY <2>5, <2>8, AppendIsConcat
  <2>11. said \o (r \o <<e>>) = (said \o r) \o <<e>>
    BY <1>1, <2>8, <2>10, ConcatAssociative
  <2>12. Says(new, role) = said \o PartsSaid(role, Append(st.parts, b))
    BY <2>4 DEF Says, said
  <2>13. Says(st, role) = said \o r
    BY DEF Says, said, r
  <2> HIDE DEF new
  <2> QED BY <2>4, <2>5, <2>9, <2>10, <2>11, <2>12, <2>13 DEF new
<1>3. ASSUME NEW x \in Items,
             new = [Flush(st, role) EXCEPT !.items = Append(@, x)],
             SaidByItem(x) = SaidByBlock(role, b)
      PROVE  /\ new \in Gathered /\ SaidByBlock(role, b) \in Seq(Uttered)
             /\ Says(new, role) = Says(st, role) \o SaidByBlock(role, b)
  <2> DEFINE fl == Flush(st, role)
             w == SaidByBlock(role, b)
  <2>1. fl \in Gathered /\ fl.parts = <<>> /\ FlatMap(ItemSaid, fl.items) = Says(st, role)
    BY FlushSays
  <2>2. new = [fl EXCEPT !.items = Append(@, x)] /\ w = SaidByItem(x)
    BY <1>3
  <2> HIDE DEF fl, new, w
  <2>3. fl.items \in Seq(Items)
    BY <2>1 DEF Gathered
  <2>4. /\ Append(fl.items, x) \in Seq(Items)
        /\ FlatMap(ItemSaid, Append(fl.items, x)) = Says(st, role) \o w
    BY <2>1, <2>2, <2>3, ItemMore
  <2>5. new \in Gathered /\ new.items = Append(fl.items, x) /\ new.parts = <<>>
    BY <2>1, <2>2, <2>4 DEF Gathered
  <2>6. w \in Seq(Uttered)
    BY <2>2, SaidByItemType
  <2>7. Says(st, role) \o w \in Seq(Uttered)
    BY <1>1, <2>6, ConcatProperties
  <2>8. Says(new, role) = (Says(st, role) \o w) \o <<>>
    <3>1. PartsSaid(role, <<>>) = <<>>
      BY DEF PartsSaid
    <3> QED BY <2>4, <2>5, <3>1 DEF Says
  <2>9. Says(new, role) = Says(st, role) \o w
    BY <2>7, <2>8, ConcatEmptySeq
  <2> QED BY <2>5, <2>6, <2>9 DEF w
<1>4. CASE b.type = "tool_use"
  <2> DEFINE x == Item("function_call", role, <<>>, b.id)
  <2>1. x \in Items
    BY <1>0 DEF Item, Items
  <2>2. new = [Flush(st, role) EXCEPT !.items = Append(@, x)]
    BY <1>4 DEF TranslateBlock
  <2>3. SaidByItem(x) = SaidByBlock(role, b)
    BY <1>4 DEF SaidByItem, SaidByBlock, Item
  <2> HIDE DEF x, new
  <2> QED BY <1>3, <2>1, <2>2, <2>3 DEF new
<1>5. CASE b.type = "tool_result"
  <2> DEFINE x == Item("function_call_output", role, <<>>, b.id)
  <2>1. x \in Items
    BY <1>0 DEF Item, Items
  <2>2. new = [Flush(st, role) EXCEPT !.items = Append(@, x)]
    BY <1>5 DEF TranslateBlock
  <2>3. SaidByItem(x) = SaidByBlock(role, b)
    BY <1>5 DEF SaidByItem, SaidByBlock, Item
  <2> HIDE DEF x, new
  <2> QED BY <1>3, <2>1, <2>2, <2>3 DEF new
<1>6. CASE b.type \in {"thinking", "document", "other"}
  <2>1. new = st /\ SaidByBlock(role, b) = <<>>
    BY <1>6 DEF TranslateBlock, SaidByBlock
  <2>2. Says(st, role) \o <<>> = Says(st, role)
    BY <1>1, ConcatEmptySeq
  <2> QED BY <2>1, <2>2
<1> QED BY <1>0, <1>2, <1>4, <1>5, <1>6

\* The items of a message, block by block.
BlockTraces(m, t) ==
  /\ t[0] = [items |-> <<>>, parts |-> <<>>]
  /\ \A i \in 0..(Len(m.blocks) - 1) : t[i + 1] = TranslateBlock(t[i], m.role, m.blocks[i + 1])
  /\ \A i \in 0..Len(m.blocks) : t[i] \in Gathered
  /\ TranslateMessage(m) = Flush(t[Len(m.blocks)], m.role).items

LEMMA BlockTrace ==
  ASSUME NEW m \in Turns
  PROVE  \E t : BlockTraces(m, t)
<1> DEFINE q == m.blocks
           n == Len(q)
           base == [items |-> <<>>, parts |-> <<>>]
           Step(st, b) == TranslateBlock(st, m.role, b)
           f == [p \in Gathered \X Blocks |-> TranslateBlock(p[1], m.role, p[2])]
           Solves(g) == g = [S \in SUBSET (DOMAIN q) |->
                              IF S = {} THEN base ELSE Step(g[S \ {Max(S)}], q[Max(S)])]
           F == CHOOSE g : Solves(g)
           t == [i \in 0..n |-> F[1..i]]
<1>0. m.role \in Roles /\ q \in Seq(Blocks)
  BY DEF Turns
<1>1. n \in Nat /\ DOMAIN q = 1..n /\ \A i \in 1..n : q[i] \in Blocks
  BY <1>0
<1>2. base \in Gathered
  <2>1. <<>> \in Seq(Items) /\ <<>> \in Seq(Parts)
    OBVIOUS
  <2> QED BY <2>1 DEF Gathered
<1>3. f \in [Gathered \X Blocks -> Gathered] /\ \A st \in Gathered, b \in Blocks : f[<<st, b>>] = Step(st, b)
  BY <1>0, BlockSays
<1>4. TranslateMessage(m) = Flush(FoldLeft(Step, base, q), m.role).items
  BY DEF TranslateMessage
<1> HIDE DEF f, q, base
<1>5. PICK g \in [SUBSET (1..n) -> Gathered] : Folds(g, f, base, q, n)
  BY <1>0, <1>2, <1>3, FoldsExists
<1>6. Solves(g)
  <2>1. ASSUME NEW S \in SUBSET (1..n)
        PROVE  g[S] = IF S = {} THEN base ELSE Step(g[S \ {Max(S)}], q[Max(S)])
    <3>1. CASE S = {}
      BY <1>5, <3>1 DEF Folds
    <3>2. CASE S # {}
      <4>1. Max(S) \in S
        BY <1>1, <3>2, MaxOfNumbers
      <4>2. g[S \ {Max(S)}] \in Gathered /\ q[Max(S)] \in Blocks
        BY <1>1, <4>1
      <4>3. g[S] = f[<<g[S \ {Max(S)}], q[Max(S)]>>]
        BY <1>5, <3>2 DEF Folds
      <4> QED BY <1>3, <3>2, <4>2, <4>3
    <3> QED BY <3>1, <3>2
  <2>2. g = [S \in SUBSET (1..n) |-> g[S]]
    OBVIOUS
  <2> QED BY <1>1, <2>1, <2>2
<1>7. Solves(F)
  <2> HIDE DEF Solves
  <2> QED BY <1>6
<1>8. FoldLeft(Step, base, q) = F[DOMAIN q]
  BY Zenon DEF FoldLeft, MapThenFoldSet
<1> HIDE DEF F
<1>9. F[{}] = base
  BY <1>7
<1>10. \A k \in 1..n : F[1..k] = Step(F[1..(k - 1)], q[k])
  <2> SUFFICES ASSUME NEW k \in 1..n PROVE F[1..k] = Step(F[1..(k - 1)], q[k])
    OBVIOUS
  <2>1. 1..k \in SUBSET (DOMAIN q) /\ 1..k # {}
    <3>1. 1..k \subseteq 1..n /\ 1 \in 1..k
      BY <1>1
    <3> HIDE DEF n
    <3> QED BY <3>1, <1>1
  <2>2. Max(1..k) = k /\ (1..k) \ {k} = 1..(k - 1)
    BY <1>1, MaxOfUpto
  <2>3. F[1..k] = Step(F[(1..k) \ {Max(1..k)}], q[Max(1..k)])
    BY <1>7, <2>1
  <2> QED BY <2>2, <2>3
<1>11. t[0] = base
  <2>1. 1..0 = {}
    OBVIOUS
  <2> QED BY <1>1, <1>9, <2>1
<1>12. \A i \in 0..(n - 1) : t[i + 1] = Step(t[i], q[i + 1])
  <2> SUFFICES ASSUME NEW i \in 0..(n - 1) PROVE t[i + 1] = Step(t[i], q[i + 1])
    OBVIOUS
  <2> DEFINE k == i + 1
  <2>1. k \in 1..n /\ k - 1 = i /\ i \in 0..n /\ k \in 0..n
    BY <1>1
  <2>2. t[k] = F[1..k] /\ t[i] = F[1..i]
    BY <2>1
  <2> HIDE DEF k, t
  <2>3. F[1..k] = Step(F[1..(k - 1)], q[k])
    BY <2>1, <1>10
  <2>4. t[k] = Step(t[i], q[k])
    BY <2>1, <2>2, <2>3
  <2> QED BY <2>4 DEF k
<1>13. t[n] = F[DOMAIN q]
  BY <1>1
<1>14. \A i \in 0..n : t[i] \in Gathered
  <2> DEFINE T == {i \in Nat : t[i] \in Gathered}
  <2>1. 0 \in T
    BY <1>2, <1>11
  <2>2. ASSUME NEW i \in 0..(n - 1), i \in T PROVE i + 1 \in T
    <3> HIDE DEF t
    <3>1. i + 1 \in 1..n /\ i \in Nat
      BY <1>1
    <3>2. t[i] \in Gathered /\ q[i + 1] \in Blocks
      BY <1>1, <2>2, <3>1
    <3>3. Step(t[i], q[i + 1]) \in Gathered
      BY <1>0, <3>2, BlockSays
    <3>4. t[i + 1] = Step(t[i], q[i + 1])
      BY <1>12
    <3> QED BY <3>1, <3>3, <3>4
  <2> HIDE DEF T
  <2>3. \A i \in 0..n : i \in T
    BY <1>1, <2>1, <2>2, StepByStep
  <2> QED BY <2>3 DEF T
<1> HIDE DEF t
<1>15. BlockTraces(m, t)
  BY <1>4, <1>8, <1>11, <1>12, <1>13, <1>14 DEF BlockTraces, q, base
<1> QED BY <1>15

\* What a client's message says, and what is made of it.
TurnSaid == [m \in Turns |->
               FlattenSeq([j \in DOMAIN m.blocks |-> SaidByBlock(m.role, m.blocks[j])])]
TurnTranslated == [m \in Turns |-> TranslateMessage(m)]

LEMMA TurnKept ==
  ASSUME NEW m \in Turns
  PROVE  /\ TranslateMessage(m) \in Seq(Items) /\ TurnSaid[m] \in Seq(Uttered)
         /\ FlatMap(ItemSaid, TranslateMessage(m)) = TurnSaid[m]
<1> DEFINE q == m.blocks
           n == Len(q)
           role == m.role
           ss == [j \in DOMAIN q |-> SaidByBlock(role, q[j])]
<1>0. role \in Roles /\ q \in Seq(Blocks)
  BY DEF Turns
<1>1. n \in Nat /\ DOMAIN q = 1..n /\ \A i \in 1..n : q[i] \in Blocks
  BY <1>0
<1>2. ss \in Seq(Seq(Uttered)) /\ Len(ss) = n /\ \A i \in 1..n : ss[i] = SaidByBlock(role, q[i])
  <2> DEFINE f == [b \in Blocks |-> SaidByBlock(role, b)]
             z == [items |-> <<>>, parts |-> <<>>]
  <2>1. z \in Gathered
    <3>1. <<>> \in Seq(Items) /\ <<>> \in Seq(Parts)
      OBVIOUS
    <3> QED BY <3>1 DEF Gathered
  <2>2. \A b \in Blocks : SaidByBlock(role, b) \in Seq(Uttered)
    <3> HIDE DEF z
    <3> QED BY <1>0, <2>1, BlockSays
  <2>3. f \in [Blocks -> Seq(Uttered)]
    BY <2>2
  <2>4. ss = [j \in DOMAIN q |-> f[q[j]]]
    BY <1>1
  <2>5. \A i \in 1..n : ss[i] = SaidByBlock(role, q[i])
    BY <1>1
  <2> HIDE DEF f, q, ss
  <2>6. ss \in Seq(Seq(Uttered)) /\ Len(ss) = n
    <3> DEFINE Y == Seq(Uttered)
    <3>1. f \in [Blocks -> Y] /\ q \in Seq(Blocks)
      BY <1>0, <2>3
    <3> HIDE DEF Y
    <3>2. [j \in DOMAIN q |-> f[q[j]]] \in Seq(Y) /\ Len([j \in DOMAIN q |-> f[q[j]]]) = Len(q)
      BY <3>1, MapType
    <3> QED BY <2>4, <3>2 DEF Y
  <2> QED BY <2>5, <2>6
<1>3. TurnSaid[m] = FlattenSeq(ss)
  BY DEF TurnSaid
<1>4. PICK t : BlockTraces(m, t)
  BY BlockTrace
<1> HIDE DEF ss
<1>5. PICK u \in [0..n -> Seq(Uttered)] : Concats(u, ss, n) /\ FlattenSeq(ss) = u[n]
  <2>1. \E u \in [0..Len(ss) -> Seq(Uttered)] : Concats(u, ss, Len(ss)) /\ FlattenSeq(ss) = u[Len(ss)]
    BY <1>2, FlattenTrace
  <2> QED BY <1>2, <2>1
<1>6. /\ t[0] = [items |-> <<>>, parts |-> <<>>]
      /\ \A i \in 0..(n - 1) : t[i + 1] = TranslateBlock(t[i], role, q[i + 1])
      /\ \A i \in 0..n : t[i] \in Gathered
      /\ TranslateMessage(m) = Flush(t[n], role).items
  BY <1>4 DEF BlockTraces
<1> HIDE DEF q, role
<1> DEFINE T == {i \in Nat : Says(t[i], role) = u[i]}
<1>7. 0 \in T
  <2>1. u[0] = <<>>
    BY <1>5 DEF Concats
  <2>2. t[0].items = <<>> /\ t[0].parts = <<>>
    BY <1>6
  <2>3. Says(t[0], role) = <<>> \o <<>>
    BY <2>2, FlatMapEmpty DEF Says, PartsSaid
  <2>4. <<>> \o <<>> = <<>>
    OBVIOUS
  <2> QED BY <2>1, <2>3, <2>4
<1>8. ASSUME NEW i \in 0..(n - 1), i \in T PROVE i + 1 \in T
  <2>1. i + 1 \in 1..n /\ i \in Nat /\ i \in 0..n
    BY <1>1
  <2>2. t[i] \in Gathered /\ q[i + 1] \in Blocks /\ Says(t[i], role) = u[i]
    BY <1>1, <1>6, <1>8, <2>1
  <2>3. t[i + 1] = TranslateBlock(t[i], role, q[i + 1])
    BY <1>6
  <2>4. u[i + 1] = u[i] \o SaidByBlock(role, q[i + 1])
    BY <1>2, <1>5, <2>1 DEF Concats
  <2>5. Says(t[i + 1], role) = Says(t[i], role) \o SaidByBlock(role, q[i + 1])
    BY <1>0, <2>2, <2>3, BlockSays
  <2>6. Says(t[i + 1], role) = u[i + 1]
    BY <2>2, <2>4, <2>5
  <2> QED BY <2>1, <2>6
<1>9. Says(t[n], role) = u[n]
  <2> HIDE DEF T
  <2>1. \A i \in 0..n : i \in T
    BY <1>1, <1>7, <1>8, StepByStep
  <2>2. n \in T
    BY <1>1, <2>1
  <2> QED BY <2>2 DEF T
<1>10. t[n] \in Gathered /\ u[n] \in Seq(Uttered)
  BY <1>1, <1>5, <1>6
<1>11. TranslateMessage(m) \in Seq(Items) /\ FlatMap(ItemSaid, TranslateMessage(m)) = Says(t[n], role)
  <2>1. Flush(t[n], role) \in Gathered /\ FlatMap(ItemSaid, Flush(t[n], role).items) = Says(t[n], role)
    BY <1>0, <1>10, FlushSays
  <2> QED BY <1>6, <2>1 DEF Gathered
<1> QED BY <1>3, <1>5, <1>9, <1>10, <1>11

\* Messages are made into items that say what they say.
LEMMA TurnsKept ==
  ASSUME NEW msgs \in Seq(Turns)
  PROVE  /\ FlattenSeq([i \in DOMAIN msgs |-> TranslateMessage(msgs[i])]) = FlatMap(TurnTranslated, msgs)
         /\ FlatMap(TurnTranslated, msgs) \in Seq(Items)
         /\ FlatMap(ItemSaid, FlatMap(TurnTranslated, msgs)) = FlatMap(TurnSaid, msgs)
         /\ Maps(TurnSaid, Turns, Uttered)
<1>1. FlattenSeq([i \in DOMAIN msgs |-> TranslateMessage(msgs[i])]) = FlatMap(TurnTranslated, msgs)
  <2>1. \A i \in DOMAIN msgs : msgs[i] \in Turns
    OBVIOUS
  <2>2. [i \in DOMAIN msgs |-> TranslateMessage(msgs[i])] = [i \in DOMAIN msgs |-> TurnTranslated[msgs[i]]]
    BY <2>1 DEF TurnTranslated
  <2> QED BY <2>2 DEF FlatMap
<1>2. TurnTranslated \in [Turns -> Seq(Items)] /\ TurnSaid \in [Turns -> Seq(Uttered)]
  <2>1. TurnTranslated \in [Turns -> Seq(Items)]
    BY TurnKept DEF TurnTranslated
  <2>2. DOMAIN TurnSaid = Turns /\ TurnSaid = [m \in Turns |-> TurnSaid[m]]
    BY DEF TurnSaid
  <2> QED BY <2>1, <2>2, TurnKept
<1>3. FlatMap(TurnTranslated, msgs) \in Seq(Items)
  <2>1. TurnTranslated \in [Turns -> Seq(Items)]
    BY <1>2
  <2> QED BY <2>1, FlatMapType
<1>4. Composed(TurnSaid, ItemSaid, TurnTranslated, Turns)
  BY TurnKept DEF Composed, TurnTranslated
<1>5. Maps(TurnTranslated, Turns, Items) /\ Maps(ItemSaid, Items, Uttered)
      /\ Maps(TurnSaid, Turns, Uttered)
  BY <1>2, SpokenMaps DEF Maps
<1>6. Twice(TurnSaid, ItemSaid, TurnTranslated, Turns)
  BY <1>4, <1>5, FlatMapsTwice
<1> QED BY <1>1, <1>3, <1>5, <1>6 DEF Twice

\* What was asked, as a map of what its messages say, is what the items made of it say.
LEMMA InputSays ==
  ASSUME NEW msgs \in Seq(Turns), MessagesToInput(msgs) # Refused
  PROVE  /\ MessagesToInput(msgs) \in Seq(Items)
         /\ FlatMap(ItemSaid, MessagesToInput(msgs)) = FlatMap(TurnSaid, msgs)
<1>1. MessagesToInput(msgs) = FlatMap(TurnTranslated, msgs)
  BY TurnsKept DEF MessagesToInput
<1> QED BY <1>1, TurnsKept

-------------------------------------------------------------------------------
(* Requests *)

\* The input of an ask says what was asked.
LEMMA AskSays ==
  ASSUME NEW ask \in Asks, InputOf(ask) # Refused
  PROVE  InputOf(ask) \in Seq(Items) /\ FlatMap(ItemSaid, InputOf(ask)) = Asked(ask)
<1>1. CASE ask.api = "messages"
  <2> DEFINE q == ask.payload
  <2>1. q \in Seq(Turns)
    BY <1>1, AsksAssumption
  <2>2. InputOf(ask) = MessagesToInput(q)
    BY <1>1 DEF InputOf
  <2>3. Asked(ask) = FlatMap(TurnSaid, q)
    <3>1. Asked(ask) = FlattenSeq([i \in DOMAIN q |->
                         FlattenSeq([j \in DOMAIN q[i].blocks |->
                           SaidByBlock(q[i].role, q[i].blocks[j])])])
      BY <1>1 DEF Asked
    <3> HIDE DEF q
    <3>2. \A i \in DOMAIN q : q[i] \in Turns
      BY <2>1
    <3>3. [i \in DOMAIN q |-> FlattenSeq([j \in DOMAIN q[i].blocks |->
                                SaidByBlock(q[i].role, q[i].blocks[j])])]
            = [i \in DOMAIN q |-> TurnSaid[q[i]]]
      BY <3>2 DEF TurnSaid
    <3> QED BY <3>1, <3>3 DEF FlatMap
  <2> HIDE DEF q
  <2>4. MessagesToInput(q) # Refused
    BY <2>2
  <2> QED BY <2>1, <2>2, <2>3, <2>4, InputSays
<1>2. CASE ask.api # "messages"
  <2> DEFINE q == ask.payload
  <2>1. q \in Seq(Items)
    BY <1>2, AsksAssumption
  <2>2. InputOf(ask) = q
    BY <1>2 DEF InputOf
  <2>3. Asked(ask) = FlattenSeq([i \in DOMAIN q |-> SaidByItem(q[i])])
    BY <1>2 DEF Asked
  <2> HIDE DEF q
  <2> QED BY <2>1, <2>2, <2>3, SpokenMaps
<1> QED BY <1>1, <1>2

\* What is in the ring is of an answer that was given and may be named.
LEMMA EntryMeans ==
  ASSUME Types, Sound, NEW s \in Slots, NEW id, Holds(Live(store[s]), id)
  PROVE  /\ id \in DOMAIN told /\ told[id].slot = s /\ told[id].age < TTL
         /\ EntryOf(store[s], id).history = Left(told[id])
<1>1. store[s] \in Seq(Entries) /\ Rising(store[s])
  BY DEF Types, Sound
<1>2. \A x : x \in ToSet(Live(store[s])) <=> x \in ToSet(store[s]) /\ x.age < TTL
  BY <1>1, LiveKeeps
<1>3. PICK e \in ToSet(store[s]) : e.id = id /\ e.age < TTL
  <2> DEFINE ring == Live(store[s])
  <2>1. PICK i \in DOMAIN ring : ring[i].id = id
    BY DEF Holds
  <2>2. ring[i] \in ToSet(ring)
    BY DEF ToSet
  <2> HIDE DEF ring
  <2> QED BY <1>2, <2>1, <2>2 DEF ring
<1>4. id \in DOMAIN told /\ told[id].slot = s /\ told[id].age < TTL
  BY <1>3 DEF Sound
<1>5. EntryOf(store[s], id).history = Left(told[id])
  <2> DEFINE ring == store[s]
             j == CHOOSE i \in DOMAIN ring : ring[i].id = id
  <2>1. PICK i \in DOMAIN ring : e = ring[i]
    BY <1>3 DEF ToSet
  <2>2. j \in DOMAIN ring /\ ring[j].id = id
    BY <1>3, <2>1
  <2>3. EntryOf(ring, id) = ring[j]
    BY DEF EntryOf
  <2>4. ring[j] \in ToSet(store[s])
    BY <2>2 DEF ToSet
  <2> HIDE DEF ring, j
  <2>5. ring[j].history = Left(told[ring[j].id])
    BY <2>4 DEF Sound
  <2> QED BY <2>2, <2>3, <2>5 DEF ring
<1> QED BY <1>4, <1>5

\* A request that is translated says what it goes on from, then what it asks.
LEMMA RequestMeans ==
  ASSUME Types, Sound, NEW s \in Slots, NEW input \in Seq(Items), NEW instructions \in BOOLEAN,
         NEW prev, TranslateRequest(store[s], input, instructions, prev) # Refused
  PROVE  /\ TranslateRequest(store[s], input, instructions, prev) \in Seq(Messages)
         /\ TranslateRequest(store[s], input, instructions, prev) # Untranslated
         /\ prev # NoPrevious => prev \in DOMAIN told
         /\ InputToChat(input, instructions) # Refused
         /\ TranslateRequest(store[s], input, instructions, prev)
              = Resumed(told, prev) \o InputToChat(input, instructions)
<1> DEFINE chat == InputToChat(input, instructions)
           ring == Live(store[s])
           history == IF Holds(ring, prev) THEN EntryOf(store[s], prev).history ELSE <<>>
           r == TranslateRequest(store[s], input, instructions, prev)
<1>0. prev = NoPrevious => history = <<>>
  <2> SUFFICES ASSUME prev = NoPrevious, Holds(ring, prev) PROVE FALSE
    OBVIOUS
  <2>1. prev \in DOMAIN told
    BY EntryMeans
  <2>2. DOMAIN told = 1..Len(told)
    BY DEF Types
  <2> QED BY <2>1, <2>2 DEF NoPrevious
<1>1. r = IF chat = Refused \/ (prev # NoPrevious /\ history = <<>>) THEN Refused
          ELSE history \o chat
  BY DEF TranslateRequest
<1>2. chat # Refused /\ (prev = NoPrevious \/ history # <<>>) /\ r = history \o chat
  BY <1>1
<1>3. chat \in Seq(Messages) /\ chat # <<>>
  BY <1>2, ChatSays
<1>4. CASE prev = NoPrevious
  <2>1. r = <<>> \o chat /\ Resumed(told, prev) = <<>>
    BY <1>0, <1>2, <1>4 DEF Resumed
  <2> HIDE DEF r, chat
  <2>2. <<>> \o chat = chat
    BY <1>3, ConcatEmptySeq
  <2> QED BY <1>2, <1>3, <1>4, <2>1, <2>2 DEF r, chat, Untranslated
<1>5. CASE prev # NoPrevious
  <2>1. Holds(ring, prev) /\ history = EntryOf(store[s], prev).history
    BY <1>2, <1>5
  <2>2. prev \in DOMAIN told /\ history = Left(told[prev])
    BY <2>1, EntryMeans
  <2>3. r = history \o chat
    BY <1>2
  <2>4. told[prev].answer \in Answers
    <3>1. told[prev] \in Given
      BY <2>2 DEF Types
    <3> QED BY <3>1 DEF Given
  <2> HIDE DEF r, chat, history, ring
  <2>5. history = Resumed(told, prev)
    BY <1>2, <1>5, <2>2 DEF Left, Resumed
  <2>6. Resumed(told, prev) \in Seq(Messages)
    BY <1>5, <2>4, HistorySays DEF Resumed
  <2>7. history \o chat \in Seq(Messages) /\ history \o chat # <<>>
    <3> DEFINE x == history
    <3>1. x \in Seq(Messages)
      BY <2>5, <2>6
    <3> HIDE DEF x
    <3>2. x \o chat \in Seq(Messages) /\ Len(x \o chat) = Len(x) + Len(chat)
          /\ Len(x) \in Nat /\ Len(chat) \in Nat /\ Len(chat) # 0
      BY <1>3, <3>1, ConcatProperties, LenProperties, EmptySeq
    <3>3. Len(x \o chat) # 0
      BY <3>2
    <3>4. x \o chat # <<>>
      BY <3>3
    <3> QED BY <3>2, <3>4 DEF x
  <2> QED BY <1>2, <2>2, <2>3, <2>5, <2>7 DEF r, chat, Untranslated
<1> QED BY <1>4, <1>5

-------------------------------------------------------------------------------
(* The rings and the answers they are of *)

\* Later answers of a slot, and a ring that has only such.
LEMMA LaterFinite ==
  ASSUME Types, NEW id \in DOMAIN told
  PROVE  IsFiniteSet(Later(id)) /\ Cardinality(Later(id)) \in Nat
<1> DEFINE a == id + 1
           b == Len(told)
<1>1. a \in Int /\ b \in Int
  BY DEF Types
<1>2. Later(id) \subseteq a..b
  BY DEF Later
<1> HIDE DEF a, b
<1>3. IsFiniteSet(a..b)
  BY <1>1, FS_Interval
<1>4. IsFiniteSet(Later(id))
  BY <1>2, <1>3, FS_Subset
<1> QED BY <1>4, FS_CardinalityType

\* Expiring a ring takes nothing that may still be named.
LEMMA Expires ==
  ASSUME Types, Sound, Complete, NEW s \in Slots, Expire(s), told' = told
  PROVE  store' \in [Slots -> Seq(Entries)] /\ Sound' /\ Complete'
<1>0. store \in [Slots -> Seq(Entries)] /\ told \in Seq(Given)
  BY DEF Types
<1>1. ASSUME NEW z \in Slots
      PROVE  store'[z] = IF z = s THEN Live(store[s]) ELSE store[z]
  BY <1>0 DEF Expire
<1>2. /\ Live(store[s]) \in Seq(Entries) /\ Rising(Live(store[s]))
      /\ Len(Live(store[s])) <= Len(store[s])
      /\ \A e : e \in ToSet(Live(store[s])) <=> e \in ToSet(store[s]) /\ e.age < TTL
  <2>1. store[s] \in Seq(Entries) /\ Rising(store[s])
    BY <1>0 DEF Sound
  <2> QED BY <2>1, LiveKeeps
<1>3. store' \in [Slots -> Seq(Entries)]
  <2>1. store' = [store EXCEPT ![s] = Live(store[s])]
    BY DEF Expire
  <2> QED BY <1>0, <1>2, <2>1
<1>4. Sound'
  <2> SUFFICES ASSUME NEW z \in Slots
               PROVE  /\ Rising(store'[z]) /\ Len(store'[z]) <= MaxEntries
                      /\ \A e \in ToSet(store'[z]) :
                           /\ e.id \in DOMAIN told /\ told[e.id].slot = z
                           /\ told[e.id].age = e.age /\ e.history = Left(told[e.id])
    BY DEF Sound, Left
  <2>1. CASE z # s
    BY <1>1, <2>1 DEF Sound
  <2>2. CASE z = s
    <3>1. Len(Live(store[s])) \in Nat /\ Len(store[s]) \in Nat /\ Len(store[s]) <= MaxEntries
          /\ MaxEntries \in Nat
      BY <1>0, <1>2, LenProperties, LimitsAssumption DEF Sound
    <3>2. Len(Live(store[s])) <= MaxEntries
      BY <1>2, <3>1
    <3> QED BY <1>1, <1>2, <2>2, <3>2 DEF Sound
  <2> QED BY <2>1, <2>2
<1>5. Complete'
  <2> SUFFICES ASSUME NEW id \in DOMAIN told, told[id].age < TTL
               PROVE  \/ \E e \in ToSet(store'[told[id].slot]) : e.id = id
                      \/ Cardinality(Later(id)) >= MaxEntries
    BY DEF Complete, Held, Later
  <2> SUFFICES ASSUME Held(id) PROVE \E e \in ToSet(store'[told[id].slot]) : e.id = id
    BY DEF Complete
  <2>1. told[id].slot \in Slots
    <3>1. told[id] \in Given
      BY <1>0
    <3> QED BY <3>1 DEF Given
  <2>2. PICK e \in ToSet(store[told[id].slot]) : e.id = id
    BY DEF Held
  <2>3. e.age < TTL
    BY <2>1, <2>2 DEF Sound
  <2>4. e \in ToSet(store'[told[id].slot])
    BY <1>1, <1>2, <2>1, <2>2, <2>3
  <2> QED BY <2>2, <2>4
<1> QED BY <1>3, <1>4, <1>5

\* Rings and answers may stay as they are.
LEMMA RingsStay ==
  ASSUME Types, Sound, Complete, UNCHANGED <<store, told>>
  PROVE  store' \in [Slots -> Seq(Entries)] /\ Sound' /\ Complete'
<1>1. store' = store /\ told' = told
  OBVIOUS
<1>2. Sound'
  BY <1>1 DEF Sound, Left, Rising
<1>3. Complete'
  BY <1>1 DEF Complete, Held, Later
<1> QED BY <1>1, <1>2, <1>3 DEF Types

\* An answer gets its place in the ring.
LEMMA Stores ==
  ASSUME Types, Sound, Complete, NEW s \in Slots, NEW t \in Given,
         t.slot = s, t.age = 0, told' = Append(told, t),
         store' = [store EXCEPT ![s] =
                     PutFull(@, [id |-> Len(told) + 1, history |-> Left(t), age |-> 0])]
  PROVE  /\ store' \in [Slots -> Seq(Entries)] /\ told' \in Seq(Given) /\ Sound' /\ Complete'
         /\ \A id \in DOMAIN told : id \in DOMAIN told' /\ told'[id] = told[id]
<1> DEFINE n == Len(told)
           x == [id |-> n + 1, history |-> Left(t), age |-> 0]
           r == store[s]
           o == PutFull(r, x)
<1>0. store \in [Slots -> Seq(Entries)] /\ told \in Seq(Given) /\ n \in Nat /\ DOMAIN told = 1..n
  BY DEF Types
<1>1. /\ told' \in Seq(Given) /\ DOMAIN told' = 1..(n + 1) /\ Len(told') = n + 1
      /\ told'[n + 1] = t /\ \A id \in 1..n : told'[id] = told[id]
  <2>1. Len(Append(told, t)) = n + 1 /\ Append(told, t) \in Seq(Given)
        /\ (\A i \in 1..n : Append(told, t)[i] = told[i]) /\ Append(told, t)[n + 1] = t
    BY <1>0, AppendProperties
  <2>2. DOMAIN Append(told, t) = 1..Len(Append(told, t))
    BY <2>1
  <2> QED BY <2>1, <2>2
<1>2. \A id \in DOMAIN told : id \in DOMAIN told' /\ told'[id] = told[id]
  BY <1>0, <1>1
<1>3. x \in Entries
  <2>1. Left(t) \in Seq(Messages)
    <3>1. t.answer \in Answers
      BY DEF Given
    <3>2. History(t.answer) \in Seq(Messages)
      BY <3>1, HistorySays
    <3>3. <<>> \in Seq(Messages)
      OBVIOUS
    <3> QED BY <3>2, <3>3 DEF Left
  <2>2. 0 \in 0..TTL /\ n + 1 \in Nat \ {0}
    BY <1>0, LimitsAssumption
  <2> QED BY <2>1, <2>2 DEF Entries
<1>4. r \in Seq(Entries) /\ Rising(r) /\ Len(r) <= MaxEntries
  BY <1>0 DEF Sound
<1>5. \A e \in ToSet(r) : e.id < x.id
  <2> SUFFICES ASSUME NEW e \in ToSet(r) PROVE e.id < n + 1
    OBVIOUS
  <2>1. e.id \in DOMAIN told
    BY DEF Sound
  <2> QED BY <1>0, <2>1
<1>6. x.id = n + 1 /\ x.age = 0 /\ x.history = Left(t)
  OBVIOUS
<1>7. store' = [store EXCEPT ![s] = o]
  OBVIOUS
<1> HIDE DEF x, n, r
<1>8. PutWell(o, r, x)
  BY <1>3, <1>4, <1>5, PutKeeps
<1> HIDE DEF o
<1>9. o \in Seq(Entries)
  BY <1>8 DEF PutWell
<1>10. store' \in [Slots -> Seq(Entries)]
  BY <1>0, <1>7, <1>9
<1>11. \A z \in Slots : store'[z] = IF z = s THEN o ELSE store[z]
  BY <1>0, <1>7
<1>12. Sound'
  <2> SUFFICES ASSUME NEW z \in Slots
               PROVE  /\ Rising(store'[z]) /\ Len(store'[z]) <= MaxEntries
                      /\ \A e \in ToSet(store'[z]) :
                           /\ e.id \in DOMAIN told' /\ told'[e.id].slot = z
                           /\ told'[e.id].age = e.age /\ e.history = Left(told'[e.id])
    BY DEF Sound, Left, Rising
  <2>1. ASSUME NEW y \in Slots, NEW e \in ToSet(store[y])
        PROVE  /\ e.id \in DOMAIN told' /\ told'[e.id].slot = y
               /\ told'[e.id].age = e.age /\ e.history = Left(told'[e.id])
    <3>1. /\ e.id \in DOMAIN told /\ told[e.id].slot = y
          /\ told[e.id].age = e.age /\ e.history = Left(told[e.id])
      BY DEF Sound
    <3> QED BY <1>2, <3>1
  <2>2. CASE z # s
    <3>1. store'[z] = store[z]
      BY <1>11, <2>2
    <3>2. Rising(store[z]) /\ Len(store[z]) <= MaxEntries
      BY DEF Sound
    <3> QED BY <2>1, <3>1, <3>2
  <2>3. CASE z = s
    <3>1. Rising(o) /\ Len(o) <= MaxEntries /\ \A e \in ToSet(o) : e = x \/ e \in ToSet(store[s])
      BY <1>8 DEF PutWell, r
    <3>2. /\ x.id \in DOMAIN told' /\ told'[x.id].slot = s
          /\ told'[x.id].age = x.age /\ x.history = Left(told'[x.id])
      BY <1>0, <1>1, <1>6
    <3>3. store'[z] = o
      BY <1>11, <2>3
    <3>4. ASSUME NEW e \in ToSet(o)
          PROVE  /\ e.id \in DOMAIN told' /\ told'[e.id].slot = z
                 /\ told'[e.id].age = e.age /\ e.history = Left(told'[e.id])
      <4>1. CASE e = x
        BY <2>3, <3>2, <4>1
      <4>2. CASE e # x
        <5>1. e \in ToSet(store[s])
          BY <3>1, <4>2
        <5> QED BY <2>1, <2>3, <5>1
      <4> QED BY <4>1, <4>2
    <3> QED BY <3>1, <3>3, <3>4
  <2> QED BY <2>2, <2>3
<1>13. Complete'
  <2> DEFINE After(id) == {j \in id + 1..Len(told') : told'[j].slot = told'[id].slot}
  <2> SUFFICES ASSUME NEW id \in DOMAIN told', told'[id].age < TTL
               PROVE  \/ \E e \in ToSet(store'[told'[id].slot]) : e.id = id
                      \/ Cardinality(After(id)) >= MaxEntries
    BY DEF Complete, Held, Later
  <2>0. IsFiniteSet(After(id)) /\ Cardinality(After(id)) \in Nat
    <3> DEFINE a == id + 1
               b == Len(told')
    <3>1. a \in Int /\ b \in Int
      BY <1>0, <1>1
    <3>2. After(id) \subseteq a..b
      OBVIOUS
    <3> HIDE DEF a, b, After
    <3>3. IsFiniteSet(a..b)
      BY <3>1, FS_Interval
    <3>4. IsFiniteSet(After(id))
      BY <3>2, <3>3, FS_Subset
    <3> QED BY <3>4, FS_CardinalityType
  <2>1. CASE id = n + 1
    <3>1. x \in ToSet(store'[s]) /\ told'[id].slot = s /\ x.id = id
      BY <1>1, <1>6, <1>8, <1>11, <2>1 DEF PutWell
    <3> QED BY <3>1
  <2>2. CASE id \in 1..n
    <3>1. told'[id] = told[id] /\ told[id].slot \in Slots /\ id \in DOMAIN told
      <4>1. told[id] \in Given /\ told'[id] = told[id] /\ id \in DOMAIN told
        BY <1>0, <1>1, <2>2
      <4> QED BY <4>1 DEF Given
    <3>2. CASE Cardinality(Later(id)) >= MaxEntries
      <4>1. Later(id) \subseteq After(id)
        <5> SUFFICES ASSUME NEW j \in id + 1..n, told[j].slot = told[id].slot
                     PROVE  j \in id + 1..(n + 1) /\ told'[j].slot = told'[id].slot
          BY <1>1 DEF Later, n
        <5>1. j \in 1..n /\ j \in id + 1..(n + 1)
          BY <1>0, <2>2
        <5> QED BY <1>1, <3>1, <5>1
      <4>2. Cardinality(Later(id)) <= Cardinality(After(id)) /\ Cardinality(Later(id)) \in Nat
        <5> HIDE DEF After
        <5> QED BY <2>0, <3>1, <4>1, FS_Subset, LaterFinite
      <4>3. MaxEntries \in Nat
        BY LimitsAssumption
      <4> HIDE DEF After
      <4> QED BY <2>0, <3>2, <4>2, <4>3
    <3>3. CASE Held(id)
      <4>1. PICK e \in ToSet(store[told[id].slot]) : e.id = id
        BY <3>3 DEF Held
      <4>2. e.age < TTL
        BY <3>1, <4>1 DEF Sound
      <4>3. CASE told[id].slot # s
        BY <1>11, <3>1, <4>1, <4>3
      <4>4. CASE told[id].slot = s /\ e \in ToSet(o)
        BY <1>11, <3>1, <4>1, <4>4
      <4>5. CASE told[id].slot = s /\ e \notin ToSet(o)
        <5>1. e \in ToSet(r)
          BY <4>1, <4>5 DEF r
        <5>2. Len(o) = MaxEntries /\ (\A i \in DOMAIN o : e.id < o[i].id) /\ Rising(o)
          BY <1>8, <4>2, <4>5, <5>1 DEF PutWell
        <5>3. \A i \in DOMAIN o : o[i].id \in After(id)
          <6> SUFFICES ASSUME NEW i \in DOMAIN o PROVE o[i].id \in After(id)
            OBVIOUS
          <6>1. o[i] \in ToSet(o)
            BY DEF ToSet
          <6>2. o[i] \in ToSet(store'[s])
            BY <1>11, <6>1
          <6>3. o[i].id \in DOMAIN told' /\ told'[o[i].id].slot = s
            BY <1>12, <6>2 DEF Sound
          <6>4. id < o[i].id
            BY <4>1, <5>2
          <6>5. o[i].id \in id + 1..Len(told')
            BY <1>0, <1>1, <2>2, <6>3, <6>4
          <6> QED BY <3>1, <4>5, <6>3, <6>5
        <5>4. Cardinality(After(id)) >= Len(o)
          <6> HIDE DEF After
          <6> QED BY <1>9, <2>0, <5>2, <5>3, RingCounts
        <5> QED BY <5>2, <5>4
      <4> QED BY <4>3, <4>4, <4>5
    <3>4. told[id].age < TTL
      BY <3>1
    <3>5. Held(id) \/ Cardinality(Later(id)) >= MaxEntries
      BY <3>1, <3>4 DEF Complete
    <3> HIDE DEF After
    <3> QED BY <3>2, <3>3, <3>5
  <2>3. id \in 1..n \/ id = n + 1
    BY <1>0, <1>1
  <2> HIDE DEF After
  <2> QED BY <2>1, <2>2, <2>3
<1> QED BY <1>1, <1>2, <1>10, <1>12, <1>13

\* A deleted answer leaves its ring; the others stay.
LEMMA Deletes ==
  ASSUME Types, Sound, Complete, NEW id \in DOMAIN told, DeleteResponse(id)
  PROVE  /\ store' \in [Slots -> Seq(Entries)] /\ told' \in Seq(Given) /\ Sound' /\ Complete'
         /\ DOMAIN told' = DOMAIN told
         /\ \A i \in DOMAIN told : told'[i].answer = told[i].answer
<1> DEFINE n == Len(told)
           live == Live(store[active])
           o == Deleted(live, id)
           t == [told[id] EXCEPT !.age = TTL]
<1>0. /\ store \in [Slots -> Seq(Entries)] /\ told \in Seq(Given) /\ n \in Nat
      /\ DOMAIN told = 1..n /\ active \in Slots /\ \A i \in 1..n : told[i] \in Given
  BY DEF Types
<1>1. /\ DOMAIN told' = 1..n /\ told' \in Seq(Given) /\ Len(told') = n
      /\ \A i \in 1..n : told'[i] = IF i = id /\ told[id].slot = active THEN t ELSE told[i]
  <2>1. t \in Given
    <3>1. told[id] \in Given /\ TTL \in 0..TTL
      BY <1>0, LimitsAssumption
    <3> QED BY <3>1 DEF Given
  <2>2. told' = IF told[id].slot = active THEN [told EXCEPT ![id] = t] ELSE told
    BY DEF DeleteResponse
  <2> HIDE DEF t, n
  <2>3. [told EXCEPT ![id] = t] \in Seq(Given) /\ Len([told EXCEPT ![id] = t]) = n
    BY <1>0, <2>1, ExceptSeq DEF n
  <2>4. told' \in Seq(Given) /\ Len(told') = n
    BY <1>0, <2>2, <2>3 DEF n
  <2>5. DOMAIN told' = 1..n
    BY <2>4
  <2>6. \A i \in 1..n : told'[i] = IF i = id /\ told[id].slot = active THEN t ELSE told[i]
    BY <1>0, <2>2
  <2> QED BY <2>4, <2>5, <2>6
<1>2. \A i \in 1..n : told'[i].slot = told[i].slot /\ told'[i].answer = told[i].answer
                      /\ told'[i].empty = told[i].empty
  BY <1>0, <1>1 DEF Given
<1>3. /\ live \in Seq(Entries) /\ Rising(live) /\ Len(live) <= Len(store[active])
      /\ \A e : e \in ToSet(live) <=> e \in ToSet(store[active]) /\ e.age < TTL
  BY <1>0, LiveKeeps DEF Sound
<1> HIDE DEF live
<1>4. /\ o \in Seq(Entries) /\ Rising(o) /\ Len(o) <= Len(live)
      /\ \A e : e \in ToSet(o) <=> e \in ToSet(live) /\ e.id # id
  <2> DEFINE good == {e \in ToSet(live) : e.id # id}
  <2>1. o = Only(live, good)
    BY DEF Deleted
  <2>2. \A e : e \in good <=> e \in ToSet(live) /\ e.id # id
    OBVIOUS
  <2> HIDE DEF good, o
  <2>3. o \in Seq(Entries) /\ Kept(o, live, good)
    BY <1>3, <2>1, OnlyKeeps
  <2> QED BY <2>2, <2>3 DEF Kept
<1>5. store' = [store EXCEPT ![active] = o]
  BY DEF DeleteResponse, live
<1> HIDE DEF o, t
<1>6. store' \in [Slots -> Seq(Entries)]
  BY <1>0, <1>4, <1>5
<1>7. \A z \in Slots : store'[z] = IF z = active THEN o ELSE store[z]
  BY <1>0, <1>5
<1>8. Sound'
  <2> SUFFICES ASSUME NEW z \in Slots
               PROVE  /\ Rising(store'[z]) /\ Len(store'[z]) <= MaxEntries
                      /\ \A e \in ToSet(store'[z]) :
                           /\ e.id \in DOMAIN told' /\ told'[e.id].slot = z
                           /\ told'[e.id].age = e.age /\ e.history = Left(told'[e.id])
    BY DEF Sound, Left, Rising
  <2>1. Rising(store'[z]) /\ Len(store'[z]) <= MaxEntries
    <3>1. CASE z # active
      BY <1>7, <3>1 DEF Sound
    <3>2. CASE z = active
      <4>1. Len(o) \in Nat /\ Len(live) \in Nat /\ Len(store[active]) \in Nat /\ MaxEntries \in Nat
        BY <1>0, <1>3, <1>4, LenProperties, LimitsAssumption
      <4>2. Len(store[active]) <= MaxEntries
        BY <1>0 DEF Sound
      <4>3. Len(o) <= MaxEntries
        BY <1>3, <1>4, <4>1, <4>2
      <4> QED BY <1>4, <1>7, <3>2, <4>3
    <3> QED BY <3>1, <3>2
  <2>2. ASSUME NEW e \in ToSet(store'[z])
        PROVE  e \in ToSet(store[z]) /\ (e.id = id => told[id].slot # active)
    <3>1. CASE z # active
      <4>1. e \in ToSet(store[z])
        BY <1>7, <3>1
      <4>2. told[e.id].slot = z
        BY <4>1 DEF Sound
      <4> QED BY <3>1, <4>1, <4>2
    <3>2. CASE z = active
      BY <1>3, <1>4, <1>7, <3>2
    <3> QED BY <3>1, <3>2
  <2>3. ASSUME NEW e \in ToSet(store'[z])
        PROVE  /\ e.id \in DOMAIN told' /\ told'[e.id].slot = z
               /\ told'[e.id].age = e.age /\ e.history = Left(told'[e.id])
    <3>1. e \in ToSet(store[z]) /\ (e.id = id => told[id].slot # active)
      BY <2>2
    <3>2. /\ e.id \in DOMAIN told /\ told[e.id].slot = z
          /\ told[e.id].age = e.age /\ e.history = Left(told[e.id])
      BY <3>1 DEF Sound
    <3>3. told'[e.id] = told[e.id]
      BY <1>0, <1>1, <3>1, <3>2
    <3> QED BY <1>0, <1>1, <3>2, <3>3
  <2> QED BY <2>1, <2>3
<1>9. Complete'
  <2> DEFINE After(i) == {j \in i + 1..Len(told') : told'[j].slot = told'[i].slot}
  <2> SUFFICES ASSUME NEW i \in DOMAIN told', told'[i].age < TTL
               PROVE  \/ \E e \in ToSet(store'[told'[i].slot]) : e.id = i
                      \/ Cardinality(After(i)) >= MaxEntries
    BY DEF Complete, Held, Later
  <2>0. i \in 1..n /\ i \in DOMAIN told
    BY <1>0, <1>1
  <2>1. After(i) = Later(i)
    <3>1. \A j \in i + 1..n : told'[j].slot = told'[i].slot <=> told[j].slot = told[i].slot
      <4>1. \A j \in i + 1..n : j \in 1..n
        BY <1>0, <2>0
      <4> QED BY <1>2, <2>0, <4>1
    <3> QED BY <1>1, <3>1 DEF Later
  <2> HIDE DEF After
  <2>2. told'[i] = told[i] /\ ~(i = id /\ told[id].slot = active)
    <3>1. t.age = TTL /\ TTL \in Nat
      BY <1>0, LimitsAssumption DEF t, Given
    <3>2. ~(i = id /\ told[id].slot = active)
      <4> SUFFICES ASSUME i = id /\ told[id].slot = active PROVE FALSE
        OBVIOUS
      <4>1. told'[i] = t
        BY <1>1, <2>0
      <4> QED BY <3>1, <4>1
    <3> QED BY <1>1, <2>0, <3>2
  <2>3. told[i].age < TTL
    BY <2>2
  <2>4. CASE Held(i)
    <3>0. told[i].slot \in Slots
      BY <1>0, <2>0 DEF Given
    <3>1. PICK e \in ToSet(store[told[i].slot]) : e.id = i
      BY <2>4 DEF Held
    <3>2. e.age < TTL
      BY <2>3, <3>0, <3>1 DEF Sound
    <3>3. e \in ToSet(store'[told[i].slot])
      BY <1>3, <1>4, <1>7, <2>2, <3>0, <3>1, <3>2
    <3> QED BY <2>2, <3>1, <3>3
  <2> QED BY <2>0, <2>1, <2>3, <2>4 DEF Complete
<1> QED BY <1>0, <1>1, <1>2, <1>6, <1>8, <1>9

\* Time passes for a ring and the answers it is of alike.
LEMMA Ages ==
  ASSUME Types, Sound, Complete, Tick
  PROVE  /\ store' \in [Slots -> Seq(Entries)] /\ told' \in Seq(Given) /\ Sound' /\ Complete'
         /\ DOMAIN told' = DOMAIN told
         /\ \A i \in DOMAIN told : told'[i].answer = told[i].answer
<1> DEFINE n == Len(told)
           Next1(a) == IF a < TTL THEN a + 1 ELSE a
<1>0. /\ store \in [Slots -> Seq(Entries)] /\ told \in Seq(Given) /\ n \in Nat
      /\ DOMAIN told = 1..n /\ \A i \in 1..n : told[i] \in Given
  BY DEF Types
<1>1. \A a \in 0..TTL : Next1(a) \in 0..TTL /\ (Next1(a) < TTL => a < TTL)
  BY LimitsAssumption
<1>2. ASSUME NEW g \in Given
      PROVE  /\ Older(g) \in Given /\ Older(g).slot = g.slot /\ Older(g).answer = g.answer
             /\ Older(g).empty = g.empty /\ Older(g).age = Next1(g.age)
  <2>1. Older(g) = [g EXCEPT !.age = Next1(g.age)]
    BY DEF Older
  <2>2. Next1(g.age) \in 0..TTL
    BY <1>1 DEF Given
  <2> HIDE DEF Next1
  <2> QED BY <2>1, <2>2 DEF Given
<1>3. ASSUME NEW e \in Entries
      PROVE  /\ Older(e) \in Entries /\ Older(e).id = e.id /\ Older(e).history = e.history
             /\ Older(e).age = Next1(e.age)
  <2>1. Older(e) = [e EXCEPT !.age = Next1(e.age)]
    BY DEF Older
  <2>2. Next1(e.age) \in 0..TTL
    BY <1>1 DEF Entries
  <2> HIDE DEF Next1
  <2> QED BY <2>1, <2>2 DEF Entries
<1>4. /\ DOMAIN told' = 1..n /\ told' \in Seq(Given) /\ Len(told') = n
      /\ \A i \in 1..n : told'[i] = Older(told[i])
  <2>1. told' = [i \in 1..n |-> Older(told[i])]
    BY <1>0 DEF Tick
  <2>2. \A i \in 1..n : told'[i] = Older(told[i]) /\ told'[i] \in Given
    BY <1>0, <1>2, <2>1
  <2> HIDE DEF n
  <2>3. told' = [i \in 1..n |-> told'[i]] /\ DOMAIN told' = 1..n
    BY <2>1
  <2>4. told' \in Seq(Given) /\ Len(told') = n
    BY <1>0, <2>2, <2>3, IsASeq, LenProperties
  <2> QED BY <2>2, <2>3, <2>4
<1>5. ASSUME NEW s \in Slots
      PROVE  /\ store'[s] \in Seq(Entries) /\ Len(store'[s]) = Len(store[s])
             /\ DOMAIN store'[s] = DOMAIN store[s]
             /\ \A i \in DOMAIN store[s] : store'[s][i] = Older(store[s][i]) /\ store[s][i] \in Entries
  <2> DEFINE r == store[s]
             m == Len(r)
  <2>0. m \in Nat /\ DOMAIN r = 1..m /\ \A i \in 1..m : r[i] \in Entries
    BY <1>0
  <2>1. store'[s] = [i \in 1..m |-> Older(r[i])]
    BY <2>0 DEF Tick
  <2> HIDE DEF r
  <2>2. \A i \in 1..m : store'[s][i] = Older(r[i]) /\ store'[s][i] \in Entries
    BY <1>3, <2>0, <2>1
  <2> HIDE DEF m
  <2>3. store'[s] = [i \in 1..m |-> store'[s][i]] /\ DOMAIN store'[s] = 1..m
    BY <2>1
  <2>4. store'[s] \in Seq(Entries) /\ Len(store'[s]) = m
    BY <2>0, <2>2, <2>3, IsASeq, LenProperties
  <2> QED BY <2>0, <2>2, <2>3, <2>4 DEF r, m
<1>6. store' \in [Slots -> Seq(Entries)]
  <2>1. store' = [s \in Slots |-> store'[s]]
    BY DEF Tick
  <2> QED BY <1>5, <2>1
<1>7. ASSUME NEW s \in Slots, NEW e
      PROVE  e \in ToSet(store'[s]) <=> \E x \in ToSet(store[s]) : x \in Entries /\ e = Older(x)
  <2>1. ASSUME e \in ToSet(store'[s]) PROVE \E x \in ToSet(store[s]) : x \in Entries /\ e = Older(x)
    <3>1. PICK i \in DOMAIN store'[s] : e = store'[s][i]
      BY <2>1 DEF ToSet
    <3>2. i \in DOMAIN store[s] /\ e = Older(store[s][i]) /\ store[s][i] \in Entries
      BY <1>5, <3>1
    <3>3. store[s][i] \in ToSet(store[s])
      BY <3>2 DEF ToSet
    <3> QED BY <3>2, <3>3
  <2>2. ASSUME NEW x \in ToSet(store[s]), e = Older(x) PROVE e \in ToSet(store'[s])
    <3>1. PICK i \in DOMAIN store[s] : x = store[s][i]
      BY DEF ToSet
    <3>2. i \in DOMAIN store'[s] /\ store'[s][i] = e
      BY <1>5, <2>2, <3>1
    <3> QED BY <3>2 DEF ToSet
  <2> QED BY <2>1, <2>2
<1>8. \A i \in 1..n : Left(told'[i]) = Left(told[i])
  BY <1>0, <1>2, <1>4 DEF Left
<1> HIDE DEF Next1
<1>9. Sound'
  <2> SUFFICES ASSUME NEW z \in Slots
               PROVE  /\ Rising(store'[z]) /\ Len(store'[z]) <= MaxEntries
                      /\ \A e \in ToSet(store'[z]) :
                           /\ e.id \in DOMAIN told' /\ told'[e.id].slot = z
                           /\ told'[e.id].age = e.age /\ e.history = Left(told'[e.id])
    BY DEF Sound, Left, Rising
  <2>1. Rising(store'[z]) /\ Len(store'[z]) <= MaxEntries
    <3>1. \A i \in DOMAIN store[z] : store'[z][i].id = store[z][i].id
      BY <1>3, <1>5
    <3>2. Rising(store[z]) /\ Len(store[z]) <= MaxEntries
      BY DEF Sound
    <3> QED BY <1>5, <3>1, <3>2 DEF Rising
  <2>2. ASSUME NEW e \in ToSet(store'[z])
        PROVE  /\ e.id \in DOMAIN told' /\ told'[e.id].slot = z
               /\ told'[e.id].age = e.age /\ e.history = Left(told'[e.id])
    <3>1. PICK x \in ToSet(store[z]) : x \in Entries /\ e = Older(x)
      BY <1>7
    <3>2. /\ x.id \in DOMAIN told /\ told[x.id].slot = z
          /\ told[x.id].age = x.age /\ x.history = Left(told[x.id])
      BY <3>1 DEF Sound
    <3>3. e.id = x.id /\ e.history = x.history /\ e.age = Next1(x.age)
      BY <1>3, <3>1
    <3>4. told'[x.id] = Older(told[x.id]) /\ told[x.id] \in Given /\ x.id \in 1..n
      BY <1>0, <1>4, <3>2
    <3>5. told'[x.id].slot = z /\ told'[x.id].age = Next1(x.age)
      BY <1>2, <3>2, <3>4
    <3> QED BY <1>4, <1>8, <3>2, <3>3, <3>4, <3>5
  <2> QED BY <2>1, <2>2
<1>10. Complete'
  <2> DEFINE After(i) == {j \in i + 1..Len(told') : told'[j].slot = told'[i].slot}
  <2> SUFFICES ASSUME NEW i \in DOMAIN told', told'[i].age < TTL
               PROVE  \/ \E e \in ToSet(store'[told'[i].slot]) : e.id = i
                      \/ Cardinality(After(i)) >= MaxEntries
    BY DEF Complete, Held, Later
  <2>0. i \in 1..n /\ i \in DOMAIN told /\ told[i] \in Given
    BY <1>0, <1>4
  <2>1. \A j \in 1..n : told'[j].slot = told[j].slot
    BY <1>0, <1>2, <1>4
  <2>2. After(i) = Later(i)
    <3>1. \A j \in i + 1..n : told'[j].slot = told'[i].slot <=> told[j].slot = told[i].slot
      <4>1. \A j \in i + 1..n : j \in 1..n
        BY <1>0, <2>0
      <4> QED BY <2>0, <2>1, <4>1
    <3> QED BY <1>4, <3>1 DEF Later
  <2> HIDE DEF After
  <2>3. told[i].age < TTL
    <3>1. told'[i].age = Next1(told[i].age) /\ told[i].age \in 0..TTL
      BY <1>2, <1>4, <2>0 DEF Given
    <3> QED BY <1>1, <3>1
  <2>4. CASE Held(i)
    <3>0. told[i].slot \in Slots
      BY <2>0 DEF Given
    <3>1. PICK e \in ToSet(store[told[i].slot]) : e.id = i
      BY <2>4 DEF Held
    <3>2. e \in Entries
      <4>1. PICK k \in DOMAIN store[told[i].slot] : e = store[told[i].slot][k]
        BY <3>1 DEF ToSet
      <4> QED BY <1>5, <3>0, <4>1
    <3>3. Older(e) \in ToSet(store'[told[i].slot]) /\ Older(e).id = i
      BY <1>3, <1>7, <3>0, <3>1, <3>2
    <3> QED BY <2>0, <2>1, <3>3
  <2> QED BY <2>0, <2>2, <2>3, <2>4 DEF Complete
<1>11. \A i \in 1..n : told'[i].answer = told[i].answer
  BY <1>0, <1>2, <1>4
<1> QED BY <1>0, <1>4, <1>6, <1>9, <1>10, <1>11

\* A restart forgets a ring, and the answers it is of.
LEMMA Forgets ==
  ASSUME Types, Sound, Complete, NEW s \in Slots, Restart(s)
  PROVE  /\ store' \in [Slots -> Seq(Entries)] /\ told' \in Seq(Given) /\ Sound' /\ Complete'
         /\ DOMAIN told' = DOMAIN told
         /\ \A i \in DOMAIN told : told'[i].answer = told[i].answer
<1> DEFINE n == Len(told)
<1>0. /\ store \in [Slots -> Seq(Entries)] /\ told \in Seq(Given) /\ n \in Nat
      /\ DOMAIN told = 1..n /\ \A i \in 1..n : told[i] \in Given
  BY DEF Types
<1>1. /\ DOMAIN told' = 1..n /\ told' \in Seq(Given) /\ Len(told') = n
      /\ \A i \in 1..n : /\ told'[i].slot = told[i].slot /\ told'[i].answer = told[i].answer
                         /\ told'[i].empty = told[i].empty
                         /\ told[i].slot # s => told'[i] = told[i]
                         /\ told[i].slot = s => told'[i].age = TTL
  <2> DEFINE new(i) == IF told[i].slot = s THEN [told[i] EXCEPT !.age = TTL] ELSE told[i]
  <2>1. told' = [i \in 1..n |-> new(i)]
    BY <1>0 DEF Restart
  <2>2. ASSUME NEW i \in 1..n
        PROVE  /\ new(i) \in Given /\ new(i).slot = told[i].slot /\ new(i).answer = told[i].answer
               /\ new(i).empty = told[i].empty /\ (told[i].slot # s => new(i) = told[i])
               /\ (told[i].slot = s => new(i).age = TTL)
    <3>1. told[i] \in Given /\ TTL \in 0..TTL
      BY <1>0, LimitsAssumption
    <3> QED BY <3>1 DEF Given
  <2>3. \A i \in 1..n : told'[i] = new(i) /\ told'[i] \in Given
    BY <2>1, <2>2
  <2> HIDE DEF n, new
  <2>4. told' = [i \in 1..n |-> told'[i]] /\ DOMAIN told' = 1..n
    BY <2>1
  <2>5. told' \in Seq(Given) /\ Len(told') = n
    BY <1>0, <2>3, <2>4, IsASeq, LenProperties
  <2> QED BY <2>2, <2>3, <2>4, <2>5
<1>2. \A z \in Slots : store'[z] = IF z = s THEN <<>> ELSE store[z]
  BY <1>0 DEF Restart
<1>3. store' \in [Slots -> Seq(Entries)]
  <2>1. <<>> \in Seq(Entries)
    OBVIOUS
  <2> QED BY <1>0, <2>1 DEF Restart
<1>4. Sound'
  <2> SUFFICES ASSUME NEW z \in Slots
               PROVE  /\ Rising(store'[z]) /\ Len(store'[z]) <= MaxEntries
                      /\ \A e \in ToSet(store'[z]) :
                           /\ e.id \in DOMAIN told' /\ told'[e.id].slot = z
                           /\ told'[e.id].age = e.age /\ e.history = Left(told'[e.id])
    BY DEF Sound, Left, Rising
  <2>1. CASE z = s
    <3>1. store'[z] = <<>> /\ ToSet(<<>>) = {} /\ Rising(<<>>)
      BY <1>2, <2>1 DEF ToSet, Rising
    <3>2. Len(<<>>) <= MaxEntries
      BY LimitsAssumption
    <3> QED BY <3>1, <3>2
  <2>2. CASE z # s
    <3>1. store'[z] = store[z]
      BY <1>2, <2>2
    <3>2. ASSUME NEW e \in ToSet(store[z])
          PROVE  /\ e.id \in DOMAIN told' /\ told'[e.id].slot = z
                 /\ told'[e.id].age = e.age /\ e.history = Left(told'[e.id])
      <4>1. /\ e.id \in DOMAIN told /\ told[e.id].slot = z
            /\ told[e.id].age = e.age /\ e.history = Left(told[e.id])
        BY DEF Sound
      <4>2. told'[e.id] = told[e.id]
        BY <1>0, <1>1, <2>2, <4>1
      <4> QED BY <1>0, <1>1, <4>1, <4>2
    <3>3. Rising(store[z]) /\ Len(store[z]) <= MaxEntries
      BY DEF Sound
    <3> QED BY <3>1, <3>2, <3>3
  <2> QED BY <2>1, <2>2
<1>5. Complete'
  <2> DEFINE After(i) == {j \in i + 1..Len(told') : told'[j].slot = told'[i].slot}
  <2> SUFFICES ASSUME NEW i \in DOMAIN told', told'[i].age < TTL
               PROVE  \/ \E e \in ToSet(store'[told'[i].slot]) : e.id = i
                      \/ Cardinality(After(i)) >= MaxEntries
    BY DEF Complete, Held, Later
  <2>0. i \in 1..n /\ i \in DOMAIN told /\ told[i] \in Given
    BY <1>0, <1>1
  <2>1. After(i) = Later(i)
    <3>1. \A j \in i + 1..n : told'[j].slot = told'[i].slot <=> told[j].slot = told[i].slot
      <4>1. \A j \in i + 1..n : j \in 1..n
        BY <1>0, <2>0
      <4> QED BY <1>1, <2>0, <4>1
    <3> QED BY <1>1, <3>1 DEF Later
  <2> HIDE DEF After
  <2>2. told[i].slot # s /\ told'[i] = told[i]
    <3>1. told[i].slot # s
      <4> SUFFICES ASSUME told[i].slot = s PROVE FALSE
        OBVIOUS
      <4>1. told'[i].age = TTL /\ TTL \in Nat
        BY <1>1, <2>0, LimitsAssumption
      <4> QED BY <4>1
    <3> QED BY <1>1, <2>0, <3>1
  <2>3. told[i].age < TTL /\ told[i].slot \in Slots
    BY <2>0, <2>2 DEF Given
  <2>4. store'[told'[i].slot] = store[told[i].slot]
    BY <1>2, <2>2, <2>3
  <2> QED BY <2>0, <2>1, <2>3, <2>4 DEF Complete, Held
<1> QED BY <1>0, <1>1, <1>3, <1>4, <1>5

-------------------------------------------------------------------------------
(* Every step keeps the invariant *)

\* A request means the same when answers are added or grow old.
LEMMA StillIntended ==
  ASSUME NEW t, NEW u, \A i \in DOMAIN t : i \in DOMAIN u /\ u[i].answer = t[i].answer,
         NEW r, Intended(t, r)
  PROVE  Intended(u, r)
<1>1. ASSUME r.prev # NoPrevious, r.prev \in DOMAIN t
      PROVE  r.prev \in DOMAIN u /\ Resumed(u, r.prev) = Resumed(t, r.prev)
  BY <1>1 DEF Resumed
<1>2. r.prev = NoPrevious => Resumed(u, r.prev) = Resumed(t, r.prev)
  BY DEF Resumed
<1>3. CallsTold(t, r.prev) \subseteq CallsTold(u, r.prev)
  BY DEF CallsTold
<1> QED BY <1>1, <1>2, <1>3 DEF Intended

LEMMA RequestsStay ==
  ASSUME Types, Meant, UNCHANGED inflight,
         \A i \in DOMAIN told : i \in DOMAIN told' /\ told'[i].answer = told[i].answer
  PROVE  inflight' \in [Workers -> {Idle} \union Requests] /\ Meant'
<1>1. \A w \in Workers : inflight[w] # Idle => Intended(told', inflight[w])
  BY StillIntended DEF Meant
<1> QED BY <1>1 DEF Types, Meant

\* One handler goes on, or is done.
LEMMA RequestMoves ==
  ASSUME Types, Meant, NEW w \in Workers, NEW r \in {Idle} \union Requests,
         inflight' = [inflight EXCEPT ![w] = r],
         \A i \in DOMAIN told : i \in DOMAIN told' /\ told'[i].answer = told[i].answer,
         r # Idle => Intended(told, r)
  PROVE  inflight' \in [Workers -> {Idle} \union Requests] /\ Meant'
<1>0. inflight \in [Workers -> {Idle} \union Requests]
  BY DEF Types
<1>1. inflight' \in [Workers -> {Idle} \union Requests]
      /\ \A v \in Workers : inflight'[v] = IF v = w THEN r ELSE inflight[v]
  BY <1>0
<1>2. ASSUME NEW v \in Workers, inflight'[v] # Idle PROVE Intended(told', inflight'[v])
  <2>1. Intended(told, inflight'[v])
    BY <1>1, <1>2 DEF Meant
  <2> QED BY <2>1, StillIntended
<1> QED BY <1>1, <1>2 DEF Meant

LEMMA InvInit == Init => Inv
<1> SUFFICES ASSUME Init PROVE Inv
  OBVIOUS
<1>1. Types
  <2>1. <<>> \in Seq(Entries)
    OBVIOUS
  <2>2. <<>> \in Seq(Given)
    OBVIOUS
  <2> QED BY <2>1, <2>2 DEF Init, Types
<1>2. Sound
  <2>1. Rising(<<>>) /\ ToSet(<<>>) = {}
    BY DEF Rising, ToSet
  <2>2. Len(<<>>) <= MaxEntries
    BY LimitsAssumption
  <2> QED BY <2>1, <2>2 DEF Init, Sound
<1>3. Complete
  BY DEF Init, Complete
<1>4. Meant
  BY DEF Init, Meant
<1> QED BY <1>1, <1>2, <1>3, <1>4 DEF Inv

\* A handler that works on something works on a request.
LEMMA WorksOn ==
  ASSUME Types, NEW w \in Workers, inflight[w].phase \in {"next", "sent"}
  PROVE  inflight[w] \in Requests /\ inflight[w] # Idle
<1>1. inflight[w] \in {Idle} \union Requests
  BY DEF Types
<1>2. Idle.phase = "idle"
  BY DEF Idle
<1> QED BY <1>1, <1>2

LEMMA BeginKeeps ==
  ASSUME Inv, NEW w \in Workers, NEW ask \in Asks, NEW prev \in Ids \union {NoPrevious},
         NEW stream \in BOOLEAN, NEW route \in Routes, Begin(w, ask, prev, stream, route)
  PROVE  Inv'
<1> DEFINE s == active
           input == InputOf(ask)
           early == stream /\ (ask.api = "messages" \/ Has([i \in DOMAIN route |-> [type |-> route[i]]],
                                                           {"chat"}))
           made == TranslateRequest(store[s], input, ask.instructions, prev)
           chat == IF early THEN made ELSE Untranslated
           r == [phase |-> "next", slot |-> s, ask |-> ask, input |-> input, prev |-> prev,
                 stream |-> stream, route |-> route, chat |-> chat]
<1>0. Types /\ Sound /\ Complete /\ Meant
  BY DEF Inv
<1>1. /\ input # Refused /\ chat # Refused /\ inflight' = [inflight EXCEPT ![w] = r]
      /\ Expire(s) \/ UNCHANGED store
      /\ active' = active /\ told' = told
  BY Zenon DEF Begin
<1>1a. Results(input) \subseteq OwnCalls(input) \union CallsTold(told, prev)
  <2>1. MakesSense(ask, prev)
    BY Zenon DEF Begin
  <2>2. Results(input) = OwnCalls(input) \union CallsTold(told, prev)
    BY <1>1, <2>1, Zenon DEF MakesSense, CallsTold
  <2> QED BY <2>2
<1>2. input \in Seq(Items) /\ ask.instructions \in BOOLEAN /\ s \in Slots
  <2>1. ask.instructions \in BOOLEAN
    BY AsksAssumption
  <2> QED BY <1>0, <1>1, <2>1, AskSays DEF Types
<1> HIDE DEF early
<1>3. /\ chat \in Seq(Messages)
      /\ chat # Untranslated =>
           /\ prev # NoPrevious => prev \in DOMAIN told
           /\ InputToChat(input, ask.instructions) # Refused
           /\ chat = Resumed(told, prev) \o InputToChat(input, ask.instructions)
  <2>1. CASE early
    <3>1. chat = made /\ made # Refused
      BY <1>1, <2>1
    <3>2. /\ made \in Seq(Messages)
          /\ prev # NoPrevious => prev \in DOMAIN told
          /\ InputToChat(input, ask.instructions) # Refused
          /\ made = Resumed(told, prev) \o InputToChat(input, ask.instructions)
      <4> HIDE DEF input, s
      <4> QED BY <1>0, <1>2, <3>1, RequestMeans
    <3> QED BY <3>1, <3>2
  <2>2. CASE ~early
    <3>1. chat = Untranslated /\ <<>> \in Seq(Messages)
      BY <2>2
    <3> QED BY <3>1 DEF Untranslated
  <2> QED BY <2>1, <2>2
<1>4. route \in Seq({"chat", "native"}) \ {<<>>}
  BY RoutesAssumption
<1> HIDE DEF input, chat, s
<1>5. r \in Requests
  BY <1>2, <1>3, <1>4 DEF Requests
<1>6. Intended(told, r)
  <2>1. r.input = input /\ r.ask = ask /\ r.prev = prev /\ r.chat = chat
    OBVIOUS
  <2> HIDE DEF r
  <2> QED BY <1>1a, <1>3, <2>1 DEF Intended, input
<1> HIDE DEF r
<1>7. inflight' \in [Workers -> {Idle} \union Requests] /\ Meant'
  BY <1>0, <1>1, <1>5, <1>6, RequestMoves
<1>8. store' \in [Slots -> Seq(Entries)] /\ Sound' /\ Complete'
  BY <1>0, <1>1, <1>2, Expires, RingsStay
<1>9. active' \in Slots /\ told' \in Seq(Given)
  BY <1>0, <1>1 DEF Types
<1> QED BY <1>7, <1>8, <1>9 DEF Inv, Types

LEMMA DispatchKeeps ==
  ASSUME Inv, NEW w \in Workers, Dispatch(w)
  PROVE  Inv'
<1> DEFINE r == inflight[w]
           translate == Head(r.route) = "chat" /\ r.chat = Untranslated
           made == TranslateRequest(store[r.slot], r.input, r.ask.instructions, r.prev)
           chat == IF translate THEN made ELSE r.chat
           new == IF chat = Refused THEN Idle ELSE [r EXCEPT !.phase = "sent", !.chat = chat]
<1>0. Types /\ Sound /\ Complete /\ Meant
  BY DEF Inv
<1>1. /\ r.phase = "next" /\ inflight' = [inflight EXCEPT ![w] = new]
      /\ Expire(r.slot) \/ UNCHANGED store
      /\ active' = active /\ told' = told
  BY Zenon DEF Dispatch
<1>2. r \in Requests /\ r # Idle /\ Intended(told, r)
  <2>1. r \in Requests /\ r # Idle
    BY <1>0, <1>1, WorksOn
  <2> QED BY <1>0, <2>1 DEF Meant
<1>3. /\ r.slot \in Slots /\ r.input \in Seq(Items) /\ r.ask \in Asks /\ r.chat \in Seq(Messages)
      /\ r.ask.instructions \in BOOLEAN
  <2>1. r.slot \in Slots /\ r.input \in Seq(Items) /\ r.ask \in Asks /\ r.chat \in Seq(Messages)
    BY <1>2 DEF Requests
  <2>2. r.ask.instructions \in BOOLEAN
    BY <2>1, AsksAssumption
  <2> QED BY <2>1, <2>2
<1> HIDE DEF r, translate
<1>4. new \in {Idle} \union Requests /\ (new # Idle => Intended(told, new))
  <2>1. CASE chat = Refused
    BY <2>1
  <2>2. CASE chat # Refused
    <3>1. new = [r EXCEPT !.phase = "sent", !.chat = chat]
      BY <2>2
    <3>2. /\ chat \in Seq(Messages)
          /\ chat # Untranslated =>
               /\ r.prev # NoPrevious => r.prev \in DOMAIN told
               /\ InputToChat(r.input, r.ask.instructions) # Refused
               /\ chat = Resumed(told, r.prev) \o InputToChat(r.input, r.ask.instructions)
      <4>1. CASE translate
        <5>1. chat = made /\ made # Refused
          BY <2>2, <4>1
        <5>2. /\ made \in Seq(Messages)
              /\ r.prev # NoPrevious => r.prev \in DOMAIN told
              /\ InputToChat(r.input, r.ask.instructions) # Refused
              /\ made = Resumed(told, r.prev) \o InputToChat(r.input, r.ask.instructions)
          BY <1>0, <1>3, <5>1, RequestMeans
        <5> QED BY <5>1, <5>2
      <4>2. CASE ~translate
        <5>1. chat = r.chat
          BY <4>2
        <5> QED BY <1>2, <1>3, <5>1 DEF Intended
      <4> QED BY <4>1, <4>2
    <3> HIDE DEF chat
    <3>3. new \in Requests
      BY <1>2, <3>1, <3>2 DEF Requests
    <3>4. new.input = r.input /\ new.ask = r.ask /\ new.prev = r.prev /\ new.chat = chat
      BY <1>2, <3>1 DEF Requests
    <3> HIDE DEF new
    <3> QED BY <1>2, <3>2, <3>3, <3>4 DEF Intended
  <2> QED BY <2>1, <2>2
<1> HIDE DEF new
<1>5. inflight' \in [Workers -> {Idle} \union Requests] /\ Meant'
  BY <1>0, <1>1, <1>4, RequestMoves
<1>6. store' \in [Slots -> Seq(Entries)] /\ Sound' /\ Complete'
  BY <1>0, <1>1, <1>3, Expires, RingsStay
<1>7. active' \in Slots /\ told' \in Seq(Given)
  BY <1>0, <1>1 DEF Types
<1> QED BY <1>5, <1>6, <1>7 DEF Inv, Types

LEMMA FrozenKeeps ==
  ASSUME Inv, NEW w \in Workers, Frozen(w)
  PROVE  Inv'
<1> DEFINE r == inflight[w]
           c == IF r.stream THEN r.chat ELSE Untranslated
           new == IF Len(r.route) = 1 THEN Idle
                  ELSE [r EXCEPT !.phase = "next", !.route = Tail(r.route), !.chat = c]
<1>0. Types /\ Sound /\ Complete /\ Meant
  BY DEF Inv
<1>1. /\ r.phase = "sent" /\ inflight' = [inflight EXCEPT ![w] = new]
      /\ UNCHANGED store /\ active' = active /\ told' = told
  BY DEF Frozen
<1>2. r \in Requests /\ r # Idle /\ Intended(told, r)
  <2>1. r \in Requests /\ r # Idle
    BY <1>0, <1>1, WorksOn
  <2> QED BY <1>0, <2>1 DEF Meant
<1> HIDE DEF r
<1>3. new \in {Idle} \union Requests /\ (new # Idle => Intended(told, new))
  <2>1. CASE Len(r.route) = 1
    BY <2>1
  <2>2. CASE Len(r.route) # 1
    <3> DEFINE q == r.route
    <3>1. new = [r EXCEPT !.phase = "next", !.route = Tail(q), !.chat = c]
      BY <2>2
    <3>2. q \in Seq({"chat", "native"}) /\ q # <<>>
      BY <1>2 DEF Requests
    <3>3. Len(q) # 1
      BY <2>2
    <3> HIDE DEF q
    <3>4. Tail(q) \in Seq({"chat", "native"}) /\ Tail(q) # <<>>
      <4>1. Tail(q) \in Seq({"chat", "native"}) /\ Len(Tail(q)) = Len(q) - 1
            /\ Len(q) \in Nat /\ Len(q) # 0
        BY <3>2, HeadTailProperties, EmptySeq, LenProperties
      <4>2. Len(Tail(q)) # 0
        BY <3>3, <4>1
      <4>3. Tail(q) # <<>>
        <5> DEFINE x == Tail(q)
        <5>1. Len(x) # 0
          BY <4>2
        <5> HIDE DEF x
        <5>2. x # <<>>
          BY <5>1
        <5> QED BY <5>2 DEF x
      <4> QED BY <4>1, <4>3
    <3>5. c \in Seq(Messages) /\ (c # Untranslated => c = r.chat)
      <4>1. r.chat \in Seq(Messages) /\ <<>> \in Seq(Messages)
        BY <1>2 DEF Requests
      <4> QED BY <4>1 DEF Untranslated
    <3> HIDE DEF c
    <3>6. new \in Requests
      BY <1>2, <3>1, <3>4, <3>5 DEF Requests
    <3>7. new.input = r.input /\ new.ask = r.ask /\ new.prev = r.prev /\ new.chat = c
      BY <1>2, <3>1 DEF Requests
    <3> HIDE DEF new
    <3> QED BY <1>2, <3>5, <3>6, <3>7 DEF Intended
  <2> QED BY <2>1, <2>2
<1> HIDE DEF new
<1>4. inflight' \in [Workers -> {Idle} \union Requests] /\ Meant'
  BY <1>0, <1>1, <1>3, RequestMoves
<1>5. store' \in [Slots -> Seq(Entries)] /\ Sound' /\ Complete'
  BY <1>0, <1>1, RingsStay
<1>6. active' \in Slots /\ told' \in Seq(Given)
  BY <1>0, <1>1 DEF Types
<1> QED BY <1>4, <1>5, <1>6 DEF Inv, Types

LEMMA AnswerKeeps ==
  ASSUME Inv, NEW w \in Workers, NEW a \in Answers, Answer(w, a)
  PROVE  Inv'
<1> DEFINE r == inflight[w]
           history == HistoryOf(a, r.stream)
           t == [slot |-> r.slot, answer |-> a, empty |-> history = <<>>,
                 status |-> Status(a, r.stream), age |-> 0]
<1>0. Types /\ Sound /\ Complete /\ Meant
  BY DEF Inv
<1>1. /\ r.phase = "sent" /\ inflight' = [inflight EXCEPT ![w] = Idle]
      /\ store' = [store EXCEPT ![r.slot] =
                     PutFull(@, [id |-> Len(told) + 1, history |-> history, age |-> 0])]
      /\ active' = active /\ told' = Append(told, t)
  BY DEF Answer
<1>2. r.slot \in Slots
  <2>1. r \in Requests
    BY <1>0, <1>1, WorksOn
  <2> QED BY <2>1 DEF Requests
<1>3. t \in Given /\ t.slot = r.slot /\ t.age = 0
  <2>1. 0 \in 0..TTL /\ (history = <<>>) \in BOOLEAN
        /\ Status(a, r.stream) \in {"completed", "incomplete"}
    BY LimitsAssumption DEF Status
  <2> HIDE DEF history, r
  <2> QED BY <1>2, <2>1 DEF Given
<1>4. history = Left(t)
  <2>1. history \in {<<>>, History(a)} /\ History(a) # <<>>
    BY HistorySays, StreamedHistory DEF HistoryOf
  <2>2. t.empty = (history = <<>>) /\ t.answer = a
    OBVIOUS
  <2> HIDE DEF t, history
  <2> QED BY <2>1, <2>2 DEF Left
<1>5. /\ store' \in [Slots -> Seq(Entries)] /\ told' \in Seq(Given) /\ Sound' /\ Complete'
      /\ \A id \in DOMAIN told : id \in DOMAIN told' /\ told'[id] = told[id]
  <2> DEFINE s == r.slot
  <2>1. store' = [store EXCEPT ![s] =
                    PutFull(@, [id |-> Len(told) + 1, history |-> Left(t), age |-> 0])]
    BY <1>1, <1>4
  <2> HIDE DEF s, t
  <2>2. s \in Slots /\ t.slot = s /\ t.age = 0 /\ t \in Given
    BY <1>2, <1>3 DEF s
  <2>3. told' = Append(told, t)
    BY <1>1
  <2> QED BY <1>0, <2>1, <2>2, <2>3, Stores
<1>6. inflight' \in [Workers -> {Idle} \union Requests] /\ Meant'
  BY <1>0, <1>1, <1>5, RequestMoves
<1>7. active' \in Slots
  BY <1>0, <1>1 DEF Types
<1> QED BY <1>5, <1>6, <1>7 DEF Inv, Types

LEMMA EndKeeps ==
  ASSUME Inv, NEW w \in Workers, End(w)
  PROVE  Inv'
<1>0. Types /\ Sound /\ Complete /\ Meant
  BY DEF Inv
<1>1. inflight' = [inflight EXCEPT ![w] = Idle] /\ UNCHANGED <<store, active, told>>
  BY DEF End
<1>2. inflight' \in [Workers -> {Idle} \union Requests] /\ Meant'
  BY <1>0, <1>1, RequestMoves
<1>3. store' \in [Slots -> Seq(Entries)] /\ Sound' /\ Complete'
  BY <1>0, <1>1, RingsStay
<1>4. active' \in Slots /\ told' \in Seq(Given)
  BY <1>0, <1>1 DEF Types
<1> QED BY <1>2, <1>3, <1>4 DEF Inv, Types

LEMMA RestartKeeps ==
  ASSUME Inv, NEW s \in Slots, Restart(s)
  PROVE  Inv'
<1>0. Types /\ Sound /\ Complete /\ Meant
  BY DEF Inv
<1>1. /\ store' \in [Slots -> Seq(Entries)] /\ told' \in Seq(Given) /\ Sound' /\ Complete'
      /\ DOMAIN told' = DOMAIN told
      /\ \A i \in DOMAIN told : told'[i].answer = told[i].answer
  BY <1>0, Forgets
<1>2. /\ DOMAIN inflight' = Workers /\ inflight' = [w \in Workers |-> inflight'[w]]
      /\ \A w \in Workers : inflight'[w] \in {Idle, inflight[w]}
  BY DEF Restart
<1>3. inflight' \in [Workers -> {Idle} \union Requests]
  BY <1>0, <1>2 DEF Types
<1>4. Meant'
  <2> SUFFICES ASSUME NEW w \in Workers, inflight'[w] # Idle PROVE Intended(told', inflight'[w])
    BY DEF Meant
  <2>1. inflight'[w] = inflight[w] /\ Intended(told, inflight[w])
    BY <1>0, <1>2 DEF Meant
  <2> QED BY <1>1, <2>1, StillIntended
<1>5. active' \in Slots
  BY <1>0 DEF Types, Restart
<1> QED BY <1>1, <1>3, <1>4, <1>5 DEF Inv, Types

LEMMA InvNext == Inv /\ [Next]_vars => Inv'
<1> SUFFICES ASSUME Inv, [Next]_vars PROVE Inv'
  OBVIOUS
<1>0. Types /\ Sound /\ Complete /\ Meant
  BY DEF Inv
<1>1. ASSUME NEW w \in Workers, Worker(w) PROVE Inv'
  BY <1>1, BeginKeeps, DispatchKeeps, FrozenKeeps, EndKeeps, AnswerKeeps DEF Worker
<1>2. ASSUME NEW id \in DOMAIN told, DeleteResponse(id) PROVE Inv'
  <2>1. /\ store' \in [Slots -> Seq(Entries)] /\ told' \in Seq(Given) /\ Sound' /\ Complete'
        /\ DOMAIN told' = DOMAIN told
        /\ \A i \in DOMAIN told : told'[i].answer = told[i].answer
    BY <1>0, <1>2, Deletes
  <2>2. UNCHANGED <<active, inflight>>
    BY <1>2 DEF DeleteResponse
  <2>3. inflight' \in [Workers -> {Idle} \union Requests] /\ Meant'
    BY <1>0, <2>1, <2>2, RequestsStay
  <2> QED BY <1>0, <2>1, <2>2, <2>3 DEF Inv, Types
<1>3. ASSUME NEW s \in Slots, Restart(s) PROVE Inv'
  BY <1>3, RestartKeeps
<1>4. ASSUME NEW s \in Slots, Switch(s) PROVE Inv'
  <2>1. active' \in Slots /\ UNCHANGED <<store, inflight, told>>
    BY <1>4 DEF Switch
  <2>2. store' \in [Slots -> Seq(Entries)] /\ Sound' /\ Complete'
    BY <1>0, <2>1, RingsStay
  <2>3. inflight' \in [Workers -> {Idle} \union Requests] /\ Meant'
    BY <1>0, <2>1, RequestsStay
  <2> QED BY <1>0, <2>1, <2>2, <2>3 DEF Inv, Types
<1>5. ASSUME Look PROVE Inv'
  <2>1. Expire(active) /\ UNCHANGED <<active, inflight, told>> /\ active \in Slots
    BY <1>0, <1>5 DEF Look, Types
  <2>2. store' \in [Slots -> Seq(Entries)] /\ Sound' /\ Complete'
    BY <1>0, <2>1, Expires
  <2>3. inflight' \in [Workers -> {Idle} \union Requests] /\ Meant'
    BY <1>0, <2>1, RequestsStay
  <2> QED BY <1>0, <2>1, <2>2, <2>3 DEF Inv, Types
<1>6. ASSUME Tick PROVE Inv'
  <2>1. /\ store' \in [Slots -> Seq(Entries)] /\ told' \in Seq(Given) /\ Sound' /\ Complete'
        /\ DOMAIN told' = DOMAIN told
        /\ \A i \in DOMAIN told : told'[i].answer = told[i].answer
    BY <1>0, <1>6, Ages
  <2>2. UNCHANGED <<active, inflight>>
    BY <1>6 DEF Tick
  <2>3. inflight' \in [Workers -> {Idle} \union Requests] /\ Meant'
    BY <1>0, <2>1, <2>2, RequestsStay
  <2> QED BY <1>0, <2>1, <2>2, <2>3 DEF Inv, Types
<1>7. CASE UNCHANGED vars
  <2>1. UNCHANGED <<store, active, inflight, told>>
    BY <1>7 DEF vars
  <2>2. store' \in [Slots -> Seq(Entries)] /\ Sound' /\ Complete'
    BY <1>0, <2>1, RingsStay
  <2>3. inflight' \in [Workers -> {Idle} \union Requests] /\ Meant'
    BY <1>0, <2>1, RequestsStay
  <2> QED BY <1>0, <2>1, <2>2, <2>3 DEF Inv, Types
<1> QED BY <1>1, <1>2, <1>3, <1>4, <1>5, <1>6, <1>7 DEF Next

-------------------------------------------------------------------------------
(* What is sent back *)

\* The items of an answer, and the blocks a Messages client gets of each.
AnswerItems ==
  {x \in Items : /\ x.type \in {"reasoning", "message", "function_call"}
                 /\ x.role = "assistant" /\ x.parts \in {<<>>, <<AnswerText>>}}
ReplyBlocks == [type : {"text", "thinking", "tool_use"}, id : Identifiers]
BlocksOf(item) ==
  CASE item.type = "reasoning" -> <<[type |-> "thinking", id |-> item.id]>>
    [] item.type = "message" -> item.parts
    [] item.type = "function_call" -> <<[type |-> "tool_use", id |-> item.id]>>
ItemBlocks == [x \in AnswerItems |-> BlocksOf(x)]
AnswerSaid == [x \in AnswerItems |-> SaidByItem(x)]
ReplySaid == [b \in ReplyBlocks |-> SaidByBlock("assistant", b)]

LEMMA AnswerItemsType ==
  ASSUME NEW a \in Answers
  PROVE  AnswerToOutput(a) \in Seq(AnswerItems)
<1> DEFINE x == ReasoningItems(a)
           y == TextItems(a)
           z == CallItems(a)
<1>0. NoId \in Identifiers /\ AnswerText \in Parts
  BY DEF Identifiers, AnswerText, Parts
<1>1. <<AnswerText>> \in Seq(Parts) /\ <<>> \in Seq(Parts)
  BY <1>0
<1>2. x \in Seq(AnswerItems)
  <2> DEFINE e == Item("reasoning", "assistant", <<>>, NoId)
  <2>1. e \in AnswerItems
    BY <1>0, <1>1 DEF AnswerItems, Item, Items, Roles
  <2>2. x = IF a.reasoning THEN <<e>> ELSE <<>>
    BY DEF ReasoningItems
  <2> HIDE DEF e
  <2>3. <<e>> \in Seq(AnswerItems) /\ <<>> \in Seq(AnswerItems)
    BY <2>1
  <2> QED BY <2>2, <2>3
<1>3. y \in Seq(AnswerItems)
  <2> DEFINE e == Item("message", "assistant", <<AnswerText>>, NoId)
  <2>1. e \in AnswerItems
    BY <1>0, <1>1 DEF AnswerItems, Item, Items, Roles
  <2>2. y = IF a.text THEN <<e>> ELSE <<>>
    BY DEF TextItems
  <2> HIDE DEF e
  <2>3. <<e>> \in Seq(AnswerItems) /\ <<>> \in Seq(AnswerItems)
    BY <2>1
  <2> QED BY <2>2, <2>3
<1>4. z \in Seq(AnswerItems)
  <2> DEFINE f == [c \in Identifiers |-> Item("function_call", "assistant", <<>>, c)]
             q == a.calls
  <2>1. f \in [Identifiers -> AnswerItems]
    BY <1>1 DEF AnswerItems, Item, Items, Roles
  <2>2. q \in Seq(Identifiers)
    BY AnswerType
  <2>3. \A i \in DOMAIN q : q[i] \in Identifiers
    BY <2>2
  <2>4. z = [i \in DOMAIN q |-> f[q[i]]]
    BY <2>3 DEF CallItems
  <2> HIDE DEF f, q
  <2> QED BY <2>1, <2>2, <2>4, MapType
<1>5. AnswerToOutput(a) = (x \o y) \o z
  BY AnswerType
<1> HIDE DEF x, y, z
<1>6. x \o y \in Seq(AnswerItems)
  BY <1>2, <1>3, ConcatProperties
<1> QED BY <1>4, <1>5, <1>6, ConcatProperties

\* The blocks of an item say what it says, but for the thinking.
LEMMA BlocksKept ==
  ASSUME NEW x \in AnswerItems
  PROVE  /\ BlocksOf(x) \in Seq(ReplyBlocks) /\ SaidByItem(x) \in Seq(Uttered)
         /\ FlatMap(ReplySaid, BlocksOf(x)) = SaidByItem(x)
         /\ Maps(ReplySaid, ReplyBlocks, Uttered)
<1>0. /\ x \in Items /\ x.id \in Identifiers
      /\ x.type \in {"reasoning", "message", "function_call"}
      /\ x.role = "assistant" /\ x.parts \in {<<>>, <<AnswerText>>}
  BY DEF AnswerItems, Items
<1>1. \A b \in ReplyBlocks : SaidByBlock("assistant", b) \in Seq(Uttered)
  <2> SUFFICES ASSUME NEW b \in ReplyBlocks PROVE SaidByBlock("assistant", b) \in Seq(Uttered)
    OBVIOUS
  <2> DEFINE z == [items |-> <<>>, parts |-> <<>>]
  <2>1. z \in Gathered
    <3>1. <<>> \in Seq(Items) /\ <<>> \in Seq(Parts)
      OBVIOUS
    <3> QED BY <3>1 DEF Gathered
  <2>2. b \in Blocks /\ "assistant" \in Roles
    BY DEF ReplyBlocks, Blocks, Roles
  <2> HIDE DEF z
  <2> QED BY <2>1, <2>2, BlockSays
<1>2. /\ ReplySaid \in [ReplyBlocks -> Seq(Uttered)] /\ Maps(ReplySaid, ReplyBlocks, Uttered)
      /\ SaidByItem(x) \in Seq(Uttered)
  BY <1>0, <1>1, SaidByItemType DEF ReplySaid, Maps
<1>3. ASSUME NEW b \in ReplyBlocks, BlocksOf(x) = <<b>>,
             SaidByBlock("assistant", b) = SaidByItem(x)
      PROVE  /\ BlocksOf(x) \in Seq(ReplyBlocks)
             /\ FlatMap(ReplySaid, BlocksOf(x)) = SaidByItem(x)
  <2>1. FlatMap(ReplySaid, <<b>>) = ReplySaid[b]
    BY <1>2, FlatMapOne
  <2>2. ReplySaid[b] = SaidByBlock("assistant", b)
    BY DEF ReplySaid
  <2>3. <<b>> \in Seq(ReplyBlocks)
    OBVIOUS
  <2> QED BY <1>2, <1>3, <2>1, <2>2, <2>3
<1>4. CASE x.type = "reasoning"
  <2> DEFINE b == [type |-> "thinking", id |-> x.id]
  <2>1. b \in ReplyBlocks
    BY <1>0 DEF ReplyBlocks
  <2>2. BlocksOf(x) = <<b>>
    BY <1>4 DEF BlocksOf
  <2>3. SaidByBlock("assistant", b) = SaidByItem(x)
    BY <1>4 DEF SaidByBlock, SaidByItem
  <2> HIDE DEF b
  <2> QED BY <1>2, <1>3, <2>1, <2>2, <2>3
<1>5. CASE x.type = "function_call"
  <2> DEFINE b == [type |-> "tool_use", id |-> x.id]
  <2>1. b \in ReplyBlocks
    BY <1>0 DEF ReplyBlocks
  <2>2. BlocksOf(x) = <<b>>
    BY <1>5 DEF BlocksOf
  <2>3. SaidByBlock("assistant", b) = SaidByItem(x)
    BY <1>5 DEF SaidByBlock, SaidByItem
  <2> HIDE DEF b
  <2> QED BY <1>2, <1>3, <2>1, <2>2, <2>3
<1>6. CASE x.type = "message" /\ x.parts = <<AnswerText>>
  <2> DEFINE b == AnswerText
  <2>1. b \in ReplyBlocks
    BY DEF ReplyBlocks, AnswerText, Identifiers
  <2>2. BlocksOf(x) = <<b>>
    BY <1>6 DEF BlocksOf
  <2>3. SaidByBlock("assistant", b) = SaidByItem(x)
    <3>1. SaidByBlock("assistant", b) = << <<"assistant", b.type, b.id>> >>
      BY DEF SaidByBlock, AnswerText
    <3>2. SaidByItem(x) = [i \in DOMAIN x.parts |-> <<"assistant", x.parts[i].type, x.parts[i].id>>]
      BY <1>0, <1>6 DEF SaidByItem
    <3> HIDE DEF b
    <3>3. x.parts = <<b>>
      BY <1>6 DEF b
    <3> QED BY <3>1, <3>2, <3>3
  <2> HIDE DEF b
  <2> QED BY <1>2, <1>3, <2>1, <2>2, <2>3
<1>7. CASE x.type = "message" /\ x.parts = <<>>
  <2>1. BlocksOf(x) = <<>>
    BY <1>7 DEF BlocksOf
  <2>2. SaidByItem(x) = <<>>
    BY <1>7 DEF SaidByItem
  <2>3. <<>> \in Seq(ReplyBlocks)
    OBVIOUS
  <2> QED BY <1>2, <2>1, <2>2, <2>3, FlatMapEmpty
<1> QED BY <1>0, <1>4, <1>5, <1>6, <1>7

\* A client that sends the blocks of an answer back says what the answer said, and has
\* the calls it was told of.
LEMMA RepliesKept ==
  ASSUME NEW a \in Answers
  PROVE  /\ OutputToBlocks(AnswerToOutput(a)) \in Seq(ReplyBlocks)
         /\ FlatMap(ReplySaid, OutputToBlocks(AnswerToOutput(a)))
              = FlatMap(ItemSaid, AnswerToOutput(a))
         /\ Maps(ReplySaid, ReplyBlocks, Uttered)
         /\ Has(AnswerToOutput(a), {"function_call"}) =>
              Has(OutputToBlocks(AnswerToOutput(a)), {"tool_use"})
<1> DEFINE q == AnswerToOutput(a)
<1>1. q \in Seq(AnswerItems) /\ \A i \in DOMAIN q : q[i] \in AnswerItems
  BY AnswerItemsType
<1>2. OutputToBlocks(q) = FlatMap(ItemBlocks, q)
  <2> HIDE DEF q
  <2>1. OutputToBlocks(q) = FlattenSeq([i \in DOMAIN q |-> BlocksOf(q[i])])
    BY DEF OutputToBlocks, BlocksOf
  <2>2. [i \in DOMAIN q |-> BlocksOf(q[i])] = [i \in DOMAIN q |-> ItemBlocks[q[i]]]
    BY <1>1 DEF ItemBlocks
  <2> QED BY <2>1, <2>2 DEF FlatMap
<1>3. FlatMap(AnswerSaid, q) = FlatMap(ItemSaid, q)
  <2> HIDE DEF q
  <2>1. \A x \in AnswerItems : x \in Items
    BY DEF AnswerItems
  <2>2. [i \in DOMAIN q |-> AnswerSaid[q[i]]] = [i \in DOMAIN q |-> ItemSaid[q[i]]]
    BY <1>1, <2>1 DEF AnswerSaid, ItemSaid
  <2> QED BY <2>2 DEF FlatMap
<1> HIDE DEF q
<1>4. ItemBlocks \in [AnswerItems -> Seq(ReplyBlocks)]
  BY BlocksKept DEF ItemBlocks
<1>5. FlatMap(ItemBlocks, q) \in Seq(ReplyBlocks)
  BY <1>1, <1>4, FlatMapType
<1>6. Maps(ReplySaid, ReplyBlocks, Uttered)
  <2>1. Item("reasoning", "assistant", <<>>, NoId) \in AnswerItems
    <3>1. <<>> \in Seq(Parts)
      OBVIOUS
    <3> QED BY <3>1 DEF AnswerItems, Item, Items, Roles, Identifiers
  <2> QED BY <2>1, BlocksKept
<1>7. FlatMap(ReplySaid, FlatMap(ItemBlocks, q)) = FlatMap(AnswerSaid, q)
  <2>1. Composed(AnswerSaid, ReplySaid, ItemBlocks, AnswerItems)
    BY BlocksKept DEF Composed, AnswerSaid, ItemBlocks
  <2>2. Maps(ItemBlocks, AnswerItems, ReplyBlocks)
    BY <1>4 DEF Maps
  <2>3. Maps(AnswerSaid, AnswerItems, Uttered)
    BY BlocksKept DEF Maps, AnswerSaid
  <2>4. Twice(AnswerSaid, ReplySaid, ItemBlocks, AnswerItems)
    BY <1>6, <2>1, <2>2, <2>3, FlatMapsTwice
  <2> QED BY <1>1, <2>4 DEF Twice
<1>8. ASSUME Has(q, {"function_call"}) PROVE Has(FlatMap(ItemBlocks, q), {"tool_use"})
  <2>1. PICK i \in DOMAIN q : q[i].type = "function_call"
    BY <1>8 DEF Has
  <2> DEFINE x == q[i]
             b == [type |-> "tool_use", id |-> x.id]
             w == FlatMap(ItemBlocks, q)
  <2>2. x \in ToSet(q) /\ x \in AnswerItems
    BY <1>1 DEF ToSet
  <2>3. ItemBlocks[x] = <<b>>
    <3>1. x.type = "function_call"
      BY <2>1
    <3> HIDE DEF x
    <3> QED BY <2>2, <3>1 DEF ItemBlocks, BlocksOf
  <2>4. b.type = "tool_use"
    OBVIOUS
  <2> HIDE DEF x, b
  <2>5. b \in ToSet(<<b>>)
    BY DEF ToSet
  <2>6. b \in ToSet(w)
    BY <1>1, <1>4, <2>2, <2>3, <2>5, FlatMapHas
  <2> HIDE DEF w
  <2>7. PICK j \in DOMAIN w : w[j] = b
    BY <2>6 DEF ToSet
  <2> QED BY <2>4, <2>7 DEF Has, w
<1> QED BY <1>2, <1>3, <1>5, <1>6, <1>7, <1>8 DEF q

\* What it sends back with one text more is not refused, and is made into items that say
\* just that.
LEMMA ReturnKept ==
  ASSUME NEW blocks \in Seq(ReplyBlocks), Maps(ReplySaid, ReplyBlocks, Uttered)
  PROVE  LET input == MessagesToInput(<<[role |-> "assistant", blocks |-> blocks],
                                        [role |-> "user", blocks |-> <<AnswerText>>]>>)
         IN FlattenSeq([i \in DOMAIN input |-> SaidByItem(input[i])])
              = FlatMap(ReplySaid, blocks) \o SaidByBlock("user", AnswerText)
<1> DEFINE m1 == [role |-> "assistant", blocks |-> blocks]
           m2 == [role |-> "user", blocks |-> <<AnswerText>>]
           msgs == <<m1, m2>>
           input == FlatMap(TurnTranslated, msgs)
           u1 == FlatMap(ReplySaid, blocks)
           u2 == SaidByBlock("user", AnswerText)
<1>0. \A b \in ReplyBlocks : b \in Blocks
  BY DEF ReplyBlocks, Blocks
<1>1. AnswerText \in ReplyBlocks
  BY DEF ReplyBlocks, AnswerText, Identifiers
<1>2. m1 \in Turns /\ m2 \in Turns
  <2>1. blocks \in Seq(Blocks) /\ <<AnswerText>> \in Seq(Blocks)
    <3>1. blocks \in Seq(Blocks)
      BY <1>0
    <3>2. AnswerText \in Blocks
      BY <1>0, <1>1
    <3> HIDE DEF m1, m2
    <3> QED BY <3>1, <3>2
  <2> QED BY <2>1 DEF Turns, Roles
<1>3. msgs \in Seq(Turns) /\ DOMAIN msgs = {1, 2} /\ msgs[1] = m1 /\ msgs[2] = m2
      /\ msgs = Append(<<m1>>, m2) /\ <<m1>> \in Seq(Turns)
  <2> HIDE DEF m1, m2
  <2> QED BY <1>2
<1>4. TurnSaid[m1] = u1
  <2>1. TurnSaid[m1] = FlattenSeq([j \in DOMAIN blocks |-> SaidByBlock("assistant", blocks[j])])
    BY <1>2 DEF TurnSaid
  <2>2. \A j \in DOMAIN blocks : blocks[j] \in ReplyBlocks
    OBVIOUS
  <2>3. [j \in DOMAIN blocks |-> SaidByBlock("assistant", blocks[j])]
          = [j \in DOMAIN blocks |-> ReplySaid[blocks[j]]]
    BY <2>2 DEF ReplySaid
  <2> HIDE DEF m1
  <2> QED BY <2>1, <2>3 DEF FlatMap
<1>5. TurnSaid[m2] = u2 /\ u2 = << <<"user", "text", AnswerText.id>> >> /\ u2 \in Seq(Uttered)
  <2> DEFINE e == <<"user", "text", AnswerText.id>>
  <2>1. u2 = <<e>>
    BY DEF SaidByBlock, AnswerText
  <2>2. <<"user", "text", AnswerText.id>> \in Uttered
    BY DEF Uttered, Roles, Identifiers
  <2>3. TurnSaid[m2] = FlattenSeq([j \in DOMAIN <<AnswerText>> |-> SaidByBlock("user", <<AnswerText>>[j])])
    BY <1>2 DEF TurnSaid
  <2>4. [j \in DOMAIN <<AnswerText>> |-> SaidByBlock("user", <<AnswerText>>[j])] = <<u2>>
    <3> DEFINE t == AnswerText
    <3> HIDE DEF t
    <3>1. [j \in DOMAIN <<t>> |-> SaidByBlock("user", <<t>>[j])] = <<SaidByBlock("user", t)>>
      OBVIOUS
    <3> QED BY <3>1 DEF t
  <2> HIDE DEF u2, e
  <2>5. u2 \in Seq(Uttered)
    <3>1. e \in Uttered
      BY <2>2 DEF e
    <3> QED BY <2>1, <3>1
  <2> QED BY <2>1, <2>3, <2>4, <2>5, FlattenOne DEF e
<1> HIDE DEF m1, m2, u2
<1>6. FlatMap(TurnSaid, msgs) = u1 \o u2
  <2>1. TurnSaid \in [Turns -> Seq(Uttered)]
    BY <1>3, TurnsKept DEF Maps
  <2>2. FlatMap(TurnSaid, Append(<<m1>>, m2)) = FlatMap(TurnSaid, <<m1>>) \o TurnSaid[m2]
    <3> DEFINE q == <<m1>>
    <3>1. q \in Seq(Turns)
      BY <1>3
    <3> HIDE DEF q
    <3>2. FlatMap(TurnSaid, Append(q, m2)) = FlatMap(TurnSaid, q) \o TurnSaid[m2]
      BY <1>2, <2>1, <3>1, FlatMapAppend
    <3> QED BY <3>2 DEF q
  <2>3. FlatMap(TurnSaid, <<m1>>) = TurnSaid[m1]
    BY <1>2, <2>1, FlatMapOne
  <2> QED BY <1>3, <1>4, <1>5, <2>2, <2>3
<1>7. /\ FlattenSeq([i \in DOMAIN msgs |-> TranslateMessage(msgs[i])]) = input
      /\ input \in Seq(Items) /\ FlatMap(ItemSaid, input) = u1 \o u2
  <2> HIDE DEF msgs
  <2> QED BY <1>3, <1>6, TurnsKept
<1>8. input # <<>>
  <2>1. u1 \in Seq(Uttered)
    <3>1. ReplySaid \in [ReplyBlocks -> Seq(Uttered)]
      BY DEF Maps
    <3> QED BY <3>1, FlatMapType
  <2> HIDE DEF u1, input, msgs
  <2>2. Len(u1 \o u2) = Len(u1) + Len(u2) /\ Len(u1) \in Nat /\ Len(u2) = 1
    <3>1. Len(u2) = 1
      BY <1>5
    <3> QED BY <1>5, <2>1, <3>1, ConcatProperties, LenProperties
  <2> DEFINE c == u1 \o u2
  <2>3. Len(c) # 0
    BY <2>2
  <2> HIDE DEF c
  <2>4. c # <<>>
    BY <2>3
  <2>5. FlatMap(ItemSaid, input) = c
    BY <1>7 DEF c
  <2> QED BY <2>4, <2>5, FlatMapEmpty
<1>9. \A i \in DOMAIN msgs : ~Has(msgs[i].blocks, {"document"})
  <2>1. m1.blocks = blocks /\ m2.blocks = <<AnswerText>>
    BY DEF m1, m2
  <2>2. \A j \in DOMAIN blocks : blocks[j].type # "document"
    <3>1. \A j \in DOMAIN blocks : blocks[j] \in ReplyBlocks
      OBVIOUS
    <3>2. \A b \in ReplyBlocks : b.type # "document"
      BY DEF ReplyBlocks
    <3> QED BY <3>1, <3>2
  <2>3. ~Has(<<AnswerText>>, {"document"})
    BY DEF Has, AnswerText
  <2> QED BY <1>3, <2>1, <2>2, <2>3 DEF Has
<1>10. MessagesToInput(msgs) = input
  <2> HIDE DEF msgs, input
  <2> QED BY <1>7, <1>8, <1>9 DEF MessagesToInput
<1>11. FlattenSeq([i \in DOMAIN input |-> SaidByItem(input[i])]) = FlatMap(ItemSaid, input)
  <2> HIDE DEF input
  <2> QED BY <1>7, SpokenMaps
<1> HIDE DEF input
<1>12. LET inp == MessagesToInput(msgs)
       IN FlattenSeq([i \in DOMAIN inp |-> SaidByItem(inp[i])]) = u1 \o u2
  BY <1>7, <1>10, <1>11
<1> QED BY <1>12 DEF m1, m2, u2

-------------------------------------------------------------------------------
(* Theorems *)

LEMMA InvAlways == Spec => []Inv
BY InvInit, InvNext, PTL DEF Spec

\* An answer that is in its ring can be gone on from.
LEMMA CanGoOn ==
  ASSUME Types, Sound, NEW id \in DOMAIN told, ~told[id].empty, told[id].age < TTL, Held(id)
  PROVE  TranslateRequest(store[told[id].slot], <<Item("message", "user", <<>>, NoId)>>, FALSE, id)
           # Refused
<1> DEFINE s == told[id].slot
           x == Item("message", "user", <<>>, NoId)
           items == <<x>>
           chat == InputToChat(items, FALSE)
           m == ChatMessage("user", <<>>, <<>>, NoId)
<1>0. told[id] \in Given /\ s \in Slots /\ told[id].answer \in Answers
  <2>1. told[id] \in Given
    BY DEF Types
  <2> QED BY <2>1 DEF Given
<1>1. chat = <<m>> /\ <<m>> \in Seq(Messages)
  <2>1. x \in Items /\ TranslateItem(x) = <<m>> /\ x.parts = <<>>
    <3>1. <<>> \in Seq(Parts)
      OBVIOUS
    <3> QED BY <3>1 DEF Item, Items, Roles, Identifiers, TranslateItem
  <2>2. m \in Messages
    <3>1. <<>> \in Seq(Parts) /\ "user" \in Roles
      BY DEF Roles
    <3> QED BY <3>1, MessageSays
  <2> HIDE DEF x, m
  <2>3. FlattenSeq([i \in DOMAIN items |-> TranslateItem(items[i])]) = <<m>>
    <3>1. [i \in DOMAIN items |-> TranslateItem(items[i])] = << <<m>> >>
      BY <2>1
    <3>2. <<m>> \in Seq(Messages)
      BY <2>2
    <3> QED BY <3>1, <3>2, FlattenOne
  <2>4. SystemMessage(FALSE) = <<>>
    BY DEF SystemMessage
  <2>5. <<m>> \in Seq(Messages) /\ <<m>> # <<>>
    BY <2>2
  <2>6. <<>> \o <<m>> = <<m>>
    BY <2>5, ConcatEmptySeq
  <2>7. \A i \in DOMAIN items : ~Has(items[i].parts, {"input_file"})
    BY <2>1 DEF Has
  <2> HIDE DEF items
  <2> QED BY <2>3, <2>4, <2>5, <2>6, <2>7 DEF InputToChat
<1>2. chat # Refused
  BY <1>1, RefusedAssumption
<1>3. Holds(Live(store[s]), id)
  <2>1. PICK e \in ToSet(store[s]) : e.id = id
    BY DEF Held
  <2>2. e.age < TTL
    BY <1>0, <2>1 DEF Sound
  <2>3. store[s] \in Seq(Entries) /\ Rising(store[s])
    BY <1>0 DEF Types, Sound
  <2> HIDE DEF s
  <2>4. e \in ToSet(Live(store[s]))
    BY <2>1, <2>2, <2>3, LiveKeeps
  <2>5. PICK i \in DOMAIN Live(store[s]) : Live(store[s])[i] = e
    BY <2>4 DEF ToSet
  <2> QED BY <2>1, <2>5 DEF Holds
<1>4. EntryOf(store[s], id).history = History(told[id].answer)
  <2>1. EntryOf(store[s], id).history = Left(told[id])
    BY <1>0, <1>3, EntryMeans
  <2> QED BY <2>1 DEF Left
<1> DEFINE h == History(told[id].answer)
<1>5. h \in Seq(Messages) /\ h # <<>>
  BY <1>0, HistorySays
<1> HIDE DEF h, chat, items
<1>6. TranslateRequest(store[s], items, FALSE, id) = h \o chat
  BY <1>2, <1>3, <1>4, <1>5 DEF TranslateRequest, h, chat
<1>7. h \o chat \in Seq(Messages)
  <2>1. chat \in Seq(Messages)
    BY <1>1
  <2> QED BY <1>5, <2>1, ConcatProperties
<1> QED BY <1>6, <1>7, RefusedAssumption DEF items

\* A client can go on from the answer it was given, on the backend that gave it, for as
\* long as the ring of store.rs promises: TTL, and MAX_ENTRIES later answers; and from
\* none that was deleted, has expired or never was.  The ring does not outgrow MAX_ENTRIES.
THEOREM RemembersAnswers == Spec => []Remembered
<1>1. Inv => Remembered
  <2> SUFFICES ASSUME Inv PROVE Remembered
    OBVIOUS
  <2>0. Types /\ Sound /\ Complete
    BY DEF Inv
  <2>1. ASSUME NEW id \in DOMAIN told, ~told[id].empty, told[id].age < TTL,
               Cardinality(Later(id)) < MaxEntries
        PROVE  TranslateRequest(store[told[id].slot], <<Item("message", "user", <<>>, NoId)>>,
                                FALSE, id) # Refused
    <3>1. Held(id)
      <4>1. Held(id) \/ Cardinality(Later(id)) >= MaxEntries
        BY <2>0, <2>1 DEF Complete
      <4>2. Cardinality(Later(id)) \in Nat /\ MaxEntries \in Nat
        BY <2>0, LaterFinite, LimitsAssumption
      <4> QED BY <2>1, <4>1, <4>2
    <3> QED BY <2>0, <2>1, <3>1, CanGoOn
  <2>2. ASSUME NEW s \in Slots, NEW id \in Ids, id \in DOMAIN told => told[id].age = TTL,
               Holds(Live(store[s]), id)
        PROVE  FALSE
    <3>1. id \in DOMAIN told /\ told[id].age < TTL
      BY <2>0, <2>2, EntryMeans
    <3> QED BY <2>2, <3>1, LimitsAssumption
  <2>3. \A s \in Slots : Len(store[s]) <= MaxEntries
    BY <2>0 DEF Sound
  <2> QED BY <2>1, <2>2, <2>3 DEF Remembered
<1> QED BY <1>1, InvAlways, PTL

\* A request that is translated says what the answer it goes on from says, then what was
\* asked.
LEMMA RequestSays ==
  ASSUME Types, Meant, NEW w \in Workers, Translated(w)
  PROVE  /\ inflight[w] \in Requests /\ Intended(told, inflight[w])
         /\ inflight[w].chat # Untranslated
         /\ inflight[w].prev # NoPrevious => told[inflight[w].prev].answer \in Answers
         /\ FlatMap(ItemSaid, inflight[w].input) = Asked(inflight[w].ask)
         /\ Spoken(inflight[w].chat) = Resent(inflight[w].prev) \o Asked(inflight[w].ask)
<1>0. told \in Seq(Given)
  BY DEF Types
<1> DEFINE r == inflight[w]
           chat == InputToChat(r.input, r.ask.instructions)
           back == Resumed(told, r.prev)
<1>1. r \in Requests /\ Intended(told, r) /\ r.chat # Untranslated
  <2>1. r # Idle /\ r.chat # Untranslated
    BY DEF Translated
  <2>2. r \in {Idle} \union Requests
    BY <1>0 DEF Types
  <2> QED BY <1>0, <2>1, <2>2 DEF Meant
<1> HIDE DEF r
<1>2. /\ r.input = InputOf(r.ask) /\ r.input \in Seq(Items) /\ r.ask \in Asks
      /\ r.prev # NoPrevious => r.prev \in DOMAIN told
      /\ chat # Refused /\ r.chat = back \o chat
  BY <1>1 DEF Intended, Requests
<1>3. chat \in Seq(Messages) /\ Spoken(chat) = FlatMap(ItemSaid, r.input)
  <2>1. r.ask.instructions \in BOOLEAN
    BY <1>2, AsksAssumption
  <2> QED BY <1>2, <2>1, ChatSays
<1>4. FlatMap(ItemSaid, r.input) = Asked(r.ask)
  <2>1. InputOf(r.ask) # Refused
    <3>1. InputOf(r.ask) \in Seq(Items)
      BY <1>2
    <3> QED BY <3>1, RefusedAssumption
  <2> QED BY <1>2, <2>1, AskSays
<1>5. back \in Seq(Messages) /\ Spoken(back) = Resent(r.prev)
  <2>1. CASE r.prev = NoPrevious
    <3>1. back = <<>> /\ Resent(r.prev) = <<>> /\ <<>> \in Seq(Messages)
      BY <2>1 DEF Resumed, Resent
    <3>2. Spoken(<<>>) = FlatMap(MessageSaid, <<>>)
      BY <3>1, SpokenMaps
    <3> QED BY <3>1, <3>2, FlatMapEmpty
  <2>2. CASE r.prev # NoPrevious
    <3> DEFINE a == told[r.prev].answer
               output == AnswerToOutput(a)
    <3>1. a \in Answers
      <4>1. told[r.prev] \in Given
        BY <1>0, <1>2, <2>2
      <4> QED BY <4>1 DEF Given
    <3>2. back = History(a)
      BY <2>2 DEF Resumed
    <3>3. Resent(r.prev) = FlattenSeq([i \in DOMAIN output |-> SaidByItem(output[i])])
      BY <2>2 DEF Resent
    <3> HIDE DEF a
    <3>4. output \in Seq(Items)
      <4>1. Maps(ItemSaid, Items, Uttered)
        BY SpokenMaps DEF Maps
      <4> QED BY <3>1, <4>1, AnswerMaps
    <3> HIDE DEF output
    <3>5. Resent(r.prev) = FlatMap(ItemSaid, output)
      BY <3>3, <3>4, SpokenMaps
    <3> QED BY <3>1, <3>2, <3>5, HistorySays DEF output
  <2> QED BY <2>1, <2>2
<1> HIDE DEF chat, back
<1>6. Spoken(back \o chat) = Spoken(back) \o Spoken(chat)
  <2>1. Distributes(MessageSaid, Messages)
    <3>1. MessageSaid \in [Messages -> Seq(Uttered)]
      BY SpokenMaps
    <3> QED BY <3>1, FlatMapDistributes
  <2>2. back \o chat \in Seq(Messages)
    BY <1>3, <1>5, ConcatProperties
  <2>3. FlatMap(MessageSaid, back \o chat) = FlatMap(MessageSaid, back) \o FlatMap(MessageSaid, chat)
    BY <1>3, <1>5, <2>1 DEF Distributes
  <2>4. Spoken(back \o chat) = FlatMap(MessageSaid, back \o chat)
    BY <2>2, SpokenMaps
  <2>5. Spoken(back) = FlatMap(MessageSaid, back) /\ Spoken(chat) = FlatMap(MessageSaid, chat)
    BY <1>3, <1>5, SpokenMaps
  <2> QED BY <2>3, <2>4, <2>5
<1>7. Spoken(r.chat) = Resent(r.prev) \o Asked(r.ask)
  BY <1>2, <1>3, <1>4, <1>5, <1>6
<1>8. r.prev # NoPrevious => told[r.prev].answer \in Answers
  <2> SUFFICES ASSUME r.prev # NoPrevious PROVE told[r.prev].answer \in Answers
    OBVIOUS
  <2>1. told[r.prev] \in Given
    BY <1>0, <1>2
  <2> QED BY <2>1 DEF Given
<1> QED BY <1>1, <1>4, <1>7, <1>8 DEF r

\* A request with a file is refused.
LEMMA FilesRefused ==
  ASSUME Types, Meant, NEW w \in Workers, Translated(w)
  PROVE  ~HasFile(inflight[w].ask)
<1> DEFINE r == inflight[w]
           q == r.ask.payload
<1>1. r \in Requests /\ Intended(told, r) /\ r.chat # Untranslated
  BY RequestSays
<1> HIDE DEF r
<1>2. /\ r.input = InputOf(r.ask) /\ r.input \in Seq(Items)
      /\ InputToChat(r.input, r.ask.instructions) # Refused
  BY <1>1 DEF Requests, Intended
<1>3. ASSUME HasFile(r.ask) PROVE FALSE
  <2>1. CASE r.ask.api = "messages"
    <3>1. \E i \in DOMAIN q : Has(q[i].blocks, {"document"})
      BY <1>3, <2>1 DEF HasFile
    <3>2. MessagesToInput(q) = Refused
      BY <3>1 DEF MessagesToInput
    <3>3. r.input = Refused
      BY <1>2, <2>1, <3>2 DEF InputOf
    <3> QED BY <1>2, <3>3, RefusedAssumption
  <2>2. CASE r.ask.api # "messages"
    <3>1. \E i \in DOMAIN q : Has(q[i].parts, {"input_file"})
      BY <1>3, <2>2 DEF HasFile
    <3>2. r.input = q
      BY <1>2, <2>2 DEF InputOf
    <3> HIDE DEF q
    <3>3. \E i \in DOMAIN r.input : Has(r.input[i].parts, {"input_file"})
      BY <3>1, <3>2
    <3> QED BY <1>2, <3>3 DEF InputToChat
  <2> QED BY <2>1, <2>2
<1> QED BY <1>3 DEF r

\* Texts, images, calls and results are kept (translate_request, translate_input_item,
\* messages_to_responses, responses_to_messages): whatever is asked, a chat upstream gets
\* what the answer the request goes on from said, then what the request says, in order; a
\* request with a file is not sent; and the blocks of an answer lose nothing but the
\* thinking.  What the router skips by its type says nothing here.
THEOREM TextsAndCallsAreKept == Spec => []TextsAndCallsKept
<1>1. Inv => TextsAndCallsKept
  <2> SUFFICES ASSUME Inv PROVE TextsAndCallsKept
    OBVIOUS
  <2>0. Types /\ Meant /\ told \in Seq(Given)
    BY DEF Inv, Types
  <2>1. ASSUME NEW w \in Workers, Translated(w)
        PROVE  /\ Spoken(inflight[w].chat) = Resent(inflight[w].prev) \o Asked(inflight[w].ask)
               /\ ~HasFile(inflight[w].ask)
    BY <2>0, <2>1, RequestSays, FilesRefused
  <2>2. ASSUME told # <<>>
        PROVE  LET id == Len(told)
                   output == AnswerToOutput(told[id].answer)
               IN /\ Returned(id) = Resent(id) \o SaidByBlock("user", AnswerText)
                  /\ StopReason(output, told[id].status) = "tool_use" =>
                       Has(OutputToBlocks(output), {"tool_use"})
    <3> DEFINE id == Len(told)
               a == told[id].answer
               output == AnswerToOutput(a)
               blocks == OutputToBlocks(output)
               last == SaidByBlock("user", AnswerText)
    <3>1. id \in DOMAIN told /\ id # NoPrevious
      <4>1. Len(told) \in Nat /\ Len(told) # 0 /\ DOMAIN told = 1..Len(told)
        BY <2>0, <2>2, EmptySeq, LenProperties
      <4> QED BY <4>1 DEF NoPrevious
    <3> HIDE DEF id
    <3>2. a \in Answers
      <4>1. told[id] \in Given
        BY <2>0, <3>1
      <4> QED BY <4>1 DEF Given
    <3>3. Resent(id) = FlattenSeq([i \in DOMAIN output |-> SaidByItem(output[i])])
      BY <3>1 DEF Resent
    <3>4. Returned(id) = LET input == MessagesToInput(<<[role |-> "assistant", blocks |-> blocks],
                                                        [role |-> "user", blocks |-> <<AnswerText>>]>>)
                         IN FlattenSeq([i \in DOMAIN input |-> SaidByItem(input[i])])
      BY DEF Returned
    <3> HIDE DEF a
    <3>5. /\ blocks \in Seq(ReplyBlocks)
          /\ FlatMap(ReplySaid, blocks) = FlatMap(ItemSaid, output)
          /\ Maps(ReplySaid, ReplyBlocks, Uttered)
          /\ Has(output, {"function_call"}) => Has(blocks, {"tool_use"})
      BY <3>2, RepliesKept
    <3>6. output \in Seq(Items)
      <4>1. Maps(ItemSaid, Items, Uttered)
        BY SpokenMaps DEF Maps
      <4> QED BY <3>2, <4>1, AnswerMaps
    <3> HIDE DEF output, blocks, last
    <3>7. Resent(id) = FlatMap(ItemSaid, output)
      BY <3>3, <3>6, SpokenMaps
    <3>8. Returned(id) = FlatMap(ReplySaid, blocks) \o last
      BY <3>4, <3>5, ReturnKept DEF last
    <3>9. Returned(id) = Resent(id) \o last
      BY <3>5, <3>7, <3>8
    <3>10. StopReason(output, told[id].status) = "tool_use" => Has(blocks, {"tool_use"})
      <4>1. StopReason(output, told[id].status) = "tool_use" => Has(output, {"function_call"})
        BY DEF StopReason
      <4> QED BY <3>5, <4>1
    <3> QED BY <3>9, <3>10 DEF id, a, output, blocks, last
  <2> QED BY <2>1, <2>2 DEF TextsAndCallsKept
<1> QED BY <1>1, InvAlways, PTL

\* A hint that is put in front of the messages asks for no reasoning.
LEMMA HintMissesNothing ==
  ASSUME NEW messages \in Seq(Messages), NEW mentions \in BOOLEAN,
         MissingReasoning(JsonHint(messages, mentions))
  PROVE  MissingReasoning(messages)
<1> DEFINE m == ChatMessage("system", <<>>, <<>>, "json")
           q == <<m>> \o messages
<1>1. CASE mentions
  BY <1>1 DEF JsonHint
<1>2. CASE ~mentions
  <2>1. MissingReasoning(q)
    BY <1>2 DEF JsonHint
  <2>2. m.role = "system" /\ <<m>> \in Seq({m} \union Messages) /\ Len(<<m>>) = 1 /\ <<m>>[1] = m
    BY DEF ChatMessage
  <2> HIDE DEF m
  <2>3. messages \in Seq({m} \union Messages)
    OBVIOUS
  <2>4. /\ Len(q) = 1 + Len(messages) /\ q[1] = m /\ DOMAIN q = 1..Len(q)
        /\ \A i \in 1..Len(messages) : q[1 + i] = messages[i]
        /\ Len(messages) \in Nat /\ DOMAIN messages = 1..Len(messages)
    <3>1. q \in Seq({m} \union Messages) /\ Len(q) = Len(<<m>>) + Len(messages)
          /\ (\A i \in 1..Len(<<m>>) : q[i] = <<m>>[i])
          /\ \A i \in 1..Len(messages) : q[Len(<<m>>) + i] = messages[i]
      BY <2>2, <2>3, ConcatProperties
    <3> HIDE DEF q
    <3>2. DOMAIN q = 1..Len(q)
      BY <3>1, LenProperties
    <3> QED BY <2>2, <3>1, <3>2, LenProperties
  <2> HIDE DEF q
  <2>5. PICK i \in 1..Len(q) : q[i].role = "assistant" /\ q[i].calls # <<>>
    BY <2>1, <2>4 DEF MissingReasoning
  <2>6. i # 1
    BY <2>2, <2>4, <2>5
  <2> DEFINE j == i - 1
  <2>7. j \in 1..Len(messages) /\ i = 1 + j
    <3> DEFINE n == Len(messages)
    <3>1. n \in Nat /\ i \in 1..(1 + n)
      BY <2>4
    <3> HIDE DEF n
    <3>2. j \in 1..n /\ i = 1 + j
      BY <2>6, <3>1
    <3> QED BY <3>2 DEF n
  <2> HIDE DEF j
  <2>8. j \in DOMAIN messages /\ q[i] = messages[j]
    BY <2>4, <2>7
  <2> QED BY <2>5, <2>8 DEF MissingReasoning
<1> QED BY <1>1, <1>2

\* A prompt without the word has it after the hint.
LEMMA HintSays ==
  ASSUME NEW messages \in Seq(Messages)
  PROVE  \E i \in DOMAIN JsonHint(messages, FALSE) : JsonHint(messages, FALSE)[i].id = "json"
<1> DEFINE m == ChatMessage("system", <<>>, <<>>, "json")
           q == <<m>> \o messages
<1>1. JsonHint(messages, FALSE) = q
  BY DEF JsonHint
<1>2. m.id = "json" /\ <<m>> \in Seq({m} \union Messages) /\ Len(<<m>>) = 1 /\ <<m>>[1] = m
  BY DEF ChatMessage
<1> HIDE DEF m
<1>3. messages \in Seq({m} \union Messages)
  OBVIOUS
<1>4. q \in Seq({m} \union Messages) /\ Len(q) = 1 + Len(messages) /\ q[1] = m
      /\ Len(messages) \in Nat
  <2>1. q \in Seq({m} \union Messages) /\ Len(q) = Len(<<m>>) + Len(messages)
        /\ (\A i \in 1..Len(<<m>>) : q[i] = <<m>>[i])
    BY <1>2, <1>3, ConcatProperties
  <2> HIDE DEF q
  <2> QED BY <1>2, <2>1, LenProperties
<1> HIDE DEF q
<1>5. 1 \in DOMAIN q
  <2>1. DOMAIN q = 1..Len(q) /\ 1 \in 1..Len(q)
    BY <1>4, LenProperties
  <2> QED BY <2>1
<1> QED BY <1>1, <1>2, <1>4, <1>5

\* What DeepSeek is known to refuse is never sent to it (payload.rs,
\* normalize_deepseek_official), whatever the client asks for and the alias fills in.
THEOREM DeepseekAcceptsAll == Spec => []DeepseekAccepts
<1>1. ASSUME NEW fields \in Fields, NEW alias, NEW mentions \in BOOLEAN,
             NEW messages \in Seq(Messages), alias.deepseek
      PROVE  ~Refusable(PreparePayload(fields, messages, alias, mentions), mentions)
  <2> DEFINE named == [fields EXCEPT !.effort = TranslateEffort(fields.effort, alias.efforts)]
             full == WithDefaults(named, alias.params)
             rejects == ForcedToolChoice(full) \/ MissingReasoning(messages)
             hinted == IF WantsJson(full) THEN JsonHint(messages, mentions) ELSE messages
             sent == PreparePayload(fields, messages, alias, mentions)
  <2>1. DOMAIN full = FieldNames
    <3>1. DOMAIN fields = FieldNames
      BY FieldsAssumption
    <3> QED BY <3>1 DEF WithDefaults
  <2>2. sent = Normalize(full, messages, mentions)
    BY <1>1 DEF PreparePayload
  <2> DEFINE f == sent.fields
             set == [full EXCEPT
                      !.format = IF @ = "json_schema" THEN "json_object" ELSE @,
                      !.n = IF @ = "many" THEN "one" ELSE @,
                      !.thinking = IF ThinkingEnabled(full) /\ rejects THEN "disabled" ELSE @]
  <2> HIDE DEF full
  <2>3. f = set /\ sent.messages = hinted
    BY <2>2 DEF Normalize
  <2>4. full = [x \in FieldNames |-> full[x]]
    BY <2>1 DEF full, WithDefaults
  <2>5. /\ f.format = IF full.format = "json_schema" THEN "json_object" ELSE full.format
        /\ f.n = IF full.n = "many" THEN "one" ELSE full.n
        /\ f.thinking = IF ThinkingEnabled(full) /\ rejects THEN "disabled" ELSE full.thinking
        /\ f.choice = full.choice
    <3> HIDE DEF sent, rejects
    <3> QED BY <2>1, <2>3 DEF FieldNames
  <2> HIDE DEF sent, set, f
  <2>6. f.format # "json_schema" /\ f.n # "many"
    BY <2>5
  <2>7. ASSUME f.format = "json_object", ~mentions
        PROVE  \E i \in DOMAIN sent.messages : sent.messages[i].id = "json"
    <3>1. WantsJson(full)
      BY <2>5, <2>7 DEF WantsJson
    <3>2. sent.messages = JsonHint(messages, FALSE)
      BY <2>3, <2>7, <3>1
    <3> QED BY <3>2, HintSays
  <2>8. ASSUME ThinkingEnabled(f), ForcedToolChoice(f) \/ MissingReasoning(sent.messages)
        PROVE  FALSE
    <3>1. MissingReasoning(sent.messages) => MissingReasoning(messages)
      BY <2>3, HintMissesNothing
    <3>2. ForcedToolChoice(f) => ForcedToolChoice(full)
      BY <2>5 DEF ForcedToolChoice
    <3>3. rejects
      BY <2>8, <3>1, <3>2
    <3>4. f.thinking # "disabled"
      BY <2>8 DEF ThinkingEnabled
    <3> QED BY <2>5, <3>3, <3>4 DEF ThinkingEnabled
  <2>9. ~Refusable(sent, mentions)
    BY <2>6, <2>7, <2>8 DEF Refusable, f
  <2> QED BY <2>9 DEF sent
<1>2. Inv => DeepseekAccepts
  <2> SUFFICES ASSUME Inv, NEW w \in Workers, Translated(w)
               PROVE  inflight[w].chat \in Seq(Messages)
    BY <1>1 DEF DeepseekAccepts
  <2>1. inflight[w] \in {Idle} \union Requests /\ inflight[w] # Idle
    BY DEF Inv, Types, Translated
  <2>2. inflight[w] \in Requests
    BY <2>1
  <2> QED BY <2>2 DEF Requests
<1> QED BY <1>2, InvAlways, PTL

-------------------------------------------------------------------------------
(* Results and their calls *)

CallOf(id) == <<"assistant", "call", id>>
Within(e) == e[2] \in {"call", "result"}

\* What a message says besides calls and results is in its parts, its calls are among
\* its calls.
LEMMA MessageWithin ==
  ASSUME NEW m \in Messages
  PROVE  /\ \A id : CallOf(id) \in ToSet(Said(m)) => id \in ToSet(m.calls)
         /\ Said(m) # <<>> /\ (\A e \in ToSet(Said(m)) : Within(e)) =>
              m.role = "tool" \/ m.calls # <<>>
<1> DEFINE p == PartsSaid(m.role, m.parts)
           c == CallsSaid(m.calls)
           r == IF m.role = "tool" THEN << <<"tool", "result", m.id>> >> ELSE <<>>
           said == Said(m)
<1>1. m.role \in Roles \union {"tool"} /\ m.parts \in Seq(Parts) /\ m.calls \in Seq(Identifiers)
      /\ m.id \in Identifiers
  BY DEF Messages
<1>2. said = (p \o c) \o r
  BY DEF Said, PartsSaid, CallsSaid
<1>3. p \in Seq(Uttered) /\ c \in Seq(Uttered) /\ r \in Seq(Uttered)
  <2>1. p \in Seq(Uttered) /\ c \in Seq(Uttered)
    BY <1>1, PartsSaidType, CallsSaidType
  <2>2. <<"tool", "result", m.id>> \in Uttered
    BY <1>1 DEF Uttered
  <2>3. << <<"tool", "result", m.id>> >> \in Seq(Uttered) /\ <<>> \in Seq(Uttered)
    BY <2>2
  <2> QED BY <2>1, <2>3
<1>4. \A e \in ToSet(p) : e[2] \in {"text", "image", "input_file"}
  <2> SUFFICES ASSUME NEW i \in DOMAIN m.parts PROVE p[i][2] \in {"text", "image", "input_file"}
    BY DEF PartsSaid, ToSet
  <2> DEFINE x == m.parts[i]
  <2>1. x \in Parts
    BY <1>1
  <2>2. p[i] = <<m.role, x.type, x.id>>
    BY DEF PartsSaid
  <2> HIDE DEF x
  <2>3. x.type \in {"text", "image", "input_file"}
    BY <2>1 DEF Parts
  <2> QED BY <2>2, <2>3
<1>5. \A e \in ToSet(c) : \E i \in DOMAIN m.calls : e = CallOf(m.calls[i])
  BY DEF CallsSaid, ToSet, CallOf
<1>6. \A e \in ToSet(r) : e[2] = "result"
  <2> SUFFICES ASSUME NEW e \in ToSet(r) PROVE e[2] = "result"
    OBVIOUS
  <2>1. CASE m.role = "tool"
    <3>1. r = << <<"tool", "result", m.id>> >>
      BY <2>1
    <3>2. e = <<"tool", "result", m.id>>
      BY <3>1 DEF ToSet
    <3> QED BY <3>2
  <2>2. CASE m.role # "tool"
    <3>1. r = <<>>
      BY <2>2
    <3> QED BY <3>1 DEF ToSet
  <2> QED BY <2>1, <2>2
<1>7. \A e \in ToSet(said) : e \in ToSet(p) \/ e \in ToSet(c) \/ e \in ToSet(r)
  <2> HIDE DEF p, c, r, said
  <2>1. p \o c \in Seq(Uttered)
    BY <1>3, ConcatProperties
  <2>2. \A e \in ToSet((p \o c) \o r) : e \in ToSet(p \o c) \/ e \in ToSet(r)
    BY <1>3, <2>1, ConcatFrom
  <2>3. \A e \in ToSet(p \o c) : e \in ToSet(p) \/ e \in ToSet(c)
    BY <1>3, ConcatFrom
  <2> QED BY <1>2, <2>2, <2>3
<1>8. ASSUME NEW id, CallOf(id) \in ToSet(said) PROVE id \in ToSet(m.calls)
  <2> DEFINE e == CallOf(id)
  <2>1. e[2] = "call" /\ e[3] = id
    BY DEF CallOf
  <2> HIDE DEF e
  <2>2. e \in ToSet(c)
    <3>1. e \in ToSet(p) \/ e \in ToSet(c) \/ e \in ToSet(r)
      BY <1>7, <1>8 DEF e
    <3> HIDE DEF p, c, r
    <3> QED BY <1>4, <1>6, <2>1, <3>1
  <2>3. PICK i \in DOMAIN m.calls : e = CallOf(m.calls[i])
    BY <1>5, <2>2
  <2>4. id = m.calls[i]
    BY <2>1, <2>3 DEF CallOf
  <2> QED BY <2>4 DEF ToSet
<1>9. ASSUME said # <<>>, \A e \in ToSet(said) : Within(e), m.role # "tool", m.calls = <<>>
      PROVE  FALSE
  <2>1. r = <<>> /\ c = <<>>
    BY <1>9, CallsSaidType, <1>1
  <2>2. said = p
    <3> HIDE DEF p, c, r
    <3> QED BY <1>2, <1>3, <2>1, ConcatEmptySeq
  <2>3. 1 \in DOMAIN p
    <3> HIDE DEF p, said
    <3> QED BY <1>3, <1>9, <2>2, EmptySeq
  <2>4. p[1] \in ToSet(p)
    <3> HIDE DEF p
    <3> QED BY <2>3 DEF ToSet
  <2> HIDE DEF p, said
  <2>5. p[1][2] \in {"text", "image", "input_file"} /\ p[1][2] \in {"call", "result"}
    BY <1>4, <1>9, <2>2, <2>4 DEF Within
  <2> QED BY <2>5
<1> QED BY <1>8, <1>9 DEF said

\* Of what messages say, a call and then nothing but calls and results: it is of one of
\* them, and after that one come only results, messages with calls and instructions, when all
\* others but the first say something.
Loud(c) == \A k \in 2..Len(c) : Said(c[k]) # <<>> \/ c[k] = Instructions
Passes(m) == m.role = "tool" \/ m.calls # <<>> \/ m = Instructions
Called(f, id) == \E q \in 1..Len(f) : f[q] = CallOf(id) /\ \A k \in q + 1..Len(f) : Within(f[k])
Calling(c, id) ==
  \E j \in 1..Len(c) : /\ id \in ToSet(c[j].calls)
                       /\ \A k \in j + 1..Len(c) : Passes(c[k])

LEMMA CalledLast ==
  ASSUME NEW S, NEW f \in Seq(S), NEW g \in Seq(S), NEW id, Called(f \o g, id)
  PROVE  \/ CallOf(id) \in ToSet(g)
         \/ Called(f, id) /\ \A e \in ToSet(g) : Within(e)
<1> DEFINE h == f \o g
<1>1. /\ h \in Seq(S) /\ Len(h) = Len(f) + Len(g)
      /\ \A i \in 1..Len(f) : h[i] = f[i]
      /\ \A i \in 1..Len(g) : h[Len(f) + i] = g[i]
      /\ Len(f) \in Nat /\ Len(g) \in Nat
  BY ConcatProperties, LenProperties
<1>2. DOMAIN f = 1..Len(f) /\ DOMAIN g = 1..Len(g)
  BY LenProperties
<1>3. PICK q \in 1..Len(h) : h[q] = CallOf(id) /\ \A k \in q + 1..Len(h) : Within(h[k])
  BY DEF Called
<1> HIDE DEF h
<1> DEFINE n == Len(f)
           l == Len(g)
<1>4. CASE q > n
  <2> DEFINE j == q - n
  <2>1. j \in 1..l /\ q = n + j
    BY <1>1, <1>3, <1>4
  <2> HIDE DEF j
  <2>2. g[j] = CallOf(id) /\ j \in DOMAIN g
    BY <1>1, <1>2, <1>3, <2>1
  <2>3. CallOf(id) \in ToSet(g)
    BY <2>2 DEF ToSet
  <2> QED BY <2>3
<1>5. CASE q <= n
  <2>1. q \in 1..n /\ f[q] = CallOf(id)
    BY <1>1, <1>3, <1>5
  <2>2. ASSUME NEW k \in q + 1..n PROVE Within(f[k])
    <3>1. k \in q + 1..Len(h) /\ k \in 1..n
      BY <1>1, <2>1
    <3>2. h[k] = f[k]
      BY <1>1, <3>1
    <3> QED BY <1>3, <3>1, <3>2
  <2>3. Called(f, id)
    BY <2>1, <2>2 DEF Called
  <2>4. ASSUME NEW e \in ToSet(g) PROVE Within(e)
    <3>1. PICK i \in 1..l : e = g[i]
      BY <1>2 DEF ToSet
    <3>2. n + i \in q + 1..Len(h) /\ h[n + i] = g[i]
      BY <1>1, <1>5, <2>1, <3>1
    <3> QED BY <1>3, <3>1, <3>2
  <2> QED BY <2>3, <2>4
<1>6. q \in Int /\ n \in Int
  BY <1>1, <1>3
<1> QED BY <1>4, <1>5, <1>6

LEMMA CalledByOne ==
  ASSUME NEW c \in Seq(Messages), NEW id, Loud(c), Called(FlatMap(MessageSaid, c), id)
  PROVE  Calling(c, id)
<1> DEFINE Good(d) == Loud(d) /\ Called(FlatMap(MessageSaid, d), id) => Calling(d, id)
           T == {d \in Seq(Messages) : Good(d)}
<1>0. MessageSaid \in [Messages -> Seq(Uttered)]
  BY SpokenMaps
<1>1. <<>> \in T
  <2>1. FlatMap(MessageSaid, <<>>) = <<>> /\ <<>> \in Seq(Messages)
    BY FlatMapEmpty
  <2>2. ~Called(<<>>, id)
    BY DEF Called
  <2> QED BY <2>1, <2>2
<1>2. ASSUME NEW d \in Seq(Messages), NEW m \in Messages, d \in T PROVE Append(d, m) \in T
  <2> DEFINE e == Append(d, m)
             f == FlatMap(MessageSaid, d)
             n == Len(d)
  <2>1. /\ e \in Seq(Messages) /\ n \in Nat /\ Len(e) = n + 1 /\ e[n + 1] = m
        /\ \A i \in 1..n : e[i] = d[i]
    BY AppendProperties, LenProperties
  <2>2. f \in Seq(Uttered) /\ Said(m) \in Seq(Uttered) /\ FlatMap(MessageSaid, e) = f \o Said(m)
    <3>1. MessageSaid[m] = Said(m) /\ Said(m) \in Seq(Uttered)
      BY SaidType DEF MessageSaid
    <3> QED BY <1>0, <3>1, FlatMapType, FlatMapAppend
  <2> SUFFICES ASSUME Loud(e), Called(f \o Said(m), id) PROVE Calling(e, id)
    BY <2>1, <2>2
  <2> HIDE DEF f, e
  <2>3. CallOf(id) \in ToSet(Said(m)) \/ (Called(f, id) /\ \A x \in ToSet(Said(m)) : Within(x))
    BY <2>2, CalledLast
  <2>4. CASE CallOf(id) \in ToSet(Said(m))
    <3>1. id \in ToSet(m.calls)
      BY <2>4, MessageWithin
    <3>2. n + 1 \in 1..Len(e) /\ n + 1 + 1..Len(e) = {}
      BY <2>1
    <3> HIDE DEF n
    <3> QED BY <2>1, <3>1, <3>2 DEF Calling
  <2>5. CASE Called(f, id) /\ \A x \in ToSet(Said(m)) : Within(x)
    <3>1. Loud(d)
      <4> SUFFICES ASSUME NEW k \in 2..n PROVE Said(d[k]) # <<>> \/ d[k] = Instructions
        BY DEF Loud
      <4>1. k \in 2..Len(e) /\ e[k] = d[k]
        BY <2>1
      <4> QED BY <4>1 DEF Loud
    <3>2. Calling(d, id)
      BY <1>2, <2>5, <3>1 DEF f
    <3>3. PICK j \in 1..n : /\ id \in ToSet(d[j].calls)
                            /\ \A k \in j + 1..n : Passes(d[k])
      BY <3>2 DEF Calling
    <3>4. Said(m) # <<>> \/ m = Instructions
      <4>1. n + 1 \in 2..Len(e)
        BY <2>1, <3>3
      <4> QED BY <2>1, <4>1 DEF Loud
    <3>5. Passes(m)
      BY <2>5, <3>4, MessageWithin DEF Passes
    <3>6. j \in 1..Len(e) /\ e[j] = d[j]
      BY <2>1, <3>3
    <3>7. ASSUME NEW k \in j + 1..Len(e) PROVE Passes(e[k])
      <4>1. CASE k = n + 1
        BY <2>1, <3>5, <4>1
      <4>2. CASE k # n + 1
        <5>1. k \in j + 1..n /\ k \in 1..n
          <6>1. j \in 1..n /\ n \in Nat /\ Len(e) = n + 1
            BY <2>1, <3>3
          <6> HIDE DEF n
          <6> QED BY <4>2, <6>1
        <5>2. e[k] = d[k]
          BY <2>1, <5>1
        <5> QED BY <3>3, <5>1, <5>2
      <4> QED BY <4>1, <4>2
    <3> QED BY <3>3, <3>6, <3>7 DEF Calling
  <2> QED BY <2>3, <2>4, <2>5
<1>3. c \in T
  <2> HIDE DEF T
  <2> QED BY <1>1, <1>2, SeqInduct
<1> QED BY <1>3

\* Items that are not empty, and the messages made of them.
FullItems == {x \in Items : x.type = "message" => x.parts # <<>>}
Proper(m) ==
  Said(m) # <<>> /\ (m.role = "tool" => Said(m) = << <<"tool", "result", m.id>> >>)
ProperMessages == {m \in Messages : Proper(m)}

LEMMA FullItemProper ==
  ASSUME NEW x \in FullItems
  PROVE  TranslateItem(x) \in Seq(ProperMessages)
<1>1. /\ x \in Items /\ x.type \in {"message", "function_call", "function_call_output", "reasoning",
                   "builtin_call", "other"}
      /\ x.role \in Roles /\ x.parts \in Seq(Parts) /\ x.id \in Identifiers
  BY DEF FullItems, Items
<1>2. ASSUME NEW m \in ProperMessages PROVE <<m>> \in Seq(ProperMessages)
  OBVIOUS
<1>3. CASE x.type = "message"
  <2> DEFINE m == ChatMessage(x.role, x.parts, <<>>, NoId)
  <2>1. m \in Messages /\ Said(m) = PartsSaid(x.role, x.parts)
    BY <1>1, MessageSays
  <2>2. m.role = x.role /\ m.role # "tool"
    BY <1>1 DEF ChatMessage, Roles
  <2>3. PartsSaid(x.role, x.parts) # <<>>
    <3> DEFINE q == x.parts
    <3>1. q \in Seq(Parts) /\ q # <<>>
      BY <1>1, <1>3 DEF FullItems
    <3>2. DOMAIN PartsSaid(x.role, x.parts) = DOMAIN q
      BY DEF PartsSaid
    <3> HIDE DEF q
    <3>3. 1 \in DOMAIN q
      BY <3>1, EmptySeq
    <3> QED BY <3>2, <3>3
  <2>4. TranslateItem(x) = <<m>>
    BY <1>3 DEF TranslateItem
  <2> HIDE DEF m
  <2>5. m \in ProperMessages
    BY <2>1, <2>2, <2>3 DEF ProperMessages, Proper
  <2> QED BY <1>2, <2>4, <2>5
<1>4. CASE x.type = "function_call"
  <2> DEFINE m == ChatMessage("assistant", <<>>, <<x.id>>, NoId)
  <2>1. m \in Messages /\ Said(m) = << <<"assistant", "call", x.id>> >>
    BY <1>1, MessageSays
  <2>2. m.role # "tool"
    BY DEF ChatMessage
  <2>3. TranslateItem(x) = <<m>>
    BY <1>4 DEF TranslateItem
  <2> HIDE DEF m
  <2>4. m \in ProperMessages
    BY <2>1, <2>2 DEF ProperMessages, Proper
  <2> QED BY <1>2, <2>3, <2>4
<1>5. CASE x.type = "function_call_output"
  <2> DEFINE m == ChatMessage("tool", <<>>, <<>>, x.id)
  <2>1. m \in Messages /\ Said(m) = << <<"tool", "result", x.id>> >>
    BY <1>1, MessageSays
  <2>2. m.id = x.id
    BY DEF ChatMessage
  <2>3. TranslateItem(x) = <<m>>
    BY <1>5 DEF TranslateItem
  <2> HIDE DEF m
  <2>4. m \in ProperMessages
    BY <2>1, <2>2 DEF ProperMessages, Proper
  <2> QED BY <1>2, <2>3, <2>4
<1>6. CASE x.type \in {"reasoning", "builtin_call", "other"}
  <2>1. TranslateItem(x) = <<>> /\ <<>> \in Seq(ProperMessages)
    BY <1>6 DEF TranslateItem
  <2> QED BY <2>1
<1> QED BY <1>1, <1>3, <1>4, <1>5, <1>6

\* The messages of a request that has no empty item.
LEMMA BodyProper ==
  ASSUME NEW items \in Seq(FullItems)
  PROVE  FlatMap(ItemTranslated, items) \in Seq(ProperMessages)
<1> DEFINE f == [x \in FullItems |-> TranslateItem(x)]
<1>1. f \in [FullItems -> Seq(ProperMessages)]
  BY FullItemProper
<1>2. \A x \in FullItems : f[x] = ItemTranslated[x]
  BY DEF ItemTranslated, FullItems
<1> HIDE DEF f
<1>3. FlatMap(f, items) \in Seq(ProperMessages)
  BY <1>1, FlatMapType
<1>4. FlatMap(f, items) = FlatMap(ItemTranslated, items)
  BY <1>2, FlatMapSame
<1> QED BY <1>3, <1>4

\* No block, and no end of a client's message, leaves an empty item.
LEMMA FlushFull ==
  ASSUME NEW st \in Gathered, NEW role \in Roles, st.items \in Seq(FullItems)
  PROVE  Flush(st, role).items \in Seq(FullItems)
<1> DEFINE x == Item("message", role, st.parts, NoId)
<1>1. st.parts \in Seq(Parts)
  BY DEF Gathered
<1>2. CASE st.parts = <<>>
  BY <1>2 DEF Flush
<1>3. CASE st.parts # <<>>
  <2>1. x \in FullItems
    BY <1>1, <1>3 DEF Item, Items, FullItems, Identifiers
  <2>2. Flush(st, role).items = Append(st.items, x)
    BY <1>3 DEF Flush
  <2> HIDE DEF x
  <2> QED BY <2>1, <2>2, AppendProperties
<1> QED BY <1>2, <1>3

LEMMA BlockFull ==
  ASSUME NEW st \in Gathered, NEW role \in Roles, NEW b \in Blocks, st.items \in Seq(FullItems)
  PROVE  TranslateBlock(st, role, b).items \in Seq(FullItems)
<1> DEFINE next == TranslateBlock(st, role, b)
           g == Flush(st, role)
<1>1. b.type \in {"text", "image", "thinking", "tool_use", "tool_result", "document", "other"}
      /\ b.id \in Identifiers /\ <<>> \in Seq(Parts)
  BY DEF Blocks
<1>2. CASE b.type \in {"text", "image"}
  <2>1. next = [st EXCEPT !.parts = Append(@, b)]
    BY <1>2 DEF TranslateBlock
  <2>2. next.items = st.items
    BY <2>1 DEF Gathered
  <2> QED BY <2>2
<1>3. ASSUME NEW x \in FullItems
      PROVE  [g EXCEPT !.items = Append(@, x)].items \in Seq(FullItems)
  <2>1. g \in Gathered /\ g.items \in Seq(FullItems)
    BY FlushSays, FlushFull
  <2> HIDE DEF g
  <2>2. [g EXCEPT !.items = Append(@, x)].items = Append(g.items, x)
    BY <2>1 DEF Gathered
  <2> QED BY <2>1, <2>2, AppendProperties
<1>4. CASE b.type = "tool_use"
  <2> DEFINE x == Item("function_call", role, <<>>, b.id)
  <2>1. x \in FullItems
    BY <1>1 DEF Item, Items, FullItems
  <2>2. next = [g EXCEPT !.items = Append(@, x)]
    BY <1>4 DEF TranslateBlock
  <2> HIDE DEF x
  <2>3. [g EXCEPT !.items = Append(@, x)].items \in Seq(FullItems)
    BY <1>3, <2>1
  <2> HIDE DEF g
  <2> QED BY <2>2, <2>3
<1>5. CASE b.type = "tool_result"
  <2> DEFINE x == Item("function_call_output", role, <<>>, b.id)
  <2>1. x \in FullItems
    BY <1>1 DEF Item, Items, FullItems
  <2>2. next = [g EXCEPT !.items = Append(@, x)]
    BY <1>5 DEF TranslateBlock
  <2> HIDE DEF x
  <2>3. [g EXCEPT !.items = Append(@, x)].items \in Seq(FullItems)
    BY <1>3, <2>1
  <2> HIDE DEF g
  <2> QED BY <2>2, <2>3
<1>6. CASE b.type \in {"thinking", "document", "other"}
  BY <1>6 DEF TranslateBlock
<1> QED BY <1>1, <1>2, <1>4, <1>5, <1>6

LEMMA TurnFull ==
  ASSUME NEW m \in Turns
  PROVE  TranslateMessage(m) \in Seq(FullItems)
<1> DEFINE q == m.blocks
           n == Len(q)
           role == m.role
<1>0. role \in Roles /\ q \in Seq(Blocks)
  BY DEF Turns
<1>1. n \in Nat /\ \A i \in 1..n : q[i] \in Blocks
  BY <1>0
<1>2. PICK t : BlockTraces(m, t)
  BY BlockTrace
<1>3. /\ t[0] = [items |-> <<>>, parts |-> <<>>]
      /\ \A i \in 0..(n - 1) : t[i + 1] = TranslateBlock(t[i], role, q[i + 1])
      /\ \A i \in 0..n : t[i] \in Gathered
      /\ TranslateMessage(m) = Flush(t[n], role).items
  BY <1>2 DEF BlockTraces
<1> HIDE DEF q, role
<1> DEFINE T == {i \in Nat : t[i].items \in Seq(FullItems)}
<1>4. 0 \in T
  <2>1. t[0].items = <<>> /\ <<>> \in Seq(FullItems)
    BY <1>3
  <2> QED BY <2>1
<1>5. ASSUME NEW i \in 0..(n - 1), i \in T PROVE i + 1 \in T
  <2>1. i + 1 \in 1..n /\ i \in Nat /\ i \in 0..n
    BY <1>1
  <2>2. t[i] \in Gathered /\ q[i + 1] \in Blocks /\ t[i].items \in Seq(FullItems)
    BY <1>1, <1>3, <1>5, <2>1
  <2>3. t[i + 1] = TranslateBlock(t[i], role, q[i + 1])
    BY <1>3
  <2>4. t[i + 1].items \in Seq(FullItems)
    BY <1>0, <2>2, <2>3, BlockFull
  <2> QED BY <2>1, <2>4
<1>6. t[n].items \in Seq(FullItems)
  <2> HIDE DEF T
  <2>1. \A i \in 0..n : i \in T
    BY <1>1, <1>4, <1>5, StepByStep
  <2>2. n \in T
    BY <1>1, <2>1
  <2> QED BY <2>2 DEF T
<1>7. t[n] \in Gathered
  BY <1>1, <1>3
<1> QED BY <1>0, <1>3, <1>6, <1>7, FlushFull

\* The input of an orderly ask has no empty item.
LEMMA AskFull ==
  ASSUME NEW ask \in Asks, InputOf(ask) # Refused, Orderly(ask)
  PROVE  InputOf(ask) \in Seq(FullItems)
<1> DEFINE q == ask.payload
<1>1. CASE ask.api = "messages"
  <2> DEFINE f == [m \in Turns |-> TranslateMessage(m)]
  <2>1. q \in Seq(Turns)
    BY <1>1, AsksAssumption
  <2>2. InputOf(ask) = MessagesToInput(q)
    BY <1>1 DEF InputOf
  <2>3. f \in [Turns -> Seq(FullItems)]
    BY TurnFull
  <2> HIDE DEF q
  <2>4. MessagesToInput(q) = FlatMap(TurnTranslated, q)
    BY <1>1, <2>1, <2>2, TurnsKept DEF MessagesToInput
  <2>5. TurnTranslated = f
    BY DEF TurnTranslated
  <2> HIDE DEF f
  <2>6. FlatMap(f, q) \in Seq(FullItems)
    BY <2>1, <2>3, FlatMapType
  <2> QED BY <2>2, <2>4, <2>5, <2>6
<1>2. CASE ask.api # "messages"
  <2>1. ask.api = "responses" /\ q \in Seq(Items)
    BY <1>2, AsksAssumption
  <2>2. \A i \in DOMAIN q : q[i].type = "message" => q[i].parts # <<>>
    BY <2>1 DEF Orderly
  <2>3. InputOf(ask) = q
    BY <1>2 DEF InputOf
  <2> HIDE DEF q
  <2>4. Len(q) \in Nat /\ \A i \in 1..Len(q) : q[i] \in FullItems
    BY <2>1, <2>2 DEF FullItems
  <2>5. q \in Seq(FullItems)
    <3>1. q = [i \in 1..Len(q) |-> q[i]]
      BY <2>1
    <3> QED BY <2>4, <3>1
  <2> QED BY <2>3, <2>5
<1> QED BY <1>1, <1>2

\* Results right behind their calls; or, in what is asked, before all but calls and
\* results.
RightBehind(e) ==
  \A p \in 1..Len(e) : e[p][2] = "result" =>
    \E q \in 1..p - 1 : e[q] = CallOf(e[p][3]) /\ \A k \in q + 1..p - 1 : Within(e[k])
InOrder(e) ==
  \A p \in 1..Len(e) : e[p][2] = "result" =>
    \/ \E q \in 1..p - 1 : e[q] = CallOf(e[p][3]) /\ \A k \in q + 1..p - 1 : Within(e[k])
    \/ CallOf(e[p][3]) \notin ToSet(e) /\ \A k \in 1..p - 1 : Within(e[k])
HasCalls(e, calls) ==
  \A p \in 1..Len(e) :
    e[p][2] = "result" /\ CallOf(e[p][3]) \notin ToSet(e) => e[p][3] \in ToSet(calls)

\* What was told ends with its calls, so that what is asked may begin with their results.
LEMMA BehindBoth ==
  ASSUME NEW t \in Seq(Uttered), NEW calls \in Seq(Identifiers), NEW a \in Seq(Uttered),
         \A e \in ToSet(t) : e[2] # "result", InOrder(a), HasCalls(a, calls)
  PROVE  RightBehind((t \o CallsSaid(calls)) \o a)
<1> DEFINE c == CallsSaid(calls)
           b == t \o c
           e == b \o a
           n == Len(t)
           l == Len(calls)
           o == n + l
<1>1. /\ n \in Nat /\ l \in Nat /\ Len(a) \in Nat /\ o \in Nat
      /\ DOMAIN calls = 1..l /\ DOMAIN t = 1..n
  BY LenProperties
<1>2. c \in Seq(Uttered) /\ Len(c) = l /\ \A j \in 1..l : c[j] = CallOf(calls[j])
  <2>1. c \in Seq(Uttered)
    BY CallsSaidType
  <2>2. DOMAIN c = 1..l /\ \A j \in 1..l : c[j] = CallOf(calls[j])
    BY <1>1 DEF CallsSaid, CallOf
  <2> HIDE DEF c, l
  <2>3. Len(c) = l
    BY <1>1, <2>1, <2>2, LenProperties
  <2> QED BY <2>1, <2>2, <2>3
<1> HIDE DEF c
<1>3. /\ b \in Seq(Uttered) /\ Len(b) = o
      /\ \A i \in 1..n : b[i] = t[i]
      /\ \A j \in 1..l : b[n + j] = c[j]
  <2>1. IsConcat(Uttered, t, c, b)
    BY <1>2, ConcatIsConcat
  <2> HIDE DEF b
  <2> QED BY <1>2, <2>1 DEF IsConcat
<1> HIDE DEF b
<1>4. /\ e \in Seq(Uttered) /\ Len(e) = o + Len(a)
      /\ \A i \in 1..o : e[i] = b[i]
      /\ \A i \in 1..Len(a) : e[o + i] = a[i]
  <2>1. IsConcat(Uttered, b, a, e)
    BY <1>3, ConcatIsConcat
  <2> HIDE DEF e
  <2> QED BY <1>3, <2>1 DEF IsConcat
<1> HIDE DEF e
<1> SUFFICES ASSUME NEW p \in 1..Len(e), e[p][2] = "result"
             PROVE  \E q \in 1..p - 1 : e[q] = CallOf(e[p][3]) /\ \A k \in q + 1..p - 1 : Within(e[k])
  BY DEF RightBehind, e, b, c
<1> DEFINE id == e[p][3]
<1>5. \A j \in 1..l : e[n + j] = CallOf(calls[j])
  <2> SUFFICES ASSUME NEW j \in 1..l PROVE e[n + j] = CallOf(calls[j])
    OBVIOUS
  <2>1. n + j \in 1..o
    BY <1>1
  <2> QED BY <1>2, <1>3, <1>4, <2>1
<1>6. p > o
  <2> SUFFICES ASSUME p <= o PROVE FALSE
    BY <1>1, <1>4
  <2>1. CASE p <= n
    <3>1. p \in 1..n /\ p \in 1..o
      BY <1>1, <1>4, <2>1
    <3>2. e[p] = t[p]
      BY <1>3, <1>4, <3>1
    <3>3. t[p] \in ToSet(t)
      BY <1>1, <3>1 DEF ToSet
    <3> QED BY <3>2, <3>3
  <2>2. CASE p > n
    <3> DEFINE j == p - n
    <3>1. j \in 1..l /\ p = n + j
      BY <1>1, <1>4, <2>2
    <3> HIDE DEF j
    <3>2. e[p] = CallOf(calls[j])
      BY <1>5, <3>1
    <3> QED BY <3>2 DEF CallOf
  <2>3. p \in Int /\ n \in Int
    BY <1>1, <1>4
  <2> QED BY <2>1, <2>2, <2>3
<1> DEFINE i == p - o
<1>7. i \in 1..Len(a) /\ p = o + i
  BY <1>1, <1>4, <1>6
<1> HIDE DEF i
<1>8. e[p] = a[i]
  BY <1>4, <1>7
<1>9. ASSUME NEW m \in 1..i, \A k \in m..i - 1 : Within(a[k])
      PROVE  \A k \in o + m..p - 1 : Within(e[k])
  <2> SUFFICES ASSUME NEW k \in o + m..p - 1 PROVE Within(e[k])
    OBVIOUS
  <2> DEFINE h == k - o
  <2>1. h \in m..i - 1 /\ h \in 1..Len(a) /\ k = o + h
    BY <1>1, <1>7
  <2> HIDE DEF h
  <2>2. e[k] = a[h]
    BY <1>4, <2>1
  <2> QED BY <1>9, <2>1, <2>2
<1>10. CASE \E j \in 1..i - 1 : a[j] = CallOf(id) /\ \A k \in j + 1..i - 1 : Within(a[k])
  <2>1. PICK j \in 1..i - 1 : a[j] = CallOf(id) /\ \A k \in j + 1..i - 1 : Within(a[k])
    BY <1>10
  <2> DEFINE m == j + 1
             q == o + j
  <2>2. m \in 1..i /\ q \in 1..p - 1 /\ q + 1 = o + m /\ j \in 1..Len(a)
    BY <1>1, <1>7
  <2>3. e[q] = CallOf(id)
    BY <1>4, <2>1, <2>2
  <2>4. \A k \in m..i - 1 : Within(a[k])
    BY <2>1
  <2> HIDE DEF m, q
  <2>5. \A k \in o + m..p - 1 : Within(e[k])
    BY <1>9, <2>2, <2>4
  <2>6. \A k \in q + 1..p - 1 : Within(e[k])
    BY <2>2, <2>5
  <2> QED BY <2>2, <2>3, <2>6
<1>11. CASE CallOf(id) \notin ToSet(a) /\ \A k \in 1..i - 1 : Within(a[k])
  <2>1. id \in ToSet(calls)
    BY <1>7, <1>8, <1>11 DEF HasCalls
  <2>2. PICK j \in 1..l : id = calls[j]
    BY <1>1, <2>1 DEF ToSet
  <2> DEFINE q == n + j
  <2>3. q \in 1..p - 1
    BY <1>1, <1>7
  <2>4. e[q] = CallOf(id)
    BY <1>5, <2>2
  <2>5. 1 \in 1..i
    BY <1>7
  <2>6. \A k \in o + 1..p - 1 : Within(e[k])
    BY <1>9, <1>11, <2>5
  <2>7. ASSUME NEW k \in q + 1..p - 1 PROVE Within(e[k])
    <3>1. CASE k <= o
      <4> DEFINE h == k - n
      <4>1. h \in 1..l /\ k = n + h
        BY <1>1, <2>2, <3>1
      <4> HIDE DEF h
      <4>2. e[k] = CallOf(calls[h])
        BY <1>5, <4>1
      <4> QED BY <4>2 DEF CallOf, Within
    <3>2. CASE k > o
      <4>1. k \in o + 1..p - 1
        BY <1>1, <1>7, <2>2, <3>2
      <4> QED BY <2>6, <4>1
    <3>3. k \in Int /\ o \in Int
      BY <1>1, <2>2, <1>7
    <3> QED BY <3>1, <3>2, <3>3
  <2> HIDE DEF q
  <2> QED BY <2>3, <2>4, <2>7
<1>12. a[i][2] = "result" /\ id = a[i][3]
  BY <1>8
<1> HIDE DEF id
<1> QED BY <1>7, <1>10, <1>11, <1>12 DEF InOrder

\* What an orderly ask says is in order, and its results are of its own calls or of those
\* it has results of.
LEMMA AskInOrder ==
  ASSUME NEW ask \in Asks, Orderly(ask), Asked(ask) \in Seq(Uttered)
  PROVE  InOrder(Asked(ask))
<1> DEFINE e == Asked(ask)
<1>1. DOMAIN e = 1..Len(e)
  BY LenProperties
<1>2. \A i \in DOMAIN e : e[i][2] = "result" =>
          \/ \E j \in 1..i - 1 : /\ e[j] = <<"assistant", "call", e[i][3]>>
                                 /\ \A k \in j + 1..i - 1 : e[k][2] \in {"call", "result"}
          \/ /\ <<"assistant", "call", e[i][3]>> \notin ToSet(e)
             /\ \A k \in 1..i - 1 : e[k][2] \in {"call", "result"}
  BY DEF Orderly
<1> HIDE DEF e
<1>3. InOrder(e)
  BY <1>1, <1>2 DEF InOrder, CallOf, Within
<1> QED BY <1>3 DEF e

LEMMA AskAnswers ==
  ASSUME NEW input \in Seq(Items), NEW calls,
         Results(input) \subseteq OwnCalls(input) \union ToSet(calls)
  PROVE  HasCalls(FlatMap(ItemSaid, input), calls)
<1> DEFINE a == FlatMap(ItemSaid, input)
<1>0. ItemSaid \in [Items -> Seq(Uttered)] /\ a \in Seq(Uttered)
  BY SpokenMaps, FlatMapType
<1>1. DOMAIN a = 1..Len(a)
  BY <1>0, LenProperties
<1> SUFFICES ASSUME NEW p \in 1..Len(a), a[p][2] = "result", CallOf(a[p][3]) \notin ToSet(a)
             PROVE  a[p][3] \in ToSet(calls)
  BY DEF HasCalls
<1> DEFINE e == a[p]
           id == e[3]
<1>2. PICK x \in ToSet(input) : x \in Items /\ e \in ToSet(ItemSaid[x])
  <2>1. e \in ToSet(a)
    BY <1>1 DEF ToSet
  <2> HIDE DEF e
  <2> QED BY <1>0, <2>1, FlatMapFrom
<1> HIDE DEF a, e
<1>3. x.type = "function_call_output" /\ x.id = id
  <2>1. e \in ToSet(SaidByItem(x)) /\ e[2] = "result"
    BY <1>2 DEF ItemSaid, e
  <2>2. CASE x.type = "message"
    <3>1. SaidByItem(x) = PartsSaid(x.role, x.parts) /\ x.parts \in Seq(Parts)
      BY <1>2, <2>2 DEF SaidByItem, PartsSaid, Items
    <3>2. PICK i \in DOMAIN x.parts : e = <<x.role, x.parts[i].type, x.parts[i].id>>
      BY <2>1, <3>1 DEF PartsSaid, ToSet
    <3> DEFINE y == x.parts[i]
    <3>3. y \in Parts /\ e = <<x.role, y.type, y.id>>
      BY <3>1, <3>2
    <3> HIDE DEF y
    <3>4. y.type \in {"text", "image", "input_file"}
      BY <3>3 DEF Parts
    <3> QED BY <2>1, <3>3, <3>4
  <2>3. CASE x.type = "function_call"
    <3>1. SaidByItem(x) = << <<"assistant", "call", x.id>> >>
      BY <2>3 DEF SaidByItem
    <3>2. e = <<"assistant", "call", x.id>>
      BY <2>1, <3>1 DEF ToSet
    <3> QED BY <2>1, <3>2
  <2>4. CASE x.type = "function_call_output"
    <3>1. SaidByItem(x) = << <<"tool", "result", x.id>> >>
      BY <2>4 DEF SaidByItem
    <3>2. e = <<"tool", "result", x.id>>
      BY <2>1, <3>1 DEF ToSet
    <3> QED BY <2>4, <3>2
  <2>5. CASE x.type \in {"reasoning", "builtin_call", "other"}
    <3>1. SaidByItem(x) = <<>>
      BY <2>5 DEF SaidByItem
    <3> QED BY <2>1, <3>1 DEF ToSet
  <2>6. x.type \in {"message", "function_call", "function_call_output", "reasoning",
                   "builtin_call", "other"}
    BY <1>2 DEF Items
  <2> QED BY <2>2, <2>3, <2>4, <2>5, <2>6
<1>4. id \in Results(input)
  BY <1>2, <1>3 DEF Results, ToSet
<1>5. ASSUME id \in OwnCalls(input) PROVE FALSE
  <2>1. PICK y \in ToSet(input) : y.type = "function_call" /\ y.id = id
    BY <1>5 DEF OwnCalls, ToSet
  <2>2. y \in Items
    BY <2>1 DEF ToSet
  <2>3. ItemSaid[y] = <<CallOf(id)>>
    BY <2>1, <2>2 DEF ItemSaid, SaidByItem, CallOf
  <2>4. CallOf(id) \in ToSet(ItemSaid[y])
    BY <2>3 DEF ToSet
  <2> DEFINE u == CallOf(id)
  <2> HIDE DEF u
  <2>5. u \in ToSet(a)
    BY <1>0, <2>1, <2>2, <2>4, FlatMapHas DEF u, a
  <2> QED BY <2>5 DEF u, e
<1> QED BY <1>4, <1>5 DEF e

\* Messages that each say something or are instructions, but for a first one that is no result.
Fine(m) == Proper(m) \/ m = Instructions
FineMessages == {m \in Messages : Fine(m)}
Begun(c) ==
  /\ c \in Seq(Messages)
  /\ \A k \in 1..Len(c) : Fine(c[k]) \/ (k = 1 /\ c[k].role # "tool")

LEMMA BegunBy ==
  ASSUME NEW body \in Seq(FineMessages)
  PROVE  /\ Begun(body)
         /\ \A m \in Messages : m.role # "tool" => Begun(<<m>> \o body)
<1>1. /\ body \in Seq(Messages) /\ Len(body) \in Nat
      /\ \A k \in 1..Len(body) : body[k] \in Messages /\ Fine(body[k])
  <2>1. /\ Len(body) \in Nat /\ body = [k \in 1..Len(body) |-> body[k]]
        /\ \A k \in 1..Len(body) : body[k] \in FineMessages
    BY LenProperties
  <2>2. \A k \in 1..Len(body) : body[k] \in Messages /\ Fine(body[k])
    BY <2>1 DEF FineMessages
  <2>3. body \in Seq(Messages)
    BY <2>1, <2>2
  <2> QED BY <2>1, <2>2, <2>3
<1>2. Begun(body)
  BY <1>1 DEF Begun
<1>3. ASSUME NEW m \in Messages, m.role # "tool" PROVE Begun(<<m>> \o body)
  <2> DEFINE s == <<m>>
             c == s \o body
  <2>1. s \in Seq(Messages) /\ Len(s) = 1 /\ s[1] = m
    OBVIOUS
  <2> HIDE DEF s
  <2>2. IsConcat(Messages, s, body, c)
    BY <1>1, <2>1, ConcatIsConcat
  <2> HIDE DEF c
  <2>3. /\ c \in Seq(Messages) /\ Len(c) = 1 + Len(body) /\ c[1] = m
        /\ \A k \in 1..Len(body) : c[1 + k] = body[k]
    BY <2>1, <2>2 DEF IsConcat
  <2>4. ASSUME NEW k \in 1..Len(c), k # 1 PROVE Fine(c[k])
    <3> DEFINE j == k - 1
    <3>1. j \in 1..Len(body) /\ k = 1 + j
      BY <1>1, <2>3, <2>4
    <3> HIDE DEF j
    <3> QED BY <1>1, <2>3, <3>1
  <2>5. Begun(c)
    BY <1>3, <2>3, <2>4 DEF Begun
  <2> QED BY <2>5 DEF c, s
<1> QED BY <1>2, <1>3

\* When what messages say has each result right behind its call, so have the messages.
LEMMA ResultsBehind ==
  ASSUME NEW c, Begun(c), RightBehind(FlatMap(MessageSaid, c)),
         NEW i \in DOMAIN c, c[i].role = "tool"
  PROVE  FollowsItsCall(c, i)
<1> DEFINE front == SubSeq(c, 1, i - 1)
           back == SubSeq(c, i + 1, Len(c))
           x == c[i]
           one == <<x>>
           upto == front \o one
           f == FlatMap(MessageSaid, front)
           s == FlatMap(MessageSaid, one)
           g == FlatMap(MessageSaid, back)
           e == FlatMap(MessageSaid, c)
           n == Len(f)
<1>1. /\ c \in Seq(Messages) /\ Len(c) \in Nat /\ DOMAIN c = 1..Len(c) /\ i \in 1..Len(c)
      /\ \A k \in 1..Len(c) : c[k] \in Messages
  BY LenProperties DEF Begun
<1>2. Proper(x) /\ x \in Messages
  <2>1. Fine(x)
    BY <1>1 DEF Begun
  <2>2. x # Instructions
    BY DEF Instructions, ChatMessage
  <2> HIDE DEF x
  <2> QED BY <1>1, <2>1, <2>2 DEF Fine, x
<1>3. MessageSaid \in [Messages -> Seq(Uttered)] /\ MessageSaid[x] = << <<"tool", "result", x.id>> >>
  BY <1>2, SpokenMaps DEF Proper, MessageSaid
<1>4. /\ front \in Seq(Messages) /\ Len(front) = i - 1 /\ back \in Seq(Messages)
      /\ \A k \in 1..i - 1 : front[k] = c[k]
  <2>1. /\ i - 1 \in Int /\ i + 1 \in Int /\ Len(c) \in Int
        /\ \A k \in 1..i - 1 : c[k] \in Messages
        /\ \A k \in i + 1..Len(c) : c[k] \in Messages
    BY <1>1
  <2>2. back \in Seq(Messages)
    BY <2>1, SubSeqProperties
  <2>3. /\ front \in Seq(Messages) /\ Len(front) = (IF 1 <= i - 1 THEN i - 1 - 1 + 1 ELSE 0)
        /\ \A k \in 1..i - 1 - 1 + 1 : front[k] = c[1 + k - 1]
    BY <2>1, SubSeqProperties
  <2> HIDE DEF front
  <2>4. Len(front) = i - 1
    BY <1>1, <2>3
  <2>5. ASSUME NEW k \in 1..i - 1 PROVE front[k] = c[k]
    <3>1. k \in 1..i - 1 - 1 + 1 /\ 1 + k - 1 = k
      BY <1>1
    <3> QED BY <2>3, <3>1
  <2> QED BY <2>2, <2>3, <2>4, <2>5
<1>5. upto \in Seq(Messages) /\ one \in Seq(Messages) /\ c = upto \o back
  <2>1. SubSeq(c, 1, i) = SubSeq(c, 1, i - 1) \o <<c[i]>>
    <3>1. 1 \in 1..Len(c) /\ i \in 1..Len(c)
      BY <1>1
    <3> QED BY <1>1, <3>1, SubSeqRecursiveSecond
  <2>2. SubSeq(c, 1, i) \o SubSeq(c, i + 1, Len(c)) = SubSeq(c, 1, Len(c))
    <3>1. 1 \in 1..Len(c) + 1 /\ i \in 1 - 1..Len(c) /\ Len(c) \in i..Len(c)
      BY <1>1
    <3> QED BY <1>1, <3>1, ConcatAdjacentSubSeq
  <2>3. SubSeq(c, 1, Len(c)) = c
    BY <1>1, SubSeqFull
  <2>4. one \in Seq(Messages)
    BY <1>2
  <2>5. upto = SubSeq(c, 1, i)
    BY <2>1
  <2> HIDE DEF one, front
  <2>6. upto \in Seq(Messages)
    BY <1>4, <2>4, ConcatProperties
  <2> QED BY <2>2, <2>3, <2>4, <2>5, <2>6
<1>6. s = << <<"tool", "result", x.id>> >>
  BY <1>2, <1>3, FlatMapOne
<1> HIDE DEF front, back, x, one
<1>7. /\ f \in Seq(Uttered) /\ s \in Seq(Uttered) /\ g \in Seq(Uttered)
      /\ e = (f \o s) \o g
  <2>1. Distributes(MessageSaid, Messages)
    BY <1>3, FlatMapDistributes
  <2>2. FlatMap(MessageSaid, upto) = f \o s
    BY <1>4, <1>5, <2>1 DEF Distributes
  <2> HIDE DEF upto
  <2>3. FlatMap(MessageSaid, upto \o back) = FlatMap(MessageSaid, upto) \o g
    BY <1>4, <1>5, <2>1 DEF Distributes
  <2>4. f \in Seq(Uttered) /\ s \in Seq(Uttered) /\ g \in Seq(Uttered)
    BY <1>3, <1>4, <1>5, FlatMapType
  <2> QED BY <1>5, <2>2, <2>3, <2>4
<1>8. RightBehind(e)
  OBVIOUS
<1> HIDE DEF f, s, g, e, upto
<1>9. /\ n \in Nat /\ n + 1 \in 1..Len(e) /\ e[n + 1] = <<"tool", "result", x.id>>
      /\ \A k \in 1..n : e[k] = f[k]
  <2> DEFINE h == f \o s
  <2>1. IsConcat(Uttered, f, s, h)
    BY <1>7, ConcatIsConcat
  <2>2. h \in Seq(Uttered)
    BY <2>1 DEF IsConcat
  <2> HIDE DEF h
  <2>3. IsConcat(Uttered, h, g, e)
    BY <1>7, <2>2, ConcatIsConcat DEF h
  <2>4. Len(s) = 1 /\ s[1] = <<"tool", "result", x.id>>
    BY <1>6
  <2>5. /\ n \in Nat /\ Len(h) = n + 1 /\ h[n + 1] = <<"tool", "result", x.id>>
        /\ \A k \in 1..n : h[k] = f[k]
    BY <2>1, <2>4 DEF IsConcat
  <2> HIDE DEF n
  <2>6. /\ Len(e) = n + 1 + Len(g) /\ Len(g) \in Nat
        /\ \A k \in 1..n + 1 : e[k] = h[k]
    BY <2>3, <2>5 DEF IsConcat
  <2>7. n + 1 \in 1..Len(e) /\ n + 1 \in 1..n + 1
    BY <2>5, <2>6
  <2>8. \A k \in 1..n : k \in 1..n + 1
    BY <2>5
  <2> QED BY <2>5, <2>6, <2>7, <2>8
<1> HIDE DEF n
<1>10. PICK q \in 1..n : e[q] = CallOf(x.id) /\ \A k \in q + 1..n : Within(e[k])
  <2> DEFINE p == n + 1
  <2>1. p \in 1..Len(e) /\ e[p][2] = "result" /\ e[p][3] = x.id /\ p - 1 = n
    BY <1>9
  <2> HIDE DEF p
  <2>2. \E q \in 1..p - 1 : e[q] = CallOf(x.id) /\ \A k \in q + 1..p - 1 : Within(e[k])
    BY <1>8, <2>1 DEF RightBehind
  <2> QED BY <2>1, <2>2
<1>11. Called(f, x.id)
  <2>1. \A k \in q + 1..n : e[k] = f[k]
    BY <1>9
  <2>2. f[q] = CallOf(x.id) /\ \A k \in q + 1..n : Within(f[k])
    BY <1>9, <1>10, <2>1
  <2> QED BY <2>2 DEF Called, n
<1>12. Loud(front)
  <2> SUFFICES ASSUME NEW k \in 2..Len(front) PROVE Said(front[k]) # <<>> \/ front[k] = Instructions
    BY DEF Loud
  <2>1. k \in 1..i - 1 /\ k \in 1..Len(c) /\ k # 1
    BY <1>1, <1>4
  <2>2. front[k] = c[k] /\ Fine(c[k])
    BY <1>4, <2>1 DEF Begun
  <2> QED BY <2>2 DEF Fine, Proper
<1>13. Calling(front, x.id)
  BY <1>4, <1>11, <1>12, CalledByOne DEF f
<1>14. PICK j \in 1..i - 1 : /\ x.id \in ToSet(front[j].calls)
                             /\ \A k \in j + 1..i - 1 : Passes(front[k])
  BY <1>4, <1>13 DEF Calling
<1>15. x.id \in ToSet(c[j].calls)
  BY <1>4, <1>14
<1>16. \A k \in j + 1..i - 1 : Passes(c[k])
  <2>1. \A k \in j + 1..i - 1 : k \in 1..i - 1
    BY <1>1, <1>14
  <2> QED BY <1>4, <1>14, <2>1
<1> QED BY <1>14, <1>15, <1>16 DEF FollowsItsCall, Passes, x

\* An orderly request, behind the answer it goes on from, says each result right behind
\* its call.
LEMMA OrderlyBehind ==
  ASSUME Types, Meant, NEW w \in Workers, Translated(w), Orderly(inflight[w].ask)
  PROVE  RightBehind(Spoken(inflight[w].chat))
<1> DEFINE r == inflight[w]
           asked == Asked(r.ask)
           said == Spoken(r.chat)
<1>0. told \in Seq(Given)
  BY DEF Types
<1>1. /\ r \in Requests /\ Intended(told, r) /\ r.chat # Untranslated
      /\ r.prev # NoPrevious => told[r.prev].answer \in Answers
      /\ FlatMap(ItemSaid, r.input) = asked
      /\ said = Resent(r.prev) \o asked
  BY RequestSays
<1>2. Orderly(r.ask)
  OBVIOUS
<1> HIDE DEF r
<1>3. /\ r.input \in Seq(Items) /\ r.ask \in Asks
      /\ Results(r.input) \subseteq OwnCalls(r.input) \union CallsTold(told, r.prev)
      /\ r.prev # NoPrevious => r.prev \in DOMAIN told
  BY <1>1 DEF Requests, Intended
<1>4. asked \in Seq(Uttered)
  <2>1. FlatMap(ItemSaid, r.input) \in Seq(Uttered)
    BY <1>3, SpokenMaps, FlatMapType
  <2> QED BY <1>1, <2>1
<1>5. InOrder(asked)
  BY <1>2, <1>3, <1>4, AskInOrder
<1>6. ASSUME NEW calls, CallsTold(told, r.prev) \subseteq ToSet(calls)
      PROVE  HasCalls(asked, calls)
  <2>1. Results(r.input) \subseteq OwnCalls(r.input) \union ToSet(calls)
    BY <1>3, <1>6
  <2>2. HasCalls(FlatMap(ItemSaid, r.input), calls)
    BY <1>3, <2>1, AskAnswers
  <2> QED BY <1>1, <2>2
<1> HIDE DEF asked, said
<1>7. CASE r.prev = NoPrevious
  <2>1. Resent(r.prev) = <<>>
    BY <1>7 DEF Resent
  <2>2. CallsTold(told, r.prev) = {}
    <3>1. DOMAIN told = 1..Len(told) /\ Len(told) \in Nat
      BY <1>0, LenProperties
    <3> QED BY <1>7, <3>1 DEF CallsTold, NoPrevious
  <2>3. HasCalls(asked, <<>>)
    BY <1>6, <2>2
  <2>4. /\ <<>> \in Seq(Uttered) /\ <<>> \in Seq(Identifiers)
        /\ \A e \in ToSet(<<>>) : e[2] # "result"
    BY DEF ToSet
  <2>5. RightBehind((<<>> \o CallsSaid(<<>>)) \o asked)
    BY <1>4, <1>5, <2>3, <2>4, BehindBoth
  <2>6. CallsSaid(<<>>) = <<>>
    BY <2>4, CallsSaidType
  <2>7. (<<>> \o CallsSaid(<<>>)) \o asked = said
    BY <1>1, <1>4, <2>1, <2>6
  <2> QED BY <2>5, <2>7 DEF said, r
<1>8. CASE r.prev # NoPrevious
  <2> DEFINE a == told[r.prev].answer
             t == PartsSaid("assistant", TextParts(a))
             output == AnswerToOutput(a)
  <2>1. a \in Answers /\ r.prev \in DOMAIN told
    BY <1>1, <1>3, <1>8
  <2>2. Resent(r.prev) = FlattenSeq([i \in DOMAIN output |-> SaidByItem(output[i])])
    BY <1>8 DEF Resent
  <2>3. CallsTold(told, r.prev) = ToSet(a.calls)
    BY <2>1 DEF CallsTold
  <2> HIDE DEF a
  <2>4. output \in Seq(Items)
    <3>1. Maps(ItemSaid, Items, Uttered)
      BY SpokenMaps DEF Maps
    <3> QED BY <2>1, <3>1, AnswerMaps
  <2> HIDE DEF output
  <2>5. Resent(r.prev) = FlatMap(ItemSaid, output)
    BY <2>2, <2>4, SpokenMaps
  <2>6. Resent(r.prev) = t \o CallsSaid(a.calls)
    BY <2>1, <2>5, HistorySays DEF output
  <2>7. a.calls \in Seq(Identifiers) /\ TextParts(a) \in Seq(Parts)
    BY <2>1, AnswerType
  <2>8. t \in Seq(Uttered)
    <3>1. "assistant" \in Roles \union {"tool"}
      BY DEF Roles
    <3> QED BY <2>7, <3>1, PartsSaidType
  <2>9. \A e \in ToSet(t) : e[2] # "result"
    <3> DEFINE parts == TextParts(a)
    <3> SUFFICES ASSUME NEW i \in DOMAIN parts PROVE t[i][2] # "result"
      BY DEF ToSet, PartsSaid
    <3>1. t[i] = <<"assistant", parts[i].type, parts[i].id>>
      BY DEF PartsSaid
    <3> DEFINE y == parts[i]
    <3>2. y \in Parts
      BY <2>7
    <3> HIDE DEF y
    <3>3. y.type # "result"
      BY <3>2 DEF Parts
    <3> QED BY <3>1, <3>3 DEF y
  <2>10. HasCalls(asked, a.calls)
    BY <1>6, <2>3
  <2> HIDE DEF t
  <2>11. RightBehind((t \o CallsSaid(a.calls)) \o asked)
    BY <1>4, <1>5, <2>7, <2>8, <2>9, <2>10, BehindBoth
  <2> QED BY <1>1, <2>6, <2>11 DEF said, r
<1> QED BY <1>7, <1>8

\* An answer, instructions and what is asked behind them are messages that each, but for
\* the first and the instructions, say something.
LEMMA ChatBegun ==
  ASSUME Types, Meant, NEW w \in Workers, Translated(w), Orderly(inflight[w].ask)
  PROVE  Begun(inflight[w].chat)
<1> DEFINE r == inflight[w]
           body == FlatMap(ItemTranslated, r.input)
           back == Resumed(told, r.prev)
           chat == InputToChat(r.input, r.ask.instructions)
           system == SystemMessage(r.ask.instructions)
<1>1. /\ r \in Requests /\ Intended(told, r) /\ r.chat # Untranslated
      /\ r.prev # NoPrevious => told[r.prev].answer \in Answers
  BY RequestSays
<1>2. Orderly(r.ask)
  OBVIOUS
<1> HIDE DEF r
<1>3. /\ r.input \in Seq(Items) /\ r.ask \in Asks /\ r.input = InputOf(r.ask)
      /\ chat # Refused /\ r.chat = back \o chat
  BY <1>1 DEF Requests, Intended
<1>4. r.input \in Seq(FullItems)
  <2>1. InputOf(r.ask) # Refused
    BY <1>3, RefusedAssumption
  <2> QED BY <1>2, <1>3, <2>1, AskFull
<1>5. body \in Seq(FineMessages)
  <2>1. body \in Seq(ProperMessages)
    BY <1>4, BodyProper
  <2>2. ProperMessages \subseteq FineMessages
    BY DEF ProperMessages, FineMessages, Fine
  <2> HIDE DEF body
  <2> QED BY <2>1, <2>2
<1>6. chat = system \o body
  <2>1. FlattenSeq([i \in DOMAIN r.input |-> TranslateItem(r.input[i])]) = body
    <3>1. \A i \in DOMAIN r.input : r.input[i] \in Items
      BY <1>3
    <3>2. [i \in DOMAIN r.input |-> TranslateItem(r.input[i])]
            = [i \in DOMAIN r.input |-> ItemTranslated[r.input[i]]]
      BY <3>1 DEF ItemTranslated
    <3> QED BY <3>2 DEF FlatMap
  <2> HIDE DEF body
  <2> QED BY <1>3, <2>1 DEF InputToChat
<1>7. system \in Seq(FineMessages)
  <2>1. Instructions \in FineMessages
    <3>1. Instructions \in Messages
      BY DEF Instructions, ChatMessage, Messages, Roles, Identifiers
    <3> QED BY <3>1 DEF FineMessages, Fine
  <2>2. <<Instructions>> \in Seq(FineMessages) /\ <<>> \in Seq(FineMessages)
    BY <2>1
  <2> QED BY <2>2 DEF SystemMessage
<1> HIDE DEF body, chat, system
<1>8. chat \in Seq(FineMessages)
  BY <1>5, <1>6, <1>7, ConcatProperties
<1>9. CASE r.prev = NoPrevious
  <2>1. back = <<>>
    BY <1>9 DEF Resumed
  <2>2. r.chat = chat
    BY <1>3, <1>8, <2>1, ConcatEmptySeq
  <2> QED BY <1>8, <2>2, BegunBy DEF r
<1>10. CASE r.prev # NoPrevious
  <2> DEFINE a == told[r.prev].answer
             h == ChatMessage("assistant", TextParts(a), a.calls, NoId)
  <2>1. a \in Answers
    BY <1>1, <1>10
  <2>2. back = History(a)
    BY <1>10 DEF Resumed
  <2> HIDE DEF a
  <2>3. History(a) = <<h>>
    BY DEF History, TextParts
  <2>4. h.role # "tool"
    BY DEF ChatMessage
  <2>5. h \in Messages
    BY <2>1, AnswerType DEF ChatMessage, Messages, Roles, Identifiers
  <2> HIDE DEF h, back
  <2>6. r.chat = <<h>> \o chat
    BY <1>3, <2>2, <2>3
  <2> QED BY <1>8, <2>4, <2>5, <2>6, BegunBy DEF r
<1> QED BY <1>9, <1>10

\* No text comes between a call and its result (translate_request, input_to_chat,
\* history_from_output): when every request by itself is orderly, as the protocols ask of
\* clients, every chat a request is translated into has each result behind its call with
\* nothing but calls, results and the instructions between, across the history of the
\* answer it goes on from.
THEOREM ResultsFollowTheirCalls ==
  ASSUME \A ask \in Asks : Orderly(ask)
  PROVE  Spec => []ResultsFollowCalls
<1>1. Inv => ResultsFollowCalls
  <2> SUFFICES ASSUME Inv PROVE ResultsFollowCalls
    OBVIOUS
  <2>0. Types /\ Meant
    BY DEF Inv
  <2> SUFFICES ASSUME NEW w \in Workers, Translated(w), NEW i \in DOMAIN inflight[w].chat, inflight[w].chat[i].role = "tool"
               PROVE  FollowsItsCall(inflight[w].chat, i)
    BY DEF ResultsFollowCalls
  <2> DEFINE chat == inflight[w].chat
             ask == inflight[w].ask
  <2>1. Orderly(ask)
    <3>1. inflight[w] \in Requests
      BY <2>0, RequestSays
    <3>2. ask \in Asks
      BY <3>1 DEF Requests
    <3> QED BY <3>2
  <2>2. RightBehind(Spoken(chat))
    BY <2>0, <2>1, OrderlyBehind
  <2>3. Begun(chat)
    BY <2>0, <2>1, ChatBegun
  <2>4. chat[i].role = "tool" /\ i \in DOMAIN chat
    OBVIOUS
  <2> HIDE DEF chat, ask
  <2>5. RightBehind(FlatMap(MessageSaid, chat))
    <3>1. chat \in Seq(Messages)
      BY <2>3 DEF Begun
    <3> QED BY <2>2, <3>1, SpokenMaps
  <2>6. FollowsItsCall(chat, i)
    BY <2>3, <2>4, <2>5, ResultsBehind
  <2> QED BY <2>6 DEF chat
<1> QED BY <1>1, InvAlways, PTL
===============================================================================
