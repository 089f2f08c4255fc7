-------------------------- MODULE ResponseStream_lemmas ------------------------
(***************************************************************************)
(* What the operators of ResponseStream do to an answer: what a client     *)
(* makes of a sequence of events, which lines a sequence of torn pieces    *)
(* completes, that what ResponsesSse and SseTranslator emit is legal for   *)
(* the client that listens to them, and that ResponsesSse keeps every item *)
(* of the completion it was fed, whole and in order.                       *)
(***************************************************************************)
EXTENDS ResponseStream, FoldLemmas

-------------------------------------------------------------------------------
(* Listening to a sequence of events *)

Told == {"waiting", "open", "completed", "incomplete", "failed", "error"}
OutputItem == [open : BOOLEAN, size : Nat]

\* A client that is not in the middle of a line.
Views == [status : Told, items : Seq(OutputItem), number : Nat, half : {<<>>}]
View(c) == [c EXCEPT !.half = <<>>]
Live(v) == v.status \in {"waiting", "open"}

\* An event that the client of API a can place and that keeps the protocol;
\* one who has heard the end is told nothing but an error.
LegalLive(a, v, e) ==
  /\ e.seq # 0 => e.seq = v.number + 1
  /\ e.kind = "start" => v.status = "waiting"
  /\ e.kind \notin {"start", "quiet", "mark", "error"} => v.status = "open"
  /\ e.kind = "open" => e.item = Len(v.items) + 1
  /\ e.kind \in {"grow", "close"} => e.item \in DOMAIN v.items /\ v.items[e.item].open
  /\ e.kind = "grow" => e.size = 1
  /\ e.kind = "close" /\ a = "responses" => e.size = v.items[e.item].size
  /\ e.kind \in {"completed", "incomplete"} => \A i \in DOMAIN v.items : ~v.items[i].open
  /\ a = "messages" => e.seq = 0 /\ (e.typed \/ e = Untyped("error"))
Legal(a, v, e) == IF Live(v) THEN LegalLive(a, v, e) ELSE e = Untyped("error")

ItemsAfter(v, e) ==
  CASE e.kind = "open" -> Append(v.items, [open |-> TRUE, size |-> 0])
    [] e.kind = "grow" -> [v.items EXCEPT ![e.item].size = @ + e.size]
    [] e.kind = "close" -> [v.items EXCEPT ![e.item].open = FALSE]
    [] OTHER -> v.items
Heard(v, e) ==
  IF Live(v)
  THEN [status |-> Status(v, e), items |-> ItemsAfter(v, e),
        number |-> IF e.seq = 0 THEN v.number ELSE e.seq, half |-> <<>>]
  ELSE v

\* t is what a client makes of the events of Q one after the other.
Hears(a, t, Q) ==
  \A i \in 0..(Len(Q) - 1) : Legal(a, t[i], Q[i + 1]) /\ t[i + 1] = Heard(t[i], Q[i + 1])

\* From c the events of Q, each of them legal, lead to d.
Reaches(a, c, Q, d) ==
  \E t \in [0..Len(Q) -> Views] : t[0] = c /\ t[Len(Q)] = d /\ Hears(a, t, Q)

\* A legal event leaves a sequence of items.
LEMMA ItemsAfterType ==
  ASSUME NEW a, NEW v \in Views, NEW e \in Events, Live(v), LegalLive(a, v, e)
  PROVE  ItemsAfter(v, e) \in Seq(OutputItem)
<1>1. v.items \in Seq(OutputItem) /\ e.size \in Nat /\ e.kind \in Kinds
  BY DEF Views, Events
<1>2. CASE e.kind = "open"
  BY <1>1, <1>2, AppendProperties DEF ItemsAfter, OutputItem
<1>3. CASE e.kind = "grow"
  <2>1. e.item \in 1..Len(v.items) /\ v.items[e.item] \in OutputItem
    BY <1>1, <1>3 DEF LegalLive
  <2>2. ItemsAfter(v, e) = [v.items EXCEPT ![e.item] = [v.items[e.item] EXCEPT !.size = @ + e.size]]
    BY <1>3 DEF ItemsAfter
  <2>3. [v.items[e.item] EXCEPT !.size = @ + e.size] \in OutputItem
    <3> DEFINE it == v.items[e.item]
    <3>1. it \in OutputItem
      BY <2>1
    <3> HIDE DEF it
    <3>2. it.size + e.size \in Nat
      BY <3>1, <1>1 DEF OutputItem
    <3>3. [it EXCEPT !.size = @ + e.size] \in OutputItem
      BY <3>1, <3>2 DEF OutputItem
    <3> QED BY <3>3 DEF it
  <2> QED BY <2>1, <2>2, <2>3, <1>1, ExceptSeq
<1>4. CASE e.kind = "close"
  <2>1. e.item \in 1..Len(v.items) /\ v.items[e.item] \in OutputItem
    BY <1>1, <1>4 DEF LegalLive
  <2>2. ItemsAfter(v, e) = [v.items EXCEPT ![e.item] = [v.items[e.item] EXCEPT !.open = FALSE]]
    BY <1>4 DEF ItemsAfter
  <2>3. [v.items[e.item] EXCEPT !.open = FALSE] \in OutputItem
    BY <2>1, <1>1 DEF OutputItem
  <2> QED BY <2>1, <2>2, <2>3, <1>1, ExceptSeq
<1>5. CASE e.kind \notin {"open", "grow", "close"}
  BY <1>1, <1>5 DEF ItemsAfter
<1> QED BY <1>2, <1>3, <1>4, <1>5

\* A legal event leads from a view to a view.
LEMMA HeardType ==
  ASSUME NEW a, NEW v \in Views, NEW e \in Events, Legal(a, v, e)
  PROVE  Heard(v, e) \in Views
<1>1. CASE ~Live(v)
  BY <1>1 DEF Heard
<1>2. CASE Live(v)
  <2>1. ItemsAfter(v, e) \in Seq(OutputItem)
    BY <1>2, ItemsAfterType DEF Legal
  <2>2. Status(v, e) \in Told
    BY DEF Status, Told, Views, Events, Kinds
  <2> DEFINE n == IF e.seq = 0 THEN v.number ELSE e.seq
  <2>3. n \in Nat
    BY DEF Views, Events
  <2>4. Heard(v, e) = [status |-> Status(v, e), items |-> ItemsAfter(v, e), number |-> n, half |-> <<>>]
    BY <1>2 DEF Heard
  <2> HIDE DEF n
  <2> QED BY <2>1, <2>2, <2>3, <2>4 DEF Views
<1> QED BY <1>1, <1>2

\* No event leads nowhere else.
LEMMA ReachesEmpty ==
  ASSUME NEW a, NEW c \in Views, NEW d
  PROVE  Reaches(a, c, <<>>, d) <=> c = d
<1>1. Len(<<>>) = 0
  OBVIOUS
<1>2. ASSUME Reaches(a, c, <<>>, d) PROVE c = d
  BY <1>1, <1>2 DEF Reaches
<1>3. ASSUME c = d PROVE Reaches(a, c, <<>>, d)
  <2> DEFINE t == [i \in 0..0 |-> c]
  <2>1. t \in [0..Len(<<>>) -> Views] /\ t[0] = c /\ t[Len(<<>>)] = d
    BY <1>1, <1>3
  <2>2. Hears(a, t, <<>>)
    BY <1>1 DEF Hears
  <2> HIDE DEF t
  <2> QED BY <2>1, <2>2 DEF Reaches
<1> QED BY <1>2, <1>3

\* A single event leads where it is heard to.
LEMMA ReachesOne ==
  ASSUME NEW a, NEW c \in Views, NEW e \in Events, NEW d
  PROVE  Reaches(a, c, <<e>>, d) <=> Legal(a, c, e) /\ d = Heard(c, e)
<1>1. Len(<<e>>) = 1 /\ <<e>>[1] = e /\ 0..(1 - 1) = {0} /\ 0 + 1 = 1
  OBVIOUS
<1>2. ASSUME Reaches(a, c, <<e>>, d) PROVE Legal(a, c, e) /\ d = Heard(c, e)
  BY <1>1, <1>2 DEF Reaches, Hears
<1>3. ASSUME Legal(a, c, e), d = Heard(c, e) PROVE Reaches(a, c, <<e>>, d)
  <2> DEFINE t == [i \in 0..1 |-> IF i = 0 THEN c ELSE d]
  <2>0. d \in Views
    BY <1>3, HeardType
  <2>1. t \in [0..1 -> Views] /\ t[0] = c /\ t[1] = d
    BY <2>0
  <2> HIDE DEF t
  <2>2. Hears(a, t, <<e>>)
    BY <1>1, <1>3, <2>1 DEF Hears
  <2> QED BY <1>1, <2>1, <2>2 DEF Reaches
<1> QED BY <1>2, <1>3

\* Events heard one run after the other are heard as one run.
LEMMA ReachesConcat ==
  ASSUME NEW a, NEW c \in Views, NEW P \in Seq(Events), NEW d \in Views,
         NEW Q \in Seq(Events), NEW f,
         Reaches(a, c, P, d), Reaches(a, d, Q, f)
  PROVE  Reaches(a, c, P \o Q, f)
<1> DEFINE m == Len(P)
           k == Len(Q)
<1>0. /\ m \in Nat /\ k \in Nat /\ Len(P \o Q) = m + k
      /\ \A i \in 1..m : (P \o Q)[i] = P[i]
      /\ \A i \in 1..k : (P \o Q)[m + i] = Q[i]
  BY ConcatProperties
<1>1. PICK t \in [0..m -> Views] : t[0] = c /\ t[m] = d /\ Hears(a, t, P)
  BY DEF Reaches
<1>2. PICK u \in [0..k -> Views] : u[0] = d /\ u[k] = f /\ Hears(a, u, Q)
  BY DEF Reaches
<1> DEFINE w == [i \in 0..(m + k) |-> IF i <= m THEN t[i] ELSE u[i - m]]
<1>3. \A i \in 0..k : w[m + i] = u[i]
  <2> SUFFICES ASSUME NEW i \in 0..k PROVE w[m + i] = u[i]
    OBVIOUS
  <2>1. m + i \in 0..(m + k) /\ (m + i) - m = i /\ (m + i <= m => i = 0)
    BY <1>0
  <2> QED BY <2>1, <1>0, <1>1, <1>2
<1>4. \A i \in 0..m : w[i] = t[i]
  BY <1>0
<1>5. w \in [0..(m + k) -> Views]
  <2>1. ASSUME NEW i \in 0..(m + k) PROVE (IF i <= m THEN t[i] ELSE u[i - m]) \in Views
    <3>1. CASE i <= m
      BY <3>1, <1>0, <1>1
    <3>2. CASE ~ (i <= m)
      <4>1. i - m \in 0..k
        BY <3>2, <1>0
      <4> QED BY <4>1, <3>2
    <3> QED BY <3>1, <3>2
  <2> QED BY <2>1
<1> DEFINE PQ == P \o Q
<1> HIDE DEF w
<1>6. ASSUME NEW i \in 0..((m + k) - 1)
      PROVE  Legal(a, w[i], PQ[i + 1]) /\ w[i + 1] = Heard(w[i], PQ[i + 1])
  <2>1. CASE i < m
    <3>1. i \in 0..(m - 1) /\ i \in 0..m /\ i + 1 \in 0..m /\ i + 1 \in 1..m
      BY <2>1, <1>0
    <3>2. Legal(a, t[i], P[i + 1]) /\ t[i + 1] = Heard(t[i], P[i + 1])
      BY <3>1, <1>1 DEF Hears
    <3> QED BY <3>1, <3>2, <1>4, <1>0
  <2>2. CASE ~ (i < m)
    <3> DEFINE j == i - m
    <3>1. j \in 0..(k - 1) /\ j \in 0..k /\ j + 1 \in 0..k /\ j + 1 \in 1..k
          /\ m + j = i /\ m + (j + 1) = i + 1
      <4>1. i \in Int /\ i >= m /\ i <= (m + k) - 1
        BY <2>2, <1>0
      <4> HIDE DEF m, k
      <4>2. j \in Int /\ j >= 0 /\ j <= k - 1 /\ m + j = i /\ m + (j + 1) = i + 1
        BY <4>1, <1>0
      <4> HIDE DEF j
      <4> QED BY <4>2, <1>0
    <3> HIDE DEF j
    <3>2. Legal(a, u[j], Q[j + 1]) /\ u[j + 1] = Heard(u[j], Q[j + 1])
      BY <3>1, <1>2 DEF Hears
    <3>3. w[i] = u[j] /\ w[i + 1] = u[j + 1]
      BY <3>1, <1>3
    <3>4. PQ[i + 1] = Q[j + 1]
      BY <3>1, <1>0
    <3> HIDE DEF PQ
    <3> QED BY <3>2, <3>3, <3>4
  <2> QED BY <2>1, <2>2
<1>7. Hears(a, w, PQ)
  BY <1>6, <1>0 DEF Hears
<1>8. w[0] = c /\ w[m + k] = f
  <2>1. 0 \in 0..m /\ k \in 0..k
    BY <1>0
  <2>2. w[0] = t[0]
    BY <2>1, <1>4
  <2>3. w[m + k] = u[k]
    BY <2>1, <1>3
  <2> QED BY <2>2, <2>3, <1>1, <1>2
<1> QED BY <1>0, <1>5, <1>7, <1>8 DEF Reaches

\* A run of events in two parts is heard through a client between them.
LEMMA ReachesSplit ==
  ASSUME NEW a, NEW c \in Views, NEW P \in Seq(Events), NEW Q \in Seq(Events), NEW f,
         Reaches(a, c, P \o Q, f)
  PROVE  \E d \in Views : Reaches(a, c, P, d) /\ Reaches(a, d, Q, f)
<1> DEFINE m == Len(P)
           k == Len(Q)
           PQ == P \o Q
<1>0. /\ m \in Nat /\ k \in Nat /\ Len(PQ) = m + k
      /\ \A i \in 1..m : PQ[i] = P[i]
      /\ \A i \in 1..k : PQ[m + i] = Q[i]
  BY ConcatProperties
<1> HIDE DEF PQ
<1>1. PICK w \in [0..(m + k) -> Views] : w[0] = c /\ w[m + k] = f /\ Hears(a, w, PQ)
  BY <1>0 DEF Reaches, PQ
<1> DEFINE t == [i \in 0..m |-> w[i]]
           u == [i \in 0..k |-> w[m + i]]
<1>2. t \in [0..m -> Views] /\ u \in [0..k -> Views] /\ w[m] \in Views
  <2>1. \A i \in 0..m : i \in 0..(m + k)
    BY <1>0
  <2>2. \A i \in 0..k : m + i \in 0..(m + k)
    BY <1>0
  <2>3. m \in 0..(m + k)
    BY <1>0
  <2> QED BY <2>1, <2>2, <2>3
<1>3. \A i \in 0..m : t[i] = w[i]
  OBVIOUS
<1>4. \A i \in 0..k : u[i] = w[m + i]
  OBVIOUS
<1> HIDE DEF t, u
<1>5. t[0] = c /\ t[m] = w[m] /\ u[0] = w[m] /\ u[k] = f
  BY <1>0, <1>1, <1>3, <1>4
<1>6. Hears(a, t, P)
  <2> SUFFICES ASSUME NEW i \in 0..(m - 1)
               PROVE  Legal(a, t[i], P[i + 1]) /\ t[i + 1] = Heard(t[i], P[i + 1])
    BY DEF Hears
  <2>1. i \in 0..m /\ i + 1 \in 0..m /\ i + 1 \in 1..m /\ i \in 0..((m + k) - 1)
    BY <1>0
  <2>2. Legal(a, w[i], PQ[i + 1]) /\ w[i + 1] = Heard(w[i], PQ[i + 1])
    BY <2>1, <1>0, <1>1 DEF Hears
  <2> QED BY <2>1, <2>2, <1>0, <1>3
<1>7. Hears(a, u, Q)
  <2> SUFFICES ASSUME NEW i \in 0..(k - 1)
               PROVE  Legal(a, u[i], Q[i + 1]) /\ u[i + 1] = Heard(u[i], Q[i + 1])
    BY DEF Hears
  <2> DEFINE j == m + i
  <2>1. i \in 0..k /\ i + 1 \in 0..k /\ i + 1 \in 1..k /\ j \in 0..((m + k) - 1) /\ m + (i + 1) = j + 1
    BY <1>0
  <2>2. u[i] = w[j] /\ u[i + 1] = w[j + 1] /\ PQ[j + 1] = Q[i + 1]
    BY <2>1, <1>0, <1>4
  <2> HIDE DEF j
  <2>3. Legal(a, w[j], PQ[j + 1]) /\ w[j + 1] = Heard(w[j], PQ[j + 1])
    BY <2>1, <1>0, <1>1 DEF Hears
  <2> QED BY <2>2, <2>3
<1>8. Reaches(a, c, P, w[m])
  BY <1>2, <1>5, <1>6 DEF Reaches
<1>9. Reaches(a, w[m], Q, f)
  BY <1>2, <1>5, <1>7 DEF Reaches
<1> QED BY <1>2, <1>8, <1>9

\* Events lead to a view.
LEMMA ReachesType ==
  ASSUME NEW a, NEW c, NEW Q \in Seq(Events), NEW d, Reaches(a, c, Q, d)
  PROVE  d \in Views
<1>1. PICK t \in [0..Len(Q) -> Views] : t[Len(Q)] = d
  BY DEF Reaches
<1> QED BY <1>1, LenProperties

\* One more event at the end, and one taken from the front.
LEMMA ReachesAppend ==
  ASSUME NEW a, NEW c \in Views, NEW Q \in Seq(Events), NEW d \in Views, NEW e \in Events,
         Reaches(a, c, Q, d), Legal(a, d, e)
  PROVE  Reaches(a, c, Q \o <<e>>, Heard(d, e))
<1>1. <<e>> \in Seq(Events)
  OBVIOUS
<1>2. Reaches(a, d, <<e>>, Heard(d, e))
  BY ReachesOne
<1> QED BY <1>1, <1>2, ReachesConcat

\* The first event of a run is legal, and the rest is heard after it.
LEMMA ReachesHead ==
  ASSUME NEW a, NEW c \in Views, NEW Q \in Seq(Events), Q # <<>>, NEW d,
         Reaches(a, c, Q, d)
  PROVE  /\ Head(Q) \in Events /\ Tail(Q) \in Seq(Events)
         /\ Legal(a, c, Head(Q)) /\ Reaches(a, Heard(c, Head(Q)), Tail(Q), d)
<1>1. Head(Q) \in Events /\ Tail(Q) \in Seq(Events) /\ Q = <<Head(Q)>> \o Tail(Q)
  OBVIOUS
<1>2. <<Head(Q)>> \in Seq(Events)
  BY <1>1
<1>3. PICK f \in Views : Reaches(a, c, <<Head(Q)>>, f) /\ Reaches(a, f, Tail(Q), d)
  BY <1>1, <1>2, ReachesSplit
<1> QED BY <1>1, <1>3, ReachesOne

\* Who has heard the end makes nothing of what follows.
LEMMA ReachesEnded ==
  ASSUME NEW a, NEW c \in Views, NEW Q \in Seq(Events), NEW d, Reaches(a, c, Q, d), ~Live(c)
  PROVE  d = c
<1>1. PICK t \in [0..Len(Q) -> Views] : t[0] = c /\ t[Len(Q)] = d /\ Hears(a, t, Q)
  BY DEF Reaches
<1>2. Len(Q) \in Nat
  OBVIOUS
<1> DEFINE T == {i \in Nat : t[i] = c}
<1>3. 0 \in T
  BY <1>1
<1>4. ASSUME NEW i \in 0..(Len(Q) - 1), i \in T PROVE i + 1 \in T
  <2>1. t[i + 1] = Heard(t[i], Q[i + 1])
    BY <1>1 DEF Hears
  <2> QED BY <2>1, <1>4 DEF Heard
<1> HIDE DEF T
<1>5. \A i \in 0..Len(Q) : i \in T
  BY <1>2, <1>3, <1>4, StepByStep
<1> QED BY <1>1, <1>2, <1>5 DEF T

-------------------------------------------------------------------------------
(* Pieces and the lines they end *)

Pieces(L) == [line : L, part : {"whole", "head", "tail"}]
LineEnded(piece) == IF piece.part # "head" THEN <<piece.line>> ELSE <<>>

\* The lines of pieces none of which lacks its head.
Ended(P) == FlattenSeq([i \in DOMAIN P |-> LineEnded(P[i])])

\* Every tail follows its head.
Joined(Q) ==
  \A i \in DOMAIN Q :
    Q[i].part = "tail" => i > 1 /\ Q[i - 1] = [Q[i] EXCEPT !.part = "head"]

Halves(L) == {<<>>} \union {<<piece>> : piece \in {p \in Pieces(L) : p.part = "head"}}

\* What each piece completes, piece by piece.
LEMMA EndedMap ==
  ASSUME NEW L, NEW P \in Seq(Pieces(L))
  PROVE  /\ [i \in DOMAIN P |-> LineEnded(P[i])] \in Seq(Seq(L))
         /\ Len([i \in DOMAIN P |-> LineEnded(P[i])]) = Len(P)
<1>1. DOMAIN P = 1..Len(P) /\ Len(P) \in Nat
  OBVIOUS
<1>2. \A i \in 1..Len(P) : LineEnded(P[i]) \in Seq(L)
  <2> SUFFICES ASSUME NEW i \in 1..Len(P) PROVE LineEnded(P[i]) \in Seq(L)
    OBVIOUS
  <2>1. P[i] \in Pieces(L)
    OBVIOUS
  <2>2. P[i].line \in L
    BY <2>1 DEF Pieces
  <2> QED BY <2>2 DEF LineEnded
<1> QED BY <1>1, <1>2

\* The lines pieces complete are their lines.
LEMMA EndedType ==
  ASSUME NEW L, NEW P \in Seq(Pieces(L))
  PROVE  Ended(P) \in Seq(L)
BY EndedMap, FlattenType DEF Ended

\* No pieces complete nothing.
LEMMA EndedEmpty == Ended(<<>>) = <<>>
<1>1. [i \in DOMAIN <<>> |-> LineEnded(<<>>[i])] = <<>>
  OBVIOUS
<1> QED BY <1>1, FlattenEmpty DEF Ended

\* One piece completes its line, or nothing.
LEMMA EndedOne ==
  ASSUME NEW L, NEW p \in Pieces(L)
  PROVE  Ended(<<p>>) = LineEnded(p)
<1>1. [i \in DOMAIN <<p>> |-> LineEnded(<<p>>[i])] = <<LineEnded(p)>>
  OBVIOUS
<1>2. LineEnded(p) \in Seq(L)
  <2>1. p.line \in L
    BY DEF Pieces
  <2> QED BY <2>1 DEF LineEnded
<1> QED BY <1>1, <1>2, FlattenOne DEF Ended

\* Two runs of pieces complete their lines one after the other.
LEMMA EndedConcat ==
  ASSUME NEW L, NEW P \in Seq(Pieces(L)), NEW Q \in Seq(Pieces(L))
  PROVE  Ended(P \o Q) = Ended(P) \o Ended(Q)
<1> DEFINE p == [i \in DOMAIN P |-> LineEnded(P[i])]
           q == [i \in DOMAIN Q |-> LineEnded(Q[i])]
           pq == [i \in DOMAIN (P \o Q) |-> LineEnded((P \o Q)[i])]
<1>1. p \in Seq(Seq(L)) /\ q \in Seq(Seq(L)) /\ Len(p) = Len(P) /\ Len(q) = Len(Q)
  BY EndedMap
<1>0. P \o Q \in Seq(Pieces(L)) /\ Len(P \o Q) = Len(P) + Len(Q) /\ Len(P) \in Nat /\ Len(Q) \in Nat
  BY ConcatProperties
<1>2. pq \in Seq(Seq(L)) /\ Len(pq) = Len(P) + Len(Q)
  BY <1>0, EndedMap
<1>3. pq = p \o q
  <2>1. p \o q \in Seq(Seq(L)) /\ Len(p \o q) = Len(P) + Len(Q)
    <3>1. \A x, y \in Seq(Seq(L)) : x \o y \in Seq(Seq(L)) /\ Len(x \o y) = Len(x) + Len(y)
      BY ConcatProperties
    <3> HIDE DEF p, q
    <3> QED BY <1>1, <3>1
  <2>2. ASSUME NEW i \in 1..(Len(P) + Len(Q)) PROVE pq[i] = (p \o q)[i]
    <3>1. pq[i] = LineEnded((P \o Q)[i])
      BY <1>0
    <3>2. CASE i <= Len(P)
      <4>1. (P \o Q)[i] = P[i] /\ (p \o q)[i] = p[i]
        BY <3>2, <1>0, <1>1, ConcatProperties
      <4> QED BY <4>1, <3>1, <3>2, <1>0
    <3>3. CASE ~ (i <= Len(P))
      <4>1. (P \o Q)[i] = Q[i - Len(P)] /\ (p \o q)[i] = q[i - Len(P)] /\ i - Len(P) \in 1..Len(Q)
        BY <3>3, <1>0, <1>1, ConcatProperties
      <4> QED BY <4>1, <3>1, <1>0
    <3> QED BY <3>2, <3>3
  <2> HIDE DEF p, q, pq
  <2> QED BY <2>1, <2>2, <1>2, SeqEqual
<1> HIDE DEF p, q, pq
<1>4. FlattenSeq(p \o q) = FlattenSeq(p) \o FlattenSeq(q)
  BY <1>1, FlattenConcat
<1> QED BY <1>3, <1>4 DEF Ended, p, q, pq

\* What Lines completes, when every tail follows its head.
LEMMA LinesEnded ==
  ASSUME NEW L, NEW half \in Halves(L), NEW P \in Seq(Pieces(L)), Joined(half \o P)
  PROVE  Lines(half, P) = Ended(P)
<1> DEFINE all == half \o P
<1>0. half \in Seq(Pieces(L)) /\ all \in Seq(Pieces(L))
  <2>1. half \in Seq(Pieces(L))
    <3>1. CASE half = <<>>
      BY <3>1
    <3>2. CASE half # <<>>
      <4>1. PICK p \in Pieces(L) : half = <<p>>
        BY <3>2 DEF Halves
      <4> QED BY <4>1
    <3> QED BY <3>1, <3>2
  <2> QED BY <2>1, ConcatProperties
<1>1. Ended(half) = <<>>
  <2>1. CASE half = <<>>
    BY <2>1, EndedEmpty
  <2>2. CASE half # <<>>
    <3>1. PICK p \in Pieces(L) : p.part = "head" /\ half = <<p>>
      BY <2>2 DEF Halves
    <3> QED BY <3>1, EndedOne DEF LineEnded
  <2> QED BY <2>1, <2>2
<1>2. Ended(all) = Ended(P)
  <2>1. Ended(all) = <<>> \o Ended(P)
    BY <1>0, <1>1, EndedConcat
  <2> QED BY <2>1, EndedType, ConcatEmptySeq
<1>3. Lines(half, P) = Ended(all)
  <2> DEFINE ends(i) == \/ all[i].part = "whole"
                        \/ all[i].part = "tail" /\ i > 1
                             /\ all[i - 1] = [all[i] EXCEPT !.part = "head"]
  <2>1. ASSUME NEW i \in DOMAIN all
        PROVE  (IF ends(i) THEN <<all[i].line>> ELSE <<>>) = LineEnded(all[i])
    <3>1. all[i].part \in {"whole", "head", "tail"}
      <4> HIDE DEF all
      <4>1. all[i] \in Pieces(L)
        BY <1>0
      <4> QED BY <4>1 DEF Pieces
    <3>2. ends(i) <=> all[i].part # "head"
      BY <3>1 DEF Joined
    <3> QED BY <3>2 DEF LineEnded
  <2>2. [i \in DOMAIN all |-> IF ends(i) THEN <<all[i].line>> ELSE <<>>]
          = [i \in DOMAIN all |-> LineEnded(all[i])]
    BY <2>1
  <2>3. Lines(half, P) = FlattenSeq([i \in DOMAIN all |-> IF ends(i) THEN <<all[i].line>> ELSE <<>>])
    BY DEF Lines
  <2> HIDE DEF all, ends
  <2> QED BY <2>2, <2>3 DEF Ended
<1> QED BY <1>2, <1>3

\* Whatever the pieces, a line is one of theirs.
LEMMA LinesType ==
  ASSUME NEW L, NEW half \in Seq(Pieces(L)), NEW P \in Seq(Pieces(L))
  PROVE  Lines(half, P) \in Seq(L)
<1> DEFINE all == half \o P
           ends(i) == \/ all[i].part = "whole"
                      \/ all[i].part = "tail" /\ i > 1
                           /\ all[i - 1] = [all[i] EXCEPT !.part = "head"]
           ss == [i \in DOMAIN all |-> IF ends(i) THEN <<all[i].line>> ELSE <<>>]
<1>0. all \in Seq(Pieces(L))
  BY ConcatProperties
<1>1. ss \in Seq(Seq(L))
  <2>1. DOMAIN all = 1..Len(all) /\ Len(all) \in Nat
    BY <1>0
  <2>2. ASSUME NEW i \in 1..Len(all) PROVE (IF ends(i) THEN <<all[i].line>> ELSE <<>>) \in Seq(L)
    <3>1. all[i] \in Pieces(L)
      BY <1>0
    <3>2. all[i].line \in L
      BY <3>1 DEF Pieces
    <3> HIDE DEF all, ends
    <3> QED BY <3>2
  <2> HIDE DEF all, ends
  <2> QED BY <2>1, <2>2
<1>2. Lines(half, P) = FlattenSeq(ss)
  BY DEF Lines
<1> HIDE DEF ss
<1> QED BY <1>1, <1>2, FlattenType

-------------------------------------------------------------------------------
(* ResponsesSse: what it has emitted is legal *)

SseItem == [type : {"think", "text", "tool"}, index : Nat, size : Nat]
Sses == [created : BOOLEAN, items : Seq(SseItem), number : Nat, finish : {"none"} \union STRING,
         out : Seq(Events)]

\* What a client that heard all that s has emitted makes of it while the
\* answer goes on.
SseView(s) ==
  [status |-> IF s.created THEN "open" ELSE "waiting",
   items |-> [i \in DOMAIN s.items |-> [open |-> TRUE, size |-> s.items[i].size]],
   number |-> s.number, half |-> <<>>]

\* The events of s since its output was emptied lead from c to there.
Emitted(c, s) == Reaches("responses", c, s.out, SseView(s))

\* What a client makes of the output of ResponsesSse is a view, still listening.
LEMMA SseViewType ==
  ASSUME NEW s \in Sses
  PROVE  SseView(s) \in Views /\ Live(SseView(s))
<1>1. s.items \in Seq(SseItem) /\ s.number \in Nat /\ s.created \in BOOLEAN
  BY DEF Sses
<1>2. ASSUME NEW i \in 1..Len(s.items) PROVE [open |-> TRUE, size |-> s.items[i].size] \in OutputItem
  <2>1. s.items[i] \in SseItem
    BY <1>1
  <2> QED BY <2>1 DEF SseItem, OutputItem
<1>3. [i \in DOMAIN s.items |-> [open |-> TRUE, size |-> s.items[i].size]] \in Seq(OutputItem)
  <2>1. DOMAIN s.items = 1..Len(s.items) /\ Len(s.items) \in Nat
    BY <1>1
  <2> QED BY <1>2, <2>1
<1> QED BY <1>1, <1>3 DEF SseView, Views, Live, Told

\* One numbered event, and the items it leaves.
LEMMA PushEmits ==
  ASSUME NEW c \in Views, NEW s \in Sses, s.created, Emitted(c, s),
         NEW e \in Events, e.typed,
         NEW r \in Sses, r.created, r.number = s.number + 1,
         r.out = Append(s.out, [e EXCEPT !.seq = s.number + 1]),
         LegalLive("responses", SseView(s), [e EXCEPT !.seq = s.number + 1]),
         Status(SseView(s), e) = "open", ItemsAfter(SseView(s), e) = SseView(r).items
  PROVE  Emitted(c, r)
<1> DEFINE e1 == [e EXCEPT !.seq = s.number + 1]
           v == SseView(s)
<1>1. v \in Views /\ Live(v) /\ v.number = s.number
  BY SseViewType DEF SseView
<1>2. s.number \in Nat /\ s.out \in Seq(Events)
  BY DEF Sses
<1>3. e1 \in Events /\ e1.seq = s.number + 1 /\ e1.kind = e.kind /\ e1.item = e.item /\ e1.size = e.size
  <2>1. s.number + 1 \in Nat
    BY <1>2
  <2> DEFINE n == s.number + 1
  <2> HIDE DEF n
  <2>2. [e EXCEPT !.seq = n] \in Events /\ [e EXCEPT !.seq = n].seq = n
        /\ [e EXCEPT !.seq = n].kind = e.kind /\ [e EXCEPT !.seq = n].item = e.item
        /\ [e EXCEPT !.seq = n].size = e.size
    BY <2>1 DEF Events, n
  <2> QED BY <2>2 DEF n
<1>4. Status(v, e1) = "open" /\ ItemsAfter(v, e1) = SseView(r).items
  <2>1. Status(v, e1) = Status(v, e)
    BY <1>3 DEF Status
  <2>2. ItemsAfter(v, e1) = ItemsAfter(v, e)
    BY <1>3 DEF ItemsAfter
  <2> QED BY <2>1, <2>2
<1>5. Legal("responses", v, e1)
  BY <1>1 DEF Legal
<1>6. Heard(v, e1) = SseView(r)
  <2>1. (IF e1.seq = 0 THEN v.number ELSE e1.seq) = r.number
    BY <1>2, <1>3
  <2>2. SseView(r) = [status |-> "open", items |-> SseView(r).items, number |-> r.number, half |-> <<>>]
    BY DEF SseView
  <2> HIDE DEF e1, v
  <2> QED BY <2>1, <2>2, <1>1, <1>4 DEF Heard
<1>7. Append(s.out, e1) = s.out \o <<e1>>
  BY <1>2, <1>3, AppendIsConcat
<1>8. Reaches("responses", c, s.out, v)
  BY DEF Emitted
<1> HIDE DEF v, e1
<1>9. Reaches("responses", c, s.out \o <<e1>>, Heard(v, e1))
  BY <1>1, <1>2, <1>3, <1>5, <1>8, ReachesAppend
<1> QED BY <1>6, <1>7, <1>9 DEF Emitted, e1

\* response.created is sent once, before everything else.
LEMMA CreatedEmits ==
  ASSUME NEW c \in Views, NEW s \in Sses, Emitted(c, s)
  PROVE  /\ Created(s) \in Sses /\ Created(s).created /\ Emitted(c, Created(s))
         /\ Created(s).items = s.items /\ Created(s).finish = s.finish
         /\ Created(s).number = s.number
<1>1. CASE s.created
  BY <1>1 DEF Created
<1>2. CASE ~s.created
  <2> DEFINE e == Untyped("start")
             r == Created(s)
  <2>1. /\ e \in Events /\ e.kind = "start" /\ e.seq = 0
    BY DEF Untyped, Event, Events, Kinds
  <2>2. s.out \in Seq(Events)
    BY DEF Sses
  <2>3. r = [s EXCEPT !.created = TRUE, !.out = Append(s.out, e)]
    BY <1>2 DEF Created
  <2>4. Append(s.out, e) \in Seq(Events) /\ Append(s.out, e) = s.out \o <<e>>
    BY <2>1, <2>2, AppendProperties, AppendIsConcat
  <2> HIDE DEF e, r
  <2>5. r \in Sses /\ r.created /\ r.items = s.items /\ r.finish = s.finish /\ r.number = s.number
        /\ r.out = Append(s.out, e)
    BY <2>3, <2>4 DEF Sses
  <2>6. SseView(s) \in Views /\ Live(SseView(s))
    BY SseViewType
  <2>7. Legal("responses", SseView(s), e)
    BY <2>1, <2>6, <1>2 DEF Legal, LegalLive, SseView
  <2>8. Heard(SseView(s), e) = SseView(r)
    BY <2>1, <2>5, <2>6 DEF Heard, SseView, Status, ItemsAfter
  <2>9. Reaches("responses", c, s.out \o <<e>>, Heard(SseView(s), e))
    BY <2>1, <2>2, <2>6, <2>7, ReachesAppend DEF Emitted
  <2>10. Emitted(c, r)
    BY <2>4, <2>5, <2>8, <2>9 DEF Emitted
  <2> QED BY <2>5, <2>10 DEF r
<1> QED BY <1>1, <1>2

\* The item of a part is the one of its type and index, if there is one.
LEMMA ItemOfFinds ==
  ASSUME NEW s \in Sses, NEW p \in Part
  PROVE  /\ ItemOf(s, p) \in 0..Len(s.items)
         /\ ItemOf(s, p) # 0 => /\ s.items[ItemOf(s, p)].type = p.type
                                /\ s.items[ItemOf(s, p)].index = p.index
         /\ ItemOf(s, p) = 0 => \A i \in 1..Len(s.items) :
                                  ~ (s.items[i].type = p.type /\ s.items[i].index = p.index)
<1> DEFINE I == {i \in 1..Len(s.items) : s.items[i].type = p.type /\ s.items[i].index = p.index}
<1>0. Len(s.items) \in Nat
  BY DEF Sses
<1>1. ItemOf(s, p) = IF I # {} THEN Min(I) ELSE 0
  BY DEF ItemOf, SelectInSeq
<1>2. CASE I = {}
  BY <1>0, <1>1, <1>2
<1>3. CASE I # {}
  <2>1. I \subseteq Nat
    BY <1>0
  <2>2. \E m \in I : \A n \in I : m <= n
    <3> HIDE DEF I
    <3> QED BY <1>3, <2>1, NatMin
  <2>3. Min(I) \in I
    <3> HIDE DEF I
    <3> QED BY <2>2 DEF Min
  <2>4. ItemOf(s, p) \in I
    BY <1>1, <1>3, <2>3
  <2>5. \A i \in I : i \in 1..Len(s.items) /\ s.items[i].type = p.type /\ s.items[i].index = p.index
    OBVIOUS
  <2> HIDE DEF I
  <2> QED BY <1>0, <2>4, <2>5
<1> QED BY <1>2, <1>3

\* An event with its fields.
LEMMA EventType ==
  ASSUME NEW kind \in Kinds, NEW i \in Nat, NEW n \in Nat
  PROVE  /\ Event(kind, i, n) \in Events
         /\ Event(kind, i, n).kind = kind /\ Event(kind, i, n).item = i
         /\ Event(kind, i, n).size = n /\ Event(kind, i, n).seq = 0 /\ Event(kind, i, n).typed
BY DEF Event, Events

\* Numbering an event leaves its other fields.
LEMMA NumberedType ==
  ASSUME NEW e \in Events, NEW n \in Nat
  PROVE  /\ [e EXCEPT !.seq = n] \in Events
         /\ [e EXCEPT !.seq = n].kind = e.kind /\ [e EXCEPT !.seq = n].item = e.item
         /\ [e EXCEPT !.seq = n].size = e.size /\ [e EXCEPT !.seq = n].seq = n
         /\ [e EXCEPT !.seq = n].typed = e.typed
BY DEF Events

\* The fields of what push_seq leaves.
LEMMA PushFields ==
  ASSUME NEW s \in Sses, NEW e \in Events
  PROVE  /\ Push(s, e) \in Sses
         /\ Push(s, e).created = s.created /\ Push(s, e).items = s.items
         /\ Push(s, e).finish = s.finish /\ Push(s, e).number = s.number + 1
         /\ Push(s, e).out = Append(s.out, [e EXCEPT !.seq = s.number + 1])
<1> DEFINE n == s.number + 1
           e1 == [e EXCEPT !.seq = n]
           o == Append(s.out, e1)
<1>1. n \in Nat
  BY DEF Sses
<1>2. e1 \in Events
  <2> HIDE DEF n
  <2> QED BY <1>1, NumberedType
<1>3. o \in Seq(Events)
  <2> HIDE DEF e1
  <2>1. s.out \in Seq(Events)
    BY DEF Sses
  <2> QED BY <2>1, <1>2, AppendProperties
<1>4. Push(s, e) = [s EXCEPT !.number = n, !.out = o]
  BY DEF Push
<1> HIDE DEF o, n, e1
<1>5. /\ Push(s, e) \in Sses /\ Push(s, e).created = s.created /\ Push(s, e).items = s.items
      /\ Push(s, e).finish = s.finish /\ Push(s, e).number = n /\ Push(s, e).out = o
  BY <1>1, <1>3, <1>4 DEF Sses
<1> QED BY <1>5 DEF o, n, e1

\* A part seen for the first time adds an item at the end.
LEMMA EnsureEmits ==
  ASSUME NEW c \in Views, NEW s \in Sses, s.created, Emitted(c, s), NEW p \in Part
  PROVE  /\ Ensure(s, p) \in Sses /\ Ensure(s, p).created /\ Emitted(c, Ensure(s, p))
         /\ Ensure(s, p).finish = s.finish
         /\ Ensure(s, p).items =
              IF ItemOf(s, p) # 0 THEN s.items
              ELSE Append(s.items, [type |-> p.type, index |-> p.index, size |-> 0])
<1>1. CASE ItemOf(s, p) # 0
  BY <1>1 DEF Ensure
<1>2. CASE ItemOf(s, p) = 0
  <2> DEFINE i == Len(s.items) + 1
             e == Event("open", i, 0)
             item == [type |-> p.type, index |-> p.index, size |-> 0]
             announced == Push(s, e)
             r == [announced EXCEPT !.items = Append(@, item)]
             m == Event("mark", i, 0)
             q == Push(r, m)
  <2>0. /\ s.items \in Seq(SseItem) /\ Len(s.items) \in Nat /\ s.number \in Nat
    BY DEF Sses
  <2>1. /\ e \in Events /\ e.kind = "open" /\ e.item = i /\ e.size = 0 /\ e.typed
        /\ m \in Events /\ m.kind = "mark" /\ m.typed /\ i \in Nat
    <3>1. i \in Nat
      BY <2>0
    <3> HIDE DEF i
    <3> QED BY <3>1, EventType DEF Kinds
  <2>2. item \in SseItem /\ item.size = 0
    BY DEF SseItem, Part
  <2> HIDE DEF e, m, item
  <2>3. /\ announced \in Sses /\ announced.created /\ announced.items = s.items
        /\ announced.finish = s.finish /\ announced.number = s.number + 1
        /\ announced.out = Append(s.out, [e EXCEPT !.seq = s.number + 1])
    BY <2>1, PushFields
  <2> HIDE DEF announced
  <2>4. Append(s.items, item) \in Seq(SseItem) /\ Len(Append(s.items, item)) = Len(s.items) + 1
        /\ \A j \in 1..Len(s.items) : Append(s.items, item)[j] = s.items[j]
        /\ Append(s.items, item)[Len(s.items) + 1] = item
    BY <2>0, <2>2, AppendProperties
  <2>5. /\ r \in Sses /\ r.created /\ r.finish = s.finish /\ r.number = s.number + 1
        /\ r.items = Append(s.items, item)
        /\ r.out = Append(s.out, [e EXCEPT !.seq = s.number + 1])
    BY <2>3, <2>4 DEF Sses
  <2> HIDE DEF r
  <2> DEFINE e1 == [e EXCEPT !.seq = s.number + 1]
             v == SseView(s)
  <2>v. v \in Views /\ v.number = s.number /\ v.status = "open" /\ Len(v.items) = Len(s.items)
        /\ DOMAIN v.items = 1..Len(s.items)
        /\ \A j \in 1..Len(s.items) : v.items[j] = [open |-> TRUE, size |-> s.items[j].size]
    <3>1. v \in Views
      BY SseViewType
    <3>2. v.items = [j \in DOMAIN s.items |-> [open |-> TRUE, size |-> s.items[j].size]]
          /\ v.number = s.number /\ v.status = "open"
      BY DEF SseView
    <3>3. DOMAIN s.items = 1..Len(s.items)
      BY <2>0
    <3> HIDE DEF v
    <3> QED BY <3>1, <3>2, <3>3, <2>0
  <2>6. ItemsAfter(v, e) = SseView(r).items
    <3>1. ItemsAfter(v, e) = Append(v.items, [open |-> TRUE, size |-> 0])
      BY <2>1 DEF ItemsAfter
    <3>2. SseView(r).items = [j \in DOMAIN r.items |-> [open |-> TRUE, size |-> r.items[j].size]]
      BY DEF SseView
    <3>3. DOMAIN r.items = 1..(Len(s.items) + 1)
      BY <2>4, <2>5, <2>0
    <3>4. v.items \in Seq(OutputItem) /\ [open |-> TRUE, size |-> 0] \in OutputItem
      BY <2>v DEF Views, OutputItem
    <3> DEFINE w == Append(v.items, [open |-> TRUE, size |-> 0])
               u == [j \in 1..(Len(s.items) + 1) |-> [open |-> TRUE, size |-> r.items[j].size]]
    <3>5. w = [j \in 1..(Len(s.items) + 1) |-> w[j]]
      <4>1. w \in Seq(OutputItem) /\ Len(w) = Len(s.items) + 1
        BY <3>4, <2>v, AppendProperties
      <4> HIDE DEF w
      <4> QED BY <4>1
    <3>6. ASSUME NEW j \in 1..(Len(s.items) + 1) PROVE w[j] = u[j]
      <4>1. CASE j = Len(s.items) + 1
        <5>1. w[Len(v.items) + 1] = [open |-> TRUE, size |-> 0]
          BY <3>4, AppendProperties
        <5>2. r.items[j].size = 0
          BY <4>1, <2>2, <2>4, <2>5
        <5> QED BY <4>1, <5>1, <5>2, <2>v
      <4>2. CASE j # Len(s.items) + 1
        <5>1. j \in 1..Len(s.items)
          BY <4>2, <2>0
        <5>2. w[j] = v.items[j]
          BY <5>1, <3>4, <2>v, AppendProperties
        <5>3. r.items[j] = s.items[j]
          BY <5>1, <2>4, <2>5
        <5> QED BY <5>1, <5>2, <5>3, <2>v
      <4> QED BY <4>1, <4>2
    <3> QED BY <3>1, <3>2, <3>3, <3>5, <3>6
  <2>7. LegalLive("responses", v, e1)
    <3>1. e1.kind = "open" /\ e1.item = i /\ e1.seq = s.number + 1
      <4>1. s.number + 1 \in Nat
        BY <2>0
      <4> QED BY <4>1, <2>1, NumberedType
    <3> HIDE DEF e1, v
    <3> QED BY <3>1, <2>v DEF LegalLive
  <2>8. Status(v, e) = "open"
    <3> HIDE DEF v
    <3> QED BY <2>1, <2>v DEF Status
  <2>9. Emitted(c, r)
    BY <2>1, <2>5, <2>6, <2>7, <2>8, PushEmits
  <2>10. /\ q \in Sses /\ q.created /\ q.items = r.items
         /\ q.finish = r.finish /\ q.number = r.number + 1
         /\ q.out = Append(r.out, [m EXCEPT !.seq = r.number + 1])
    BY <2>1, <2>5, PushFields
  <2>11. Emitted(c, q)
    <3> DEFINE m1 == [m EXCEPT !.seq = r.number + 1]
               x == SseView(r)
    <3>1. m1.kind = "mark" /\ m1.seq = r.number + 1
      <4>1. r.number + 1 \in Nat
        BY <2>5, <2>0
      <4> QED BY <4>1, <2>1, NumberedType
    <3>2. x.status = "open" /\ x.number = r.number
      BY <2>5 DEF SseView
    <3>3. x.items = SseView(q).items
      BY <2>10 DEF SseView
    <3>4. Status(x, m) = "open" /\ ItemsAfter(x, m) = SseView(q).items
      <4> HIDE DEF x
      <4> QED BY <2>1, <3>2, <3>3 DEF Status, ItemsAfter
    <3>5. LegalLive("responses", x, m1)
      <4> HIDE DEF x, m1
      <4> QED BY <3>1, <3>2 DEF LegalLive
    <3> HIDE DEF q
    <3> QED BY <2>1, <2>5, <2>9, <2>10, <3>4, <3>5, PushEmits
  <2>12. Ensure(s, p) = IF p.type = "tool" THEN r ELSE q
    BY <1>2 DEF Ensure, r, announced, e, m, item
  <2> HIDE DEF q
  <2> QED BY <1>2, <2>5, <2>9, <2>10, <2>11, <2>12 DEF item
<1> QED BY <1>1, <1>2

\* A delta grows the item it names.
LEMMA PushDeltaEmits ==
  ASSUME NEW c \in Views, NEW s \in Sses, s.created, Emitted(c, s),
         NEW i \in 1..Len(s.items)
  PROVE  /\ PushDelta(s, i, 1) \in Sses /\ PushDelta(s, i, 1).created
         /\ Emitted(c, PushDelta(s, i, 1)) /\ PushDelta(s, i, 1).finish = s.finish
         /\ PushDelta(s, i, 1).items = [s.items EXCEPT ![i].size = @ + 1]
<1> DEFINE grown == [s.items EXCEPT ![i] = [s.items[i] EXCEPT !.size = @ + 1]]
           e == Event("grow", i, 1)
           q == [s EXCEPT !.items = grown]
           r == Push(q, e)
           v == SseView(s)
           e1 == [e EXCEPT !.seq = s.number + 1]
<1>0. s.items \in Seq(SseItem) /\ Len(s.items) \in Nat /\ s.number \in Nat /\ i \in Nat
      /\ DOMAIN s.items = 1..Len(s.items) /\ s.items[i] \in SseItem
  BY DEF Sses
<1>1. e \in Events /\ e.kind = "grow" /\ e.item = i /\ e.size = 1 /\ e.typed
  BY <1>0, EventType DEF Kinds
<1>2. s.items[i].size \in Nat /\ [s.items[i] EXCEPT !.size = @ + 1] \in SseItem
      /\ [s.items[i] EXCEPT !.size = @ + 1].size = s.items[i].size + 1
  <2> DEFINE it == s.items[i]
  <2>1. it \in SseItem
    BY <1>0
  <2> HIDE DEF it
  <2>2. it.size + 1 \in Nat /\ it.size \in Nat
    BY <2>1 DEF SseItem
  <2>3. [it EXCEPT !.size = @ + 1] \in SseItem /\ [it EXCEPT !.size = @ + 1].size = it.size + 1
    BY <2>1, <2>2 DEF SseItem
  <2> QED BY <2>2, <2>3 DEF it
<1>3. grown \in Seq(SseItem) /\ Len(grown) = Len(s.items)
      /\ \A j \in 1..Len(s.items) :
           grown[j] = IF j = i THEN [s.items[i] EXCEPT !.size = @ + 1] ELSE s.items[j]
  BY <1>0, <1>2, ExceptSeq
<1> HIDE DEF e, grown
<1>4. /\ q \in Sses /\ q.created /\ q.finish = s.finish /\ q.number = s.number
      /\ q.items = grown /\ q.out = s.out
  BY <1>3 DEF Sses
<1> HIDE DEF q
<1>5. /\ r \in Sses /\ r.created /\ r.finish = s.finish /\ r.number = s.number + 1
      /\ r.items = grown /\ r.out = Append(s.out, e1)
  BY <1>1, <1>4, PushFields
<1> HIDE DEF r
<1>v. v \in Views /\ v.number = s.number /\ v.status = "open"
      /\ DOMAIN v.items = 1..Len(s.items)
      /\ v.items = [j \in 1..Len(s.items) |-> [open |-> TRUE, size |-> s.items[j].size]]
      /\ \A j \in 1..Len(s.items) : v.items[j] = [open |-> TRUE, size |-> s.items[j].size]
  <2>1. v \in Views
    BY SseViewType
  <2>2. v.items = [j \in 1..Len(s.items) |-> [open |-> TRUE, size |-> s.items[j].size]]
        /\ v.number = s.number /\ v.status = "open"
    BY <1>0 DEF SseView
  <2> HIDE DEF v
  <2> QED BY <2>1, <2>2
<1>6. ItemsAfter(v, e) = SseView(r).items
  <2>1. ItemsAfter(v, e) = [v.items EXCEPT ![i].size = @ + 1]
    BY <1>1 DEF ItemsAfter
  <2> DEFINE w == [v.items EXCEPT ![i].size = @ + 1]
             u == [j \in 1..Len(s.items) |-> [open |-> TRUE, size |-> grown[j].size]]
  <2>2. SseView(r).items = u
    <3>1. DOMAIN grown = 1..Len(s.items)
      BY <1>3
    <3> QED BY <3>1, <1>5 DEF SseView
  <2>3. w = [j \in 1..Len(s.items) |-> w[j]]
    <3> HIDE DEF v
    <3> QED BY <1>v
  <2>4. ASSUME NEW j \in 1..Len(s.items) PROVE w[j] = u[j]
    <3>1. CASE j = i
      <4>1. w[i] = [v.items[i] EXCEPT !.size = @ + 1]
        <5> HIDE DEF v
        <5> QED BY <1>v
      <4>2. v.items[i] = [open |-> TRUE, size |-> s.items[i].size]
        BY <1>v
      <4> DEFINE n == s.items[i].size
      <4>3. grown[i].size = n + 1
        BY <1>2, <1>3
      <4>4. w[i] = [open |-> TRUE, size |-> n + 1]
        <5> HIDE DEF v, w, n
        <5>1. w[i] = [[open |-> TRUE, size |-> n] EXCEPT !.size = @ + 1]
          BY <4>1, <4>2 DEF n
        <5> QED BY <5>1
      <4> HIDE DEF w, n
      <4> QED BY <3>1, <4>3, <4>4
    <3>2. CASE j # i
      <4>1. w[j] = v.items[j]
        <5> HIDE DEF v
        <5> QED BY <1>v, <3>2
      <4> HIDE DEF w, v
      <4> QED BY <4>1, <3>2, <1>v, <1>3
    <3> QED BY <3>1, <3>2
  <2> HIDE DEF w
  <2> QED BY <2>1, <2>2, <2>3, <2>4 DEF w
<1>7. LegalLive("responses", v, e1)
  <2>1. e1.kind = "grow" /\ e1.item = i /\ e1.size = 1 /\ e1.seq = s.number + 1
    <3>1. s.number + 1 \in Nat
      BY <1>0
    <3> QED BY <3>1, <1>1, NumberedType
  <2> HIDE DEF e1, v
  <2> QED BY <2>1, <1>v DEF LegalLive
<1>8. Status(v, e) = "open"
  <2> HIDE DEF v
  <2> QED BY <1>1, <1>v DEF Status
<1>9. Emitted(c, r)
  BY <1>1, <1>5, <1>6, <1>7, <1>8, PushEmits
<1>10. PushDelta(s, i, 1) = r
  <2>1. [s EXCEPT !.items[i].size = @ + 1] = q
    BY <1>0 DEF q, grown
  <2> QED BY <2>1 DEF PushDelta, r, e
<1>11. grown = [s.items EXCEPT ![i].size = @ + 1]
  BY <1>0 DEF grown
<1> QED BY <1>5, <1>9, <1>10, <1>11

\* What one part of a chat line emits keeps the protocol.
LEMMA FeedPartEmits ==
  ASSUME NEW c \in Views, NEW s \in Sses, s.created, Emitted(c, s), NEW p \in Part \union Finish
  PROVE  FeedPart(s, p) \in Sses /\ FeedPart(s, p).created /\ Emitted(c, FeedPart(s, p))
<1>1. CASE p.type = "finish"
  <2>1. p.reason \in STRING
    BY <1>1 DEF Part, Finish
  <2> DEFINE r == [s EXCEPT !.finish = p.reason]
  <2>2. r \in Sses /\ r.created /\ r.items = s.items /\ r.number = s.number /\ r.out = s.out
    BY <2>1 DEF Sses
  <2>3. FeedPart(s, p) = r
    BY <1>1 DEF FeedPart
  <2> HIDE DEF r
  <2>4. SseView(r) = SseView(s)
    BY <2>2 DEF SseView
  <2> QED BY <2>2, <2>3, <2>4 DEF Emitted
<1>2. CASE p.type # "finish"
  <2>1. p \in Part /\ p.size \in {0, 1}
    BY <1>2 DEF Part, Finish
  <2> DEFINE t == Ensure(s, p)
  <2>2. t \in Sses /\ t.created /\ Emitted(c, t)
        /\ t.items = IF ItemOf(s, p) # 0 THEN s.items
                     ELSE Append(s.items, [type |-> p.type, index |-> p.index, size |-> 0])
    BY <2>1, EnsureEmits
  <2>3. FeedPart(s, p) = IF p.size = 0 THEN t ELSE PushDelta(t, ItemOf(t, p), p.size)
    BY <1>2 DEF FeedPart
  <2> HIDE DEF t
  <2>4. \E i \in 1..Len(t.items) : t.items[i].type = p.type /\ t.items[i].index = p.index
    <3>0. s.items \in Seq(SseItem) /\ Len(s.items) \in Nat
      BY DEF Sses
    <3>1. CASE ItemOf(s, p) # 0
      <4>1. ItemOf(s, p) \in 1..Len(s.items)
        BY <3>1, <2>1, ItemOfFinds, <3>0
      <4> QED BY <4>1, <3>1, <2>1, <2>2, ItemOfFinds
    <3>2. CASE ItemOf(s, p) = 0
      <4> DEFINE item == [type |-> p.type, index |-> p.index, size |-> 0]
      <4>1. item \in SseItem
        BY <2>1 DEF SseItem, Part
      <4>2. item.type = p.type /\ item.index = p.index
        OBVIOUS
      <4> HIDE DEF item
      <4>3. Append(s.items, item)[Len(s.items) + 1] = item /\ Len(Append(s.items, item)) = Len(s.items) + 1
        BY <3>0, <4>1, AppendProperties
      <4>4. t.items = Append(s.items, item) /\ Len(s.items) + 1 \in 1..Len(t.items)
        BY <3>0, <3>2, <2>2, <4>3 DEF item
      <4> QED BY <4>2, <4>3, <4>4
    <3> QED BY <3>1, <3>2
  <2>5. ItemOf(t, p) \in 1..Len(t.items)
    <3>1. ItemOf(t, p) \in 0..Len(t.items) /\ ItemOf(t, p) # 0
      BY <2>1, <2>2, <2>4, ItemOfFinds
    <3>2. Len(t.items) \in Nat
      BY <2>2 DEF Sses
    <3> QED BY <3>1, <3>2
  <2>6. CASE p.size = 0
    <3>1. FeedPart(s, p) = t
      BY <2>3, <2>6
    <3> QED BY <3>1, <2>2
  <2>7. CASE p.size = 1
    <3> DEFINE i == ItemOf(t, p)
    <3>1. FeedPart(s, p) = PushDelta(t, i, 1)
      BY <2>3, <2>7
    <3> HIDE DEF i
    <3>2. PushDelta(t, i, 1) \in Sses /\ PushDelta(t, i, 1).created /\ Emitted(c, PushDelta(t, i, 1))
      BY <2>2, <2>5, PushDeltaEmits DEF i
    <3> QED BY <3>1, <3>2
  <2> QED BY <2>1, <2>6, <2>7
<1> QED BY <1>1, <1>2

\* The parts of a chunk are fed one after the other.
FeedPartKeeps(A, X) == \A a \in A, x \in X : FeedPart(a, x) \in A
FeedPartTraces(A, base, q, t) ==
  /\ t \in [0..Len(q) -> A] /\ t[0] = base
  /\ \A i \in 0..(Len(q) - 1) : t[i + 1] = FeedPart(t[i], q[i + 1])
  /\ FoldLeft(FeedPart, base, q) = t[Len(q)]

\* The parts of a line are fed one after the other.
LEMMA FeedPartTrace ==
  ASSUME NEW A, NEW X, NEW base \in A, NEW q \in Seq(X), FeedPartKeeps(A, X)
  PROVE  \E t : FeedPartTraces(A, base, q, t)
<1> DEFINE n == Len(q)
           f == [p \in A \X X |-> FeedPart(p[1], p[2])]
           Solves(g) == g = [S \in SUBSET (DOMAIN q) |->
                              IF S = {} THEN base ELSE FeedPart(g[S \ {Max(S)}], q[Max(S)])]
           F == CHOOSE g : Solves(g)
           t == [i \in 0..n |-> F[1..i]]
<1>0. n \in Nat /\ DOMAIN q = 1..n /\ \A i \in 1..n : q[i] \in X
  OBVIOUS
<1>1. f \in [A \X X -> A] /\ \A a \in A, x \in X : f[<<a, x>>] = FeedPart(a, x)
  BY DEF FeedPartKeeps
<1> HIDE DEF f
<1>2. PICK g \in [SUBSET (1..n) -> A] : Folds(g, f, base, q, n)
  BY <1>1, FoldsExists
<1>3. Solves(g)
  <2>1. ASSUME NEW S \in SUBSET (1..n)
        PROVE  g[S] = IF S = {} THEN base ELSE FeedPart(g[S \ {Max(S)}], q[Max(S)])
    <3>1. CASE S = {}
      BY <1>2, <3>1 DEF Folds
    <3>2. CASE S # {}
      <4>1. Max(S) \in S
        BY <1>0, <3>2, MaxOfNumbers
      <4>2. g[S \ {Max(S)}] \in A /\ q[Max(S)] \in X
        BY <1>0, <4>1
      <4>3. g[S] = f[<<g[S \ {Max(S)}], q[Max(S)]>>]
        BY <1>2, <3>2 DEF Folds
      <4> QED BY <1>1, <3>2, <4>2, <4>3
    <3> QED BY <3>1, <3>2
  <2>2. g = [S \in SUBSET (1..n) |-> g[S]]
    OBVIOUS
  <2> QED BY <1>0, <2>1, <2>2
<1>4. Solves(F)
  <2> HIDE DEF Solves
  <2> QED BY <1>3
<1>5. FoldLeft(FeedPart, base, q) = F[DOMAIN q]
  BY Zenon DEF FoldLeft, MapThenFoldSet
<1> HIDE DEF F
<1>6. F[{}] = base
  BY <1>4
<1>7. \A m \in 1..n : F[1..m] = FeedPart(F[1..(m - 1)], q[m])
  <2> SUFFICES ASSUME NEW m \in 1..n PROVE F[1..m] = FeedPart(F[1..(m - 1)], q[m])
    OBVIOUS
  <2>1. 1..m \in SUBSET (DOMAIN q) /\ 1..m # {}
    <3>1. 1..m \subseteq 1..n /\ 1 \in 1..m
      BY <1>0
    <3> HIDE DEF n
    <3> QED BY <3>1, <1>0
  <2>2. Max(1..m) = m /\ (1..m) \ {m} = 1..(m - 1)
    BY <1>0, MaxOfUpto
  <2>3. F[1..m] = FeedPart(F[(1..m) \ {Max(1..m)}], q[Max(1..m)])
    BY <1>4, <2>1
  <2> QED BY <2>2, <2>3
<1>8. t[0] = base
  <2>1. 1..0 = {}
    OBVIOUS
  <2> QED BY <1>0, <1>6, <2>1
<1>9. \A i \in 0..(n - 1) : t[i + 1] = FeedPart(t[i], q[i + 1])
  <2> SUFFICES ASSUME NEW i \in 0..(n - 1) PROVE t[i + 1] = FeedPart(t[i], q[i + 1])
    OBVIOUS
  <2> DEFINE m == i + 1
  <2>1. m \in 1..n /\ m - 1 = i /\ i \in 0..n /\ m \in 0..n
    BY <1>0
  <2>2. t[m] = F[1..m] /\ t[i] = F[1..i]
    BY <2>1
  <2> HIDE DEF m, t
  <2>3. F[1..m] = FeedPart(F[1..(m - 1)], q[m])
    BY <2>1, <1>7
  <2>4. t[m] = FeedPart(t[i], q[m])
    BY <2>1, <2>2, <2>3
  <2> QED BY <2>4 DEF m
<1>10. t[n] = F[DOMAIN q]
  BY <1>0
<1>11. \A i \in 0..n : t[i] \in A
  <2> DEFINE T == {i \in Nat : t[i] \in A}
  <2>1. 0 \in T
    BY <1>8
  <2>2. ASSUME NEW i \in 0..(n - 1), i \in T PROVE i + 1 \in T
    <3> HIDE DEF t
    <3>1. t[i] \in A /\ q[i + 1] \in X /\ i + 1 \in Nat
      BY <2>2, <1>0
    <3>2. t[i + 1] = FeedPart(t[i], q[i + 1])
      BY <1>9
    <3> QED BY <3>1, <3>2 DEF FeedPartKeeps
  <2> HIDE DEF T
  <2>3. \A i \in 0..n : i \in T
    BY <1>0, <2>1, <2>2, StepByStep
  <2> QED BY <2>3 DEF T
<1>12. t \in [0..n -> A]
  <2>1. t = [i \in 0..n |-> t[i]]
    OBVIOUS
  <2> HIDE DEF t
  <2> QED BY <1>11, <2>1
<1> HIDE DEF t
<1> QED BY <1>5, <1>8, <1>9, <1>10, <1>12 DEF FeedPartTraces

\* What a chat line emits keeps the protocol.
LEMMA FeedEmits ==
  ASSUME NEW c \in Views, NEW s \in Sses, Emitted(c, s), NEW line \in ChatLines
  PROVE  Feed(s, line) \in Sses /\ Emitted(c, Feed(s, line))
<1> DEFINE A == {a \in Sses : a.created /\ Emitted(c, a)}
           X == Part \union Finish
           u == Created(s)
           q == line.parts
<1>1. u \in A
  BY CreatedEmits
<1>2. q \in Seq(X)
  BY ChatLinesAssumption
<1>3. \A a \in A, x \in X : FeedPart(a, x) \in A
  BY FeedPartEmits
<1>4. Feed(s, line) = FoldLeft(FeedPart, u, q)
  BY DEF Feed
<1> HIDE DEF A, X, u, q
<1>5. PICK t : FeedPartTraces(A, u, q, t)
  <2>1. FeedPartKeeps(A, X)
    BY <1>3 DEF FeedPartKeeps
  <2> QED BY <1>1, <1>2, <2>1, FeedPartTrace
<1>6. Feed(s, line) \in A
  <2>1. Len(q) \in 0..Len(q)
    BY <1>2, LenProperties
  <2> QED BY <1>4, <1>5, <2>1 DEF FeedPartTraces
<1> QED BY <1>6 DEF A

\* The lines of a chunk are fed one after the other.
FeedKeeps(A, X) == \A a \in A, x \in X : Feed(a, x) \in A
FeedTraces(A, base, q, t) ==
  /\ t \in [0..Len(q) -> A] /\ t[0] = base
  /\ \A i \in 0..(Len(q) - 1) : t[i + 1] = Feed(t[i], q[i + 1])
  /\ FoldLeft(Feed, base, q) = t[Len(q)]

\* The lines of a chunk are fed one after the other.
LEMMA FeedTrace ==
  ASSUME NEW A, NEW X, NEW base \in A, NEW q \in Seq(X), FeedKeeps(A, X)
  PROVE  \E t : FeedTraces(A, base, q, t)
<1> DEFINE n == Len(q)
           f == [p \in A \X X |-> Feed(p[1], p[2])]
           Solves(g) == g = [S \in SUBSET (DOMAIN q) |->
                              IF S = {} THEN base ELSE Feed(g[S \ {Max(S)}], q[Max(S)])]
           F == CHOOSE g : Solves(g)
           t == [i \in 0..n |-> F[1..i]]
<1>0. n \in Nat /\ DOMAIN q = 1..n /\ \A i \in 1..n : q[i] \in X
  OBVIOUS
<1>1. f \in [A \X X -> A] /\ \A a \in A, x \in X : f[<<a, x>>] = Feed(a, x)
  BY DEF FeedKeeps
<1> HIDE DEF f
<1>2. PICK g \in [SUBSET (1..n) -> A] : Folds(g, f, base, q, n)
  BY <1>1, FoldsExists
<1>3. Solves(g)
  <2>1. ASSUME NEW S \in SUBSET (1..n)
        PROVE  g[S] = IF S = {} THEN base ELSE Feed(g[S \ {Max(S)}], q[Max(S)])
    <3>1. CASE S = {}
      BY <1>2, <3>1 DEF Folds
    <3>2. CASE S # {}
      <4>1. Max(S) \in S
        BY <1>0, <3>2, MaxOfNumbers
      <4>2. g[S \ {Max(S)}] \in A /\ q[Max(S)] \in X
        BY <1>0, <4>1
      <4>3. g[S] = f[<<g[S \ {Max(S)}], q[Max(S)]>>]
        BY <1>2, <3>2 DEF Folds
      <4> QED BY <1>1, <3>2, <4>2, <4>3
    <3> QED BY <3>1, <3>2
  <2>2. g = [S \in SUBSET (1..n) |-> g[S]]
    OBVIOUS
  <2> QED BY <1>0, <2>1, <2>2
<1>4. Solves(F)
  <2> HIDE DEF Solves
  <2> QED BY <1>3
<1>5. FoldLeft(Feed, base, q) = F[DOMAIN q]
  BY Zenon DEF FoldLeft, MapThenFoldSet
<1> HIDE DEF F
<1>6. F[{}] = base
  BY <1>4
<1>7. \A m \in 1..n : F[1..m] = Feed(F[1..(m - 1)], q[m])
  <2> SUFFICES ASSUME NEW m \in 1..n PROVE F[1..m] = Feed(F[1..(m - 1)], q[m])
    OBVIOUS
  <2>1. 1..m \in SUBSET (DOMAIN q) /\ 1..m # {}
    <3>1. 1..m \subseteq 1..n /\ 1 \in 1..m
      BY <1>0
    <3> HIDE DEF n
    <3> QED BY <3>1, <1>0
  <2>2. Max(1..m) = m /\ (1..m) \ {m} = 1..(m - 1)
    BY <1>0, MaxOfUpto
  <2>3. F[1..m] = Feed(F[(1..m) \ {Max(1..m)}], q[Max(1..m)])
    BY <1>4, <2>1
  <2> QED BY <2>2, <2>3
<1>8. t[0] = base
  <2>1. 1..0 = {}
    OBVIOUS
  <2> QED BY <1>0, <1>6, <2>1
<1>9. \A i \in 0..(n - 1) : t[i + 1] = Feed(t[i], q[i + 1])
  <2> SUFFICES ASSUME NEW i \in 0..(n - 1) PROVE t[i + 1] = Feed(t[i], q[i + 1])
    OBVIOUS
  <2> DEFINE m == i + 1
  <2>1. m \in 1..n /\ m - 1 = i /\ i \in 0..n /\ m \in 0..n
    BY <1>0
  <2>2. t[m] = F[1..m] /\ t[i] = F[1..i]
    BY <2>1
  <2> HIDE DEF m, t
  <2>3. F[1..m] = Feed(F[1..(m - 1)], q[m])
    BY <2>1, <1>7
  <2>4. t[m] = Feed(t[i], q[m])
    BY <2>1, <2>2, <2>3
  <2> QED BY <2>4 DEF m
<1>10. t[n] = F[DOMAIN q]
  BY <1>0
<1>11. \A i \in 0..n : t[i] \in A
  <2> DEFINE T == {i \in Nat : t[i] \in A}
  <2>1. 0 \in T
    BY <1>8
  <2>2. ASSUME NEW i \in 0..(n - 1), i \in T PROVE i + 1 \in T
    <3> HIDE DEF t
    <3>1. t[i] \in A /\ q[i + 1] \in X /\ i + 1 \in Nat
      BY <2>2, <1>0
    <3>2. t[i + 1] = Feed(t[i], q[i + 1])
      BY <1>9
    <3> QED BY <3>1, <3>2 DEF FeedKeeps
  <2> HIDE DEF T
  <2>3. \A i \in 0..n : i \in T
    BY <1>0, <2>1, <2>2, StepByStep
  <2> QED BY <2>3 DEF T
<1>12. t \in [0..n -> A]
  <2>1. t = [i \in 0..n |-> t[i]]
    OBVIOUS
  <2> HIDE DEF t
  <2> QED BY <1>11, <2>1
<1> HIDE DEF t
<1> QED BY <1>5, <1>8, <1>9, <1>10, <1>12 DEF FeedTraces

\* What the lines of a chunk emit keeps the protocol.
LEMMA FeedsEmit ==
  ASSUME NEW c \in Views, NEW s \in Sses, Emitted(c, s), NEW q \in Seq(ChatLines)
  PROVE  FoldLeft(Feed, s, q) \in Sses /\ Emitted(c, FoldLeft(Feed, s, q))
<1> DEFINE A == {a \in Sses : Emitted(c, a)}
<1>1. s \in A
  OBVIOUS
<1>2. \A a \in A, x \in ChatLines : Feed(a, x) \in A
  BY FeedEmits
<1> HIDE DEF A
<1>3. PICK t : FeedTraces(A, s, q, t)
  <2>1. FeedKeeps(A, ChatLines)
    BY <1>2 DEF FeedKeeps
  <2> QED BY <1>1, <2>1, FeedTrace
<1>4. FoldLeft(Feed, s, q) \in A
  <2>1. Len(q) \in 0..Len(q)
    BY LenProperties
  <2> QED BY <1>3, <2>1 DEF FeedTraces
<1> QED BY <1>4 DEF A

\* The output is emptied when the generator yields it.
LEMMA EmptiedEmits ==
  ASSUME NEW s \in Sses
  PROVE  /\ [s EXCEPT !.out = <<>>] \in Sses
         /\ [s EXCEPT !.out = <<>>].created = s.created /\ [s EXCEPT !.out = <<>>].items = s.items
         /\ [s EXCEPT !.out = <<>>].finish = s.finish /\ [s EXCEPT !.out = <<>>].number = s.number
         /\ [s EXCEPT !.out = <<>>].out = <<>>
         /\ Emitted(SseView(s), [s EXCEPT !.out = <<>>])
<1> DEFINE r == [s EXCEPT !.out = <<>>]
<1>1. r \in Sses /\ r.created = s.created /\ r.items = s.items /\ r.finish = s.finish
      /\ r.number = s.number /\ r.out = <<>>
  <2>1. <<>> \in Seq(Events)
    OBVIOUS
  <2> QED BY <2>1 DEF Sses
<1> HIDE DEF r
<1>2. SseView(r) = SseView(s)
  BY <1>1 DEF SseView
<1>3. Emitted(SseView(s), r)
  BY <1>1, <1>2, SseViewType, ReachesEmpty DEF Emitted
<1> QED BY <1>1, <1>3 DEF r

-------------------------------------------------------------------------------
(* Ascending, and the order of finish() *)

\* The ascending list of a set up to n, and up to n + 1.
LEMMA AscendingNext ==
  ASSUME NEW S, NEW n \in Nat
  PROVE  /\ Ascending(S, 0) = <<>>
         /\ Ascending(S, n) \in Seq(Nat)
         /\ Ascending(S, n + 1) = IF n + 1 \in S THEN Append(Ascending(S, n), n + 1)
                                  ELSE Ascending(S, n)
<1> DEFINE M(k) == [i \in 1..k |-> IF i \in S THEN <<i>> ELSE <<>>]
<1>1. \A k \in Nat : M(k) \in Seq(Seq(Nat)) /\ Len(M(k)) = k
  <2> SUFFICES ASSUME NEW k \in Nat PROVE M(k) \in Seq(Seq(Nat)) /\ Len(M(k)) = k
    OBVIOUS
  <2>1. \A i \in 1..k : (IF i \in S THEN <<i>> ELSE <<>>) \in Seq(Nat)
    OBVIOUS
  <2> QED BY <2>1
<1>2. M(0) = <<>>
  OBVIOUS
<1> DEFINE l == IF n + 1 \in S THEN <<n + 1>> ELSE <<>>
<1>3. M(n + 1) = Append(M(n), l)
  OBVIOUS
<1>4. l \in Seq(Nat)
  OBVIOUS
<1>5. \A k : Ascending(S, k) = FlattenSeq(M(k))
  BY DEF Ascending
<1>6. n + 1 \notin S => l = <<>>
  OBVIOUS
<1>7. n + 1 \in S => l = <<n + 1>>
  OBVIOUS
<1> HIDE DEF M, l
<1>8. Ascending(S, 0) = <<>>
  BY <1>2, <1>5, FlattenEmpty
<1>9. Ascending(S, n) \in Seq(Nat)
  BY <1>1, <1>5, FlattenType
<1>10. Ascending(S, n + 1) = Ascending(S, n) \o l
  <2>1. M(n) \in Seq(Seq(Nat))
    BY <1>1
  <2>2. FlattenSeq(Append(M(n), l)) = FlattenSeq(M(n)) \o l
    BY <2>1, <1>4, FlattenAppend
  <2> QED BY <2>2, <1>3, <1>5
<1>11. CASE n + 1 \notin S
  BY <1>6, <1>8, <1>9, <1>10, <1>11, ConcatEmptySeq
<1>12. CASE n + 1 \in S
  <2>1. Append(Ascending(S, n), n + 1) = Ascending(S, n) \o <<n + 1>>
    BY <1>9, AppendIsConcat
  <2> QED BY <1>7, <1>8, <1>9, <1>10, <1>12, <2>1
<1> QED BY <1>11, <1>12

\* The members of S among 1..n, each once, in ascending order.
LEMMA AscendingLists ==
  ASSUME NEW S, NEW n \in Nat
  PROVE  /\ Ascending(S, n) \in Seq(1..n)
         /\ \A i, j \in 1..Len(Ascending(S, n)) :
              i < j => Ascending(S, n)[i] < Ascending(S, n)[j]
         /\ \A i \in 1..Len(Ascending(S, n)) : Ascending(S, n)[i] \in S
         /\ \A x \in 1..n : x \in S => \E i \in 1..Len(Ascending(S, n)) : Ascending(S, n)[i] = x
<1> DEFINE Good(k, a) == /\ a \in Seq(1..k)
                         /\ \A i, j \in 1..Len(a) : i < j => a[i] < a[j]
                         /\ \A i \in 1..Len(a) : a[i] \in S
                         /\ \A x \in 1..k : x \in S => \E i \in 1..Len(a) : a[i] = x
           T == {k \in Nat : Good(k, Ascending(S, k))}
<1>1. 0 \in T
  <2>1. Ascending(S, 0) = <<>>
    BY AscendingNext
  <2>2. Good(0, <<>>)
    OBVIOUS
  <2> HIDE DEF Good
  <2> QED BY <2>1, <2>2
<1>2. ASSUME NEW k \in T PROVE k + 1 \in T
  <2> DEFINE a == Ascending(S, k)
  <2>0. k \in Nat /\ Good(k, a)
    OBVIOUS
  <2> HIDE DEF a
  <2>1. CASE k + 1 \in S
    <3> DEFINE b == Append(a, k + 1)
    <3>1. Ascending(S, k + 1) = b
      BY <2>0, <2>1, AscendingNext DEF a
    <3>2. a \in Seq(1..(k + 1)) /\ Len(a) \in Nat /\ \A i \in 1..Len(a) : a[i] \in 1..k
      BY <2>0
    <3>3. b \in Seq(1..(k + 1)) /\ Len(b) = Len(a) + 1 /\ b[Len(a) + 1] = k + 1
          /\ \A i \in 1..Len(a) : b[i] = a[i]
      <4>1. k + 1 \in 1..(k + 1)
        BY <2>0
      <4> QED BY <3>2, <4>1, AppendProperties
    <3> HIDE DEF b
    <3>4. ASSUME NEW i \in 1..Len(b), NEW j \in 1..Len(b), i < j PROVE b[i] < b[j]
      <4>1. i \in 1..Len(a)
        BY <3>2, <3>3, <3>4
      <4>2. CASE j = Len(a) + 1
        <5>1. b[i] = a[i] /\ a[i] \in 1..k /\ b[j] = k + 1
          BY <4>1, <4>2, <3>2, <3>3
        <5> QED BY <5>1, <2>0
      <4>3. CASE j # Len(a) + 1
        <5>1. j \in 1..Len(a)
          BY <4>3, <3>2, <3>3
        <5> QED BY <5>1, <4>1, <3>3, <3>4, <2>0
      <4> QED BY <4>2, <4>3
    <3>5. ASSUME NEW i \in 1..Len(b) PROVE b[i] \in S
      <4>1. CASE i = Len(a) + 1
        BY <4>1, <2>1, <3>3
      <4>2. CASE i # Len(a) + 1
        <5>1. i \in 1..Len(a)
          BY <4>2, <3>2, <3>3
        <5> QED BY <5>1, <2>0, <3>3
      <4> QED BY <4>1, <4>2
    <3>6. ASSUME NEW x \in 1..(k + 1), x \in S PROVE \E i \in 1..Len(b) : b[i] = x
      <4>1. CASE x = k + 1
        <5>1. Len(a) + 1 \in 1..Len(b)
          BY <3>2, <3>3
        <5> QED BY <5>1, <4>1, <3>3
      <4>2. CASE x # k + 1
        <5>1. x \in 1..k
          BY <4>2, <2>0
        <5>2. PICK i \in 1..Len(a) : a[i] = x
          BY <5>1, <3>6, <2>0
        <5>3. i \in 1..Len(b)
          BY <3>2, <3>3
        <5> QED BY <5>2, <5>3, <3>3
      <4> QED BY <4>1, <4>2
    <3>7. Good(k + 1, b)
      BY <3>3, <3>4, <3>5, <3>6
    <3> HIDE DEF Good
    <3> QED BY <2>0, <3>1, <3>7
  <2>2. CASE k + 1 \notin S
    <3>1. Ascending(S, k + 1) = a
      BY <2>0, <2>2, AscendingNext DEF a
    <3>2. a \in Seq(1..(k + 1))
      BY <2>0
    <3>3. Good(k + 1, a)
      <4>1. ASSUME NEW x \in 1..(k + 1), x \in S PROVE \E i \in 1..Len(a) : a[i] = x
        <5>1. x \in 1..k
          BY <2>0, <2>2, <4>1
        <5> QED BY <5>1, <4>1, <2>0
      <4> QED BY <4>1, <3>2, <2>0
    <3> HIDE DEF Good
    <3> QED BY <2>0, <3>1, <3>3
  <2> QED BY <2>1, <2>2
<1>3. T = Nat
  <2> HIDE DEF T
  <2>1. T \subseteq Nat BY DEF T
  <2> QED BY <1>1, <1>2, <2>1, NatInduct
<1>4. Good(n, Ascending(S, n))
  BY <1>3
<1> QED BY <1>4

\* finish() seals each item once.
LEMMA SealOrderLists ==
  ASSUME NEW s \in Sses
  PROVE  /\ SealOrder(s) \in Seq(1..Len(s.items))
         /\ \A i, j \in 1..Len(SealOrder(s)) : SealOrder(s)[i] = SealOrder(s)[j] => i = j
         /\ \A x \in 1..Len(s.items) : \E i \in 1..Len(SealOrder(s)) : SealOrder(s)[i] = x
<1> DEFINE n == Len(s.items)
           Of(type) == {i \in DOMAIN s.items : s.items[i].type = type}
           a == Ascending(Of("think"), n)
           b == Ascending(Of("text"), n)
           c == Ascending(Of("tool"), n)
           ab == a \o b
           abc == ab \o c
           Lists(q, S) == /\ q \in Seq(1..n)
                          /\ \A i, j \in 1..Len(q) : q[i] = q[j] => i = j
                          /\ \A i \in 1..Len(q) : q[i] \in S
                          /\ \A x \in S : \E i \in 1..Len(q) : q[i] = x
<1>0. n \in Nat /\ DOMAIN s.items = 1..n /\ \A i \in 1..n : s.items[i] \in SseItem
  BY DEF Sses
<1>1. SealOrder(s) = abc
  BY DEF SealOrder
<1>2. ASSUME NEW type PROVE Lists(Ascending(Of(type), n), Of(type))
  <2> DEFINE q == Ascending(Of(type), n)
  <2>1. /\ q \in Seq(1..n) /\ \A i, j \in 1..Len(q) : i < j => q[i] < q[j]
        /\ \A i \in 1..Len(q) : q[i] \in Of(type)
        /\ \A x \in 1..n : x \in Of(type) => \E i \in 1..Len(q) : q[i] = x
    <3> HIDE DEF Of, n
    <3> QED BY <1>0, AscendingLists
  <2> HIDE DEF q
  <2>2. \A i \in 1..Len(q) : q[i] \in Nat
    BY <2>1, <1>0
  <2>3. ASSUME NEW i \in 1..Len(q), NEW j \in 1..Len(q), q[i] = q[j] PROVE i = j
    <3>1. ~ (i < j) /\ ~ (j < i)
      BY <2>1, <2>2, <2>3
    <3>2. i \in Nat /\ j \in Nat
      BY <2>1
    <3> QED BY <3>1, <3>2
  <2>4. \A x \in Of(type) : \E i \in 1..Len(q) : q[i] = x
    BY <2>1, <1>0
  <2> QED BY <2>1, <2>3, <2>4 DEF q
<1>3. ASSUME NEW q, NEW S, Lists(q, S), NEW r, NEW R, Lists(r, R), S \cap R = {}
      PROVE  Lists(q \o r, S \union R)
  <2> DEFINE w == q \o r
  <2>1. /\ w \in Seq(1..n) /\ Len(w) = Len(q) + Len(r) /\ Len(q) \in Nat /\ Len(r) \in Nat
        /\ \A i \in 1..(Len(q) + Len(r)) : w[i] = IF i <= Len(q) THEN q[i] ELSE r[i - Len(q)]
    BY <1>3, ConcatProperties
  <2> HIDE DEF w
  <2>2. ASSUME NEW i \in 1..Len(w), ~ (i <= Len(q))
        PROVE  i - Len(q) \in 1..Len(r) /\ w[i] = r[i - Len(q)]
    <3>1. i \in 1..(Len(q) + Len(r))
      BY <2>1
    <3>2. w[i] = r[i - Len(q)]
      BY <3>1, <2>1, <2>2
    <3>3. i - Len(q) \in 1..Len(r)
      <4> DEFINE x == Len(q)
                 y == Len(r)
      <4>1. x \in Nat /\ y \in Nat /\ i \in 1..(x + y) /\ ~ (i <= x)
        BY <3>1, <2>1, <2>2
      <4> HIDE DEF x, y
      <4>2. i - x \in 1..y
        BY <4>1
      <4> QED BY <4>2 DEF x, y
    <3> QED BY <3>2, <3>3
  <2>3. ASSUME NEW i \in 1..Len(w), i <= Len(q) PROVE i \in 1..Len(q) /\ w[i] = q[i]
    BY <2>1, <2>3
  <2>4. ASSUME NEW i \in 1..Len(w), NEW j \in 1..Len(w), w[i] = w[j] PROVE i = j
    <3>1. CASE i <= Len(q) /\ j <= Len(q)
      <4>1. i \in 1..Len(q) /\ j \in 1..Len(q) /\ q[i] = q[j]
        BY <3>1, <2>3, <2>4
      <4> QED BY <4>1, <1>3
    <3>2. CASE ~ (i <= Len(q)) /\ ~ (j <= Len(q))
      <4>1. i - Len(q) \in 1..Len(r) /\ j - Len(q) \in 1..Len(r) /\ r[i - Len(q)] = r[j - Len(q)]
        BY <3>2, <2>2, <2>4
      <4>2. i - Len(q) = j - Len(q)
        BY <4>1, <1>3
      <4>3. i \in Int /\ j \in Int
        BY <2>1
      <4> QED BY <4>2, <4>3, <2>1
    <3>3. CASE i <= Len(q) /\ ~ (j <= Len(q))
      <4>1. w[i] \in S /\ w[j] \in R
        BY <3>3, <2>2, <2>3, <1>3
      <4> QED BY <4>1, <2>4, <1>3
    <3>4. CASE ~ (i <= Len(q)) /\ j <= Len(q)
      <4>1. w[i] \in R /\ w[j] \in S
        BY <3>4, <2>2, <2>3, <1>3
      <4> QED BY <4>1, <2>4, <1>3
    <3> QED BY <3>1, <3>2, <3>3, <3>4
  <2>5. ASSUME NEW i \in 1..Len(w) PROVE w[i] \in S \union R
    <3>1. CASE i <= Len(q)
      BY <3>1, <2>3, <1>3
    <3>2. CASE ~ (i <= Len(q))
      BY <3>2, <2>2, <1>3
    <3> QED BY <3>1, <3>2
  <2>6. ASSUME NEW x \in S \union R PROVE \E i \in 1..Len(w) : w[i] = x
    <3>1. CASE x \in S
      <4>1. PICK i \in 1..Len(q) : q[i] = x
        BY <3>1, <1>3
      <4>2. i \in 1..Len(w) /\ w[i] = x
        BY <4>1, <2>1
      <4> QED BY <4>2
    <3>2. CASE x \in R
      <4>1. PICK i \in 1..Len(r) : r[i] = x
        BY <3>2, <1>3
      <4> DEFINE j == Len(q) + i
      <4>2. j \in 1..Len(w) /\ ~ (j <= Len(q)) /\ j - Len(q) = i
        BY <2>1
      <4> HIDE DEF j
      <4>3. w[j] = x
        BY <4>1, <4>2, <2>2
      <4> QED BY <4>2, <4>3
    <3> QED BY <3>1, <3>2
  <2> QED BY <2>1, <2>4, <2>5, <2>6 DEF w
<1>4. Lists(a, Of("think")) /\ Lists(b, Of("text")) /\ Lists(c, Of("tool"))
  <2> HIDE DEF Lists, Of
  <2> QED BY <1>2
<1>5. Of("think") \cap Of("text") = {} /\ (Of("think") \union Of("text")) \cap Of("tool") = {}
  OBVIOUS
<1>6. Of("think") \union Of("text") \union Of("tool") = 1..n
  BY <1>0 DEF SseItem
<1> HIDE DEF Lists, Of, a, b, c
<1>7. Lists(ab, Of("think") \union Of("text"))
  BY <1>3, <1>4, <1>5
<1> HIDE DEF ab
<1>8. Lists(abc, Of("think") \union Of("text") \union Of("tool"))
  BY <1>3, <1>4, <1>5, <1>7
<1> HIDE DEF abc, n
<1>9. Lists(abc, 1..n)
  BY <1>6, <1>8
<1> QED BY <1>1, <1>9 DEF Lists, n

\* Events numbered from k on.
Numbered(events, k) == [i \in DOMAIN events |-> [events[i] EXCEPT !.seq = k + i]]

\* Numbering keeps the events and their order.
LEMMA NumberedEvents ==
  ASSUME NEW P \in Seq(Events), NEW k \in Nat
  PROVE  /\ Numbered(P, k) \in Seq(Events) /\ Len(Numbered(P, k)) = Len(P)
         /\ \A i \in 1..Len(P) : Numbered(P, k)[i] = [P[i] EXCEPT !.seq = k + i]
<1>1. DOMAIN P = 1..Len(P) /\ Len(P) \in Nat
  OBVIOUS
<1>2. ASSUME NEW i \in 1..Len(P) PROVE [P[i] EXCEPT !.seq = k + i] \in Events
  <2>1. P[i] \in Events /\ k + i \in Nat
    OBVIOUS
  <2> QED BY <2>1, NumberedType
<1> QED BY <1>1, <1>2 DEF Numbered

\* Two runs of events are numbered one after the other.
LEMMA NumberedConcat ==
  ASSUME NEW P \in Seq(Events), NEW Q \in Seq(Events), NEW k \in Nat
  PROVE  Numbered(P \o Q, k) = Numbered(P, k) \o Numbered(Q, k + Len(P))
<1> DEFINE m == Len(P)
           n == Len(Q)
           p == Numbered(P, k)
           q == Numbered(Q, k + m)
           PQ == P \o Q
           pq == Numbered(PQ, k)
<1>1. /\ m \in Nat /\ n \in Nat /\ PQ \in Seq(Events) /\ Len(PQ) = m + n
      /\ \A i \in 1..(m + n) : PQ[i] = IF i <= m THEN P[i] ELSE Q[i - m]
  BY ConcatProperties
<1> HIDE DEF PQ
<1>2. /\ pq \in Seq(Events) /\ Len(pq) = m + n
      /\ \A i \in 1..(m + n) : pq[i] = [PQ[i] EXCEPT !.seq = k + i]
  <2>1. /\ pq \in Seq(Events) /\ Len(pq) = Len(PQ)
        /\ \A i \in 1..Len(PQ) : pq[i] = [PQ[i] EXCEPT !.seq = k + i]
    BY <1>1, NumberedEvents
  <2> HIDE DEF pq
  <2> QED BY <2>1, <1>1
<1>3. /\ p \in Seq(Events) /\ Len(p) = m /\ \A i \in 1..m : p[i] = [P[i] EXCEPT !.seq = k + i]
  BY NumberedEvents
<1>4. /\ q \in Seq(Events) /\ Len(q) = n
      /\ \A i \in 1..n : q[i] = [Q[i] EXCEPT !.seq = (k + m) + i]
  <2>1. k + m \in Nat
    BY <1>1
  <2> QED BY <2>1, NumberedEvents
<1> HIDE DEF p, q, pq
<1>5. /\ p \o q \in Seq(Events) /\ Len(p \o q) = m + n
      /\ \A i \in 1..(m + n) : (p \o q)[i] = IF i <= m THEN p[i] ELSE q[i - m]
  <2> HIDE DEF m, n
  <2>0. \A x, y \in Seq(Events) :
          /\ x \o y \in Seq(Events) /\ Len(x \o y) = Len(x) + Len(y)
          /\ \A i \in 1..(Len(x) + Len(y)) : (x \o y)[i] = IF i <= Len(x) THEN x[i] ELSE y[i - Len(x)]
    BY ConcatProperties
  <2>1. /\ p \o q \in Seq(Events) /\ Len(p \o q) = Len(p) + Len(q)
        /\ \A i \in 1..(Len(p) + Len(q)) : (p \o q)[i] = IF i <= Len(p) THEN p[i] ELSE q[i - Len(p)]
    BY <1>3, <1>4, <2>0, Zenon
  <2> QED BY <2>1, <1>3, <1>4
<1>6. ASSUME NEW i \in 1..(m + n) PROVE pq[i] = (p \o q)[i]
  <2>1. CASE i <= m
    <3>1. i \in 1..m
      BY <2>1, <1>1
    <3> QED BY <3>1, <2>1, <1>1, <1>2, <1>3, <1>5
  <2>2. CASE ~ (i <= m)
    <3> DEFINE j == i - m
    <3>1. j \in 1..n /\ (k + m) + j = k + i
      <4> HIDE DEF m, n
      <4> QED BY <2>2, <1>1
    <3>2. (p \o q)[i] = q[j] /\ PQ[i] = Q[j]
      BY <2>2, <1>1, <1>5
    <3> HIDE DEF j
    <3>3. q[j] = [Q[j] EXCEPT !.seq = k + i]
      BY <3>1, <1>4
    <3> QED BY <3>2, <3>3, <1>2
  <2> QED BY <2>1, <2>2
<1>7. pq = p \o q
  <2> HIDE DEF m, n
  <2> QED BY <1>2, <1>5, <1>6, SeqEqual
<1> QED BY <1>7 DEF p, q, pq, PQ

\* The view of s with the items in C closed and k events numbered.
SealedView(s, C, k) ==
  [status |-> "open",
   items |-> [i \in DOMAIN s.items |-> [open |-> i \notin C, size |-> s.items[i].size]],
   number |-> k, half |-> <<>>]

\* It is a view, and it starts as that of s.
LEMMA SealedViewType ==
  ASSUME NEW s \in Sses, NEW C, NEW k \in Nat
  PROVE  /\ SealedView(s, C, k) \in Views /\ Live(SealedView(s, C, k))
         /\ SealedView(s, C, k).status = "open" /\ SealedView(s, C, k).number = k
         /\ SealedView(s, C, k).items \in Seq(OutputItem)
         /\ Len(SealedView(s, C, k).items) = Len(s.items)
         /\ \A i \in 1..Len(s.items) :
              SealedView(s, C, k).items[i] = [open |-> i \notin C, size |-> s.items[i].size]
<1>1. s.items \in Seq(SseItem) /\ DOMAIN s.items = 1..Len(s.items) /\ Len(s.items) \in Nat
  BY DEF Sses
<1>2. ASSUME NEW i \in 1..Len(s.items) PROVE [open |-> i \notin C, size |-> s.items[i].size] \in OutputItem
  <2>1. s.items[i] \in SseItem
    BY <1>1
  <2> QED BY <2>1 DEF SseItem, OutputItem
<1> DEFINE w == [i \in DOMAIN s.items |-> [open |-> i \notin C, size |-> s.items[i].size]]
<1>3. w \in Seq(OutputItem) /\ Len(w) = Len(s.items)
      /\ \A i \in 1..Len(s.items) : w[i] = [open |-> i \notin C, size |-> s.items[i].size]
  BY <1>1, <1>2
<1> HIDE DEF w
<1>4. SealedView(s, C, k) = [status |-> "open", items |-> w, number |-> k, half |-> <<>>]
  BY DEF SealedView, w
<1> QED BY <1>3, <1>4 DEF Views, Live, Told

\* The done events before the last leave the items as they are.
LEMMA MarksReach ==
  ASSUME NEW s \in Sses, NEW C, NEW k \in Nat, NEW i \in Nat, NEW z \in Nat, NEW m \in Nat,
         NEW M, M = [j \in 1..m |-> Event("mark", i, z)]
  PROVE  /\ M \in Seq(Events) /\ Len(M) = m
         /\ Reaches("responses", SealedView(s, C, k), Numbered(M, k), SealedView(s, C, k + m))
<1> DEFINE e == Event("mark", i, z)
           N == Numbered(M, k)
           t == [j \in 0..m |-> SealedView(s, C, k + j)]
<1>1. e \in Events /\ e.kind = "mark" /\ e.typed
  BY EventType DEF Kinds
<1> HIDE DEF e
<1>2. M \in Seq(Events) /\ Len(M) = m /\ \A j \in 1..m : M[j] = e
  BY <1>1 DEF e
<1>3. /\ N \in Seq(Events) /\ Len(N) = m
      /\ \A j \in 1..m : N[j] = [e EXCEPT !.seq = k + j]
  <2>1. /\ N \in Seq(Events) /\ Len(N) = Len(M)
        /\ \A j \in 1..Len(M) : N[j] = [M[j] EXCEPT !.seq = k + j]
    BY <1>2, NumberedEvents
  <2> HIDE DEF N
  <2> QED BY <2>1, <1>2
<1> HIDE DEF N
<1>4. t \in [0..m -> Views] /\ \A j \in 0..m : t[j] = SealedView(s, C, k + j)
  <2>1. ASSUME NEW j \in 0..m PROVE SealedView(s, C, k + j) \in Views
    <3>1. k + j \in Nat
      OBVIOUS
    <3> QED BY <3>1, SealedViewType
  <2> QED BY <2>1
<1> HIDE DEF t
<1>5. ASSUME NEW j \in 0..(m - 1)
      PROVE  Legal("responses", t[j], N[j + 1]) /\ t[j + 1] = Heard(t[j], N[j + 1])
  <2> DEFINE n == k + j
             v == SealedView(s, C, n)
             e1 == [e EXCEPT !.seq = n + 1]
  <2>1. n \in Nat /\ j \in 0..m /\ j + 1 \in 0..m /\ j + 1 \in 1..m /\ k + (j + 1) = n + 1
        /\ n + 1 \in Nat /\ n + 1 # 0
    OBVIOUS
  <2>2. t[j] = v /\ t[j + 1] = SealedView(s, C, n + 1) /\ N[j + 1] = e1
    BY <2>1, <1>3, <1>4
  <2> HIDE DEF n
  <2>3. e1 \in Events /\ e1.kind = "mark" /\ e1.seq = n + 1 /\ e1.typed
    BY <1>1, <2>1, NumberedType
  <2>4. v \in Views /\ Live(v) /\ v.status = "open" /\ v.number = n
    BY <2>1, SealedViewType
  <2>5. SealedView(s, C, n + 1) = [status |-> "open", items |-> v.items, number |-> n + 1, half |-> <<>>]
    BY DEF SealedView
  <2> HIDE DEF v, e1
  <2>6. Legal("responses", v, e1)
    BY <2>3, <2>4 DEF Legal, LegalLive
  <2>7. Heard(v, e1) = SealedView(s, C, n + 1)
    BY <2>1, <2>3, <2>4, <2>5 DEF Heard, Status, ItemsAfter
  <2> QED BY <2>2, <2>6, <2>7
<1>6. Hears("responses", t, N)
  BY <1>3, <1>5 DEF Hears
<1>7. t[0] = SealedView(s, C, k) /\ t[Len(N)] = SealedView(s, C, k + m)
  <2>1. 0 \in 0..m /\ m \in 0..m /\ k + 0 = k
    OBVIOUS
  <2> QED BY <2>1, <1>3, <1>4
<1> QED BY <1>2, <1>3, <1>4, <1>6, <1>7 DEF Reaches, N

\* Two items with the same fields are the same.
LEMMA ItemEqual ==
  ASSUME NEW x \in OutputItem, NEW y \in OutputItem, x.open = y.open, x.size = y.size
  PROVE  x = y
BY DEF OutputItem

\* Closing an item leaves its size.
LEMMA ItemClosed ==
  ASSUME NEW x \in OutputItem
  PROVE  /\ [x EXCEPT !.open = FALSE] \in OutputItem
         /\ [x EXCEPT !.open = FALSE].open = FALSE
         /\ [x EXCEPT !.open = FALSE].size = x.size
BY DEF OutputItem

\* The done events of an item close it.
LEMMA SealReaches ==
  ASSUME NEW s \in Sses, NEW C, NEW k \in Nat, NEW i \in 1..Len(s.items), i \notin C
  PROVE  /\ Seal(s, i) \in Seq(Events)
         /\ Reaches("responses", SealedView(s, C, k), Numbered(Seal(s, i), k),
                    SealedView(s, C \union {i}, k + Len(Seal(s, i))))
<1> DEFINE it == s.items[i]
           m == Marks(it.type)
           M == [j \in 1..m |-> Event("mark", i, it.size)]
           e == Event("close", i, it.size)
           S == Seal(s, i)
           v == SealedView(s, C, k + m)
           n == (k + m) + 1
           e1 == [e EXCEPT !.seq = n]
<1>0. s.items \in Seq(SseItem) /\ Len(s.items) \in Nat /\ i \in Nat /\ DOMAIN s.items = 1..Len(s.items)
  BY DEF Sses
<1>1. it \in SseItem /\ it.size \in Nat /\ it.type \in {"think", "text", "tool"}
  <2>1. it \in SseItem
    BY <1>0
  <2> HIDE DEF it
  <2> QED BY <2>1 DEF SseItem
<1>2. m \in Nat
  <2> HIDE DEF it
  <2> QED BY <1>1 DEF Marks
<1>3. S = Append(M, e)
  BY DEF Seal
<1>4. e \in Events /\ e.kind = "close" /\ e.item = i /\ e.size = it.size /\ e.typed
  <2> HIDE DEF it
  <2> QED BY <1>0, <1>1, EventType DEF Kinds
<1> HIDE DEF S
<1>5. M \in Seq(Events) /\ Len(M) = m /\ Reaches("responses", SealedView(s, C, k), Numbered(M, k), v)
  <2> HIDE DEF m, it
  <2> QED BY <1>0, <1>1, <1>2, MarksReach
<1> HIDE DEF M, e
<1>6. S = M \o <<e>> /\ S \in Seq(Events) /\ Len(S) = m + 1 /\ <<e>> \in Seq(Events)
  BY <1>3, <1>4, <1>5, AppendIsConcat, AppendProperties
<1>7. Numbered(S, k) = Numbered(M, k) \o <<e1>>
  <2>1. Numbered(S, k) = Numbered(M, k) \o Numbered(<<e>>, k + m)
    <3>1. Numbered(M \o <<e>>, k) = Numbered(M, k) \o Numbered(<<e>>, k + Len(M))
      BY <1>5, <1>6, NumberedConcat
    <3> HIDE DEF m
    <3> QED BY <3>1, <1>5, <1>6
  <2>2. Numbered(<<e>>, k + m) = <<e1>>
    BY DEF Numbered
  <2> QED BY <2>1, <2>2
<1>8. n \in Nat /\ k + Len(S) = n /\ n # 0 /\ k + m \in Nat
  <2> HIDE DEF m
  <2>1. Len(S) = m + 1
    BY <1>6
  <2> QED BY <2>1, <1>2
<1>9. e1 \in Events /\ e1.kind = "close" /\ e1.item = i /\ e1.size = it.size /\ e1.seq = n /\ e1.typed
  <2> HIDE DEF n, it
  <2> QED BY <1>4, <1>8, NumberedType
<1> DEFINE w == SealedView(s, C \union {i}, n)
<1>10. /\ v \in Views /\ Live(v) /\ v.status = "open" /\ v.number = k + m
       /\ v.items \in Seq(OutputItem) /\ Len(v.items) = Len(s.items)
       /\ \A j \in 1..Len(s.items) : v.items[j] = [open |-> j \notin C, size |-> s.items[j].size]
  <2> HIDE DEF m
  <2> QED BY <1>8, SealedViewType
<1>11. /\ w.items \in Seq(OutputItem) /\ Len(w.items) = Len(s.items)
       /\ \A j \in 1..Len(s.items) : w.items[j] = [open |-> j \notin C \union {i}, size |-> s.items[j].size]
  <2> HIDE DEF n
  <2> QED BY <1>8, SealedViewType
<1>12. v.items[i] = [open |-> TRUE, size |-> it.size] /\ i \in DOMAIN v.items
  <2>1. DOMAIN v.items = 1..Len(v.items)
    <3> HIDE DEF v
    <3> QED BY <1>10
  <2> HIDE DEF v
  <2> QED BY <2>1, <1>10
<1>13. ItemsAfter(v, e1) = w.items
  <2>1. ItemsAfter(v, e1) = [v.items EXCEPT ![i].open = FALSE]
    <3> HIDE DEF e1, v
    <3> QED BY <1>9 DEF ItemsAfter
  <2> DEFINE x == v.items
             y == w.items
             x1 == [x EXCEPT ![i] = [x[i] EXCEPT !.open = FALSE]]
  <2>2. [v.items EXCEPT ![i].open = FALSE] = x1
    OBVIOUS
  <2>3. /\ x \in Seq(OutputItem) /\ Len(x) = Len(s.items) /\ y \in Seq(OutputItem) /\ Len(y) = Len(s.items)
        /\ \A j \in 1..Len(s.items) : x[j] = [open |-> j \notin C, size |-> s.items[j].size]
        /\ \A j \in 1..Len(s.items) : y[j] = [open |-> j \notin C \union {i}, size |-> s.items[j].size]
    BY <1>10, <1>11
  <2> HIDE DEF v, w, x, y
  <2>4. [x[i] EXCEPT !.open = FALSE] = y[i] /\ y[i] \in OutputItem
    <3>1. x[i] = [open |-> TRUE, size |-> s.items[i].size] /\ y[i] = [open |-> FALSE, size |-> s.items[i].size]
      BY <2>3
    <3>2. y[i] \in OutputItem
      BY <2>3, <1>0
    <3>3. x[i] \in OutputItem
      BY <2>3, <1>0
    <3>4. [x[i] EXCEPT !.open = FALSE] \in OutputItem
          /\ [x[i] EXCEPT !.open = FALSE].open = FALSE
          /\ [x[i] EXCEPT !.open = FALSE].size = x[i].size
      BY <3>3, ItemClosed
    <3>5. y[i].open = FALSE /\ y[i].size = x[i].size
      BY <3>1
    <3> QED BY <3>2, <3>4, <3>5, ItemEqual
  <2> DEFINE u == [x[i] EXCEPT !.open = FALSE]
  <2>5. /\ x1 \in Seq(OutputItem) /\ Len(x1) = Len(s.items)
        /\ \A j \in 1..Len(s.items) : x1[j] = IF j = i THEN y[i] ELSE x[j]
    <3>1. x1 = [x EXCEPT ![i] = u]
      OBVIOUS
    <3>2. u = y[i] /\ u \in OutputItem /\ i \in 1..Len(x)
      BY <2>3, <2>4
    <3> HIDE DEF u, x1
    <3> QED BY <2>3, <3>1, <3>2, ExceptSeq
  <2> HIDE DEF x1
  <2>6. \A j \in 1..Len(s.items) : x1[j] = y[j]
    BY <2>3, <2>5
  <2>7. x1 = y
    BY <2>3, <2>5, <2>6, SeqEqual
  <2> QED BY <2>1, <2>2, <2>7 DEF y, x1
<1>14. Legal("responses", v, e1)
  <2> HIDE DEF v, e1, m
  <2> QED BY <1>9, <1>10, <1>12 DEF Legal, LegalLive
<1>15. Heard(v, e1) = w
  <2>1. w = [status |-> "open", items |-> w.items, number |-> n, half |-> <<>>]
    BY DEF SealedView
  <2> HIDE DEF v, e1, n, w
  <2> QED BY <2>1, <1>8, <1>9, <1>10, <1>13 DEF Heard, Status
<1>16. Numbered(M, k) \in Seq(Events) /\ SealedView(s, C, k) \in Views
  BY <1>5, NumberedEvents, SealedViewType
<1> HIDE DEF v, e1, w, n, m
<1>17. Reaches("responses", SealedView(s, C, k), Numbered(M, k) \o <<e1>>, Heard(v, e1))
  BY <1>5, <1>9, <1>10, <1>14, <1>16, ReachesAppend
<1> QED BY <1>6, <1>7, <1>8, <1>15, <1>17 DEF w, S

\* The items among the first m of a sequence of their numbers.
Firsts(q, m) == {q[j] : j \in 1..m}

\* The done events of every item, in the order of finish().
AllSeals(s) == FlattenSeq([n \in DOMAIN SealOrder(s) |-> Seal(s, SealOrder(s)[n])])

\* They close them all.
LEMMA AllSealsReach ==
  ASSUME NEW s \in Sses, NEW k \in Nat
  PROVE  /\ AllSeals(s) \in Seq(Events)
         /\ Reaches("responses", SealedView(s, {}, k), Numbered(AllSeals(s), k),
                    SealedView(s, 1..Len(s.items), k + Len(AllSeals(s))))
<1> DEFINE q == SealOrder(s)
           N == Len(q)
           n == Len(s.items)
           ss == [j \in DOMAIN q |-> Seal(s, q[j])]
           from == SealedView(s, {}, k)
<1>0. /\ q \in Seq(1..n) /\ N \in Nat /\ DOMAIN q = 1..N /\ \A i \in 1..N : q[i] \in 1..n
      /\ \A i, j \in 1..N : q[i] = q[j] => i = j
      /\ \A x \in 1..n : \E i \in 1..N : q[i] = x
  <2>1. /\ q \in Seq(1..n)
        /\ \A i, j \in 1..N : q[i] = q[j] => i = j
        /\ \A x \in 1..n : \E i \in 1..N : q[i] = x
    BY SealOrderLists
  <2> HIDE DEF q, n
  <2>2. N \in Nat /\ DOMAIN q = 1..N
    BY <2>1
  <2>3. \A i \in 1..N : q[i] \in 1..n
    <3> DEFINE R == 1..n
    <3>1. q \in Seq(R)
      BY <2>1
    <3> HIDE DEF R
    <3>2. \A i \in 1..Len(q) : q[i] \in R
      BY <3>1
    <3> QED BY <3>2 DEF R
  <2> QED BY <2>1, <2>2, <2>3, Zenon
<1>1. AllSeals(s) = FlattenSeq(ss)
  BY DEF AllSeals
<1> HIDE DEF q
<1>2. ASSUME NEW x \in 1..n PROVE Seal(s, x) \in Seq(Events)
  <2> DEFINE C == {}
             h == 0
  <2>1. x \notin C /\ h \in Nat
    OBVIOUS
  <2> HIDE DEF C, h
  <2> QED BY <2>1, SealReaches
<1>3. ss \in Seq(Seq(Events)) /\ Len(ss) = N /\ \A j \in 1..N : ss[j] = Seal(s, q[j])
  <2>1. \A j \in 1..N : Seal(s, q[j]) \in Seq(Events)
    BY <1>0, <1>2
  <2> QED BY <2>1, <1>0
<1> HIDE DEF ss
<1>4. PICK t \in [0..N -> Seq(Events)] : Concats(t, ss, N) /\ FlattenSeq(ss) = t[N]
  <2>1. \E t \in [0..Len(ss) -> Seq(Events)] : Concats(t, ss, Len(ss)) /\ FlattenSeq(ss) = t[Len(ss)]
    BY <1>3, FlattenTrace
  <2> QED BY <2>1, <1>3
<1> DEFINE G(j) == /\ t[j] \in Seq(Events)
                   /\ Reaches("responses", from, Numbered(t[j], k),
                              SealedView(s, Firsts(q, j), k + Len(t[j])))
           T == {j \in Nat : G(j)}
<1>f. from \in Views
  BY SealedViewType
<1> HIDE DEF from
<1>5. 0 \in T
  <2>1. t[0] = <<>>
    BY <1>4 DEF Concats
  <2>2. Numbered(<<>>, k) = <<>> /\ Len(<<>>) = 0 /\ <<>> \in Seq(Events) /\ k + 0 = k
    BY DEF Numbered
  <2>3. Firsts(q, 0) = {}
    BY DEF Firsts
  <2>4. SealedView(s, Firsts(q, 0), k + Len(t[0])) = from
    BY <2>1, <2>2, <2>3 DEF from
  <2>5. Reaches("responses", from, <<>>, from)
    BY <1>f, ReachesEmpty
  <2> QED BY <2>1, <2>2, <2>4, <2>5
<1>6. ASSUME NEW j \in 0..(N - 1), j \in T PROVE j + 1 \in T
  <2> DEFINE m == j + 1
             u == t[j]
             w == t[m]
             x == q[m]
             S == Seal(s, x)
             h == k + Len(u)
             C == Firsts(q, j)
  <2>1. j \in Nat /\ m \in 1..N /\ m \in Nat /\ j \in 0..N
    BY <1>0
  <2>2. u \in Seq(Events) /\ Reaches("responses", from, Numbered(u, k), SealedView(s, C, h))
    BY <1>6
  <2>3. w = u \o S
    <3>1. w = u \o ss[m]
      BY <1>4 DEF Concats
    <3> HIDE DEF m, u, w
    <3> QED BY <3>1, <2>1, <1>3
  <2>4. x \in 1..n /\ x \notin C /\ Firsts(q, m) = C \union {x}
    <3>1. x \in 1..n
      <4> HIDE DEF m
      <4> QED BY <2>1, <1>0
    <3>2. ASSUME x \in C PROVE FALSE
      <4>1. PICK i \in 1..j : q[i] = x
        BY <3>2 DEF Firsts
      <4>2. i \in 1..N /\ i # m /\ m \in 1..N
        BY <2>1, <1>0
      <4> HIDE DEF m
      <4> QED BY <4>1, <4>2, <1>0
    <3>3. 1..m = (1..j) \union {m}
      BY <2>1
    <3>4. Firsts(q, m) = C \union {x}
      <4> HIDE DEF m
      <4> QED BY <3>3 DEF Firsts
    <3> QED BY <3>1, <3>2, <3>4
  <2> HIDE DEF m, u, w, x, C
  <2>5. h \in Nat
    BY <2>2
  <2>6. S \in Seq(Events) /\ Reaches("responses", SealedView(s, C, h), Numbered(S, h),
                                     SealedView(s, C \union {x}, h + Len(S)))
    <3> HIDE DEF h
    <3> QED BY <2>4, <2>5, SealReaches
  <2> HIDE DEF S
  <2>7. w \in Seq(Events) /\ Len(w) = Len(u) + Len(S) /\ h + Len(S) = k + Len(w)
    <3>1. w \in Seq(Events) /\ Len(w) = Len(u) + Len(S)
      BY <2>2, <2>3, <2>6, ConcatProperties
    <3>2. Len(u) \in Nat /\ Len(S) \in Nat
      BY <2>2, <2>6
    <3> QED BY <3>1, <3>2
  <2>8. Numbered(w, k) = Numbered(u, k) \o Numbered(S, h)
    BY <2>2, <2>3, <2>6, NumberedConcat
  <2> HIDE DEF h
  <2>9. /\ Numbered(u, k) \in Seq(Events) /\ Numbered(S, h) \in Seq(Events)
        /\ SealedView(s, C, h) \in Views
    BY <2>2, <2>5, <2>6, NumberedEvents, SealedViewType
  <2>10. Reaches("responses", from, Numbered(w, k), SealedView(s, C \union {x}, h + Len(S)))
    BY <1>f, <2>2, <2>6, <2>8, <2>9, ReachesConcat
  <2>11. w \in Seq(Events) /\ Reaches("responses", from, Numbered(w, k),
                                      SealedView(s, Firsts(q, m), k + Len(w)))
    BY <2>4, <2>7, <2>10
  <2>12. G(m)
    BY <2>11 DEF w
  <2> HIDE DEF G
  <2> QED BY <2>1, <2>12 DEF m
<1> HIDE DEF T
<1>7. \A j \in 0..N : j \in T
  <2> HIDE DEF N
  <2> QED BY <1>0, <1>5, <1>6, StepByStep
<1>8. G(N)
  <2>1. N \in 0..N
    BY <1>0
  <2> QED BY <2>1, <1>7 DEF T
<1>9. Firsts(q, N) = 1..n
  BY <1>0 DEF Firsts
<1>10. AllSeals(s) = t[N]
  BY <1>1, <1>4
<1> QED BY <1>8, <1>9, <1>10 DEF from

\* What finish() emits ends the answer with every item as s has it.
LEMMA FinishEmits ==
  ASSUME NEW c \in Views, NEW s \in Sses, Emitted(c, s)
  PROVE  /\ FinishSse(s) \in Sses /\ FinishSse(s).items = s.items /\ FinishSse(s).finish = s.finish
         /\ \E d \in Views : /\ Reaches("responses", c, FinishSse(s).out, d)
                             /\ d.status = Outcome(s.finish) /\ Sizes(d.items) = Output(s)
<1> DEFINE u == Created(s)
           S == AllSeals(s)
           k == s.number
           h == k + Len(S)
           o == u.out \o Numbered(S, k)
           p == PushAll(u, S)
           e == Event(Outcome(s.finish), 0, 0)
           r == Push(p, e)
           n == Len(s.items)
           v == SealedView(s, 1..n, h)
           e1 == [e EXCEPT !.seq = h + 1]
           d == Heard(v, e1)
<1>0. s.items \in Seq(SseItem) /\ n \in Nat /\ k \in Nat /\ DOMAIN s.items = 1..n
  BY DEF Sses
<1>1. FinishSse(s) = r
  BY DEF FinishSse, AllSeals
<1>2. /\ u \in Sses /\ u.created /\ Emitted(c, u) /\ u.items = s.items /\ u.finish = s.finish
      /\ u.number = k /\ u.out \in Seq(Events)
  <2>1. u \in Sses /\ u.created /\ Emitted(c, u) /\ u.items = s.items /\ u.finish = s.finish /\ u.number = k
    BY CreatedEmits
  <2> HIDE DEF u
  <2> QED BY <2>1 DEF Sses
<1> HIDE DEF u
<1>3. S \in Seq(Events) /\ Reaches("responses", SealedView(s, {}, k), Numbered(S, k), v)
  <2> HIDE DEF k
  <2> QED BY <1>0, AllSealsReach
<1> HIDE DEF S
<1>4. h \in Nat /\ h + 1 \in Nat /\ h + 1 # 0
  BY <1>0, <1>3
<1>5. Numbered(S, k) \in Seq(Events) /\ Numbered(S, u.number) = [i \in DOMAIN S |-> [S[i] EXCEPT !.seq = u.number + i]]
  <2>1. Numbered(S, k) \in Seq(Events)
    BY <1>0, <1>3, NumberedEvents
  <2> QED BY <2>1 DEF Numbered
<1>6. o \in Seq(Events)
  BY <1>2, <1>5, ConcatProperties
<1>7. p = [u EXCEPT !.number = h, !.out = o]
  <2>1. p = [u EXCEPT !.number = u.number + Len(S), !.out = u.out \o Numbered(S, u.number)]
    BY DEF PushAll, Numbered
  <2> QED BY <2>1, <1>2
<1> HIDE DEF h, o, p
<1>8. p \in Sses /\ p.items = s.items /\ p.finish = s.finish /\ p.number = h /\ p.out = o
  BY <1>2, <1>4, <1>6, <1>7 DEF Sses
<1>9. e \in Events /\ e.kind \in {"completed", "incomplete"} /\ e.kind = Outcome(s.finish) /\ e.typed
  BY EventType DEF Kinds, Outcome
<1> HIDE DEF e
<1>10. r \in Sses /\ r.items = s.items /\ r.finish = s.finish /\ r.out = Append(o, e1)
  BY <1>8, <1>9, PushFields
<1> HIDE DEF r
<1>11. e1 \in Events /\ e1.kind = e.kind /\ e1.seq = h + 1 /\ e1.typed
  <2> DEFINE m == h + 1
  <2>1. m \in Nat
    BY <1>4
  <2> HIDE DEF m
  <2>2. [e EXCEPT !.seq = m] \in Events /\ [e EXCEPT !.seq = m].kind = e.kind
        /\ [e EXCEPT !.seq = m].seq = m /\ [e EXCEPT !.seq = m].typed
    BY <2>1, <1>9, NumberedType
  <2> QED BY <2>2 DEF m
<1>12. /\ v \in Views /\ Live(v) /\ v.status = "open" /\ v.number = h
       /\ v.items \in Seq(OutputItem) /\ Len(v.items) = n
       /\ \A i \in 1..n : v.items[i] = [open |-> i \notin 1..n, size |-> s.items[i].size]
  <2> DEFINE C == 1..n
  <2> HIDE DEF C
  <2>1. /\ SealedView(s, C, h) \in Views /\ Live(SealedView(s, C, h))
        /\ SealedView(s, C, h).status = "open" /\ SealedView(s, C, h).number = h
        /\ SealedView(s, C, h).items \in Seq(OutputItem)
        /\ Len(SealedView(s, C, h).items) = n
        /\ \A i \in 1..n :
             SealedView(s, C, h).items[i] = [open |-> i \notin C, size |-> s.items[i].size]
    BY <1>4, SealedViewType
  <2> QED BY <2>1 DEF C
<1>13. SealedView(s, {}, k) = SseView(u)
  <2>1. [i \in DOMAIN s.items |-> [open |-> i \notin {}, size |-> s.items[i].size]]
          = [i \in DOMAIN u.items |-> [open |-> TRUE, size |-> u.items[i].size]]
    BY <1>2
  <2> QED BY <2>1, <1>2 DEF SealedView, SseView
<1>14. Reaches("responses", c, o, v)
  <2>1. Reaches("responses", c, u.out, SseView(u)) /\ SseView(u) \in Views
    BY <1>2, SseViewType DEF Emitted
  <2>2. Reaches("responses", SseView(u), Numbered(S, k), v)
    BY <1>3, <1>13
  <2> HIDE DEF v, k
  <2> QED BY <2>1, <2>2, <1>2, <1>5, ReachesConcat DEF o
<1>15. \A i \in 1..n : v.items[i].open = FALSE /\ v.items[i].size = s.items[i].size
  <2> SUFFICES ASSUME NEW i \in 1..n PROVE v.items[i].open = FALSE /\ v.items[i].size = s.items[i].size
    OBVIOUS
  <2>1. v.items[i] = [open |-> i \notin 1..n, size |-> s.items[i].size]
    <3> HIDE DEF v, n
    <3> QED BY <1>12
  <2>2. (i \notin 1..n) = FALSE
    OBVIOUS
  <2> HIDE DEF v, n
  <2>3. v.items[i] = [open |-> FALSE, size |-> s.items[i].size]
    BY <2>1, <2>2
  <2> QED BY <2>3
<1>16. DOMAIN v.items = 1..n
  <2> HIDE DEF v, n
  <2> QED BY <1>12, <1>0
<1> HIDE DEF v, e1
<1>17. Legal("responses", v, e1)
  BY <1>4, <1>9, <1>11, <1>12, <1>15, <1>16 DEF Legal, LegalLive
<1>18. d.status = Outcome(s.finish) /\ d.items = v.items
  BY <1>9, <1>11, <1>12 DEF Heard, Status, ItemsAfter
<1>19. d \in Views
  BY <1>11, <1>12, <1>17, HeardType
<1>20. Append(o, e1) = o \o <<e1>>
  BY <1>6, <1>11, AppendIsConcat
<1>21. Reaches("responses", c, o \o <<e1>>, d)
  BY <1>6, <1>11, <1>12, <1>14, <1>17, ReachesAppend
<1>22. Sizes(d.items) = Output(s)
  <2>1. [i \in 1..n |-> v.items[i].size] = [i \in 1..n |-> s.items[i].size]
    BY <1>15
  <2> QED BY <2>1, <1>0, <1>16, <1>18 DEF Sizes, Output
<1> QED BY <1>1, <1>10, <1>18, <1>19, <1>20, <1>21, <1>22

-------------------------------------------------------------------------------
(* The client *)

Clients == [status : Told \union {"cut"}, items : Seq(OutputItem), number : Nat, half : Halves(Events)]

\* Two views with the same fields are the same.
LEMMA ViewEqual ==
  ASSUME NEW x \in Views, NEW y \in Views,
         x.status = y.status, x.items = y.items, x.number = y.number
  PROVE  x = y
BY DEF Views

\* What a client is, without the half line it holds.
LEMMA ViewFields ==
  ASSUME NEW c \in Clients, c.status # "cut"
  PROVE  /\ View(c) \in Views /\ View(c).status = c.status /\ View(c).items = c.items
         /\ View(c).number = c.number
BY DEF View, Views, Clients

\* A view is a client with no half line.
LEMMA ViewOfView ==
  ASSUME NEW v \in Views
  PROVE  v \in Clients /\ v.status # "cut" /\ View(v) = v
<1>1. v \in Clients /\ v.status # "cut"
  BY DEF Views, Clients, Halves, Told
<1>2. View(v) \in Views /\ View(v).status = v.status /\ View(v).items = v.items /\ View(v).number = v.number
  BY <1>1, ViewFields
<1> QED BY <1>1, <1>2, ViewEqual

\* A client understands every legal event, and Heard tells what it makes of it.
LEMMA HearHeard ==
  ASSUME NEW c \in Clients, NEW e \in Events, Live(c), Legal(api, View(c), e)
  PROVE  /\ Hear(c, e) \in Clients /\ Hear(c, e).status \in Told /\ Hear(c, e).half = c.half
         /\ Hear(c, e).status = Status(c, e) /\ Hear(c, e).items = ItemsAfter(c, e)
         /\ View(Hear(c, e)) = Heard(View(c), e)
<1> DEFINE v == View(c)
           numbered == IF e.seq = 0 THEN c.number ELSE e.seq
           items == CASE e.kind = "open" -> Append(c.items, [open |-> TRUE, size |-> 0])
                      [] e.kind = "grow" -> [c.items EXCEPT ![e.item].size = @ + e.size]
                      [] e.kind = "close" -> [c.items EXCEPT ![e.item].open = FALSE]
                      [] OTHER -> c.items
           h == [c EXCEPT !.status = Status(c, e), !.items = items, !.number = numbered]
<1>1. /\ v \in Views /\ v.status = c.status /\ v.items = c.items /\ v.number = c.number /\ Live(v)
  BY ViewFields DEF Live
<1> HIDE DEF v
<1>2. Understands(c, e)
  BY <1>1 DEF Legal, LegalLive, Understands, v
<1>3. Hear(c, e) = h
  BY <1>2 DEF Hear
<1>4. items = ItemsAfter(c, e) /\ ItemsAfter(v, e) = ItemsAfter(c, e)
  BY <1>1 DEF ItemsAfter
<1> HIDE DEF items
<1>5. Status(v, e) = Status(c, e) /\ Status(c, e) \in Told
  BY <1>1 DEF Status, Told, Live, Events, Kinds
<1>6. numbered \in Nat /\ numbered = IF e.seq = 0 THEN v.number ELSE e.seq
  BY <1>1 DEF Clients, Events
<1> HIDE DEF numbered
<1>7. items \in Seq(OutputItem)
  BY <1>1, <1>4, ItemsAfterType DEF Legal, v
<1>8. /\ h \in Clients /\ h.half = c.half /\ h.status = Status(c, e) /\ h.items = items
      /\ h.number = numbered
  BY <1>5, <1>6, <1>7 DEF Clients
<1> HIDE DEF h
<1>9. h.status # "cut"
  BY <1>5, <1>8 DEF Told
<1>10. View(h) \in Views /\ View(h).status = h.status /\ View(h).items = h.items /\ View(h).number = h.number
  BY <1>8, <1>9, ViewFields
<1>11. Heard(v, e) \in Views
  BY <1>1, HeardType DEF v
<1>12. Heard(v, e).status = Status(v, e) /\ Heard(v, e).items = ItemsAfter(v, e) /\ Heard(v, e).number = numbered
  BY <1>1, <1>6 DEF Heard
<1>13. View(h) = Heard(v, e)
  BY <1>4, <1>5, <1>8, <1>10, <1>11, <1>12, ViewEqual
<1> QED BY <1>3, <1>4, <1>5, <1>8, <1>13 DEF v

\* What an upstream may say keeps the protocol.
LEMMA SaidLegal ==
  ASSUME NEW line \in ResponsesLines, told \in Views, api \in {"responses", "messages"}
  PROVE  /\ line \in Events /\ Legal(api, told, line) /\ Hear(told, line) \in Views
         /\ Hear(told, line) = Heard(told, line)
<1> DEFINE open == {i \in DOMAIN told.items : told.items[i].open}
           v == told
<1>0. /\ v.items \in Seq(OutputItem) /\ DOMAIN v.items = 1..Len(v.items) /\ Len(v.items) \in Nat
  BY DEF Views
<1>1. Live(told)
  BY DEF ResponsesLines, Live
<1>2. /\ line \in Events /\ line.seq = 0 /\ line.typed /\ LegalLive(api, told, line)
  <2>1. CASE told.status = "waiting"
    <3>1. line \in {Event("start", 0, 0), Event("error", 0, 0)}
      BY <2>1 DEF ResponsesLines
    <3>2. line \in Events /\ line.seq = 0 /\ line.typed /\ line.kind \in {"start", "error"}
      BY <3>1, EventType DEF Kinds
    <3> QED BY <2>1, <3>2 DEF LegalLive
  <2>2. CASE told.status = "open"
    <3>1. \/ line \in {Event("quiet", 0, 0), Event("aborted", 0, 0), Event("failed", 0, 0)}
          \/ line = Event("open", Len(told.items) + 1, 0)
          \/ \E i \in open : line = Event("grow", i, 1)
          \/ \E i \in open : line = Event("close", i, told.items[i].size)
          \/ open = {} /\ line \in {Event("completed", 0, 0), Event("incomplete", 0, 0)}
      BY <2>2 DEF ResponsesLines
    <3>2. CASE line \in {Event("quiet", 0, 0), Event("aborted", 0, 0), Event("failed", 0, 0)}
      <4>1. line \in Events /\ line.seq = 0 /\ line.typed /\ line.kind \in {"quiet", "aborted", "failed"}
        BY <3>2, EventType DEF Kinds
      <4> QED BY <2>2, <4>1 DEF LegalLive
    <3>3. CASE line = Event("open", Len(told.items) + 1, 0)
      <4>1. line \in Events /\ line.seq = 0 /\ line.typed /\ line.kind = "open" /\ line.item = Len(told.items) + 1
        <5> DEFINE n == Len(told.items) + 1
        <5>1. n \in Nat
          BY <1>0
        <5> HIDE DEF n
        <5>2. Event("open", n, 0) \in Events /\ Event("open", n, 0).seq = 0 /\ Event("open", n, 0).typed
              /\ Event("open", n, 0).kind = "open" /\ Event("open", n, 0).item = n
          BY <5>1, EventType DEF Kinds
        <5> QED BY <3>3, <5>2 DEF n
      <4> QED BY <2>2, <4>1 DEF LegalLive
    <3>4. CASE \E i \in open : line = Event("grow", i, 1)
      <4>1. PICK i \in open : line = Event("grow", i, 1)
        BY <3>4
      <4>2. i \in Nat /\ i \in DOMAIN told.items /\ told.items[i].open
        BY <1>0
      <4>3. line \in Events /\ line.seq = 0 /\ line.typed /\ line.kind = "grow" /\ line.item = i /\ line.size = 1
        BY <4>1, <4>2, EventType DEF Kinds
      <4> QED BY <2>2, <4>2, <4>3 DEF LegalLive
    <3>5. CASE \E i \in open : line = Event("close", i, told.items[i].size)
      <4>1. PICK i \in open : line = Event("close", i, told.items[i].size)
        BY <3>5
      <4> DEFINE z == told.items[i].size
      <4>2. i \in Nat /\ i \in DOMAIN told.items /\ told.items[i].open
        BY <1>0
      <4>3. z \in Nat
        <5>1. told.items[i] \in OutputItem
          BY <1>0
        <5> QED BY <5>1 DEF OutputItem
      <4> HIDE DEF z
      <4>4. line = Event("close", i, z)
        BY <4>1 DEF z
      <4>5. line \in Events /\ line.seq = 0 /\ line.typed /\ line.kind = "close" /\ line.item = i /\ line.size = z
        BY <4>2, <4>3, <4>4, EventType DEF Kinds
      <4> QED BY <2>2, <4>2, <4>5 DEF LegalLive, z
    <3>6. CASE open = {} /\ line \in {Event("completed", 0, 0), Event("incomplete", 0, 0)}
      <4>1. line \in Events /\ line.seq = 0 /\ line.typed /\ line.kind \in {"completed", "incomplete"}
        BY <3>6, EventType DEF Kinds
      <4> QED BY <2>2, <3>6, <4>1 DEF LegalLive
    <3> QED BY <3>1, <3>2, <3>3, <3>4, <3>5, <3>6
  <2> QED BY <1>1, <2>1, <2>2 DEF Live
<1>3. Legal(api, told, line)
  BY <1>1, <1>2 DEF Legal
<1>4. told \in Clients /\ View(told) = told
  BY ViewOfView
<1>5. /\ Hear(told, line) \in Clients /\ Hear(told, line).status \in Told
      /\ Hear(told, line).half = told.half /\ View(Hear(told, line)) = Heard(told, line)
  BY <1>1, <1>2, <1>3, <1>4, HearHeard
<1>6. Hear(told, line) \in Views
  BY <1>5 DEF Clients, Views
<1> QED BY <1>2, <1>3, <1>5, <1>6, ViewOfView

-------------------------------------------------------------------------------
(* What is yielded, and heads and tails *)

\* A piece with its fields.
LEMMA PieceType ==
  ASSUME NEW L, NEW l \in L, NEW part \in {"whole", "head", "tail"}
  PROVE  /\ [line |-> l, part |-> part] \in Pieces(L)
         /\ [line |-> l, part |-> part].line = l /\ [line |-> l, part |-> part].part = part
BY DEF Pieces

\* The generator yields whole lines.
LEMMA YieldPieces ==
  ASSUME NEW L, NEW q \in Seq(L)
  PROVE  /\ Yield(q) \in Seq(Pieces(L)) /\ Len(Yield(q)) = Len(q)
         /\ \A i \in 1..Len(q) : Yield(q)[i] = Whole(q[i])
         /\ Ended(Yield(q)) = q
<1>1. DOMAIN q = 1..Len(q) /\ Len(q) \in Nat /\ \A i \in 1..Len(q) : q[i] \in L
  OBVIOUS
<1>2. \A l \in L : Whole(l) \in Pieces(L) /\ LineEnded(Whole(l)) = <<l>>
  BY DEF Whole, Pieces, LineEnded
<1>3. /\ Yield(q) \in Seq(Pieces(L)) /\ Len(Yield(q)) = Len(q) /\ DOMAIN Yield(q) = 1..Len(q)
      /\ \A i \in 1..Len(q) : Yield(q)[i] = Whole(q[i])
  <2>1. \A i \in 1..Len(q) : Whole(q[i]) \in Pieces(L)
    BY <1>1, <1>2
  <2> QED BY <1>1, <2>1 DEF Yield
<1>4. [i \in DOMAIN Yield(q) |-> LineEnded(Yield(q)[i])] = [i \in DOMAIN q |-> <<q[i]>>]
  <2>1. \A i \in 1..Len(q) : LineEnded(Yield(q)[i]) = <<q[i]>>
    BY <1>1, <1>2, <1>3
  <2> QED BY <1>1, <1>3, <2>1
<1>5. Ended(Yield(q)) = q
  BY <1>4, FlattenSingles DEF Ended
<1> QED BY <1>3, <1>5

\* What ends with the pieces of P, and the pieces of Q, of which the first is
\* no tail.
LEMMA JoinedConcat ==
  ASSUME NEW L, NEW P \in Seq(Pieces(L)), NEW Q \in Seq(Pieces(L)), Joined(P), Joined(Q)
  PROVE  Joined(P \o Q)
<1> DEFINE m == Len(P)
           n == Len(Q)
           w == P \o Q
<1>1. /\ m \in Nat /\ n \in Nat /\ w \in Seq(Pieces(L)) /\ Len(w) = m + n
      /\ \A i \in 1..(m + n) : w[i] = IF i <= m THEN P[i] ELSE Q[i - m]
  BY ConcatProperties
<1> HIDE DEF w
<1>2. ASSUME NEW i \in 1..(m + n), w[i].part = "tail"
      PROVE  i > 1 /\ w[i - 1] = [w[i] EXCEPT !.part = "head"]
  <2>1. CASE i <= m
    <3>1. i \in 1..m /\ w[i] = P[i]
      BY <2>1, <1>1
    <3>2. i > 1 /\ P[i - 1] = [P[i] EXCEPT !.part = "head"]
      BY <3>1, <1>2 DEF Joined
    <3>3. i - 1 \in 1..(m + n) /\ i - 1 <= m
      BY <3>1, <3>2, <1>1
    <3> QED BY <3>1, <3>2, <3>3, <1>1
  <2>2. CASE ~ (i <= m)
    <3> DEFINE j == i - m
    <3>1. j \in 1..n /\ w[i] = Q[j]
      <4>1. j \in 1..n
        <5> HIDE DEF m, n
        <5> QED BY <2>2, <1>1
      <4> QED BY <4>1, <2>2, <1>1
    <3>2. j > 1 /\ Q[j - 1] = [Q[j] EXCEPT !.part = "head"]
      <4> HIDE DEF j
      <4> QED BY <3>1, <1>2 DEF Joined
    <3>3. i - 1 \in 1..(m + n) /\ ~ (i - 1 <= m) /\ (i - 1) - m = j - 1
      <4> HIDE DEF m, n
      <4> QED BY <3>2, <1>1
    <3>4. w[i - 1] = Q[j - 1]
      <4> HIDE DEF j
      <4> QED BY <3>3, <1>1
    <3>5. i > 1
      BY <3>2, <1>1
    <3> HIDE DEF j
    <3> QED BY <3>1, <3>2, <3>4, <3>5
  <2> QED BY <2>1, <2>2
<1>3. DOMAIN w = 1..(m + n)
  BY <1>1
<1> QED BY <1>2, <1>3 DEF Joined, w

\* A prefix of such a sequence is one.
LEMMA JoinedPrefix ==
  ASSUME NEW L, NEW P \in Seq(Pieces(L)), NEW Q \in Seq(Pieces(L)), Joined(P \o Q)
  PROVE  Joined(P)
<1> DEFINE w == P \o Q
<1>1. /\ Len(P) \in Nat /\ Len(Q) \in Nat /\ Len(w) = Len(P) + Len(Q) /\ w \in Seq(Pieces(L))
      /\ \A i \in 1..Len(P) : w[i] = P[i]
  BY ConcatProperties
<1> HIDE DEF w
<1>2. ASSUME NEW i \in 1..Len(P), P[i].part = "tail"
      PROVE  i > 1 /\ P[i - 1] = [P[i] EXCEPT !.part = "head"]
  <2>1. i \in DOMAIN w /\ w[i] = P[i]
    BY <1>1
  <2>2. i > 1 /\ w[i - 1] = [w[i] EXCEPT !.part = "head"]
    BY <2>1, <1>2 DEF Joined, w
  <2>3. i - 1 \in 1..Len(P)
    BY <2>2, <1>1
  <2> QED BY <2>1, <2>2, <2>3, <1>1
<1> QED BY <1>2 DEF Joined

\* What is left when the pieces of P have been read is their half line.
LEMMA JoinedHalf ==
  ASSUME NEW L, NEW P \in Seq(Pieces(L)), P # <<>>, NEW Q \in Seq(Pieces(L)),
         NEW half \in Halves(L), Joined(half \o (P \o Q))
  PROVE  Half(P) \in Halves(L) /\ Joined(Half(P) \o Q)
<1> DEFINE l == Last(P)
           w == half \o (P \o Q)
<1>1. Len(P) \in Nat /\ Len(P) # 0 /\ l = P[Len(P)] /\ l \in Pieces(L)
  BY DEF Last
<1>2. half \in Seq(Pieces(L)) /\ Len(half) \in Nat
  <2>1. CASE half = <<>>
    BY <2>1
  <2>2. CASE half # <<>>
    <3>1. PICK p \in Pieces(L) : half = <<p>>
      BY <2>2 DEF Halves
    <3> QED BY <3>1
  <2> QED BY <2>1, <2>2
<1>3. Half(P) = IF l.part = "head" THEN <<l>> ELSE <<>>
  BY DEF Half
<1>4. Half(P) \in Halves(L) /\ Half(P) \in Seq(Pieces(L))
  <2> HIDE DEF l
  <2> QED BY <1>1, <1>3 DEF Halves
<1> DEFINE k == Len(half) + Len(P)
<1>5. /\ w \in Seq(Pieces(L)) /\ Len(w) = k + Len(Q) /\ k \in Nat /\ Len(Q) \in Nat /\ k > 0
      /\ \A i \in 1..Len(Q) : w[k + i] = Q[i]
      /\ w[k] = l
  <2> DEFINE r == P \o Q
             h == Len(half)
             m == Len(P)
             n == Len(Q)
  <2>0. h \in Nat /\ m \in Nat /\ n \in Nat /\ m > 0
    BY <1>1, <1>2
  <2>1. /\ r \in Seq(Pieces(L)) /\ Len(r) = m + n
        /\ \A i \in 1..(m + n) : r[i] = IF i <= m THEN P[i] ELSE Q[i - m]
    BY ConcatProperties
  <2> HIDE DEF r
  <2>2. /\ half \o r \in Seq(Pieces(L)) /\ Len(half \o r) = h + Len(r)
        /\ \A i \in 1..(h + Len(r)) : (half \o r)[i] = IF i <= h THEN half[i] ELSE r[i - h]
    <3>1. \A x, y \in Seq(Pieces(L)) :
            /\ x \o y \in Seq(Pieces(L)) /\ Len(x \o y) = Len(x) + Len(y)
            /\ \A i \in 1..(Len(x) + Len(y)) : (x \o y)[i] = IF i <= Len(x) THEN x[i] ELSE y[i - Len(x)]
      BY ConcatProperties
    <3> QED BY <3>1, <1>2, <2>1, Zenon
  <2> DEFINE x == half \o r
  <2>3. /\ x \in Seq(Pieces(L)) /\ Len(x) = h + (m + n)
        /\ \A i \in 1..(h + (m + n)) : x[i] = IF i <= h THEN half[i] ELSE r[i - h]
    BY <2>1, <2>2
  <2> HIDE DEF x, h, m, n
  <2>4. ASSUME NEW i \in 1..n PROVE x[(h + m) + i] = Q[i]
    <3>1. (h + m) + i \in 1..(h + (m + n)) /\ ~ ((h + m) + i <= h) /\ ((h + m) + i) - h = m + i
          /\ m + i \in 1..(m + n) /\ ~ (m + i <= m) /\ (m + i) - m = i
      BY <2>0
    <3> DEFINE a == (h + m) + i
               b == m + i
    <3> HIDE DEF a, b
    <3>2. x[a] = r[b]
      BY <3>1, <2>3 DEF a, b
    <3>3. r[b] = Q[i]
      BY <3>1, <2>1 DEF b
    <3> QED BY <3>2, <3>3 DEF a
  <2>5. x[h + m] = P[m]
    <3>1. h + m \in 1..(h + (m + n)) /\ ~ (h + m <= h) /\ (h + m) - h = m /\ m \in 1..(m + n)
      BY <2>0
    <3> QED BY <3>1, <2>1, <2>3
  <2>6. (h + (m + n)) = (h + m) + n /\ h + m \in Nat /\ h + m > 0
    BY <2>0
  <2> QED BY <2>0, <2>3, <2>4, <2>5, <2>6, <1>1 DEF x, r, h, m, n
<1>6. ASSUME NEW i \in 1..Len(Q), Q[i].part = "tail"
      PROVE  \/ i > 1 /\ Q[i - 1] = [Q[i] EXCEPT !.part = "head"]
             \/ i = 1 /\ l = [Q[1] EXCEPT !.part = "head"]
  <2> HIDE DEF k, w, l
  <2> DEFINE a == k + i
  <2>1. a \in DOMAIN w /\ w[a] = Q[i] /\ a - 1 = k + (i - 1)
    BY <1>5
  <2> HIDE DEF a
  <2>2. w[a - 1] = [w[a] EXCEPT !.part = "head"]
    BY <2>1, <1>6 DEF Joined, w
  <2>3. CASE i = 1
    <3>1. a - 1 = k
      BY <2>1, <2>3, <1>5
    <3> QED BY <3>1, <2>1, <2>2, <2>3, <1>5
  <2>4. CASE i # 1
    <3>1. i - 1 \in 1..Len(Q) /\ i > 1
      BY <2>4, <1>5
    <3>2. w[a - 1] = Q[i - 1]
      BY <3>1, <2>1, <1>5
    <3> QED BY <3>1, <3>2, <2>1, <2>2
  <2> QED BY <2>3, <2>4
<1> HIDE DEF w, l
<1>first. ASSUME 1 \in 1..Len(Q), Q[1].part = "tail" PROVE l = [Q[1] EXCEPT !.part = "head"]
  <2>1. \/ 1 > 1 /\ Q[1 - 1] = [Q[1] EXCEPT !.part = "head"]
        \/ 1 = 1 /\ l = [Q[1] EXCEPT !.part = "head"]
    BY <1>first, <1>6
  <2>2. ~ (1 > 1)
    OBVIOUS
  <2> QED BY <2>1, <2>2
<1>7. CASE l.part = "head"
  <2> DEFINE x == <<l>> \o Q
  <2>1. /\ x \in Seq(Pieces(L)) /\ Len(x) = 1 + Len(Q) /\ x[1] = l
        /\ \A i \in 1..Len(Q) : x[1 + i] = Q[i]
    <3>1. <<l>> \in Seq(Pieces(L)) /\ Len(<<l>>) = 1 /\ <<l>>[1] = l
      BY <1>1
    <3> HIDE DEF l
    <3>2. /\ x \in Seq(Pieces(L)) /\ Len(x) = 1 + Len(Q)
          /\ \A i \in 1..(1 + Len(Q)) : x[i] = IF i <= 1 THEN <<l>>[i] ELSE Q[i - 1]
      BY <3>1, ConcatProperties
    <3> HIDE DEF x
    <3>3. ASSUME NEW i \in 1..Len(Q) PROVE x[1 + i] = Q[i]
      <4>1. 1 + i \in 1..(1 + Len(Q)) /\ ~ (1 + i <= 1) /\ (1 + i) - 1 = i
        BY <1>5
      <4> QED BY <4>1, <3>2
    <3>4. 1 \in 1..(1 + Len(Q))
      BY <1>5
    <3> QED BY <3>1, <3>2, <3>3, <3>4
  <2> HIDE DEF x, l
  <2>2. ASSUME NEW j \in 1..(1 + Len(Q)), x[j].part = "tail"
        PROVE  j > 1 /\ x[j - 1] = [x[j] EXCEPT !.part = "head"]
    <3>1. j # 1
      BY <2>1, <2>2, <1>7
    <3> DEFINE i == j - 1
    <3>2. i \in 1..Len(Q) /\ j = 1 + i /\ j > 1
      BY <3>1, <1>5
    <3> HIDE DEF i
    <3>3. x[j] = Q[i]
      BY <3>2, <2>1
    <3>4. CASE i = 1
      <4>1. l = [Q[1] EXCEPT !.part = "head"]
        BY <3>2, <3>3, <3>4, <2>2, <1>first
      <4>2. j - 1 = 1 /\ x[j] = Q[1]
        BY <3>2, <3>3, <3>4
      <4> QED BY <4>1, <4>2, <3>2, <2>1
    <3>5. CASE i # 1
      <4>1. i > 1 /\ Q[i - 1] = [Q[i] EXCEPT !.part = "head"]
        BY <3>2, <3>3, <3>5, <2>2, <1>6
      <4>2. i - 1 \in 1..Len(Q) /\ j - 1 = 1 + (i - 1)
        BY <4>1, <3>2, <1>5
      <4>3. x[j - 1] = Q[i - 1]
        BY <4>2, <2>1
      <4> QED BY <4>1, <4>3, <3>2, <3>3
    <3> QED BY <3>4, <3>5
  <2>3. DOMAIN x = 1..(1 + Len(Q))
    BY <2>1
  <2>4. Joined(x)
    BY <2>2, <2>3 DEF Joined
  <2> QED BY <2>4, <1>3, <1>4, <1>7 DEF x
<1>8. CASE l.part # "head"
  <2>1. ASSUME NEW i \in 1..Len(Q), Q[i].part = "tail"
        PROVE  i > 1 /\ Q[i - 1] = [Q[i] EXCEPT !.part = "head"]
    <3>1. i = 1 => l.part = "head"
      <4> HIDE DEF l
      <4> SUFFICES ASSUME i = 1 PROVE l.part = "head"
        OBVIOUS
      <4>1. l = [Q[1] EXCEPT !.part = "head"]
        BY <2>1, <1>first
      <4>2. Q[1] \in Pieces(L)
        BY <1>5
      <4>3. [Q[1] EXCEPT !.part = "head"].part = "head"
        BY <4>2 DEF Pieces
      <4> QED BY <4>1, <4>3
    <3> HIDE DEF l
    <3> QED BY <3>1, <2>1, <1>6, <1>8
  <2>2. Joined(Q)
    <3>1. DOMAIN Q = 1..Len(Q)
      OBVIOUS
    <3> QED BY <2>1, <3>1 DEF Joined
  <2>3. <<>> \o Q = Q
    BY ConcatEmptySeq
  <2> QED BY <2>2, <2>3, <1>3, <1>4, <1>8
<1> QED BY <1>7, <1>8

-------------------------------------------------------------------------------
(* SseTranslator: what it says of the events it is told *)

Translators == [half : Halves(Events), blockOf : UNION {[S -> Nat] : S \in SUBSET Nat},
                next : Nat, open : SUBSET Nat, stopped : BOOLEAN, out : Seq(Events)]

\* An event more is said.
LEMMA SayFields ==
  ASSUME NEW x \in Translators, NEW e \in Events
  PROVE  /\ Say(x, e) \in Translators
         /\ Say(x, e).half = x.half /\ Say(x, e).blockOf = x.blockOf /\ Say(x, e).next = x.next
         /\ Say(x, e).open = x.open /\ Say(x, e).stopped = x.stopped
         /\ Say(x, e).out = Append(x.out, e)
<1> DEFINE o == Append(x.out, e)
<1>1. o \in Seq(Events)
  <2>1. x.out \in Seq(Events)
    BY DEF Translators
  <2> QED BY <2>1, AppendProperties
<1>2. Say(x, e) = [x EXCEPT !.out = o]
  BY DEF Say
<1> HIDE DEF o
<1>3. /\ Say(x, e) \in Translators
      /\ Say(x, e).half = x.half /\ Say(x, e).blockOf = x.blockOf /\ Say(x, e).next = x.next
      /\ Say(x, e).open = x.open /\ Say(x, e).stopped = x.stopped /\ Say(x, e).out = o
  BY <1>1, <1>2 DEF Translators
<1> QED BY <1>3 DEF o

\* The block of an item starts.
LEMMA StartBlockFields ==
  ASSUME NEW x \in Translators, NEW item \in Nat
  PROVE  /\ StartBlock(x, item) \in Translators
         /\ StartBlock(x, item).half = x.half /\ StartBlock(x, item).stopped = x.stopped
         /\ StartBlock(x, item).blockOf =
              [i \in DOMAIN x.blockOf \union {item} |-> IF i = item THEN x.next ELSE x.blockOf[i]]
         /\ StartBlock(x, item).next = x.next + 1
         /\ StartBlock(x, item).open = x.open \union {x.next}
         /\ StartBlock(x, item).out = Append(x.out, Event("open", x.next, 0))
<1> DEFINE b == [i \in DOMAIN x.blockOf \union {item} |-> IF i = item THEN x.next ELSE x.blockOf[i]]
           p == x.open \union {x.next}
           n == x.next + 1
           y == [x EXCEPT !.blockOf = b, !.open = p, !.next = n]
           e == Event("open", x.next, 0)
<1>1. n \in Nat /\ p \in SUBSET Nat /\ x.next \in Nat
  BY DEF Translators
<1>2. b \in UNION {[S -> Nat] : S \in SUBSET Nat}
  <2>1. PICK S \in SUBSET Nat : x.blockOf \in [S -> Nat]
    BY DEF Translators
  <2>2. b \in [S \union {item} -> Nat] /\ S \union {item} \in SUBSET Nat
    BY <1>1, <2>1
  <2> HIDE DEF b
  <2> QED BY <2>2
<1>3. StartBlock(x, item) = Say(y, e)
  BY DEF StartBlock
<1>4. e \in Events
  BY <1>1, EventType DEF Kinds
<1> HIDE DEF b, p, n, e
<1>5. /\ y \in Translators /\ y.half = x.half /\ y.stopped = x.stopped /\ y.blockOf = b
      /\ y.next = n /\ y.open = p /\ y.out = x.out
  BY <1>1, <1>2 DEF Translators
<1> HIDE DEF y
<1>6. /\ Say(y, e) \in Translators
      /\ Say(y, e).half = x.half /\ Say(y, e).blockOf = b /\ Say(y, e).next = n
      /\ Say(y, e).open = p /\ Say(y, e).stopped = x.stopped
      /\ Say(y, e).out = Append(x.out, e)
  BY <1>4, <1>5, SayFields
<1> QED BY <1>3, <1>6 DEF b, p, n, e

\* The blocks that are open stop, the first one first.
LEMMA StopFields ==
  ASSUME NEW x \in Translators
  PROVE  /\ StopOpenBlocks(x) \in Translators
         /\ StopOpenBlocks(x).half = x.half /\ StopOpenBlocks(x).stopped = x.stopped
         /\ StopOpenBlocks(x).open = {}
         /\ [n \in DOMAIN Ascending(x.open, x.next) |-> Event("close", Ascending(x.open, x.next)[n], 0)]
              \in Seq(Events)
         /\ StopOpenBlocks(x).out =
              x.out \o [n \in DOMAIN Ascending(x.open, x.next) |->
                          Event("close", Ascending(x.open, x.next)[n], 0)]
<1> DEFINE left == Ascending(x.open, x.next)
           ends == [n \in DOMAIN left |-> Event("close", left[n], 0)]
           o == x.out \o ends
<1>1. x.next \in Nat /\ x.out \in Seq(Events)
  BY DEF Translators
<1>2. left \in Seq(Nat)
  BY <1>1, AscendingNext
<1> HIDE DEF left
<1>3. ends \in Seq(Events)
  <2>1. DOMAIN left = 1..Len(left) /\ Len(left) \in Nat /\ \A n \in 1..Len(left) : left[n] \in Nat
    BY <1>2
  <2>2. \A n \in 1..Len(left) : Event("close", left[n], 0) \in Events
    BY <2>1, EventType DEF Kinds
  <2> QED BY <2>1, <2>2
<1>4. o \in Seq(Events)
  <2> HIDE DEF ends
  <2> QED BY <1>1, <1>3, ConcatProperties
<1>5. StopOpenBlocks(x) = [x EXCEPT !.out = o, !.open = {}]
  BY DEF StopOpenBlocks, left
<1> HIDE DEF o
<1>6. /\ StopOpenBlocks(x) \in Translators
      /\ StopOpenBlocks(x).half = x.half /\ StopOpenBlocks(x).stopped = x.stopped
      /\ StopOpenBlocks(x).open = {} /\ StopOpenBlocks(x).out = o
  BY <1>4, <1>5 DEF Translators
<1> QED BY <1>3, <1>6 DEF o, left

\* An item's block stops.
Stopped(x, item) == [x EXCEPT !.blockOf = [i \in DOMAIN @ \ {item} |-> @[i]],
                              !.open = @ \ {x.blockOf[item]}]
\* One block stops.
LEMMA StoppedFields ==
  ASSUME NEW x \in Translators, NEW item \in DOMAIN x.blockOf
  PROVE  /\ Stopped(x, item) \in Translators /\ x.blockOf[item] \in Nat
         /\ Stopped(x, item).half = x.half /\ Stopped(x, item).stopped = x.stopped
         /\ Stopped(x, item).blockOf = [i \in DOMAIN x.blockOf \ {item} |-> x.blockOf[i]]
         /\ Stopped(x, item).next = x.next /\ Stopped(x, item).out = x.out
         /\ Stopped(x, item).open = x.open \ {x.blockOf[item]}
<1> DEFINE b == [i \in DOMAIN x.blockOf \ {item} |-> x.blockOf[i]]
           p == x.open \ {x.blockOf[item]}
<1>1. PICK S \in SUBSET Nat : x.blockOf \in [S -> Nat]
  BY DEF Translators
<1>2. b \in UNION {[T -> Nat] : T \in SUBSET Nat}
  <2>1. b \in [S \ {item} -> Nat] /\ S \ {item} \in SUBSET Nat
    BY <1>1
  <2> HIDE DEF b
  <2> QED BY <2>1
<1>3. p \in SUBSET Nat
  BY DEF Translators
<1>4. Stopped(x, item) = [x EXCEPT !.blockOf = b, !.open = p]
  BY DEF Stopped
<1> HIDE DEF b, p
<1>5. /\ Stopped(x, item) \in Translators
      /\ Stopped(x, item).half = x.half /\ Stopped(x, item).stopped = x.stopped
      /\ Stopped(x, item).blockOf = b /\ Stopped(x, item).next = x.next
      /\ Stopped(x, item).out = x.out /\ Stopped(x, item).open = p
  BY <1>2, <1>3, <1>4 DEF Translators
<1> QED BY <1>1, <1>5 DEF b, p

\* Whatever it is told, a translator stays one.
LEMMA TranslateType ==
  ASSUME NEW x \in Translators, NEW e \in Events
  PROVE  TranslateEvent(x, e) \in Translators /\ TranslateEvent(x, e).half = x.half
<1> DEFINE Ok(y) == y \in Translators /\ y.half = x.half
           has == e.item \in DOMAIN x.blockOf
           grown == IF has THEN x ELSE StartBlock(x, e.item)
           y == StopOpenBlocks(x)
           kind == IF e.kind \in {"incomplete", "aborted"} THEN "incomplete" ELSE "completed"
<1>0. e.item \in Nat /\ e.size \in Nat /\ e.kind \in Kinds /\ e.typed \in BOOLEAN
  BY DEF Events
<1>1. Ok(x) /\ Ok(Say(x, e)) /\ Ok(StartBlock(x, e.item))
  BY <1>0, SayFields, StartBlockFields
<1>2. Ok(grown) /\ e.item \in DOMAIN grown.blockOf /\ grown.blockOf[e.item] \in Nat
  <2>1. CASE has
    <3>1. grown = x
      BY <2>1
    <3>2. x.blockOf[e.item] \in Nat
      BY <2>1, StoppedFields
    <3> QED BY <2>1, <3>1, <3>2
  <2>2. CASE ~has
    <3> DEFINE g == StartBlock(x, e.item)
    <3>1. grown = g
      BY <2>2
    <3>2. Ok(g) /\ g.blockOf = [i \in DOMAIN x.blockOf \union {e.item} |-> IF i = e.item THEN x.next ELSE x.blockOf[i]]
      BY <1>0, StartBlockFields
    <3>3. x.next \in Nat
      BY DEF Translators
    <3> HIDE DEF g
    <3>4. g.blockOf[e.item] = x.next /\ e.item \in DOMAIN g.blockOf
      BY <3>2
    <3> QED BY <3>1, <3>2, <3>3, <3>4
  <2> QED BY <2>1, <2>2
<1>3. Ok(Say(grown, Event("grow", grown.blockOf[e.item], e.size)))
  <2> HIDE DEF grown
  <2>1. Event("grow", grown.blockOf[e.item], e.size) \in Events
    BY <1>0, <1>2, EventType DEF Kinds
  <2> QED BY <2>1, <1>2, SayFields
<1>4. has => Ok(Say(Stopped(x, e.item), Event("close", x.blockOf[e.item], 0)))
  <2> SUFFICES ASSUME has PROVE Ok(Say(Stopped(x, e.item), Event("close", x.blockOf[e.item], 0)))
    OBVIOUS
  <2>1. Stopped(x, e.item) \in Translators /\ Stopped(x, e.item).half = x.half /\ x.blockOf[e.item] \in Nat
    BY StoppedFields
  <2>2. Event("close", x.blockOf[e.item], 0) \in Events
    BY <2>1, EventType DEF Kinds
  <2> QED BY <2>1, <2>2, SayFields
<1>5. Ok(y) /\ Ok(Say([y EXCEPT !.stopped = TRUE], Event(kind, 0, 0)))
  <2>1. Ok(y)
    BY StopFields
  <2> HIDE DEF y
  <2>2. Ok([y EXCEPT !.stopped = TRUE])
    BY <2>1 DEF Translators
  <2>3. Event(kind, 0, 0) \in Events
    BY EventType DEF Kinds
  <2> QED BY <2>1, <2>2, <2>3, SayFields
<1>6. \/ TranslateEvent(x, e) \in {x, Say(x, e), StartBlock(x, e.item), y}
      \/ TranslateEvent(x, e) = Say(grown, Event("grow", grown.blockOf[e.item], e.size))
      \/ has /\ TranslateEvent(x, e) = Say(Stopped(x, e.item), Event("close", x.blockOf[e.item], 0))
      \/ TranslateEvent(x, e) = Say([y EXCEPT !.stopped = TRUE], Event(kind, 0, 0))
  <2>1. CASE ~e.typed
    BY <2>1 DEF TranslateEvent
  <2>2. CASE e.typed /\ e.kind = "start"
    BY <2>2 DEF TranslateEvent
  <2>3. CASE e.typed /\ e.kind = "open"
    BY <2>3 DEF TranslateEvent
  <2>4. CASE e.typed /\ e.kind = "grow"
    BY <2>4 DEF TranslateEvent
  <2>5. CASE e.typed /\ e.kind = "close"
    BY <2>5 DEF TranslateEvent, Stopped
  <2>6. CASE e.typed /\ e.kind \in {"completed", "incomplete", "aborted", "failed"}
    BY <2>6 DEF TranslateEvent
  <2>7. CASE e.typed /\ e.kind \in {"quiet", "mark", "error"}
    BY <2>7 DEF TranslateEvent
  <2> QED BY <1>0, <2>1, <2>2, <2>3, <2>4, <2>5, <2>6, <2>7 DEF Kinds
<1> HIDE DEF has, grown, y, kind
<1> QED BY <1>1, <1>2, <1>3, <1>4, <1>5, <1>6

\* The events of a chunk are translated one after the other.
TranslateEventKeeps(A, X) == \A a \in A, x \in X : TranslateEvent(a, x) \in A
TranslateEventTraces(A, base, q, t) ==
  /\ t \in [0..Len(q) -> A] /\ t[0] = base
  /\ \A i \in 0..(Len(q) - 1) : t[i + 1] = TranslateEvent(t[i], q[i + 1])
  /\ FoldLeft(TranslateEvent, base, q) = t[Len(q)]

\* The events of a chunk are translated one after the other.
LEMMA TranslateTrace ==
  ASSUME NEW A, NEW X, NEW base \in A, NEW q \in Seq(X), TranslateEventKeeps(A, X)
  PROVE  \E t : TranslateEventTraces(A, base, q, t)
<1> DEFINE n == Len(q)
           f == [p \in A \X X |-> TranslateEvent(p[1], p[2])]
           Solves(g) == g = [S \in SUBSET (DOMAIN q) |->
                              IF S = {} THEN base ELSE TranslateEvent(g[S \ {Max(S)}], q[Max(S)])]
           F == CHOOSE g : Solves(g)
           t == [i \in 0..n |-> F[1..i]]
<1>0. n \in Nat /\ DOMAIN q = 1..n /\ \A i \in 1..n : q[i] \in X
  OBVIOUS
<1>1. f \in [A \X X -> A] /\ \A a \in A, x \in X : f[<<a, x>>] = TranslateEvent(a, x)
  BY DEF TranslateEventKeeps
<1> HIDE DEF f
<1>2. PICK g \in [SUBSET (1..n) -> A] : Folds(g, f, base, q, n)
  BY <1>1, FoldsExists
<1>3. Solves(g)
  <2>1. ASSUME NEW S \in SUBSET (1..n)
        PROVE  g[S] = IF S = {} THEN base ELSE TranslateEvent(g[S \ {Max(S)}], q[Max(S)])
    <3>1. CASE S = {}
      BY <1>2, <3>1 DEF Folds
    <3>2. CASE S # {}
      <4>1. Max(S) \in S
        BY <1>0, <3>2, MaxOfNumbers
      <4>2. g[S \ {Max(S)}] \in A /\ q[Max(S)] \in X
        BY <1>0, <4>1
      <4>3. g[S] = f[<<g[S \ {Max(S)}], q[Max(S)]>>]
        BY <1>2, <3>2 DEF Folds
      <4> QED BY <1>1, <3>2, <4>2, <4>3
    <3> QED BY <3>1, <3>2
  <2>2. g = [S \in SUBSET (1..n) |-> g[S]]
    OBVIOUS
  <2> QED BY <1>0, <2>1, <2>2
<1>4. Solves(F)
  <2> HIDE DEF Solves
  <2> QED BY <1>3
<1>5. FoldLeft(TranslateEvent, base, q) = F[DOMAIN q]
  BY Zenon DEF FoldLeft, MapThenFoldSet
<1> HIDE DEF F
<1>6. F[{}] = base
  BY <1>4
<1>7. \A m \in 1..n : F[1..m] = TranslateEvent(F[1..(m - 1)], q[m])
  <2> SUFFICES ASSUME NEW m \in 1..n PROVE F[1..m] = TranslateEvent(F[1..(m - 1)], q[m])
    OBVIOUS
  <2>1. 1..m \in SUBSET (DOMAIN q) /\ 1..m # {}
    <3>1. 1..m \subseteq 1..n /\ 1 \in 1..m
      BY <1>0
    <3> HIDE DEF n
    <3> QED BY <3>1, <1>0
  <2>2. Max(1..m) = m /\ (1..m) \ {m} = 1..(m - 1)
    BY <1>0, MaxOfUpto
  <2>3. F[1..m] = TranslateEvent(F[(1..m) \ {Max(1..m)}], q[Max(1..m)])
    BY <1>4, <2>1
  <2> QED BY <2>2, <2>3
<1>8. t[0] = base
  <2>1. 1..0 = {}
    OBVIOUS
  <2> QED BY <1>0, <1>6, <2>1
<1>9. \A i \in 0..(n - 1) : t[i + 1] = TranslateEvent(t[i], q[i + 1])
  <2> SUFFICES ASSUME NEW i \in 0..(n - 1) PROVE t[i + 1] = TranslateEvent(t[i], q[i + 1])
    OBVIOUS
  <2> DEFINE m == i + 1
  <2>1. m \in 1..n /\ m - 1 = i /\ i \in 0..n /\ m \in 0..n
    BY <1>0
  <2>2. t[m] = F[1..m] /\ t[i] = F[1..i]
    BY <2>1
  <2> HIDE DEF m, t
  <2>3. F[1..m] = TranslateEvent(F[1..(m - 1)], q[m])
    BY <2>1, <1>7
  <2>4. t[m] = TranslateEvent(t[i], q[m])
    BY <2>1, <2>2, <2>3
  <2> QED BY <2>4 DEF m
<1>10. t[n] = F[DOMAIN q]
  BY <1>0
<1>11. \A i \in 0..n : t[i] \in A
  <2> DEFINE T == {i \in Nat : t[i] \in A}
  <2>1. 0 \in T
    BY <1>8
  <2>2. ASSUME NEW i \in 0..(n - 1), i \in T PROVE i + 1 \in T
    <3> HIDE DEF t
    <3>1. t[i] \in A /\ q[i + 1] \in X /\ i + 1 \in Nat
      BY <2>2, <1>0
    <3>2. t[i + 1] = TranslateEvent(t[i], q[i + 1])
      BY <1>9
    <3> QED BY <3>1, <3>2 DEF TranslateEventKeeps
  <2> HIDE DEF T
  <2>3. \A i \in 0..n : i \in T
    BY <1>0, <2>1, <2>2, StepByStep
  <2> QED BY <2>3 DEF T
<1>12. t \in [0..n -> A]
  <2>1. t = [i \in 0..n |-> t[i]]
    OBVIOUS
  <2> HIDE DEF t
  <2> QED BY <1>11, <2>1
<1> HIDE DEF t
<1> QED BY <1>5, <1>8, <1>9, <1>10, <1>12 DEF TranslateEventTraces

\* The view v with the items in C closed.
Closed(v, C) ==
  [status |-> v.status,
   items |-> [i \in DOMAIN v.items |-> [open |-> v.items[i].open /\ i \notin C, size |-> v.items[i].size]],
   number |-> v.number, half |-> <<>>]

\* It is a view.
LEMMA ClosedType ==
  ASSUME NEW v \in Views, NEW C
  PROVE  /\ Closed(v, C) \in Views /\ Closed(v, C).status = v.status /\ Closed(v, C).number = v.number
         /\ Closed(v, C).items \in Seq(OutputItem) /\ Len(Closed(v, C).items) = Len(v.items)
         /\ \A i \in 1..Len(v.items) : /\ Closed(v, C).items[i] \in OutputItem
                                       /\ Closed(v, C).items[i].open = (v.items[i].open /\ i \notin C)
                                       /\ Closed(v, C).items[i].size = v.items[i].size
<1>1. /\ v.items \in Seq(OutputItem) /\ DOMAIN v.items = 1..Len(v.items) /\ Len(v.items) \in Nat
      /\ v.status \in Told /\ v.number \in Nat
  BY DEF Views
<1>2. ASSUME NEW i \in 1..Len(v.items)
      PROVE  [open |-> v.items[i].open /\ i \notin C, size |-> v.items[i].size] \in OutputItem
  <2>1. v.items[i] \in OutputItem
    BY <1>1
  <2> QED BY <2>1 DEF OutputItem
<1> DEFINE w == [i \in DOMAIN v.items |-> [open |-> v.items[i].open /\ i \notin C, size |-> v.items[i].size]]
<1>3. w \in Seq(OutputItem) /\ Len(w) = Len(v.items)
      /\ \A i \in 1..Len(v.items) :
           /\ w[i] \in OutputItem
           /\ w[i] = [open |-> v.items[i].open /\ i \notin C, size |-> v.items[i].size]
  BY <1>1, <1>2
<1> HIDE DEF w
<1>4. Closed(v, C) = [status |-> v.status, items |-> w, number |-> v.number, half |-> <<>>]
  BY DEF Closed, w
<1>5. ASSUME NEW i \in 1..Len(v.items)
      PROVE  w[i].open = (v.items[i].open /\ i \notin C) /\ w[i].size = v.items[i].size
  <2> DEFINE b == (v.items[i].open /\ i \notin C)
             z == v.items[i].size
  <2>1. w[i] = [open |-> b, size |-> z]
    BY <1>3
  <2> HIDE DEF b, z
  <2>2. w[i].open = b /\ w[i].size = z
    BY <2>1
  <2> QED BY <2>2 DEF b, z
<1> QED BY <1>1, <1>3, <1>4, <1>5 DEF Views

\* Closing the open items one after the other is legal for a client that does
\* not look at their size.
LEMMA ClosesReach ==
  ASSUME NEW v \in Views, v.status = "open", v.number = 0, NEW q \in Seq(Nat), NEW ends,
         ends = [n \in DOMAIN q |-> Event("close", q[n], 0)],
         \A n \in 1..Len(q) : q[n] \in 1..Len(v.items) /\ v.items[q[n]].open,
         \A i, j \in 1..Len(q) : i < j => q[i] < q[j]
  PROVE  /\ ends \in Seq(Events)
         /\ Reaches("messages", v, ends, Closed(v, Firsts(q, Len(q))))
<1> DEFINE N == Len(q)
           n == Len(v.items)
           t == [j \in 0..N |-> Closed(v, Firsts(q, j))]
<1>v. v.items \in Seq(OutputItem) /\ \A k \in 1..n : v.items[k] \in OutputItem
  <2>1. v.items \in Seq(OutputItem)
    BY DEF Views
  <2> QED BY <2>1
<1>0. N \in Nat /\ n \in Nat /\ DOMAIN q = 1..N /\ \A i \in 1..N : q[i] \in Nat
      /\ v.items \in Seq(OutputItem) /\ DOMAIN v.items = 1..n
  BY DEF Views
<1>1. /\ ends \in Seq(Events) /\ Len(ends) = N
      /\ \A j \in 1..N : ends[j] = Event("close", q[j], 0)
  <2>1. \A j \in 1..N : Event("close", q[j], 0) \in Events
    BY <1>0, EventType DEF Kinds
  <2> QED BY <1>0, <2>1
<1>2. t \in [0..N -> Views] /\ \A j \in 0..N : t[j] = Closed(v, Firsts(q, j))
  BY ClosedType
<1> HIDE DEF t
<1>3. ASSUME NEW j \in 0..(N - 1)
      PROVE  Legal("messages", t[j], ends[j + 1]) /\ t[j + 1] = Heard(t[j], ends[j + 1])
  <2> DEFINE m == j + 1
             i == q[m]
             C == Firsts(q, j)
             u == Closed(v, C)
             w == Closed(v, C \union {i})
             e == Event("close", i, 0)
  <2>1. m \in 1..N /\ j \in 0..N /\ m \in 0..N
    BY <1>0
  <2>2. i \in 1..n /\ v.items[i].open /\ i \in Nat
    <3> HIDE DEF m
    <3> QED BY <2>1, <1>0
  <2>3. i \notin C
    <3>1. ASSUME i \in C PROVE FALSE
      <4>1. PICK h \in 1..j : q[h] = i
        BY <3>1 DEF Firsts
      <4>2. h \in 1..N /\ h < m
        BY <1>0
      <4> HIDE DEF m
      <4>3. q[h] < q[m]
        BY <4>2, <2>1
      <4> QED BY <4>1, <4>3, <2>2
    <3> QED BY <3>1
  <2>4. Firsts(q, m) = C \union {i}
    <3>1. 1..m = (1..j) \union {m}
      BY <1>0
    <3> HIDE DEF m
    <3> QED BY <3>1 DEF Firsts
  <2>5. t[j] = u /\ t[m] = w /\ ends[m] = e
    <3> HIDE DEF m
    <3> QED BY <2>1, <2>4, <1>1, <1>2
  <2> HIDE DEF m, i, C
  <2>6. e \in Events /\ e.kind = "close" /\ e.item = i /\ e.size = 0 /\ e.seq = 0 /\ e.typed
    <3>1. i \in Nat /\ "close" \in Kinds /\ 0 \in Nat
      BY <2>2 DEF Kinds
    <3> QED BY <3>1 DEF Event, Events
  <2>7. /\ u \in Views /\ u.status = "open" /\ u.number = 0 /\ u.items \in Seq(OutputItem)
        /\ Len(u.items) = n
        /\ \A k \in 1..n : u.items[k] \in OutputItem /\ u.items[k].size = v.items[k].size
                           /\ u.items[k].open = (v.items[k].open /\ k \notin C)
    BY ClosedType
  <2>8. /\ w \in Views /\ w.status = "open" /\ w.number = 0 /\ w.items \in Seq(OutputItem)
        /\ Len(w.items) = n
        /\ \A k \in 1..n : w.items[k] \in OutputItem /\ w.items[k].size = v.items[k].size
                           /\ w.items[k].open = (v.items[k].open /\ k \notin C \union {i})
    BY ClosedType
  <2> HIDE DEF u, w, e
  <2>9. u.items[i].open /\ DOMAIN u.items = 1..n
    <3>1. u.items[i].open = (v.items[i].open /\ i \notin C)
      BY <2>2, <2>7
    <3>2. u.items[i].open
      BY <3>1, <2>2, <2>3
    <3>3. DOMAIN u.items = 1..n
      <4> HIDE DEF n
      <4> QED BY <2>7
    <3> QED BY <3>2, <3>3
  <2>10. Legal("messages", u, e)
    BY <2>2, <2>6, <2>7, <2>9 DEF Legal, LegalLive, Live
  <2>11. ItemsAfter(u, e) = w.items
    <3> DEFINE x == u.items
               y == w.items
               z == [x[i] EXCEPT !.open = FALSE]
    <3>1. ItemsAfter(u, e) = [x EXCEPT ![i] = z]
      BY <2>6 DEF ItemsAfter
    <3>2. /\ x \in Seq(OutputItem) /\ Len(x) = n /\ y \in Seq(OutputItem) /\ Len(y) = n
          /\ \A k \in 1..n : x[k] \in OutputItem /\ x[k].size = v.items[k].size
                             /\ x[k].open = (v.items[k].open /\ k \notin C)
          /\ \A k \in 1..n : y[k] \in OutputItem /\ y[k].size = v.items[k].size
                             /\ y[k].open = (v.items[k].open /\ k \notin C \union {i})
      BY <2>7, <2>8
    <3> HIDE DEF x, y
    <3>3. z \in OutputItem /\ z.open = FALSE /\ z.size = x[i].size
      <4>1. x[i] \in OutputItem
        BY <2>2, <3>2
      <4> QED BY <4>1, ItemClosed
    <3> HIDE DEF z
    <3>4. z = y[i]
      <4>1. y[i].open = (v.items[i].open /\ i \notin C \union {i}) /\ y[i].size = x[i].size /\ y[i] \in OutputItem
        BY <2>2, <3>2
      <4>2. y[i].open = FALSE
        BY <4>1
      <4> QED BY <4>1, <4>2, <3>3, ItemEqual
    <3>5. ASSUME NEW k \in 1..n, k # i PROVE x[k] = y[k]
      <4>1. x[k].open = (v.items[k].open /\ k \notin C) /\ x[k].size = v.items[k].size /\ x[k] \in OutputItem
        BY <3>2
      <4>2. y[k].open = (v.items[k].open /\ k \notin C \union {i}) /\ y[k].size = v.items[k].size /\ y[k] \in OutputItem
        BY <3>2
      <4>3. (v.items[k].open /\ k \notin C) = (v.items[k].open /\ k \notin C \union {i})
        BY <3>5
      <4>4. x[k].open = y[k].open
        BY <4>1, <4>2, <4>3
      <4> QED BY <4>1, <4>2, <4>4, ItemEqual
    <3> DEFINE s == [x EXCEPT ![i] = z]
    <3>6. s \in Seq(OutputItem) /\ Len(s) = n /\ \A k \in 1..n : s[k] = IF k = i THEN z ELSE x[k]
      <4>1. i \in 1..Len(x)
        BY <2>2, <3>2
      <4>2. x \in Seq(OutputItem) /\ Len(x) = n /\ z \in OutputItem
        BY <3>2, <3>3
      <4> HIDE DEF n
      <4> QED BY <4>1, <4>2, ExceptSeq
    <3> HIDE DEF s
    <3>7. \A k \in 1..n : s[k] = y[k]
      BY <3>4, <3>5, <3>6
    <3>8. s = y
      BY <3>2, <3>6, <3>7, SeqEqual
    <3> QED BY <3>1, <3>8 DEF s, y
  <2>12. Heard(u, e) = w
    <3>1. Heard(u, e) \in Views
      BY <2>6, <2>7, <2>10, HeardType
    <3>2. Heard(u, e).status = "open" /\ Heard(u, e).items = w.items /\ Heard(u, e).number = 0
      BY <2>6, <2>7, <2>11 DEF Heard, Live, Status
    <3> QED BY <3>1, <3>2, <2>8, ViewEqual
  <2> QED BY <2>5, <2>10, <2>12 DEF m
<1>4. Hears("messages", t, ends)
  BY <1>1, <1>3 DEF Hears
<1>5. t[0] = v
  <2>1. Firsts(q, 0) = {}
    BY DEF Firsts
  <2> DEFINE u == Closed(v, {})
  <2>2. t[0] = u
    <3>1. 0 \in 0..N
      BY <1>0
    <3> QED BY <3>1, <2>1, <1>2
  <2>3. /\ u \in Views /\ u.status = v.status /\ u.number = v.number /\ u.items \in Seq(OutputItem)
        /\ Len(u.items) = n
        /\ \A k \in 1..n : u.items[k] \in OutputItem /\ u.items[k].size = v.items[k].size
                           /\ u.items[k].open = (v.items[k].open /\ k \notin {})
    BY ClosedType
  <2> HIDE DEF u
  <2>4. ASSUME NEW k \in 1..n PROVE u.items[k] = v.items[k]
    <3>1. v.items[k] \in OutputItem
      BY <1>v
    <3>2. (v.items[k].open /\ k \notin {}) = v.items[k].open
      BY <3>1 DEF OutputItem
    <3>3. u.items[k].open = v.items[k].open /\ u.items[k].size = v.items[k].size /\ u.items[k] \in OutputItem
      BY <2>3, <3>2
    <3> QED BY <3>1, <3>3, ItemEqual
  <2>5. u.items = v.items
    <3> DEFINE x == u.items
               y == v.items
    <3>1. x \in Seq(OutputItem) /\ y \in Seq(OutputItem) /\ Len(x) = Len(y)
          /\ \A k \in 1..Len(x) : x[k] = y[k]
      BY <1>v, <2>3, <2>4
    <3> HIDE DEF x, y
    <3>2. x = y
      BY <3>1, SeqEqual
    <3> QED BY <3>2 DEF x, y
  <2> QED BY <2>2, <2>3, <2>5, ViewEqual
<1>6. t[Len(ends)] = Closed(v, Firsts(q, N))
  <2>1. N \in 0..N
    BY <1>0
  <2> QED BY <2>1, <1>1, <1>2
<1> QED BY <1>1, <1>2, <1>4, <1>5, <1>6 DEF Reaches

\* U is what a client would make of all the translator x was told, and M what
\* one makes of all it has said: the same while the answer goes on, and the
\* same items when it is told to be whole.
Coupled(x, U, M) ==
  IF Live(U)
  THEN /\ M = U /\ U.number = 0 /\ x.next = Len(U.items) + 1 /\ x.stopped = FALSE
       /\ DOMAIN x.blockOf = {i \in DOMAIN U.items : U.items[i].open}
       /\ x.open = DOMAIN x.blockOf
       /\ \A i \in DOMAIN x.blockOf : x.blockOf[i] = i
  ELSE M.status \in {"completed", "incomplete"} =>
         U.status \in {"completed", "incomplete", "failed"} /\ Sizes(M.items) = Sizes(U.items)

\* One more event said.
LEMMA SaidReaches ==
  ASSUME NEW c \in Views, NEW o \in Seq(Events), NEW M \in Views, NEW f \in Events,
         Reaches("messages", c, o, M), Legal("messages", M, f)
  PROVE  Heard(M, f) \in Views /\ Reaches("messages", c, Append(o, f), Heard(M, f))
<1>1. Append(o, f) = o \o <<f>>
  BY AppendIsConcat
<1> QED BY <1>1, HeardType, ReachesAppend

\* The error that takes the place of what is left of an answer.
LEMMA ErrorLegal ==
  ASSUME NEW a, NEW v \in Views
  PROVE  /\ Untyped("error") \in Events /\ Legal(a, v, Untyped("error"))
         /\ Untyped("error").kind = "error" /\ Untyped("error").seq = 0 /\ Untyped("error").typed = FALSE
         /\ Heard(v, Untyped("error")) \in Views
         /\ Heard(v, Untyped("error")).status = IF Live(v) THEN "error" ELSE v.status
         /\ ~Live(v) => Heard(v, Untyped("error")) = v
<1> DEFINE e == Untyped("error")
<1>1. e \in Events /\ e.kind = "error" /\ e.seq = 0 /\ e.typed = FALSE
  BY DEF Untyped, Event, Events, Kinds
<1>2. Legal(a, v, e)
  <2>1. CASE Live(v)
    <3> HIDE DEF e
    <3>1. a = "messages" => e.seq = 0 /\ (e.typed \/ e = Untyped("error"))
      BY <1>1 DEF e
    <3> QED BY <2>1, <3>1, <1>1 DEF Legal, LegalLive
  <2>2. CASE ~Live(v)
    BY <2>2 DEF Legal
  <2> QED BY <2>1, <2>2
<1> HIDE DEF e
<1>3. Heard(v, e) \in Views
  BY <1>1, <1>2, HeardType
<1>4. Heard(v, e).status = IF Live(v) THEN "error" ELSE v.status
  BY <1>1 DEF Heard, Status
<1>5. ~Live(v) => Heard(v, e) = v
  BY DEF Heard
<1> QED BY <1>1, <1>2, <1>3, <1>4, <1>5 DEF e

\* When the answer ends, the blocks that are open stop first.
LEMMA EndTranslated ==
  ASSUME NEW c \in Views, NEW x \in Translators, NEW U \in Views, Coupled(x, U, U),
         U.status = "open", Reaches("messages", c, x.out, U),
         NEW kind \in {"completed", "incomplete"}
  PROVE  \E N \in Views :
           /\ Reaches("messages", c, Append(StopOpenBlocks(x).out, Event(kind, 0, 0)), N)
           /\ N.status = kind /\ Sizes(N.items) = Sizes(U.items)
<1> DEFINE n == Len(U.items)
           q == Ascending(x.open, x.next)
           ends == [j \in DOMAIN q |-> Event("close", q[j], 0)]
           C == Firsts(q, Len(q))
           W == Closed(U, C)
           f == Event(kind, 0, 0)
           o == StopOpenBlocks(x).out
<1>0. /\ U.items \in Seq(OutputItem) /\ n \in Nat /\ DOMAIN U.items = 1..n /\ Live(U)
      /\ x.out \in Seq(Events) /\ x.next \in Nat
  BY DEF Views, Translators, Live
<1>1. U.number = 0 /\ x.open = {i \in 1..n : U.items[i].open} /\ x.next = n + 1
  BY <1>0 DEF Coupled
<1>2. /\ q \in Seq(Nat)
      /\ \A i, j \in 1..Len(q) : i < j => q[i] < q[j]
      /\ \A i \in 1..Len(q) : q[i] \in x.open
      /\ \A y \in 1..x.next : y \in x.open => \E i \in 1..Len(q) : q[i] = y
  <2>1. q \in Seq(Nat)
    BY <1>0, AscendingNext
  <2>2. /\ \A i, j \in 1..Len(q) : i < j => q[i] < q[j]
        /\ \A i \in 1..Len(q) : q[i] \in x.open
        /\ \A y \in 1..x.next : y \in x.open => \E i \in 1..Len(q) : q[i] = y
    <3> DEFINE S == x.open
               k == x.next
    <3>1. k \in Nat
      BY <1>0
    <3> HIDE DEF S, k
    <3>2. /\ \A i, j \in 1..Len(Ascending(S, k)) : i < j => Ascending(S, k)[i] < Ascending(S, k)[j]
          /\ \A i \in 1..Len(Ascending(S, k)) : Ascending(S, k)[i] \in S
          /\ \A y \in 1..k : y \in S => \E i \in 1..Len(Ascending(S, k)) : Ascending(S, k)[i] = y
      BY <3>1, AscendingLists
    <3> QED BY <3>2 DEF S, k
  <2> QED BY <2>1, <2>2
<1>3. ends \in Seq(Events) /\ o = x.out \o ends
  BY StopFields
<1> HIDE DEF q, o
<1>4. \A i \in 1..Len(q) : q[i] \in 1..n /\ U.items[q[i]].open
  BY <1>1, <1>2
<1>5. Reaches("messages", U, ends, W)
  BY <1>1, <1>2, <1>4, ClosesReach
<1> HIDE DEF ends
<1>6. W \in Views /\ o \in Seq(Events)
  BY <1>0, <1>3, ClosedType, ConcatProperties
<1>7. Reaches("messages", c, o, W)
  <2> HIDE DEF W
  <2> QED BY <1>0, <1>3, <1>5, <1>6, ReachesConcat
<1>8. /\ W.status = "open" /\ Len(W.items) = n /\ W.items \in Seq(OutputItem)
      /\ \A i \in 1..n : W.items[i].open = (U.items[i].open /\ i \notin C) /\ W.items[i].size = U.items[i].size
  BY ClosedType
<1>9. ASSUME NEW i \in 1..n, W.items[i].open PROVE FALSE
  <2>1. U.items[i].open /\ i \notin C
    BY <1>8, <1>9
  <2>2. i \in x.open /\ i \in 1..x.next
    BY <2>1, <1>0, <1>1
  <2>3. PICK j \in 1..Len(q) : q[j] = i
    BY <2>2, <1>2
  <2> QED BY <2>1, <2>3 DEF Firsts
<1>10. f \in Events /\ f.kind = kind /\ f.seq = 0 /\ f.typed
  BY EventType DEF Kinds
<1> HIDE DEF W, f
<1>11. DOMAIN W.items = 1..n
  <2> HIDE DEF n
  <2> QED BY <1>8
<1>12. Legal("messages", W, f)
  BY <1>8, <1>9, <1>10, <1>11 DEF Legal, LegalLive, Live
<1>13. Heard(W, f).status = kind /\ Heard(W, f).items = W.items
  BY <1>8, <1>10 DEF Heard, Live, Status, ItemsAfter
<1>14. Heard(W, f) \in Views /\ Reaches("messages", c, Append(o, f), Heard(W, f))
  BY <1>6, <1>7, <1>10, <1>12, SaidReaches
<1>15. Sizes(W.items) = Sizes(U.items)
  <2>1. \A i \in 1..n : W.items[i].size = U.items[i].size
    <3> HIDE DEF n
    <3> QED BY <1>8
  <2> QED BY <2>1, <1>0, <1>11 DEF Sizes
<1> QED BY <1>13, <1>14, <1>15 DEF o, f

\* While the answer goes on, one event is translated.
LEMMA LiveTranslated ==
  ASSUME NEW c \in Views, NEW x \in Translators, NEW U \in Views, Live(U), Coupled(x, U, U),
         Reaches("messages", c, x.out, U),
         NEW e \in Events, Legal("messages", U, e)
  PROVE  \E N \in Views : /\ Reaches("messages", c, TranslateEvent(x, e).out, N)
                          /\ Coupled(TranslateEvent(x, e), Heard(U, e), N)
<1> DEFINE y == TranslateEvent(x, e)
           V == Heard(U, e)
           n == Len(U.items)
           Good == \E N \in Views : Reaches("messages", c, y.out, N) /\ Coupled(y, V, N)
<1>0. /\ U.items \in Seq(OutputItem) /\ n \in Nat /\ DOMAIN U.items = 1..n /\ x.out \in Seq(Events)
      /\ e.item \in Nat /\ e.size \in Nat /\ e.kind \in Kinds /\ e.typed \in BOOLEAN /\ x.next \in Nat
  BY DEF Views, Translators, Events
<1>1. /\ U.number = 0 /\ x.next = n + 1 /\ x.stopped = FALSE
      /\ DOMAIN x.blockOf = {i \in 1..n : U.items[i].open} /\ x.open = DOMAIN x.blockOf
      /\ \A i \in DOMAIN x.blockOf : x.blockOf[i] = i
  BY <1>0 DEF Coupled
<1>2. LegalLive("messages", U, e) /\ e.seq = 0 /\ (e.typed \/ e = Untyped("error"))
  BY DEF Legal, LegalLive
<1>3. V \in Views /\ V.status = Status(U, e) /\ V.items = ItemsAfter(U, e) /\ V.number = 0
  <2>1. V \in Views
    BY HeardType
  <2> QED BY <2>1, <1>1, <1>2 DEF Heard
<1> SUFFICES Good
  OBVIOUS
<1> HIDE DEF V, Good
<1>4. CASE ~e.typed
  <2>1. e = Untyped("error") /\ e.kind = "error"
    BY <1>2, <1>4, ErrorLegal
  <2>2. y = Say(x, e)
    BY <1>4, <2>1 DEF TranslateEvent
  <2>3. y.out = Append(x.out, e)
    BY <2>2, SayFields
  <2>4. Reaches("messages", c, y.out, V)
    BY <1>0, <2>3, SaidReaches DEF V
  <2>5. V.status = "error"
    BY <2>1, ErrorLegal DEF V
  <2>6. Coupled(y, V, V)
    BY <2>5 DEF Coupled, Live
  <2> QED BY <1>3, <2>4, <2>6 DEF Good
<1>5. CASE e.typed /\ e.kind = "start"
  <2>1. y = Say(x, e)
    BY <1>5 DEF TranslateEvent
  <2>2. /\ y.blockOf = x.blockOf /\ y.next = x.next /\ y.open = x.open /\ y.stopped = x.stopped
        /\ y.out = Append(x.out, e)
    BY <2>1, SayFields
  <2>3. Reaches("messages", c, y.out, V)
    BY <1>0, <2>2, SaidReaches DEF V
  <2>4. V.items = U.items
    BY <1>3, <1>5 DEF ItemsAfter
  <2>5. Coupled(y, V, V)
    <3>1. V.status = "open"
      BY <1>3, <1>5 DEF Status
    <3> HIDE DEF y
    <3> QED BY <1>0, <1>1, <1>3, <2>2, <2>4, <3>1 DEF Coupled, Live
  <2> QED BY <1>3, <2>3, <2>5 DEF Good
<1>6. CASE e.typed /\ e.kind = "open"
  <2> DEFINE f == Event("open", x.next, 0)
             item == [open |-> TRUE, size |-> 0]
  <2>0. e.item = n + 1 /\ U.status = "open" /\ e.item = x.next
    BY <1>1, <1>2, <1>6 DEF LegalLive
  <2>1. y = StartBlock(x, e.item)
    BY <1>6 DEF TranslateEvent
  <2>2. /\ y.blockOf = [i \in DOMAIN x.blockOf \union {e.item} |-> IF i = e.item THEN x.next ELSE x.blockOf[i]]
        /\ y.next = x.next + 1 /\ y.open = x.open \union {x.next} /\ y.stopped = x.stopped
        /\ y.out = Append(x.out, f)
    <3> HIDE DEF y, f
    <3>1. y.out = Append(x.out, f)
      BY <1>0, <2>1, StartBlockFields DEF f
    <3> QED BY <1>0, <2>1, <3>1, StartBlockFields
  <2> HIDE DEF y
  <2>3. f \in Events /\ f.kind = "open" /\ f.item = x.next /\ f.seq = 0 /\ f.typed
    BY <1>0 DEF Event, Events, Kinds
  <2> HIDE DEF f
  <2>4. Legal("messages", U, f)
    BY <1>1, <2>0, <2>3 DEF Legal, LegalLive
  <2>5. Heard(U, f) = V
    <3>1. Status(U, f) = Status(U, e) /\ ItemsAfter(U, f) = ItemsAfter(U, e)
      BY <1>6, <2>3 DEF Status, ItemsAfter
    <3>2. Heard(U, f) \in Views
      BY <2>3, <2>4, HeardType
    <3>3. Heard(U, f).status = Status(U, f) /\ Heard(U, f).items = ItemsAfter(U, f) /\ Heard(U, f).number = 0
      BY <1>1, <2>3 DEF Heard
    <3> QED BY <1>3, <3>1, <3>2, <3>3, ViewEqual
  <2>6. Reaches("messages", c, y.out, V)
    BY <1>0, <2>2, <2>3, <2>4, <2>5, SaidReaches
  <2>7. V.items = Append(U.items, item) /\ V.status = "open"
    BY <1>3, <1>6, <2>0 DEF ItemsAfter, Status
  <2>8. /\ Len(V.items) = n + 1 /\ DOMAIN V.items = 1..(n + 1)
        /\ V.items[n + 1].open = TRUE /\ \A i \in 1..n : V.items[i] = U.items[i]
    <3>1. item \in OutputItem /\ item.open = TRUE
      BY DEF OutputItem
    <3> HIDE DEF item
    <3>2. Len(V.items) = n + 1 /\ V.items[n + 1] = item /\ \A i \in 1..n : V.items[i] = U.items[i]
      BY <1>0, <2>7, <3>1, AppendProperties
    <3>3. V.items \in Seq(OutputItem)
      BY <1>3 DEF Views
    <3>4. DOMAIN V.items = 1..Len(V.items)
      BY <3>3
    <3> QED BY <3>1, <3>2, <3>4
  <2>9. Coupled(y, V, V)
    <3>1. DOMAIN y.blockOf = DOMAIN x.blockOf \union {n + 1}
      BY <2>0, <2>2
    <3>2. DOMAIN y.blockOf = {i \in DOMAIN V.items : V.items[i].open}
      <4>1. ASSUME NEW i \in 1..(n + 1)
            PROVE  V.items[i].open <=> (i \in DOMAIN x.blockOf \/ i = n + 1)
        <5>1. CASE i = n + 1
          BY <5>1, <2>8
        <5>2. CASE i # n + 1
          <6>1. i \in 1..n
            BY <5>2, <1>0
          <6> QED BY <6>1, <5>2, <1>1, <2>8
        <5> QED BY <5>1, <5>2
      <4>2. \A i \in DOMAIN x.blockOf : i \in 1..(n + 1)
        <5>1. \A i \in 1..n : i \in 1..(n + 1)
          BY <1>0
        <5> QED BY <5>1, <1>1
      <4>3. n + 1 \in 1..(n + 1)
        BY <1>0
      <4> HIDE DEF n
      <4> QED BY <3>1, <4>1, <4>2, <4>3, <2>8
    <3>3. y.open = DOMAIN y.blockOf
      BY <1>1, <2>2, <3>1
    <3>4. \A i \in DOMAIN y.blockOf : y.blockOf[i] = i
      <4> SUFFICES ASSUME NEW i \in DOMAIN y.blockOf PROVE y.blockOf[i] = i
        OBVIOUS
      <4>1. y.blockOf[i] = IF i = e.item THEN x.next ELSE x.blockOf[i]
        BY <2>2
      <4>2. i # e.item => i \in DOMAIN x.blockOf
        BY <2>2
      <4> QED BY <4>1, <4>2, <1>1, <2>0
    <3>5. y.next = Len(V.items) + 1 /\ y.stopped = FALSE
      BY <1>1, <2>2, <2>8
    <3> QED BY <1>3, <2>7, <3>2, <3>3, <3>4, <3>5 DEF Coupled, Live
  <2> QED BY <1>3, <2>6, <2>9 DEF Good
<1>7. CASE e.typed /\ e.kind = "grow"
  <2> DEFINE i == e.item
             f == Event("grow", i, e.size)
  <2>0. i \in 1..n /\ U.items[i].open /\ U.status = "open" /\ e.size = 1
    BY <1>0, <1>2, <1>7 DEF LegalLive
  <2>1. i \in DOMAIN x.blockOf /\ x.blockOf[i] = i
    BY <1>1, <2>0
  <2>2. y = Say(x, f)
    BY <1>7, <2>1 DEF TranslateEvent
  <2>3. f \in Events /\ f.kind = "grow" /\ f.item = i /\ f.size = e.size /\ f.seq = 0 /\ f.typed
    BY <1>0 DEF Event, Events, Kinds
  <2> HIDE DEF f, i
  <2>4. /\ y.blockOf = x.blockOf /\ y.next = x.next /\ y.open = x.open /\ y.stopped = x.stopped
        /\ y.out = Append(x.out, f)
    BY <2>2, <2>3, SayFields
  <2> HIDE DEF y
  <2>5. Legal("messages", U, f)
    BY <1>0, <2>0, <2>3 DEF Legal, LegalLive
  <2>6. Heard(U, f) = V
    <3>1. Status(U, f) = Status(U, e) /\ ItemsAfter(U, f) = ItemsAfter(U, e)
      BY <1>7, <2>3 DEF Status, ItemsAfter, i
    <3>2. Heard(U, f) \in Views
      BY <2>3, <2>5, HeardType
    <3>3. Heard(U, f).status = Status(U, f) /\ Heard(U, f).items = ItemsAfter(U, f) /\ Heard(U, f).number = 0
      BY <1>1, <2>3 DEF Heard
    <3> QED BY <1>3, <3>1, <3>2, <3>3, ViewEqual
  <2>7. Reaches("messages", c, y.out, V)
    BY <1>0, <2>3, <2>4, <2>5, <2>6, SaidReaches
  <2>8. V.status = "open" /\ V.items = [U.items EXCEPT ![i].size = @ + e.size]
    BY <1>3, <1>7, <2>0 DEF Status, ItemsAfter, i
  <2>9. Len(V.items) = n /\ DOMAIN V.items = 1..n /\ \A j \in 1..n : V.items[j].open = U.items[j].open
    <3> DEFINE it == U.items[i]
               z == [it EXCEPT !.size = @ + e.size]
    <3>1. it \in OutputItem
      BY <1>0, <2>0
    <3>2. z \in OutputItem /\ z.open = it.open
      <4> HIDE DEF it
      <4>1. it.size + e.size \in Nat
        BY <3>1, <1>0 DEF OutputItem
      <4> QED BY <3>1, <4>1 DEF OutputItem
    <3>3. V.items = [U.items EXCEPT ![i] = z]
      BY <2>8
    <3> HIDE DEF z
    <3>4. V.items \in Seq(OutputItem) /\ Len(V.items) = n
          /\ \A j \in 1..n : V.items[j] = IF j = i THEN z ELSE U.items[j]
      BY <1>0, <2>0, <3>2, <3>3, ExceptSeq
    <3>5. DOMAIN V.items = 1..n
      <4> HIDE DEF n
      <4> QED BY <3>4
    <3> QED BY <3>2, <3>4, <3>5
  <2>10. Coupled(y, V, V)
    <3> HIDE DEF n
    <3>1. DOMAIN y.blockOf = {j \in DOMAIN V.items : V.items[j].open}
      BY <1>1, <2>4, <2>9
    <3> QED BY <1>1, <1>3, <2>4, <2>8, <2>9, <3>1 DEF Coupled, Live
  <2> QED BY <1>3, <2>7, <2>10 DEF Good
<1>8. CASE e.typed /\ e.kind = "close"
  <2> DEFINE i == e.item
             f == Event("close", i, 0)
             s == Stopped(x, i)
  <2>0. i \in 1..n /\ U.items[i].open /\ U.status = "open"
    BY <1>0, <1>2, <1>8 DEF LegalLive
  <2>1. i \in DOMAIN x.blockOf /\ x.blockOf[i] = i
    BY <1>1, <2>0
  <2>2. y = Say(s, f)
    BY <1>8, <2>1 DEF TranslateEvent, Stopped
  <2>3. f \in Events /\ f.kind = "close" /\ f.item = i /\ f.size = 0 /\ f.seq = 0 /\ f.typed
    BY <1>0 DEF Event, Events, Kinds
  <2> HIDE DEF f, i
  <2>s. /\ s \in Translators /\ s.stopped = x.stopped
        /\ s.blockOf = [j \in DOMAIN x.blockOf \ {i} |-> x.blockOf[j]]
        /\ s.next = x.next /\ s.out = x.out /\ s.open = x.open \ {i}
    BY <2>1, StoppedFields
  <2> HIDE DEF s
  <2>4. /\ y.blockOf = s.blockOf /\ y.next = x.next /\ y.open = s.open /\ y.stopped = x.stopped
        /\ y.out = Append(x.out, f)
    <3> HIDE DEF y
    <3>1. /\ Say(s, f).blockOf = s.blockOf /\ Say(s, f).next = s.next /\ Say(s, f).open = s.open
          /\ Say(s, f).stopped = s.stopped /\ Say(s, f).out = Append(s.out, f)
      BY <2>3, <2>s, SayFields
    <3> QED BY <2>2, <2>s, <3>1
  <2> HIDE DEF y
  <2>5. Legal("messages", U, f)
    BY <1>0, <2>0, <2>3 DEF Legal, LegalLive
  <2>6. Heard(U, f) = V
    <3>1. Status(U, f) = Status(U, e) /\ ItemsAfter(U, f) = ItemsAfter(U, e)
      BY <1>8, <2>3 DEF Status, ItemsAfter, i
    <3>2. Heard(U, f) \in Views
      BY <2>3, <2>5, HeardType
    <3>3. Heard(U, f).status = Status(U, f) /\ Heard(U, f).items = ItemsAfter(U, f) /\ Heard(U, f).number = 0
      BY <1>1, <2>3 DEF Heard
    <3> QED BY <1>3, <3>1, <3>2, <3>3, ViewEqual
  <2>7. Reaches("messages", c, y.out, V)
    BY <1>0, <2>3, <2>4, <2>5, <2>6, SaidReaches
  <2>8. V.status = "open" /\ V.items = [U.items EXCEPT ![i].open = FALSE]
    BY <1>3, <1>8, <2>0 DEF Status, ItemsAfter, i
  <2>9. /\ Len(V.items) = n /\ DOMAIN V.items = 1..n
        /\ \A j \in 1..n : V.items[j].open <=> (j # i /\ U.items[j].open)
    <3> DEFINE it == U.items[i]
               z == [it EXCEPT !.open = FALSE]
    <3>1. it \in OutputItem
      BY <1>0, <2>0
    <3>2. z \in OutputItem /\ z.open = FALSE
      <4> HIDE DEF it
      <4> QED BY <3>1, ItemClosed
    <3>3. V.items = [U.items EXCEPT ![i] = z]
      BY <2>8
    <3> HIDE DEF z
    <3>4. V.items \in Seq(OutputItem) /\ Len(V.items) = n
          /\ \A j \in 1..n : V.items[j] = IF j = i THEN z ELSE U.items[j]
      BY <1>0, <2>0, <3>2, <3>3, ExceptSeq
    <3>5. DOMAIN V.items = 1..n
      <4> HIDE DEF n
      <4> QED BY <3>4
    <3> QED BY <3>2, <3>4, <3>5
  <2>10. Coupled(y, V, V)
    <3> HIDE DEF n
    <3>1. DOMAIN y.blockOf = {j \in DOMAIN V.items : V.items[j].open}
      BY <1>1, <2>4, <2>9, <2>s
    <3>2. y.open = DOMAIN y.blockOf
      BY <1>1, <2>4, <2>s
    <3>3. \A j \in DOMAIN y.blockOf : y.blockOf[j] = j
      BY <1>1, <2>4, <2>s
    <3> QED BY <1>1, <1>3, <2>4, <2>8, <2>9, <3>1, <3>2, <3>3 DEF Coupled, Live
  <2> QED BY <1>3, <2>7, <2>10 DEF Good
<1>9. CASE e.typed /\ e.kind \in {"completed", "incomplete", "aborted", "failed"}
  <2> DEFINE s == StopOpenBlocks(x)
             kind == IF e.kind \in {"incomplete", "aborted"} THEN "incomplete" ELSE "completed"
             s1 == [s EXCEPT !.stopped = TRUE]
             f == Event(kind, 0, 0)
  <2>1. s \in Translators /\ s.stopped = FALSE
    BY <1>1, StopFields
  <2>2. y = Say(s1, f)
    BY <1>9, <2>1 DEF TranslateEvent
  <2>3. kind \in {"completed", "incomplete"}
    OBVIOUS
  <2> HIDE DEF s, kind
  <2>4. s1 \in Translators /\ s1.out = s.out
    BY <2>1 DEF Translators
  <2>5. f \in Events
    BY <2>3, EventType DEF Kinds
  <2> HIDE DEF s1
  <2>6. y.out = Append(s.out, f)
    BY <2>2, <2>4, <2>5, SayFields
  <2> HIDE DEF y
  <2>7. U.status = "open"
    BY <1>2, <1>9 DEF LegalLive
  <2>8. PICK N \in Views : /\ Reaches("messages", c, Append(s.out, f), N)
                           /\ N.status = kind /\ Sizes(N.items) = Sizes(U.items)
    BY <2>3, <2>7, EndTranslated DEF s
  <2>9. V.items = U.items /\ V.status \in {"completed", "incomplete", "failed"}
    BY <1>3, <1>9 DEF ItemsAfter, Status
  <2>10. Coupled(y, V, N)
    BY <2>8, <2>9 DEF Coupled, Live
  <2>11. Reaches("messages", c, y.out, N)
    BY <2>6, <2>8
  <2> QED BY <2>10, <2>11 DEF Good
<1>10. CASE e.typed /\ e.kind \in {"quiet", "mark", "error"}
  <2>1. y = x
    BY <1>10 DEF TranslateEvent
  <2>2. V.items = U.items /\ V.status = IF e.kind = "error" THEN "error" ELSE U.status
    BY <1>3, <1>10 DEF ItemsAfter, Status
  <2>3. CASE e.kind = "error"
    <3>1. ~Live(V)
      BY <2>2, <2>3 DEF Live
    <3>2. U.status \in {"waiting", "open"}
      BY DEF Live
    <3>3. Coupled(y, V, U)
      BY <3>1, <3>2 DEF Coupled
    <3>4. Reaches("messages", c, y.out, U)
      BY <2>1
    <3> QED BY <3>3, <3>4 DEF Good
  <2>4. CASE e.kind # "error"
    <3>1. V = U
      BY <1>1, <1>3, <2>2, <2>4, ViewEqual
    <3>2. Reaches("messages", c, y.out, U) /\ Coupled(y, V, U)
      BY <2>1, <3>1
    <3> QED BY <3>2 DEF Good
  <2> QED BY <2>3, <2>4
<1> HIDE DEF y
<1> QED BY <1>0, <1>4, <1>5, <1>6, <1>7, <1>8, <1>9, <1>10 DEF Kinds

\* After the answer nothing but an error is translated.
LEMMA Translated ==
  ASSUME NEW c \in Views, NEW x \in Translators, NEW U \in Views, NEW M \in Views, Coupled(x, U, M),
         Reaches("messages", c, x.out, M),
         NEW e \in Events, Legal("messages", U, e)
  PROVE  \E N \in Views : /\ Reaches("messages", c, TranslateEvent(x, e).out, N)
                          /\ Coupled(TranslateEvent(x, e), Heard(U, e), N)
<1>1. CASE Live(U)
  <2>1. M = U
    BY <1>1 DEF Coupled
  <2> QED BY <1>1, <2>1, LiveTranslated
<1>2. CASE ~Live(U)
  <2> DEFINE y == TranslateEvent(x, e)
             N == Heard(M, e)
  <2>1. e = Untyped("error") /\ Heard(U, e) = U
    BY <1>2 DEF Legal, Heard
  <2>2. e.kind = "error" /\ e.typed = FALSE /\ Legal("messages", M, e) /\ N \in Views
        /\ N.status = (IF Live(M) THEN "error" ELSE M.status) /\ (~Live(M) => N = M)
    BY <2>1, ErrorLegal
  <2>3. y = Say(x, e)
    BY <2>2 DEF TranslateEvent
  <2>4. y.out = Append(x.out, e) /\ x.out \in Seq(Events)
    BY <2>3, SayFields DEF Translators
  <2> HIDE DEF y, N
  <2>5. Reaches("messages", c, y.out, N)
    BY <2>2, <2>4, SaidReaches DEF N
  <2>6. Coupled(y, U, N)
    BY <1>2, <2>2 DEF Coupled
  <2>7. Coupled(y, Heard(U, e), N)
    BY <2>1, <2>6
  <2> QED BY <2>2, <2>5, <2>7 DEF y
<1> QED BY <1>1, <1>2

\* All the events of a chunk.
LEMMA ChunkTranslated ==
  ASSUME NEW c \in Views, NEW x \in Translators, NEW U \in Views, NEW M \in Views, Coupled(x, U, M),
         Reaches("messages", c, x.out, M),
         NEW q \in Seq(Events), NEW V, Reaches("messages", U, q, V)
  PROVE  /\ FoldLeft(TranslateEvent, x, q) \in Translators
         /\ FoldLeft(TranslateEvent, x, q).half = x.half
         /\ \E N \in Views : /\ Reaches("messages", c, FoldLeft(TranslateEvent, x, q).out, N)
                             /\ Coupled(FoldLeft(TranslateEvent, x, q), V, N)
<1> DEFINE A == {y \in Translators : y.half = x.half}
           n == Len(q)
<1>0. n \in Nat /\ \A i \in 1..n : q[i] \in Events
  OBVIOUS
<1>1. x \in A
  OBVIOUS
<1>2. TranslateEventKeeps(A, Events)
  BY TranslateType DEF TranslateEventKeeps
<1> HIDE DEF A
<1>3. PICK t : TranslateEventTraces(A, x, q, t)
  BY <1>1, <1>2, TranslateTrace
<1>4. /\ t \in [0..n -> A] /\ t[0] = x
      /\ \A i \in 0..(n - 1) : t[i + 1] = TranslateEvent(t[i], q[i + 1])
      /\ FoldLeft(TranslateEvent, x, q) = t[n]
  BY <1>3 DEF TranslateEventTraces
<1>5. PICK u \in [0..n -> Views] : u[0] = U /\ u[n] = V /\ Hears("messages", u, q)
  BY DEF Reaches
<1>6. \A i \in 0..(n - 1) : Legal("messages", u[i], q[i + 1]) /\ u[i + 1] = Heard(u[i], q[i + 1])
  BY <1>5 DEF Hears
<1> DEFINE G(i) == \E N \in Views : Reaches("messages", c, t[i].out, N) /\ Coupled(t[i], u[i], N)
           T == {i \in Nat : G(i)}
<1>7. 0 \in T
  BY <1>4, <1>5
<1>8. ASSUME NEW i \in 0..(n - 1), i \in T PROVE i + 1 \in T
  <2> DEFINE m == i + 1
  <2>1. i \in 0..n /\ m \in 1..n /\ m \in Nat
    BY <1>0
  <2>2. /\ t[i] \in Translators /\ u[i] \in Views /\ q[m] \in Events
        /\ t[m] = TranslateEvent(t[i], q[m]) /\ Legal("messages", u[i], q[m]) /\ u[m] = Heard(u[i], q[m])
    <3>1. t[i] \in Translators
      BY <2>1, <1>4 DEF A
    <3>2. t[m] = TranslateEvent(t[i], q[m]) /\ Legal("messages", u[i], q[m]) /\ u[m] = Heard(u[i], q[m])
      BY <1>4, <1>6
    <3> HIDE DEF m
    <3> QED BY <3>1, <3>2, <2>1, <1>0, <1>5
  <2>3. PICK N \in Views : Reaches("messages", c, t[i].out, N) /\ Coupled(t[i], u[i], N)
    BY <1>8
  <2> HIDE DEF m
  <2>4. \E K \in Views : /\ Reaches("messages", c, TranslateEvent(t[i], q[m]).out, K)
                         /\ Coupled(TranslateEvent(t[i], q[m]), Heard(u[i], q[m]), K)
    BY <2>2, <2>3, Translated
  <2>5. G(m)
    BY <2>2, <2>4
  <2> HIDE DEF G
  <2> QED BY <2>1, <2>5 DEF m
<1> HIDE DEF T
<1>9. \A i \in 0..n : i \in T
  <2> HIDE DEF n
  <2> QED BY <1>0, <1>7, <1>8, StepByStep
<1>10. G(n) /\ t[n] \in A
  <2>1. n \in 0..n
    BY <1>0
  <2> QED BY <2>1, <1>4, <1>9 DEF T
<1> QED BY <1>4, <1>5, <1>10 DEF A

-------------------------------------------------------------------------------
(* ResponsesSse: what it keeps of what it was fed *)

\* The parts of the lines of q, and what ChatItems makes of the parts P.
PartsOf(q) == FlattenSeq([i \in DOMAIN q |-> q[i].parts])
Same(P, i) ==
  {j \in DOMAIN P : P[j] \in Part /\ P[j].type = P[i].type /\ P[j].index = P[i].index}
FirstMentions(P) == {i \in DOMAIN P : P[i] \in Part /\ \A j \in Same(P, i) : i <= j}
Order(P) == Ascending(FirstMentions(P), Len(P))
Deltas(P, i) == {j \in Same(P, i) : P[j].size = 1}

\* The items of s are those of P, each as long as its mentions, and its finish
\* is the last one of P.
ItemRecorded(P, it, i) ==
  it.type = P[i].type /\ it.index = P[i].index /\ it.size = Cardinality(Deltas(P, i))
ItemsRecorded(P, items) ==
  Len(items) = Len(Order(P)) /\ \A n \in 1..Len(items) : ItemRecorded(P, items[n], Order(P)[n])
FinishRecorded(P, reason) ==
  \/ reason = "none" /\ \A i \in DOMAIN P : P[i] \notin Finish
  \/ \E i \in DOMAIN P : /\ P[i] \in Finish /\ reason = P[i].reason
                         /\ \A j \in DOMAIN P : j > i => P[j] \notin Finish
Recorded(P, s) == ItemsRecorded(P, s.items) /\ FinishRecorded(P, s.finish)

\* What a part does to the items and the finish.
LEMMA FeedPartFields ==
  ASSUME NEW c \in Views, NEW s \in Sses, s.created, Emitted(c, s), NEW p \in Part \union Finish
  PROVE  IF p \in Finish
         THEN FeedPart(s, p).items = s.items /\ FeedPart(s, p).finish = p.reason
         ELSE /\ FeedPart(s, p).finish = s.finish
              /\ FeedPart(s, p).items =
                   IF ItemOf(s, p) # 0
                   THEN [s.items EXCEPT ![ItemOf(s, p)].size = @ + p.size]
                   ELSE Append(s.items, [type |-> p.type, index |-> p.index, size |-> p.size])
<1>0. s.items \in Seq(SseItem) /\ Len(s.items) \in Nat
  BY DEF Sses
<1>1. CASE p \in Finish
  <2>1. p.type = "finish"
    BY <1>1 DEF Finish
  <2>2. FeedPart(s, p) = [s EXCEPT !.finish = p.reason]
    BY <2>1 DEF FeedPart
  <2> QED BY <1>1, <2>2 DEF Sses
<1>2. CASE p \notin Finish
  <2>1. p \in Part /\ p.size \in {0, 1} /\ p.type # "finish"
    BY <1>2 DEF Part
  <2> DEFINE t == Ensure(s, p)
             item == [type |-> p.type, index |-> p.index, size |-> 0]
             k == ItemOf(s, p)
             m == ItemOf(t, p)
  <2>2. t \in Sses /\ t.created /\ Emitted(c, t) /\ t.finish = s.finish
        /\ t.items = IF k # 0 THEN s.items ELSE Append(s.items, item)
    BY <2>1, EnsureEmits
  <2>3. FeedPart(s, p) = IF p.size = 0 THEN t ELSE PushDelta(t, m, p.size)
    BY <2>1 DEF FeedPart
  <2>4. item \in SseItem /\ item.type = p.type /\ item.index = p.index /\ item.size = 0
    BY <2>1 DEF SseItem, Part
  <2> HIDE DEF item
  <2>5. /\ Append(s.items, item) \in Seq(SseItem) /\ Len(Append(s.items, item)) = Len(s.items) + 1
        /\ \A j \in 1..Len(s.items) : Append(s.items, item)[j] = s.items[j]
        /\ Append(s.items, item)[Len(s.items) + 1] = item
    BY <1>0, <2>4, AppendProperties
  <2>6. /\ k \in 0..Len(s.items)
        /\ k # 0 => s.items[k].type = p.type /\ s.items[k].index = p.index
        /\ k = 0 => \A i \in 1..Len(s.items) : ~ (s.items[i].type = p.type /\ s.items[i].index = p.index)
    BY <2>1, ItemOfFinds
  <2>7. /\ m \in 0..Len(t.items)
        /\ m # 0 => t.items[m].type = p.type /\ t.items[m].index = p.index
        /\ m = 0 => \A i \in 1..Len(t.items) : ~ (t.items[i].type = p.type /\ t.items[i].index = p.index)
    BY <2>1, <2>2, ItemOfFinds
  <2>8. k # 0 => m = k
    BY <2>2 DEF ItemOf
  <2> HIDE DEF t, k, m
  <2>9. k = 0 => m = Len(s.items) + 1
    BY <1>0, <2>2, <2>4, <2>5, <2>6, <2>7
  <2>10. p.size = 1 => /\ FeedPart(s, p).finish = s.finish
                       /\ FeedPart(s, p).items = [t.items EXCEPT ![m].size = @ + 1]
    <3>1. m \in 1..Len(t.items)
      BY <1>0, <2>2, <2>5, <2>6, <2>7, <2>8, <2>9
    <3>2. /\ PushDelta(t, m, 1).finish = t.finish
          /\ PushDelta(t, m, 1).items = [t.items EXCEPT ![m].size = @ + 1]
      <4>1. t \in Sses /\ t.created /\ Emitted(c, t)
        BY <2>2
      <4> QED BY <3>1, <4>1, PushDeltaEmits
    <3> QED BY <2>2, <2>3, <3>2
  <2>11. CASE k # 0
    <3>0. k \in 1..Len(s.items) /\ s.items[k] \in SseItem /\ m = k /\ t.items = s.items
      BY <1>0, <2>2, <2>6, <2>8, <2>11
    <3>1. CASE p.size = 0
      <4>1. s.items[k].size + 0 = s.items[k].size
        BY <3>0 DEF SseItem
      <4>2. [s.items[k] EXCEPT !.size = @ + 0] = s.items[k]
        BY <3>0, <4>1 DEF SseItem
      <4>3. [s.items EXCEPT ![k] = s.items[k]] = s.items
        BY <1>0, <3>0
      <4>4. [s.items EXCEPT ![k].size = @ + 0] = s.items
        BY <1>0, <3>0, <4>2, <4>3
      <4> QED BY <1>2, <2>2, <2>3, <2>11, <3>0, <3>1, <4>4 DEF k
    <3>2. CASE p.size = 1
      BY <1>2, <2>10, <2>11, <3>0, <3>2 DEF k
    <3> QED BY <2>1, <3>1, <3>2
  <2>12. CASE k = 0
    <3> DEFINE full == [type |-> p.type, index |-> p.index, size |-> p.size]
    <3>0. t.items = Append(s.items, item)
      BY <2>2, <2>12
    <3>1. CASE p.size = 0
      <4>1. full = item
        BY <3>1 DEF item
      <4> QED BY <1>2, <2>2, <2>3, <2>12, <3>0, <3>1, <4>1 DEF k
    <3>2. CASE p.size = 1
      <4>1. m = Len(s.items) + 1
        BY <2>9, <2>12
      <4>2. [item EXCEPT !.size = @ + 1] = full
        BY <3>2 DEF item
      <4>3. [Append(s.items, item) EXCEPT ![Len(s.items) + 1] = full] = Append(s.items, full)
        <5>1. full \in SseItem
          BY <2>1 DEF SseItem, Part
        <5> HIDE DEF full
        <5> DEFINE w == Append(s.items, item)
                   u == Append(s.items, full)
                   n == Len(s.items) + 1
                   v == [w EXCEPT ![n] = full]
        <5>2. /\ u \in Seq(SseItem) /\ Len(u) = n /\ u[n] = full
              /\ \A j \in 1..Len(s.items) : u[j] = s.items[j]
          BY <1>0, <5>1, AppendProperties
        <5>3. w \in Seq(SseItem) /\ n \in 1..Len(w) /\ Len(w) = n
              /\ \A j \in 1..Len(s.items) : w[j] = s.items[j]
          BY <1>0, <2>5
        <5> HIDE DEF w, u
        <5>4. v \in Seq(SseItem) /\ Len(v) = n /\ \A j \in 1..n : v[j] = IF j = n THEN full ELSE w[j]
          <6> HIDE DEF n
          <6> QED BY <5>1, <5>3, ExceptSeq
        <5> HIDE DEF v
        <5>5. \A j \in 1..n : v[j] = u[j]
          BY <1>0, <5>2, <5>3, <5>4
        <5>6. v = u
          BY <5>2, <5>4, <5>5, SeqEqual
        <5> QED BY <5>6 DEF v, w, u
      <4>4. [Append(s.items, item) EXCEPT ![Len(s.items) + 1].size = @ + 1] = Append(s.items, full)
        <5> DEFINE w == Append(s.items, item)
                   n == Len(s.items) + 1
        <5>1. w[n] = item
          BY <2>5
        <5>2. [w EXCEPT ![n].size = @ + 1] = [w EXCEPT ![n] = [w[n] EXCEPT !.size = @ + 1]]
          OBVIOUS
        <5> QED BY <4>2, <4>3, <5>1, <5>2
      <4> QED BY <1>2, <2>10, <2>12, <3>0, <3>2, <4>1, <4>4 DEF k
    <3> QED BY <2>1, <3>1, <3>2
  <2> QED BY <2>11, <2>12
<1> QED BY <1>1, <1>2

\* Ascending looks at the numbers it lists only.
LEMMA AscendingAgree ==
  ASSUME NEW S, NEW T, NEW n \in Nat, \A i \in 1..n : i \in S <=> i \in T
  PROVE  Ascending(S, n) = Ascending(T, n)
<1>1. [i \in 1..n |-> IF i \in S THEN <<i>> ELSE <<>>]
        = [i \in 1..n |-> IF i \in T THEN <<i>> ELSE <<>>]
  OBVIOUS
<1> QED BY <1>1, Zenon DEF Ascending

\* The first mentions of items, in order.
LEMMA OrderLists ==
  ASSUME NEW P \in Seq(Part \union Finish)
  PROVE  /\ Order(P) \in Seq(1..Len(P))
         /\ \A i, j \in 1..Len(Order(P)) : i < j => Order(P)[i] < Order(P)[j]
         /\ \A i \in 1..Len(Order(P)) : Order(P)[i] \in FirstMentions(P)
         /\ \A x \in FirstMentions(P) : \E i \in 1..Len(Order(P)) : Order(P)[i] = x
<1>1. Len(P) \in Nat /\ FirstMentions(P) \subseteq 1..Len(P)
  BY DEF FirstMentions
<1> DEFINE F == FirstMentions(P)
           m == Len(P)
<1> HIDE DEF F, m
<1>2. /\ Ascending(F, m) \in Seq(1..m)
      /\ \A i, j \in 1..Len(Ascending(F, m)) : i < j => Ascending(F, m)[i] < Ascending(F, m)[j]
      /\ \A i \in 1..Len(Ascending(F, m)) : Ascending(F, m)[i] \in F
      /\ \A x \in 1..m : x \in F => \E i \in 1..Len(Ascending(F, m)) : Ascending(F, m)[i] = x
  BY <1>1, AscendingLists DEF m
<1>3. Order(P) = Ascending(F, m)
  BY DEF Order, F, m
<1>4. F \subseteq 1..m
  BY <1>1 DEF F, m
<1> HIDE DEF Order
<1>5. \A x \in F : \E i \in 1..Len(Order(P)) : Order(P)[i] = x
  BY <1>2, <1>3, <1>4
<1> QED BY <1>2, <1>3, <1>5 DEF F, m

\* Every mention has a first one.
Mentions(P, i, p) == P[i] \in Part /\ P[i].type = p.type /\ P[i].index = p.index
LEMMA FirstMention ==
  ASSUME NEW P \in Seq(Part \union Finish), NEW p \in Part,
         NEW i \in 1..Len(P), Mentions(P, i, p)
  PROVE  \E f \in FirstMentions(P) : Mentions(P, f, p)
<1> DEFINE S == Same(P, i)
<1>0. DOMAIN P = 1..Len(P) /\ Len(P) \in Nat
  OBVIOUS
<1>1. i \in S /\ S \subseteq Nat
  BY <1>0 DEF Same, Mentions
<1>2. \A j \in S : j \in 1..Len(P) /\ Mentions(P, j, p)
  BY <1>0 DEF Same, Mentions
<1>3. \A j \in S : Same(P, j) = S
  BY DEF Same
<1> HIDE DEF S
<1>4. PICK f \in S : \A j \in S : f <= j
  BY <1>1, NatMin
<1>5. f \in FirstMentions(P)
  BY <1>0, <1>2, <1>3, <1>4 DEF FirstMentions, Mentions
<1> QED BY <1>2, <1>5

\* Two first mentions of one item are the same.
LEMMA FirstsDiffer ==
  ASSUME NEW P \in Seq(Part \union Finish), NEW p \in Part,
         NEW f \in FirstMentions(P), NEW g \in FirstMentions(P), Mentions(P, f, p), Mentions(P, g, p)
  PROVE  f = g
<1>1. f \in Nat /\ g \in Nat
  BY DEF FirstMentions
<1>2. g \in Same(P, f) /\ f \in Same(P, g)
  BY DEF FirstMentions, Same, Mentions
<1>3. f <= g /\ g <= f
  BY <1>2 DEF FirstMentions
<1> QED BY <1>1, <1>3

\* What one part more makes of the mentions.
LEMMA MentionsGrow ==
  ASSUME NEW P \in Seq(Part \union Finish), NEW p \in Part \union Finish
  PROVE  LET Q == Append(P, p)
             n == Len(P) + 1
         IN /\ Q \in Seq(Part \union Finish) /\ Len(Q) = n /\ Q[n] = p
            /\ \A i \in 1..Len(P) : Q[i] = P[i]
            /\ \A i \in 1..Len(P) :
                 Deltas(Q, i) = IF p \in Part /\ p.type = P[i].type /\ p.index = P[i].index /\ p.size = 1
                                THEN Deltas(P, i) \union {n} ELSE Deltas(P, i)
            /\ Order(Q) = IF p \in Part /\ \A i \in 1..Len(P) : ~Mentions(P, i, p)
                          THEN Append(Order(P), n) ELSE Order(P)
<1> DEFINE Q == Append(P, p)
           m == Len(P)
           n == Len(P) + 1
<1>0. /\ Q \in Seq(Part \union Finish) /\ Len(Q) = n /\ Q[n] = p
      /\ \A i \in 1..Len(P) : Q[i] = P[i]
      /\ m \in Nat /\ n \in Nat /\ n = m + 1
  BY AppendProperties
<1>1. DOMAIN P = 1..m /\ DOMAIN Q = 1..n /\ 1..n = (1..m) \union {n} /\ n \notin 1..m /\ Len(P) = m
  <2>1. DOMAIN Q = 1..Len(Q)
    BY <1>0
  <2> HIDE DEF Q
  <2> QED BY <1>0, <2>1
<1> HIDE DEF Q, m, n
<1>2. ASSUME NEW i \in 1..m
      PROVE  Same(Q, i) = IF p \in Part /\ p.type = P[i].type /\ p.index = P[i].index
                          THEN Same(P, i) \union {n} ELSE Same(P, i)
  BY <1>0, <1>1, <1>2 DEF Same
<1>3. ASSUME NEW i \in 1..m
      PROVE  Deltas(Q, i) = IF p \in Part /\ p.type = P[i].type /\ p.index = P[i].index /\ p.size = 1
                            THEN Deltas(P, i) \union {n} ELSE Deltas(P, i)
  <2>1. Same(P, i) \subseteq 1..m
    BY <1>1 DEF Same
  <2> QED BY <1>0, <1>1, <1>2, <2>1 DEF Deltas
<1>4. ASSUME NEW i \in 1..m PROVE i \in FirstMentions(Q) <=> i \in FirstMentions(P)
  <2>1. i <= n /\ i \in Nat
    BY <1>0
  <2>2. (\A j \in Same(Q, i) : i <= j) <=> (\A j \in Same(P, i) : i <= j)
    BY <1>2, <2>1
  <2> QED BY <1>0, <1>1, <2>2 DEF FirstMentions
<1>5. n \in FirstMentions(Q) <=> p \in Part /\ \A i \in 1..m : ~Mentions(P, i, p)
  <2>1. \A j \in 1..m : j < n
    BY <1>0
  <2>2. Same(Q, n) = {j \in 1..n : Q[j] \in Part /\ Q[j].type = p.type /\ Q[j].index = p.index}
    BY <1>0, <1>1 DEF Same
  <2>3. n \in FirstMentions(Q) <=> p \in Part /\ \A j \in Same(Q, n) : n <= j
    BY <1>0, <1>1 DEF FirstMentions
  <2>4. n <= n /\ \A j \in 1..m : ~ (n <= j)
    BY <1>0, <2>1
  <2>5. (\A j \in Same(Q, n) : n <= j) <=> \A j \in 1..m : j \notin Same(Q, n)
    BY <1>1, <2>2, <2>4
  <2>6. \A j \in 1..m : j \in Same(Q, n) <=> Mentions(P, j, p)
    BY <1>0, <1>1, <2>2 DEF Mentions
  <2> QED BY <2>3, <2>5, <2>6
<1>6. Order(Q) = IF n \in FirstMentions(Q) THEN Append(Order(P), n) ELSE Order(P)
  <2>1. Order(Q) = Ascending(FirstMentions(Q), m + 1)
    BY <1>0 DEF Order
  <2>2. Ascending(FirstMentions(Q), m) = Order(P)
    <3>1. Ascending(FirstMentions(Q), m) = Ascending(FirstMentions(P), m)
      BY <1>0, <1>4, AscendingAgree
    <3> QED BY <3>1 DEF Order, m
  <2>3. Ascending(FirstMentions(Q), m + 1) = IF m + 1 \in FirstMentions(Q) THEN Append(Ascending(FirstMentions(Q), m), m + 1)
                                      ELSE Ascending(FirstMentions(Q), m)
    BY <1>0, AscendingNext
  <2> QED BY <1>0, <2>1, <2>2, <2>3
<1> QED BY <1>0, <1>1, <1>3, <1>5, <1>6 DEF Q, m, n

\* The deltas of an item can be counted, and one more counts.
LEMMA DeltasCount ==
  ASSUME NEW P \in Seq(Part \union Finish), NEW i
  PROVE  /\ Cardinality(Deltas(P, i)) \in Nat
         /\ Cardinality(Deltas(P, i) \union {Len(P) + 1}) = Cardinality(Deltas(P, i)) + 1
<1> DEFINE S == Deltas(P, i)
           n == Len(P) + 1
<1>1. Len(P) \in Nat /\ n \in Nat /\ n \notin 1..Len(P)
  OBVIOUS
<1>2. S \subseteq 1..Len(P)
  BY DEF Deltas, Same
<1> HIDE DEF S, n
<1>3. IsFiniteSet(S)
  <2>1. IsFiniteSet(1..Len(P))
    BY <1>1, FS_Interval
  <2> QED BY <1>2, <2>1, FS_Subset
<1>4. n \notin S
  BY <1>1, <1>2
<1> QED BY <1>3, <1>4, FS_CardinalityType, FS_AddElement DEF S, n

\* What it keeps of one part more.
LEMMA ItemsFed ==
  ASSUME NEW c \in Views, NEW s \in Sses, s.created, Emitted(c, s), NEW p \in Part,
         NEW P \in Seq(Part \union Finish), ItemsRecorded(P, s.items)
  PROVE  ItemsRecorded(Append(P, p), FeedPart(s, p).items)
<1> DEFINE Q == Append(P, p)
           n == Len(P) + 1
           O == Order(P)
           r == FeedPart(s, p)
           k == ItemOf(s, p)
           item == [type |-> p.type, index |-> p.index, size |-> p.size]
<1>0. /\ Q \in Seq(Part \union Finish) /\ Q[n] = p /\ n \in Nat
      /\ \A i \in 1..Len(P) : Q[i] = P[i]
      /\ \A i \in 1..Len(P) :
           Deltas(Q, i) = IF p.type = P[i].type /\ p.index = P[i].index /\ p.size = 1
                          THEN Deltas(P, i) \union {n} ELSE Deltas(P, i)
      /\ Order(Q) = IF \A i \in 1..Len(P) : ~Mentions(P, i, p) THEN Append(O, n) ELSE O
      /\ n \notin 1..Len(P)
  BY MentionsGrow
<1>1. p.size \in {0, 1} /\ s.items \in Seq(SseItem) /\ Len(s.items) \in Nat /\ p \notin Finish
  <2>1. p.type # "finish"
    BY DEF Part
  <2> QED BY <2>1 DEF Part, Sses, Finish
<1>2. r.items = IF k # 0 THEN [s.items EXCEPT ![k].size = @ + p.size] ELSE Append(s.items, item)
  BY <1>1, FeedPartFields
<1>3. /\ O \in Seq(1..Len(P))
      /\ \A i, j \in 1..Len(O) : i < j => O[i] < O[j]
      /\ \A i \in 1..Len(O) : O[i] \in FirstMentions(P)
      /\ \A x \in FirstMentions(P) : \E i \in 1..Len(O) : O[i] = x
  BY OrderLists
<1>4. Len(s.items) = Len(O) /\ \A j \in 1..Len(s.items) : ItemRecorded(P, s.items[j], O[j])
  BY DEF ItemsRecorded
<1>5. /\ k \in 0..Len(s.items)
      /\ k # 0 => s.items[k].type = p.type /\ s.items[k].index = p.index
      /\ k = 0 => \A i \in 1..Len(s.items) : ~ (s.items[i].type = p.type /\ s.items[i].index = p.index)
  BY ItemOfFinds
<1> HIDE DEF Q, n, O, k, r
<1>6. ASSUME NEW j \in 1..Len(O)
      PROVE  /\ O[j] \in 1..Len(P) /\ O[j] \in FirstMentions(P) /\ P[O[j]] \in Part
             /\ Mentions(P, O[j], p) <=> s.items[j].type = p.type /\ s.items[j].index = p.index
             /\ Q[O[j]] = P[O[j]]
  <2>1. O[j] \in 1..Len(P) /\ O[j] \in FirstMentions(P)
    BY <1>3
  <2>2. P[O[j]] \in Part
    BY <2>1 DEF FirstMentions
  <2>3. ItemRecorded(P, s.items[j], O[j])
    BY <1>4
  <2> QED BY <1>0, <2>1, <2>2, <2>3 DEF Mentions, ItemRecorded
<1>7. (\E i \in 1..Len(P) : Mentions(P, i, p)) <=> k # 0
  <2>1. ASSUME NEW i \in 1..Len(P), Mentions(P, i, p) PROVE k # 0
    <3>1. PICK f \in FirstMentions(P) : Mentions(P, f, p)
      BY <2>1, FirstMention
    <3>2. PICK j \in 1..Len(O) : O[j] = f
      BY <1>3
    <3> QED BY <1>4, <1>5, <1>6, <3>1, <3>2
  <2>2. ASSUME k # 0 PROVE \E i \in 1..Len(P) : Mentions(P, i, p)
    <3>1. k \in 1..Len(O)
      BY <1>1, <1>4, <1>5, <2>2
    <3> QED BY <1>5, <1>6, <2>2, <3>1
  <2> QED BY <2>1, <2>2
<1>8. CASE k # 0
  <2>1. k \in 1..Len(O) /\ k \in 1..Len(s.items) /\ Mentions(P, O[k], p)
    BY <1>1, <1>4, <1>5, <1>6, <1>8
  <2>2. Order(Q) = O
    BY <1>0, <1>7, <1>8
  <2> DEFINE w == r.items
  <2>3. /\ w = [s.items EXCEPT ![k] = [s.items[k] EXCEPT !.size = @ + p.size]]
    BY <1>2, <1>8
  <2>4. Len(w) = Len(s.items) /\ \A j \in 1..Len(s.items) : j # k => w[j] = s.items[j]
    BY <1>1, <2>1, <2>3
  <2>5. /\ w[k].type = s.items[k].type /\ w[k].index = s.items[k].index
        /\ w[k].size = s.items[k].size + p.size
    <3>1. s.items[k] \in SseItem
      BY <1>1, <2>1
    <3>2. w[k] = [s.items[k] EXCEPT !.size = @ + p.size]
      BY <1>1, <2>1, <2>3
    <3> QED BY <3>1, <3>2 DEF SseItem
  <2> HIDE DEF w
  <2>6. ASSUME NEW j \in 1..Len(s.items) PROVE ItemRecorded(Q, w[j], O[j])
    <3>1. ItemRecorded(P, s.items[j], O[j]) /\ j \in 1..Len(O) /\ O[j] \in 1..Len(P)
      BY <1>4, <1>6
    <3>2. CASE j = k
      <4>1. p.type = P[O[k]].type /\ p.index = P[O[k]].index
        BY <2>1 DEF Mentions
      <4>2. s.items[k].size = Cardinality(Deltas(P, O[k]))
        BY <3>1, <3>2 DEF ItemRecorded
      <4>3. Cardinality(Deltas(Q, O[k])) = Cardinality(Deltas(P, O[k])) + p.size
        <5>1. CASE p.size = 1
          <6>1. Deltas(Q, O[k]) = Deltas(P, O[k]) \union {n}
            BY <1>0, <3>1, <3>2, <4>1, <5>1
          <6> QED BY <5>1, <6>1, DeltasCount DEF n
        <5>2. CASE p.size = 0
          <6>1. Deltas(Q, O[k]) = Deltas(P, O[k])
            BY <1>0, <3>1, <3>2, <5>2
          <6>2. Cardinality(Deltas(P, O[k])) \in Nat
            BY DeltasCount
          <6> QED BY <5>2, <6>1, <6>2
        <5> QED BY <1>1, <5>1, <5>2
      <4> QED BY <1>6, <2>5, <3>1, <3>2, <4>2, <4>3 DEF ItemRecorded
    <3>3. CASE j # k
      <4>1. ~Mentions(P, O[j], p)
        <5> SUFFICES ASSUME Mentions(P, O[j], p) PROVE FALSE
          OBVIOUS
        <5>1. O[j] \in FirstMentions(P) /\ O[k] \in FirstMentions(P)
          BY <1>6, <2>1, <3>1
        <5>2. O[j] = O[k]
          BY <2>1, <5>1, FirstsDiffer
        <5>3. O[j] \in Nat /\ O[k] \in Nat
          BY <1>6, <2>1, <3>1
        <5>4. j < k \/ k < j
          BY <1>1, <2>1, <3>3
        <5> QED BY <1>3, <2>1, <3>1, <5>2, <5>3, <5>4
      <4>2. ~ (p.type = P[O[j]].type /\ p.index = P[O[j]].index)
        BY <1>6, <3>1, <4>1 DEF Mentions
      <4>3. Deltas(Q, O[j]) = Deltas(P, O[j])
        BY <1>0, <3>1, <4>2
      <4> QED BY <1>6, <2>4, <3>1, <3>3, <4>3 DEF ItemRecorded
    <3> QED BY <3>2, <3>3
  <2> QED BY <1>4, <2>2, <2>4, <2>6 DEF ItemsRecorded, w, Q, r
<1>9. CASE k = 0
  <2>1. Order(Q) = Append(O, n)
    BY <1>0, <1>7, <1>9
  <2>2. item \in SseItem /\ item.type = p.type /\ item.index = p.index /\ item.size = p.size
    BY DEF SseItem, Part
  <2> HIDE DEF item
  <2> DEFINE w == r.items
             m == Len(s.items) + 1
  <2>3. w = Append(s.items, item)
    BY <1>2, <1>9
  <2>4. Len(w) = m /\ w[m] = item /\ \A j \in 1..Len(s.items) : w[j] = s.items[j]
    BY <1>1, <2>2, <2>3, AppendProperties
  <2>5. /\ Len(Order(Q)) = m /\ Order(Q)[m] = n
        /\ \A j \in 1..Len(s.items) : Order(Q)[j] = O[j]
    <3>1. O \in Seq(Nat) /\ n \in Nat
      BY <1>0, <1>3
    <3> QED BY <1>4, <2>1, <3>1, AppendProperties
  <2>6. ASSUME NEW j \in 1..Len(s.items) PROVE ItemRecorded(Q, w[j], Order(Q)[j])
    <3>1. ItemRecorded(P, s.items[j], O[j]) /\ j \in 1..Len(O) /\ O[j] \in 1..Len(P)
      BY <1>4, <1>6
    <3>2. ~Mentions(P, O[j], p)
      BY <1>7, <1>9, <3>1
    <3>3. ~ (p.type = P[O[j]].type /\ p.index = P[O[j]].index)
      BY <1>6, <3>1, <3>2 DEF Mentions
    <3>4. Deltas(Q, O[j]) = Deltas(P, O[j])
      BY <1>0, <3>1, <3>3
    <3> QED BY <1>6, <2>4, <2>5, <3>1, <3>4 DEF ItemRecorded
  <2>7. ItemRecorded(Q, w[m], Order(Q)[m])
    <3>1. Deltas(Q, n) = IF p.size = 1 THEN {n} ELSE {}
      <4>1. Len(Q) = n /\ DOMAIN Q = 1..n
        BY <1>0, MentionsGrow DEF Q, n
      <4>2. \A i \in 1..n : i # n => i \in 1..Len(P)
        BY <1>0 DEF n
      <4>3. \A i \in 1..Len(P) : ~Mentions(P, i, p)
        BY <1>7, <1>9
      <4>4. \A i \in Same(Q, n) : i = n
        BY <1>0, <4>1, <4>2, <4>3 DEF Same, Mentions
      <4>5. n \in Same(Q, n)
        <5>1. n \in 1..n
          BY DEF n
        <5> QED BY <1>0, <4>1, <5>1 DEF Same
      <4>6. Same(Q, n) = {n}
        BY <4>4, <4>5
      <4> QED BY <1>0, <4>6 DEF Deltas
    <3>2. Cardinality({n}) = 1 /\ Cardinality({}) = 0
      BY FS_Singleton, FS_EmptySet
    <3>3. Cardinality(Deltas(Q, n)) = p.size
      BY <1>1, <3>1, <3>2
    <3> QED BY <1>0, <2>2, <2>4, <2>5, <3>3 DEF ItemRecorded
  <2> HIDE DEF w
  <2>8. ASSUME NEW j \in 1..m PROVE ItemRecorded(Q, w[j], Order(Q)[j])
    <3>1. j = m \/ j \in 1..Len(s.items)
      BY <1>1
    <3> QED BY <2>6, <2>7, <3>1
  <2> HIDE DEF m
  <2> QED BY <2>4, <2>5, <2>8 DEF ItemsRecorded, w, Q, r
<1> QED BY <1>8, <1>9

\* A part more, of an item or the finish.
LEMMA PartRecorded ==
  ASSUME NEW c \in Views, NEW s \in Sses, s.created, Emitted(c, s), NEW p \in Part \union Finish,
         NEW P \in Seq(Part \union Finish), Recorded(P, s)
  PROVE  Recorded(Append(P, p), FeedPart(s, p))
<1> DEFINE Q == Append(P, p)
           n == Len(P) + 1
           r == FeedPart(s, p)
<1>1. /\ Q \in Seq(Part \union Finish) /\ Len(Q) = n /\ Q[n] = p
      /\ \A i \in 1..Len(P) : Q[i] = P[i]
      /\ \A i \in 1..Len(P) :
           Deltas(Q, i) = IF p \in Part /\ p.type = P[i].type /\ p.index = P[i].index /\ p.size = 1
                          THEN Deltas(P, i) \union {n} ELSE Deltas(P, i)
      /\ Order(Q) = IF p \in Part /\ \A i \in 1..Len(P) : ~Mentions(P, i, p)
                    THEN Append(Order(P), n) ELSE Order(P)
  BY MentionsGrow
<1>2. DOMAIN P = 1..Len(P) /\ DOMAIN Q = 1..n /\ Len(P) \in Nat
  <2>1. DOMAIN Q = 1..Len(Q)
    BY <1>1
  <2> HIDE DEF Q, n
  <2> QED BY <1>1, <2>1
<1>3. n \in 1..n /\ (\A i \in 1..n : i = n \/ i \in 1..Len(P)) /\ \A i \in 1..Len(P) : i < n /\ i \in 1..n
  BY <1>2
<1>4. IF p \in Finish THEN r.items = s.items /\ r.finish = p.reason ELSE r.finish = s.finish
  BY FeedPartFields
<1> HIDE DEF Q, n, r
<1>5. p \in Finish => p \notin Part
  <2>1. \A x \in Part : x.type # "finish"
    BY DEF Part
  <2>2. \A x \in Finish : x.type = "finish"
    BY DEF Finish
  <2> QED BY <2>1, <2>2
<1>6. ItemsRecorded(Q, r.items)
  <2>1. CASE p \notin Finish
    BY <2>1, ItemsFed DEF Recorded, Q, r
  <2>2. CASE p \in Finish
    <3>1. Order(Q) = Order(P) /\ \A i \in 1..Len(P) : Deltas(Q, i) = Deltas(P, i)
      BY <1>1, <1>5, <2>2
    <3>2. ItemsRecorded(P, s.items)
      BY DEF Recorded
    <3>3. \A j \in 1..Len(Order(P)) : Order(P)[j] \in 1..Len(P)
      BY OrderLists
    <3>4. Len(s.items) = Len(Order(P)) /\ r.items = s.items
      BY <1>4, <2>2, <3>2 DEF ItemsRecorded
    <3>5. ASSUME NEW j \in 1..Len(s.items) PROVE ItemRecorded(Q, s.items[j], Order(P)[j])
      <4>1. Order(P)[j] \in 1..Len(P) /\ ItemRecorded(P, s.items[j], Order(P)[j])
        BY <3>2, <3>3, <3>4 DEF ItemsRecorded
      <4> QED BY <1>1, <3>1, <4>1 DEF ItemRecorded
    <3> QED BY <3>1, <3>4, <3>5 DEF ItemsRecorded
  <2> QED BY <2>1, <2>2
<1>7. FinishRecorded(Q, r.finish)
  <2>1. CASE p \in Finish
    <3>1. \A j \in 1..n : ~ (j > n)
      BY <1>2 DEF n
    <3> QED BY <1>1, <1>2, <1>3, <1>4, <2>1, <3>1 DEF FinishRecorded
  <2>2. CASE p \notin Finish
    <3>1. CASE s.finish = "none" /\ \A i \in DOMAIN P : P[i] \notin Finish
      BY <1>1, <1>2, <1>3, <1>4, <2>2, <3>1 DEF FinishRecorded
    <3>2. ASSUME NEW i \in DOMAIN P, P[i] \in Finish, s.finish = P[i].reason,
                 \A j \in DOMAIN P : j > i => P[j] \notin Finish
          PROVE  FinishRecorded(Q, r.finish)
      <4>1. i \in DOMAIN Q /\ Q[i] \in Finish /\ r.finish = Q[i].reason
        BY <1>1, <1>2, <1>3, <1>4, <2>2, <3>2
      <4>2. \A j \in DOMAIN Q : j > i => Q[j] \notin Finish
        BY <1>1, <1>2, <1>3, <2>2, <3>2
      <4> QED BY <4>1, <4>2 DEF FinishRecorded
    <3> QED BY <3>1, <3>2 DEF Recorded, FinishRecorded
  <2> QED BY <2>1, <2>2
<1> QED BY <1>6, <1>7 DEF Recorded, Q, r

\* The first i elements of q.
Firstly(q, i) == [j \in 1..i |-> q[j]]
LEMMA FirstlyGrows ==
  ASSUME NEW X, NEW q \in Seq(X)
  PROVE  /\ Firstly(q, 0) = <<>> /\ Firstly(q, Len(q)) = q
         /\ \A i \in 0..Len(q) : Firstly(q, i) \in Seq(X)
         /\ \A i \in 0..(Len(q) - 1) : Firstly(q, i + 1) = Append(Firstly(q, i), q[i + 1])
<1>1. Firstly(q, 0) = <<>>
  BY DEF Firstly
<1>2. Firstly(q, Len(q)) = q
  BY DEF Firstly
<1>3. \A i \in 0..Len(q) : Firstly(q, i) \in Seq(X) /\ Len(Firstly(q, i)) = i
  BY DEF Firstly
<1>4. ASSUME NEW i \in 0..(Len(q) - 1) PROVE Firstly(q, i + 1) = Append(Firstly(q, i), q[i + 1])
  <2>1. i \in 0..Len(q) /\ i + 1 \in 0..Len(q) /\ q[i + 1] \in X
    OBVIOUS
  <2> DEFINE f == Firstly(q, i)
             g == Firstly(q, i + 1)
             h == Append(f, q[i + 1])
  <2>2. f \in Seq(X) /\ Len(f) = i /\ g \in Seq(X) /\ Len(g) = i + 1
    BY <1>3, <2>1
  <2>3. (\A j \in 1..i : f[j] = q[j]) /\ \A j \in 1..(i + 1) : g[j] = q[j]
    BY DEF Firstly
  <2> HIDE DEF f, g
  <2>4. /\ h \in Seq(X) /\ Len(h) = i + 1 /\ h[i + 1] = q[i + 1]
        /\ \A j \in 1..i : h[j] = f[j]
    BY <2>1, <2>2, AppendProperties
  <2> HIDE DEF h
  <2>5. \A j \in 1..(i + 1) : g[j] = h[j]
    BY <2>1, <2>3, <2>4
  <2>6. g = h
    BY <2>2, <2>4, <2>5, SeqEqual
  <2> QED BY <2>6 DEF f, g, h
<1> QED BY <1>1, <1>2, <1>3, <1>4

\* All the parts of a line.
LEMMA LineRecorded ==
  ASSUME NEW c \in Views, NEW s \in Sses, Emitted(c, s), NEW line \in ChatLines,
         NEW P \in Seq(Part \union Finish), Recorded(P, s)
  PROVE  Recorded(P \o line.parts, Feed(s, line))
<1> DEFINE A == {a \in Sses : a.created /\ Emitted(c, a)}
           X == Part \union Finish
           u == Created(s)
           q == line.parts
<1>1. u \in A /\ Recorded(P, u)
  BY CreatedEmits DEF Recorded
<1>2. q \in Seq(X) /\ P \in Seq(X)
  BY ChatLinesAssumption
<1>3. \A a \in A, x \in X : FeedPart(a, x) \in A
  BY FeedPartEmits
<1>4. Feed(s, line) = FoldLeft(FeedPart, u, q)
  BY DEF Feed
<1>5. \A a \in A, x \in X, R \in Seq(X) : Recorded(R, a) => Recorded(Append(R, x), FeedPart(a, x))
  BY PartRecorded
<1> HIDE DEF A, X, u, q
<1>6. PICK t : FeedPartTraces(A, u, q, t)
  <2>1. FeedPartKeeps(A, X)
    BY <1>3 DEF FeedPartKeeps
  <2> QED BY <1>1, <1>2, <2>1, FeedPartTrace
<1>7. /\ t[0] = u /\ FoldLeft(FeedPart, u, q) = t[Len(q)]
      /\ \A i \in 0..Len(q) : t[i] \in A
      /\ \A i \in 0..(Len(q) - 1) : t[i + 1] = FeedPart(t[i], q[i + 1])
  BY <1>6 DEF FeedPartTraces
<1> DEFINE T == {i \in Nat : Recorded(P \o Firstly(q, i), t[i])}
           n == Len(q)
<1>8. n \in Nat
  BY <1>2
<1>9. 0 \in T
  <2>1. P \o Firstly(q, 0) = P
    BY <1>2, FirstlyGrows, ConcatEmptySeq
  <2> QED BY <1>1, <1>7, <2>1
<1>10. ASSUME NEW i \in 0..(n - 1), i \in T PROVE i + 1 \in T
  <2>1. i \in 0..Len(q) /\ q[i + 1] \in X /\ t[i] \in A
    BY <1>2, <1>7, <1>8
  <2>2. Firstly(q, i) \in Seq(X) /\ Firstly(q, i + 1) = Append(Firstly(q, i), q[i + 1])
    BY <1>2, <2>1, FirstlyGrows
  <2> DEFINE R == P \o Firstly(q, i)
  <2>3. R \in Seq(X) /\ P \o Firstly(q, i + 1) = Append(R, q[i + 1])
    <3> DEFINE f == Firstly(q, i)
               x == q[i + 1]
    <3>1. f \in Seq(X) /\ x \in X
      BY <2>1, <2>2
    <3> HIDE DEF f, x
    <3>2. P \o f \in Seq(X) /\ <<x>> \in Seq(X)
      BY <1>2, <3>1, ConcatProperties
    <3>3. Append(P \o f, x) = (P \o f) \o <<x>> /\ Append(f, x) = f \o <<x>>
      BY <3>1, <3>2, AppendIsConcat
    <3>4. (P \o f) \o <<x>> = P \o (f \o <<x>>)
      BY <1>2, <3>1, <3>2, ConcatAssociative
    <3> QED BY <2>2, <3>2, <3>3, <3>4 DEF f, x
  <2>4. Recorded(R, t[i])
    BY <1>10
  <2> HIDE DEF R
  <2>5. Recorded(Append(R, q[i + 1]), FeedPart(t[i], q[i + 1]))
    BY <1>5, <2>1, <2>3, <2>4
  <2>6. t[i + 1] = FeedPart(t[i], q[i + 1]) /\ i + 1 \in Nat
    BY <1>7
  <2> QED BY <2>3, <2>5, <2>6
<1> HIDE DEF T
<1>11. \A i \in 0..n : i \in T
  BY <1>8, <1>9, <1>10, StepByStep
<1>12. n \in T
  BY <1>8, <1>11
<1>13. Firstly(q, n) = q
  BY <1>2, FirstlyGrows
<1> QED BY <1>4, <1>7, <1>12, <1>13 DEF T, q

\* The parts of a run of lines.
LEMMA PartsConcat ==
  ASSUME NEW q \in Seq(ChatLines)
  PROVE  /\ PartsOf(q) \in Seq(Part \union Finish) /\ PartsOf(<<>>) = <<>>
         /\ \A line \in ChatLines : /\ line.parts \in Seq(Part \union Finish)
                                    /\ PartsOf(Append(q, line)) = PartsOf(q) \o line.parts
<1> DEFINE X == Part \union Finish
           M(r) == [i \in DOMAIN r |-> r[i].parts]
<1>1. \A line \in ChatLines : line.parts \in Seq(X)
  BY ChatLinesAssumption
<1> HIDE DEF X
<1>2. M(q) \in Seq(Seq(X)) /\ Len(M(q)) = Len(q)
  <2>1. DOMAIN q = 1..Len(q) /\ Len(q) \in Nat /\ \A i \in 1..Len(q) : q[i] \in ChatLines
    OBVIOUS
  <2>2. \A i \in 1..Len(q) : q[i].parts \in Seq(X)
    BY <1>1, <2>1
  <2> QED BY <2>1, <2>2
<1>3. ASSUME NEW line \in ChatLines PROVE M(Append(q, line)) = Append(M(q), line.parts)
  <2> DEFINE a == Append(q, line)
  <2>1. DOMAIN a = 1..(Len(q) + 1) /\ a[Len(q) + 1] = line /\ \A i \in 1..Len(q) : a[i] = q[i]
    OBVIOUS
  <2> HIDE DEF a
  <2>2. M(a) \in Seq(Seq(X)) /\ Len(M(a)) = Len(q) + 1
    <3>1. Len(q) \in Nat /\ \A i \in 1..(Len(q) + 1) : i = Len(q) + 1 \/ i \in 1..Len(q)
      OBVIOUS
    <3>2. \A i \in 1..Len(q) : q[i] \in ChatLines
      OBVIOUS
    <3>3. \A i \in 1..(Len(q) + 1) : a[i].parts \in Seq(X)
      BY <1>1, <1>3, <2>1, <3>1, <3>2
    <3> QED BY <2>1, <3>1, <3>3
  <2> DEFINE u == M(q)
             l == line.parts
             b == Append(u, l)
             w == M(a)
  <2>3. /\ b \in Seq(Seq(X)) /\ Len(b) = Len(q) + 1 /\ b[Len(q) + 1] = l
        /\ \A i \in 1..Len(q) : b[i] = u[i]
    <3>1. u \in Seq(Seq(X)) /\ l \in Seq(X) /\ Len(u) = Len(q)
      BY <1>1, <1>2, <1>3
    <3> HIDE DEF u, l
    <3> QED BY <3>1, AppendProperties
  <2>4. /\ \A i \in 1..Len(q) : u[i] = q[i].parts
        /\ \A i \in 1..(Len(q) + 1) : w[i] = a[i].parts
    BY <2>1
  <2> HIDE DEF b, u, l, w
  <2>5. \A i \in 1..(Len(q) + 1) : w[i] = b[i]
    <3>1. \A i \in 1..(Len(q) + 1) : i = Len(q) + 1 \/ i \in 1..Len(q)
      OBVIOUS
    <3> QED BY <2>1, <2>3, <2>4, <3>1 DEF l
  <2>6. w = b
    <3>1. w \in Seq(Seq(X)) /\ Len(w) = Len(q) + 1
      BY <2>2 DEF w
    <3> QED BY <2>3, <2>5, <3>1, SeqEqual
  <2> QED BY <2>6 DEF w, b, u, l, a
<1>4. M(<<>>) = <<>>
  OBVIOUS
<1>5. \A r : PartsOf(r) = FlattenSeq(M(r))
  BY DEF PartsOf
<1> HIDE DEF M
<1>6. PartsOf(q) \in Seq(X)
  BY <1>2, <1>5, FlattenType
<1>7. PartsOf(<<>>) = <<>>
  BY <1>4, <1>5, FlattenEmpty
<1>8. ASSUME NEW line \in ChatLines PROVE PartsOf(Append(q, line)) = PartsOf(q) \o line.parts
  BY <1>1, <1>2, <1>3, <1>5, FlattenAppend
<1> QED BY <1>1, <1>6, <1>7, <1>8 DEF X

\* All the lines of a chunk.
LEMMA LinesRecorded ==
  ASSUME NEW c \in Views, NEW s \in Sses, Emitted(c, s), NEW q \in Seq(ChatLines),
         NEW r \in Seq(ChatLines), Recorded(PartsOf(r), s)
  PROVE  Recorded(PartsOf(r \o q), FoldLeft(Feed, s, q))
<1> DEFINE A == {a \in Sses : Emitted(c, a)}
           X == ChatLines
<1>1. s \in A
  OBVIOUS
<1>2. \A a \in A, x \in X : Feed(a, x) \in A
  BY FeedEmits
<1>3. \A a \in A, x \in X, P \in Seq(Part \union Finish) :
        Recorded(P, a) => Recorded(P \o x.parts, Feed(a, x))
  BY LineRecorded
<1>4. q \in Seq(X) /\ r \in Seq(X)
  OBVIOUS
<1>5. \A p \in Seq(X), x \in X : /\ PartsOf(p) \in Seq(Part \union Finish)
                                 /\ PartsOf(Append(p, x)) = PartsOf(p) \o x.parts
  BY PartsConcat
<1> HIDE DEF A, X
<1>6. PICK t : FeedTraces(A, s, q, t)
  <2>1. FeedKeeps(A, X)
    BY <1>2 DEF FeedKeeps
  <2> QED BY <1>1, <1>4, <2>1, FeedTrace
<1>7. /\ t[0] = s /\ FoldLeft(Feed, s, q) = t[Len(q)]
      /\ \A i \in 0..Len(q) : t[i] \in A
      /\ \A i \in 0..(Len(q) - 1) : t[i + 1] = Feed(t[i], q[i + 1])
  BY <1>6 DEF FeedTraces
<1> DEFINE T == {i \in Nat : Recorded(PartsOf(r \o Firstly(q, i)), t[i])}
           n == Len(q)
<1>8. n \in Nat
  BY <1>4
<1>9. 0 \in T
  <2>1. r \o Firstly(q, 0) = r
    BY <1>4, FirstlyGrows, ConcatEmptySeq
  <2> QED BY <1>7, <2>1
<1>10. ASSUME NEW i \in 0..(n - 1), i \in T PROVE i + 1 \in T
  <2>1. i \in 0..Len(q) /\ q[i + 1] \in X /\ t[i] \in A
    BY <1>4, <1>7, <1>8
  <2>2. Firstly(q, i) \in Seq(X) /\ Firstly(q, i + 1) = Append(Firstly(q, i), q[i + 1])
    BY <1>4, <2>1, FirstlyGrows
  <2> DEFINE R == r \o Firstly(q, i)
  <2>3. R \in Seq(X) /\ r \o Firstly(q, i + 1) = Append(R, q[i + 1])
    <3> DEFINE f == Firstly(q, i)
               x == q[i + 1]
    <3>1. f \in Seq(X) /\ x \in X
      BY <2>1, <2>2
    <3> HIDE DEF f, x
    <3>2. r \o f \in Seq(X) /\ <<x>> \in Seq(X)
      BY <1>4, <3>1, ConcatProperties
    <3>3. Append(r \o f, x) = (r \o f) \o <<x>> /\ Append(f, x) = f \o <<x>>
      BY <3>1, <3>2, AppendIsConcat
    <3>4. (r \o f) \o <<x>> = r \o (f \o <<x>>)
      BY <1>4, <3>1, <3>2, ConcatAssociative
    <3> QED BY <2>2, <3>2, <3>3, <3>4 DEF f, x
  <2>4. Recorded(PartsOf(R), t[i])
    BY <1>10
  <2> HIDE DEF R
  <2>5. PartsOf(R) \in Seq(Part \union Finish) /\ PartsOf(Append(R, q[i + 1])) = PartsOf(R) \o q[i + 1].parts
    BY <1>5, <2>1, <2>3
  <2>6. Recorded(PartsOf(R) \o q[i + 1].parts, Feed(t[i], q[i + 1]))
    BY <1>3, <2>1, <2>4, <2>5
  <2>7. t[i + 1] = Feed(t[i], q[i + 1]) /\ i + 1 \in Nat
    BY <1>7
  <2> QED BY <2>3, <2>5, <2>6, <2>7
<1> HIDE DEF T
<1>11. \A i \in 0..n : i \in T
  BY <1>8, <1>9, <1>10, StepByStep
<1>12. n \in T
  BY <1>8, <1>11
<1>13. Firstly(q, n) = q
  BY <1>4, FirstlyGrows
<1> QED BY <1>7, <1>12, <1>13 DEF T

\* What is emptied has recorded the same.
LEMMA EmptiedRecorded ==
  ASSUME NEW s \in Sses, NEW P, Recorded(P, s)
  PROVE  Recorded(P, [s EXCEPT !.out = <<>>])
BY EmptiedEmits DEF Recorded

\* The parts of lines are those of one of them, and the other way round.
Carries(q, p) == \E i \in DOMAIN q : \E j \in DOMAIN q[i].parts : q[i].parts[j] = p
LEMMA PartsCarried ==
  ASSUME NEW q \in Seq(ChatLines), NEW p
  PROVE  (\E m \in DOMAIN PartsOf(q) : PartsOf(q)[m] = p) <=> Carries(q, p)
<1> DEFINE Holds(P) == \E m \in DOMAIN P : P[m] = p
           f(i) == Firstly(q, i)
           T == {i \in Nat : Holds(PartsOf(f(i))) <=> Carries(f(i), p)}
           n == Len(q)
<1>0. n \in Nat
  OBVIOUS
<1>1. 0 \in T
  <2>1. f(0) = <<>> /\ PartsOf(f(0)) = <<>>
    BY FirstlyGrows, PartsConcat
  <2>2. DOMAIN <<>> = {}
    OBVIOUS
  <2> QED BY <2>1, <2>2 DEF Carries
<1>2. ASSUME NEW i \in 0..(n - 1), i \in T PROVE i + 1 \in T
  <2> DEFINE a == f(i)
             b == f(i + 1)
             x == q[i + 1]
  <2>1. a \in Seq(ChatLines) /\ b = Append(a, x) /\ x \in ChatLines
    BY FirstlyGrows
  <2>2. Holds(PartsOf(a)) <=> Carries(a, p)
    BY <1>2
  <2> HIDE DEF a, b, x
  <2>3. /\ PartsOf(a) \in Seq(Part \union Finish) /\ x.parts \in Seq(Part \union Finish)
        /\ PartsOf(b) = PartsOf(a) \o x.parts
    BY <2>1, PartsConcat
  <2>4. Holds(PartsOf(b)) <=> Holds(PartsOf(a)) \/ Holds(x.parts)
    <3> DEFINE u == PartsOf(a)
               v == x.parts
               w == u \o v
    <3>1. /\ u \in Seq(Part \union Finish) /\ v \in Seq(Part \union Finish)
      BY <2>3
    <3> HIDE DEF u, v
    <3>2. /\ w \in Seq(Part \union Finish) /\ Len(w) = Len(u) + Len(v)
          /\ \A m \in 1..Len(u) : w[m] = u[m]
          /\ \A m \in 1..Len(v) : w[Len(u) + m] = v[m]
      BY <3>1, ConcatProperties
    <3>3. DOMAIN u = 1..Len(u) /\ DOMAIN v = 1..Len(v) /\ Len(u) \in Nat /\ Len(v) \in Nat
      BY <3>1
    <3>4. DOMAIN w = 1..(Len(u) + Len(v))
      <4>1. DOMAIN w = 1..Len(w)
        BY <3>2
      <4> HIDE DEF w
      <4> QED BY <3>2, <4>1
    <3> HIDE DEF w
    <3>5. ASSUME Holds(w) PROVE Holds(u) \/ Holds(v)
      <4>1. PICK m \in 1..(Len(u) + Len(v)) : w[m] = p
        BY <3>4, <3>5
      <4>2. CASE m \in 1..Len(u)
        BY <3>2, <3>3, <4>1, <4>2
      <4>3. CASE m \notin 1..Len(u)
        <5>1. m - Len(u) \in 1..Len(v) /\ Len(u) + (m - Len(u)) = m
          BY <3>3, <4>3
        <5>2. v[m - Len(u)] = p
          BY <3>2, <4>1, <5>1
        <5> QED BY <3>3, <5>1, <5>2
      <4> QED BY <4>2, <4>3
    <3>6. ASSUME Holds(u) PROVE Holds(w)
      <4>1. PICK m \in 1..Len(u) : u[m] = p
        BY <3>3, <3>6
      <4>2. m \in 1..(Len(u) + Len(v))
        BY <3>3
      <4> QED BY <3>2, <3>4, <4>1, <4>2
    <3>7. ASSUME Holds(v) PROVE Holds(w)
      <4>1. PICK m \in 1..Len(v) : v[m] = p
        BY <3>3, <3>7
      <4>2. Len(u) + m \in 1..(Len(u) + Len(v))
        BY <3>3
      <4> QED BY <3>2, <3>4, <4>1, <4>2
    <3> QED BY <2>3, <3>5, <3>6, <3>7 DEF u, v, w
  <2>5. Carries(b, p) <=> Carries(a, p) \/ Holds(x.parts)
    <3>1. /\ DOMAIN a = 1..Len(a) /\ Len(a) \in Nat /\ DOMAIN b = 1..(Len(a) + 1) /\ b[Len(a) + 1] = x
          /\ \A m \in 1..Len(a) : b[m] = a[m]
      BY <2>1
    <3>2. /\ \A m \in 1..(Len(a) + 1) : m = Len(a) + 1 \/ m \in 1..Len(a)
          /\ \A m \in 1..Len(a) : m \in 1..(Len(a) + 1)
          /\ Len(a) + 1 \in 1..(Len(a) + 1)
      BY <3>1
    <3>3. ASSUME Carries(b, p) PROVE Carries(a, p) \/ Holds(x.parts)
      BY <3>1, <3>2, <3>3 DEF Carries
    <3>4. ASSUME Carries(a, p) PROVE Carries(b, p)
      BY <3>1, <3>2, <3>4 DEF Carries
    <3>5. ASSUME Holds(x.parts) PROVE Carries(b, p)
      BY <3>1, <3>2, <3>5 DEF Carries
    <3> QED BY <3>3, <3>4, <3>5
  <2>6. Holds(PartsOf(b)) <=> Carries(b, p)
    BY <2>2, <2>4, <2>5
  <2> HIDE DEF Holds
  <2> QED BY <2>6 DEF b
<1>3. n \in T
  <2> HIDE DEF T
  <2>1. \A i \in 0..n : i \in T
    BY <1>0, <1>1, <1>2, StepByStep
  <2> QED BY <1>0, <2>1
<1>4. f(n) = q
  BY FirstlyGrows
<1> QED BY <1>3, <1>4

\* A finish_reason is given once.
OneFinish(P) == \A i, j \in DOMAIN P : P[i] \in Finish /\ P[j] \in Finish => i = j
LEMMA OneFinishStays ==
  ASSUME NEW q \in Seq(ChatLines), NEW line \in ChatLines, OneFinish(PartsOf(q)),
         (\E i \in DOMAIN q : Finishes(q[i])) => line.parts = <<>>
  PROVE  OneFinish(PartsOf(Append(q, line)))
<1> DEFINE u == PartsOf(q)
           v == line.parts
           w == u \o v
<1>1. /\ u \in Seq(Part \union Finish) /\ v \in Seq(Part \union Finish)
      /\ PartsOf(Append(q, line)) = w
  BY PartsConcat
<1>2. \A i, j \in DOMAIN v : v[i] \in Finish /\ v[j] \in Finish => i = j
  BY FinishAssumption
<1>3. (\E m \in DOMAIN u : u[m] \in Finish) => v = <<>>
  <2> SUFFICES ASSUME NEW m \in DOMAIN u, u[m] \in Finish PROVE v = <<>>
    OBVIOUS
  <2>1. Carries(q, u[m])
    BY PartsCarried
  <2>2. u[m].type = "finish"
    BY DEF Finish
  <2>3. \E i \in DOMAIN q : Finishes(q[i])
    BY <2>1, <2>2 DEF Carries, Finishes
  <2> QED BY <2>3
<1>4. OneFinish(u)
  OBVIOUS
<1> HIDE DEF u, v
<1>5. CASE v = <<>>
  <2>1. w = u
    BY <1>1, <1>5, ConcatEmptySeq
  <2> QED BY <1>1, <1>4, <2>1
<1>6. CASE \A m \in DOMAIN u : u[m] \notin Finish
  <2>1. /\ w \in Seq(Part \union Finish) /\ Len(w) = Len(u) + Len(v)
        /\ \A m \in 1..Len(u) : w[m] = u[m]
        /\ \A m \in 1..Len(v) : w[Len(u) + m] = v[m]
    BY <1>1, ConcatProperties
  <2>2. DOMAIN u = 1..Len(u) /\ DOMAIN v = 1..Len(v) /\ Len(u) \in Nat /\ Len(v) \in Nat
    BY <1>1
  <2>3. DOMAIN w = 1..(Len(u) + Len(v))
    <3>1. DOMAIN w = 1..Len(w)
      BY <2>1
    <3> HIDE DEF w
    <3> QED BY <2>1, <3>1
  <2> HIDE DEF w
  <2>4. ASSUME NEW m \in DOMAIN w, w[m] \in Finish
        PROVE  /\ m - Len(u) \in DOMAIN v /\ v[m - Len(u)] = w[m] /\ m \in Int
    <3>1. m \notin 1..Len(u)
      BY <1>6, <2>1, <2>2, <2>4
    <3>2. m - Len(u) \in 1..Len(v) /\ Len(u) + (m - Len(u)) = m
      BY <2>2, <2>3, <3>1
    <3> QED BY <2>1, <2>2, <2>3, <3>2
  <2>5. ASSUME NEW i \in DOMAIN w, NEW j \in DOMAIN w, w[i] \in Finish, w[j] \in Finish PROVE i = j
    <3>1. i - Len(u) = j - Len(u) /\ i \in Int /\ j \in Int
      BY <1>2, <2>4, <2>5
    <3> QED BY <2>2, <3>1
  <2> QED BY <1>1, <2>5 DEF OneFinish
<1> QED BY <1>3, <1>5, <1>6

\* The outcome of a completion is told by its finish_reason.
LEMMA OutcomeRecorded ==
  ASSUME NEW q \in Seq(ChatLines), NEW s \in Sses, Recorded(PartsOf(q), s), OneFinish(PartsOf(q))
  PROVE  Outcome(s.finish) = "completed" <=>
           \E i \in DOMAIN q : \E j \in DOMAIN q[i].parts :
             q[i].parts[j].type = "finish" /\ q[i].parts[j].reason \in {"stop", "tool_calls"}
<1> DEFINE P == PartsOf(q)
           R == {"stop", "tool_calls"}
<1>0. /\ Outcome(s.finish) = "completed" <=> s.finish \in R
      /\ "none" \notin R
  BY DEF Outcome
<1>1. FinishRecorded(P, s.finish) /\ P \in Seq(Part \union Finish)
  BY PartsConcat DEF Recorded
<1>2. \A m \in DOMAIN P : P[m].type = "finish" <=> P[m] \in Finish
  <2>1. \A m \in DOMAIN P : P[m] \in Part \union Finish
    BY <1>1
  <2>2. \A x \in Part : x.type # "finish"
    BY DEF Part
  <2>3. \A x \in Finish : x.type = "finish"
    BY DEF Finish
  <2> HIDE DEF P
  <2> QED BY <2>1, <2>2, <2>3
<1>3. OneFinish(P)
  OBVIOUS
<1>4. \A p : (\E m \in DOMAIN P : P[m] = p) <=> Carries(q, p)
  BY PartsCarried
<1> HIDE DEF P, R
<1>5. ASSUME s.finish \in R
      PROVE  \E i \in DOMAIN q : \E j \in DOMAIN q[i].parts :
               q[i].parts[j].type = "finish" /\ q[i].parts[j].reason \in R
  <2>1. PICK m \in DOMAIN P : P[m] \in Finish /\ s.finish = P[m].reason
    BY <1>0, <1>1, <1>5 DEF FinishRecorded
  <2>2. Carries(q, P[m])
    BY <1>4
  <2> QED BY <1>2, <1>5, <2>1, <2>2 DEF Carries
<1>6. ASSUME NEW i \in DOMAIN q, NEW j \in DOMAIN q[i].parts,
             q[i].parts[j].type = "finish", q[i].parts[j].reason \in R
      PROVE  s.finish \in R
  <2> DEFINE p == q[i].parts[j]
  <2>1. Carries(q, p)
    BY DEF Carries
  <2>2. PICK m \in DOMAIN P : P[m] = p
    BY <1>4, <2>1
  <2>3. P[m] \in Finish
    BY <1>2, <1>6, <2>2
  <2>4. PICK k \in DOMAIN P : P[k] \in Finish /\ s.finish = P[k].reason
    BY <1>1, <2>3 DEF FinishRecorded
  <2>5. k = m
    BY <1>3, <2>3, <2>4 DEF OneFinish
  <2> QED BY <1>6, <2>2, <2>4, <2>5
<1> QED BY <1>0, <1>5, <1>6 DEF R

\* And its items by what ChatItems counts.
LEMMA ItemsRecordedAre ==
  ASSUME said \in Seq(ChatLines), NEW s \in Sses, Recorded(PartsOf(said), s)
  PROVE  Output(s) = ChatItems
<1> DEFINE P == PartsOf(said)
           O == Order(P)
           f == [n \in DOMAIN O |-> Cardinality(Deltas(P, O[n]))]
<1>1. ChatItems = f
  BY Zenon DEF ChatItems, PartsOf, Order, FirstMentions, Same, Deltas
<1>2. ItemsRecorded(P, s.items) /\ P \in Seq(Part \union Finish)
  BY PartsConcat DEF Recorded
<1>3. O \in Seq(1..Len(P))
  BY <1>2, OrderLists
<1> HIDE DEF P, O
<1>4. DOMAIN O = 1..Len(O) /\ DOMAIN s.items = 1..Len(s.items)
  <2>1. s.items \in Seq(SseItem)
    BY DEF Sses
  <2> QED BY <1>3, <2>1
<1>5. Len(s.items) = Len(O) /\ \A n \in 1..Len(s.items) : s.items[n].size = Cardinality(Deltas(P, O[n]))
  BY <1>2 DEF ItemsRecorded, ItemRecorded, O
<1>6. Output(s) = f
  BY <1>4, <1>5 DEF Output
<1> QED BY <1>1, <1>6
===============================================================================
