-------------------------- MODULE ResponseStream_proofs ------------------------
(***************************************************************************)
(* The client of a streamed answer reads the protocol of ResponseProtocol, *)
(* whatever the upstream says and wherever the network cuts it, and an     *)
(* answer it is told has ended is the one the upstream gave.  The proof    *)
(* follows what is still on its way: the events the backend has not read,  *)
(* those the guard holds, those the second translator was not told, and    *)
(* those the client has not read.  What a client that reads them all will  *)
(* have made of them is known at every step (Telling), and so is what the  *)
(* translator keeps of the chat completion it was fed (Reading); when the  *)
(* answer is over or the client gone, nothing moves any more (Over).       *)
(***************************************************************************)
EXTENDS ResponseStream_lemmas

-------------------------------------------------------------------------------
(* The inductive invariant *)

LineSet == IF mode = "translate" THEN ChatLines ELSE Events
Guards == [flushed : BOOLEAN, held : Seq(Pieces(Events)), half : Seq(Pieces(Events))]

\* The half line of the stage that reads the body.
ReaderHalf == IF api = "messages" THEN xlate.half ELSE client.half

Types ==
  /\ api \in {"responses", "messages"} /\ mode \in {"translate", "passthrough"}
  /\ mode = "translate" => api = "responses"
  /\ told \in Views
  /\ socket \in Seq(Pieces(LineSet)) /\ torn \in LineSet \union {NoLine}
  /\ upstream \in {"sending", "eof", "broken"}
  /\ sse \in Sses /\ guard \in Guards
  /\ pc \in {"streaming", "settling", "over"}
  /\ body \in Seq(Pieces(Events))
  /\ xlate \in Translators /\ inbox \in Seq(Events) /\ client \in Clients

\* What was stored, and the variables one mode does not use.
Ledger ==
  /\ stored # <<>> => mode = "translate" /\ pc = "over" /\ stored = Output(sse)
  /\ pc = "settling" => mode = "translate"
  /\ mode = "translate" => told = NewClient

\* What was said of a chat completion, as long as none of its lines is torn:
\* the lines that are not in the socket are recorded.
Unbroken == mode = "translate" /\ "translate" \notin TornModes
ReadSoFar == \E q \in Seq(ChatLines) : said = q \o Ended(socket) /\ Recorded(PartsOf(q), sse)
Reading ==
  Unbroken =>
    /\ torn = NoLine /\ said \in Seq(ChatLines) /\ OneFinish(PartsOf(said))
    /\ \A i \in DOMAIN socket : socket[i].part = "whole"
    /\ pc = "streaming" => ReadSoFar
AllRead == "translate" \notin TornModes => Recorded(PartsOf(said), sse)

\* The tail of a torn line, while it can still come.
Coming == IF torn # NoLine /\ upstream = "sending" THEN <<[line |-> torn, part |-> "tail"]>> ELSE <<>>

\* What a passthrough holds back, and what has arrived or is sure to.
Pending ==
  IF pc = "streaming" /\ mode = "passthrough" THEN (guard.held \o socket) \o Coming ELSE <<>>
Full == body \o Pending

\* What the events on their way to the reader lead to: D is what they make of
\* the answer in the end.
Produced(D) ==
  IF pc = "streaming"
  THEN IF mode = "translate" THEN D = SseView(sse)
       ELSE D = told \/ (upstream = "broken" /\ Live(D))
  ELSE D.status \in {"completed", "incomplete", "failed"} =>
         IF mode = "translate"
         THEN /\ socket = <<>> /\ upstream = "eof" /\ AllRead
              /\ D.status = Outcome(sse.finish) /\ Sizes(D.items) = Output(sse)
         ELSE Sizes(D.items) = Sizes(told.items)

\* The guard has sent nothing before it has forwarded, and holds nothing after.
Held(U) ==
  mode = "passthrough" /\ pc = "streaming" =>
    IF guard.flushed THEN guard.held = <<>> ELSE body = <<>> /\ U = NewClient

\* From U, where all that was delivered leads, what is on its way leads to D.
Ready(U, D) ==
  /\ Joined(ReaderHalf \o Full)
  /\ Reaches(api, U, Ended(Full), D)
  /\ Produced(D) /\ Held(U)

\* M is what the client makes of all that was delivered, and U what one of
\* the Responses API would.
Followed(U, M) ==
  /\ Reaches(api, View(client), inbox, M)
  /\ IF api = "responses" THEN M = U ELSE Coupled(xlate, U, M)

Telling ==
  /\ client.status # "cut"
  /\ \E U, D, M \in Views : Followed(U, M) /\ Ready(U, D)

\* Nothing moves any more; the promises of the answer stand as they are.
Over ==
  /\ pc = "over" /\ body = <<>> /\ inbox = <<>> /\ ~Listening
  /\ StoredAsTold
  /\ mode = "passthrough" \/ Unbroken => Faithful /\ TruncationTold

Inv == Types /\ Ledger /\ Reading /\ (Telling \/ Over)

-------------------------------------------------------------------------------
(* The pieces on their way *)

\* Their types.
LEMMA FullType ==
  ASSUME Types
  PROVE  /\ ReaderHalf \in Halves(Events) /\ ReaderHalf \in Seq(Pieces(Events))
         /\ mode = "passthrough" => /\ LineSet = Events /\ socket \in Seq(Pieces(Events))
                                    /\ Coming \in Seq(Pieces(Events))
         /\ guard.held \in Seq(Pieces(Events)) /\ guard.flushed \in BOOLEAN
         /\ Pending \in Seq(Pieces(Events)) /\ Full \in Seq(Pieces(Events))
<1>1. ReaderHalf \in Halves(Events)
  BY DEF Types, ReaderHalf, Translators, Clients
<1>2. ReaderHalf \in Seq(Pieces(Events))
  <2>1. CASE ReaderHalf = <<>>
    BY <2>1
  <2>2. CASE ReaderHalf # <<>>
    <3>1. PICK p \in Pieces(Events) : ReaderHalf = <<p>>
      BY <2>2, <1>1 DEF Halves
    <3> QED BY <3>1
  <2> QED BY <2>1, <2>2
<1>3. guard.held \in Seq(Pieces(Events)) /\ guard.flushed \in BOOLEAN
  BY DEF Types, Guards
<1>4. ASSUME mode = "passthrough"
      PROVE  /\ LineSet = Events /\ socket \in Seq(Pieces(Events))
             /\ Coming \in Seq(Pieces(Events))
  <2>1. LineSet = Events
    BY <1>4 DEF LineSet
  <2>2. socket \in Seq(Pieces(Events)) /\ torn \in Events \union {NoLine}
    BY <2>1 DEF Types
  <2>3. CASE torn # NoLine /\ upstream = "sending"
    <3>1. torn \in Events /\ Coming = <<[line |-> torn, part |-> "tail"]>>
      BY <2>2, <2>3 DEF Coming
    <3>2. [line |-> torn, part |-> "tail"] \in Pieces(Events)
      BY <3>1, PieceType
    <3> QED BY <2>1, <2>2, <3>1, <3>2
  <2>4. CASE ~ (torn # NoLine /\ upstream = "sending")
    BY <2>1, <2>2, <2>4 DEF Coming
  <2> QED BY <2>3, <2>4
<1>5. Pending \in Seq(Pieces(Events))
  <2>1. CASE pc = "streaming" /\ mode = "passthrough"
    <3>1. guard.held \o socket \in Seq(Pieces(Events))
      BY <2>1, <1>3, <1>4, ConcatProperties
    <3>2. (guard.held \o socket) \o Coming \in Seq(Pieces(Events))
      BY <2>1, <1>4, <3>1, ConcatProperties
    <3> QED BY <2>1, <3>2 DEF Pending
  <2>2. CASE ~ (pc = "streaming" /\ mode = "passthrough")
    BY <2>2 DEF Pending
  <2> QED BY <2>1, <2>2
<1>6. Full \in Seq(Pieces(Events))
  BY <1>5, ConcatProperties DEF Full, Types
<1> QED BY <1>1, <1>2, <1>3, <1>4, <1>5, <1>6

\* How sequences over S that are put together are grouped does not matter.
Grouping(x, y, z) == (x \o y) \o z = x \o (y \o z)
Groups(S) == \A x, y, z \in Seq(S) : Grouping(x, y, z)
LEMMA Grouped ==
  ASSUME NEW S
  PROVE  Groups(S)
<1> SUFFICES ASSUME NEW x \in Seq(S), NEW y \in Seq(S), NEW z \in Seq(S)
             PROVE  (x \o y) \o z = x \o (y \o z)
  BY DEF Groups, Grouping
<1> QED BY ConcatAssociative

\* What a passthrough has on its way, one stage after the other.
LEMMA FullParts ==
  ASSUME Types, pc = "streaming", mode = "passthrough"
  PROVE  /\ body \o guard.held \in Seq(Pieces(Events))
         /\ (body \o guard.held) \o socket \in Seq(Pieces(Events))
         /\ Full = ((body \o guard.held) \o socket) \o Coming
<1> DEFINE a == guard.held \o socket
           b == body \o guard.held
<1>1. /\ body \in Seq(Pieces(Events)) /\ guard.held \in Seq(Pieces(Events))
      /\ socket \in Seq(Pieces(Events)) /\ Coming \in Seq(Pieces(Events))
  BY FullType DEF Types
<1>2. a \in Seq(Pieces(Events)) /\ b \in Seq(Pieces(Events))
  BY <1>1, ConcatProperties
<1>3. Groups(Pieces(Events))
  BY Grouped
<1>4. b \o socket = body \o a
  <2>1. Grouping(body, guard.held, socket)
    BY <1>1, <1>3, Zenon DEF Groups
  <2> QED BY <2>1 DEF Grouping
<1>5. b \o socket \in Seq(Pieces(Events))
  BY <1>1, <1>2, ConcatProperties
<1> HIDE DEF a
<1>6. (body \o a) \o Coming = body \o (a \o Coming)
  <2>1. Grouping(body, a, Coming)
    BY <1>1, <1>2, <1>3, Zenon DEF Groups
  <2> QED BY <2>1 DEF Grouping
<1>7. Full = body \o (a \o Coming)
  BY DEF Full, Pending, a
<1> QED BY <1>2, <1>4, <1>5, <1>6, <1>7

\* A sequence without its last element.
LastSplit(S, s) ==
  \E f \in Seq(S) : /\ s = f \o <<s[Len(s)]>>
                    /\ \A w \in S : [s EXCEPT ![Len(s)] = w] = f \o <<w>>
LEMMA SplitLast ==
  ASSUME NEW S, NEW s \in Seq(S), s # <<>>
  PROVE  LastSplit(S, s)
<1> DEFINE n == Len(s)
           m == n - 1
           f == [i \in 1..m |-> s[i]]
<1>1. n \in Nat /\ n > 0 /\ m \in Nat /\ DOMAIN s = 1..n /\ \A i \in 1..n : s[i] \in S
  BY EmptySeq
<1>2. f \in Seq(S) /\ Len(f) = m /\ \A i \in 1..m : f[i] = s[i]
  <2> HIDE DEF n, m
  <2>1. \A i \in 1..m : i \in 1..n
    BY <1>1 DEF m
  <2> QED BY <1>1, <2>1
<1> HIDE DEF f
<1>3. ASSUME NEW w \in S
      PROVE  /\ f \o <<w>> \in Seq(S) /\ Len(f \o <<w>>) = n
             /\ \A i \in 1..n : (f \o <<w>>)[i] = IF i = n THEN w ELSE s[i]
  <2> DEFINE g == f \o <<w>>
  <2>1. /\ g \in Seq(S) /\ Len(g) = m + 1
        /\ \A i \in 1..(m + 1) : g[i] = IF i <= m THEN f[i] ELSE <<w>>[i - m]
    <3> DEFINE v == <<w>>
    <3>1. v \in Seq(S) /\ Len(v) = 1
      OBVIOUS
    <3> HIDE DEF v, m
    <3> QED BY <1>2, <3>1, ConcatProperties DEF v
  <2>2. m + 1 = n
    BY <1>1
  <2> HIDE DEF g, n
  <2>3. ASSUME NEW i \in 1..n PROVE g[i] = IF i = n THEN w ELSE s[i]
    <3>1. CASE i <= m
      BY <3>1, <1>1, <1>2, <2>1, <2>2
    <3>2. CASE ~ (i <= m)
      <4>1. i = n /\ i - m = 1
        BY <3>2, <1>1, <2>2
      <4> QED BY <4>1, <3>2, <2>1, <2>2
    <3> QED BY <3>1, <3>2
  <2> QED BY <2>1, <2>2, <2>3 DEF g
<1>4. ASSUME NEW w \in S PROVE [s EXCEPT ![n] = w] = f \o <<w>>
  <2>1. /\ [s EXCEPT ![n] = w] \in Seq(S) /\ Len([s EXCEPT ![n] = w]) = n
        /\ \A i \in 1..n : [s EXCEPT ![n] = w][i] = IF i = n THEN w ELSE s[i]
    BY <1>1, ExceptSeq
  <2> DEFINE x == [s EXCEPT ![n] = w]
             y == f \o <<w>>
  <2>2. x \in Seq(S) /\ y \in Seq(S) /\ Len(x) = Len(y) /\ \A i \in 1..Len(x) : x[i] = y[i]
    BY <2>1, <1>3
  <2> HIDE DEF x, y
  <2>3. x = y
    BY <2>2, SeqEqual
  <2> QED BY <2>3 DEF x, y
<1>5. s = f \o <<s[n]>>
  <2> DEFINE y == f \o <<s[n]>>
  <2>1. s[n] \in S
    BY <1>1
  <2>2. y \in Seq(S) /\ Len(s) = Len(y) /\ \A i \in 1..Len(s) : s[i] = y[i]
    BY <2>1, <1>3
  <2> HIDE DEF y
  <2>3. s = y
    BY <2>2, SeqEqual
  <2> QED BY <2>3 DEF y
<1> QED BY <1>2, <1>4, <1>5 DEF LastSplit

\* The tail of a line joins its head.
LEMMA TailJoins ==
  ASSUME NEW L, NEW B \in Seq(Pieces(L)), NEW s \in Seq(Pieces(L)), s # <<>>, NEW l \in L,
         Joined((B \o s) \o <<[line |-> l, part |-> "tail"]>>)
  PROVE  /\ s[Len(s)] = [line |-> l, part |-> "head"]
         /\ [s EXCEPT ![Len(s)] = Whole(l)] \in Seq(Pieces(L))
         /\ Joined(B \o [s EXCEPT ![Len(s)] = Whole(l)])
<1> DEFINE tail == [line |-> l, part |-> "tail"]
           w == Whole(l)
           n == Len(s)
<1>1. /\ tail \in Pieces(L) /\ tail.line = l /\ tail.part = "tail"
      /\ w \in Pieces(L) /\ w.line = l /\ w.part = "whole"
  BY PieceType DEF Whole
<1>2. [tail EXCEPT !.part = "head"] = [line |-> l, part |-> "head"]
  OBVIOUS
<1> HIDE DEF tail, w
<1>3. n \in Nat /\ n > 0 /\ Len(B) \in Nat
  BY EmptySeq
<1> DEFINE x == B \o s
           y == x \o <<tail>>
<1>4. /\ x \in Seq(Pieces(L)) /\ Len(x) = Len(B) + n /\ x[Len(B) + n] = s[n]
  BY <1>3, ConcatProperties
<1> DEFINE k == Len(B) + n
<1> HIDE DEF x
<1>5. /\ y \in Seq(Pieces(L)) /\ Len(y) = k + 1 /\ y[k + 1] = tail /\ y[k] = x[k] /\ k \in Nat /\ k > 0
  <2>1. k \in Nat /\ k > 0 /\ Len(x) = k
    BY <1>3, <1>4
  <2> HIDE DEF k
  <2> QED BY <1>1, <1>4, <2>1, ConcatProperties
<1>6. Joined(y)
  BY DEF x, y, tail
<1> HIDE DEF y, k
<1>7. y[k] = [tail EXCEPT !.part = "head"]
  <2>1. k + 1 \in DOMAIN y /\ (k + 1) - 1 = k
    BY <1>5
  <2> DEFINE j == k + 1
  <2> HIDE DEF j
  <2>2. y[j - 1] = [y[j] EXCEPT !.part = "head"]
    BY <2>1, <1>5, <1>6, <1>1 DEF Joined, j
  <2> QED BY <2>1, <2>2, <1>5 DEF j
<1>8. s[n] = [line |-> l, part |-> "head"]
  BY <1>2, <1>4, <1>5, <1>7 DEF k
<1>9. PICK f \in Seq(Pieces(L)) : /\ s = f \o <<s[n]>>
                                  /\ \A v \in Pieces(L) : [s EXCEPT ![n] = v] = f \o <<v>>
  <2>1. LastSplit(Pieces(L), s)
    BY SplitLast
  <2> QED BY <2>1 DEF LastSplit
<1>10. [s EXCEPT ![n] = w] = f \o <<w>>
  BY <1>1, <1>9
<1>11. f \o <<w>> \in Seq(Pieces(L))
  BY <1>1, ConcatProperties
<1>12. Joined(B \o (f \o <<w>>))
  <2> DEFINE h == <<s[n]>>
             t == <<tail>>
             u == <<w>>
             g == B \o f
  <2>1. s[n] \in Pieces(L)
    BY <1>3
  <2>2. h \in Seq(Pieces(L)) /\ t \in Seq(Pieces(L)) /\ u \in Seq(Pieces(L)) /\ g \in Seq(Pieces(L))
    BY <1>1, <2>1, ConcatProperties
  <2>3. Groups(Pieces(L))
    BY Grouped
  <2>4. s = f \o h
    BY <1>9
  <2>5. Joined(u)
    <3>1. u \in Seq(Pieces(L)) /\ Len(u) = 1 /\ u[1] = w /\ DOMAIN u = {1}
      BY <1>1
    <3> HIDE DEF u
    <3> QED BY <3>1, <1>1 DEF Joined
  <2> HIDE DEF h, t, u
  <2>6. Grouping(B, f, h) /\ Grouping(B, f, u)
    BY <2>2, <2>3, Zenon DEF Groups
  <2>7. B \o (f \o h) = g \o h /\ B \o (f \o u) = g \o u
    BY <2>6 DEF Grouping
  <2> HIDE DEF g
  <2>8. (g \o h) \o t = g \o (h \o t) /\ h \o t \in Seq(Pieces(L))
    <3>1. h \o t \in Seq(Pieces(L))
      BY <2>2, ConcatProperties
    <3>2. Grouping(g, h, t)
      BY <2>2, <2>3, Zenon DEF Groups
    <3> QED BY <3>1, <3>2 DEF Grouping
  <2>9. Joined(g \o (h \o t))
    BY <1>6, <2>4, <2>7, <2>8 DEF x, y, t
  <2>10. Joined(g)
    BY <2>2, <2>8, <2>9, JoinedPrefix
  <2>11. Joined(g \o u)
    BY <2>2, <2>5, <2>10, JoinedConcat
  <2> QED BY <2>7, <2>11 DEF u
<1> QED BY <1>8, <1>10, <1>11, <1>12 DEF w

\* The line ends there.
TailEnded(A, s, l) ==
  /\ Ended((A \o s) \o <<[line |-> l, part |-> "tail"]>>) = Ended(A \o s) \o <<l>>
  /\ Ended(A \o [s EXCEPT ![Len(s)] = Whole(l)]) = Ended(A \o s) \o <<l>>
LEMMA TailEnds ==
  ASSUME NEW L, NEW A \in Seq(Pieces(L)), NEW s \in Seq(Pieces(L)), s # <<>>, NEW l \in L,
         s[Len(s)] = [line |-> l, part |-> "head"]
  PROVE  TailEnded(A, s, l)
<1> DEFINE tail == [line |-> l, part |-> "tail"]
           w == Whole(l)
           n == Len(s)
           h == s[n]
<1>1. /\ tail \in Pieces(L) /\ w \in Pieces(L) /\ h \in Pieces(L)
      /\ LineEnded(tail) = <<l>> /\ LineEnded(w) = <<l>> /\ LineEnded(h) = <<>>
  <2>1. /\ tail \in Pieces(L) /\ tail.line = l /\ tail.part = "tail"
        /\ w \in Pieces(L) /\ w.line = l /\ w.part = "whole"
        /\ h \in Pieces(L) /\ h.part = "head"
    BY PieceType DEF Whole
  <2> HIDE DEF tail, w, h
  <2> QED BY <2>1 DEF LineEnded
<1>2. PICK f \in Seq(Pieces(L)) : /\ s = f \o <<h>>
                                  /\ \A v \in Pieces(L) : [s EXCEPT ![n] = v] = f \o <<v>>
  <2>1. LastSplit(Pieces(L), s)
    BY SplitLast
  <2> QED BY <2>1 DEF LastSplit
<1> HIDE DEF tail, w, h
<1>3. [s EXCEPT ![n] = w] = f \o <<w>>
  BY <1>1, <1>2
<1>4. /\ <<tail>> \in Seq(Pieces(L)) /\ <<w>> \in Seq(Pieces(L)) /\ <<h>> \in Seq(Pieces(L))
      /\ Ended(<<tail>>) = <<l>> /\ Ended(<<w>>) = <<l>> /\ Ended(<<h>>) = <<>>
  <2>1. Ended(<<tail>>) = LineEnded(tail) /\ Ended(<<w>>) = LineEnded(w) /\ Ended(<<h>>) = LineEnded(h)
    BY <1>1, EndedOne
  <2> QED BY <2>1, <1>1
<1>5. A \o s \in Seq(Pieces(L)) /\ f \o <<w>> \in Seq(Pieces(L))
  BY <1>4, ConcatProperties
<1>6. Ended((A \o s) \o <<tail>>) = Ended(A \o s) \o <<l>>
  BY <1>4, <1>5, EndedConcat
<1>7. /\ Ended(A \o s) = Ended(A) \o Ended(s) /\ Ended(A \o (f \o <<w>>)) = Ended(A) \o Ended(f \o <<w>>)
      /\ Ended(f \o <<h>>) = Ended(f) \o Ended(<<h>>) /\ Ended(f \o <<w>>) = Ended(f) \o Ended(<<w>>)
  BY <1>4, <1>5, EndedConcat
<1>8. Ended(s) = Ended(f) /\ Ended(f) \in Seq(L) /\ Ended(A) \in Seq(L)
  <2>1. Ended(f) \in Seq(L) /\ Ended(A) \in Seq(L)
    BY EndedType
  <2>2. Ended(f) \o <<>> = Ended(f)
    BY <2>1, ConcatEmptySeq
  <2> QED BY <1>2, <1>4, <1>7, <2>1, <2>2
<1>9. Ended(A \o (f \o <<w>>)) = Ended(A \o s) \o <<l>>
  <2> DEFINE a == Ended(A)
             b == Ended(f)
             c == <<l>>
  <2>1. a \in Seq(L) /\ b \in Seq(L) /\ c \in Seq(L) /\ Groups(L)
    BY <1>8, Grouped
  <2>2. Ended(A \o (f \o <<w>>)) = a \o (b \o c) /\ Ended(A \o s) = a \o b
    BY <1>4, <1>7, <1>8
  <2> HIDE DEF a, b, c
  <2>3. (a \o b) \o c = a \o (b \o c)
    <3>1. Grouping(a, b, c)
      BY <2>1, Zenon DEF Groups
    <3> QED BY <3>1 DEF Grouping
  <2> QED BY <2>2, <2>3 DEF c
<1> QED BY <1>3, <1>6, <1>9 DEF TailEnded, tail, w

-------------------------------------------------------------------------------
(* The upstream and the network *)

\* A new line follows what is on its way.
LEMMA SendKeeps ==
  ASSUME Types, Ledger, NEW line \in Sayable, NEW part \in {"whole", "head"}, Send(line, part),
         NEW U \in Views, NEW D \in Views, Ready(U, D)
  PROVE  Types' /\ Ledger' /\ \E E \in Views : Ready(U, E)'
<1> DEFINE piece == [line |-> line, part |-> part]
<1>0. /\ pc = "streaming" /\ pc' = pc /\ upstream = "sending" /\ upstream' = upstream
      /\ torn = NoLine /\ api' = api /\ mode' = mode /\ body' = body /\ sse' = sse /\ guard' = guard
      /\ xlate' = xlate /\ inbox' = inbox /\ client' = client /\ stored' = stored
      /\ told' = (IF mode = "passthrough" THEN Hear(told, line) ELSE told)
      /\ socket' = Append(socket, piece)
      /\ torn' = IF part = "head" THEN line ELSE NoLine
  BY DEF Send, backend, reader
<1>1. CASE mode = "translate"
  <2>1. line \in ChatLines /\ LineSet = ChatLines /\ LineSet' = ChatLines
    BY <1>0, <1>1 DEF Sayable, LineSet
  <2>2. piece \in Pieces(ChatLines)
    BY <2>1, PieceType
  <2>3. socket \in Seq(Pieces(ChatLines))
    BY <2>1 DEF Types
  <2> HIDE DEF piece
  <2>4. socket' \in Seq(Pieces(ChatLines)) /\ torn' \in ChatLines \union {NoLine}
    BY <1>0, <2>1, <2>2, <2>3
  <2>5. told' = told
    BY <1>0, <1>1
  <2>6. Types'
    BY <1>0, <2>1, <2>4, <2>5 DEF Types
  <2>7. Ledger'
    BY <1>0, <2>5 DEF Ledger, Output
  <2>8. Full' = Full /\ ReaderHalf' = ReaderHalf
    BY <1>0, <1>1 DEF Full, Pending, ReaderHalf
  <2>9. Ready(U, D)'
    BY <1>0, <1>1, <2>5, <2>8 DEF Ready, Produced, Held
  <2> QED BY <2>6, <2>7, <2>9
<1>2. CASE mode = "passthrough"
  <2>1. line \in ResponsesLines /\ LineSet = Events /\ LineSet' = Events
    BY <1>0, <1>2 DEF Sayable, LineSet
  <2>2. /\ line \in Events /\ Legal(api, told, line) /\ Hear(told, line) \in Views
        /\ Hear(told, line) = Heard(told, line)
    BY <2>1, SaidLegal DEF Types
  <2>3. told' = Heard(told, line) /\ told' \in Views
    BY <1>0, <1>2, <2>2
  <2>4. D = told
    BY <1>0, <1>2 DEF Ready, Produced
  <2>5. piece \in Pieces(Events) /\ piece.line = line /\ piece.part = part
    BY <2>2, PieceType
  <2>6. /\ ReaderHalf \in Seq(Pieces(Events)) /\ socket \in Seq(Pieces(Events))
        /\ guard.held \in Seq(Pieces(Events)) /\ Full \in Seq(Pieces(Events))
        /\ body \in Seq(Pieces(Events))
    BY <1>2, FullType DEF Types
  <2>7. line # NoLine
    BY <2>2, NoLineAssumption
  <2> DEFINE tail == [line |-> line, part |-> "tail"]
             q == IF part = "head" THEN <<tail>> ELSE <<>>
  <2>8. tail \in Pieces(Events) /\ tail.line = line /\ tail.part = "tail"
    BY <2>2, PieceType
  <2>9. Coming = <<>> /\ Coming' = q
    BY <1>0, <2>7 DEF Coming
  <2>10. part = "head" => piece = [tail EXCEPT !.part = "head"]
    BY DEF Pieces
  <2> HIDE DEF piece, tail
  <2>11. q \in Seq(Pieces(Events))
    BY <2>8
  <2> DEFINE r == <<piece>> \o q
  <2>12. r \in Seq(Pieces(Events)) /\ Joined(r) /\ Ended(r) = <<line>>
    <3>1. CASE part = "head"
      <4>1. r = <<piece>> \o <<tail>>
        BY <3>1
      <4>2. <<piece>> \in Seq(Pieces(Events)) /\ <<tail>> \in Seq(Pieces(Events))
        BY <2>5, <2>8
      <4>3. Ended(<<piece>>) = <<>> /\ Ended(<<tail>>) = <<line>>
        BY <2>5, <2>8, <3>1, EndedOne DEF LineEnded
      <4>4. Ended(<<piece>> \o <<tail>>) = Ended(<<piece>>) \o Ended(<<tail>>)
        BY <4>2, EndedConcat
      <4>5. Ended(r) = <<line>>
        BY <4>1, <4>3, <4>4
      <4>6. Joined(r)
        <5>1. r \in Seq(Pieces(Events)) /\ Len(r) = 2 /\ r[1] = piece /\ r[2] = tail
          BY <4>1, <4>2
        <5> HIDE DEF r
        <5>2. DOMAIN r = {1, 2}
          BY <5>1
        <5> QED BY <5>1, <5>2, <2>5, <2>8, <2>10, <3>1 DEF Joined
      <4> QED BY <4>1, <4>5, <4>6, <2>5, <2>8
    <3>2. CASE part = "whole"
      <4>1. r = <<piece>>
        BY <3>2, <2>5
      <4> HIDE DEF r
      <4>2. Ended(r) = <<line>>
        BY <4>1, <2>5, <3>2, EndedOne DEF LineEnded
      <4>3. Joined(r)
        BY <4>1, <2>5, <3>2 DEF Joined
      <4> QED BY <4>1, <4>2, <4>3, <2>5
    <3> QED BY <3>1, <3>2
  <2>13. Full' = Full \o r
    <3>1. Full = body \o ((guard.held \o socket) \o <<>>)
      BY <1>0, <1>2, <2>9 DEF Full, Pending
    <3>2. Full' = body \o ((guard.held \o Append(socket, piece)) \o q)
      <4> HIDE DEF q
      <4> QED BY <1>0, <1>2, <2>9 DEF Full, Pending
    <3> HIDE DEF q
    <3>3. Groups(Pieces(Events))
      BY Grouped
    <3> DEFINE w == <<piece>>
               x == guard.held \o socket
    <3>4. Append(socket, piece) = socket \o w /\ w \in Seq(Pieces(Events))
      BY <2>5, <2>6, AppendIsConcat
    <3>5. x \in Seq(Pieces(Events))
      BY <2>6, ConcatProperties
    <3> HIDE DEF w
    <3>6. guard.held \o (socket \o w) = x \o w
      <4>1. Grouping(guard.held, socket, w)
        BY <2>6, <3>3, <3>4, Zenon DEF Groups
      <4> QED BY <4>1 DEF Grouping
    <3> HIDE DEF x
    <3>7. w \o q \in Seq(Pieces(Events))
      BY <2>11, <3>4, ConcatProperties
    <3>8. (x \o w) \o q = x \o (w \o q)
      <4>1. Grouping(x, w, q)
        BY <2>11, <3>3, <3>4, <3>5, Zenon DEF Groups
      <4> QED BY <4>1 DEF Grouping
    <3>9. body \o (x \o (w \o q)) = (body \o x) \o (w \o q)
      <4>1. Grouping(body, x, w \o q)
        BY <2>6, <3>3, <3>5, <3>7, Zenon DEF Groups
      <4> QED BY <4>1 DEF Grouping
    <3>10. x \o <<>> = x
      BY <3>5, ConcatEmptySeq
    <3> QED BY <3>1, <3>2, <3>4, <3>6, <3>8, <3>9, <3>10, Zenon DEF w, x
  <2> HIDE DEF r, q
  <2>14. ReaderHalf' = ReaderHalf
    BY <1>0 DEF ReaderHalf
  <2>15. Joined(ReaderHalf \o Full')
    <3>1. ReaderHalf \o Full \in Seq(Pieces(Events)) /\ Joined(ReaderHalf \o Full)
      BY <2>6, ConcatProperties DEF Ready
    <3>2. Joined((ReaderHalf \o Full) \o r)
      BY <3>1, <2>12, JoinedConcat
    <3>3. (ReaderHalf \o Full) \o r = ReaderHalf \o (Full \o r)
      BY <2>6, <2>12, ConcatAssociative
    <3> QED BY <3>2, <3>3, <2>13
  <2> PICK E \in Views : E = told'
    BY <2>3
  <2>16. Reaches(api, U, Ended(Full'), E)
    <3>1. Ended(Full') = Ended(Full) \o <<line>> /\ Ended(Full) \in Seq(Events)
      BY <2>6, <2>12, <2>13, EndedConcat, EndedType
    <3>2. Reaches(api, U, Ended(Full), D)
      BY DEF Ready
    <3>3. Reaches(api, U, Ended(Full) \o <<line>>, Heard(D, line))
      BY <3>1, <3>2, <2>2, <2>4, ReachesAppend
    <3> QED BY <3>1, <3>3, <2>3, <2>4
  <2>17. Ready(U, E)'
    <3>1. Produced(E)'
      BY <1>0, <1>2 DEF Produced
    <3>2. Held(U)'
      BY <1>0, <1>2 DEF Ready, Held
    <3> QED BY <3>1, <3>2, <2>14, <2>15, <2>16, <1>0 DEF Ready
  <2>18. Types'
    <3>1. socket' \in Seq(Pieces(Events)) /\ torn' \in Events \union {NoLine}
      BY <1>0, <2>2, <2>5, <2>6
    <3> QED BY <3>1, <1>0, <2>1, <2>3 DEF Types
  <2>19. Ledger'
    BY <1>0, <1>2 DEF Ledger, Output
  <2> QED BY <2>3, <2>17, <2>18, <2>19
<1> QED BY <1>1, <1>2 DEF Types

\* The tail of a torn line takes the place it was sure to take.
LEMMA SendRestKeeps ==
  ASSUME Types, Ledger, SendRest, NEW U \in Views, NEW D \in Views, Ready(U, D)
  PROVE  Types' /\ Ledger' /\ Ready(U, D)'
<1> DEFINE tail == [line |-> torn, part |-> "tail"]
<1>0. /\ pc = "streaming" /\ pc' = pc /\ upstream = "sending" /\ upstream' = upstream
      /\ torn # NoLine /\ torn' = NoLine /\ told' = told
      /\ api' = api /\ mode' = mode /\ body' = body /\ sse' = sse /\ guard' = guard
      /\ xlate' = xlate /\ inbox' = inbox /\ client' = client /\ stored' = stored
      /\ socket' = IF socket # <<>> THEN [socket EXCEPT ![Len(socket)] = Whole(torn)] ELSE <<tail>>
  BY DEF SendRest, backend, reader
<1>1. torn \in LineSet /\ LineSet' = LineSet /\ socket \in Seq(Pieces(LineSet))
  BY <1>0 DEF Types, LineSet
<1>2. Whole(torn) \in Pieces(LineSet) /\ tail \in Pieces(LineSet)
  BY <1>1, PieceType DEF Whole
<1> HIDE DEF tail
<1>3. socket' \in Seq(Pieces(LineSet))
  <2>1. CASE socket = <<>>
    BY <1>0, <1>2, <2>1
  <2>2. CASE socket # <<>>
    <3>1. Len(socket) \in 1..Len(socket)
      BY <1>1, <2>2, EmptySeq
    <3> QED BY <1>0, <1>1, <1>2, <2>2, <3>1, ExceptSeq
  <2> QED BY <2>1, <2>2
<1>4. Types'
  BY <1>0, <1>1, <1>3 DEF Types
<1>5. Ledger'
  BY <1>0 DEF Ledger, Output
<1>6. ReaderHalf' = ReaderHalf
  BY <1>0 DEF ReaderHalf
<1>7. Produced(D)' /\ Held(U)'
  BY <1>0 DEF Ready, Produced, Held
<1>8. CASE mode = "translate"
  <2>1. Full' = Full
    BY <1>0, <1>8 DEF Full, Pending
  <2> QED BY <1>0, <1>4, <1>5, <1>6, <1>7, <2>1 DEF Ready
<1>9. CASE mode = "passthrough"
  <2>0. LineSet = Events /\ torn \in Events
    BY <1>1, <1>9 DEF LineSet
  <2> DEFINE A == body \o guard.held
  <2>1. A \in Seq(Pieces(Events)) /\ Full = (A \o socket) \o Coming
    BY <1>0, <1>9, FullParts
  <2>2. Coming = <<tail>> /\ Coming' = <<>>
    BY <1>0 DEF Coming, tail
  <2>3. Full' = A \o socket' /\ A \o socket' \in Seq(Pieces(Events))
    <3> DEFINE b == guard.held
               s == socket'
    <3>1. b \in Seq(Pieces(Events)) /\ s \in Seq(Pieces(Events)) /\ body \in Seq(Pieces(Events))
      BY <1>3, <2>0 DEF Types, Guards
    <3>2. Full' = body \o ((b \o s) \o <<>>)
      BY <1>0, <1>9, <2>2 DEF Full, Pending
    <3> HIDE DEF b, s
    <3>3. b \o s \in Seq(Pieces(Events))
      BY <3>1, ConcatProperties
    <3>4. (b \o s) \o <<>> = b \o s
      BY <3>3, ConcatEmptySeq
    <3>5. Grouping(body, b, s)
      <4>1. Groups(Pieces(Events))
        BY Grouped
      <4> QED BY <3>1, <4>1, Zenon DEF Groups
    <3>6. (body \o b) \o s \in Seq(Pieces(Events))
      <4>1. body \o b \in Seq(Pieces(Events))
        BY <3>1, ConcatProperties
      <4> QED BY <3>1, <4>1, ConcatProperties
    <3> QED BY <3>2, <3>4, <3>5, <3>6 DEF Grouping, b, s
  <2>4. socket \in Seq(Pieces(Events)) /\ ReaderHalf \in Seq(Pieces(Events))
    BY <1>1, <2>0, FullType
  <2> DEFINE B == ReaderHalf \o A
  <2>5. B \in Seq(Pieces(Events))
    BY <2>1, <2>4, ConcatProperties
  <2> HIDE DEF A
  <2>6. ReaderHalf \o Full = (B \o socket) \o <<tail>>
    <3>1. A \o socket \in Seq(Pieces(Events)) /\ <<tail>> \in Seq(Pieces(Events))
      BY <1>2, <2>0, <2>1, <2>4, ConcatProperties
    <3>2. Groups(Pieces(Events))
      BY Grouped
    <3>3. Grouping(ReaderHalf, A, socket)
      BY <2>1, <2>4, <3>2, Zenon DEF Groups
    <3> DEFINE t == <<tail>>
    <3> HIDE DEF t
    <3>4. Grouping(ReaderHalf, A \o socket, t)
      BY <2>4, <3>1, <3>2, Zenon DEF Groups, t
    <3> QED BY <2>1, <2>2, <3>3, <3>4 DEF Grouping, t
  <2>7. ReaderHalf \o (A \o socket') = B \o socket'
    <3> DEFINE s == socket'
    <3>1. s \in Seq(Pieces(Events))
      BY <1>3, <2>0
    <3> HIDE DEF s
    <3>2. Groups(Pieces(Events))
      BY Grouped
    <3>3. Grouping(ReaderHalf, A, s)
      BY <2>1, <2>4, <3>1, <3>2, Zenon DEF Groups
    <3> QED BY <3>3 DEF Grouping, s
  <2> HIDE DEF B
  <2>8. Joined(ReaderHalf \o Full')
    <3>1. Joined((B \o socket) \o <<tail>>)
      BY <2>6 DEF Ready
    <3>2. CASE socket = <<>>
      <4>1. socket' = <<tail>> /\ B \o socket = B
        BY <1>0, <2>5, <3>2, ConcatEmptySeq
      <4> QED BY <2>3, <2>7, <3>1, <4>1
    <3>3. CASE socket # <<>>
      <4>1. socket' = [socket EXCEPT ![Len(socket)] = Whole(torn)]
        BY <1>0, <3>3
      <4>2. Joined(B \o [socket EXCEPT ![Len(socket)] = Whole(torn)])
        BY <2>0, <2>4, <2>5, <3>1, <3>3, TailJoins DEF tail
      <4> QED BY <2>3, <2>7, <4>1, <4>2
    <3> QED BY <3>2, <3>3
  <2>9. Ended(Full') = Ended(Full)
    <3>1. CASE socket = <<>>
      <4>1. socket' = <<tail>> /\ A \o socket = A
        BY <1>0, <2>1, <3>1, ConcatEmptySeq
      <4> QED BY <2>1, <2>2, <2>3, <4>1
    <3>2. CASE socket # <<>>
      <4>1. socket' = [socket EXCEPT ![Len(socket)] = Whole(torn)]
        BY <1>0, <3>2
      <4>2. Joined((B \o socket) \o <<tail>>)
        BY <2>6 DEF Ready
      <4>3. socket[Len(socket)] = [line |-> torn, part |-> "head"]
        BY <2>0, <2>4, <2>5, <3>2, <4>2, TailJoins DEF tail
      <4>4. /\ Ended((A \o socket) \o <<tail>>) = Ended(A \o socket) \o <<torn>>
            /\ Ended(A \o [socket EXCEPT ![Len(socket)] = Whole(torn)]) = Ended(A \o socket) \o <<torn>>
        <5>1. TailEnded(A, socket, torn)
          BY <2>0, <2>1, <2>4, <3>2, <4>3, TailEnds
        <5> QED BY <5>1 DEF TailEnded, tail
      <4> QED BY <2>1, <2>2, <2>3, <4>1, <4>4
    <3> QED BY <3>1, <3>2
  <2>10. Ready(U, D)'
    BY <1>0, <1>6, <1>7, <2>8, <2>9 DEF Ready
  <2> QED BY <1>4, <1>5, <2>10
<1> QED BY <1>8, <1>9 DEF Types

\* Nothing more will come.
LEMMA CloseKeeps ==
  ASSUME Types, Ledger, Close, NEW U \in Views, NEW D \in Views, Ready(U, D)
  PROVE  Types' /\ Ledger' /\ Ready(U, D)'
<1>0. /\ pc = "streaming" /\ pc' = pc /\ upstream = "sending" /\ upstream' = "eof"
      /\ torn = NoLine /\ torn' = torn /\ told' = told /\ socket' = socket
      /\ api' = api /\ mode' = mode /\ body' = body /\ sse' = sse /\ guard' = guard
      /\ xlate' = xlate /\ inbox' = inbox /\ client' = client /\ stored' = stored
  BY DEF Close, backend, reader
<1>1. Types'
  BY <1>0 DEF Types, LineSet
<1>2. Ledger'
  BY <1>0 DEF Ledger, Output
<1>3. Full' = Full /\ ReaderHalf' = ReaderHalf
  BY <1>0 DEF Full, Pending, Coming, ReaderHalf
<1>4. Produced(D)' /\ Held(U)'
  BY <1>0 DEF Ready, Produced, Held
<1> QED BY <1>0, <1>1, <1>2, <1>3, <1>4 DEF Ready

\* When the connection breaks, the tail that was to come is lost.
LEMMA BreakKeeps ==
  ASSUME Types, Ledger, Break, NEW U \in Views, NEW D \in Views, Ready(U, D)
  PROVE  Types' /\ Ledger' /\ \E E \in Views : Ready(U, E)'
<1>0. /\ pc = "streaming" /\ pc' = pc /\ upstream = "sending" /\ upstream' = "broken"
      /\ torn' = torn /\ told' = told /\ socket' = socket
      /\ api' = api /\ mode' = mode /\ body' = body /\ sse' = sse /\ guard' = guard
      /\ xlate' = xlate /\ inbox' = inbox /\ client' = client /\ stored' = stored
  BY DEF Break, backend, reader
<1>1. Types'
  BY <1>0 DEF Types, LineSet
<1>2. Ledger'
  BY <1>0 DEF Ledger, Output
<1>3. ReaderHalf' = ReaderHalf /\ Held(U)'
  BY <1>0 DEF ReaderHalf, Ready, Held
<1>4. CASE mode = "translate" \/ torn = NoLine
  <2>1. Full' = Full
    BY <1>0, <1>4 DEF Full, Pending, Coming
  <2>2. Produced(D)'
    BY <1>0 DEF Ready, Produced
  <2>3. Ready(U, D)'
    BY <1>0, <1>3, <2>1, <2>2 DEF Ready
  <2> QED BY <1>1, <1>2, <2>3
<1>5. CASE mode = "passthrough" /\ torn # NoLine
  <2> DEFINE A == (body \o guard.held) \o socket
             tail == [line |-> torn, part |-> "tail"]
  <2>1. A \in Seq(Pieces(Events)) /\ Full = A \o Coming
    BY <1>0, <1>5, FullParts
  <2>2. torn \in Events
    BY <1>5 DEF Types, LineSet
  <2>3. tail \in Pieces(Events) /\ LineEnded(tail) = <<torn>>
    BY <2>2, PieceType DEF LineEnded
  <2>4. Coming = <<tail>> /\ Coming' = <<>>
    BY <1>0, <1>5 DEF Coming
  <2>5. Full' = A
    <3>1. Full' = body \o ((guard.held \o socket) \o <<>>)
      BY <1>0, <1>5, <2>4 DEF Full, Pending
    <3>2. /\ body \in Seq(Pieces(Events)) /\ guard.held \in Seq(Pieces(Events))
          /\ socket \in Seq(Pieces(Events)) /\ Groups(Pieces(Events))
      BY <1>5, FullType, Grouped DEF Types
    <3>3. Grouping(body, guard.held, socket)
      BY <3>2, Zenon DEF Groups
    <3>4. (guard.held \o socket) \o <<>> = guard.held \o socket
      BY <3>2, ConcatProperties, ConcatEmptySeq
    <3> QED BY <3>1, <3>3, <3>4 DEF Grouping
  <2>6. ReaderHalf \in Seq(Pieces(Events)) /\ <<tail>> \in Seq(Pieces(Events))
    BY <2>3, FullType
  <2> HIDE DEF A, tail
  <2>7. Joined(ReaderHalf \o Full')
    <3>1. ReaderHalf \o A \in Seq(Pieces(Events)) /\ Groups(Pieces(Events))
      BY <2>1, <2>6, ConcatProperties, Grouped
    <3>2. Grouping(ReaderHalf, A, <<tail>>)
      BY <2>1, <2>6, <3>1, Zenon DEF Groups
    <3>3. Joined((ReaderHalf \o A) \o <<tail>>)
      BY <2>1, <2>4, <3>2 DEF Ready, Grouping
    <3>4. Joined(ReaderHalf \o A)
      BY <2>6, <3>1, <3>3, JoinedPrefix
    <3> QED BY <2>5, <3>4
  <2>8. Ended(Full) = Ended(A) \o <<torn>> /\ Ended(A) \in Seq(Events)
    <3>1. Ended(<<tail>>) = <<torn>>
      BY <2>3, EndedOne
    <3>2. Ended(A \o <<tail>>) = Ended(A) \o Ended(<<tail>>)
      BY <2>1, <2>6, EndedConcat
    <3> QED BY <2>1, <2>4, <3>1, <3>2, EndedType
  <2>9. PICK E \in Views : Reaches(api, U, Ended(A), E) /\ Reaches(api, E, <<torn>>, D)
    <3>1. Reaches(api, U, Ended(A) \o <<torn>>, D)
      BY <2>8 DEF Ready
    <3>2. <<torn>> \in Seq(Events)
      BY <2>2
    <3> QED BY <2>8, <3>1, <3>2, ReachesSplit
  <2>10. Legal(api, E, torn) /\ D = Heard(E, torn)
    BY <2>2, <2>9, ReachesOne
  <2>11. D = told
    BY <1>0, <1>5 DEF Ready, Produced
  <2>12. Produced(E)'
    <3>1. CASE Live(E)
      BY <1>0, <1>5, <3>1 DEF Produced, Live
    <3>2. CASE ~ Live(E)
      <4>1. D = E
        BY <2>10, <3>2 DEF Heard
      <4> QED BY <1>0, <1>5, <2>11, <4>1 DEF Produced
    <3> QED BY <3>1, <3>2
  <2>13. Ready(U, E)'
    BY <1>0, <1>3, <2>5, <2>7, <2>9, <2>12 DEF Ready
  <2> QED BY <1>1, <1>2, <2>13
<1> QED BY <1>4, <1>5 DEF Types

-------------------------------------------------------------------------------
(* The generator: translating *)

\* The error event that ends a body.
LEMMA ErrorPiece ==
  ASSUME NEW U \in Views, NEW D \in Views, NEW q \in Seq(Events), Reaches(api, U, q, D)
  PROVE  /\ ErrorEvent \in Pieces(Events) /\ <<ErrorEvent>> \in Seq(Pieces(Events))
         /\ Ended(<<ErrorEvent>>) = <<Untyped("error")>> /\ Joined(<<ErrorEvent>>)
         /\ Heard(D, Untyped("error")) \in Views
         /\ Heard(D, Untyped("error")).status = IF Live(D) THEN "error" ELSE D.status
         /\ ~Live(D) => Heard(D, Untyped("error")) = D
         /\ Reaches(api, U, q \o <<Untyped("error")>>, Heard(D, Untyped("error")))
<1> DEFINE e == Untyped("error")
<1>1. /\ e \in Events /\ Legal(api, D, e) /\ Heard(D, e) \in Views
      /\ Heard(D, e).status = IF Live(D) THEN "error" ELSE D.status
      /\ ~Live(D) => Heard(D, e) = D
  BY ErrorLegal
<1> HIDE DEF e
<1>2. Reaches(api, U, q \o <<e>>, Heard(D, e))
  BY <1>1, ReachesAppend
<1>3. ErrorEvent = Whole(e)
  BY DEF ErrorEvent, e
<1>4. Whole(e) \in Pieces(Events) /\ Whole(e).line = e /\ Whole(e).part = "whole"
  BY <1>1, PieceType DEF Whole
<1> DEFINE p == Whole(e)
<1> HIDE DEF p
<1>5. p \in Pieces(Events) /\ LineEnded(p) = <<e>> /\ p.part = "whole"
  BY <1>4 DEF LineEnded, p
<1>6. Ended(<<p>>) = <<e>>
  BY <1>5, EndedOne
<1>7. Joined(<<p>>)
  BY <1>5 DEF Joined
<1> QED BY <1>1, <1>2, <1>3, <1>5, <1>6, <1>7 DEF e, p

\* Whole lines join whatever precedes them.
LEMMA YieldJoined ==
  ASSUME NEW half \in Halves(Events), NEW q \in Seq(Events)
  PROVE  Joined(half \o Yield(q)) /\ Joined(half)
<1>1. half \in Seq(Pieces(Events)) /\ Joined(half)
  <2>1. CASE half = <<>>
    BY <2>1 DEF Joined
  <2>2. CASE half # <<>>
    <3>1. PICK p \in Pieces(Events) : half = <<p>> /\ p.part = "head"
      BY <2>2 DEF Halves
    <3> QED BY <3>1 DEF Joined
  <2> QED BY <2>1, <2>2
<1> DEFINE y == Yield(q)
<1>2. y \in Seq(Pieces(Events)) /\ Len(y) = Len(q) /\ \A i \in 1..Len(q) : y[i] = Whole(q[i])
  BY YieldPieces
<1>3. Joined(y)
  <2> HIDE DEF y
  <2>1. DOMAIN y = 1..Len(q)
    BY <1>2
  <2>2. \A i \in 1..Len(q) : y[i].part = "whole"
    <3>1. \A l : Whole(l).part = "whole"
      BY DEF Whole
    <3> QED BY <1>2, <3>1, Zenon
  <2> QED BY <2>1, <2>2 DEF Joined
<1> HIDE DEF y
<1>4. Joined(half \o y)
  BY <1>1, <1>2, <1>3, JoinedConcat
<1> QED BY <1>1, <1>4 DEF y

\* The lines of a chunk before the first one that is an error.
LEMMA GoodLines ==
  ASSUME NEW lines \in Seq(ChatLines), NEW bad, bad = SelectInSeq(lines, LAMBDA l : l.error)
  PROVE  (IF bad = 0 THEN lines ELSE SubSeq(lines, 1, bad - 1)) \in Seq(ChatLines)
<1> DEFINE I == {i \in 1..Len(lines) : lines[i].error}
<1>0. Len(lines) \in Nat
  OBVIOUS
<1>1. bad = IF I # {} THEN Min(I) ELSE 0
  BY DEF SelectInSeq
<1>2. CASE I = {}
  BY <1>1, <1>2
<1>3. CASE I # {}
  <2>1. I \subseteq Nat
    BY <1>0
  <2>2. \A i \in I : i \in 1..Len(lines)
    OBVIOUS
  <2> HIDE DEF I
  <2>3. \E m \in I : \A n \in I : m <= n
    BY <1>3, <2>1, NatMin
  <2>4. bad \in I
    BY <1>1, <1>3, <2>3 DEF Min
  <2>5. bad \in 1..Len(lines)
    BY <2>2, <2>4
  <2>6. 1 \in Int /\ bad - 1 \in Int /\ \A i \in 1..(bad - 1) : lines[i] \in ChatLines
    BY <1>0, <2>5
  <2>7. SubSeq(lines, 1, bad - 1) \in Seq(ChatLines)
    BY <2>6, SubSeqProperties
  <2> QED BY <2>5, <2>7
<1> QED BY <1>2, <1>3

\* A chunk of a chat completion.
LEMMA TranslateChunkKeeps ==
  ASSUME Types, Ledger, TranslateChunk, NEW U \in Views, NEW D \in Views, Ready(U, D)
  PROVE  Types' /\ Ledger' /\ \E E \in Views : Ready(U, E)'
<1> DEFINE lines == Lines(<<>>, socket)
           bad == SelectInSeq(lines, LAMBDA l : l.error)
           good == IF bad = 0 THEN lines ELSE SubSeq(lines, 1, bad - 1)
           z == [sse EXCEPT !.out = <<>>]
           s == FoldLeft(Feed, z, good)
<1>0. /\ pc = "streaming" /\ body = <<>> /\ mode = "translate" /\ upstream' = upstream
      /\ torn' = torn /\ told' = told /\ socket' = <<>>
      /\ api' = api /\ mode' = mode /\ guard' = guard
      /\ xlate' = xlate /\ inbox' = inbox /\ client' = client /\ stored' = stored
      /\ pc' = IF bad = 0 THEN pc ELSE "over"
  BY DEF TranslateChunk, Polled, reader
<1>1. sse' = s
  BY DEF TranslateChunk
<1>2. body' = IF bad = 0 THEN Yield(s.out) ELSE Append(Yield(s.out), ErrorEvent)
  BY DEF TranslateChunk
<1>3. api = "responses" /\ LineSet = ChatLines /\ sse \in Sses
  BY <1>0 DEF Types, LineSet
<1>4. lines \in Seq(ChatLines)
  <2>1. socket \in Seq(Pieces(ChatLines))
    BY <1>3 DEF Types
  <2>2. <<>> \in Seq(Pieces(ChatLines))
    OBVIOUS
  <2> QED BY <2>1, <2>2, LinesType
<1>5. good \in Seq(ChatLines)
  <2> HIDE DEF lines
  <2> QED BY <1>4, GoodLines
<1>6. z \in Sses /\ Emitted(SseView(sse), z)
  BY <1>3, EmptiedEmits
<1> HIDE DEF good, lines, bad, z
<1>7. s \in Sses /\ Emitted(SseView(sse), s)
  BY <1>3, <1>5, <1>6, FeedsEmit, SseViewType
<1> HIDE DEF s
<1>8. D = SseView(sse) /\ U = D
  <2>1. Full = <<>>
    BY <1>0 DEF Full, Pending
  <2>2. D = SseView(sse)
    BY <1>0 DEF Ready, Produced
  <2>3. Reaches(api, U, <<>>, D)
    BY <2>1, EndedEmpty DEF Ready
  <2> QED BY <2>2, <2>3, ReachesEmpty
<1> DEFINE q == s.out
           V == SseView(s)
           y == Yield(q)
<1>9. q \in Seq(Events) /\ V \in Views /\ Live(V) /\ Reaches(api, U, q, V)
  BY <1>3, <1>7, <1>8, SseViewType DEF Emitted, Sses
<1>10. /\ y \in Seq(Pieces(Events)) /\ Ended(y) = q
       /\ Joined(ReaderHalf \o y) /\ ReaderHalf \in Halves(Events)
  <2>1. ReaderHalf \in Halves(Events)
    BY FullType
  <2> HIDE DEF q
  <2> QED BY <1>9, <2>1, YieldPieces, YieldJoined
<1> HIDE DEF q, y
<1>11. Full' = body' /\ ReaderHalf' = ReaderHalf
  <2>1. body' \o <<>> = body'
    <3>1. body' \in Seq(Pieces(Events))
      <4>1. ErrorEvent \in Pieces(Events)
        BY <1>9, ErrorPiece
      <4> QED BY <1>2, <1>10, <4>1 DEF y, q
    <3> QED BY <3>1, ConcatEmptySeq
  <2>2. Pending' = <<>>
    BY <1>0 DEF Pending
  <2> QED BY <1>0, <2>1, <2>2 DEF Full, ReaderHalf
<1>12. Ledger'
  <2>1. stored = <<>>
    BY <1>0 DEF Ledger
  <2>2. told = NewClient
    BY <1>0 DEF Ledger
  <2>3. pc' # "settling"
    BY <1>0
  <2> QED BY <1>0, <2>1, <2>2, <2>3 DEF Ledger
<1>13. ASSUME body' \in Seq(Pieces(Events)) PROVE Types'
  <2>1. socket' \in Seq(Pieces(LineSet')) /\ LineSet' = LineSet
    BY <1>0 DEF LineSet
  <2>2. pc' \in {"streaming", "settling", "over"}
    BY <1>0
  <2> QED BY <1>0, <1>1, <1>7, <1>13, <2>1, <2>2 DEF Types
<1>14. CASE bad = 0
  <2>1. body' = y /\ pc' = "streaming"
    BY <1>0, <1>2, <1>14 DEF y, q
  <2>2. Types'
    BY <1>10, <1>13, <2>1
  <2> PICK W \in Views : W = V
    BY <1>9
  <2>3. Produced(W)' /\ Held(U)'
    BY <1>0, <1>1, <2>1 DEF Produced, Held
  <2>4. Ready(U, W)'
    BY <1>0, <1>9, <1>10, <1>11, <2>1, <2>3 DEF Ready
  <2> QED BY <1>12, <2>2, <2>4
<1>15. CASE bad # 0
  <2> DEFINE E == Heard(V, Untyped("error"))
  <2>1. /\ <<ErrorEvent>> \in Seq(Pieces(Events)) /\ ErrorEvent \in Pieces(Events)
        /\ Ended(<<ErrorEvent>>) = <<Untyped("error")>>
        /\ Joined(<<ErrorEvent>>) /\ E \in Views /\ E.status = "error"
        /\ Reaches(api, U, q \o <<Untyped("error")>>, E)
    BY <1>9, ErrorPiece
  <2>2. body' = y \o <<ErrorEvent>> /\ pc' = "over"
    <3>1. body' = Append(y, ErrorEvent)
      BY <1>2, <1>15 DEF y, q
    <3> QED BY <3>1, <1>0, <1>10, <1>15, <2>1, AppendIsConcat
  <2>3. body' \in Seq(Pieces(Events)) /\ Ended(body') = q \o <<Untyped("error")>>
    BY <1>10, <2>1, <2>2, ConcatProperties, EndedConcat
  <2>4. Joined(ReaderHalf \o body')
    <3>1. ReaderHalf \in Seq(Pieces(Events)) /\ Groups(Pieces(Events))
      BY FullType, Grouped
    <3>2. Grouping(ReaderHalf, y, <<ErrorEvent>>)
      BY <1>10, <2>1, <3>1, Zenon DEF Groups
    <3>3. Joined((ReaderHalf \o y) \o <<ErrorEvent>>)
      BY <1>10, <2>1, <3>1, ConcatProperties, JoinedConcat
    <3> QED BY <2>2, <3>2, <3>3 DEF Grouping
  <2>5. Types'
    BY <1>13, <2>3
  <2> HIDE DEF E, V
  <2>6. PICK F \in Views : F = E
    BY <2>1
  <2>7. Produced(F)' /\ Held(U)'
    BY <1>0, <2>1, <2>2, <2>6 DEF Produced, Held
  <2>8. Ready(U, F)'
    BY <1>0, <1>11, <2>1, <2>3, <2>4, <2>6, <2>7 DEF Ready
  <2> QED BY <1>12, <2>5, <2>8
<1> QED BY <1>14, <1>15

\* The end of a chat completion.
LEMMA TranslateEndKeeps ==
  ASSUME Types, Ledger, Reading, TranslateEnd, NEW U \in Views, NEW D \in Views, Ready(U, D)
  PROVE  Types' /\ Ledger' /\ \E E \in Views : Ready(U, E)'
<1> DEFINE z == [sse EXCEPT !.out = <<>>]
           s == FinishSse(z)
<1>0. /\ pc = "streaming" /\ body = <<>> /\ mode = "translate" /\ upstream' = upstream
      /\ upstream = "eof" /\ socket = <<>> /\ said' = said
      /\ torn' = torn /\ told' = told /\ socket' = socket
      /\ api' = api /\ mode' = mode /\ guard' = guard
      /\ xlate' = xlate /\ inbox' = inbox /\ client' = client /\ stored' = stored
      /\ pc' = "settling"
  BY DEF TranslateEnd, Polled, reader, wire
<1>1. sse' = s /\ body' = Yield(s.out)
  BY DEF TranslateEnd
<1>2. api = "responses" /\ LineSet = ChatLines /\ sse \in Sses
  BY <1>0 DEF Types, LineSet
<1>3. z \in Sses /\ Emitted(SseView(sse), z)
  BY <1>2, EmptiedEmits
<1> HIDE DEF z
<1>4. /\ s \in Sses /\ s.items = z.items /\ s.finish = z.finish
      /\ \E d \in Views : /\ Reaches("responses", SseView(sse), s.out, d)
                          /\ d.status = Outcome(z.finish) /\ Sizes(d.items) = Output(z)
  BY <1>2, <1>3, FinishEmits, SseViewType
<1> HIDE DEF s
<1>5. PICK d \in Views : /\ Reaches("responses", SseView(sse), s.out, d)
                         /\ d.status = Outcome(s.finish) /\ Sizes(d.items) = Output(s)
  BY <1>4 DEF Output
<1>6. D = SseView(sse) /\ U = D
  <2>1. Full = <<>>
    BY <1>0 DEF Full, Pending
  <2>2. D = SseView(sse)
    BY <1>0 DEF Ready, Produced
  <2>3. Reaches(api, U, <<>>, D)
    BY <2>1, EndedEmpty DEF Ready
  <2> QED BY <2>2, <2>3, ReachesEmpty
<1> DEFINE q == s.out
           y == Yield(q)
<1>7. q \in Seq(Events)
  BY <1>4 DEF Sses
<1>8. /\ y \in Seq(Pieces(Events)) /\ Ended(y) = q
      /\ Joined(ReaderHalf \o y) /\ ReaderHalf \in Halves(Events)
  <2>1. ReaderHalf \in Halves(Events)
    BY FullType
  <2> HIDE DEF q
  <2> QED BY <1>7, <2>1, YieldPieces, YieldJoined
<1> HIDE DEF y
<1>9. body' = y
  BY <1>1 DEF y
<1>10. Full' = body' /\ ReaderHalf' = ReaderHalf
  <2>1. Pending' = <<>>
    BY <1>0 DEF Pending
  <2>2. y \o <<>> = y
    BY <1>8, ConcatEmptySeq
  <2> QED BY <1>0, <1>9, <2>1, <2>2 DEF Full, ReaderHalf
<1>11. Ledger'
  <2>1. stored = <<>> /\ told = NewClient
    BY <1>0 DEF Ledger
  <2> QED BY <1>0, <2>1 DEF Ledger
<1>12. Types'
  BY <1>0, <1>1, <1>4, <1>8, <1>9 DEF Types, LineSet
<1>13. AllRead'
  <2> SUFFICES ASSUME "translate" \notin TornModes PROVE Recorded(PartsOf(said), s)
    BY <1>0, <1>1 DEF AllRead
  <2>1. PICK r \in Seq(ChatLines) : said = r \o Ended(socket) /\ Recorded(PartsOf(r), sse)
    BY <1>0 DEF Reading, Unbroken, ReadSoFar
  <2>2. r \o <<>> = r
    BY ConcatEmptySeq
  <2>3. said = r
    BY <1>0, <2>1, <2>2, EndedEmpty
  <2>4. Recorded(PartsOf(said), z)
    BY <1>2, <2>1, <2>3, EmptiedRecorded DEF z
  <2> QED BY <1>4, <2>4 DEF Recorded
<1>P. Produced(d)' /\ Held(U)'
  <2>1. d.status = Outcome(sse'.finish) /\ Sizes(d.items) = Output(sse')
    BY <1>1, <1>5
  <2> QED BY <1>0, <1>13, <2>1 DEF Produced, Held
<1>14. Ready(U, d)'
  <2>1. Reaches(api, U, Ended(y), d)
    BY <1>2, <1>5, <1>6, <1>8
  <2> QED BY <1>0, <1>8, <1>9, <1>10, <1>P, <2>1 DEF Ready
<1> QED BY <1>11, <1>12, <1>14

\* put_full registers what was told.
LEMMA SettleKeeps ==
  ASSUME Types, Ledger, Settle, NEW U \in Views, NEW D \in Views, Ready(U, D)
  PROVE  Types' /\ Ledger' /\ Ready(U, D)'
<1>0. /\ pc = "settling" /\ pc' = "over" /\ stored' = Output(sse) /\ said' = said
      /\ torn' = torn /\ told' = told /\ socket' = socket /\ upstream' = upstream
      /\ api' = api /\ mode' = mode /\ guard' = guard /\ sse' = sse /\ body' = body
      /\ xlate' = xlate /\ inbox' = inbox /\ client' = client
  BY DEF Settle, reader, wire
<1>1. Types'
  BY <1>0 DEF Types, LineSet
<1>2. Ledger'
  BY <1>0 DEF Ledger, Output
<1>3. Full' = Full /\ ReaderHalf' = ReaderHalf
  BY <1>0 DEF Full, Pending, ReaderHalf
<1>4. Produced(D)' /\ Held(U)'
  BY <1>0 DEF Ready, Produced, AllRead, Held, Output
<1> QED BY <1>0, <1>1, <1>2, <1>3, <1>4 DEF Ready

-------------------------------------------------------------------------------
(* The generator: passing through *)

\* What the guard decides about a chunk.
LEMMA DecisionCases ==
  ASSUME NEW g, NEW chunk
  PROVE  /\ Decision(g, chunk) = "Buffered" => ~g.flushed
         /\ Decision(g, chunk) = "RetryZeroOutput" => ~g.flushed
         /\ Decision(g, chunk) # "Forward" /\ Decision(g, chunk) # "RetryZeroOutput" => ~g.flushed
BY DEF Decision

\* A chunk joins what the guard holds, or goes out with it.
LEMMA PassChunkKeeps ==
  ASSUME Types, Ledger, PassChunk, NEW U \in Views, NEW D \in Views, Ready(U, D)
  PROVE  Types' /\ Ledger' /\ Ready(U, D)'
<1>0. /\ pc = "streaming" /\ pc' = pc /\ body = <<>> /\ mode = "passthrough" /\ upstream' = upstream
      /\ torn' = torn /\ told' = told /\ socket' = <<>>
      /\ api' = api /\ mode' = mode /\ sse' = sse
      /\ xlate' = xlate /\ inbox' = inbox /\ client' = client /\ stored' = stored
      /\ Decision(guard, socket) # "RetryZeroOutput"
  BY DEF PassChunk, Polled, reader
<1>1. /\ socket \in Seq(Pieces(Events)) /\ guard.held \in Seq(Pieces(Events))
      /\ Coming \in Seq(Pieces(Events)) /\ guard \in Guards /\ LineSet' = LineSet
  BY <1>0, FullType DEF Types, LineSet
<1>2. guard.held \o socket \in Seq(Pieces(Events)) /\ Half(socket) \in Seq(Pieces(Events))
  <2>1. guard.held \o socket \in Seq(Pieces(Events))
    BY <1>1, ConcatProperties
  <2>2. Half(socket) \in Seq(Pieces(Events))
    <3>1. CASE socket = <<>>
      BY <3>1 DEF Half
    <3>2. CASE socket # <<>>
      <4>1. Last(socket) \in Pieces(Events)
        BY <1>1, <3>2, EmptySeq DEF Last
      <4> QED BY <4>1 DEF Half
    <3> QED BY <3>1, <3>2
  <2> QED BY <2>1, <2>2
<1>3. Full = <<>> \o ((guard.held \o socket) \o Coming)
  BY <1>0 DEF Full, Pending
<1>4. Full = (guard.held \o socket) \o Coming
  <2>1. (guard.held \o socket) \o Coming \in Seq(Pieces(Events))
    BY <1>1, <1>2, ConcatProperties
  <2> QED BY <1>3, <2>1, ConcatEmptySeq
<1>5. Coming' = Coming /\ ReaderHalf' = ReaderHalf
  BY <1>0 DEF Coming, ReaderHalf
<1> DEFINE X == guard.held \o socket
<1>6. CASE Decision(guard, socket) = "Forward"
  <2>1. guard' = [NewGuard EXCEPT !.flushed = TRUE] /\ body' = X
    BY <1>6 DEF PassChunk, Forwarded
  <2>2. guard' \in Guards /\ guard'.flushed = TRUE /\ guard'.held = <<>>
    <3>1. NewGuard \in Guards /\ NewGuard.held = <<>>
      BY DEF NewGuard, Guards
    <3> QED BY <2>1, <3>1 DEF Guards
  <2>3. Full' = X \o ((<<>> \o <<>>) \o Coming)
    BY <1>0, <1>5, <2>1, <2>2 DEF Full, Pending
  <2>4. Full' = Full
    <3>1. (<<>> \o <<>>) \o Coming = Coming
      <4>1. <<>> \o <<>> = <<>>
        BY ConcatEmptySeq
      <4> QED BY <1>1, <4>1, ConcatEmptySeq
    <3> QED BY <1>4, <2>3, <3>1
  <2>5. Types'
    BY <1>0, <1>1, <1>2, <2>1, <2>2 DEF Types
  <2>6. Ledger'
    BY <1>0 DEF Ledger, Output
  <2>7. Produced(D)' /\ Held(U)'
    BY <1>0, <2>2 DEF Ready, Produced, Held
  <2> QED BY <1>0, <1>5, <2>4, <2>5, <2>6, <2>7 DEF Ready
<1>7. CASE Decision(guard, socket) # "Forward"
  <2>1. guard' = [guard EXCEPT !.held = @ \o socket, !.half = Half(socket)] /\ body' = body
    BY <1>7 DEF PassChunk
  <2>2. guard' \in Guards /\ guard'.flushed = guard.flushed /\ guard'.held = X
    <3> DEFINE h == Half(socket)
               k == guard.held \o socket
    <3>1. guard' = [guard EXCEPT !.held = k, !.half = h]
      BY <2>1
    <3> HIDE DEF h, k
    <3>2. k \in Seq(Pieces(Events)) /\ h \in Seq(Pieces(Events))
      BY <1>2 DEF h, k
    <3> QED BY <1>1, <3>1, <3>2 DEF Guards, k
  <2>3. ~guard.flushed
    BY <1>0, <1>7, DecisionCases
  <2>4. Full' = <<>> \o ((X \o <<>>) \o Coming)
    BY <1>0, <1>5, <2>1, <2>2 DEF Full, Pending
  <2>5. Full' = Full
    <3>1. X \o <<>> = X
      BY <1>2, ConcatEmptySeq
    <3> QED BY <1>3, <2>4, <3>1
  <2>6. Types'
    <3>1. socket' \in Seq(Pieces(LineSet'))
      BY <1>0
    <3> QED BY <1>0, <1>1, <2>1, <2>2, <3>1 DEF Types
  <2>7. Ledger'
    BY <1>0 DEF Ledger, Output
  <2>8. Produced(D)' /\ Held(U)'
    BY <1>0, <2>1, <2>2, <2>3 DEF Ready, Produced, Held
  <2> QED BY <1>0, <1>5, <2>5, <2>6, <2>7, <2>8 DEF Ready
<1> QED BY <1>6, <1>7

\* A half line and nothing, or an error, to follow it.
LEMMA HalfJoined ==
  ASSUME Types
  PROVE  /\ Joined(ReaderHalf \o <<>>)
         /\ ErrorEvent \in Pieces(Events) => Joined(ReaderHalf \o <<ErrorEvent>>)
<1>1. ReaderHalf \in Halves(Events) /\ ReaderHalf \in Seq(Pieces(Events))
  BY FullType
<1>2. Joined(ReaderHalf)
  <2>1. <<>> \in Seq(Events)
    OBVIOUS
  <2> QED BY <1>1, <2>1, YieldJoined
<1>3. ReaderHalf \o <<>> = ReaderHalf
  BY <1>1, ConcatEmptySeq
<1>4. ASSUME ErrorEvent \in Pieces(Events) PROVE Joined(ReaderHalf \o <<ErrorEvent>>)
  <2> DEFINE p == ErrorEvent
  <2>1. p.part = "whole"
    BY DEF ErrorEvent, Whole
  <2> HIDE DEF p
  <2>2. Joined(<<p>>)
    BY <2>1 DEF Joined
  <2>3. <<p>> \in Seq(Pieces(Events))
    BY <1>4 DEF p
  <2> QED BY <1>1, <1>2, <2>2, <2>3, JoinedConcat DEF p
<1> QED BY <1>2, <1>3, <1>4

\* Where a broken stream, or one of which nothing is left to forward, has led.
LEMMA Drained ==
  ASSUME Types, pc = "streaming", body = <<>>, socket = <<>>, upstream # "sending",
         NEW U \in Views, NEW D \in Views, Ready(U, D)
  PROVE  \/ mode = "translate" /\ U = D /\ D = SseView(sse)
         \/ mode = "passthrough" /\ guard.flushed /\ U = D
         \/ mode = "passthrough" /\ U = NewClient
<1>1. Reaches(api, U, Ended(Full), D)
  BY DEF Ready
<1>2. CASE mode = "translate"
  <2>1. Full = <<>>
    BY <1>2 DEF Full, Pending
  <2>2. U = D
    BY <1>1, <2>1, EndedEmpty, ReachesEmpty
  <2> QED BY <1>2, <2>2 DEF Ready, Produced
<1>3. CASE mode = "passthrough" /\ guard.flushed
  <2>1. guard.held = <<>> /\ Coming = <<>>
    BY <1>3 DEF Ready, Held, Coming
  <2>2. Full = <<>>
    BY <1>3, <2>1, ConcatEmptySeq DEF Full, Pending
  <2>3. U = D
    BY <1>1, <2>2, EndedEmpty, ReachesEmpty
  <2> QED BY <1>3, <2>3
<1>4. CASE mode = "passthrough" /\ ~guard.flushed
  BY <1>4 DEF Ready, Held
<1> QED BY <1>2, <1>3, <1>4 DEF Types

\* A passthrough ends with its upstream, whatever the guard still holds.
LEMMA PassEndKeeps ==
  ASSUME Types, Ledger, PassEnd, NEW U \in Views, NEW D \in Views, Ready(U, D)
  PROVE  Types' /\ Ledger' /\ Ready(U, U)'
<1>0. /\ pc = "streaming" /\ pc' = "over" /\ body = <<>> /\ mode = "passthrough"
      /\ upstream = "eof" /\ socket = <<>>
      /\ upstream' = upstream /\ torn' = torn /\ told' = told /\ socket' = socket /\ body' = body
      /\ api' = api /\ mode' = mode /\ sse' = sse /\ guard' = guard
      /\ xlate' = xlate /\ inbox' = inbox /\ client' = client /\ stored' = stored
  BY DEF PassEnd, Polled, reader, wire
<1>1. Types'
  BY <1>0 DEF Types, LineSet
<1>2. Ledger'
  BY <1>0 DEF Ledger, Output
<1>3. \/ guard.flushed /\ U = D
      \/ U = NewClient
  BY <1>0, Drained
<1>4. Produced(U)'
  <2>1. CASE U = D
    <3>1. D = told
      BY <1>0 DEF Ready, Produced
    <3> QED BY <1>0, <2>1, <3>1 DEF Produced
  <2>2. CASE U = NewClient
    BY <1>0, <2>2 DEF Produced, NewClient
  <2> QED BY <1>3, <2>1, <2>2
<1>5. Held(U)'
  BY <1>0 DEF Held
<1>6. Full' = <<>> /\ ReaderHalf' = ReaderHalf
  BY <1>0, ConcatEmptySeq DEF Full, Pending, ReaderHalf
<1>7. Joined(ReaderHalf \o <<>>)
  BY HalfJoined
<1>8. Reaches(api, U, Ended(<<>>), U)
  BY EndedEmpty, ReachesEmpty
<1> QED BY <1>0, <1>1, <1>2, <1>4, <1>5, <1>6, <1>7, <1>8 DEF Ready

\* A stream that breaks ends with an error.
LEMMA StreamBreakKeeps ==
  ASSUME Types, Ledger, StreamBreak, NEW U \in Views, NEW D \in Views, Ready(U, D)
  PROVE  Types' /\ Ledger' /\ \E E \in Views : Ready(U, E)'
<1>0. /\ pc = "streaming" /\ pc' = "over" /\ body = <<>>
      /\ upstream = "broken" /\ socket = <<>>
      /\ upstream' = upstream /\ torn' = torn /\ told' = told /\ socket' = socket
      /\ body' = <<ErrorEvent>>
      /\ api' = api /\ mode' = mode /\ sse' = sse /\ guard' = guard
      /\ xlate' = xlate /\ inbox' = inbox /\ client' = client /\ stored' = stored
  BY DEF StreamBreak, Polled, reader, wire
<1> DEFINE e == Untyped("error")
           E == Heard(U, e)
<1>1. /\ ErrorEvent \in Pieces(Events) /\ <<ErrorEvent>> \in Seq(Pieces(Events))
      /\ Ended(<<ErrorEvent>>) = <<e>>
      /\ E \in Views /\ E.status = IF Live(U) THEN "error" ELSE U.status
      /\ ~Live(U) => E = U
      /\ Reaches(api, U, <<>> \o <<e>>, E)
  <2>1. Reaches(api, U, <<>>, U) /\ <<>> \in Seq(Events)
    BY ReachesEmpty
  <2> QED BY <2>1, ErrorPiece
<1>2. Reaches(api, U, <<e>>, E)
  <2>1. e \in Events
    BY ErrorLegal
  <2> HIDE DEF e, E
  <2>2. <<>> \o <<e>> = <<e>>
    BY <2>1, ConcatEmptySeq
  <2> QED BY <1>1, <2>2
<1> HIDE DEF E, e
<1>3. PICK F \in Views : F = E
  BY <1>1
<1>4. Types'
  BY <1>0, <1>1 DEF Types, LineSet
<1>5. Ledger'
  BY <1>0 DEF Ledger, Output
<1>6. Produced(F)'
  <2>1. CASE Live(U)
    BY <1>0, <1>1, <1>3, <2>1 DEF Produced
  <2>2. CASE ~Live(U)
    <3>1. F = U /\ U # NewClient /\ ~Live(F)
      BY <1>1, <1>3, <2>2 DEF Live, NewClient
    <3>2. U = D
      BY <1>0, <3>1, Drained
    <3>3. ~ (mode = "translate")
      <4>1. ASSUME mode = "translate" PROVE FALSE
        <5>1. U = SseView(sse)
          BY <1>0, <3>1, <4>1, Drained
        <5>2. Live(SseView(sse))
          BY SseViewType DEF Types
        <5> QED BY <2>2, <5>1, <5>2
      <4> QED BY <4>1
    <3>4. D = told
      BY <1>0, <2>2, <3>2, <3>3 DEF Ready, Produced
    <3> QED BY <1>0, <3>1, <3>2, <3>3, <3>4 DEF Produced
  <2> QED BY <2>1, <2>2
<1>7. Held(U)'
  BY <1>0 DEF Held
<1>8. Full' = <<ErrorEvent>> /\ ReaderHalf' = ReaderHalf
  <2>1. Pending' = <<>>
    BY <1>0 DEF Pending
  <2>2. <<ErrorEvent>> \o <<>> = <<ErrorEvent>>
    BY <1>1, ConcatEmptySeq
  <2> QED BY <1>0, <2>1, <2>2 DEF Full, ReaderHalf
<1>9. Joined(ReaderHalf \o <<ErrorEvent>>)
  BY <1>1, HalfJoined
<1>10. Ready(U, F)'
  BY <1>0, <1>1, <1>2, <1>3, <1>6, <1>7, <1>8, <1>9 DEF Ready
<1> QED BY <1>4, <1>5, <1>10

\* The guard drops what it holds: nothing of it has left.
LEMMA RetryKeeps ==
  ASSUME Types, Ledger, RetryZeroOutput, NEW U \in Views, NEW D \in Views, Ready(U, D)
  PROVE  Types' /\ Ledger' /\ \E E \in Views : Ready(U, E)'
<1>0. /\ pc = "streaming" /\ body = <<>> /\ mode = "passthrough" /\ guard' = NewGuard
      /\ api' = api /\ mode' = mode /\ sse' = sse
      /\ xlate' = xlate /\ inbox' = inbox /\ client' = client /\ stored' = stored
      /\ Decision(guard, socket) = "RetryZeroOutput"
  BY DEF RetryZeroOutput, Polled, reader
<1>1. U = NewClient /\ ReaderHalf' = ReaderHalf /\ LineSet' = LineSet /\ LineSet = Events
  <2>1. ~guard.flushed
    BY <1>0, DecisionCases
  <2> QED BY <1>0, <2>1 DEF Ready, Held, ReaderHalf, LineSet
<1>2. guard' \in Guards /\ guard'.held = <<>> /\ guard'.flushed = FALSE
  BY <1>0 DEF NewGuard, Guards
<1>3. CASE attempt < Attempts
  <2>1. /\ told' = NewClient /\ socket' = <<>> /\ torn' = NoLine /\ upstream' = "sending"
        /\ pc' = pc /\ body' = body
    BY <1>3 DEF RetryZeroOutput
  <2>2. Types'
    BY <1>0, <1>1, <1>2, <2>1 DEF Types
  <2>3. Ledger'
    BY <1>0, <2>1 DEF Ledger
  <2>4. Full' = <<>>
    <3>1. Coming' = <<>>
      BY <2>1 DEF Coming
    <3>2. <<>> \o <<>> = <<>>
      BY ConcatEmptySeq
    <3> QED BY <1>0, <1>2, <2>1, <3>1, <3>2 DEF Full, Pending
  <2>5. Produced(U)' /\ Held(U)'
    BY <1>0, <1>1, <1>2, <2>1 DEF Produced, Held, NewClient
  <2>6. Reaches(api, U, Ended(<<>>), U)
    BY EndedEmpty, ReachesEmpty
  <2>7. Joined(ReaderHalf \o <<>>)
    BY HalfJoined
  <2>8. Ready(U, U)'
    BY <1>0, <1>1, <2>4, <2>5, <2>6, <2>7 DEF Ready
  <2> QED BY <2>2, <2>3, <2>8
<1>4. CASE ~ (attempt < Attempts)
  <2> DEFINE e == Untyped("error")
             E == Heard(U, e)
  <2>1. /\ told' = told /\ socket' = socket /\ torn' = torn /\ upstream' = upstream
        /\ pc' = "over" /\ body' = <<ErrorEvent>>
    BY <1>4 DEF RetryZeroOutput, wire
  <2>2. /\ ErrorEvent \in Pieces(Events) /\ <<ErrorEvent>> \in Seq(Pieces(Events))
        /\ Ended(<<ErrorEvent>>) = <<e>>
        /\ E \in Views /\ E.status = IF Live(U) THEN "error" ELSE U.status
        /\ Reaches(api, U, <<>> \o <<e>>, E)
    <3>1. Reaches(api, U, <<>>, U) /\ <<>> \in Seq(Events)
      BY ReachesEmpty
    <3> QED BY <3>1, ErrorPiece
  <2>3. Reaches(api, U, <<e>>, E)
    <3>1. e \in Events
      BY ErrorLegal
    <3> HIDE DEF e, E
    <3>2. <<>> \o <<e>> = <<e>>
      BY <3>1, ConcatEmptySeq
    <3> QED BY <2>2, <3>2
  <2> HIDE DEF E, e
  <2>4. PICK F \in Views : F = E
    BY <2>2
  <2>5. Types'
    BY <1>0, <1>1, <1>2, <2>1, <2>2 DEF Types
  <2>6. Ledger'
    BY <1>0, <2>1 DEF Ledger
  <2>7. Produced(F)' /\ Held(U)'
    <3>1. F.status = "error"
      BY <1>1, <2>2, <2>4 DEF Live, NewClient
    <3> QED BY <2>1, <3>1 DEF Produced, Held
  <2>8. Full' = <<ErrorEvent>>
    <3>1. Pending' = <<>>
      BY <2>1 DEF Pending
    <3>2. <<ErrorEvent>> \o <<>> = <<ErrorEvent>>
      BY <2>2, ConcatEmptySeq
    <3> QED BY <2>1, <3>1, <3>2 DEF Full
  <2>9. Joined(ReaderHalf \o <<ErrorEvent>>)
    BY <2>2, HalfJoined
  <2>10. Ready(U, F)'
    BY <1>0, <1>1, <2>2, <2>3, <2>4, <2>7, <2>8, <2>9 DEF Ready
  <2> QED BY <2>5, <2>6, <2>10
<1> QED BY <1>3, <1>4

-------------------------------------------------------------------------------
(* The way to the client *)

\* What is read of the client's side stays while the others move.
LEMMA FollowedStays ==
  ASSUME NEW U, NEW M, Followed(U, M), UNCHANGED <<api, reader>>
  PROVE  Followed(U, M)'
BY DEF Followed, reader

\* The client's side, after the body has been delivered.
LEMMA DeliverKeeps ==
  ASSUME Types, Ledger, Deliver, client.status # "cut",
         NEW U \in Views, NEW D \in Views, NEW M \in Views, Ready(U, D), Followed(U, M)
  PROVE  /\ Types' /\ Ledger' /\ client'.status # "cut"
         /\ \E V, N \in Views : Ready(V, D)' /\ Followed(V, N)'
<1>0. /\ pc' = pc /\ body # <<>> /\ body' = <<>> /\ mode' = mode /\ upstream' = upstream
      /\ said' = said
      /\ torn' = torn /\ told' = told /\ socket' = socket /\ inbox = <<>>
      /\ api' = api /\ sse' = sse /\ guard' = guard /\ stored' = stored
  BY DEF Deliver, backend, wire
<1>1. /\ ReaderHalf \in Halves(Events) /\ ReaderHalf \in Seq(Pieces(Events))
      /\ Pending \in Seq(Pieces(Events)) /\ body \in Seq(Pieces(Events))
  BY FullType DEF Types
<1>2. Joined(ReaderHalf \o (body \o Pending))
  BY DEF Ready, Full
<1>3. Half(body) \in Halves(Events) /\ Joined(Half(body) \o Pending)
  BY <1>0, <1>1, <1>2, JoinedHalf
<1>4. Lines(ReaderHalf, body) = Ended(body) /\ Ended(body) \in Seq(Events)
  <2>1. ReaderHalf \o body \in Seq(Pieces(Events)) /\ Groups(Pieces(Events))
    BY <1>1, ConcatProperties, Grouped
  <2>2. Grouping(ReaderHalf, body, Pending)
    BY <1>1, <2>1, Zenon DEF Groups
  <2>3. Joined(ReaderHalf \o body)
    BY <1>1, <1>2, <2>1, <2>2, JoinedPrefix DEF Grouping
  <2> QED BY <1>1, <2>3, LinesEnded, EndedType
<1> DEFINE q == Ended(body)
           c == View(client)
<1>5. q \in Seq(Events) /\ Ended(Pending) \in Seq(Events) /\ Ended(Full) = q \o Ended(Pending)
  BY <1>1, <1>4, EndedConcat, EndedType DEF Full
<1>6. PICK V \in Views : Reaches(api, U, q, V) /\ Reaches(api, V, Ended(Pending), D)
  <2>1. Reaches(api, U, q \o Ended(Pending), D)
    BY <1>5 DEF Ready
  <2> HIDE DEF q
  <2> QED BY <1>5, <2>1, ReachesSplit
<1>7. M = c /\ c \in Views
  <2>1. c \in Views
    BY ViewFields DEF Types
  <2>2. Reaches(api, c, <<>>, M)
    BY <1>0 DEF Followed
  <2> QED BY <2>1, <2>2, ReachesEmpty
<1>8. Pending' = Pending /\ Full' = <<>> \o Pending /\ <<>> \o Pending = Pending
  BY <1>0, <1>1, ConcatEmptySeq DEF Full, Pending, Coming
<1>9. Produced(D)' /\ Held(V)'
  <2>1. Produced(D)'
    BY <1>0 DEF Ready, Produced, AllRead
  <2>2. Held(V)'
    BY <1>0 DEF Ready, Held
  <2> QED BY <2>1, <2>2
<1>10. Ledger'
  BY <1>0 DEF Ledger, Output
<1>11. ASSUME ReaderHalf' = Half(body) PROVE Ready(V, D)'
  BY <1>0, <1>3, <1>6, <1>8, <1>9, <1>11 DEF Ready
<1>12. CASE api = "responses"
  <2>1. /\ inbox' = Lines(client.half, body) /\ client' = [client EXCEPT !.half = Half(body)]
        /\ xlate' = xlate
    BY <1>12 DEF Deliver
  <2>2. inbox' = q /\ ReaderHalf = client.half
    BY <1>4, <1>12, <2>1 DEF ReaderHalf
  <2> DEFINE h == Half(body)
  <2> HIDE DEF h
  <2>3. client' \in Clients /\ client'.status = client.status /\ View(client') = c /\ client'.half = h
    <3>1. h \in Halves(Events) /\ client \in Clients /\ client' = [client EXCEPT !.half = h]
      BY <1>3, <2>1 DEF h, Types
    <3>2. client' \in Clients /\ client'.status = client.status /\ client'.half = h
      BY <3>1 DEF Clients
    <3>3. [client' EXCEPT !.half = <<>>] = [client EXCEPT !.half = <<>>]
      BY <3>1 DEF Clients
    <3> QED BY <3>2, <3>3 DEF View
  <2>4. Types'
    BY <1>0, <1>5, <2>1, <2>2, <2>3 DEF Types, LineSet
  <2>5. Ready(V, D)'
    BY <1>0, <1>11, <1>12, <2>3 DEF ReaderHalf, h
  <2>6. Followed(V, V)'
    <3>1. U = c
      BY <1>7, <1>12 DEF Followed
    <3>2. Reaches(api, View(client'), inbox', V)
      BY <1>6, <2>2, <2>3, <3>1
    <3> QED BY <1>0, <1>12, <3>2 DEF Followed
  <2> QED BY <1>10, <2>3, <2>4, <2>5, <2>6
<1>13. CASE api = "messages"
  <2> DEFINE z == [xlate EXCEPT !.out = <<>>]
             x == FoldLeft(TranslateEvent, z, q)
             h == Half(body)
  <2>1. client' = client /\ ReaderHalf = xlate.half
    BY <1>13 DEF Deliver, ReaderHalf
  <2>2. inbox' = x.out /\ xlate' = [x EXCEPT !.half = h]
    <3>1. Lines(xlate.half, body) = q
      BY <1>4, <2>1
    <3> QED BY <1>13, <3>1 DEF Deliver
  <2>3. /\ z \in Translators /\ z.half = xlate.half /\ z.out = <<>> /\ z.next = xlate.next
        /\ z.stopped = xlate.stopped /\ z.open = xlate.open /\ z.blockOf = xlate.blockOf
    <3>1. xlate \in Translators
      BY DEF Types
    <3>2. <<>> \in Seq(Events)
      OBVIOUS
    <3> QED BY <3>1, <3>2 DEF Translators
  <2> HIDE DEF z, h
  <2>4. Coupled(z, U, M) /\ Reaches("messages", c, z.out, M)
    <3>1. Coupled(xlate, U, M)
      BY <1>13 DEF Followed
    <3>2. Coupled(z, U, M)
      BY <2>3, <3>1 DEF Coupled
    <3>3. Reaches("messages", c, <<>>, M)
      BY <1>7, ReachesEmpty
    <3> QED BY <2>3, <3>2, <3>3
  <2>5. /\ x \in Translators /\ x.half = z.half
        /\ \E N \in Views : Reaches("messages", c, x.out, N) /\ Coupled(x, V, N)
    <3>1. Reaches("messages", U, q, V)
      BY <1>6, <1>13
    <3> HIDE DEF q, c
    <3> QED BY <1>5, <1>7, <2>3, <2>4, <3>1, ChunkTranslated
  <2>6. PICK N \in Views : Reaches("messages", c, x.out, N) /\ Coupled(x, V, N)
    BY <2>5
  <2> HIDE DEF x
  <2>7. h \in Halves(Events)
    BY <1>3 DEF h
  <2>8. /\ xlate' \in Translators /\ xlate'.half = h /\ xlate'.next = x.next
        /\ xlate'.stopped = x.stopped /\ xlate'.open = x.open /\ xlate'.blockOf = x.blockOf
    BY <2>2, <2>5, <2>7 DEF Translators
  <2>9. Coupled(xlate', V, N)
    BY <2>6, <2>8 DEF Coupled
  <2>10. inbox' \in Seq(Events)
    BY <2>2, <2>5 DEF Translators
  <2>11. Types'
    BY <1>0, <2>1, <2>8, <2>10 DEF Types, LineSet
  <2>12. Ready(V, D)'
    BY <1>0, <1>11, <1>13, <2>8 DEF ReaderHalf, h
  <2>13. Followed(V, N)'
    <3>1. Reaches(api, View(client'), inbox', N)
      BY <1>13, <2>1, <2>2, <2>6
    <3> QED BY <1>0, <1>13, <2>9, <3>1 DEF Followed
  <2> QED BY <1>10, <2>1, <2>11, <2>12, <2>13
<1> QED BY <1>12, <1>13 DEF Types

\* The client reads one event more.
LEMMA ReadKeeps ==
  ASSUME Types, Ledger, Read, client.status # "cut",
         NEW U \in Views, NEW D \in Views, NEW M \in Views, Ready(U, D), Followed(U, M)
  PROVE  /\ Types' /\ Ledger' /\ client'.status # "cut"
         /\ Ready(U, D)' /\ Followed(U, M)'
<1> DEFINE c == View(client)
           e == Head(inbox)
<1>0. /\ pc' = pc /\ body' = body /\ mode' = mode /\ upstream' = upstream /\ said' = said
      /\ torn' = torn /\ told' = told /\ socket' = socket
      /\ api' = api /\ sse' = sse /\ guard' = guard /\ stored' = stored /\ xlate' = xlate
      /\ inbox # <<>> /\ inbox' = Tail(inbox)
      /\ client' = IF Listening THEN Hear(client, e) ELSE client
  BY DEF Read, backend, wire
<1>1. client \in Clients /\ c \in Views /\ c.status = client.status /\ inbox \in Seq(Events)
  BY ViewFields DEF Types
<1>2. /\ e \in Events /\ Tail(inbox) \in Seq(Events)
      /\ Legal(api, c, e) /\ Reaches(api, Heard(c, e), Tail(inbox), M)
  <2>1. Reaches(api, c, inbox, M)
    BY DEF Followed
  <2> HIDE DEF c
  <2> QED BY <1>0, <1>1, <2>1, ReachesHead
<1>3. /\ client' \in Clients /\ client'.status # "cut" /\ client'.half = client.half
      /\ View(client') = Heard(c, e)
  <2>1. CASE Listening
    <3>1. Live(client)
      BY <2>1 DEF Listening, Live
    <3>2. client' = Hear(client, e)
      BY <1>0, <2>1
    <3> HIDE DEF e
    <3>3. /\ Hear(client, e) \in Clients /\ Hear(client, e).status \in Told
          /\ Hear(client, e).half = client.half
          /\ View(Hear(client, e)) = Heard(View(client), e)
      BY <1>1, <1>2, <3>1, HearHeard
    <3> QED BY <3>2, <3>3 DEF Told
  <2>2. CASE ~Listening
    <3>1. client' = client /\ ~Live(c)
      BY <1>0, <1>1, <2>2 DEF Listening, Live
    <3>2. Heard(c, e) = c
      BY <3>1 DEF Heard
    <3> QED BY <1>1, <3>1, <3>2
  <2> QED BY <2>1, <2>2
<1>4. Types'
  BY <1>0, <1>2, <1>3 DEF Types, LineSet
<1>5. Ledger'
  BY <1>0 DEF Ledger, Output
<1>6. ReaderHalf' = ReaderHalf /\ Full' = Full
  BY <1>0, <1>3 DEF ReaderHalf, Full, Pending, Coming
<1>7. Ready(U, D)'
  BY <1>0, <1>6 DEF Ready, Produced, AllRead, Held
<1>8. Followed(U, M)'
  BY <1>0, <1>2, <1>3 DEF Followed
<1> QED BY <1>3, <1>4, <1>5, <1>7, <1>8

-------------------------------------------------------------------------------
(* The answer's end, and the invariant *)

\* ReadSoFar while nothing is said or read.
LEMMA ReadingStays ==
  ASSUME Reading, mode' = mode, UNCHANGED <<torn, said, socket>>, pc' = "streaming" => pc = pc' /\ sse' = sse
  PROVE  Reading'
BY DEF Reading, Unbroken, ReadSoFar

\* One line more is said, whole.
LEMMA SendReads ==
  ASSUME Types, Reading, NEW line \in Sayable, NEW part \in {"whole", "head"}, Send(line, part)
  PROVE  Reading'
<1> SUFFICES ASSUME Unbroken PROVE Reading'
  BY DEF Reading, Unbroken, Send
<1> DEFINE piece == [line |-> line, part |-> part]
<1>0. /\ pc' = pc /\ pc = "streaming" /\ mode' = mode /\ sse' = sse /\ part = "whole"
      /\ said' = Append(said, line) /\ socket' = Append(socket, piece) /\ torn' = NoLine
  BY DEF Send, backend, Unbroken
<1>1. line \in ChatLines /\ (ChatFinished => line.parts = <<>>)
  BY DEF Unbroken, Sayable
<1>2. /\ said \in Seq(ChatLines) /\ OneFinish(PartsOf(said))
      /\ \A i \in DOMAIN socket : socket[i].part = "whole"
  BY DEF Reading
<1>3. PICK q \in Seq(ChatLines) : said = q \o Ended(socket) /\ Recorded(PartsOf(q), sse)
  BY <1>0 DEF Reading, ReadSoFar
<1>4. /\ socket \in Seq(Pieces(ChatLines)) /\ piece \in Pieces(ChatLines) /\ piece.part = "whole"
      /\ LineEnded(piece) = <<line>>
  BY <1>0, <1>1 DEF Types, LineSet, Unbroken, Pieces, LineEnded
<1> HIDE DEF piece
<1>5. said' \in Seq(ChatLines) /\ OneFinish(PartsOf(said'))
  <2>1. (\E i \in DOMAIN said : Finishes(said[i])) => line.parts = <<>>
    BY <1>1 DEF ChatFinished
  <2> QED BY <1>0, <1>1, <1>2, <2>1, OneFinishStays
<1>6. \A i \in DOMAIN socket' : socket'[i].part = "whole"
  <2>1. /\ DOMAIN socket' = 1..(Len(socket) + 1) /\ DOMAIN socket = 1..Len(socket)
        /\ socket'[Len(socket) + 1] = piece /\ \A i \in 1..Len(socket) : socket'[i] = socket[i]
    BY <1>0, <1>4
  <2>2. \A i \in 1..(Len(socket) + 1) : i = Len(socket) + 1 \/ i \in 1..Len(socket)
    BY <1>4
  <2> QED BY <1>2, <1>4, <2>1, <2>2
<1>7. said' = q \o Ended(socket')
  <2> DEFINE e == Ended(socket)
  <2>1. e \in Seq(ChatLines)
    BY <1>4, EndedType
  <2>2. Ended(socket') = e \o <<line>>
    <3>1. <<piece>> \in Seq(Pieces(ChatLines)) /\ socket' = socket \o <<piece>>
      BY <1>0, <1>4, AppendIsConcat
    <3>2. Ended(<<piece>>) = <<line>>
      BY <1>4, EndedOne
    <3> QED BY <1>4, <3>1, <3>2, EndedConcat
  <2> HIDE DEF e
  <2>3. said = q \o e /\ said' = said \o <<line>> /\ <<line>> \in Seq(ChatLines)
    BY <1>0, <1>1, <1>2, <1>3, AppendIsConcat DEF e
  <2>4. (q \o e) \o <<line>> = q \o (e \o <<line>>)
    BY <2>1, <2>3, ConcatAssociative
  <2> QED BY <2>2, <2>3, <2>4
<1> QED BY <1>0, <1>3, <1>5, <1>6, <1>7 DEF Reading, ReadSoFar

\* A chunk is read, up to a line that is an error.
LEMMA ChunkReads ==
  ASSUME Types, Reading, TranslateChunk
  PROVE  Reading'
<1> SUFFICES ASSUME Unbroken PROVE Reading'
  BY DEF Reading, Unbroken, TranslateChunk
<1> DEFINE lines == Lines(<<>>, socket)
           bad == SelectInSeq(lines, LAMBDA l : l.error)
           good == IF bad = 0 THEN lines ELSE SubSeq(lines, 1, bad - 1)
           z == [sse EXCEPT !.out = <<>>]
           s == FoldLeft(Feed, z, good)
<1>0. /\ pc = "streaming" /\ mode' = mode /\ torn' = torn /\ said' = said /\ socket' = <<>>
      /\ sse' = s /\ pc' = IF bad = 0 THEN pc ELSE "over"
  BY DEF TranslateChunk, Polled
<1>1. /\ said \in Seq(ChatLines) /\ OneFinish(PartsOf(said)) /\ torn = NoLine
      /\ \A i \in DOMAIN socket : socket[i].part = "whole"
  BY DEF Reading
<1>2. PICK q \in Seq(ChatLines) : said = q \o Ended(socket) /\ Recorded(PartsOf(q), sse)
  BY <1>0 DEF Reading, ReadSoFar
<1>3. socket \in Seq(Pieces(ChatLines)) /\ sse \in Sses
  BY DEF Types, LineSet, Unbroken
<1>4. lines = Ended(socket) /\ lines \in Seq(ChatLines)
  <2>1. <<>> \o socket = socket /\ <<>> \in Halves(ChatLines)
    BY <1>3, ConcatEmptySeq DEF Halves
  <2>2. Joined(socket)
    BY <1>1 DEF Joined
  <2>3. Joined(<<>> \o socket)
    BY <2>1, <2>2
  <2>4. lines = Ended(socket)
    BY <1>3, <2>1, <2>3, LinesEnded
  <2> QED BY <1>3, <2>4, EndedType
<1>5. z \in Sses /\ Emitted(SseView(sse), z) /\ SseView(sse) \in Views /\ Recorded(PartsOf(q), z)
  BY <1>2, <1>3, EmptiedEmits, EmptiedRecorded, SseViewType
<1> HIDE DEF z, lines
<1>6. bad = 0 => Recorded(PartsOf(said), s)
  <2> SUFFICES ASSUME bad = 0 PROVE Recorded(PartsOf(said), s)
    OBVIOUS
  <2>1. good = lines
    OBVIOUS
  <2> HIDE DEF good
  <2>2. Recorded(PartsOf(q \o lines), FoldLeft(Feed, z, lines))
    BY <1>4, <1>5, LinesRecorded
  <2> QED BY <1>2, <1>4, <2>1, <2>2
<1> HIDE DEF s, bad
<1>7. pc' = "streaming" => ReadSoFar'
  <2> SUFFICES ASSUME bad = 0 PROVE ReadSoFar'
    BY <1>0
  <2>1. said \o <<>> = said
    BY <1>1, ConcatEmptySeq
  <2>2. said' = said \o Ended(socket') /\ Recorded(PartsOf(said), sse')
    BY <1>0, <1>6, <2>1, EndedEmpty
  <2> QED BY <1>1, <2>2 DEF ReadSoFar
<1>8. \A i \in DOMAIN socket' : socket'[i].part = "whole"
  BY <1>0
<1> QED BY <1>0, <1>1, <1>7, <1>8 DEF Reading

\* The other steps read nothing, or end the reading.
LEMMA ReadingNext ==
  ASSUME Types, Reading, Next
  PROVE  Reading'
<1>1. ASSUME NEW line \in Sayable, NEW part \in {"whole", "head"}, Send(line, part) PROVE Reading'
  BY <1>1, SendReads
<1>2. CASE TranslateChunk
  BY <1>2, ChunkReads
<1>3. CASE SendRest
  BY <1>3 DEF SendRest, Reading, Unbroken
<1>4. CASE Close \/ Break \/ Leave \/ Deliver \/ Read \/ Hangup
  <2>1. mode' = mode /\ UNCHANGED <<torn, said, socket>> /\ (pc' = "streaming" => pc = pc' /\ sse' = sse)
    BY <1>4 DEF Close, Break, Leave, Deliver, Read, Hangup, wire, backend
  <2> QED BY <2>1, ReadingStays
<1>5. CASE TranslateEnd \/ Settle \/ StreamBreak
  <2>1. mode' = mode /\ UNCHANGED <<torn, said, socket>> /\ pc' # "streaming"
    BY <1>5 DEF TranslateEnd, Settle, StreamBreak, wire
  <2> QED BY <2>1, ReadingStays
<1>6. CASE PassChunk \/ RetryZeroOutput \/ PassEnd
  BY <1>6 DEF PassChunk, RetryZeroOutput, PassEnd, Reading, Unbroken
<1> QED BY <1>1, <1>2, <1>3, <1>4, <1>5, <1>6 DEF Next, Backend, Reader

\* ChatItems is about what was said.
LEMMA ChatItemsStay ==
  ASSUME said' = said
  PROVE  ChatItems' = ChatItems
BY DEF ChatItems

\* What a client that has heard the end was told is what is kept of it.
LEMMA ToldAsProduced ==
  ASSUME Types, Ledger, Reading, Telling
  PROVE  StoredAsTold /\ (mode = "passthrough" \/ Unbroken => Faithful /\ TruncationTold)
<1>1. PICK U, D, M \in Views : Followed(U, M) /\ Ready(U, D)
  BY DEF Telling
<1> SUFFICES ASSUME client.status \in {"completed", "incomplete"}
             PROVE  /\ stored # <<>> => stored = Sizes(client.items)
                    /\ mode = "passthrough" => Sizes(client.items) = Sizes(told.items)
                    /\ Unbroken => Sizes(client.items) = ChatItems /\ TruncationTold
  BY DEF StoredAsTold, Faithful, UpstreamItems, TruncationTold, Unbroken
<1> DEFINE c == View(client)
<1>2. c \in Views /\ c.status = client.status /\ c.items = client.items /\ ~Live(c)
  BY ViewFields DEF Types, Live
<1>3. M = c
  <2>1. Reaches(api, c, inbox, M) /\ inbox \in Seq(Events)
    BY <1>1 DEF Followed, Types
  <2> HIDE DEF c
  <2> QED BY <1>2, <2>1, ReachesEnded
<1> HIDE DEF c
<1>4. /\ ~Live(U) /\ U.status \in {"completed", "incomplete", "failed"}
      /\ Sizes(U.items) = Sizes(client.items)
  <2>1. CASE api = "responses"
    BY <1>1, <1>2, <1>3, <2>1 DEF Followed
  <2>2. CASE api = "messages"
    <3>1. Coupled(xlate, U, M)
      BY <1>1, <2>2 DEF Followed
    <3>2. ~Live(U)
      BY <1>2, <1>3, <3>1 DEF Coupled
    <3>3. M.status \in {"completed", "incomplete"}
      BY <1>2, <1>3
    <3> QED BY <1>2, <1>3, <3>1, <3>2, <3>3 DEF Coupled
  <2> QED BY <2>1, <2>2 DEF Types
<1>5. D = U
  <2>1. Reaches(api, U, Ended(Full), D)
    BY <1>1 DEF Ready
  <2>2. Ended(Full) \in Seq(Events)
    BY FullType, EndedType
  <2> QED BY <1>4, <2>1, <2>2, ReachesEnded
<1>6. Produced(D)
  BY <1>1 DEF Ready
<1>7. ASSUME stored # <<>> PROVE stored = Sizes(client.items)
  <2>1. mode = "translate" /\ pc = "over" /\ stored = Output(sse)
    BY <1>7 DEF Ledger
  <2> QED BY <1>4, <1>5, <1>6, <2>1 DEF Produced
<1>8. ASSUME mode = "passthrough" PROVE Sizes(client.items) = Sizes(told.items)
  <2>1. CASE pc = "streaming"
    <3>1. D = told
      BY <1>4, <1>5, <1>6, <1>8, <2>1 DEF Produced
    <3> QED BY <1>4, <1>5, <3>1
  <2>2. CASE pc # "streaming"
    BY <1>4, <1>5, <1>6, <1>8, <2>2 DEF Produced
  <2> QED BY <2>1, <2>2
<1>9. ASSUME Unbroken PROVE Sizes(client.items) = ChatItems /\ TruncationTold
  <2>1. pc # "streaming" /\ mode = "translate"
    <3>1. pc = "streaming" => D = SseView(sse)
      BY <1>6, <1>9 DEF Produced, Unbroken
    <3>2. Live(SseView(sse))
      BY SseViewType DEF Types
    <3> QED BY <1>4, <1>5, <1>9, <3>1, <3>2 DEF Unbroken
  <2>2. /\ D.status = Outcome(sse.finish) /\ Sizes(D.items) = Output(sse)
        /\ Recorded(PartsOf(said), sse)
    BY <1>4, <1>5, <1>6, <1>9, <2>1 DEF Produced, AllRead, Unbroken
  <2>3. said \in Seq(ChatLines) /\ OneFinish(PartsOf(said)) /\ sse \in Sses
    BY <1>9 DEF Reading, Types
  <2>4. client.status = Outcome(sse.finish)
    BY <1>1, <1>2, <1>3, <1>5, <2>1, <2>2 DEF Followed, Types
  <2>5. Output(sse) = ChatItems
    BY <2>2, <2>3, ItemsRecordedAre
  <2>6. TruncationTold
    BY <2>2, <2>3, <2>4, OutcomeRecorded DEF TruncationTold
  <2> QED BY <1>4, <1>5, <2>2, <2>5, <2>6
<1> QED BY <1>7, <1>8, <1>9

\* The body has ended before the answer has.
LEMMA HangupKeeps ==
  ASSUME Types, Ledger, Hangup
  PROVE  Types' /\ Ledger' /\ Over'
<1>0. /\ pc = "over" /\ body = <<>> /\ inbox = <<>>
      /\ pc' = pc /\ body' = body /\ mode' = mode /\ upstream' = upstream /\ inbox' = inbox
      /\ torn' = torn /\ told' = told /\ socket' = socket
      /\ api' = api /\ sse' = sse /\ guard' = guard /\ stored' = stored /\ xlate' = xlate
      /\ client' = [client EXCEPT !.status = "cut"]
  BY DEF Hangup, backend, wire
<1>1. client' \in Clients /\ client'.status = "cut"
  BY <1>0 DEF Types, Clients
<1>2. Types'
  BY <1>0, <1>1 DEF Types, LineSet
<1>3. Ledger'
  BY <1>0 DEF Ledger, Output
<1>4. Over'
  BY <1>0, <1>1 DEF Over, Listening, StoredAsTold, Faithful, TruncationTold
<1> QED BY <1>2, <1>3, <1>4

\* The client leaves.
LEMMA LeaveKeeps ==
  ASSUME Types, Ledger, Reading, Telling, Leave
  PROVE  Types' /\ Ledger' /\ Over'
<1>0. /\ pc # "over" /\ pc' = "over" /\ body' = <<>> /\ inbox' = <<>>
      /\ mode' = mode /\ upstream' = upstream /\ said' = said
      /\ torn' = torn /\ told' = told /\ socket' = socket
      /\ api' = api /\ sse' = sse /\ guard' = guard /\ stored' = stored /\ xlate' = xlate
      /\ client' = [client EXCEPT !.status = IF Listening THEN "cut" ELSE @]
  BY DEF Leave, wire
<1> DEFINE t == IF Listening THEN "cut" ELSE client.status
<1>1. client' = [client EXCEPT !.status = t] /\ client \in Clients /\ t \in Told \union {"cut"}
  BY <1>0 DEF Types, Clients, Told
<1>2. t \notin {"waiting", "open"} /\ (t # "cut" => t = client.status)
  BY DEF Listening
<1> HIDE DEF t
<1>3. client' \in Clients /\ client'.status = t /\ client'.items = client.items
  BY <1>1 DEF Clients
<1>4. Types'
  BY <1>0, <1>3 DEF Types, LineSet
<1>5. stored = <<>>
  BY <1>0 DEF Ledger
<1>6. Ledger'
  BY <1>0, <1>5 DEF Ledger
<1>7. (mode = "passthrough" \/ Unbroken => Faithful /\ TruncationTold)'
  <2> SUFFICES ASSUME mode = "passthrough" \/ Unbroken, t \in {"completed", "incomplete"}
               PROVE  (Faithful /\ TruncationTold)'
    BY <1>0, <1>3 DEF Faithful, TruncationTold, Unbroken
  <2>1. t = client.status
    BY <1>2
  <2>2. Faithful /\ TruncationTold
    BY ToldAsProduced
  <2>3. Faithful'
    BY <1>0, <1>3, <2>1, <2>2, ChatItemsStay DEF Faithful, UpstreamItems
  <2>4. TruncationTold'
    BY <1>0, <1>3, <2>1, <2>2 DEF TruncationTold
  <2> QED BY <2>3, <2>4
<1>8. Over'
  BY <1>0, <1>2, <1>3, <1>5, <1>7 DEF Over, Listening, StoredAsTold
<1> QED BY <1>4, <1>6, <1>8

\* Nothing moves after the end.
LEMMA OverStops ==
  ASSUME Types, Ledger, Over
  PROVE  ~Next
<1> SUFFICES ASSUME Next PROVE FALSE
  OBVIOUS
<1>0. pc = "over" /\ body = <<>> /\ inbox = <<>> /\ ~Listening
  BY DEF Over
<1>1. ASSUME NEW line \in Sayable, NEW part \in {"whole", "head"}, Send(line, part) PROVE FALSE
  BY <1>0, <1>1 DEF Send
<1>2. CASE SendRest
  BY <1>0, <1>2 DEF SendRest
<1>3. CASE Close
  BY <1>0, <1>3 DEF Close
<1>4. CASE Break
  BY <1>0, <1>4 DEF Break
<1>5. CASE Leave
  BY <1>0, <1>5 DEF Leave
<1>6. CASE Backend
  BY <1>0, <1>6 DEF Backend, TranslateChunk, TranslateEnd, Settle, PassChunk, RetryZeroOutput,
                    PassEnd, StreamBreak, Polled
<1>7. CASE Reader
  BY <1>0, <1>7 DEF Reader, Deliver, Read, Hangup
<1> QED BY <1>1, <1>2, <1>3, <1>4, <1>5, <1>6, <1>7 DEF Next

\* It holds at first.
LEMMA InvInit ==
  ASSUME <<"messages", "translate">> \notin Modes, Init
  PROVE  Inv
<1>1. PICK m \in Modes : api = m[1] /\ mode = m[2]
  BY DEF Init
<1>2. /\ api \in {"responses", "messages"} /\ mode \in {"translate", "passthrough"}
      /\ <<api, mode>> \in Modes
  BY <1>1, ModesAssumption
<1>3. mode = "translate" => api = "responses"
  BY <1>2
<1>4. NewClient \in Views /\ NewClient \in Clients /\ NewClient.status = "waiting"
  <2>1. <<>> \in Seq(OutputItem)
    OBVIOUS
  <2>2. NewClient \in Views /\ NewClient.status = "waiting"
    BY <2>1 DEF Views, NewClient, Told
  <2> QED BY <2>2, ViewOfView
<1>5. NewSse \in Sses /\ SseView(NewSse) = NewClient
  <2>1. NewSse \in Sses
    <3>1. <<>> \in Seq(SseItem)
      OBVIOUS
    <3>2. <<>> \in Seq(Events)
      OBVIOUS
    <3> QED BY <3>1, <3>2 DEF NewSse, Sses
  <2>2. SseView(NewSse) \in Views
    BY <2>1, SseViewType
  <2>3. [i \in DOMAIN <<>> |-> [open |-> TRUE, size |-> <<>>[i].size]] = <<>>
    OBVIOUS
  <2>4. SseView(NewSse).items = <<>> /\ SseView(NewSse).status = "waiting" /\ SseView(NewSse).number = 0
    BY <2>3 DEF NewSse, SseView
  <2>5. NewClient.items = <<>> /\ NewClient.number = 0
    BY DEF NewClient
  <2> QED BY <1>4, <2>1, <2>2, <2>4, <2>5, ViewEqual
<1>6. NewGuard \in Guards /\ NewGuard.held = <<>> /\ NewGuard.flushed = FALSE
  BY DEF NewGuard, Guards
<1>7. NewTranslator \in Translators /\ NewTranslator.half = <<>>
  <2>1. <<>> \in [{} -> Nat] /\ {} \in SUBSET Nat
    OBVIOUS
  <2>2. <<>> \in UNION {[S -> Nat] : S \in SUBSET Nat}
    BY <2>1
  <2>3. <<>> \in Halves(Events) /\ <<>> \in Seq(Events)
    BY DEF Halves
  <2> QED BY <2>1, <2>2, <2>3 DEF NewTranslator, Translators
<1>8. Types
  BY <1>2, <1>3, <1>4, <1>5, <1>6, <1>7 DEF Init, Types
<1>9. Ledger
  BY DEF Init, Ledger
<1>10. Telling
  <2> DEFINE v == NewClient
  <2>1. Full = <<>> /\ ReaderHalf = <<>>
    <3>1. <<>> \o <<>> = <<>>
      BY ConcatEmptySeq
    <3>2. Coming = <<>>
      BY DEF Init, Coming
    <3>3. guard.held = <<>> /\ socket = <<>> /\ body = <<>>
      BY <1>6 DEF Init
    <3> QED BY <1>7, <3>1, <3>2, <3>3 DEF Init, Full, Pending, ReaderHalf, NewClient
  <2>2. Ready(v, v)
    <3>1. Joined(ReaderHalf \o Full)
      BY <1>8, <2>1, HalfJoined
    <3>2. Reaches(api, v, Ended(Full), v)
      BY <1>4, <2>1, EndedEmpty, ReachesEmpty
    <3>3. Produced(v) /\ Held(v)
      BY <1>5, <1>6 DEF Init, Produced, Held
    <3> QED BY <3>1, <3>2, <3>3 DEF Ready
  <2>3. Followed(v, v)
    <3>1. View(client) = v
      BY <1>4, ViewOfView DEF Init
    <3>2. Reaches(api, v, inbox, v)
      BY <1>4, ReachesEmpty DEF Init
    <3>3. Coupled(xlate, v, v)
      <4>1. v.items = <<>> /\ v.number = 0 /\ Live(v)
        BY DEF NewClient, Live
      <4>2. DOMAIN <<>> = {} /\ Len(<<>>) = 0
        OBVIOUS
      <4> HIDE DEF v
      <4>3. {i \in DOMAIN v.items : v.items[i].open} = {}
        BY <4>1, <4>2
      <4> QED BY <4>1, <4>2, <4>3 DEF Init, NewTranslator, Coupled
    <3> QED BY <3>1, <3>2, <3>3 DEF Followed
  <2> QED BY <1>4, <2>2, <2>3 DEF Init, Telling
<1>11. Reading
  <2>1. PartsOf(said) = <<>> /\ said = <<>> /\ socket = <<>> /\ sse = NewSse /\ torn = NoLine
    <3>1. said = <<>> /\ socket = <<>> /\ sse = NewSse /\ torn = NoLine
      BY DEF Init
    <3>2. <<>> \in Seq(ChatLines)
      OBVIOUS
    <3>3. PartsOf(<<>>) = <<>>
      BY <3>2, PartsConcat
    <3> QED BY <3>1, <3>3
  <2>2. OneFinish(<<>>)
    BY DEF OneFinish
  <2>3. Recorded(<<>>, NewSse)
    <3>1. Order(<<>>) = <<>>
      <4>1. Len(<<>>) = 0
        OBVIOUS
      <4> QED BY <4>1, AscendingNext DEF Order
    <3> QED BY <3>1 DEF Recorded, ItemsRecorded, FinishRecorded, NewSse
  <2>4. ReadSoFar
    <3>1. <<>> \in Seq(ChatLines) /\ <<>> \o <<>> = <<>>
      BY ConcatEmptySeq
    <3>2. PartsOf(<<>>) = <<>>
      BY <2>1
    <3> QED BY <2>1, <2>3, <3>1, <3>2, EndedEmpty DEF ReadSoFar
  <2> QED BY <2>1, <2>2, <2>4 DEF Reading
<1> QED BY <1>8, <1>9, <1>10, <1>11 DEF Inv

\* Every step keeps it.
LEMMA InvNext ==
  ASSUME Inv, [Next]_vars
  PROVE  Inv'
<1>0. Types /\ Ledger /\ Reading
  BY DEF Inv
<1>R. Next => Reading'
  BY <1>0, ReadingNext
<1>1. CASE UNCHANGED vars
  <2>1. Types' /\ Ledger'
    BY <1>0, <1>1 DEF vars, wire, backend, reader, Types, LineSet, Ledger, Output
  <2>R. Reading'
    BY <1>0, <1>1, ReadingStays DEF vars, wire, backend
  <2>2. CASE Telling
    <3>1. PICK U, D, M \in Views : Followed(U, M) /\ Ready(U, D)
      BY <2>2 DEF Telling
    <3>2. Followed(U, M)'
      BY <1>1, <3>1, FollowedStays DEF vars
    <3>3. ReaderHalf' = ReaderHalf /\ Full' = Full
      BY <1>1 DEF vars, wire, backend, reader, Full, Pending, Coming, ReaderHalf
    <3>4. Ready(U, D)'
      BY <1>1, <3>1, <3>3 DEF vars, wire, backend, reader, Ready, Produced, AllRead, Held, Output
    <3>5. client'.status # "cut"
      BY <1>1, <2>2 DEF vars, reader, Telling
    <3> QED BY <2>1, <2>R, <3>2, <3>4, <3>5 DEF Inv, Telling
  <2>3. CASE Over
    <3>1. Over'
      BY <1>1, <2>3, ChatItemsStay DEF vars, wire, backend, reader, Over, Listening, StoredAsTold,
            Faithful, UpstreamItems, TruncationTold, Unbroken
    <3> QED BY <2>1, <2>R, <3>1 DEF Inv
  <2> QED BY <2>2, <2>3 DEF Inv
<1>2. CASE Next /\ Over
  BY <1>0, <1>2, OverStops
<1>3. CASE Next /\ Telling
  <2>1. PICK U, D, M \in Views : Followed(U, M) /\ Ready(U, D)
    BY <1>3 DEF Telling
  <2>2. client.status # "cut"
    BY <1>3 DEF Telling
  <2>3. ASSUME UNCHANGED <<api, reader>>, NEW V \in Views, NEW E \in Views, V = U, Ready(V, E)',
               Types', Ledger'
        PROVE  Inv'
    <3>1. Followed(V, M)
      BY <2>1, <2>3
    <3>2. Followed(V, M)'
      BY <2>3, <3>1, FollowedStays
    <3>3. client' = client
      BY <2>3 DEF reader
    <3> QED BY <1>3, <1>R, <2>2, <2>3, <3>2, <3>3 DEF Inv, Telling
  <2>4. ASSUME NEW line \in Sayable, NEW part \in {"whole", "head"}, Send(line, part) PROVE Inv'
    <3>1. Types' /\ Ledger' /\ \E E \in Views : Ready(U, E)'
      BY <1>0, <2>1, <2>4, SendKeeps
    <3> QED BY <2>3, <2>4, <3>1 DEF Send
  <2>5. CASE SendRest
    BY <1>0, <2>1, <2>3, <2>5, SendRestKeeps DEF SendRest
  <2>6. CASE Close
    BY <1>0, <2>1, <2>3, <2>6, CloseKeeps DEF Close
  <2>7. CASE Break
    BY <1>0, <2>1, <2>3, <2>7, BreakKeeps DEF Break
  <2>8. CASE Leave
    BY <1>0, <1>3, <1>R, <2>8, LeaveKeeps DEF Inv
  <2>9. CASE TranslateChunk
    BY <1>0, <2>1, <2>3, <2>9, TranslateChunkKeeps DEF TranslateChunk
  <2>10. CASE TranslateEnd
    BY <1>0, <2>1, <2>3, <2>10, TranslateEndKeeps DEF TranslateEnd
  <2>11. CASE Settle
    BY <1>0, <2>1, <2>3, <2>11, SettleKeeps DEF Settle
  <2>12. CASE PassChunk
    BY <1>0, <2>1, <2>3, <2>12, PassChunkKeeps DEF PassChunk
  <2>13. CASE RetryZeroOutput
    BY <1>0, <2>1, <2>3, <2>13, RetryKeeps DEF RetryZeroOutput
  <2>14. CASE PassEnd
    BY <1>0, <2>1, <2>3, <2>14, PassEndKeeps DEF PassEnd
  <2>15. CASE StreamBreak
    BY <1>0, <2>1, <2>3, <2>15, StreamBreakKeeps DEF StreamBreak
  <2>16. CASE Deliver
    <3>1. /\ Types' /\ Ledger' /\ client'.status # "cut"
          /\ \E V, N \in Views : Ready(V, D)' /\ Followed(V, N)'
      BY <1>0, <2>1, <2>2, <2>16, DeliverKeeps
    <3> QED BY <1>3, <1>R, <3>1 DEF Inv, Telling
  <2>17. CASE Read
    <3>1. /\ Types' /\ Ledger' /\ client'.status # "cut"
          /\ Ready(U, D)' /\ Followed(U, M)'
      BY <1>0, <2>1, <2>2, <2>17, ReadKeeps
    <3> QED BY <1>3, <1>R, <3>1 DEF Inv, Telling
  <2>18. CASE Hangup
    BY <1>0, <1>3, <1>R, <2>18, HangupKeeps DEF Inv
  <2> QED BY <1>3, <2>4, <2>5, <2>6, <2>7, <2>8, <2>9, <2>10, <2>11, <2>12, <2>13, <2>14, <2>15,
             <2>16, <2>17, <2>18 DEF Next, Backend, Reader
<1> QED BY <1>1, <1>2, <1>3 DEF Inv

\* Each step of the stream is one of the protocol, or none.
LEMMA ProtocolNext ==
  ASSUME Inv, [Next]_vars
  PROVE  [Protocol!Next]_(Protocol!view)
<1>1. CASE UNCHANGED client
  BY <1>1 DEF Protocol!view
<1>2. CASE Deliver /\ ~ UNCHANGED client
  <2>1. client' = [client EXCEPT !.half = Half(body)] /\ client \in Clients
    BY <1>2 DEF Deliver, Inv, Types
  <2>2. client'.status = client.status /\ client'.items = client.items
    BY <2>1 DEF Clients
  <2> QED BY <2>2 DEF Protocol!view
<1>3. CASE Read /\ ~ UNCHANGED client
  <2> DEFINE e == Head(inbox)
             c == View(client)
  <2>1. Telling
    BY <1>3 DEF Inv, Over, Read
  <2>2. /\ client' = Hear(client, e) /\ Live(client) /\ client \in Clients /\ client.status # "cut"
        /\ inbox \in Seq(Events) /\ inbox # <<>>
    BY <1>3, <2>1 DEF Read, Inv, Types, Telling, Listening, Live
  <2>3. c \in Views /\ c.status = client.status /\ c.items = client.items
    BY <2>2, ViewFields
  <2>4. PICK M : Reaches(api, c, inbox, M)
    BY <2>1 DEF Telling, Followed
  <2>5. e \in Events /\ Legal(api, c, e)
    <3> HIDE DEF c
    <3> QED BY <2>2, <2>3, <2>4, ReachesHead
  <2> HIDE DEF e
  <2>6. client'.status = Status(client, e) /\ client'.items = ItemsAfter(client, e)
    BY <2>2, <2>5, HearHeard
  <2>7. LegalLive(api, c, e)
    BY <2>2, <2>3, <2>5 DEF Legal, Live
  <2> HIDE DEF c
  <2> DEFINE status == client.status
             items == client.items
             kind == e.kind
  <2>8. /\ status \in {"waiting", "open"} /\ kind \in Kinds
        /\ kind = "start" => status = "waiting"
        /\ kind \notin {"start", "quiet", "mark", "error"} => status = "open"
        /\ kind \in {"grow", "close"} => e.item \in DOMAIN items /\ items[e.item].open
        /\ kind = "grow" => e.size = 1
        /\ kind \in {"completed", "incomplete"} => \A i \in DOMAIN items : ~items[i].open
    BY <2>2, <2>3, <2>5, <2>7 DEF LegalLive, Live, Events
  <2>9. CASE kind = "start"
    BY <2>6, <2>8, <2>9 DEF Status, ItemsAfter, Protocol!Next, Protocol!Start
  <2>10. CASE kind \in {"quiet", "mark"}
    BY <2>6, <2>8, <2>10 DEF Status, ItemsAfter, Protocol!view
  <2>11. CASE kind = "open"
    BY <2>6, <2>8, <2>11 DEF Status, ItemsAfter, Protocol!Next, Protocol!OpenItem
  <2>12. CASE kind = "grow"
    <3>1. client'.status = status /\ client'.items = [items EXCEPT ![e.item].size = @ + 1]
      BY <2>6, <2>8, <2>12 DEF Status, ItemsAfter
    <3>2. Protocol!Grow(e.item)
      BY <2>8, <2>12, <3>1 DEF Protocol!Grow
    <3> QED BY <2>8, <2>12, <3>2 DEF Protocol!Next
  <2>13. CASE kind = "close"
    <3>1. client'.status = status /\ client'.items = [items EXCEPT ![e.item].open = FALSE]
      BY <2>6, <2>8, <2>13 DEF Status, ItemsAfter
    <3>2. Protocol!Close(e.item)
      BY <2>8, <2>13, <3>1 DEF Protocol!Close
    <3> QED BY <2>8, <2>13, <3>2 DEF Protocol!Next
  <2>14. CASE kind \in {"completed", "incomplete"}
    BY <2>6, <2>8, <2>14 DEF Status, ItemsAfter, Protocol!Next, Protocol!Finish, Protocol!AllClosed
  <2>15. CASE kind = "aborted"
    BY <2>6, <2>8, <2>15 DEF Status, ItemsAfter, Protocol!Next, Protocol!Finish
  <2>16. CASE kind \in {"failed", "error"}
    BY <2>6, <2>8, <2>16 DEF Status, ItemsAfter, Protocol!Next, Protocol!Fail
  <2> QED BY <2>8, <2>9, <2>10, <2>11, <2>12, <2>13, <2>14, <2>15, <2>16 DEF Kinds
<1>4. CASE (Hangup \/ Leave) /\ ~ UNCHANGED client
  <2>1. client' = [client EXCEPT !.status = "cut"] /\ Listening /\ client \in Clients
    <3>1. CASE Listening
      BY <1>4, <3>1 DEF Hangup, Leave, Inv, Types
    <3>2. CASE ~Listening
      <4>1. client' = [client EXCEPT !.status = client.status] /\ client \in Clients
        BY <1>4, <3>2 DEF Hangup, Leave, Inv, Types
      <4>2. client' = client
        BY <4>1 DEF Clients
      <4> QED BY <1>4, <4>2
    <3> QED BY <3>1, <3>2
  <2>2. client'.status = "cut" /\ client'.items = client.items /\ client.status \in {"waiting", "open"}
    BY <2>1 DEF Clients, Listening
  <2> QED BY <2>2 DEF Protocol!Next, Protocol!CutOff
<1> QED BY <1>1, <1>2, <1>3, <1>4 DEF Next, Backend, Reader, Send, SendRest, Close, Break,
          TranslateChunk, TranslateEnd, Settle, PassChunk, RetryZeroOutput, PassEnd, StreamBreak,
          reader, vars

\* Whatever the upstream says and wherever the network tears it, the client
\* of a Responses stream, and of a passthrough translated to the Messages API,
\* reads an answer that keeps ResponseProtocol.  A chat completion translated
\* twice does not: its response.created is lost (run stream_messages).
THEOREM KeepsTheProtocol ==
  ASSUME <<"messages", "translate">> \notin Modes
  PROVE  Spec => KeepsProtocol
<1>1. Init => Inv
  BY InvInit
<1>2. Inv /\ [Next]_vars => Inv'
  BY InvNext
<1>3. Init => Protocol!Init
  BY DEF Init, NewClient, Protocol!Init
<1>4. Inv /\ [Next]_vars => [Protocol!Next]_(Protocol!view)
  BY ProtocolNext
<1> QED BY <1>1, <1>2, <1>3, <1>4, PTL DEF Spec, KeepsProtocol, Protocol!Spec

\* What put_full keeps is what the client was streamed, for every chat
\* completion and every way it can be cut.
THEOREM StoresWhatWasTold ==
  ASSUME <<"messages", "translate">> \notin Modes
  PROVE  Spec => []StoredAsTold
<1>1. Init => Inv
  BY InvInit
<1>2. Inv /\ [Next]_vars => Inv'
  BY InvNext
<1>3. Inv => StoredAsTold
  BY ToldAsProduced DEF Inv, Over
<1> QED BY <1>1, <1>2, <1>3, PTL DEF Spec

\* An answer that is told to have ended carries every item its upstream sent,
\* whole and in order: through the guard and the second translator whatever
\* the network tears, through ResponsesSse as long as it tears no line.
THEOREM AnswersFaithfully ==
  ASSUME <<"messages", "translate">> \notin Modes
  PROVE  Spec => [](mode = "passthrough" \/ "translate" \notin TornModes => Faithful)
<1>1. Init => Inv
  BY InvInit
<1>2. Inv /\ [Next]_vars => Inv'
  BY InvNext
<1>3. Inv => (mode = "passthrough" \/ "translate" \notin TornModes => Faithful)
  BY ToldAsProduced DEF Inv, Over, Types, Unbroken
<1> QED BY <1>1, <1>2, <1>3, PTL DEF Spec

\* A completion is told to be whole exactly when its upstream said so.
THEOREM TellsTruncation ==
  ASSUME <<"messages", "translate">> \notin Modes, "translate" \notin TornModes
  PROVE  Spec => []TruncationTold
<1>1. Init => Inv
  BY InvInit
<1>2. Inv /\ [Next]_vars => Inv'
  BY InvNext
<1>3. Inv => TruncationTold
  BY ToldAsProduced DEF Inv, Over, Types, Unbroken
<1> QED BY <1>1, <1>2, <1>3, PTL DEF Spec
===============================================================================
