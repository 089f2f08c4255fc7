------------------------------- MODULE Selection ------------------------------
(***************************************************************************)
(* How a route orders its candidates and how a key is taken from a pool:   *)
(* weights, quotas and usage, as pure operators.                           *)
(*                                                                         *)
(* Anything with a field weight can be drawn; a draw is a number below the *)
(* total of the weights, taken from the hash of the session or at random.  *)
(* A choice is the set of what the code may choose.                        *)
(***************************************************************************)
EXTENDS Integers, FiniteSets, SequencesExt

NoQuota == -1

Weight(item) == IF item.weight > 0 THEN item.weight ELSE 0

\* The total weight of the first i items.
UpTo(items, i) == SumFunctionOnSet([j \in DOMAIN items |-> Weight(items[j])], 1 .. i)
Total(items) == UpTo(items, Len(items))

\* The item a draw falls on: each takes as many draws as its weight.
Drawn(items, draw) ==
  CHOOSE i \in DOMAIN items : UpTo(items, i - 1) <= draw /\ draw < UpTo(items, i)

\* The draws of a request: one, fixed by its session, or any.  A session is the
\* number its hash makes of it, or it is negative when there is none.
Draws(items, session) ==
  IF session >= 0 THEN {session % Total(items)} ELSE 0 .. (Total(items) - 1)

\* Nothing when there is no positive weight.
WeightedPick(items, session) ==
  IF Total(items) = 0 THEN {} ELSE {items[Drawn(items, d)] : d \in Draws(items, session)}

-------------------------------------------------------------------------------
(* Candidates of a route *)

\* The order of the candidates behind the first: by falling weight, as listed among equals.
Heavier(candidates, i, j) ==
  \/ Weight(candidates[i]) > Weight(candidates[j])
  \/ Weight(candidates[i]) = Weight(candidates[j]) /\ i < j

\* The places of the pool in the order of a route: first goes first.
Arrangement(candidates, first) ==
  LET before(j, i) == i # first /\ (j = first \/ Heavier(candidates, j, i))
      place(i) == 1 + Cardinality({j \in DOMAIN candidates : before(j, i)})
  IN [p \in DOMAIN candidates |-> CHOOSE i \in DOMAIN candidates : place(i) = p]

\* Mutant of FirstThenByWeight: the head of the pool is taken out for the first one.
FirstThenByWeightHead(candidates, first) ==
  LET order == Arrangement(candidates, 1)
  IN [p \in DOMAIN candidates |-> candidates[IF p = 1 THEN first ELSE order[p]]]

\* One candidate goes first, the others follow by falling weight.
FirstThenByWeight(candidates, first) ==
  LET order == Arrangement(candidates, first)
  IN [p \in DOMAIN candidates |-> candidates[order[p]]]

\* The strategy is that of the first candidate, whatever pool it came from.
OrderTargets(candidates, session, preferred) ==
  IF candidates = <<>> \/ candidates[1].strategy = "priority" \/ Total(candidates) = 0
  THEN {candidates}
  ELSE LET firsts == IF preferred # {} THEN preferred
                     ELSE {Drawn(candidates, d) : d \in Draws(candidates, session)}
       IN {FirstThenByWeight(candidates, i) : i \in firsts}

Exhausted(key, totals) == key.quota # NoQuota /\ totals[key.name] >= key.quota

\* A candidate is exhausted when all its weighted keys are; when all candidates
\* are, none is dropped.
DropExhausted(candidates, totals) ==
  LET weighted(c) == {k \in ToSet(c.keys) : k.weight > 0}
      spent(c) == weighted(c) # {} /\ \A k \in weighted(c) : Exhausted(k, totals)
      kept == FlattenSeq([i \in DOMAIN candidates |-> IF spent(candidates[i]) THEN <<>>
                                                     ELSE <<candidates[i]>>])
  IN IF kept = <<>> THEN candidates ELSE kept

-------------------------------------------------------------------------------
(* Keys of a pool *)

\* The heaviest key with quota left, by name among equals.  Names are numbers here.
PriorityPick(keys, totals) ==
  LET open == {k \in ToSet(keys) : ~Exhausted(k, totals)}
      ahead(k, o) == k.weight > o.weight \/ (k.weight = o.weight /\ k.name <= o.name)
  IN {k \in open : \A o \in open : ahead(k, o)}

\* a's tokens per weight are at most b's.
NoMoreUsed(a, b, totals) == totals[a.name] * b.weight <= totals[b.name] * a.weight

UsageAdjustedPick(keys, totals, session) ==
  LET positive == SelectSeq(keys, LAMBDA k : k.weight > 0)
      lowest == SelectSeq(positive, LAMBDA k : \A o \in ToSet(positive) : NoMoreUsed(k, o, totals))
  IN WeightedPick(lowest, session)

\* The first of the candidates whose least used key is used least.
UsagePreferred(candidates, totals) ==
  LET weighted(i) == {k \in ToSet(candidates[i].keys) : k.weight > 0}
      able == {i \in DOMAIN candidates : weighted(i) # {}}
      lowest(i) == CHOOSE k \in weighted(i) : \A o \in weighted(i) : NoMoreUsed(k, o, totals)
      least == {i \in able : \A j \in able : NoMoreUsed(lowest(i), lowest(j), totals)}
  IN {i \in least : \A j \in least : i <= j}
===============================================================================
