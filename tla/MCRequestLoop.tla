----------------------------- MODULE MCRequestLoop ----------------------------
(* Values of the constants of RequestLoop for TLC. *)
EXTENDS RequestLoop, TLC

CONSTANTS k1, k2, k3, a1, a2, m1, r1, r2

OneAlias == [a \in {a1} |-> {k1, k2}]
OneModel == [a \in {a1} |-> m1]
OneHop == <<a1>>

EqualWeights == [k \in {k1, k2} |-> 1]

OneProvider == {{k1, k2}}

\* A pool of one key.
SoleKey == [a \in {a1} |-> {k1}]

\* A route of two targets of the same provider: they share k2 and the
\* model; k3 has been taken out of rotation.
TwoAliases == [a \in {a1, a2} |-> IF a = a1 THEN {k1, k2} ELSE {k2, k3}]
SameModel == [a \in {a1, a2} |-> m1]
TwoHops == <<a1, a2>>
RetiredKey == [k \in {k1, k2, k3} |-> IF k = k3 THEN 0 ELSE 1]
TwoProviders == {{k1, k2}, {k3}}

ShortLadder == <<1>>

Interchangeable == Permutations({k1, k2}) \union Permutations({r1, r2})
===============================================================================
