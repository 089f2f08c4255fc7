------------------------------ MODULE MCDeltaLink -----------------------------
(* Values of the constants of DeltaLink for TLC. *)
EXTENDS DeltaLink, TLC

CONSTANTS x, y

\* A conversation that grows, and what is left of it after a compaction.
Compacted == {<<x>>, <<x, y>>, <<y>>}

\* One that grows and goes back to where it was.
Rewound == {<<x>>, <<x, y>>}

Interchangeable ==
  Permutations(Tokens) \union Permutations(Copies) \union Permutations(Clients)
    \union Permutations(Slots)
===============================================================================
