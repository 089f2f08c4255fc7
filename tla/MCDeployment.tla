----------------------------- MODULE MCDeployment -----------------------------
(* Symmetry of the instances of Deployment for TLC. *)
EXTENDS Deployment, TLC

\* Other is determined by its argument, so the slots are interchangeable, too.
Interchangeable == Permutations(Sessions) \union Permutations(Slots)
===============================================================================
