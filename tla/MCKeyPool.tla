------------------------------ MODULE MCKeyPool ------------------------------
(* Instances of KeyPool for TLC. *)
EXTENDS KeyPool

CONSTANTS k1, k2, k3

\* One stored key, loaded twice; others may be added, or a removed one again.
MCFirstLoad == <<k1>>
MCSecondLoad == <<k2>>

\* Requests differ in nothing, and no temporal property is checked here.
MCSymmetry == Permutations(Requests)
=============================================================================
