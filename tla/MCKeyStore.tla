------------------------------- MODULE MCKeyStore -------------------------------
(* Two workers, a key in the environment and another one, a change of secret. *)
EXTENDS KeyStore, TLC

Symmetry == Permutations(Workers) \cup Permutations(Ids)
================================================================================
