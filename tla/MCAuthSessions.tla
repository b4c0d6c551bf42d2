----------------------------- MODULE MCAuthSessions -----------------------------
(* Instances of AuthSessions for TLC. Requests and pairs are interchangeable. *)
EXTENDS AuthSessions, TLC

Symmetry == Permutations(Requests) \cup Permutations(Pairs)
================================================================================
