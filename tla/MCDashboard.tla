------------------------------ MODULE MCDashboard ------------------------------
(* Instances of Dashboard for TLC. *)
EXTENDS Dashboard, TLC

Symmetry == Permutations(Chats) \cup Permutations(Sockets)
================================================================================
