------------------------------ MODULE MCAdmission ------------------------------
(* Instances of Admission for TLC. *)
EXTENDS Admission

CONSTANTS perIp, overall

\* A chat without a client passes the window of its address and the global one.
MCChain == <<perIp, overall>>
MCLimit == [w \in {perIp, overall} |-> IF w = perIp THEN 1 ELSE 2]
================================================================================
