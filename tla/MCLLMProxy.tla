----------------------------- MODULE MCLLMProxy -----------------------------
(* Instances of LLMProxy for TLC. *)
EXTENDS LLMProxy

CONSTANTS pa, pb, k1

\* One provider whose one key was loaded twice, and one still without a key.
MCKeysOf == [p \in Providers |-> IF p = pa THEN <<k1, k1>> ELSE << >>]

\* Every provider with a single entry.
MCSingleKeys == [p \in Providers |-> <<k1>>]

\* The chain repeats a provider, and contains the one that may be asked for.
MCChain == <<pb, pb>>

MCPoolOrder == <<pa, pb>>
=============================================================================
