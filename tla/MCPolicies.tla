------------------------------- MODULE MCPolicies -------------------------------
(* Eight policies, one of each type and two that enforce, and what an admin may  *)
(* make of one, with the words that a later one injects; requests with a system  *)
(* message, parts and hints of every sort, some native, and an alias whose name  *)
(* is a model.                                                                   *)
EXTENDS Policies, TLC

CONSTANTS big, small, smart, c1, c2

Blank == [name |-> "blank", type |-> "topic", clients |-> None, prompt |-> None,
          keep |-> FALSE, words |-> {}, min |-> 1, models |-> {}, mode |-> "regex",
          action |-> "reject"]

Detect == [Blank EXCEPT !.name = "detect", !.type = "injection", !.mode = "both"]
Inject == [Blank EXCEPT !.name = "inject", !.type = "inject", !.prompt = {"topic"}]
Enforce == [Blank EXCEPT !.name = "enforce", !.type = "enforce", !.prompt = {"topic"},
                         !.clients = {c1}]
Relaxed == [Enforce EXCEPT !.keep = TRUE]
Strip == [Blank EXCEPT !.name = "strip", !.type = "enforce"]
Cheap == [Blank EXCEPT !.name = "cheap", !.type = "models", !.models = {small}]
Redact == [Blank EXCEPT !.name = "redact", !.words = {"topic"}, !.action = "redact"]
Jail == [Blank EXCEPT !.name = "jail", !.type = "jailbreak"]
Leakage == [Blank EXCEPT !.name = "leakage", !.type = "leakage", !.action = "redact"]

MCPriority == <<Detect, Relaxed, Inject, Enforce, Strip, Cheap, Redact, Jail, Leakage>>

Writes(role, words, whole) == [role |-> role, by |-> "client", words |-> words, whole |-> whole]
System == Writes("system", {"topic"}, TRUE)
Other == Writes("system", {"leak"}, TRUE)
Plain == Writes("user", {"secret", "topic"}, TRUE)
Parts == Writes("user", {"secret", "override"}, FALSE)
Bad == Writes("user", {"override", "jailbreak"}, TRUE)

Asks(c, provider, model, msgs, system) ==
    [client |-> c, provider |-> provider, model |-> model, msgs |-> msgs,
     native |-> system # None, system |-> system]

MCInputs ==
    UNION {{Asks(c, None, None, m, None), Asks(c, "openai", big, m, None),
            Asks(c1, None, smart, m, None), Asks(c1, None, small, m, {"secret"})} :
           c \in {c1, None}, m \in {<<System>>, <<Other, Plain>>, <<System, Bad, Parts>>}}

MCSeeded == [filters |-> Filters, policies |-> {Detect, Jail, Leakage},
             aliases |-> (smart :> [provider |-> "anthropic", model |-> small]
                          @@ small :> None)]

MCTargets == {[provider |-> "openai", model |-> big]}
MCDump == [patterns |-> Filters, aliases |-> (small :> [provider |-> "openai", model |-> big])]

MCFamily == [m \in Models |-> IF m = big THEN "gpt" ELSE IF m = small THEN "claude" ELSE "other"]
MCDefaultModel == [p \in Providers |-> IF p = "openai" THEN big ELSE small]
MCChain == <<"anthropic">>
================================================================================
