-------------------------------- MODULE Policies --------------------------------
(***************************************************************************)
(* What the chat handler does to a request between its rate windows        *)
(* (Admission) and its quota, cache and slot (Gateway), and what the       *)
(* admin's edits do meanwhile: the masking of data_filter.py, the aliases  *)
(* that llm_proxy.py resolves, the policies of guardrails.py, truncation,  *)
(* what the adapter sends, and the output policies for the answer.         *)
(* Each read of the database is a step, and so is each policy; requests    *)
(* share nothing here, so there is one.                                    *)
(*                                                                         *)
(* A text is the set of words in it that a filter or a policy looks for;   *)
(* regular expressions and keywords are words, and so is any other wording *)
(* by which an instance tells two texts apart: texts of the same words are *)
(* the same.  max_output_tokens is left out, which only leaves a note.     *)
(***************************************************************************)
EXTENDS Integers, FiniteSets, Functions, Adapters

CONSTANTS Words, Models, Providers,
          Filters,      \* the words that stored patterns mask
          Priority,     \* the policies the table may hold, in the order of their priority
          Clients,
          Inputs,       \* what a request may come with
          Seeded,       \* the built-in patterns, policies and aliases with their rows
          Dump,         \* the patterns and aliases of a configuration file
          Targets,      \* what an admin makes an alias of
          MaxEdits,     \* bound: edits of the three tables
          Reloaders,    \* admins that reload the patterns
          Family,       \* what _infer_provider looks for in a model's name
          DefaultModel, \* _default_model
          Chain,        \* FALLBACK_CHAIN
          MaxMessages,  \* MAX_CONTEXT_TOKENS_DEFAULT, at one message each
          Off,          \* an alias that is not active
          None          \* no hint, client, prompt, row or snapshot

Policies == Range(Priority)

\* The fields a policy's type does not read are left at their defaults.
Policy == [name : STRING,
           type : {"inject", "enforce", "topic", "models", "injection", "jailbreak",
                   "leakage", "output"},
           clients : (SUBSET Clients) \cup {None},
           prompt : (SUBSET Words) \cup {None},
           keep : BOOLEAN,
           words : SUBSET Words,
           min : {1, 3},
           models : SUBSET Models,
           mode : {"regex", "ai", "both"},
           action : {"reject", "redact", "flag", "block"}]

\* whole: the content is a string, not a list of parts.
Authors == {"client", "field"} \cup {p.name : p \in Policies}
Message == [role : {"system", "user"}, by : Authors, words : SUBSET Words, whole : BOOLEAN]
Target == [provider : Providers, model : Models]

Families == {"claude", "anthropic", "gpt", "o1", "o3", "gemini", "llama", "mixtral",
             "mistral", "codestral", "bedrock", "other"}

\* _infer_provider
Infer(model) ==
    CASE Family[model] \in {"claude", "anthropic"}   -> "anthropic"
      [] Family[model] \in {"gpt", "o1", "o3"}       -> "openai"
      [] Family[model] = "gemini"                    -> "gemini"
      [] Family[model] \in {"llama", "mixtral"}      -> "groq"
      [] Family[model] \in {"mistral", "codestral"}  -> "mistral"
      [] Family[model] = "bedrock"                   -> "bedrock"
      [] OTHER -> IF Chain = << >> THEN "anthropic" ELSE Head(Chain)

\* What the built-in expressions find, one word for a family of them.
PROMPT_INJECTION_PATTERNS == {"override", "hijack", "extract"}
JAILBREAK_PATTERNS == {"jailbreak"}
DATA_LEAKAGE_PATTERNS == {"leak"}

\* No policy's name is the mark of a client's messages.
ASSUME PoliciesAssumption ==
    /\ Filters \subseteq Words
    /\ DATA_LEAKAGE_PATTERNS \subseteq Words
    /\ Seeded.filters \subseteq Filters
    /\ Seeded.aliases \in [DOMAIN Seeded.aliases -> Target \cup {None, Off}]
    /\ Dump.patterns \subseteq Filters
    /\ DOMAIN Dump.aliases \subseteq DOMAIN Seeded.aliases
    /\ Range(Dump.aliases) \subseteq Target
    /\ "anthropic" \in Providers /\ Providers \subseteq ProviderTypes
    /\ Policies \subseteq Policy
    /\ Priority \in Seq(Policies)
    /\ \A p \in Policies : p.name # "client"
    /\ None \notin Models
    /\ Inputs \subseteq [client : Clients \cup {None}, provider : Providers \cup {None},
                         model : Models \cup {None}, msgs : Seq(Message),
                         native : BOOLEAN, system : (SUBSET Words) \cup {None}]
    /\ Family \in [Models -> Families]
    /\ \A m \in Models : Infer(m) \in Providers
    /\ DefaultModel \in [Providers -> Models]
    /\ Chain \in Seq(Providers)
    /\ MaxMessages \in Nat
    /\ MaxEdits \in Nat
    /\ Targets \subseteq Target

VARIABLES
    filters,   \* table filter_patterns: how many rows of each are active, or not
    loaded,    \* data_filter._patterns
    reload,    \* what each reload has read and not yet put there
    policies,  \* table content_policies: "on", "off" or "absent"
    aliases,   \* table model_aliases: the active ones, Off, or None without a row
    edits,     \* made so far
    req        \* the request

admin == <<filters, policies, aliases, edits>>
vars == <<admin, loaded, reload, req>>

Idle == [pc |-> "idle", client |-> None, provider |-> None, model |-> None,
         msgs |-> << >>, now |-> << >>, todo |-> << >>, native |-> FALSE, system |-> None,
         masked |-> {}, judges |-> << >>, called |-> None, renamed |-> FALSE,
         answer |-> None, filtered |-> None]

At(pc) == req.pc = pc
Masks == {f \in Filters : filters[f].on > 0}

\* The row of that name, if there is one: two policies of a name are two versions
\* of one row.
Named(name) == {p \in Policies : policies[p] # "absent" /\ p.name = name}

\* The table of policies is any that the startup leaves.
Init ==
    /\ filters = [f \in Filters |-> [on |-> IF f \in Seeded.filters THEN 1 ELSE 0, off |-> 0]]
    /\ loaded = Seeded.filters
    /\ reload = [a \in Reloaders |-> None]
    /\ policies \in [Policies -> {"on", "off", "absent"}]
    /\ \A p \in Policies : policies[p] # (IF p \in Seeded.policies THEN "absent" ELSE "off")
    /\ \A p \in Policies : policies[p] # "absent" => Named(p.name) = {p}
    /\ aliases = Seeded.aliases
    /\ edits = 0
    /\ req = Idle

--------------------------------------------------------------------------------
(* The data: filters, aliases, policies, truncation.                         *)

\* Mutant of Sanitize: parts are passed over.
SanitizeWhole(msgs, mask) ==
    [i \in DOMAIN msgs |-> IF msgs[i].whole THEN [msgs[i] EXCEPT !.words = @ \ mask]
                           ELSE msgs[i]]

\* sanitize_messages, in strings and in parts with a text.
Sanitize(msgs, mask) == [i \in DOMAIN msgs |-> [msgs[i] EXCEPT !.words = @ \ mask]]

\* The row of an active alias, if the name is one; a lookup that fails finds none.
Lookup(model) == {None} \cup ({aliases[n] : n \in DOMAIN aliases \cap {model}} \ {Off})

\* Mutant of Resolve: a request without a model keeps none.
ResolveNoDefault(provider, model, row) ==
    [provider |-> IF row # None THEN row.provider ELSE IF provider # None THEN provider
                  ELSE "anthropic",
     model |-> IF row # None THEN row.model ELSE model]

\* resolve_model: an alias goes before both hints, a hint before what the model's
\* name tells; without a fallback chain no hint counts.
Resolve(provider, model, row) ==
    LET hinted == IF row # None THEN row ELSE [provider |-> provider, model |-> model]
        named == IF hinted.provider = None /\ hinted.model # None
                 THEN Infer(hinted.model) ELSE hinted.provider
        p == IF Chain = << >> THEN "anthropic"
             ELSE IF named = None THEN Head(Chain) ELSE named IN
    [provider |-> p, model |-> IF hinted.model = None THEN DefaultModel[p] ELSE hinted.model]

Applies(p, client) ==
    /\ policies[p] = "on"
    /\ p.clients = None \/ client = None \/ client \in p.clients

\* _load_policies: the active ones that apply; a caller who is no client gets all.
Applying(client) == Kept(Priority, {i \in DOMAIN Priority : Applies(Priority[i], client)})

Prompt(p) == [role |-> "system", by |-> p.name, words |-> p.prompt, whole |-> TRUE]

\* Only strings are looked at, the prompts put in before included.
Text(msgs) == UNION {msgs[i].words : i \in {j \in DOMAIN msgs : msgs[j].whole}}

Spotted(p, msgs) == Text(msgs) \cap p.words

PromptInjection(p, text) == Cardinality(text \cap PROMPT_INJECTION_PATTERNS) >= p.min
Jailbreak(text) == text \cap JAILBREAK_PATTERNS # {}

Threats == {"injection", "jailbreak"}
Detects(p, msgs) ==
    /\ p.mode # "ai"
    /\ \/ p.type = "injection" /\ PromptInjection(p, Text(msgs))
       \/ p.type = "jailbreak" /\ Jailbreak(Text(msgs))

Rejects(p, msgs, model) ==
    \/ p.type = "topic" /\ p.action = "reject" /\ Spotted(p, msgs) # {}
    \/ p.type = "models" /\ p.models # {} /\ model \notin p.models
    \/ p.type \in Threats /\ p.action = "reject" /\ Detects(p, msgs)

\* The message is the policy's prompt, whoever wrote it.
Says(m, p) == m.role = "system" /\ m.whole /\ m.words = p.prompt

\* What a policy makes of the messages it lets pass.
Apply(p, msgs) ==
    LET kept == IF p.keep THEN msgs ELSE OthersOf(msgs) IN
    CASE p.type = "inject" /\ p.prompt # None ->
             <<Prompt(p)>> \o Kept(msgs, {i \in DOMAIN msgs : ~Says(msgs[i], p)})
      [] p.type = "enforce" -> IF p.prompt = None THEN kept ELSE <<Prompt(p)>> \o kept
      [] p.type = "topic" /\ p.action = "redact" ->
             [i \in DOMAIN msgs |-> IF msgs[i].whole
                                    THEN [msgs[i] EXCEPT !.words = @ \ p.words] ELSE msgs[i]]
      [] OTHER -> msgs

\* _check_data_leakage.
Leaks(text) == text \cap DATA_LEAKAGE_PATTERNS

\* The words an output policy takes out of the text it gets.
Redacts(p, text) == CASE p.type = "leakage" -> Leaks(text)
                      [] p.type = "output"  -> p.words
                      [] OTHER              -> {}

\* evaluate_response: one policy after another, until one blocks the text.
FilterResponse(list, text) ==
    LET left(i) == text \ UNION {Redacts(list[j], text) : j \in 1 .. i}
        blocks(i) == /\ list[i].type = "leakage" /\ list[i].action = "block"
                     /\ Leaks(left(i - 1)) # {} IN
    IF \E i \in DOMAIN list : blocks(i) THEN {} ELSE left(Len(list))

\* Mutant of Truncate: the newest messages, whatever their role.
TruncateOldest(msgs) ==
    IF Len(msgs) <= MaxMessages THEN msgs
    ELSE SubSeq(msgs, Len(msgs) - MaxMessages + 1, Len(msgs))

\* truncate_messages: the system messages, then the newest of the others.
Truncate(msgs) ==
    LET system == SystemOf(msgs)
        others == OthersOf(msgs)
        budget == MaxMessages - Len(system) IN
    IF Len(msgs) <= MaxMessages THEN msgs
    ELSE IF budget <= 0 THEN system
    ELSE system \o SubSeq(others, Len(others) - budget + 1, Len(others))

--------------------------------------------------------------------------------
(* _handle_chat                                                              *)

Receive(in) ==
    /\ At("idle")
    /\ req' = [Idle EXCEPT !.pc = "resolve", !.client = in.client, !.provider = in.provider,
                           !.model = in.model, !.msgs = Sanitize(in.msgs, loaded),
                           !.native = in.native, !.system = in.system, !.masked = loaded]
    /\ UNCHANGED <<admin, loaded, reload>>

ResolveModel ==
    /\ At("resolve")
    /\ \E row \in Lookup(req.model) :
          LET to == Resolve(req.provider, req.model, row) IN
          req' = [req EXCEPT !.pc = "load", !.provider = to.provider, !.model = to.model]
    /\ UNCHANGED <<admin, loaded, reload>>

LoadPolicies ==
    LET all == Applying(req.client) IN
    /\ At("load")
    /\ req' = [req EXCEPT !.pc = "judge", !.now = req.msgs, !.todo = all, !.judges = all]
    /\ UNCHANGED <<admin, loaded, reload>>

NeedsGuard(p) == p.type \in Threats /\ p.mode # "regex" /\ ~Detects(p, req.now)

\* One policy after another; the first that rejects ends the request.
Judge ==
    LET p == Head(req.todo) IN
    /\ At("judge")
    /\ req.todo # << >>
    /\ IF NeedsGuard(p) THEN req' = [req EXCEPT !.pc = "guard"]
       ELSE IF Rejects(p, req.now, req.model) THEN req' = Idle
       ELSE req' = [req EXCEPT !.now = Apply(p, req.now), !.todo = Tail(@)]
    /\ UNCHANGED <<admin, loaded, reload>>

\* Mutant of GuardAnswers: the policies are read again after the call.
GuardAnswersReload(verdict) ==
    /\ At("guard")
    /\ req' = IF verdict = Head(req.todo).type /\ Head(req.todo).action = "reject" THEN Idle
              ELSE [req EXCEPT !.pc = "judge",
                               !.todo = Kept(Tail(@), {i \in DOMAIN Tail(@) :
                                                          policies[Tail(@)[i]] = "on"})]
    /\ UNCHANGED <<admin, loaded, reload>>

\* _ai_classify_threat; no guard, a failure or another threat are no threat.
GuardAnswers(verdict) ==
    /\ At("guard")
    /\ req' = IF verdict = Head(req.todo).type /\ Head(req.todo).action = "reject" THEN Idle
              ELSE [req EXCEPT !.pc = "judge", !.todo = Tail(@)]
    /\ UNCHANGED <<admin, loaded, reload>>

\* Messages that the policies have emptied count as not modified.
Pass ==
    /\ At("judge")
    /\ req.todo = << >>
    /\ req' = [req EXCEPT !.pc = "wait",
                          !.msgs = Truncate(IF req.now = << >> THEN req.msgs ELSE req.now)]
    /\ UNCHANGED <<admin, loaded, reload>>

\* The system prompt that the native format has beside the messages.
Field == [role |-> "system", by |-> "field", words |-> req.system, whole |-> TRUE]

\* After the quota, the cache and the slot: LLMProxy.chat, of the native format
\* without streaming, puts the field first and resolves what has been resolved.
\* The provider is the one resolved or one of the chain behind it, with the same
\* model, and its adapter sends the messages.
Send(fallback) ==
    /\ At("wait")
    /\ \E row \in Lookup(req.model) :
          LET to == IF req.native THEN Resolve(req.provider, req.model, row)
                    ELSE [provider |-> req.provider, model |-> req.model]
              p == IF fallback = None THEN to.provider ELSE fallback
              msgs == IF req.native /\ req.system # None THEN <<Field>> \o req.msgs
                      ELSE req.msgs IN
          req' = [req EXCEPT !.pc = "sent", !.provider = p, !.called = to.model,
                             !.renamed = req.native /\ row # None,
                             !.msgs = Adapted(p, msgs)]
    /\ UNCHANGED <<admin, loaded, reload>>

\* The answer comes in; a streamed one is on its way to the client already.
Answer(text) ==
    /\ At("sent")
    /\ req' = [Idle EXCEPT !.pc = "answered", !.client = req.client, !.answer = text]
    /\ UNCHANGED <<admin, loaded, reload>>

\* The policies are read a second time; what the filter returns is dropped, and
\* the client gets the answer.
FilterAnswer ==
    /\ At("answered")
    /\ req' = [req EXCEPT !.pc = "done",
                          !.filtered = FilterResponse(Applying(req.client), req.answer)]
    /\ UNCHANGED <<admin, loaded, reload>>

Finish ==
    /\ At("done")
    /\ req' = Idle
    /\ UNCHANGED <<admin, loaded, reload>>

--------------------------------------------------------------------------------
(* The admin's edits, and the reload of the patterns, which alone has effect *)
(* on a running server.                                                      *)

\* create_pattern, which may make a second row; toggle_pattern; delete_pattern.
\* update_pattern can turn a row, a built-in one too, into that of another word,
\* which is a row less here.
EditFilter(f, on, off) ==
    /\ filters[f].on + on >= 0 /\ filters[f].off + off >= 0
    /\ filters' = [filters EXCEPT ![f] = [on |-> @.on + on, off |-> @.off + off]]
    /\ UNCHANGED <<policies, aliases, loaded, reload, req>>

\* create_policy makes an active one; update_policy turns it on or off;
\* delete_policy.
EditPolicy(p, state) ==
    /\ policies[p] # state
    /\ policies[p] = "absent" => state = "on" /\ Named(p.name) = {}
    /\ policies' = [policies EXCEPT ![p] = state]
    /\ UNCHANGED <<filters, aliases, loaded, reload, req>>

\* update_policy, of anything but the type; clients can be named, and not be
\* unnamed.
UpdatePolicy(p, q, state) ==
    /\ policies[p] # "absent" /\ q # p /\ Named(q.name) \subseteq {p}
    /\ q.type = p.type
    /\ q.clients = None => p.clients = None
    /\ policies' = [policies EXCEPT ![p] = "absent", ![q] = state]
    /\ UNCHANGED <<filters, aliases, loaded, reload, req>>

\* create_alias, update_alias and delete_alias.
EditAlias(name, to) ==
    /\ aliases[name] = None => to # Off
    /\ aliases' = [aliases EXCEPT ![name] = to]
    /\ aliases' # aliases
    /\ UNCHANGED <<filters, policies, loaded, reload, req>>

\* import_config: what has no row gets one, or with overwrite_existing a second
\* one, which the unique names of aliases refuse and the transaction with it.
\* Policies are exported, and not imported.
ImportConfig(overwrite) ==
    LET new == {f \in Dump.patterns : filters[f].on + filters[f].off = 0} IN
    /\ overwrite => \A n \in DOMAIN Dump.aliases : aliases[n] = None
    /\ filters' = [f \in Filters |-> IF f \in (IF overwrite THEN Dump.patterns ELSE new)
                                     THEN [filters[f] EXCEPT !.on = @ + 1] ELSE filters[f]]
    /\ aliases' = [n \in DOMAIN aliases |->
                      IF n \in DOMAIN Dump.aliases /\ aliases[n] = None THEN Dump.aliases[n]
                      ELSE aliases[n]]
    /\ UNCHANGED <<policies, loaded, reload, req>>

ReadFilters(a) ==
    /\ reload[a] = None
    /\ reload' = [reload EXCEPT ![a] = Masks]
    /\ UNCHANGED <<admin, loaded, req>>

ReloadFilters(a) ==
    /\ reload[a] # None
    /\ loaded' = reload[a]
    /\ reload' = [reload EXCEPT ![a] = None]
    /\ UNCHANGED <<admin, req>>

\* The startup adds what is missing of the built-in rows, and loads the patterns.
SeedPatterns ==
    filters' = [f \in Filters |->
                  IF f \in Seeded.filters /\ filters[f].on + filters[f].off = 0
                  THEN [on |-> 1, off |-> 0] ELSE filters[f]]

SeedPolicies ==
    policies' = [p \in Policies |-> IF p \in Seeded.policies /\ Named(p.name) = {}
                                    THEN "on" ELSE policies[p]]

SeedAliases ==
    aliases' = [n \in DOMAIN aliases |-> IF aliases[n] = None THEN Seeded.aliases[n]
                                         ELSE aliases[n]]

Restart ==
    /\ SeedPatterns /\ SeedAliases /\ SeedPolicies
    /\ loaded' = {f \in Filters : filters'[f].on > 0}
    /\ reload' = [a \in Reloaders |-> None]
    /\ req' = Idle
    /\ UNCHANGED edits

Handle ==
    \/ (\E in \in Inputs : Receive(in)) \/ ResolveModel \/ LoadPolicies \/ Judge
    \/ (\E verdict \in Threats \cup {"safe"} : GuardAnswers(verdict)) \/ Pass
    \/ (\E fallback \in Range(Chain) \cup {None} : Send(fallback))
    \/ (\E text \in {DATA_LEAKAGE_PATTERNS, {}} : Answer(text)) \/ FilterAnswer \/ Finish

Edit ==
    /\ edits < MaxEdits
    /\ edits' = edits + 1
    /\ \/ \E f \in Filters, rows \in {<<1, 0>>, <<1, -1>>, <<-1, 1>>, <<-1, 0>>, <<0, -1>>} :
              EditFilter(f, rows[1], rows[2])
       \/ \E p \in Policies, state \in {"on", "off", "absent"} : EditPolicy(p, state)
       \/ \E p, q \in Policies, state \in {"on", "off"} : UpdatePolicy(p, q, state)
       \/ \E n \in DOMAIN aliases, to \in Targets \cup {None, Off} : EditAlias(n, to)
       \/ \E overwrite \in BOOLEAN : ImportConfig(overwrite)

Next == Handle \/ Edit \/ (\E a \in Reloaders : ReadFilters(a) \/ ReloadFilters(a)) \/ Restart

Spec == Init /\ [][Next]_vars

--------------------------------------------------------------------------------
Steps == {"idle", "resolve", "load", "judge", "guard", "wait", "sent", "answered", "done"}

\* Every variable has its type; what the database reads left behind fits what
\* is done with it: a resolved request has a provider and a model.
TypeOK ==
    /\ filters \in [Filters -> [on : Nat, off : Nat]]
    /\ loaded \in SUBSET Filters
    /\ reload \in [Reloaders -> (SUBSET Filters) \cup {None}]
    /\ policies \in [Policies -> {"on", "off", "absent"}]
    /\ aliases \in [DOMAIN Seeded.aliases -> Target \cup {None, Off}]
    /\ edits \in 0 .. MaxEdits
    /\ req.pc \in Steps
    /\ {req.msgs, req.now} \subseteq Seq(Message)
    /\ {req.todo, req.judges} \subseteq Seq(Policies)
    /\ {req.answer, req.filtered} \subseteq (SUBSET Words) \cup {None}
    /\ req.pc \in Steps \ {"idle", "resolve", "answered", "done"} => req.provider \in Providers /\ req.model \in Models

\* "automatically mask sensitive data in messages before they reach the LLM"
\* (admin-guide.md:516): neither the guard nor the provider (guardrails.py:229,
\* main.py:399) gets a client's word that the patterns of its arrival mask,
\* in strings or in parts, whichever of the policies' results is sent.  It is said
\* of the messages: nothing looks at the native format's system prompt.
FilteredBeforeUse ==
    At("guard") \/ At("wait") \/ At("sent") =>
        \A msgs \in {req.msgs, req.now} : \A i \in DOMAIN msgs :
            msgs[i].by = "client" => msgs[i].words \cap req.masked = {}

ByClient(msgs) == Kept(msgs, {i \in DOMAIN msgs : msgs[i].by = "client"})
Emptied == req.now = << >>   \* then the messages go on as they came

\* What is sent satisfies every policy of the one version of the table that was
\* read for it (guardrails.py:241), whatever is edited while the guard is asked
\* and whatever later policies make of the messages.  Three things get past:
\* parts, messages that an enforce policy has emptied (main.py:402), and a
\* model that is itself an alias when the proxy resolves it again
\* (llm_proxy.py:416).  The native format's system prompt is no message.
OneVersionJudges ==
    At("sent") => \A i \in DOMAIN req.judges :
        LET p == req.judges[i] IN
        /\ p.type \in {"topic"} \cup Threats => Emptied \/ ~Rejects(p, ByClient(req.msgs), req.model)
        /\ p.type = "topic" /\ p.action = "redact" =>
              Emptied \/ Spotted(p, ByClient(req.msgs)) = {}
        /\ p.type = "models" => req.renamed \/ ~Rejects(p, << >>, req.called)

Replaces(p) == p.type = "enforce" /\ ~p.keep

\* p, judging later, takes q's prompt for its own, perhaps after a redaction.
Repeats(p, q) == p.type = "inject" /\ p.prompt # None /\ p.prompt \subseteq q.prompt

Stands(i) == \A j \in i + 1 .. Len(req.judges) :
                ~Replaces(req.judges[j]) /\ ~Repeats(req.judges[j], req.judges[i])
Reached(p) == \E k \in DOMAIN req.msgs : req.msgs[k].by = p.name

\* The prompts of the policies reach the provider, through truncation, the field
\* of the native format and the adapter, unless a later policy replaces them or
\* puts one of the same words in their place (guardrails.py:304).  An adapter
\* with one system prompt sends the last: that is never a policy's own that only
\* goes in front, and always the one of the policy that replaces all others.  The
\* client's system messages are gone if there is such a policy
\* (guardrails.py:300, 308; llm_proxy.py:80, 413; anthropic_provider.py:31).
PromptsReachProvider ==
    At("sent") /\ ~Emptied => \A i \in DOMAIN req.judges :
        LET p == req.judges[i] IN
        /\ p.type \in {"inject", "enforce"} /\ p.prompt # None /\ Stands(i) =>
              Reached(p) \/ (~Replaces(p) /\ req.provider \in OneSystemTypes)
        /\ Replaces(p) => \A k \in DOMAIN req.msgs :
              req.msgs[k].by = "client" => req.msgs[k].role # "system"

\* "Prepends a system message to every request ... The client's own system prompt
\* is preserved (appears after the injected one)" (admin-guide.md:432, 438): the
\* injected prompt reaches the provider (guardrails.py:303).
InjectedPromptReachesModel ==
    At("sent") /\ ~Emptied => \A i \in DOMAIN req.judges :
        req.judges[i].type = "inject" /\ req.judges[i].prompt # None /\ Stands(i)
            => Reached(req.judges[i])
================================================================================
