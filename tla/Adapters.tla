------------------------------- MODULE Adapters -------------------------------
(***************************************************************************)
(* What the adapters of src/providers make of the messages that LLMProxy   *)
(* hands them: a sequence of records with a role, "system" or another.     *)
(* Parameters, tools and the texts themselves are left alone.              *)
(***************************************************************************)
EXTENDS Naturals, Sequences

\* What is at the places I of s, in its order.
Kept(s, I) ==
    LET f[n \in 0 .. Len(s)] ==
            IF n = 0 THEN << >>
            ELSE IF n \in I THEN Append(f[n - 1], s[n]) ELSE f[n - 1] IN
    f[Len(s)]

SystemOf(msgs) == Kept(msgs, {i \in DOMAIN msgs : msgs[i].role = "system"})
OthersOf(msgs) == Kept(msgs, {i \in DOMAIN msgs : msgs[i].role # "system"})

\* One system prompt beside the other messages: each system message overwrites
\* the one before it.
Beside(system, others) ==
    IF system = << >> THEN others ELSE <<system[Len(system)]>> \o others

AnthropicMessages(msgs) == Beside(SystemOf(msgs), OthersOf(msgs))
BedrockBody(msgs) == Beside(SystemOf(msgs), OthersOf(msgs))
GeminiContents(msgs) == Beside(SystemOf(msgs), OthersOf(msgs))

\* The messages as they are.
OpenAIMessages(msgs) == msgs
AzureMessages(msgs) == msgs
OllamaMessages(msgs) == msgs

\* groq, mistral and openai_compatible are OpenAIProvider with another address.
OpenAITypes == {"openai", "groq", "mistral", "openai_compatible"}
ProviderTypes == OpenAITypes \cup {"azure_openai", "ollama", "anthropic", "bedrock", "gemini"}

\* The adapters that call Beside.
OneSystemTypes == {"anthropic", "bedrock", "gemini"}

\* get_provider, and what the adapter then sends.
Adapted(type, msgs) ==
    CASE type = "anthropic"     -> AnthropicMessages(msgs)
      [] type = "bedrock"       -> BedrockBody(msgs)
      [] type = "gemini"        -> GeminiContents(msgs)
      [] type = "azure_openai"  -> AzureMessages(msgs)
      [] type = "ollama"        -> OllamaMessages(msgs)
      [] type \in OpenAITypes   -> OpenAIMessages(msgs)
================================================================================
