------------------------------ MODULE Adapters ------------------------------
(***************************************************************************)
(* The model adapters of app/llm.py: one record for each class, and what   *)
(* the shared shape of their complete() makes of an HTTP reply.            *)
(*                                                                         *)
(* Requests, headers and prompts are left out.  An adapter here is one     *)
(* that is configured: its key, and whatever else it needs, is there.      *)
(* What a reply means to the system is "answer", or a FailureClass, or     *)
(* "unclassified": an exception that is no ProviderError.                  *)
(***************************************************************************)
EXTENDS Naturals

FailureClasses == {"authorization_required", "resource_exhausted", "timeout", "rate_limit",
                   "context_limit", "model_failure", "capability_mismatch",
                   "policy_refusal", "invalid_output", "provider_outage"}

Outcomes == FailureClasses \cup {"answer", "unclassified"}

------------------------------------------------------------------------------
\* The tables of HTTP errors: each says which statuses have a class of their own.

NoStatuses == [class \in FailureClasses |-> {}]

Common == [NoStatuses EXCEPT !["authorization_required"] = {401, 403},
                             !["rate_limit"] = {429},
                             !["model_failure"] = {400},
                             !["capability_mismatch"] = {404}]

WithTimeout == [Common EXCEPT !["timeout"] = {408}]

WithCredits == [WithTimeout EXCEPT !["resource_exhausted"] = {402}]

OpenAIErrors      == Common
OpenRouterErrors  == WithCredits
XAIErrors         == WithCredits
AnthropicErrors   == [WithCredits EXCEPT !["context_limit"] = {413}, !["provider_outage"] = {529}]
MistralErrors     == [WithCredits EXCEPT !["model_failure"] = {400, 422}]
GeminiErrors      == WithCredits
CohereErrors      == [WithCredits EXCEPT !["model_failure"] = {400, 422}]
DeepSeekErrors    == [WithCredits EXCEPT !["model_failure"] = {400, 422}]
TogetherErrors    == [WithCredits EXCEPT !["model_failure"] = {400, 422}]
GroqErrors        == WithCredits
FireworksErrors   == [WithCredits EXCEPT !["model_failure"] = {400, 422}]
AzureErrors       == [WithCredits EXCEPT !["model_failure"] = {400, 422}]
PerplexityErrors  == [WithCredits EXCEPT !["model_failure"] = {400, 422}]
BedrockErrors     == [WithCredits EXCEPT !["model_failure"] = {400, 422, 424}]
CerebrasErrors    == [WithCredits EXCEPT !["model_failure"] = {400, 422}]
HuggingFaceErrors == [WithCredits EXCEPT !["model_failure"] = {400, 422}]
SambaNovaErrors   == [WithCredits EXCEPT !["model_failure"] = {400, 422}]
VertexErrors      == [WithCredits EXCEPT !["model_failure"] = {400, 422}, !["context_limit"] = {413}]
OllamaErrors      == WithTimeout
VllmErrors        == WithTimeout
LlamaCppErrors    == WithTimeout

HttpError(errors, status) ==
  IF \E class \in FailureClasses : status \in errors[class]
  THEN CHOOSE class \in FailureClasses : status \in errors[class]
  ELSE IF status >= 500 THEN "provider_outage" ELSE "model_failure"

------------------------------------------------------------------------------
\* Bodies of successful replies: how the model ended, whether a refusal (for Vertex, a
\* blocked prompt) is marked apart from that, and what its text is.

Bodies == [finish : {"whole", "cut", "declined"}, declined : BOOLEAN,
           content : {"object", "other", "misshapen"}]

Content(body) == IF body.content = "object" THEN "answer" ELSE "invalid_output"

\* Anything but "completed" counts as too long an answer.
ResponsesOutput(body) ==
  CASE body.finish # "whole" -> "context_limit"
    [] body.finish = "whole" /\ body.declined -> "policy_refusal"
    [] OTHER -> Content(body)

ChatOutput(body) ==
  CASE body.finish = "cut" -> "context_limit"
    [] body.finish # "cut" /\ (body.finish = "declined" \/ body.declined) -> "policy_refusal"
    [] OTHER -> Content(body)

\* No refusal apart from the stop reason.
MessagesOutput(body) ==
  CASE body.finish = "cut" -> "context_limit"
    [] body.finish = "declined" -> "policy_refusal"
    [] OTHER -> Content(body)

ConverseOutput(body) == MessagesOutput(body)

\* A blocked prompt is looked at first.
GenerateOutput(body) ==
  CASE body.declined -> "policy_refusal"
    [] ~body.declined /\ body.finish = "cut" -> "context_limit"
    [] ~body.declined /\ body.finish = "declined" -> "policy_refusal"
    [] OTHER -> Content(body)

Output(dialect, body) ==
  CASE dialect = "responses" -> ResponsesOutput(body)
    [] dialect = "chat"      -> ChatOutput(body)
    [] dialect = "messages"  -> MessagesOutput(body)
    [] dialect = "converse"  -> ConverseOutput(body)
    [] dialect = "generate"  -> GenerateOutput(body)

------------------------------------------------------------------------------
\* The adapters.  known: are reasoning and coding listed, as "high", or unknown?
\* A local one asks its daemon for its health, and perhaps for its models, and lists
\* prices of zero; the others are healthy as soon as they are configured, list the one
\* model they are configured with and know no prices.

Cloud(errors, dialect) == [local |-> FALSE, known |-> FALSE, errors |-> errors, dialect |-> dialect]

Daemon(errors) == [local |-> TRUE, known |-> FALSE, errors |-> errors, dialect |-> "chat"]

OpenAI      == [Cloud(OpenAIErrors, "responses") EXCEPT !.known = TRUE]
OpenRouter  == Cloud(OpenRouterErrors, "chat")
XAI         == Cloud(XAIErrors, "chat")
Anthropic   == Cloud(AnthropicErrors, "messages")
Mistral     == Cloud(MistralErrors, "chat")
Gemini      == Cloud(GeminiErrors, "chat")
Cohere      == Cloud(CohereErrors, "chat")
DeepSeek    == Cloud(DeepSeekErrors, "chat")
Together    == Cloud(TogetherErrors, "chat")
Groq        == Cloud(GroqErrors, "chat")
Fireworks   == Cloud(FireworksErrors, "chat")
Azure       == Cloud(AzureErrors, "chat")
Perplexity  == Cloud(PerplexityErrors, "chat")
Bedrock     == Cloud(BedrockErrors, "converse")
HuggingFace == Cloud(HuggingFaceErrors, "chat")
Cerebras    == Cloud(CerebrasErrors, "chat")
SambaNova   == Cloud(SambaNovaErrors, "chat")
Vertex      == Cloud(VertexErrors, "generate")
Ollama      == Daemon(OllamaErrors)
Vllm        == Daemon(VllmErrors)
LlamaCpp    == Daemon(LlamaCppErrors)

\* In the order in which build_model_provider and build_router register them.
Registry == <<OpenAI, OpenRouter, XAI, Anthropic, Mistral, Gemini, Cohere, DeepSeek, Together,
              Groq, Fireworks, Azure, Perplexity, Bedrock, HuggingFace, Cerebras, SambaNova,
              Vertex, Ollama, Vllm, LlamaCpp>>

\* A reply as httpx gives it.
Replies == [via : {"timeout", "unreachable", "http"}, status : Nat, body : Bodies]

Complete(adapter, reply) ==
  CASE reply.via = "timeout"     -> "timeout"
    [] reply.via = "unreachable" -> "provider_outage"
    [] reply.via = "http" /\ reply.status >= 400 -> HttpError(adapter.errors, reply.status)
    [] reply.via = "http" /\ reply.status < 400 ->
         IF reply.body.content = "misshapen" THEN "unclassified"
         ELSE Output(adapter.dialect, reply.body)
=============================================================================
