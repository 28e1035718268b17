---------------------------- MODULE MCModelCalls ----------------------------
EXTENDS ModelCalls

Http(status, finish, declined, content) ==
  [via |-> "http", status |-> status,
   body |-> [finish |-> finish, declined |-> declined, content |-> content]]

CONSTANT Cloudy

MCProvider == IF Cloudy THEN <<OpenRouter, Anthropic>> ELSE <<OpenAI, Anthropic, Ollama>>

MCReplies == {Http(200, "whole", FALSE, c) : c \in {"object", "misshapen"}}
             \cup {Http(s, "whole", FALSE, "other") : s \in {401, 429, 529}}
             \cup {Http(200, "declined", FALSE, "object")}
=============================================================================
