------------------------------ MODULE ModelPath ------------------------------
(***************************************************************************)
(* The governed way to a model (ADR-0024): what each client of the AI      *)
(* gateway makes of its answer.  There are three clients: the BFF's        *)
(* (src/ui/gateway_client.py), the single-shot one of the agent's tools    *)
(* and the model object ADK calls (products/*/agent*/gateway_llm.py, two   *)
(* identical files).  A deployment is whether AI_GATEWAY_URL is set and    *)
(* whether AI_GATEWAY_REQUIRED is.                                         *)
(*                                                                         *)
(* A client serves the gateway's text, raises, or falls: tells its caller  *)
(* to go to Vertex directly.  Left out: the prompts, token counts, ids.    *)
(***************************************************************************)
EXTENDS Naturals

\* An answer of the gateway.  A refusal is for PII, the budget or the
\* workload; model_error stands for every outcome the client does not know.
Answers == {"ok", "refused", "model_error", "unreachable"}

Counters == {"transited", "bypass_unconfigured", "bypass_error", "blocked"}

Client(does, counts) == [does |-> does, counts |-> counts]
Uncounted(does) == Client(does, "nothing")

\* Mutation: a refusal is one more way of not being served.
RefusalFalls(deployment, answer) ==
    IF ~deployment.url
    THEN Client(IF deployment.required THEN "raises" ELSE "falls",
                "bypass_unconfigured")
    ELSE IF answer = "ok" THEN Client("serves", "transited")
    ELSE Client(IF deployment.required THEN "raises" ELSE "falls",
                "bypass_error")

\* complete of the BFF
BffComplete(deployment, answer) ==
    LET fall == IF deployment.required THEN "raises" ELSE "falls" IN
    CASE ~deployment.url -> Client(fall, "bypass_unconfigured")
      [] deployment.url /\ answer = "ok" -> Client("serves", "transited")
      [] deployment.url /\ answer = "refused" ->
            Client("raises", "blocked")
      [] OTHER -> Client(fall, "bypass_error")

\* complete of the agent: without the URL it raises a refusal when the
\* gateway is required; a gateway that fails is fallen back from, required
\* or not.
ToolComplete(deployment, answer) ==
    CASE ~deployment.url -> IF deployment.required THEN Uncounted("raises")
                            ELSE Client("falls", "bypass_error")
      [] deployment.url /\ answer = "ok" -> Client("serves", "transited")
      [] deployment.url /\ answer = "refused" ->
            Client("raises", "blocked")
      [] OTHER -> Client("falls", "bypass_error")

\* gateway_model and GatewayLlm: without the URL there is no such object, the
\* agent is built on the plain model, or not at all.
AdkGenerate(deployment, answer) ==
    CASE ~deployment.url ->
            Uncounted(IF deployment.required THEN "raises" ELSE "falls")
      [] deployment.url /\ answer = "ok" -> Client("serves", "transited")
      [] deployment.url /\ answer = "refused" ->
            Client("raises", "blocked")
      [] OTHER -> Client("falls", "bypass_error")
==============================================================================
