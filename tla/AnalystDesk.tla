----------------------------- MODULE AnalystDesk -----------------------------
(***************************************************************************)
(* The analyst's assistant (src/ui/server.py, analyst_ask and             *)
(* analyst_chat): a question is routed by a model to one of four answers,  *)
(* conversational analytics under somebody's credentials, the knowledge    *)
(* base through the banking agent, the data model, or the platform's own   *)
(* documentation, and the turn is logged for evaluation.                   *)
(*                                                                         *)
(* One action is the code between two calls that leave the process.  Every *)
(* call may fail, the choice being the environment's: what a question is   *)
(* about, what a model answers, whether the gateway refuses.  direct is a  *)
(* history: the calls that went to Vertex directly, each with what had     *)
(* become of the call to the gateway before it.                            *)
(*                                                                         *)
(* Left out: texts, latencies, spans, the note on masked columns, the      *)
(* catalogue search, the agent's tools other than the one that calls a     *)
(* model, and a second search of one turn (the bound that makes a turn's   *)
(* calls few).  The signed-in persona is taken as verified (see SignIn).   *)
(***************************************************************************)
EXTENDS ModelPath, FiniteSets

CONSTANTS Asks, None,
          DataAgent   \* whether DATA_AGENT_ID is set

ASSUME DataAgentAssumption == DataAgent \in BOOLEAN

VARIABLES
    deployment,  \* of the gateway, and whether ANON_ANALYST_SA is set
    ask,
    anon,        \* whether a token of the anonymous tier is cached
    count,       \* the counters of the two processes
    direct,      \* history, see above
    log          \* rows of conversation_log

deskVars == <<deployment, ask, anon, count, direct, log>>

AskPersonas == {"analyst", "employee", "admin"}
Personas == AskPersonas \cup {"customer", None}
Modes == {"analytics", "kb", "semantics", "platform"}
Processes == {"bff", "agent"}
Steps == {"idle", "asked", "route", "route_direct", "credentials", "ca_agent",
          "ca_inline", "kb", "kb_direct", "rerank", "rerank_direct",
          "semantics", "platform", "search", "generate", "generate_direct",
          "log", "done"}
Results == {"answer", "no_answer", "error", "raised", "denied", None}
Tiers == {"user", "anon", "own", None}
Calls == [ask : Asks, site : {"router", "generate", "agent", "reranker"},
          after : Answers \cup {"unset"}]

NoAsk == [step |-> "idle", persona |-> None, signed |-> FALSE,
          logged |-> FALSE, tier |-> None, after |-> "unset", result |-> None,
          failed |-> FALSE, searched |-> FALSE]
\* Per process at most three calls are made for a question: the agent's model
\* is called before its one search and after it.
MaxCalls == 3 * Cardinality(Asks)

DeskTypeOK ==
    /\ deployment \in [url : BOOLEAN, required : BOOLEAN, anon : BOOLEAN]
    /\ ask \in [Asks -> [step : Steps, persona : Personas, signed : BOOLEAN,
                         logged : BOOLEAN, tier : Tiers,
                         after : Answers \cup {"unset"}, result : Results,
                         failed : BOOLEAN, searched : BOOLEAN]]
    /\ anon \in BOOLEAN
    /\ count \in [Processes -> [Counters -> 0 .. MaxCalls]]
    /\ direct \in SUBSET Calls
    /\ log \in [Asks -> Results]

DeskInit ==
    /\ deployment \in [url : BOOLEAN, required : BOOLEAN, anon : BOOLEAN]
    /\ ask = [a \in Asks |-> NoAsk]
    /\ anon = FALSE
    /\ count = [p \in Processes |-> [c \in Counters |-> 0]]
    /\ direct = {}
    /\ log = [a \in Asks |-> None]

At(a, step) == ask[a].step = step
To(a, step) == ask' = [ask EXCEPT ![a].step = step]

\* The answer of a route; failed is a history of whether what should have
\* answered did not.
Answer(a, result, failed) ==
    ask' = [ask EXCEPT ![a].step = IF ask[a].logged /\ result # "raised"
                                   THEN "log" ELSE "done",
                       ![a].result = result, ![a].failed = failed]

\* A governed call of process p, by a client that did client.
Governed(p, client) ==
    IF client.counts = "nothing" THEN UNCHANGED count
    ELSE count' = [count EXCEPT ![p][client.counts] = @ + 1]

\* What had become of the governed call.
Heard(answer) == IF deployment.url THEN answer ELSE "unset"

GoesDirect(a, site) ==
    direct' = direct \cup {[ask |-> a, site |-> site, after |-> ask[a].after]}

\* The request, past the gate of its route or not.  signed: the browser sent
\* an access token of the user.
Arrive(a, persona, signed, logged) ==
    /\ At(a, "idle")
    /\ ask' = [ask EXCEPT ![a] =
                 [NoAsk EXCEPT !.persona = persona, !.signed = signed,
                               !.logged = logged, !.step = "asked"]]
    /\ UNCHANGED <<deployment, anon, count, direct, log>>

Gate(a) ==
    /\ At(a, "asked")
    /\ IF ask[a].persona \in AskPersonas
       THEN To(a, IF ask[a].logged THEN "route" ELSE "credentials")
       ELSE ask' = [ask EXCEPT ![a].step = "done", ![a].result = "denied"]
    /\ UNCHANGED <<deployment, anon, count, direct, log>>

(***************************************************************************)
(* Routing: the gateway, else Vertex, else keywords                        *)
(***************************************************************************)
Begins(mode) == CASE mode = "analytics" -> "credentials"
                  [] mode = "kb" -> "kb"
                  [] mode = "semantics" -> "semantics"
                  [] mode = "platform" -> "platform"

\* The mode that a model's text names, given the modes it mentions.
ParseIntent(mentioned) ==
    CASE "platform" \in mentioned -> "platform"
      [] mentioned \cap {"platform", "semantics"} = {"semantics"} ->
            "semantics"
      [] mentioned = {"kb"} -> "kb"
      [] mentioned \in {{"analytics"}, {"analytics", "kb"}} -> "analytics"
      [] mentioned = {} -> None

\* The mode whose keywords a question hits most: any of the four may be.
Heuristics == Modes

\* classify_async takes an exception, a None and a text that names no mode
\* alike: on to the next classifier.
RouteGoverned(a, answer) ==
    /\ At(a, "route")
    /\ LET client == BffComplete(deployment, answer) IN
       /\ Governed("bff", client)
       /\ \/ ask' = [ask EXCEPT ![a].step = "route_direct",
                                ![a].after = Heard(answer)]
          \/ /\ client.does = "serves"
             /\ \E mentioned \in (SUBSET Modes) \ {{}} :
                   To(a, Begins(ParseIntent(mentioned)))
    /\ UNCHANGED <<deployment, anon, direct, log>>

\* Whatever comes of it, a mode does: the model's, or the keywords'.
RouteDirect(a) ==
    /\ At(a, "route_direct")
    /\ \/ GoesDirect(a, "router")
       \/ UNCHANGED direct       \* no credentials
    /\ \E mode \in Heuristics : To(a, Begins(mode))
    /\ UNCHANGED <<deployment, anon, count, log>>

(***************************************************************************)
(* Conversational analytics                                                *)
(***************************************************************************)
\* The tier a query runs under; minted is whether the impersonation answers.
TierOf(a, minted) ==
    CASE ask[a].signed -> "user"
      [] ~ask[a].signed /\ deployment.anon /\ (anon \/ minted) -> "anon"
      [] OTHER -> "own"

Credentials(a, minted) ==
    /\ At(a, "credentials")
    /\ anon' = (anon \/ TierOf(a, minted) = "anon")
    /\ \/ ask' = [ask EXCEPT ![a].tier = TierOf(a, minted),
                             ![a].step = IF DataAgent THEN "ca_agent"
                                         ELSE "ca_inline"]
       \/ TierOf(a, minted) = "own" /\ Answer(a, "error", TRUE)
    /\ UNCHANGED <<deployment, count, direct, log>>

AnonExpires ==
    /\ anon
    /\ anon' = FALSE
    /\ UNCHANGED <<deployment, ask, count, direct, log>>

\* The stream: an answer, an error that names a denial, another error, or
\* nothing that parses.  Only the first two have words of their own.  An error
\* beside a final response leaves the answer, unless it names a denial.
Streamed(a) ==
    \/ Answer(a, "answer", FALSE)
    \/ Answer(a, IF ask[a].tier = "own" THEN "no_answer" ELSE "error", TRUE)
    \/ Answer(a, "no_answer", TRUE)
    \/ Answer(a, "error", TRUE)

CaAgent(a) ==
    /\ At(a, "ca_agent")
    /\ \/ Streamed(a)
       \/ To(a, "ca_inline")             \* any status from 400 on
       \/ Answer(a, "raised", TRUE)
    /\ UNCHANGED <<deployment, anon, count, direct, log>>

CaInline(a) ==
    /\ At(a, "ca_inline")
    /\ \/ Streamed(a)                    \* an error, from 400 on, is one too
       \/ Answer(a, "raised", TRUE)
    /\ UNCHANGED <<deployment, anon, count, direct, log>>

(***************************************************************************)
(* The knowledge base: a turn of the banking agent                         *)
(***************************************************************************)
\* The model has the search tool called, and is called again with its result.
Searches(a) ==
    /\ ~ask[a].searched
    /\ ask' = [ask EXCEPT ![a].step = "rerank", ![a].searched = TRUE]

\* The agent's model: the turn ends, or calls the search tool first.  A
\* client that raises is a 500, which the BFF reports as an error.
Kb(a, answer) ==
    /\ At(a, "kb")
    /\ LET client == AdkGenerate(deployment, answer) IN
       /\ Governed("agent", client)
       /\ \/ client.does = "serves" /\ \/ Answer(a, "answer", FALSE)
                                       \/ Answer(a, "no_answer", FALSE)
                                       \/ Searches(a)
          \/ /\ client.does = "falls"
             /\ ask' = [ask EXCEPT ![a].step = "kb_direct",
                                   ![a].after = Heard(answer)]
          \/ client.does = "raises" /\ Answer(a, "error", TRUE)
    /\ UNCHANGED <<deployment, anon, direct, log>>

KbUnreachable(a) ==
    /\ At(a, "kb")
    /\ Answer(a, "error", TRUE)
    /\ UNCHANGED <<deployment, anon, count, direct, log>>

KbDirect(a) ==
    /\ At(a, "kb_direct")
    /\ GoesDirect(a, "agent")
    /\ \/ Answer(a, "answer", FALSE)
       \/ Answer(a, "no_answer", FALSE)
       \/ Answer(a, "error", TRUE)
       \/ Searches(a)
    /\ UNCHANGED <<deployment, anon, count, log>>

\* The reranker of search_knowledge_base: refused or failing, the order of
\* the fusion is kept, and the model goes on.
Rerank(a, answer) ==
    /\ At(a, "rerank")
    /\ LET client == ToolComplete(deployment, answer) IN
       /\ Governed("agent", client)
       /\ IF client.does = "falls"
          THEN ask' = [ask EXCEPT ![a].step = "rerank_direct",
                                  ![a].after = Heard(answer)]
          ELSE To(a, "kb")
    /\ UNCHANGED <<deployment, anon, direct, log>>

RerankDirect(a) ==
    /\ At(a, "rerank_direct")
    /\ GoesDirect(a, "reranker")
    /\ To(a, "kb")
    /\ UNCHANGED <<deployment, anon, count, log>>

(***************************************************************************)
(* The data model and the platform's documentation                         *)
(***************************************************************************)
\* _access_token comes first and nothing catches it.
Semantics(a) ==
    /\ At(a, "semantics")
    /\ \/ To(a, "generate")
       \/ Answer(a, "raised", TRUE)
    /\ UNCHANGED <<deployment, anon, count, direct, log>>

\* A question about the budget is answered by the meter, when it answers.
Platform(a) ==
    /\ At(a, "platform")
    /\ \/ deployment.url /\ Answer(a, "answer", FALSE)
       \/ To(a, "search")
       \/ Answer(a, "raised", TRUE)
    /\ UNCHANGED <<deployment, anon, count, direct, log>>

Search(a) ==
    /\ At(a, "search")
    /\ \/ To(a, "generate")
       \/ Answer(a, "answer", FALSE)     \* nothing covers the question
       \/ Answer(a, "error", TRUE)
    /\ UNCHANGED <<deployment, anon, count, direct, log>>

\* A refusal propagates: the request fails, and leaves no row.
Generate(a, answer) ==
    /\ At(a, "generate")
    /\ LET client == BffComplete(deployment, answer) IN
       /\ Governed("bff", client)
       /\ CASE client.does = "serves" -> Answer(a, "answer", FALSE)
            [] client.does = "raises" -> Answer(a, "raised", TRUE)
            [] client.does = "falls" ->
                  ask' = [ask EXCEPT ![a].step = "generate_direct",
                                     ![a].after = Heard(answer)]
    /\ UNCHANGED <<deployment, anon, direct, log>>

GenerateDirect(a) ==
    /\ At(a, "generate_direct")
    /\ GoesDirect(a, "generate")
    /\ \/ Answer(a, "answer", FALSE)
       \/ Answer(a, "error", TRUE)
    /\ UNCHANGED <<deployment, anon, count, log>>

(***************************************************************************)
(* The row                                                                 *)
(***************************************************************************)
\* An answer, "(no answer)", or "[error]".
Logged(a) == ask[a].result

LogEval(a) ==
    /\ At(a, "log")
    /\ log' \in {log, [log EXCEPT ![a] = Logged(a)]}   \* best effort
    /\ To(a, "done")
    /\ UNCHANGED <<deployment, anon, count, direct>>

DeskNext ==
    \/ AnonExpires
    \/ \E a \in Asks :
        \/ \E persona \in Personas, signed, logged \in BOOLEAN :
              Arrive(a, persona, signed, logged)
        \/ Gate(a) \/ RouteDirect(a)
        \/ \E answer \in Answers :
              \/ RouteGoverned(a, answer) \/ Kb(a, answer)
              \/ Rerank(a, answer) \/ Generate(a, answer)
        \/ \E minted \in BOOLEAN : Credentials(a, minted)
        \/ CaAgent(a) \/ CaInline(a)
        \/ KbUnreachable(a) \/ KbDirect(a) \/ RerankDirect(a)
        \/ Semantics(a) \/ Platform(a) \/ Search(a) \/ GenerateDirect(a)
        \/ LogEval(a)

DeskSpec == DeskInit /\ [][DeskNext]_deskVars

(***************************************************************************)
(* Properties                                                              *)
(***************************************************************************)
(* A call reaches Vertex directly only for the lack of an answer, never    *)
(* because of one: not after a refusal, and, where the gateway is          *)
(* required, only from the agent, whose two clients fall back from a       *)
(* gateway they cannot reach all the same.  And "every such call is        *)
(* recorded as a bypass": the share of governed calls that an operator     *)
(* reads lacks none of them.  The exceptions: the router, which takes a    *)
(* refusal for an outage (see RefusalIsFinal) and counts nothing, and an   *)
(* agent built without a gateway, which does not count either, whatever    *)
(* the documentation says.                                                 *)
DetoursAreKnown ==
    /\ \A c \in direct :
          \/ c.site = "router"
          \/ /\ c.after # "refused"
             /\ deployment.required => /\ c.site \in {"agent", "reranker"}
                                       /\ c.after # "unset"
    /\ \A p \in Processes :
          LET sites == IF p = "bff" THEN {"generate"}
                                    ELSE {"agent", "reranker"}
              due == {c \in direct : /\ c.site \in sites
                                     /\ c.site = "agent" => c.after # "unset"}
          IN Cardinality(due)
               <= count[p]["bypass_unconfigured"] + count[p]["bypass_error"]

(* "A policy refusal is allowed to propagate: retrying it directly against *)
(* Vertex would route around the control that just fired."                 *)
RefusalIsFinal == \A c \in direct : c.after # "refused"
==============================================================================
