-------------------------- MODULE Services_proofs ---------------------------
(***************************************************************************)
(* Theorems about the services that share no state: the analyst's          *)
(* assistant and its scores, signing in and out, the keys of the MCP       *)
(* server, the customer's view and the transactions pipeline.              *)
(***************************************************************************)
EXTENDS LiveEval, SignIn, McpServer, CustomerView, Ingest,
        FiniteSetTheorems, TLAPS

(***************************************************************************)
(* The analyst's assistant and its scores.  Every step of an ask is one    *)
(* move (Advances): it counts before it goes direct, so the calls that     *)
(* went direct and those about to go are never more than the bypasses      *)
(* their process has counted.                                              *)
(***************************************************************************)
AskType == [step : Steps, persona : Personas, signed : BOOLEAN,
            logged : BOOLEAN, tier : Tiers, after : Answers \cup {"unset"},
            result : Results, failed : BOOLEAN, searched : BOOLEAN]

\* The call that an ask is about to make directly, and where it is then.
Detour == [generate |-> "generate_direct", agent |-> "kb_direct",
           reranker |-> "rerank_direct"]
Detours == {"generate_direct", "kb_direct", "rerank_direct"}

\* The sites of a process, and the calls that it should have counted.
Sites(p) == IF p = "bff" THEN {"generate"} ELSE {"agent", "reranker"}
Due(p, c) == /\ c.site \in Sites(p)
             /\ c.site = "agent" => c.after # "unset"
Bypasses(p) == count[p]["bypass_unconfigured"] + count[p]["bypass_error"]

\* The direct calls made, and those that will be: their client has counted.
Pending(c) == /\ ask[c.ask].step = Detour[c.site]
              /\ ask[c.ask].after = c.after
Known(p) == {c \in Calls : Due(p, c) /\ (c \in direct \/ Pending(c))}

DeskTypes ==
    /\ ask \in [Asks -> AskType]
    /\ count \in [Processes -> [Counters -> Nat]]
    /\ direct \in SUBSET Calls
    /\ log \in [Asks -> Results]

\* Nothing goes direct because of an answer.
MayDetour(site, after) ==
    /\ after # "refused"
    /\ deployment.required => /\ site \in {"agent", "reranker"}
                              /\ after # "unset"

Detoured == \A c \in direct : c.site = "router" \/ MayDetour(c.site, c.after)
Detouring ==
    \A a \in Asks, site \in DOMAIN Detour :
        ask[a].step = Detour[site] => MayDetour(site, ask[a].after)

Counted == \A p \in Processes : /\ IsFiniteSet(Known(p))
                                /\ Cardinality(Known(p)) <= Bypasses(p)

DeskInv == DeskTypes /\ Detoured /\ Detouring /\ Counted

(* Nothing has been asked, counted or called at the start.                 *)
LEMMA InitDeskInv == DeskInit => DeskInv
<1> SUFFICES ASSUME DeskInit PROVE DeskInv
  OBVIOUS
<1>1. NoAsk \in AskType /\ NoAsk.step = "idle"
  BY DEF NoAsk, AskType, Steps, Personas, Tiers, Results
<1>2. DeskTypes
  BY <1>1 DEF DeskInit, DeskTypes, Results
<1>3. direct = {} /\ \A a \in Asks : ask[a].step = "idle"
  BY <1>1 DEF DeskInit
<1>4. Detoured /\ Detouring
  BY <1>3 DEF Detoured, Detouring, Detour
<1>5. ASSUME NEW p \in Processes
      PROVE  IsFiniteSet(Known(p)) /\ Cardinality(Known(p)) <= Bypasses(p)
  <2>1. Known(p) = {}
    BY <1>3 DEF Known, Pending, Detour, Calls, Due, Sites
  <2>2. Bypasses(p) = 0
    BY DEF DeskInit, Bypasses, Counters
  <2> QED BY <2>1, <2>2, FS_EmptySet
<1> QED BY <1>2, <1>4, <1>5 DEF DeskInv, Counted

\* What any step does to the ask a it is about.
CountsOn == /\ count' \in [Processes -> [Counters -> Nat]]
            /\ \A p \in Processes : Bypasses(p)' >= Bypasses(p)

Quietly(a) ==
    /\ ask'[a].step \notin Detours
    /\ \/ UNCHANGED direct
       \/ GoesDirect(a, "router")
       \/ \E site \in DOMAIN Detour :
             ask[a].step = Detour[site] /\ GoesDirect(a, site)

FallsBack(a) ==
    /\ UNCHANGED direct
    /\ \E site \in DOMAIN Detour :
          /\ ask'[a].step = Detour[site]
          /\ MayDetour(site, ask'[a].after)
          /\ \A p \in Processes :
                Due(p, [ask |-> a, site |-> site, after |-> ask'[a].after])
                   => Bypasses(p)' >= Bypasses(p) + 1

Logs(a) ==
    \/ UNCHANGED log
    \/ /\ log' = [log EXCEPT ![a] = ask[a].result]
       /\ ask'[a].step = "done" /\ ask'[a].result = ask[a].result

Advances(a) ==
    /\ ask[a].step # "done"
    /\ ask' \in [Asks -> AskType]
    /\ \A b \in Asks \ {a} : ask'[b] = ask[b]
    /\ ask'[a].result = "answer" /\ ask'[a].failed
          => ask[a].result = "answer" /\ ask[a].failed
    /\ UNCHANGED deployment
    /\ CountsOn
    /\ Quietly(a) \/ FallsBack(a)
    /\ Logs(a)

(* An ask that goes on to a step changes its step only.                    *)
LEMMA ToGoes ==
    ASSUME DeskTypes, NEW a \in Asks, NEW s \in Steps, To(a, s)
    PROVE  /\ ask' \in [Asks -> AskType]
           /\ ask'[a].step = s /\ ask'[a].result = ask[a].result
           /\ ask'[a].failed = ask[a].failed
           /\ \A b \in Asks \ {a} : ask'[b] = ask[b]
<1> DEFINE rec == [ask[a] EXCEPT !.step = s]
<1>1. ask' = [ask EXCEPT ![a] = rec]
  BY DEF To, DeskTypes
<1>2. /\ rec \in AskType /\ rec.step = s
      /\ rec.result = ask[a].result /\ rec.failed = ask[a].failed
  BY DEF DeskTypes, AskType
<1> HIDE DEF rec
<1> QED BY <1>1, <1>2 DEF DeskTypes

(* An ask that is answered has its result, and goes to the log or ends.    *)
LEMMA AnswerGoes ==
    ASSUME DeskTypes, NEW a \in Asks, NEW result \in Results,
           NEW failed \in BOOLEAN, Answer(a, result, failed)
    PROVE  /\ ask' \in [Asks -> AskType]
           /\ ask'[a].step \in {"log", "done"} /\ ask'[a].result = result
           /\ ask'[a].failed = failed
           /\ \A b \in Asks \ {a} : ask'[b] = ask[b]
<1> DEFINE step == IF ask[a].logged /\ result # "raised" THEN "log"
                   ELSE "done"
           rec == [ask[a] EXCEPT !.step = step, !.result = result,
                                 !.failed = failed]
<1>1. ask' = [ask EXCEPT ![a] = rec]
  BY DEF Answer, DeskTypes
<1>2. step \in {"log", "done"} /\ step \in Steps
  BY DEF Steps
<1>3. /\ rec \in AskType /\ rec.step = step /\ rec.result = result
      /\ rec.failed = failed
  BY <1>2 DEF DeskTypes, AskType
<1> HIDE DEF rec
<1> QED BY <1>1, <1>2, <1>3 DEF DeskTypes

(* An ask that has the knowledge base searched goes on to the reranker.    *)
LEMMA SearchGoes ==
    ASSUME DeskTypes, NEW a \in Asks, Searches(a)
    PROVE  /\ ask' \in [Asks -> AskType]
           /\ ask'[a].step = "rerank" /\ ask'[a].result = ask[a].result
           /\ ask'[a].failed = ask[a].failed
           /\ \A b \in Asks \ {a} : ask'[b] = ask[b]
<1> DEFINE rec == [ask[a] EXCEPT !.step = "rerank", !.searched = TRUE]
<1>1. ask' = [ask EXCEPT ![a] = rec]
  BY DEF Searches, DeskTypes
<1>2. /\ rec \in AskType /\ rec.step = "rerank"
      /\ rec.result = ask[a].result /\ rec.failed = ask[a].failed
  BY DEF DeskTypes, AskType, Steps
<1> HIDE DEF rec
<1> QED BY <1>1, <1>2 DEF DeskTypes

(* An ask that falls back remembers what it heard.                         *)
LEMMA FallGoes ==
    ASSUME DeskTypes, NEW a \in Asks, NEW s \in Steps,
           NEW heard \in Answers \cup {"unset"},
           ask' = [ask EXCEPT ![a].step = s, ![a].after = heard]
    PROVE  /\ ask' \in [Asks -> AskType]
           /\ ask'[a].step = s /\ ask'[a].after = heard
           /\ ask'[a].result = ask[a].result /\ ask'[a].failed = ask[a].failed
           /\ \A b \in Asks \ {a} : ask'[b] = ask[b]
<1> DEFINE rec == [ask[a] EXCEPT !.step = s, !.after = heard]
<1>1. ask' = [ask EXCEPT ![a] = rec]
  BY DEF DeskTypes
<1>2. /\ rec \in AskType /\ rec.step = s /\ rec.after = heard
      /\ rec.result = ask[a].result /\ rec.failed = ask[a].failed
  BY DEF DeskTypes, AskType
<1> HIDE DEF rec
<1> QED BY <1>1, <1>2 DEF DeskTypes

(* A governed call counts a bypass wherever its client says so.            *)
LEMMA GovernedCounts ==
    ASSUME DeskTypes, NEW p \in Processes, NEW client,
           client.counts \in Counters \cup {"nothing"},
           Governed(p, client)
    PROVE  /\ CountsOn
           /\ client.counts \in {"bypass_unconfigured", "bypass_error"}
                 => Bypasses(p)' >= Bypasses(p) + 1
<1>1. \A q \in Processes, n \in Counters : count[q][n] \in Nat
  BY DEF DeskTypes
<1>2. {"bypass_unconfigured", "bypass_error"} \subseteq Counters
      /\ "nothing" \notin Counters
  BY DEF Counters
<1>3. CASE client.counts = "nothing"
  <2>1. UNCHANGED count
    BY <1>3 DEF Governed
  <2> QED BY <1>1, <1>2, <1>3, <2>1 DEF CountsOn, Bypasses, DeskTypes
<1>4. CASE client.counts # "nothing"
  <2> DEFINE n == client.counts
  <2>1. count' = [count EXCEPT ![p][n] = @ + 1] /\ n \in Counters
    BY <1>4 DEF Governed
  <2> HIDE DEF n
  <2>2. count' \in [Processes -> [Counters -> Nat]]
    BY <2>1 DEF DeskTypes
  <2>3. \A q \in Processes, m \in Counters :
           count'[q][m] = IF q = p /\ m = n THEN count[q][m] + 1
                          ELSE count[q][m]
    BY <2>1 DEF DeskTypes
  <2>4. \A q \in Processes : Bypasses(q)' >= Bypasses(q)
    BY <1>1, <1>2, <2>3 DEF Bypasses
  <2>5. n \in {"bypass_unconfigured", "bypass_error"}
           => Bypasses(p)' >= Bypasses(p) + 1
    BY <1>1, <1>2, <2>3 DEF Bypasses
  <2> QED BY <2>2, <2>4, <2>5 DEF CountsOn, n
<1> QED BY <1>3, <1>4

(* What an ask remembers of an answer is an answer or nothing.             *)
LEMMA HeardIsAnswer ==
    ASSUME NEW answer \in Answers
    PROVE  Heard(answer) \in Answers \cup {"unset"}
BY DEF Heard

(* The three clients count bypasses, or nothing.                           *)
LEMMA ClientsCount ==
    ASSUME NEW answer \in Answers, NEW client,
           \/ client = BffComplete(deployment, answer)
           \/ client = ToolComplete(deployment, answer)
           \/ client = AdkGenerate(deployment, answer)
    PROVE  client.counts \in Counters \cup {"nothing"}
BY DEF BffComplete, ToolComplete, AdkGenerate, Client, Uncounted, Counters

(* A question has a mode whatever it mentions, and a mode its first step.  *)
LEMMA ParsedBegins ==
    /\ \A mode \in Modes :
          Begins(mode) \in {"credentials", "kb", "semantics", "platform"}
    /\ \A mentioned \in (SUBSET Modes) \ {{}} :
          ParseIntent(mentioned) \in Modes
<1>1. \A mode \in Modes :
          Begins(mode) \in {"credentials", "kb", "semantics", "platform"}
  BY DEF Begins, Modes
<1>2. ASSUME NEW m \in SUBSET Modes, m # {} PROVE ParseIntent(m) \in Modes
  <2> DEFINE both == m \cap {"platform", "semantics"}
  <2>1. CASE "platform" \in m
    <3>1. /\ both # {"semantics"} /\ m # {"kb"} /\ m # {}
          /\ m \notin {{"analytics"}, {"analytics", "kb"}}
      BY <2>1
    <3> QED BY <2>1, <3>1 DEF ParseIntent, Modes
  <2>2. CASE "platform" \notin m /\ "semantics" \in m
    <3>1. /\ both = {"semantics"} /\ m # {"kb"} /\ m # {}
          /\ m \notin {{"analytics"}, {"analytics", "kb"}}
      BY <2>2
    <3> QED BY <2>2, <3>1 DEF ParseIntent, Modes
  <2>3. CASE "platform" \notin m /\ "semantics" \notin m
    <3>1. both # {"semantics"} /\ m \subseteq {"analytics", "kb"}
      BY <2>3 DEF Modes
    <3>2. CASE "analytics" \notin m
      <4>1. m = {"kb"} /\ m \notin {{"analytics"}, {"analytics", "kb"}}
        <5>1. m \subseteq {"kb"}
          BY <3>1, <3>2
        <5> QED BY <1>2, <3>2, <5>1
      <4> QED BY <2>3, <3>1, <4>1 DEF ParseIntent, Modes
    <3>3. CASE "analytics" \in m
      <4> DEFINE lone == m = {"kb"}
                 semantic == both = {"semantics"}
                 analytic == m \in {{"analytics"}, {"analytics", "kb"}}
      <4>1. analytic /\ m # {} /\ ~lone /\ ~semantic
        <5>1. CASE "kb" \in m
          <6>1. m = {"analytics", "kb"}
            BY <3>1, <3>3, <5>1
          <6> QED BY <3>1, <3>3, <6>1
        <5>2. CASE "kb" \notin m
          <6>1. m = {"analytics"}
            BY <3>1, <3>3, <5>2
          <6> QED BY <3>1, <3>3, <6>1
        <5> QED BY <5>1, <5>2
      <4>2. ParseIntent(m) =
                CASE "platform" \in m -> "platform"
                  [] semantic -> "semantics"
                  [] lone -> "kb"
                  [] analytic -> "analytics"
                  [] m = {} -> None
        BY DEF ParseIntent
      <4> HIDE DEF lone, semantic, analytic
      <4> QED BY <2>3, <4>1, <4>2 DEF Modes
    <3> QED BY <3>2, <3>3
  <2> QED BY <2>1, <2>2, <2>3
<1> QED BY <1>1, <1>2

(* Every action is about one ask, which is not done, or about none.        *)
LEMMA DeskGoes ==
    ASSUME DeskTypes, Detouring, DeskNext
    PROVE  \/ UNCHANGED <<deployment, ask, count, direct, log>>
           \/ \E a \in Asks : Advances(a)
<1>n. CountsOn \/ count' # count
  BY DEF CountsOn, Bypasses, DeskTypes, Processes, Counters
<1>s. /\ {"asked", "route", "credentials", "ca_agent", "ca_inline", "kb",
          "rerank", "semantics", "platform", "search", "generate", "log",
          "done", "route_direct"} \subseteq Steps \ Detours
      /\ {"kb_direct", "rerank_direct", "generate_direct"} \subseteq Steps
      /\ {"log", "done"} \cap Detours = {}
      /\ {"answer", "no_answer", "error", "raised", "denied"}
            \subseteq Results
  BY DEF Steps, Detours, Results
\* An ask goes on to a step from where nothing goes direct.
<1>t. ASSUME NEW a \in Asks, NEW s \in Steps \ Detours, To(a, s),
             ask[a].step # "done", UNCHANGED <<deployment, log>>, CountsOn,
             \/ UNCHANGED direct \/ GoesDirect(a, "router")
             \/ \E site \in DOMAIN Detour :
                   ask[a].step = Detour[site] /\ GoesDirect(a, site)
      PROVE  Advances(a)
  <2>1. /\ ask' \in [Asks -> AskType]
        /\ ask'[a].step = s /\ ask'[a].result = ask[a].result
        /\ ask'[a].failed = ask[a].failed
        /\ \A b \in Asks \ {a} : ask'[b] = ask[b]
    BY <1>t, ToGoes
  <2> QED BY <1>t, <2>1 DEF Advances, Quietly, Logs
\* An ask goes on to the search.
<1>h. ASSUME NEW a \in Asks, Searches(a),
             ask[a].step # "done", UNCHANGED <<deployment, log>>, CountsOn,
             \/ UNCHANGED direct
             \/ \E site \in DOMAIN Detour :
                   ask[a].step = Detour[site] /\ GoesDirect(a, site)
      PROVE  Advances(a)
  <2>1. /\ ask' \in [Asks -> AskType]
        /\ ask'[a].step = "rerank" /\ ask'[a].result = ask[a].result
        /\ ask'[a].failed = ask[a].failed
        /\ \A b \in Asks \ {a} : ask'[b] = ask[b]
    BY <1>h, SearchGoes
  <2> QED BY <1>h, <1>s, <2>1 DEF Advances, Quietly, Logs
\* An ask is answered.
<1>a. ASSUME NEW a \in Asks, NEW result \in Results, NEW failed \in BOOLEAN,
             Answer(a, result, failed), result = "answer" => ~failed,
             ask[a].step # "done", UNCHANGED <<deployment, log>>, CountsOn,
             \/ UNCHANGED direct
             \/ \E site \in DOMAIN Detour :
                   ask[a].step = Detour[site] /\ GoesDirect(a, site)
      PROVE  Advances(a)
  <2>1. /\ ask' \in [Asks -> AskType]
        /\ ask'[a].step \in {"log", "done"} /\ ask'[a].result = result
        /\ ask'[a].failed = failed
        /\ \A b \in Asks \ {a} : ask'[b] = ask[b]
    BY <1>a, AnswerGoes
  <2> QED BY <1>a, <1>s, <2>1 DEF Advances, Quietly, Logs
\* An ask falls back from the gateway.
<1>f. ASSUME NEW a \in Asks, NEW answer \in Answers,
             NEW site \in DOMAIN Detour,
             ask' = [ask EXCEPT ![a].step = Detour[site],
                                ![a].after = Heard(answer)],
             ask[a].step # "done",
             UNCHANGED <<deployment, log, direct>>, CountsOn,
             MayDetour(site, Heard(answer)),
             \A p \in Processes :
                Due(p, [ask |-> a, site |-> site, after |-> Heard(answer)])
                   => Bypasses(p)' >= Bypasses(p) + 1
      PROVE  Advances(a)
  <2> DEFINE s == Detour[site]
             heard == Heard(answer)
  <2>1. s \in Steps /\ heard \in Answers \cup {"unset"}
    BY <1>s, HeardIsAnswer DEF Detour
  <2> HIDE DEF s, heard
  <2>2. /\ ask' \in [Asks -> AskType]
        /\ ask'[a].step = s /\ ask'[a].after = heard
        /\ ask'[a].result = ask[a].result /\ ask'[a].failed = ask[a].failed
        /\ \A b \in Asks \ {a} : ask'[b] = ask[b]
    BY <1>f, <2>1, FallGoes DEF s, heard
  <2>3. FallsBack(a)
    BY <1>f, <2>2 DEF FallsBack, s, heard
  <2> QED BY <1>f, <2>2, <2>3 DEF Advances, Logs
<1>1. CASE AnonExpires
  BY <1>1 DEF AnonExpires
<1>2. ASSUME NEW a \in Asks, NEW persona \in Personas,
             NEW signed \in BOOLEAN, NEW logged \in BOOLEAN,
             Arrive(a, persona, signed, logged)
      PROVE  Advances(a)
  <2> DEFINE rec == [NoAsk EXCEPT !.persona = persona, !.signed = signed,
                                  !.logged = logged, !.step = "asked"]
  <2>1. /\ rec \in AskType /\ rec.step = "asked" /\ rec.result = None
        /\ rec.failed = FALSE
    BY DEF AskType, NoAsk, Steps, Tiers, Results
  <2> HIDE DEF rec
  <2>2. /\ ask' = [ask EXCEPT ![a] = rec] /\ ask[a].step = "idle"
        /\ UNCHANGED <<deployment, count, direct, log>>
    BY <1>2 DEF Arrive, At, rec
  <2>3. /\ ask' \in [Asks -> AskType] /\ ask'[a] = rec
        /\ \A b \in Asks \ {a} : ask'[b] = ask[b]
    BY <2>1, <2>2 DEF DeskTypes
  <2> QED BY <1>n, <1>s, <2>1, <2>2, <2>3 DEF Advances, Quietly, Logs
<1>3. ASSUME NEW a \in Asks, Gate(a) PROVE Advances(a)
  <2>1. ask[a].step = "asked" /\ UNCHANGED <<deployment, count, direct, log>>
    BY <1>3 DEF Gate, At
  <2>2. CASE \E s \in {"route", "credentials"} : To(a, s)
    BY <1>n, <1>s, <1>t, <2>1, <2>2
  <2>3. CASE ask' = [ask EXCEPT ![a].step = "done", ![a].result = "denied"]
    <3> DEFINE rec == [ask[a] EXCEPT !.step = "done", !.result = "denied"]
    <3>1. ask' = [ask EXCEPT ![a] = rec]
      BY <2>3 DEF DeskTypes
    <3>2. rec \in AskType /\ rec.step = "done" /\ rec.result = "denied"
      BY <1>s DEF DeskTypes, AskType
    <3> HIDE DEF rec
    <3>3. /\ ask' \in [Asks -> AskType] /\ ask'[a] = rec
          /\ \A b \in Asks \ {a} : ask'[b] = ask[b]
      BY <3>1, <3>2 DEF DeskTypes
    <3> QED BY <1>n, <1>s, <2>1, <3>2, <3>3 DEF Advances, Quietly, Logs
  <2> QED BY <1>3, <2>2, <2>3 DEF Gate
<1>4. ASSUME NEW a \in Asks, NEW answer \in Answers, RouteGoverned(a, answer)
      PROVE  Advances(a)
  <2> DEFINE client == BffComplete(deployment, answer)
  <2>1. /\ ask[a].step = "route" /\ UNCHANGED <<deployment, direct, log>>
        /\ Governed("bff", client)
    BY <1>4 DEF RouteGoverned, At
  <2>2. CountsOn
    <3>1. client.counts \in Counters \cup {"nothing"}
      BY ClientsCount
    <3> HIDE DEF client
    <3> QED BY <2>1, <3>1, GovernedCounts DEF Processes
  <2>3. CASE ask' = [ask EXCEPT ![a].step = "route_direct",
                                ![a].after = Heard(answer)]
    <3> DEFINE heard == Heard(answer)
    <3>1. heard \in Answers \cup {"unset"} /\ "route_direct" \in Steps
      BY <1>s, HeardIsAnswer
    <3> HIDE DEF heard
    <3>2. /\ ask' \in [Asks -> AskType]
          /\ ask'[a].step = "route_direct"
          /\ ask'[a].result = ask[a].result /\ ask'[a].failed = ask[a].failed
          /\ \A b \in Asks \ {a} : ask'[b] = ask[b]
      BY <2>3, <3>1, FallGoes DEF heard
    <3> QED BY <1>s, <2>1, <2>2, <3>2 DEF Advances, Quietly, Logs
  <2>4. CASE \E mentioned \in (SUBSET Modes) \ {{}} :
                To(a, Begins(ParseIntent(mentioned)))
    <3>1. \E s \in {"credentials", "kb", "semantics", "platform"} : To(a, s)
      BY <2>4, ParsedBegins
    <3> QED BY <1>s, <1>t, <2>1, <2>2, <3>1
  <2> QED BY <1>4, <2>3, <2>4 DEF RouteGoverned
<1>5. ASSUME NEW a \in Asks, RouteDirect(a) PROVE Advances(a)
  <2>1. /\ ask[a].step = "route_direct"
        /\ UNCHANGED <<deployment, count, log>>
        /\ UNCHANGED direct \/ GoesDirect(a, "router")
        /\ \E mode \in Heuristics : To(a, Begins(mode))
    BY <1>5 DEF RouteDirect, At
  <2>2. \E s \in {"credentials", "kb", "semantics", "platform"} : To(a, s)
    BY <2>1, ParsedBegins DEF Heuristics
  <2> QED BY <1>n, <1>s, <1>t, <2>1, <2>2
<1>6. ASSUME NEW a \in Asks, NEW minted \in BOOLEAN, Credentials(a, minted)
      PROVE  Advances(a)
  <2>1. /\ ask[a].step = "credentials"
        /\ UNCHANGED <<deployment, count, direct, log>>
    BY <1>6 DEF Credentials, At
  <2>2. CASE Answer(a, "error", TRUE)
    BY <1>n, <1>s, <1>a, <2>1, <2>2
  <2>3. CASE ask' = [ask EXCEPT ![a].tier = TierOf(a, minted),
                                ![a].step = IF DataAgent THEN "ca_agent"
                                            ELSE "ca_inline"]
    <3>1. TierOf(a, minted) \in Tiers
      BY DEF TierOf, Tiers
    <3>2. PICK tier \in Tiers, s \in {"ca_agent", "ca_inline"} :
             ask' = [ask EXCEPT ![a].tier = tier, ![a].step = s]
      BY <2>3, <3>1
    <3> DEFINE rec == [ask[a] EXCEPT !.tier = tier, !.step = s]
    <3>3. ask' = [ask EXCEPT ![a] = rec]
      BY <3>2 DEF DeskTypes
    <3>4. /\ rec \in AskType /\ rec.step = s /\ rec.result = ask[a].result
          /\ rec.failed = ask[a].failed
      BY <1>s DEF DeskTypes, AskType
    <3> HIDE DEF rec
    <3>5. /\ ask' \in [Asks -> AskType] /\ ask'[a] = rec
          /\ \A b \in Asks \ {a} : ask'[b] = ask[b]
      BY <3>3, <3>4 DEF DeskTypes
    <3> QED BY <1>n, <1>s, <2>1, <3>4, <3>5 DEF Advances, Quietly, Logs
  <2> QED BY <1>6, <2>2, <2>3 DEF Credentials
<1>7. ASSUME NEW a \in Asks, CaAgent(a) \/ CaInline(a) PROVE Advances(a)
  <2>1. /\ ask[a].step # "done"
        /\ UNCHANGED <<deployment, count, direct, log>>
    BY <1>7 DEF CaAgent, CaInline, At
  <2>2. \/ To(a, "ca_inline")
        \/ Answer(a, "answer", FALSE)
        \/ \E result \in {"no_answer", "error", "raised"} :
              Answer(a, result, TRUE)
    BY <1>7 DEF CaAgent, CaInline, Streamed
  <2> QED BY <1>n, <1>s, <1>t, <1>a, <2>1, <2>2
<1>8. ASSUME NEW a \in Asks, NEW answer \in Answers, Kb(a, answer)
      PROVE  Advances(a)
  <2> DEFINE client == AdkGenerate(deployment, answer)
  <2>1. /\ ask[a].step = "kb" /\ UNCHANGED <<deployment, direct, log>>
        /\ Governed("agent", client)
    BY <1>8 DEF Kb, At
  <2>2. client.counts \in Counters \cup {"nothing"}
    BY ClientsCount
  <2>3. /\ CountsOn
        /\ client.counts \in {"bypass_unconfigured", "bypass_error"}
              => Bypasses("agent")' >= Bypasses("agent") + 1
    <3> HIDE DEF client
    <3> QED BY <2>1, <2>2, GovernedCounts DEF Processes
  <2>4. CASE Answer(a, "answer", FALSE) \/ Answer(a, "no_answer", FALSE)
             \/ Answer(a, "error", TRUE) \/ Searches(a)
    <3> HIDE DEF client
    <3> QED BY <1>s, <1>h, <1>a, <2>1, <2>3, <2>4
  <2>5. CASE /\ client.does = "falls"
             /\ ask' = [ask EXCEPT ![a].step = "kb_direct",
                                   ![a].after = Heard(answer)]
    <3>1. /\ MayDetour("agent", Heard(answer))
          /\ Heard(answer) # "unset" => client.counts = "bypass_error"
      BY <2>5
      DEF AdkGenerate, Client, Uncounted, Heard, MayDetour, Answers
    <3>2. \A p \in Processes :
             Due(p, [ask |-> a, site |-> "agent", after |-> Heard(answer)])
                => Bypasses(p)' >= Bypasses(p) + 1
      BY <2>3, <3>1 DEF Due, Sites, Processes
    <3>3. "agent" \in DOMAIN Detour /\ Detour["agent"] = "kb_direct"
      BY DEF Detour
    <3> QED BY <1>f, <2>1, <2>3, <2>5, <3>1, <3>2, <3>3
  <2> QED BY <1>8, <2>4, <2>5 DEF Kb
<1>9. ASSUME NEW a \in Asks, KbUnreachable(a) PROVE Advances(a)
  BY <1>9, <1>n, <1>s, <1>a DEF KbUnreachable, At
<1>10. ASSUME NEW a \in Asks, KbDirect(a) PROVE Advances(a)
  <2>1. "agent" \in DOMAIN Detour /\ Detour["agent"] = "kb_direct"
    BY DEF Detour
  <2>2. /\ ask[a].step = "kb_direct"
        /\ UNCHANGED <<deployment, count, log>> /\ GoesDirect(a, "agent")
    BY <1>10 DEF KbDirect, At
  <2>3. \/ Answer(a, "answer", FALSE) \/ Answer(a, "no_answer", FALSE)
        \/ Answer(a, "error", TRUE) \/ Searches(a)
    BY <1>10 DEF KbDirect
  <2> QED BY <1>n, <1>s, <1>h, <1>a, <2>1, <2>2, <2>3
<1>11. ASSUME NEW a \in Asks, NEW answer \in Answers, Rerank(a, answer)
       PROVE  Advances(a)
  <2> DEFINE client == ToolComplete(deployment, answer)
  <2>1. /\ ask[a].step = "rerank" /\ UNCHANGED <<deployment, direct, log>>
        /\ Governed("agent", client)
    BY <1>11 DEF Rerank, At
  <2>2. client.counts \in Counters \cup {"nothing"}
    BY ClientsCount
  <2>3. /\ CountsOn
        /\ client.counts \in {"bypass_unconfigured", "bypass_error"}
              => Bypasses("agent")' >= Bypasses("agent") + 1
    <3> HIDE DEF client
    <3> QED BY <2>1, <2>2, GovernedCounts DEF Processes
  <2>4. CASE To(a, "kb")
    <3> HIDE DEF client
    <3> QED BY <1>s, <1>t, <2>1, <2>3, <2>4
  <2>5. CASE /\ client.does = "falls"
             /\ ask' = [ask EXCEPT ![a].step = "rerank_direct",
                                   ![a].after = Heard(answer)]
    <3>1. /\ MayDetour("reranker", Heard(answer))
          /\ client.counts = "bypass_error"
      BY <2>5
      DEF ToolComplete, Client, Uncounted, Heard, MayDetour, Answers
    <3>2. \A p \in Processes :
             Due(p, [ask |-> a, site |-> "reranker", after |-> Heard(answer)])
                => Bypasses(p)' >= Bypasses(p) + 1
      BY <2>3, <3>1 DEF Due, Sites, Processes
    <3>3. "reranker" \in DOMAIN Detour /\ Detour["reranker"] = "rerank_direct"
      BY DEF Detour
    <3> QED BY <1>f, <2>1, <2>3, <2>5, <3>1, <3>2, <3>3
  <2> QED BY <1>11, <2>4, <2>5 DEF Rerank
<1>12. ASSUME NEW a \in Asks, RerankDirect(a) PROVE Advances(a)
  <2>1. "reranker" \in DOMAIN Detour /\ Detour["reranker"] = "rerank_direct"
    BY DEF Detour
  <2> QED BY <1>12, <1>n, <1>s, <1>t, <2>1 DEF RerankDirect, At
<1>13. ASSUME NEW a \in Asks, Semantics(a) \/ Platform(a) \/ Search(a)
       PROVE  Advances(a)
  <2>1. /\ ask[a].step # "done"
        /\ UNCHANGED <<deployment, count, direct, log>>
    BY <1>13 DEF Semantics, Platform, Search, At
  <2>2. \/ To(a, "generate") \/ To(a, "search")
        \/ Answer(a, "answer", FALSE)
        \/ Answer(a, "raised", TRUE) \/ Answer(a, "error", TRUE)
    BY <1>13 DEF Semantics, Platform, Search
  <2> QED BY <1>n, <1>s, <1>t, <1>a, <2>1, <2>2
<1>14. ASSUME NEW a \in Asks, NEW answer \in Answers, Generate(a, answer)
       PROVE  Advances(a)
  <2> DEFINE client == BffComplete(deployment, answer)
  <2>1. /\ ask[a].step = "generate" /\ UNCHANGED <<deployment, direct, log>>
        /\ Governed("bff", client)
    BY <1>14 DEF Generate, At
  <2>2. /\ client.counts \in Counters \cup {"nothing"}
        /\ client.does \in {"serves", "raises", "falls"}
    BY ClientsCount DEF BffComplete, Client
  <2>3. /\ CountsOn
        /\ client.counts \in {"bypass_unconfigured", "bypass_error"}
              => Bypasses("bff")' >= Bypasses("bff") + 1
    <3> HIDE DEF client
    <3> QED BY <2>1, <2>2, GovernedCounts DEF Processes
  <2>4. CASE Answer(a, "answer", FALSE) \/ Answer(a, "raised", TRUE)
    <3> HIDE DEF client
    <3> QED BY <1>s, <1>a, <2>1, <2>3, <2>4
  <2>5. CASE /\ client.does = "falls"
             /\ ask' = [ask EXCEPT ![a].step = "generate_direct",
                                   ![a].after = Heard(answer)]
    <3>1. /\ MayDetour("generate", Heard(answer))
          /\ client.counts \in {"bypass_unconfigured", "bypass_error"}
      BY <2>5
      DEF BffComplete, Client, Heard, MayDetour, Answers
    <3>2. \A p \in Processes :
             Due(p, [ask |-> a, site |-> "generate", after |-> Heard(answer)])
                => Bypasses(p)' >= Bypasses(p) + 1
      BY <2>3, <3>1 DEF Due, Sites, Processes
    <3>3. /\ "generate" \in DOMAIN Detour
          /\ Detour["generate"] = "generate_direct"
      BY DEF Detour
    <3> QED BY <1>f, <2>1, <2>3, <2>5, <3>1, <3>2, <3>3
  <2> QED BY <1>14, <2>2, <2>4, <2>5 DEF Generate
<1>15. ASSUME NEW a \in Asks, GenerateDirect(a) PROVE Advances(a)
  <2>1. /\ "generate" \in DOMAIN Detour
        /\ Detour["generate"] = "generate_direct"
    BY DEF Detour
  <2> QED BY <1>15, <1>n, <1>s, <1>a, <2>1 DEF GenerateDirect, At
<1>16. ASSUME NEW a \in Asks, LogEval(a) PROVE Advances(a)
  <2>1. /\ ask[a].step = "log" /\ To(a, "done")
        /\ UNCHANGED <<deployment, count, direct>>
        /\ log' \in {log, [log EXCEPT ![a] = ask[a].result]}
    BY <1>16 DEF LogEval, At, Logged
  <2>2. /\ ask' \in [Asks -> AskType]
        /\ ask'[a].step = "done" /\ ask'[a].result = ask[a].result
        /\ ask'[a].failed = ask[a].failed
        /\ \A b \in Asks \ {a} : ask'[b] = ask[b]
    BY <1>s, <2>1, ToGoes
  <2> QED BY <1>n, <1>s, <2>1, <2>2 DEF Advances, Quietly, Logs
<1> QED BY <1>1, <1>2, <1>3, <1>4, <1>5, <1>6, <1>7, <1>8, <1>9, <1>10,
           <1>11, <1>12, <1>13, <1>14, <1>15, <1>16 DEF DeskNext

(* A step that adds a call to those known counts it, or knows it already.  *)
LEMMA StepCounts ==
    ASSUME DeskInv, NEW a \in Asks, Advances(a)
    PROVE  Counted'
<1>1. SUFFICES ASSUME NEW p \in Processes
               PROVE  /\ IsFiniteSet(Known(p)')
                      /\ Cardinality(Known(p)') <= Bypasses(p)'
  BY DEF Counted
<1>2. /\ IsFiniteSet(Known(p)) /\ Cardinality(Known(p)) <= Bypasses(p)
      /\ Cardinality(Known(p)) \in Nat
  BY FS_CardinalityType DEF DeskInv, Counted
<1>3. /\ Bypasses(p) \in Nat /\ Bypasses(p)' \in Nat
      /\ Bypasses(p)' >= Bypasses(p)
  <2>1. {"bypass_unconfigured", "bypass_error"} \subseteq Counters
    BY DEF Counters
  <2> QED BY <2>1 DEF Advances, CountsOn, DeskInv, DeskTypes, Bypasses
<1>4. \A c \in Calls : c.ask # a => (Pending(c)' <=> Pending(c))
  BY DEF Advances, Pending, Calls
<1>5. CASE Quietly(a)
  <2>1. ASSUME NEW c \in Known(p)' PROVE c \in Known(p)
    <3>1. c \in Calls /\ Due(p, c) /\ (c \in direct' \/ Pending(c)')
      BY <2>1 DEF Known, Due
    <3>2. c.ask = a => ~Pending(c)'
      BY <1>5, <3>1 DEF Quietly, Pending, Due, Sites, Detour, Detours
    <3>3. CASE Pending(c)'
      BY <1>4, <3>1, <3>2, <3>3 DEF Known
    <3>4. CASE c \in direct
      BY <3>1, <3>4 DEF Known
    <3>5. CASE c \in direct' /\ c \notin direct
      <4>1. PICK site \in {"router"} \cup DOMAIN Detour :
               /\ c = [ask |-> a, site |-> site, after |-> ask[a].after]
               /\ site # "router" => ask[a].step = Detour[site]
        BY <1>5, <3>5 DEF Quietly, GoesDirect
      <4>2. site # "router"
        BY <3>1, <4>1 DEF Due, Sites
      <4> QED BY <3>1, <4>1, <4>2 DEF Known, Pending
    <3> QED BY <3>1, <3>3, <3>4, <3>5
  <2>2. Known(p)' \subseteq Known(p)
    BY <2>1
  <2> HIDE DEF Known
  <2>3. IsFiniteSet(Known(p)') /\ Cardinality(Known(p)') \in Nat
        /\ Cardinality(Known(p)') <= Cardinality(Known(p))
    BY <1>2, <2>2, FS_Subset, FS_CardinalityType
  <2> QED BY <1>2, <1>3, <2>3
<1>6. CASE FallsBack(a)
  <2>1. PICK site \in DOMAIN Detour :
          /\ ask'[a].step = Detour[site]
          /\ Due(p, [ask |-> a, site |-> site, after |-> ask'[a].after])
                => Bypasses(p)' >= Bypasses(p) + 1
    BY <1>6 DEF FallsBack
  <2> DEFINE added == [ask |-> a, site |-> site, after |-> ask'[a].after]
  <2>2. direct' = direct
    BY <1>6 DEF FallsBack
  <2>3. ASSUME NEW c \in Known(p)', c \notin Known(p)
        PROVE  c = added /\ Due(p, added)
    <3>1. c \in Calls /\ Due(p, c) /\ (c \in direct \/ Pending(c)')
      BY <2>2, <2>3 DEF Known, Due
    <3>2. c.ask = a /\ Pending(c)'
      BY <1>4, <2>3, <3>1 DEF Known
    <3>3. c.site \in DOMAIN Detour
      BY <3>1 DEF Due, Sites, Detour
    <3>4. c.site = site /\ c.after = ask'[a].after
      BY <2>1, <3>2, <3>3 DEF Pending, Detour
    <3>5. c = added
      BY <3>1, <3>2, <3>4 DEF Calls
    <3> QED BY <3>1, <3>5
  <2> HIDE DEF Known, added
  <2>4. CASE Known(p)' \subseteq Known(p)
    <3>1. IsFiniteSet(Known(p)') /\ Cardinality(Known(p)') \in Nat
          /\ Cardinality(Known(p)') <= Cardinality(Known(p))
      BY <1>2, <2>4, FS_Subset, FS_CardinalityType
    <3> QED BY <1>2, <1>3, <3>1
  <2>5. CASE ~(Known(p)' \subseteq Known(p))
    <3> DEFINE more == Known(p) \cup {added}
    <3>1. Known(p)' \subseteq more /\ Due(p, added)
      BY <2>3, <2>5
    <3>2. /\ IsFiniteSet(more) /\ Cardinality(more) \in Nat
          /\ Cardinality(more) <= Cardinality(Known(p)) + 1
      <4>1. /\ IsFiniteSet(more)
            /\ Cardinality(more) = (IF added \in Known(p)
                                    THEN Cardinality(Known(p))
                                    ELSE Cardinality(Known(p)) + 1)
        BY <1>2, FS_AddElement
      <4> HIDE DEF more
      <4> QED BY <1>2, <4>1
    <3>3. IsFiniteSet(Known(p)') /\ Cardinality(Known(p)') \in Nat
          /\ Cardinality(Known(p)') <= Cardinality(more)
      BY <3>1, <3>2, FS_Subset, FS_CardinalityType
    <3>4. Bypasses(p)' >= Bypasses(p) + 1
      BY <2>1, <3>1 DEF added
    <3> HIDE DEF more
    <3> QED BY <1>2, <1>3, <3>2, <3>3, <3>4
  <2> QED BY <2>4, <2>5
<1> QED BY <1>5, <1>6 DEF Advances

(* A step of an ask, of whatever kind, preserves the invariant.            *)
LEMMA StepDesk ==
    ASSUME DeskInv, NEW a \in Asks, Advances(a)
    PROVE  DeskInv'
<1>1. DeskTypes'
  <2>1. ASSUME NEW site \in {"router"} \cup DOMAIN Detour, GoesDirect(a, site)
        PROVE  direct' \in SUBSET Calls
    <3>1. site \in {"router", "generate", "agent", "reranker"}
      BY DEF Detour
    <3>2. ask[a].after \in Answers \cup {"unset"}
      BY DEF DeskInv, DeskTypes, AskType
    <3> QED BY <2>1, <3>1, <3>2 DEF GoesDirect, Calls, DeskInv, DeskTypes
  <2>2. direct' \in SUBSET Calls
    BY <2>1 DEF Advances, Quietly, FallsBack, DeskInv, DeskTypes
  <2>3. log' \in [Asks -> Results]
    <3>1. ask[a].result \in Results
      BY DEF DeskInv, DeskTypes, AskType
    <3> QED BY <3>1 DEF Advances, Logs, DeskInv, DeskTypes
  <2> QED BY <2>2, <2>3 DEF Advances, CountsOn, DeskTypes
<1>2. Detoured'
  <2>1. SUFFICES ASSUME NEW c \in direct', c.site # "router"
                 PROVE  MayDetour(c.site, c.after)
    BY DEF Detoured, MayDetour, Advances
  <2>2. CASE c \in direct
    BY <2>1, <2>2 DEF DeskInv, Detoured
  <2>3. CASE c \notin direct
    <3>1. PICK site \in {"router"} \cup DOMAIN Detour :
             /\ c = [ask |-> a, site |-> site, after |-> ask[a].after]
             /\ site # "router" => ask[a].step = Detour[site]
      BY <2>1, <2>3 DEF Advances, Quietly, FallsBack, GoesDirect
    <3> QED BY <2>1, <3>1 DEF DeskInv, Detouring
  <2> QED BY <2>2, <2>3
<1>3. Detouring'
  <2>1. SUFFICES ASSUME NEW b \in Asks, NEW site \in DOMAIN Detour,
                        ask'[b].step = Detour[site]
                 PROVE  MayDetour(site, ask'[b].after)
    BY DEF Detouring, MayDetour, Advances
  <2>2. CASE b # a
    BY <2>1, <2>2 DEF Advances, DeskInv, Detouring
  <2>3. CASE b = a
    <3>1. Detour[site] \in Detours
      BY DEF Detour, Detours
    <3>2. PICK other \in DOMAIN Detour :
             /\ ask'[a].step = Detour[other]
             /\ MayDetour(other, ask'[a].after)
      BY <2>1, <2>3, <3>1 DEF Advances, Quietly, FallsBack
    <3>3. other = site
      BY <2>1, <2>3, <3>2 DEF Detour
    <3> QED BY <2>3, <3>2, <3>3
  <2> QED BY <2>2, <2>3
<1> QED BY <1>1, <1>2, <1>3, StepCounts DEF DeskInv

(* So does a step that leaves the desk alone.                              *)
LEMMA StandDesk ==
    DeskInv /\ UNCHANGED <<deployment, ask, count, direct, log>> => DeskInv'
BY DEF DeskInv, DeskTypes, Detoured, Detouring, MayDetour, Counted, Known,
       Pending, Due, Bypasses

(* The direct calls made are among those the counters know.                *)
LEMMA DeskInvKnows == DeskInv => DetoursAreKnown
<1> SUFFICES ASSUME DeskInv PROVE DetoursAreKnown
  OBVIOUS
<1>1. \A c \in direct :
          \/ c.site = "router"
          \/ /\ c.after # "refused"
             /\ deployment.required => /\ c.site \in {"agent", "reranker"}
                                       /\ c.after # "unset"
  BY DEF DeskInv, Detoured, MayDetour
<1>2. ASSUME NEW p \in Processes
      PROVE  Cardinality({c \in direct : Due(p, c)}) <= Bypasses(p)
  <2> DEFINE due == {c \in direct : Due(p, c)}
  <2>1. due \subseteq Known(p)
    BY DEF DeskInv, DeskTypes, Known
  <2>2. /\ IsFiniteSet(Known(p)) /\ Cardinality(Known(p)) <= Bypasses(p)
        /\ Cardinality(Known(p)) \in Nat
    BY FS_CardinalityType DEF DeskInv, Counted
  <2> HIDE DEF due, Known
  <2>3. IsFiniteSet(due) /\ Cardinality(due) \in Nat
        /\ Cardinality(due) <= Cardinality(Known(p))
    BY <2>1, <2>2, FS_Subset, FS_CardinalityType
  <2>4. Bypasses(p) \in Nat
    <3>1. {"bypass_unconfigured", "bypass_error"} \subseteq Counters
      BY DEF Counters
    <3> QED BY <3>1 DEF DeskInv, DeskTypes, Bypasses
  <2>5. Cardinality(due) <= Bypasses(p)
    BY <2>2, <2>3, <2>4
  <2> QED BY <2>5 DEF due
<1> QED BY <1>1, <1>2 DEF DetoursAreKnown, Due, Sites, Bypasses

(* No call but the router's goes round the gateway because it was refused; *)
(* where the gateway is required only the agent's two sites go round it;   *)
(* and the bypass counters of a process are never behind the calls it made *)
(* directly (gateway_client.py, tools.py and gateway_llm.py), for any set  *)
(* of questions.                                                           *)
THEOREM DetoursAreAlwaysKnown == DeskSpec => []DetoursAreKnown
<1>1. DeskInv /\ [DeskNext]_deskVars => DeskInv'
  <2> SUFFICES ASSUME DeskInv, [DeskNext]_deskVars PROVE DeskInv'
    OBVIOUS
  <2>1. DeskTypes /\ Detouring
    BY DEF DeskInv
  <2> QED BY <2>1, DeskGoes, StepDesk, StandDesk DEF deskVars
<1> QED BY <1>1, InitDeskInv, DeskInvKnows, PTL DEF DeskSpec

(* The scores: what they are of, and who gave the second.                  *)
Replies == {"answer", "no_answer"}

LiveTypes ==
    /\ sample \in [Scorers -> (SUBSET Asks) \cup {None}]
    /\ scores \in [Asks -> Nat]

Answered ==
    \A a \in Asks :
        /\ log[a] \in Replies => ask[a].step = "done"
                                 /\ ask[a].result = log[a]
        /\ ~(ask[a].result = "answer" /\ ask[a].failed)

Judged ==
    \A a \in Asks :
        scores[a] > 0 \/ (\E s \in Scorers : a \in Sampled(s))
            => log[a] \in Replies

Contention ==
    \A a \in Asks :
        /\ \A s, t \in Scorers :
              s # t /\ a \in Sampled(s) /\ a \in Sampled(t) => a \in contended
        /\ \A s \in Scorers :
              scores[a] > 0 /\ a \in Sampled(s) => a \in contended
        /\ scores[a] > 1 => a \in contended

LiveInv == DeskInv /\ LiveTypes /\ Answered /\ Judged /\ Contention

(* Nothing is logged and nothing is scored at the start.                   *)
LEMMA InitLiveInv == Init => LiveInv
<1> SUFFICES ASSUME Init PROVE LiveInv
  OBVIOUS
<1>1. DeskInv
  BY InitDeskInv DEF Init
<1>2. LiveTypes
  BY DEF Init, LiveTypes
<1>3. \A a \in Asks : log[a] \notin Replies /\ ask[a].failed = FALSE
  BY NoneAssumption DEF Init, DeskInit, NoAsk, Replies
<1>4. /\ \A s \in Scorers : Sampled(s) = {}
      /\ \A a \in Asks : scores[a] = 0
  BY DEF Init, Sampled
<1> QED BY <1>1, <1>2, <1>3, <1>4 DEF LiveInv, Answered, Judged, Contention

(* An ask that goes on disturbs no score: what is logged is final.         *)
LEMMA DeskKeepsScores ==
    ASSUME LiveInv, NEW a \in Asks, Advances(a),
           UNCHANGED <<sample, runs, scores, contended>>
    PROVE  LiveInv'
<1>1. DeskInv'
  BY StepDesk DEF LiveInv
<1>2. \A b \in Asks : log[b] \in Replies
                         => log'[b] = log[b] /\ ask'[b] = ask[b]
  <2>1. SUFFICES ASSUME NEW b \in Asks, log[b] \in Replies
                 PROVE  log'[b] = log[b] /\ ask'[b] = ask[b]
    OBVIOUS
  <2>2. b # a
    BY <2>1 DEF LiveInv, Answered, Advances
  <2> QED BY <2>2 DEF Advances, Logs, LiveInv, DeskInv, DeskTypes
<1>3. Answered'
  <2>1. SUFFICES ASSUME NEW b \in Asks
                 PROVE  /\ log'[b] \in Replies => ask'[b].step = "done"
                                                  /\ ask'[b].result = log'[b]
                        /\ ~(ask'[b].result = "answer" /\ ask'[b].failed)
    BY DEF Answered
  <2>2. CASE b # a
    BY <2>2 DEF Advances, Logs, LiveInv, Answered, DeskInv, DeskTypes
  <2>3. CASE b = a
    BY <1>2, <2>3 DEF Advances, Logs, LiveInv, Answered, DeskInv, DeskTypes
  <2> QED BY <2>2, <2>3
<1>4. \A s \in Scorers : Sampled(s)' = Sampled(s)
  BY DEF Sampled
<1>5. Judged' /\ Contention' /\ LiveTypes'
  BY <1>2, <1>4 DEF LiveInv, LiveTypes, Judged, Contention
<1> QED BY <1>1, <1>3, <1>5 DEF LiveInv

(* A scorer samples only turns that were logged with a reply.              *)
LEMMA SampleKeepsScores ==
    ASSUME LiveInv, NEW s \in Scorers, Sample(s)
    PROVE  LiveInv'
<1>1. /\ sample[s] = None /\ sample' = [sample EXCEPT ![s] = Unscored]
      /\ contended' = contended \cup
           (Unscored \cap UNION {Sampled(t) : t \in Scorers \ {s}})
      /\ UNCHANGED <<deployment, ask, anon, count, direct, log, scores>>
  BY DEF Sample
<1>2. DeskInv' /\ Answered'
  BY <1>1, StandDesk DEF LiveInv, Answered
<1>3. LiveTypes'
  BY <1>1 DEF LiveInv, LiveTypes, Unscored
<1>4. /\ \A t \in Scorers \ {s} : Sampled(t)' = Sampled(t)
      /\ Sampled(s)' \subseteq Unscored
  <2>1. \A t \in Scorers : sample'[t] = IF t = s THEN Unscored ELSE sample[t]
    BY <1>1 DEF LiveInv, LiveTypes
  <2> QED BY <2>1 DEF Sampled
<1>5. \A a \in Unscored : log[a] \in Replies /\ scores[a] = 0
  BY DEF Unscored, Replies
<1>6. Judged'
  BY <1>1, <1>4, <1>5 DEF LiveInv, Judged
<1>7. Contention'
  <2>1. SUFFICES ASSUME NEW a \in Asks
                 PROVE  /\ \A t, u \in Scorers :
                              t # u /\ a \in Sampled(t)' /\ a \in Sampled(u)'
                                 => a \in contended'
                        /\ \A t \in Scorers :
                              scores'[a] > 0 /\ a \in Sampled(t)'
                                 => a \in contended'
                        /\ scores'[a] > 1 => a \in contended'
    BY DEF Contention
  <2>2. contended \subseteq contended'
    BY <1>1
  <2>3. \A t \in Scorers \ {s} :
           a \in Sampled(s)' /\ a \in Sampled(t)' => a \in contended'
    BY <1>1, <1>4
  <2> QED BY <1>1, <1>4, <1>5, <2>2, <2>3 DEF LiveInv, Contention
<1> QED BY <1>2, <1>3, <1>6, <1>7 DEF LiveInv

(* A scorer writes scores of what it sampled; a second score was           *)
(* contended.                                                              *)
LEMMA ScoreKeepsScores ==
    ASSUME LiveInv, NEW s \in Scorers, Score(s)
    PROVE  LiveInv'
<1>1. PICK judged \in SUBSET sample[s] :
         scores' = [a \in Asks |-> scores[a] + IF a \in judged THEN 1 ELSE 0]
  BY DEF Score
<1>2. /\ sample[s] # None /\ sample' = [sample EXCEPT ![s] = None]
      /\ UNCHANGED <<deployment, ask, anon, count, direct, log, runs,
                     contended>>
  BY DEF Score
<1>3. DeskInv' /\ Answered'
  BY <1>2, StandDesk DEF LiveInv, Answered
<1>4. \A a \in Asks : scores[a] \in Nat
  BY DEF LiveInv, LiveTypes
<1>5. LiveTypes'
  <2>1. ASSUME NEW a \in Asks
        PROVE  scores[a] + (IF a \in judged THEN 1 ELSE 0) \in Nat
    BY <1>4
  <2> QED BY <1>1, <1>2, <2>1 DEF LiveInv, LiveTypes
<1>6. /\ \A t \in Scorers \ {s} : Sampled(t)' = Sampled(t)
      /\ Sampled(s)' = {} /\ Sampled(s) = sample[s]
  <2>1. \A t \in Scorers : sample'[t] = IF t = s THEN None ELSE sample[t]
    BY <1>2 DEF LiveInv, LiveTypes
  <2> QED BY <1>2, <2>1 DEF Sampled
<1>7. \A a \in Asks : \/ scores'[a] = scores[a]
                      \/ a \in Sampled(s) /\ scores'[a] = scores[a] + 1
  <2>1. SUFFICES ASSUME NEW a \in Asks
                 PROVE  \/ scores'[a] = scores[a]
                        \/ a \in Sampled(s) /\ scores'[a] = scores[a] + 1
    OBVIOUS
  <2>2. CASE a \in judged
    BY <1>1, <1>6, <2>2
  <2>3. CASE a \notin judged
    BY <1>1, <1>4, <2>3
  <2> QED BY <2>2, <2>3
<1>8. Judged'
  BY <1>2, <1>6, <1>7 DEF LiveInv, Judged
<1>9. Contention'
  <2>1. SUFFICES ASSUME NEW a \in Asks
                 PROVE  /\ \A t, u \in Scorers :
                              t # u /\ a \in Sampled(t)' /\ a \in Sampled(u)'
                                 => a \in contended
                        /\ \A t \in Scorers :
                              scores'[a] > 0 /\ a \in Sampled(t)'
                                 => a \in contended
                        /\ scores'[a] > 1 => a \in contended
    BY <1>2 DEF Contention
  <2>2. \A t \in Scorers : a \in Sampled(t)' => t # s /\ a \in Sampled(t)
    BY <1>6
  <2>3. scores[a] = 0 \/ scores[a] > 0
    BY <1>4
  <2> QED BY <1>4, <1>7, <2>2, <2>3 DEF LiveInv, Contention
<1> QED BY <1>3, <1>5, <1>8, <1>9 DEF LiveInv

(* A score is of a turn that was answered, or that failed in the form of   *)
(* an answer without one; and a turn is scored twice only if two scorers   *)
(* held it at once (live_eval.py), for any set of scorers and of turns.    *)
THEOREM ScoresAreAlwaysOfAnswers == Spec => []ScoresAreOfAnswers
<1>1. LiveInv /\ [Next]_vars => LiveInv'
  <2> SUFFICES ASSUME LiveInv, [Next]_vars PROVE LiveInv'
    OBVIOUS
  <2>1. CASE /\ UNCHANGED <<deployment, ask, count, direct, log>>
             /\ UNCHANGED <<sample, runs, scores, contended>>
    BY <2>1, StandDesk
    DEF LiveInv, LiveTypes, Answered, Judged, Contention, Sampled
  <2>2. CASE DeskNext /\ UNCHANGED <<sample, runs, scores, contended>>
    <3>1. DeskTypes /\ Detouring
      BY DEF LiveInv, DeskInv
    <3> QED BY <2>1, <2>2, <3>1, DeskGoes, DeskKeepsScores
  <2> QED BY <2>1, <2>2, SampleKeepsScores, ScoreKeepsScores DEF Next, vars
<1>2. LiveInv => ScoresAreOfAnswers
  BY DEF LiveInv, Answered, Judged, Contention, Replies, ScoresAreOfAnswers,
         DeskInv, DeskTypes, AskType
<1> QED BY <1>1, <1>2, InitLiveInv, PTL DEF Spec

(***************************************************************************)
(* Signing in and out.  A token saved in peace is safe as long as no       *)
(* sign-out of its user is in flight, and a sign-out that nothing          *)
(* disturbed leaves, stage by stage, nothing behind.                       *)
(***************************************************************************)
\* Since it was last saved in peace, nothing of the user's sign-outs is left
\* in flight that could take the token away.
SavedInPeace ==
    \A u \in Users : ~upset[u] =>
        /\ grant[u] # 0 /\ stored[u] = grant[u]
        /\ \A r \in InFlight(u) : request[r].stage \notin SigningOut

\* How far a sign-out that nothing disturbed has come.
Forgetting(r) ==
    LET u == request[r].user IN
    /\ InFlight(u) = {r}
    /\ request[r].stage = "revoke" => grant[u] \in {0, request[r].token}
    /\ request[r].stage \in {"delete", "ended"} => grant[u] = 0
    /\ request[r].stage = "ended" => stored[u] = 0

SignOutsForget ==
    \A r \in Requests : request[r].stage \in SigningOut =>
        /\ request[r].user # Nobody
        /\ request[r].ok => Forgetting(r)

Busy == \A r \in Requests :
            request[r].stage # "idle" => request[r].user \in Users

SignInv == SignTypeOK /\ Busy /\ SavedInPeace /\ SignOutsForget

(* Nobody is signed in at the start and no request is in flight.           *)
LEMMA InitSignInv == SignInit => SignInv
<1> SUFFICES ASSUME SignInit PROVE SignInv
  OBVIOUS
<1>1. SignTypeOK
  BY MaxGrantsAssumption
  DEF SignInit, SignTypeOK, SignedOut, Idle, Tokens, Stages
<1>2. Busy /\ SavedInPeace /\ SignOutsForget
  BY DEF SignInit, Busy, SavedInPeace, SignOutsForget, SigningOut, Idle
<1> QED BY <1>1, <1>2 DEF SignInv

RequestType == [stage : Stages, user : Users \cup {Nobody}, token : Tokens,
                valid : BOOLEAN, ok : BOOLEAN]

(* No step leaves the types, and a request in flight has a user.           *)
LEMMA SignTypeStep == SignTypeOK /\ Busy /\ SignNext => SignTypeOK' /\ Busy'
<1> SUFFICES ASSUME SignTypeOK, Busy, SignNext PROVE SignTypeOK' /\ Busy'
  OBVIOUS
<1> USE DEF SignTypeOK, Busy
<1>i. /\ Idle \in RequestType
      /\ SignedOut \in [user : Users \cup {Nobody}, valid : BOOLEAN,
                        told : BOOLEAN, access : Users \cup {Nobody},
                        fresh : BOOLEAN]
      /\ request \in [Requests -> RequestType]
  BY MaxGrantsAssumption DEF Idle, SignedOut, RequestType, Tokens, Stages
<1>b. ASSUME NEW r \in Requests, NEW s \in Stages, NEW u \in Users,
             NEW ok \in BOOLEAN, Begin(r, s, u, ok)
      PROVE  /\ request' \in [Requests -> RequestType]
             /\ \A q \in Requests :
                   request'[q].stage # "idle" => request'[q].user \in Users
  <2>1. [Idle EXCEPT !.stage = s, !.user = u, !.ok = ok, !.valid = tab.valid]
            \in RequestType
    BY <1>i DEF RequestType, Idle
  <2>2. \A q \in Requests :
            /\ request[q] \in RequestType
            /\ [request[q] EXCEPT !.ok = FALSE] \in RequestType
    BY <1>i DEF RequestType
  <2> QED BY <1>b, <2>1, <2>2 DEF Begin
<1>g. ASSUME NEW r \in Requests, NEW s \in Stages, Goes(r, s) \/ Fails(r, s),
             request[r].stage # "idle"
      PROVE  /\ request' \in [Requests -> RequestType]
             /\ \A q \in Requests :
                   request'[q].stage # "idle" => request'[q].user \in Users
  BY <1>i, <1>g DEF Goes, Fails, RequestType
<1>e. ASSUME NEW r \in Requests, Ends(r)
      PROVE  /\ request' \in [Requests -> RequestType]
             /\ \A q \in Requests :
                   request'[q].stage # "idle" => request'[q].user \in Users
  BY <1>i, <1>e DEF Ends, Idle
<1>s. /\ {"code", "save", "exchanged", "load", "refresh", "refreshed",
          "popup", "signout", "revoke", "delete", "ended"} \subseteq Stages
  BY DEF Stages
<1>1. CASE AccessExpires \/ IdExpires
  BY <1>1 DEF AccessExpires, IdExpires
<1>2. ASSUME NEW u \in Users, Withdraw(u) PROVE SignTypeOK' /\ Busy'
  BY <1>2, MaxGrantsAssumption DEF Withdraw, Tokens
<1>3. ASSUME NEW r \in Requests, NEW u \in Users,
             SignInWithCode(r, u) \/ OnGoogleCred(r, u)
      PROVE  SignTypeOK' /\ Busy'
  <2>1. /\ request' \in [Requests -> RequestType]
        /\ \A q \in Requests :
              request'[q].stage # "idle" => request'[q].user \in Users
    BY <1>3, <1>b, <1>s, <1>i DEF SignInWithCode, OnGoogleCred
  <2> QED BY <1>3, <2>1 DEF SignInWithCode, OnGoogleCred, RequestType
<1>4. ASSUME NEW r \in Requests, ExchangeCode(r) PROVE SignTypeOK' /\ Busy'
  <2> DEFINE u == request[r].user
             first == grant[u] = 0
             next == IF first THEN issued[u] + 1 ELSE issued[u]
  <2>1. \/ Ends(r) /\ UNCHANGED <<grant, issued>>
        \/ /\ first => issued[u] < MaxGrants
           /\ issued' = [issued EXCEPT ![u] = next]
           /\ grant' = [grant EXCEPT ![u] = IF first THEN issued'[u] ELSE @]
           /\ \/ Ends(r)
              \/ request' = [request EXCEPT
                    ![r].stage = "save",
                    ![r].token = IF first THEN issued'[u] ELSE 0]
    BY <1>4 DEF ExchangeCode
  <2>2. UNCHANGED <<tab, stored, upset, codeFlow>>
    BY <1>4 DEF ExchangeCode
  <2>3. CASE Ends(r) /\ UNCHANGED <<grant, issued>>
    BY <1>e, <2>2, <2>3 DEF RequestType
  <2>4. ASSUME first => issued[u] < MaxGrants,
               issued' = [issued EXCEPT ![u] = next],
               grant' = [grant EXCEPT ![u] = IF first THEN issued'[u] ELSE @],
               \/ Ends(r)
               \/ request' = [request EXCEPT
                     ![r].stage = "save",
                     ![r].token = IF first THEN issued'[u] ELSE 0]
        PROVE  SignTypeOK' /\ Busy'
    <3>1. \A v \in Users : issued[v] \in 0 .. MaxGrants
      BY DEF Tokens
    <3>0. u \in Users
      BY <1>4 DEF ExchangeCode
    <3>2. next \in Tokens
      BY <2>4, <3>0, <3>1, MaxGrantsAssumption DEF Tokens
    <3> HIDE DEF next, u
    <3>3. issued' \in [Users -> Tokens]
      BY <2>4, <3>2
    <3>4. issued'[u] \in Tokens
      BY <3>0, <3>3
    <3>5. grant' \in [Users -> Tokens]
      BY <2>4, <3>4
    <3>6. (IF first THEN issued'[u] ELSE 0) \in Tokens
      BY <3>4, MaxGrantsAssumption DEF Tokens
    <3>7. /\ request' \in [Requests -> RequestType]
          /\ \A q \in Requests :
                request'[q].stage # "idle" => request'[q].user \in Users
      <4>1. CASE Ends(r)
        BY <1>e, <4>1
      <4>2. CASE ~Ends(r)
        BY <1>i, <1>s, <2>4, <3>6, <3>0, <4>2 DEF RequestType, u
      <4> QED BY <4>1, <4>2
    <3> QED BY <2>2, <3>3, <3>5, <3>7 DEF RequestType
  <2> QED BY <2>1, <2>3, <2>4
<1>5. ASSUME NEW r \in Requests, Save(r) PROVE SignTypeOK' /\ Busy'
  <2>1. request[r].user \in Users /\ request[r].token \in Tokens
    BY <1>5 DEF Save
  <2>2. /\ request' \in [Requests -> RequestType]
        /\ \A q \in Requests :
              request'[q].stage # "idle" => request'[q].user \in Users
    <3>1. \/ request' = [request EXCEPT ![r].stage = "exchanged",
                                        ![r].ok = request[r].token # 0]
          \/ Fails(r, "exchanged")
      BY <1>5 DEF Save
    <3>2. CASE Fails(r, "exchanged")
      BY <1>5, <1>g, <1>s, <3>2 DEF Save
    <3>3. CASE request' = [request EXCEPT ![r].stage = "exchanged",
                                          ![r].ok = request[r].token # 0]
      BY <1>i, <1>s, <2>1, <3>3 DEF RequestType
    <3> QED BY <3>1, <3>2, <3>3
  <2>3. stored' \in [Users -> Tokens]
    BY <1>5, <2>1 DEF Save
  <2>4. upset' \in [Users -> BOOLEAN]
    BY <1>5, <2>1 DEF Save
  <2>5. UNCHANGED <<tab, grant, issued, codeFlow>>
    BY <1>5 DEF Save
  <2> QED BY <2>2, <2>3, <2>4, <2>5 DEF RequestType
<1>6. ASSUME NEW r \in Requests, Exchanged(r) PROVE SignTypeOK' /\ Busy'
  <2>1. request[r].user \in Users
    BY <1>6 DEF Exchanged
  <2>2. Ends(r) /\ UNCHANGED <<grant, issued, stored, upset, codeFlow>>
    BY <1>6 DEF Exchanged
  <2>3. tab' \in [user : Users \cup {Nobody}, valid : BOOLEAN, told : BOOLEAN,
                  access : Users \cup {Nobody}, fresh : BOOLEAN]
    <3>1. CASE UNCHANGED tab
      BY <3>1
    <3>2. ASSUME NEW access \in {request[r].user, Nobody},
                 tab' = [user |-> request[r].user, valid |-> TRUE,
                         told |-> request[r].ok, access |-> access,
                         fresh |-> access = request[r].user]
          PROVE  tab' \in [user : Users \cup {Nobody}, valid : BOOLEAN,
                           told : BOOLEAN, access : Users \cup {Nobody},
                           fresh : BOOLEAN]
      <4>1. access \in Users \cup {Nobody} /\ request[r].ok \in BOOLEAN
        BY <2>1
      <4>2. (access = request[r].user) \in BOOLEAN
        OBVIOUS
      <4> QED BY <2>1, <3>2, <4>1, <4>2
    <3> QED BY <1>6, <3>1, <3>2 DEF Exchanged
  <2> QED BY <1>e, <2>2, <2>3 DEF RequestType
<1>7. ASSUME NEW r \in Requests, EnsureAccessToken(r)
      PROVE  SignTypeOK' /\ Busy'
  <2>1. tab.user \in Users
    BY <1>7 DEF EnsureAccessToken
  <2>2. \E s \in Stages : Begin(r, s, tab.user, FALSE)
    BY <1>7, <1>s DEF EnsureAccessToken
  <2>3. /\ request' \in [Requests -> RequestType]
        /\ \A q \in Requests :
              request'[q].stage # "idle" => request'[q].user \in Users
    BY <1>b, <2>1, <2>2
  <2> QED BY <1>7, <2>3 DEF EnsureAccessToken, RequestType
<1>8. ASSUME NEW r \in Requests, Load(r) \/ BeginSignOut(r)
      PROVE  SignTypeOK' /\ Busy'
  <2>1. request[r].user \in Users /\ request[r].stage # "idle"
    BY <1>8 DEF Load, BeginSignOut
  <2>2. \/ \E s \in Stages : Goes(r, s) \/ Fails(r, s)
        \/ \E rec \in RequestType :
              /\ request' = [request EXCEPT ![r] = rec]
              /\ rec.user = request[r].user
    <3>1. CASE Load(r)
      <4> DEFINE found == stored[request[r].user]
                 rec == [request[r] EXCEPT !.stage = "refresh",
                                           !.token = found]
      <4>1. CASE Goes(r, "popup")
        BY <1>s, <4>1
      <4>2. CASE ~Goes(r, "popup")
        <5>1. request' = [request EXCEPT ![r] = rec]
          BY <3>1, <4>2 DEF Load
        <5>2. found \in Tokens
          BY <2>1
        <5>3. rec \in RequestType /\ rec.user = request[r].user
          BY <1>i, <1>s, <5>2 DEF RequestType
        <5> HIDE DEF rec
        <5> QED BY <5>1, <5>3
      <4> QED BY <4>1, <4>2
    <3>2. CASE BeginSignOut(r)
      <4>1. CASE Fails(r, "ended")
        BY <1>s, <4>1
      <4>2. CASE ~Fails(r, "ended")
        <5>1. PICK found \in {0, stored[request[r].user]} :
                request' = [request EXCEPT
                    ![r].stage = AfterLoad(found), ![r].token = found,
                    ![r].ok = @ /\ found = grant[request[r].user]]
          BY <3>2, <4>2 DEF BeginSignOut
        <5> DEFINE rec ==
                [request[r] EXCEPT
                    !.stage = AfterLoad(found), !.token = found,
                    !.ok = @ /\ found = grant[request[r].user]]
        <5>2. found \in Tokens /\ AfterLoad(found) \in Stages
          BY <1>s, <2>1, MaxGrantsAssumption DEF Tokens, AfterLoad
        <5>3. rec \in RequestType /\ rec.user = request[r].user
          BY <1>i, <5>2 DEF RequestType
        <5>4. request' = [request EXCEPT ![r] = rec]
          BY <1>i, <5>1 DEF RequestType
        <5> HIDE DEF rec
        <5> QED BY <5>3, <5>4
      <4> QED BY <4>1, <4>2
    <3> QED BY <1>8, <3>1, <3>2
  <2>3. /\ request' \in [Requests -> RequestType]
        /\ \A q \in Requests :
              request'[q].stage # "idle" => request'[q].user \in Users
    <3>1. CASE \E s \in Stages : Goes(r, s) \/ Fails(r, s)
      BY <1>g, <2>1, <3>1
    <3>2. ASSUME NEW rec \in RequestType, rec.user = request[r].user,
                 request' = [request EXCEPT ![r] = rec]
          PROVE  /\ request' \in [Requests -> RequestType]
                 /\ \A q \in Requests : request'[q].stage # "idle" =>
                                            request'[q].user \in Users
      BY <1>i, <2>1, <3>2
    <3> QED BY <2>2, <3>1, <3>2
  <2> QED BY <1>8, <2>3 DEF Load, BeginSignOut, RequestType
<1>9. ASSUME NEW r \in Requests,
             RefreshAccessToken(r) \/ Refreshed(r) \/ Popup(r) \/ Ended(r)
      PROVE  SignTypeOK' /\ Busy'
  <2>1. request[r].user \in Users /\ request[r].stage # "idle"
    BY <1>9 DEF RefreshAccessToken, Refreshed, Popup, Ended
  <2>2. Goes(r, "popup") \/ Goes(r, "refreshed") \/ Ends(r)
    BY <1>9 DEF RefreshAccessToken, Refreshed, Popup, Ended, Takes
  <2>3. tab' \in [user : Users \cup {Nobody}, valid : BOOLEAN, told : BOOLEAN,
                  access : Users \cup {Nobody}, fresh : BOOLEAN]
    BY <1>9, <2>1
    DEF RefreshAccessToken, Refreshed, Popup, Ended, Takes
  <2>4. UNCHANGED <<grant, issued, stored, upset, codeFlow>>
    BY <1>9 DEF RefreshAccessToken, Refreshed, Popup, Ended
  <2>5. /\ request' \in [Requests -> RequestType]
        /\ \A q \in Requests :
              request'[q].stage # "idle" => request'[q].user \in Users
    BY <1>e, <1>g, <1>s, <2>1, <2>2
  <2> QED BY <2>3, <2>4, <2>5 DEF RequestType
<1>10. ASSUME NEW r \in Requests, SignOut(r) PROVE SignTypeOK' /\ Busy'
  <2>1. tab.user \in Users /\ (InFlight(tab.user) = {}) \in BOOLEAN
    BY <1>10 DEF SignOut
  <2>2. /\ request' \in [Requests -> RequestType]
        /\ \A q \in Requests :
              request'[q].stage # "idle" => request'[q].user \in Users
    BY <1>10, <1>b, <1>s, <1>i, <2>1 DEF SignOut
  <2>3. upset' \in [Users -> BOOLEAN]
    BY <1>10 DEF SignOut
  <2> QED BY <1>10, <1>i, <2>2, <2>3 DEF SignOut, RequestType
<1>11. ASSUME NEW r \in Requests, RevokeAtGoogle(r) \/ Delete(r)
       PROVE  SignTypeOK' /\ Busy'
  <2>1. request[r].user \in Users /\ request[r].stage # "idle"
    BY <1>11 DEF RevokeAtGoogle, Delete
  <2>2. \E s \in Stages : Goes(r, s) \/ Fails(r, s)
    BY <1>11, <1>s DEF RevokeAtGoogle, Delete
  <2>3. /\ request' \in [Requests -> RequestType]
        /\ \A q \in Requests :
              request'[q].stage # "idle" => request'[q].user \in Users
    BY <1>g, <2>1, <2>2
  <2>4. 0 \in Tokens
    BY MaxGrantsAssumption DEF Tokens
  <2>5. grant' \in [Users -> Tokens] /\ stored' \in [Users -> Tokens]
    BY <1>11, <2>4 DEF RevokeAtGoogle, Delete
  <2>6. UNCHANGED <<tab, issued, upset, codeFlow>>
    BY <1>11 DEF RevokeAtGoogle, Delete
  <2> QED BY <2>3, <2>5, <2>6 DEF RequestType
<1> QED BY <1>1, <1>2, <1>3, <1>4, <1>5, <1>6, <1>7, <1>8, <1>9, <1>10,
           <1>11 DEF SignNext

\* A request goes on as rec, and touches the tokens of its own user only.
Alters(r, rec) ==
    /\ rec \in RequestType
    /\ request' = [request EXCEPT ![r] = rec]
    /\ rec.user \in {request[r].user, Nobody}
    /\ \A v \in Users \ {request[r].user} :
          grant'[v] = grant[v] /\ stored'[v] = stored[v]

(* A request that goes on, fails or ends changes its own record only.      *)
LEMMA GoingOn ==
    ASSUME SignTypeOK, NEW r \in Requests, NEW s \in Stages,
           UNCHANGED <<grant, stored>>
    PROVE  /\ Goes(r, s) => Alters(r, [request[r] EXCEPT !.stage = s])
           /\ Fails(r, s) =>
                Alters(r, [request[r] EXCEPT !.stage = s, !.ok = FALSE])
           /\ Ends(r) => Alters(r, Idle)
<1>1. /\ Idle \in RequestType /\ request[r] \in RequestType
      /\ request \in [Requests -> RequestType]
  BY MaxGrantsAssumption DEF SignTypeOK, Idle, RequestType, Tokens, Stages
<1>2. /\ [request[r] EXCEPT !.stage = s] \in RequestType
      /\ [request[r] EXCEPT !.stage = s, !.ok = FALSE] \in RequestType
      /\ [request[r] EXCEPT !.stage = s].user = request[r].user
      /\ [request[r] EXCEPT !.stage = s, !.ok = FALSE].user
            = request[r].user
  BY <1>1 DEF RequestType
<1>3. Goes(r, s) => request' = [request EXCEPT
                        ![r] = [request[r] EXCEPT !.stage = s]]
  BY <1>1 DEF Goes
<1>4. Fails(r, s) => request' = [request EXCEPT
                        ![r] = [request[r] EXCEPT !.stage = s, !.ok = FALSE]]
  BY <1>1 DEF Fails
<1> QED BY <1>1, <1>2, <1>3, <1>4 DEF Alters, Ends, Idle

(* While a sign-out goes on undisturbed, what the requests of other users  *)
(* do does not disturb it.                                                 *)
LEMMA OthersForget ==
    ASSUME SignInv, NEW r \in Requests, NEW rec, Alters(r, rec),
           rec.stage \in SigningOut =>
              /\ request[r].stage \in SigningOut
              /\ rec.user = request[r].user
              /\ rec.ok =>
                    /\ request[r].ok
                    /\ rec.stage = "revoke" =>
                          grant'[rec.user] \in {0, rec.token}
                    /\ rec.stage \in {"delete", "ended"} =>
                          grant'[rec.user] = 0
                    /\ rec.stage = "ended" => stored'[rec.user] = 0
    PROVE  SignOutsForget'
<1>1. request \in [Requests -> RequestType]
  BY DEF SignInv, SignTypeOK, RequestType
<1>2. request'[r] = rec /\ \A q \in Requests \ {r} : request'[q] = request[q]
  BY <1>1 DEF Alters
<1>3. ASSUME NEW u \in Users, u # Nobody, NEW q \in Requests,
             InFlight(u) = {q}, q = r => rec.user = u
      PROVE  InFlight(u)' = {q}
  <2>1. \A o \in Requests : request[o].user = u <=> o = q
    BY <1>3 DEF InFlight
  <2>2. \A o \in Requests : request'[o].user = u <=> o = q
    BY <1>2, <1>3, <2>1 DEF Alters
  <2> QED BY <2>2 DEF InFlight
<1>4. SUFFICES ASSUME NEW q \in Requests, request'[q].stage \in SigningOut
               PROVE  /\ request'[q].user # Nobody
                      /\ request'[q].ok => Forgetting(q)'
  BY DEF SignOutsForget
<1>5. CASE q = r
  <2>1. request[r].user # Nobody /\ request[r].user \in Users
        /\ (request[r].ok => Forgetting(r))
    BY <1>2, <1>4, <1>5 DEF SignInv, SignOutsForget, Busy, SigningOut
  <2>2. rec.ok => InFlight(rec.user) = {r}
    BY <1>2, <1>4, <1>5, <2>1 DEF Forgetting
  <2>3. rec.ok => InFlight(rec.user)' = {r}
    BY <1>2, <1>3, <1>4, <1>5, <2>1, <2>2
  <2> QED BY <1>2, <1>4, <1>5, <2>1, <2>3 DEF Forgetting
<1>6. CASE q # r
  <2>1. /\ request'[q] = request[q] /\ request[q].user \in Users
        /\ request[q].user # Nobody
        /\ request[q].ok => Forgetting(q)
    BY <1>2, <1>4, <1>6 DEF SignInv, SignOutsForget, Busy, SigningOut
  <2>2. ASSUME request[q].ok PROVE Forgetting(q)'
    <3>1. InFlight(request[q].user) = {q}
      BY <2>1, <2>2 DEF Forgetting
    <3>2. InFlight(request[q].user)' = {q}
      BY <1>3, <1>6, <2>1, <3>1
    <3>3. request[q].user # request[r].user
      BY <1>6, <3>1 DEF InFlight
    <3>4. /\ grant'[request[q].user] = grant[request[q].user]
          /\ stored'[request[q].user] = stored[request[q].user]
      BY <2>1, <3>3 DEF Alters
    <3> QED BY <2>1, <2>2, <3>2, <3>4 DEF Forgetting
  <2> QED BY <2>1, <2>2
<1> QED BY <1>5, <1>6

(* A request that begins disturbs a sign-out of its user, and one that     *)
(* begins as a sign-out beside others is disturbed from the start.         *)
LEMMA BeginningForgets ==
    ASSUME SignInv, NEW r \in Requests, NEW s \in Stages, NEW u \in Users,
           NEW ok \in BOOLEAN, Begin(r, s, u, ok),
           UNCHANGED <<grant, stored>>,
           s \in SigningOut =>
              s = "signout" /\ u # Nobody /\ (ok => InFlight(u) = {})
    PROVE  SignOutsForget'
<1>1. request \in [Requests -> RequestType]
  BY DEF SignInv, SignTypeOK, RequestType
<1>2. /\ request'[r].stage = s /\ request'[r].user = u /\ request'[r].ok = ok
      /\ \A q \in Requests \ {r} :
            /\ request'[q].stage = request[q].stage
            /\ request'[q].user = request[q].user
            /\ request'[q].token = request[q].token
            /\ request'[q].ok => request[q].ok
            /\ request'[q].ok /\ request[q].stage \in SigningOut
                  => request[q].user # u
  <2>1. request'[r] = [Idle EXCEPT !.stage = s, !.user = u, !.ok = ok,
                                   !.valid = tab.valid]
    BY DEF Begin
  <2>2. /\ request'[r].stage = s /\ request'[r].user = u
        /\ request'[r].ok = ok
    BY <2>1 DEF Idle
  <2>3. ASSUME NEW q \in Requests \ {r}
        PROVE  /\ request'[q].stage = request[q].stage
               /\ request'[q].user = request[q].user
               /\ request'[q].token = request[q].token
               /\ request'[q].ok => request[q].ok
               /\ request'[q].ok /\ request[q].stage \in SigningOut
                     => request[q].user # u
    <3>1. request'[q] = IF request[q].user = u
                           /\ request[q].stage \in SigningOut
                        THEN [request[q] EXCEPT !.ok = FALSE]
                        ELSE request[q]
      BY DEF Begin
    <3>2. request[q] \in RequestType
      BY <1>1
    <3> QED BY <3>1, <3>2 DEF RequestType
  <2> QED BY <2>2, <2>3
<1>3. SUFFICES ASSUME NEW q \in Requests, request'[q].stage \in SigningOut
               PROVE  /\ request'[q].user # Nobody
                      /\ request'[q].ok => Forgetting(q)'
  BY DEF SignOutsForget
<1>4. CASE q = r
  <2>1. request'[r].ok => InFlight(u)' = {r}
    <3>1. SUFFICES ASSUME ok PROVE InFlight(u)' = {r}
      BY <1>2
    <3>2. \A o \in Requests : request[o].user # u
      BY <1>2, <1>3, <1>4, <3>1 DEF InFlight
    <3>3. \A o \in Requests : request'[o].user = u <=> o = r
      BY <1>2, <3>2
    <3> QED BY <3>3 DEF InFlight
  <2> QED BY <1>2, <1>3, <1>4, <2>1 DEF Forgetting
<1>5. CASE q # r
  <2>1. /\ request[q].stage \in SigningOut /\ request[q].user # Nobody
        /\ request[q].ok => Forgetting(q)
    BY <1>2, <1>3, <1>5 DEF SignInv, SignOutsForget
  <2>2. ASSUME request'[q].ok PROVE Forgetting(q)'
    <3>1. InFlight(request[q].user) = {q} /\ request[q].user # u
      BY <1>2, <1>5, <2>1, <2>2 DEF Forgetting
    <3>2. \A o \in Requests : request[o].user = request[q].user <=> o = q
      BY <3>1 DEF InFlight
    <3>3. \A o \in Requests :
                request'[o].user = request'[q].user <=> o = q
      BY <1>2, <1>5, <3>1, <3>2
    <3>4. InFlight(request[q].user)' = {q}
      BY <1>2, <1>5, <3>3 DEF InFlight
    <3> QED BY <1>2, <1>5, <2>1, <2>2, <3>4 DEF Forgetting
  <2> QED BY <1>2, <1>5, <2>1, <2>2
<1> QED BY <1>4, <1>5

(* A token saved in peace stays as it is whatever the requests in flight   *)
(* do, unless one of them is a sign-out of the same user.                  *)
LEMMA AlteringKeepsPeace ==
    ASSUME SignInv, NEW r \in Requests, NEW rec, Alters(r, rec),
           UNCHANGED upset,
           rec.stage \in SigningOut =>
              request[r].stage \in SigningOut /\ rec.user = request[r].user,
           \/ request[r].stage \in SigningOut
           \/ /\ UNCHANGED stored
              /\ \A v \in Users : grant[v] # 0 => grant'[v] = grant[v]
    PROVE  SavedInPeace'
<1>1. request'[r] = rec /\ \A q \in Requests \ {r} : request'[q] = request[q]
  BY DEF Alters, SignInv, SignTypeOK
<1>2. SUFFICES ASSUME NEW u \in Users, ~upset[u]
               PROVE  /\ grant'[u] # 0 /\ stored'[u] = grant'[u]
                      /\ \A q \in Requests : request'[q].user = u =>
                            request'[q].stage \notin SigningOut
  BY DEF SavedInPeace, InFlight
<1>3. /\ grant[u] # 0 /\ stored[u] = grant[u]
      /\ \A q \in Requests : request[q].user = u =>
            request[q].stage \notin SigningOut
  BY <1>2 DEF SignInv, SavedInPeace, InFlight
<1>4. grant'[u] = grant[u] /\ stored'[u] = stored[u]
  <2>1. CASE request[r].stage \in SigningOut
    <3>1. request[r].user # u
      BY <1>3, <2>1
    <3> QED BY <3>1 DEF Alters
  <2>2. CASE request[r].stage \notin SigningOut
    BY <1>3, <2>2
  <2> QED BY <2>1, <2>2
<1> QED BY <1>1, <1>3, <1>4

(* Only a sign-out that begins can threaten a token saved in peace, and it *)
(* upsets its user as it does.                                             *)
LEMMA BeginningKeepsPeace ==
    ASSUME SignInv, NEW r \in Requests, NEW s \in Stages, NEW u \in Users,
           NEW ok \in BOOLEAN, Begin(r, s, u, ok),
           UNCHANGED <<grant, stored>>,
           \A v \in Users : ~upset'[v] => ~upset[v],
           s \in SigningOut => upset'[u]
    PROVE  SavedInPeace'
<1>1. request \in [Requests -> RequestType]
  BY DEF SignInv, SignTypeOK, RequestType
<1>2. /\ request'[r].stage = s /\ request'[r].user = u
      /\ \A q \in Requests \ {r} : /\ request'[q].stage = request[q].stage
                                   /\ request'[q].user = request[q].user
  <2>1. request'[r] = [Idle EXCEPT !.stage = s, !.user = u, !.ok = ok,
                                   !.valid = tab.valid]
    BY DEF Begin
  <2>2. ASSUME NEW q \in Requests \ {r}
        PROVE  /\ request'[q].stage = request[q].stage
               /\ request'[q].user = request[q].user
    <3>1. request'[q] \in {[request[q] EXCEPT !.ok = FALSE], request[q]}
      BY DEF Begin
    <3>2. request[q] \in RequestType
      BY <1>1
    <3> QED BY <3>1, <3>2 DEF RequestType
  <2> QED BY <2>1, <2>2 DEF Idle
<1> QED BY <1>2 DEF SignInv, SavedInPeace, InFlight

(* Every action keeps what the two properties rest on.                     *)
LEMMA SignInvStep == SignInv /\ SignNext => SignInv'
<1> SUFFICES ASSUME SignInv, SignNext PROVE SavedInPeace' /\ SignOutsForget'
  BY SignTypeStep DEF SignInv
<1>t. SignTypeOK /\ Busy /\ request \in [Requests -> RequestType]
  BY DEF SignInv, SignTypeOK, RequestType
<1>s. {"code", "save", "exchanged", "load", "refresh", "refreshed",
       "popup", "signout", "revoke", "delete", "ended"} \subseteq Stages
  BY DEF Stages
<1>n. {"code", "save", "exchanged", "load", "refresh", "refreshed",
       "popup", "idle"} \cap SigningOut = {}
  BY DEF SigningOut
<1>k. UNCHANGED <<request, grant, stored, upset>>
         => SavedInPeace' /\ SignOutsForget'
  BY DEF SignInv, SavedInPeace, SignOutsForget, Forgetting, InFlight
\* A request begins that is no sign-out.
<1>b. ASSUME NEW r \in Requests, NEW u \in Users,
             NEW s \in {"code", "load", "popup"}, Begin(r, s, u, FALSE),
             UNCHANGED <<grant, stored, upset>>
      PROVE  SavedInPeace' /\ SignOutsForget'
  BY <1>b, <1>s, <1>n, BeginningKeepsPeace, BeginningForgets
\* A request that is no sign-out goes on, or any request ends.
<1>g. ASSUME NEW r \in Requests, NEW rec, Alters(r, rec),
             UNCHANGED upset, UNCHANGED stored,
             \A v \in Users : grant[v] # 0 => grant'[v] = grant[v],
             rec.stage \notin SigningOut
      PROVE  SavedInPeace' /\ SignOutsForget'
  BY <1>g, AlteringKeepsPeace, OthersForget
<1>1. CASE AccessExpires \/ IdExpires
  BY <1>1, <1>k DEF AccessExpires, IdExpires
<1>2. ASSUME NEW u \in Users, Withdraw(u)
      PROVE  SavedInPeace' /\ SignOutsForget'
  <2>1. /\ grant' = [grant EXCEPT ![u] = 0] /\ UNCHANGED <<request, stored>>
        /\ upset' = [upset EXCEPT ![u] = TRUE]
    BY <1>2 DEF Withdraw
  <2>2. \A v \in Users : grant'[v] = (IF v = u THEN 0 ELSE grant[v])
    BY <1>t, <2>1 DEF SignTypeOK
  <2>3. \A v \in Users : ~upset'[v] => v # u /\ ~upset[v]
    BY <1>t, <2>1 DEF SignTypeOK
  <2>4. \A v \in Users : InFlight(v)' = InFlight(v)
    BY <2>1 DEF InFlight
  <2>5. SavedInPeace'
    BY <2>1, <2>2, <2>3, <2>4 DEF SignInv, SavedInPeace
  <2>6. ASSUME NEW q \in Requests, request[q].stage \in SigningOut
        PROVE  /\ request[q].user # Nobody
               /\ request[q].ok => Forgetting(q)'
    <3>1. /\ request[q].user # Nobody /\ request[q].user \in Users
          /\ request[q].ok => Forgetting(q)
      BY <1>t, <1>n, <2>6 DEF SignInv, SignOutsForget, Busy
    <3> QED BY <2>1, <2>2, <2>4, <3>1 DEF Forgetting
  <2> QED BY <2>1, <2>5, <2>6 DEF SignOutsForget
<1>3. ASSUME NEW r \in Requests, NEW u \in Users, SignInWithCode(r, u)
      PROVE  SavedInPeace' /\ SignOutsForget'
  BY <1>3, <1>b DEF SignInWithCode
<1>4. ASSUME NEW r \in Requests, NEW u \in Users, OnGoogleCred(r, u)
      PROVE  SavedInPeace' /\ SignOutsForget'
  BY <1>4, <1>b, <1>k DEF OnGoogleCred
<1>5. ASSUME NEW r \in Requests, ExchangeCode(r)
      PROVE  SavedInPeace' /\ SignOutsForget'
  <2> DEFINE u == request[r].user
             first == grant[u] = 0
  <2>1. UNCHANGED <<stored, upset>> /\ request[r].stage = "code"
        /\ request[r].user \in Users
    BY <1>5, <1>t DEF ExchangeCode, Busy
  <2>2. /\ \A v \in Users : grant[v] # 0 => grant'[v] = grant[v]
        /\ \A v \in Users \ {u} : grant'[v] = grant[v]
    <3>1. \/ UNCHANGED grant
          \/ grant' = [grant EXCEPT ![u] = IF first THEN issued'[u] ELSE @]
      BY <1>5 DEF ExchangeCode
    <3>2. grant \in [Users -> Tokens]
      BY <1>t DEF SignTypeOK
    <3> QED BY <2>1, <3>1, <3>2
  <2>3. \/ Ends(r)
        \/ /\ issued' \in [Users -> Tokens]
           /\ request' = [request EXCEPT
                    ![r].stage = "save",
                    ![r].token = IF first THEN issued'[u] ELSE 0]
    BY <1>5, SignTypeStep, <1>t DEF ExchangeCode, SignTypeOK
  <2>4. CASE Ends(r)
    <3>1. Alters(r, Idle)
      <4>1. Idle \in RequestType
        BY MaxGrantsAssumption DEF Idle, RequestType, Tokens, Stages
      <4> QED BY <2>1, <2>2, <2>4, <4>1 DEF Alters, Ends, Idle
    <3>2. Idle.stage \notin SigningOut
      BY <1>n DEF Idle
    <3> QED BY <1>g, <2>1, <2>2, <3>1, <3>2
  <2>5. CASE /\ issued' \in [Users -> Tokens]
             /\ request' = [request EXCEPT
                    ![r].stage = "save",
                    ![r].token = IF first THEN issued'[u] ELSE 0]
    <3> DEFINE found == IF first THEN issued'[u] ELSE 0
               rec == [request[r] EXCEPT !.stage = "save", !.token = found]
    <3>1. found \in Tokens
      BY <2>1, <2>5, MaxGrantsAssumption DEF Tokens
    <3>2. request' = [request EXCEPT ![r] = rec]
      BY <1>t, <2>5
    <3>3. rec \in RequestType /\ rec.user = request[r].user
          /\ rec.stage = "save"
      BY <1>t, <1>s, <3>1 DEF RequestType
    <3> HIDE DEF rec
    <3>4. Alters(r, rec)
      BY <2>1, <2>2, <3>2, <3>3 DEF Alters
    <3> QED BY <1>g, <1>n, <2>1, <2>2, <3>3, <3>4
  <2> QED BY <2>3, <2>4, <2>5
<1>6. ASSUME NEW r \in Requests, Save(r)
      PROVE  SavedInPeace' /\ SignOutsForget'
  <2> DEFINE u == request[r].user
             found == request[r].token
             peace == InFlight(u) = {r} /\ grant[u] = found
  <2>1. UNCHANGED grant /\ request[r].stage = "save" /\ u \in Users
    BY <1>6, <1>t DEF Save, Busy
  <2>2. \/ UNCHANGED <<stored, upset>>
        \/ /\ found # 0
           /\ stored' = [stored EXCEPT ![u] = found]
           /\ upset' = [upset EXCEPT ![u] = ~peace]
    BY <1>6 DEF Save, Saves
  <2>3. PICK rec : /\ Alters(r, rec)
                   /\ rec.stage = "exchanged"
                   /\ rec.user = request[r].user
    <3>1. \A v \in Users \ {u} : stored'[v] = stored[v]
      BY <1>t, <2>2 DEF SignTypeOK
    <3>2. \/ request' = [request EXCEPT ![r].stage = "exchanged",
                                        ![r].ok = found # 0]
          \/ Fails(r, "exchanged")
      BY <1>6 DEF Save
    <3>3. PICK ok \in BOOLEAN :
             request' = [request EXCEPT ![r].stage = "exchanged", ![r].ok = ok]
      BY <3>2 DEF Fails
    <3> DEFINE rec == [request[r] EXCEPT !.stage = "exchanged", !.ok = ok]
    <3>4. request' = [request EXCEPT ![r] = rec]
      BY <1>t, <3>3
    <3>5. rec \in RequestType /\ rec.user = request[r].user
          /\ rec.stage = "exchanged"
      BY <1>t, <1>s DEF RequestType
    <3> HIDE DEF rec
    <3>6. Alters(r, rec)
      BY <2>1, <3>1, <3>4, <3>5 DEF Alters
    <3> QED BY <3>5, <3>6
  <2>4. SignOutsForget'
    BY <1>n, <2>3, OthersForget
  <2>5. SavedInPeace'
    <3>1. CASE UNCHANGED <<stored, upset>>
      BY <1>n, <2>1, <2>3, <3>1, AlteringKeepsPeace
    <3>2. CASE /\ found # 0
               /\ stored' = [stored EXCEPT ![u] = found]
               /\ upset' = [upset EXCEPT ![u] = ~peace]
      <4>1. /\ request'[r].user = u /\ request'[r].stage = "exchanged"
            /\ \A q \in Requests \ {r} : request'[q] = request[q]
        BY <1>t, <2>3 DEF Alters
      <4>2. SUFFICES ASSUME NEW v \in Users, ~upset'[v]
                     PROVE  /\ grant'[v] # 0 /\ stored'[v] = grant'[v]
                            /\ \A q \in Requests : request'[q].user = v =>
                                  request'[q].stage \notin SigningOut
        BY DEF SavedInPeace, InFlight
      <4>3. CASE v = u
        <5>1. peace
          BY <1>t, <2>1, <3>2, <4>2, <4>3 DEF SignTypeOK
        <5>2. stored'[v] = found
          BY <1>t, <2>1, <3>2, <4>3 DEF SignTypeOK
        <5>3. \A q \in Requests : request[q].user = u => q = r
          BY <5>1 DEF InFlight
        <5> QED BY <1>n, <2>1, <3>2, <4>1, <4>3, <5>1, <5>2, <5>3
      <4>4. CASE v # u
        <5>1. ~upset[v] /\ stored'[v] = stored[v]
          BY <1>t, <3>2, <4>2, <4>4 DEF SignTypeOK
        <5> QED BY <2>1, <4>1, <4>4, <5>1
                DEF SignInv, SavedInPeace, InFlight
      <4> QED BY <4>3, <4>4
    <3> QED BY <2>2, <3>1, <3>2
  <2> QED BY <2>4, <2>5
<1>7. ASSUME NEW r \in Requests, Exchanged(r) \/ Ended(r)
      PROVE  SavedInPeace' /\ SignOutsForget'
  <2>1. Ends(r) /\ UNCHANGED <<grant, stored, upset>>
    BY <1>7 DEF Exchanged, Ended
  <2>2. Alters(r, Idle) /\ Idle.stage = "idle"
    BY <1>s, <1>t, <2>1, GoingOn DEF Idle
  <2> QED BY <1>g, <1>n, <2>1, <2>2
<1>8. ASSUME NEW r \in Requests, EnsureAccessToken(r)
      PROVE  SavedInPeace' /\ SignOutsForget'
  <2>1. tab.user \in Users
    BY <1>8, <1>t DEF EnsureAccessToken, SignTypeOK
  <2>2. \E s \in {"load", "popup"} : Begin(r, s, tab.user, FALSE)
    BY <1>8 DEF EnsureAccessToken
  <2> QED BY <1>8, <1>b, <2>1, <2>2 DEF EnsureAccessToken
<1>9. ASSUME NEW r \in Requests,
             RefreshAccessToken(r) \/ Refreshed(r) \/ Popup(r) \/ Load(r)
      PROVE  SavedInPeace' /\ SignOutsForget'
  <2>1. UNCHANGED <<grant, stored, upset>>
        /\ request[r].stage # "idle" /\ request[r].user \in Users
    BY <1>9, <1>t DEF RefreshAccessToken, Refreshed, Popup, Load, Busy
  <2>2. \/ Goes(r, "popup") \/ Goes(r, "refreshed") \/ Ends(r)
        \/ request' = [request EXCEPT ![r].stage = "refresh",
                                      ![r].token = stored[request[r].user]]
    BY <1>9 DEF RefreshAccessToken, Refreshed, Popup, Load, Takes
  <2>3. ASSUME NEW s \in {"popup", "refreshed"}, Goes(r, s)
        PROVE  SavedInPeace' /\ SignOutsForget'
    <3> DEFINE rec == [request[r] EXCEPT !.stage = s]
    <3>1. Alters(r, rec)
      BY <1>s, <1>t, <2>1, <2>3, GoingOn
    <3>2. rec.stage = s
      BY <1>t DEF RequestType
    <3> HIDE DEF rec
    <3> QED BY <1>g, <1>n, <2>1, <3>1, <3>2
  <2>4. CASE Ends(r)
    <3>1. Alters(r, Idle) /\ Idle.stage = "idle"
      BY <1>s, <1>t, <2>1, <2>4, GoingOn DEF Idle
    <3> QED BY <1>g, <1>n, <2>1, <3>1
  <2>5. CASE request' = [request EXCEPT ![r].stage = "refresh",
                                  ![r].token = stored[request[r].user]]
    <3> DEFINE found == stored[request[r].user]
               rec == [request[r] EXCEPT !.stage = "refresh",
                                         !.token = found]
    <3>1. request' = [request EXCEPT ![r] = rec]
      BY <1>t, <2>5
    <3>2. found \in Tokens
      BY <1>t, <2>1 DEF SignTypeOK
    <3>3. rec \in RequestType /\ rec.user = request[r].user
          /\ rec.stage = "refresh"
      BY <1>t, <1>s, <3>2 DEF RequestType
    <3> HIDE DEF rec
    <3>4. Alters(r, rec)
      BY <2>1, <3>1, <3>3 DEF Alters
    <3> QED BY <1>g, <1>n, <2>1, <3>3, <3>4
  <2> QED BY <2>2, <2>3, <2>4, <2>5
<1>10. ASSUME NEW r \in Requests, SignOut(r)
       PROVE  SavedInPeace' /\ SignOutsForget'
  <2> DEFINE u == tab.user
  <2>1. u \in Users /\ u # Nobody /\ UNCHANGED <<grant, stored>>
        /\ (InFlight(u) = {}) \in BOOLEAN
    BY <1>10, <1>t DEF SignOut, SignTypeOK
  <2>2. CASE UNCHANGED <<request, upset>>
    BY <1>k, <2>1, <2>2
  <2>3. CASE /\ Begin(r, "signout", u, InFlight(u) = {})
             /\ upset' = [upset EXCEPT ![u] = TRUE]
    <3>1. /\ \A v \in Users : ~upset'[v] => ~upset[v]
          /\ upset'[u]
      BY <1>t, <2>1, <2>3 DEF SignTypeOK
    <3>2. SavedInPeace'
      BY <1>s, <2>1, <2>3, <3>1, BeginningKeepsPeace
    <3>3. SignOutsForget'
      BY <1>s, <2>1, <2>3, BeginningForgets
    <3> QED BY <3>2, <3>3
  <2> QED BY <1>10, <2>2, <2>3 DEF SignOut
<1>11. ASSUME NEW r \in Requests, BeginSignOut(r)
       PROVE  SavedInPeace' /\ SignOutsForget'
  <2> DEFINE u == request[r].user
  <2>1. UNCHANGED <<grant, stored, upset>> /\ u \in Users
        /\ request[r].stage = "signout"
    BY <1>11, <1>t DEF BeginSignOut, Busy
  <2>2. request[r].stage \in SigningOut
    BY <2>1 DEF SigningOut
  <2>3. CASE Fails(r, "ended")
    <3> DEFINE rec == [request[r] EXCEPT !.stage = "ended", !.ok = FALSE]
    <3>1. Alters(r, rec)
      BY <1>s, <1>t, <2>1, <2>3, GoingOn
    <3>2. rec.user = request[r].user /\ ~rec.ok
      BY <1>t DEF RequestType
    <3> HIDE DEF rec
    <3> QED BY <2>1, <2>2, <3>1, <3>2, AlteringKeepsPeace, OthersForget
  <2>4. CASE ~Fails(r, "ended")
    <3>1. PICK found \in {0, stored[u]} :
            request' = [request EXCEPT
                ![r].stage = AfterLoad(found), ![r].token = found,
                ![r].ok = @ /\ found = grant[u]]
      BY <1>11, <2>4 DEF BeginSignOut
    <3> DEFINE rec == [request[r] EXCEPT
                         !.stage = AfterLoad(found), !.token = found,
                         !.ok = @ /\ found = grant[u]]
    <3>2. request' = [request EXCEPT ![r] = rec]
      BY <1>t, <3>1 DEF RequestType
    <3>3. found \in Tokens /\ AfterLoad(found) \in Stages
      BY <1>s, <1>t, <2>1, MaxGrantsAssumption
      DEF Tokens, AfterLoad, SignTypeOK
    <3>4. /\ rec \in RequestType /\ rec.user = u
          /\ rec.stage = AfterLoad(found) /\ rec.token = found
          /\ rec.ok => request[r].ok /\ found = grant[u]
      BY <1>t, <3>3 DEF RequestType
    <3> HIDE DEF rec
    <3>5. Alters(r, rec)
      BY <2>1, <3>2, <3>4 DEF Alters
    <3>6. /\ rec.stage \in {"revoke", "delete"}
          /\ rec.stage = "delete" => found = 0
      BY <3>4 DEF AfterLoad
    <3>7. SignOutsForget'
      BY <2>1, <2>2, <3>4, <3>5, <3>6, OthersForget
    <3>8. SavedInPeace'
      BY <2>1, <2>2, <3>4, <3>5, AlteringKeepsPeace
    <3> QED BY <3>7, <3>8
  <2> QED BY <2>3, <2>4
<1>12. ASSUME NEW r \in Requests, RevokeAtGoogle(r)
       PROVE  SavedInPeace' /\ SignOutsForget'
  <2> DEFINE u == request[r].user
  <2>1. UNCHANGED <<stored, upset>> /\ u \in Users
        /\ request[r].stage = "revoke"
    BY <1>12, <1>t DEF RevokeAtGoogle, Busy
  <2>2. PICK rec : /\ rec \in RequestType /\ rec.user = u
                   /\ rec.stage = "delete"
                   /\ rec.ok => request[r].ok
                   /\ request' = [request EXCEPT ![r] = rec]
                   /\ rec.ok => grant' = [grant EXCEPT ![u] =
                            IF @ = request[r].token THEN 0 ELSE @]
    <3>1. CASE Goes(r, "delete") /\ grant' = [grant EXCEPT ![u] =
                            IF @ = request[r].token THEN 0 ELSE @]
      <4> DEFINE rec == [request[r] EXCEPT !.stage = "delete"]
      <4>1. /\ rec \in RequestType /\ rec.user = u /\ rec.stage = "delete"
            /\ rec.ok => request[r].ok
        BY <1>s, <1>t DEF RequestType
      <4>2. request' = [request EXCEPT ![r] = rec]
        BY <1>t, <3>1 DEF Goes
      <4> HIDE DEF rec
      <4> QED BY <3>1, <4>1, <4>2
    <3>2. CASE Fails(r, "delete")
      <4> DEFINE rec == [request[r] EXCEPT !.stage = "delete", !.ok = FALSE]
      <4>1. /\ rec \in RequestType /\ rec.user = u /\ rec.stage = "delete"
            /\ ~rec.ok
        BY <1>s, <1>t DEF RequestType
      <4>2. request' = [request EXCEPT ![r] = rec]
        BY <1>t, <3>2 DEF Fails
      <4> HIDE DEF rec
      <4> QED BY <4>1, <4>2
    <3> QED BY <1>12, <3>1, <3>2 DEF RevokeAtGoogle
  <2>3. \A v \in Users \ {u} : grant'[v] = grant[v]
    BY <1>12, <1>t DEF RevokeAtGoogle, SignTypeOK
  <2>4. Alters(r, rec)
    BY <2>1, <2>2, <2>3 DEF Alters
  <2>5. rec.ok => grant'[u] = 0
    <3>1. SUFFICES ASSUME rec.ok PROVE grant'[u] = 0
      OBVIOUS
    <3>2. grant[u] \in {0, request[r].token}
      BY <2>1, <2>2, <3>1
      DEF SignInv, SignOutsForget, SigningOut, Forgetting
    <3> QED BY <1>t, <2>1, <2>2, <3>1, <3>2 DEF SignTypeOK
  <2>6. request[r].stage \in SigningOut
    BY <2>1 DEF SigningOut
  <2>7. SignOutsForget'
    BY <2>2, <2>4, <2>5, <2>6, OthersForget
  <2>8. SavedInPeace'
    BY <2>1, <2>2, <2>4, <2>6, AlteringKeepsPeace
  <2> QED BY <2>7, <2>8
<1>13. ASSUME NEW r \in Requests, Delete(r)
       PROVE  SavedInPeace' /\ SignOutsForget'
  <2> DEFINE u == request[r].user
  <2>1. UNCHANGED <<grant, upset>> /\ u \in Users
        /\ request[r].stage = "delete"
    BY <1>13, <1>t DEF Delete, Busy
  <2>2. PICK rec : /\ rec \in RequestType /\ rec.user = u
                   /\ rec.stage = "ended"
                   /\ rec.ok => request[r].ok
                   /\ request' = [request EXCEPT ![r] = rec]
                   /\ rec.ok => stored' = [stored EXCEPT ![u] = 0]
    <3>1. CASE Goes(r, "ended") /\ stored' = [stored EXCEPT ![u] = 0]
      <4> DEFINE rec == [request[r] EXCEPT !.stage = "ended"]
      <4>1. /\ rec \in RequestType /\ rec.user = u /\ rec.stage = "ended"
            /\ rec.ok => request[r].ok
        BY <1>s, <1>t DEF RequestType
      <4>2. request' = [request EXCEPT ![r] = rec]
        BY <1>t, <3>1 DEF Goes
      <4> HIDE DEF rec
      <4> QED BY <3>1, <4>1, <4>2
    <3>2. CASE Fails(r, "ended")
      <4> DEFINE rec == [request[r] EXCEPT !.stage = "ended", !.ok = FALSE]
      <4>1. /\ rec \in RequestType /\ rec.user = u /\ rec.stage = "ended"
            /\ ~rec.ok
        BY <1>s, <1>t DEF RequestType
      <4>2. request' = [request EXCEPT ![r] = rec]
        BY <1>t, <3>2 DEF Fails
      <4> HIDE DEF rec
      <4> QED BY <4>1, <4>2
    <3> QED BY <1>13, <3>1, <3>2 DEF Delete
  <2>3. \A v \in Users \ {u} : stored'[v] = stored[v]
    BY <1>13, <1>t DEF Delete, SignTypeOK
  <2>4. Alters(r, rec)
    BY <2>1, <2>2, <2>3 DEF Alters
  <2>5. rec.ok => grant'[u] = 0 /\ stored'[u] = 0
    <3>1. SUFFICES ASSUME rec.ok PROVE grant[u] = 0 /\ stored'[u] = 0
      BY <2>1
    <3>2. grant[u] = 0
      BY <2>1, <2>2, <3>1
      DEF SignInv, SignOutsForget, SigningOut, Forgetting
    <3> QED BY <1>t, <2>1, <2>2, <3>1, <3>2 DEF SignTypeOK
  <2>6. request[r].stage \in SigningOut
    BY <2>1 DEF SigningOut
  <2>7. SignOutsForget'
    BY <2>2, <2>4, <2>5, <2>6, OthersForget
  <2>8. SavedInPeace'
    BY <2>1, <2>2, <2>4, <2>6, AlteringKeepsPeace
  <2> QED BY <2>7, <2>8
<1> QED BY <1>1, <1>2, <1>3, <1>4, <1>5, <1>6, <1>7, <1>8, <1>9, <1>10,
           <1>11, <1>12, <1>13 DEF SignNext

(* The invariant of the users' tokens, in every state.                     *)
LEMMA SignSpecSignInv == SignSpec => []SignInv
<1>1. SignInv /\ UNCHANGED signVars => SignInv'
  BY DEF SignInv, signVars, SignTypeOK, Busy, SavedInPeace, SignOutsForget,
         Forgetting, InFlight
<1> QED BY <1>1, InitSignInv, SignInvStep, PTL DEF SignSpec

(* A user who is told the sign-in is permanent keeps a live refresh token  *)
(* in the store until a sign-out or a withdrawal of theirs, or a save of   *)
(* theirs that another request overlaps (user_tokens.py, the OAuth routes  *)
(* of server.py), however many users, requests and interleavings.          *)
THEOREM SignedInForGood == SignSpec => []PersistentMeansRefreshable
<1>1. SignInv => PersistentMeansRefreshable
  BY DEF SignInv, SignTypeOK, SavedInPeace, PersistentMeansRefreshable
<1> QED BY <1>1, SignSpecSignInv, PTL

(* A sign-out that nothing disturbed ends with neither the consent at      *)
(* Google nor the token in the store (the sign-out route of server.py),    *)
(* however many requests of other users interleave with it.                *)
THEOREM SignedOutForGood == SignSpec => []SignOutForgets
<1>1. SignInv => SignOutForgets
  BY DEF SignInv, SignOutsForget, SigningOut, Forgetting, SignOutForgets
<1> QED BY <1>1, SignSpecSignInv, PTL

(***************************************************************************)
(* The keys of the MCP server.  The property is its own invariant: what    *)
(* makes it hold is that a verification asks again for a key it lacks.     *)
(***************************************************************************)
McpInv == McpTypeOK /\ RotationIsFollowed

(* At the start nobody has a token.                                        *)
LEMMA InitMcpInv == McpInit => McpInv
<1> SUFFICES ASSUME McpInit PROVE McpInv
  OBVIOUS
<1>1. McpTypeOK
  BY MaxKeysAssumption
  DEF McpInit, McpTypeOK, KeyIds, Kinds, NoToken, NoCall, Finished
<1>2. RotationIsFollowed
  BY DEF McpInit, RotationIsFollowed, NoToken
<1> QED BY <1>1, <1>2 DEF McpInv

CallType == [step : {"idle", "verify", "gate"} \cup Finished,
             failed : BOOLEAN, split : BOOLEAN]

(* A verification turns a live token of a person away only for want of its *)
(* key: a fetch failed, or what it brought was another instance's.         *)
LEMMA VerifiedUnlessSplit ==
    ASSUME McpTypeOK, NEW c \in Callers,
           NEW good \in {"gate"} \cup Finished,
           NEW bad \in {"gate"} \cup Finished,
           Verifies(c, good, bad)
    PROVE  /\ jwks' \in [keys : SUBSET KeyIds, fresh : BOOLEAN]
           /\ call' \in [Callers -> CallType]
           /\ call'[c].step \in {good, bad}
           /\ \A d \in Callers \ {c} : call'[d] = call[d]
           /\ token[c].live /\ token[c].kind \in Persons =>
                 \/ call'[c].step = good
                 \/ call'[c].failed \/ call'[c].split
<1> DEFINE t == token[c]
           split == \E i \in Instances : signs[i] # t.kid
           ends(step, failed) ==
             [call EXCEPT ![c].step = step, ![c].failed = @ \/ failed,
                          ![c].split = @ \/ split]
<1>1. ASSUME NEW copy \in Published
      PROVE  /\ copy \in [keys : SUBSET KeyIds, fresh : BOOLEAN]
             /\ t.kid \notin copy.keys => split
  <2>1. PICK i \in Instances : copy = [keys |-> {signs[i]}, fresh |-> TRUE]
    BY DEF Published
  <2>2. signs[i] \in KeyIds /\ copy.keys = {signs[i]}
    BY <2>1 DEF McpTypeOK
  <2>3. t.kid \notin copy.keys => split
    BY <2>2
  <2> QED BY <2>1, <2>2, <2>3
<1>2. \A copy : \A new \in AskedAgain(copy, t.kid) :
         /\ new = copy /\ t.kid \in copy.keys
         \/ new \in Published
  BY DEF AskedAgain
<1>3. \A new \in Copies(t.kid) :
         /\ new \in [keys : SUBSET KeyIds, fresh : BOOLEAN]
         /\ t.kid \notin new.keys => split
  BY <1>1, <1>2 DEF Copies, McpTypeOK
<1>4. \A new \in FailedCopies(t.kid) :
         new \in [keys : SUBSET KeyIds, fresh : BOOLEAN]
  BY <1>1 DEF FailedCopies, McpTypeOK
<1>5. PICK step \in {good, bad}, failed \in BOOLEAN :
         /\ call' = ends(step, failed)
         /\ jwks' \in [keys : SUBSET KeyIds, fresh : BOOLEAN]
         /\ t.live /\ t.kind \in Persons => step = good \/ failed \/ split
  <2>1. CASE t.kind \notin Persons
    BY <2>1 DEF Verifies, McpTypeOK
  <2>2. CASE /\ t.kind \in Persons /\ jwks' \in Copies(t.kid)
             /\ call' = ends(IF t.live /\ t.kid \in jwks'.keys THEN good
                             ELSE bad, FALSE)
    <3> HIDE DEF ends, split
    <3> QED BY <1>3, <2>2
  <2>3. CASE /\ t.kind \in Persons /\ jwks' \in FailedCopies(t.kid)
             /\ call' = ends(bad, TRUE)
    <3> HIDE DEF ends, split
    <3> QED BY <1>4, <2>3
  <2> QED BY <2>1, <2>2, <2>3 DEF Verifies
<1>6. call \in [Callers -> CallType] /\ split \in BOOLEAN
  BY DEF McpTypeOK, CallType
<1> DEFINE rec == [call[c] EXCEPT !.step = step, !.failed = @ \/ failed,
                                  !.split = @ \/ split]
<1> HIDE DEF split
<1>7. call' = [call EXCEPT ![c] = rec]
  BY <1>5, <1>6
<1>8. /\ rec \in CallType /\ rec.step = step
      /\ rec.failed = (call[c].failed \/ failed)
      /\ rec.split = (call[c].split \/ split)
  BY <1>6 DEF CallType
<1> HIDE DEF rec
<1>9. call'[c] = rec /\ call' \in [Callers -> CallType]
  BY <1>6, <1>7, <1>8
<1>10. \A d \in Callers \ {c} : call'[d] = call[d]
  BY <1>6, <1>7
<1> QED BY <1>5, <1>8, <1>9, <1>10

(* The invariant holds after every step of the keys, the tokens and the    *)
(* calls.                                                                  *)
LEMMA McpInvStep == McpInv /\ [McpNext]_mcpVars => McpInv'
<1> SUFFICES ASSUME McpInv, [McpNext]_mcpVars PROVE McpInv'
  OBVIOUS
<1>t. McpTypeOK /\ RotationIsFollowed
  BY DEF McpInv
<1>c. /\ call \in [Callers -> CallType] /\ jwks.keys \subseteq KeyIds
      /\ {"idle", "unauthorized", "refused", "answered"}
            = {"idle"} \cup Finished
  BY <1>t DEF McpTypeOK, CallType, Finished
<1>1. CASE UNCHANGED mcpVars
  BY <1>1, <1>t DEF McpInv, McpTypeOK, RotationIsFollowed, mcpVars
<1>2. CASE RotateSecret
  <2>1. made' \in KeyIds
    BY <1>2, <1>t, MaxKeysAssumption DEF RotateSecret, McpTypeOK, KeyIds
  <2> QED BY <1>2, <1>t, <2>1
          DEF RotateSecret, McpInv, McpTypeOK, RotationIsFollowed
<1>3. CASE JwksExpires
  BY <1>3, <1>t DEF JwksExpires, McpInv, McpTypeOK, RotationIsFollowed
<1>4. ASSUME NEW i \in Instances, Restart(i) PROVE McpInv'
  <2>1. made' \in KeyIds
    BY <1>4, <1>t, MaxKeysAssumption DEF Restart, McpTypeOK, KeyIds
  <2> QED BY <1>4, <1>t, <2>1
          DEF Restart, McpInv, McpTypeOK, RotationIsFollowed
<1>5. ASSUME NEW c \in Callers, NEW i \in Instances, NEW kind \in Kinds,
             Issue(c, i, kind)
      PROVE  McpInv'
  <2>1. McpTypeOK'
    BY <1>5, <1>t, <1>c DEF Issue, McpTypeOK, NoCall, CallType
  <2>2. RotationIsFollowed'
    BY <1>5, <1>t, <1>c DEF Issue, McpTypeOK, RotationIsFollowed, NoCall
  <2> QED BY <2>1, <2>2 DEF McpInv
<1>6. ASSUME NEW c \in Callers, TokenExpires(c) PROVE McpInv'
  BY <1>6, <1>t
  DEF TokenExpires, McpInv, McpTypeOK, RotationIsFollowed
<1>7. ASSUME NEW c \in Callers, Call(c) PROVE McpInv'
  <2>1. McpTypeOK'
    BY <1>7, <1>t, <1>c DEF Call, McpTypeOK, NoCall, CallType
  <2>2. RotationIsFollowed'
    BY <1>7, <1>t, <1>c DEF Call, McpTypeOK, RotationIsFollowed, NoCall
  <2> QED BY <2>1, <2>2 DEF McpInv
<1>8. ASSUME NEW c \in Callers, Middleware(c) PROVE McpInv'
  <2>1. /\ Verifies(c, "gate", "unauthorized")
        /\ UNCHANGED <<configured, made, signs, token, seen>>
        /\ "unauthorized" \in Finished
    BY <1>8, <1>c DEF Middleware
  <2>2. /\ jwks' \in [keys : SUBSET KeyIds, fresh : BOOLEAN]
        /\ call' \in [Callers -> CallType]
        /\ call'[c].step \in {"gate", "unauthorized"}
        /\ \A d \in Callers \ {c} : call'[d] = call[d]
        /\ token[c].live /\ token[c].kind \in Persons =>
              \/ call'[c].step = "gate"
              \/ call'[c].failed \/ call'[c].split
    BY <1>t, <2>1, VerifiedUnlessSplit
  <2> QED BY <1>t, <2>1, <2>2
          DEF McpInv, McpTypeOK, RotationIsFollowed, CallType
<1>9. ASSUME NEW c \in Callers, StaffGateKnown(c) PROVE McpInv'
  <2>1. /\ call' = [call EXCEPT ![c].step = Outcome(c)]
        /\ UNCHANGED <<configured, made, signs, token, jwks, seen>>
    BY <1>9 DEF StaffGateKnown
  <2>2. /\ Outcome(c) \in Finished
        /\ Outcome(c) # "unauthorized"
        /\ token[c].kind = "staff" => Outcome(c) = "answered"
    BY DEF Outcome, Permitted, Finished
  <2>3. McpTypeOK'
    BY <1>t, <2>1, <2>2 DEF McpTypeOK
  <2>4. RotationIsFollowed'
    BY <1>t, <1>c, <2>1, <2>2 DEF RotationIsFollowed, CallType
  <2> QED BY <2>3, <2>4 DEF McpInv
<1>10. ASSUME NEW c \in Callers, StaffGate(c) PROVE McpInv'
  <2>1. /\ Verifies(c, Outcome(c), "refused")
        /\ UNCHANGED <<configured, made, signs, token>>
        /\ seen' \in SUBSET Callers
    BY <1>10, <1>t DEF StaffGate, McpTypeOK
  <2>2. /\ Outcome(c) \in Finished /\ "refused" \in Finished
        /\ Outcome(c) # "unauthorized"
        /\ token[c].kind = "staff" => Outcome(c) = "answered"
    BY DEF Outcome, Permitted, Finished
  <2>3. /\ jwks' \in [keys : SUBSET KeyIds, fresh : BOOLEAN]
        /\ call' \in [Callers -> CallType]
        /\ call'[c].step \in {Outcome(c), "refused"}
        /\ \A d \in Callers \ {c} : call'[d] = call[d]
        /\ token[c].live /\ token[c].kind \in Persons =>
              \/ call'[c].step = Outcome(c)
              \/ call'[c].failed \/ call'[c].split
    BY <1>t, <2>1, <2>2, VerifiedUnlessSplit
  <2>4. McpTypeOK'
    BY <1>t, <2>1, <2>3 DEF McpTypeOK, CallType
  <2>5. RotationIsFollowed'
    BY <1>t, <2>1, <2>2, <2>3 DEF RotationIsFollowed
  <2> QED BY <2>4, <2>5 DEF McpInv
<1>11. ASSUME NEW c \in Callers, Forgotten(c) PROVE McpInv'
  BY <1>11, <1>t DEF Forgotten, McpInv, McpTypeOK, RotationIsFollowed
<1> QED BY <1>1, <1>2, <1>3, <1>4, <1>5, <1>6, <1>7, <1>8, <1>9, <1>10,
           <1>11 DEF McpNext

(* A live token of a person is turned away, or refused to staff, only when *)
(* a fetch of the keys failed or an instance signed with another key at    *)
(* the time (verify of auth.py, the staff gate of the MCP server), for any *)
(* number of instances and callers.                                        *)
THEOREM RotationIsAlwaysFollowed == McpSpec => []RotationIsFollowed
<1>1. McpInv => RotationIsFollowed
  BY DEF McpInv
<1> QED BY <1>1, InitMcpInv, McpInvStep, PTL DEF McpSpec

(***************************************************************************)
(* What an answer about a customer says of the sources it could not reach  *)
(* and of the bank, for every bound: the invariant follows a request from  *)
(* channel to channel, whatever the bank and the copy do under it.         *)
(***************************************************************************)
\* What a view may lack without saying so.
Silently ==
    IF view.channel = "inline" \/ view.strayed THEN {"recent_activity"} ELSE {}

Begun == {"idle", "sample", "balance"}
Composing == {"recent", "loans", "hop"}
Advised == {"hop", "served"}

Told ==
    /\ view.step \in Begun => view.lost = {}
    /\ view.step \in Composing \cup {"served"} => "balance" \notin view.lost
    /\ view.step \in Composing \cup {"served"} =>
          view.lost \subseteq view.partial \cup Silently
    /\ view.channel = "deep" /\ view.step = "served" => view.partial = {}
    /\ view.step = "not_found" =>
          bank.balance = "absent" \/ view.moved \/ view.strayed

\* The balance read, while the bank stands still, and what was made of it.
Faithful ==
    /\ view.step \in Composing => view.channel # "agent"
    /\ view.step \in Composing \cup {"served"} /\ ~view.moved /\ ~hotPath
          => view.balance = bank.balance
    /\ view.step \in Advised /\ view.channel # "agent" /\ ~view.moved
          => \/ view.action = NextAction(view.balance, bank.loan)
             \/ "loans" \in view.partial
             \/ view.channel = "inline" /\ bank.crowded

ViewInv == ViewTypeOK /\ Told /\ Faithful


(* The invariant holds at the start: no request has been made.             *)
LEMMA InitEstablishes == ViewInit => ViewInv
<1> SUFFICES ASSUME ViewInit PROVE ViewInv
  OBVIOUS
<1>1. ViewTypeOK
  BY ViewAssumption
     DEF ViewInit, ViewTypeOK, NoView, Banks, HotCopies, Views, ViewSteps,
         Balances, Loans, Sections, Composed, Channels, Actions
<1>2. Told /\ Faithful
  BY DEF ViewInit, Told, Faithful, NoView, Begun, Composing, Advised
<1> QED BY <1>1, <1>2 DEF ViewInv

(* The bank moves under a request: what it has read is no longer claimed.  *)
LEMMA BankPreserves ==
    ASSUME ViewInv, Post \/ LoanMoves \/ LoansCrowd
    PROVE  ViewInv'
<1>1. PICK changed \in Banks : Move(changed)
  <2>1. CASE Post
    <3>1. PICK balance \in Balances \ {"absent"} :
             Move([bank EXCEPT !.balance = balance, !.rows = @ + 1])
      BY <2>1 DEF Post
    <3>2. bank.rows < MaxRows /\ bank.rows \in 0 .. MaxRows
      BY <2>1 DEF Post, ViewInv, ViewTypeOK, Banks
    <3>3. bank.rows + 1 \in 0 .. MaxRows
      BY <3>2, ViewAssumption
    <3>4. [bank EXCEPT !.balance = balance, !.rows = @ + 1] \in Banks
      BY <3>3 DEF ViewInv, ViewTypeOK, Banks
    <3> QED BY <3>1, <3>4
  <2>2. CASE LoanMoves
    BY <2>2 DEF LoanMoves, ViewInv, ViewTypeOK, Banks
  <2>3. CASE LoansCrowd
    BY <2>3 DEF LoansCrowd, ViewInv, ViewTypeOK, Banks
  <2> QED BY <2>1, <2>2, <2>3
<1>2. view' = [view EXCEPT !.moved = TRUE] /\ view \in Views
  BY <1>1 DEF Move, ViewInv, ViewTypeOK
<1>3. ViewTypeOK'
  <2>1. view' \in Views
    BY <1>2 DEF Views
  <2>2. moves' \in 0 .. MaxMoves
    BY <1>1, ViewAssumption DEF Move, ViewInv, ViewTypeOK
  <2> QED BY <1>1, <2>1, <2>2 DEF Move, ViewInv, ViewTypeOK
<1>4. /\ view'.moved
      /\ view'.step = view.step /\ view'.channel = view.channel
      /\ view'.lost = view.lost /\ view'.partial = view.partial
      /\ view'.strayed = view.strayed
  BY <1>2 DEF Views
<1>5. Told' /\ Faithful'
  BY <1>4 DEF ViewInv, Told, Faithful, Silently
<1> QED BY <1>3, <1>5 DEF ViewInv

(* The copy is filled or runs out: no request notices before it reads it.  *)
LEMMA CopyPreserves ==
    ASSUME ViewInv, BackfillRows \/ BackfillBalance \/ HotRowsExpire
    PROVE  ViewInv'
<1>1. UNCHANGED <<hotPath, bank, view, moves>>
  BY DEF BackfillRows, BackfillBalance, HotRowsExpire
<1>2. hot' \in HotCopies
  BY ViewAssumption
     DEF BackfillRows, BackfillBalance, HotRowsExpire, ViewInv, ViewTypeOK,
         Banks, HotCopies
<1>3. ViewTypeOK'
  BY <1>1, <1>2 DEF ViewInv, ViewTypeOK
<1>4. Told' /\ Faithful'
  BY <1>1 DEF ViewInv, Told, Faithful, Silently
<1> QED BY <1>3, <1>4 DEF ViewInv

(* A request starts afresh, or the deep check finds an account to ask for. *)
LEMMA StartPreserves ==
    ASSUME ViewInv,
           \/ \E channel \in Channels : Ask(channel)
           \/ SampleAccount
    PROVE  ViewInv'
<1>u. UNCHANGED <<hotPath, bank, hot, moves>>
  BY DEF Ask, SampleAccount
<1>1. CASE \E channel \in Channels : Ask(channel)
  <2>1. PICK channel \in Channels, step \in {"sample", "balance"} :
           view' = [NoView EXCEPT !.channel = channel, !.step = step]
    BY <1>1 DEF Ask
  <2>2. NoView \in Views
    BY ViewAssumption
       DEF NoView, Views, ViewSteps, Channels, Composed, Balances, Sections,
           Actions
  <2>3. view' \in Views
    BY <2>1, <2>2 DEF Views, ViewSteps
  <2>4. view'.step \in {"sample", "balance"} /\ view'.lost = {}
    BY <2>1 DEF NoView
  <2>5. Told' /\ Faithful'
    BY <2>4 DEF Told, Faithful, Begun, Composing, Advised
  <2> QED BY <1>u, <2>3, <2>5 DEF ViewInv, ViewTypeOK
<1>2. CASE SampleAccount
  <2>1. PICK step \in {"balance", "unavailable"} :
           view.step = "sample" /\ view' = [view EXCEPT !.step = step]
    BY <1>2 DEF SampleAccount, Stands, Ending
  <2>2. view' \in Views
    BY <2>1 DEF ViewInv, ViewTypeOK, Views, ViewSteps, Outcomes
  <2>3. /\ view'.step = step /\ view'.lost = view.lost
        /\ view'.channel = view.channel /\ view'.partial = view.partial
        /\ view'.strayed = view.strayed
    BY <2>1 DEF ViewInv, ViewTypeOK, Views
  <2>4. Told' /\ Faithful'
    BY <2>1, <2>3 DEF ViewInv, Told, Faithful, Silently, Begun,
                      Composing, Advised
  <2> QED BY <1>u, <2>2, <2>4 DEF ViewInv, ViewTypeOK
<1> QED BY <1>1, <1>2

(* A balance that was not had is never one that is not there.              *)
LEMMA BalancePreserves ==
    ASSUME ViewInv, ReadBalance \/ AgentBalance
    PROVE  ViewInv'
<1>1. PICK next \in {"recent", "served"} :
         /\ Finds(next)
         /\ next = "served" <=> view.channel = "agent"
  BY DEF ReadBalance, AgentBalance
<1>2. UNCHANGED <<hotPath, bank, hot, moves>> /\ view.step = "balance"
  BY <1>1 DEF Finds, Stands
<1>v. view \in Views /\ view.lost = {}
  BY <1>2 DEF ViewInv, ViewTypeOK, Told, Begun
<1>3. TxnBalance \subseteq Balances
  BY DEF TxnBalance, HotBalance, ColdBalance, ViewInv, ViewTypeOK, Banks,
         HotCopies
<1>4. "absent" \in TxnBalance => bank.balance = "absent"
  BY DEF TxnBalance, HotBalance, ColdBalance
<1>5. ~hotPath => TxnBalance = {bank.balance}
  BY DEF TxnBalance, HotBalance, ColdBalance
<1>6. CASE \E balance \in TxnBalance :
             view' = [view EXCEPT
                        !.balance = balance,
                        !.step = IF balance = "absent" THEN After404 ELSE next]
  <2>1. PICK balance \in TxnBalance, step \in ViewSteps :
           /\ view' = [view EXCEPT !.balance = balance, !.step = step]
           /\ \/ balance = "absent" /\ step \in {"error", "not_found"}
              \/ step = next
    BY <1>6 DEF After404, ViewSteps, Outcomes
  <2>2. view' \in Views
    BY <1>v, <1>3, <2>1 DEF Views
  <2>3. /\ view'.step = step /\ view'.balance = balance /\ view'.lost = {}
        /\ view'.channel = view.channel /\ view'.partial = view.partial
        /\ view'.moved = view.moved
    BY <1>v, <2>1 DEF Views
  <2>4. view.channel # "deep" \/ next # "served"
    BY <1>1
  <2>5. Told'
    BY <1>2, <1>4, <2>1, <2>3, <2>4 DEF Told, Silently, Begun, Composing
  <2>6. Faithful'
    BY <1>1, <1>2, <1>5, <2>1, <2>3 DEF Faithful, Composing, Advised
  <2> QED BY <1>2, <2>2, <2>5, <2>6 DEF ViewInv, ViewTypeOK
<1>7. CASE \E strayed \in BOOLEAN :
             view' = [view EXCEPT
                        !.lost = @ \cup {"balance"}, !.strayed = strayed,
                        !.step = IF strayed THEN After404 ELSE AfterFailure]
  <2>1. PICK strayed \in BOOLEAN, step \in {"error", "unavailable",
                                            "not_found"} :
           /\ view' = [view EXCEPT !.lost = @ \cup {"balance"},
                                   !.strayed = strayed, !.step = step]
           /\ step = "not_found" => strayed
    BY <1>7 DEF After404, AfterFailure
  <2>2. view' \in Views
    BY <1>v, <2>1 DEF Views, ViewSteps, Outcomes
  <2>3. /\ view'.step \in {"error", "unavailable", "not_found"}
        /\ view'.step = "not_found" => view'.strayed
    BY <1>v, <2>1 DEF Views
  <2>4. Told' /\ Faithful'
    BY <2>3 DEF Told, Faithful, Begun, Composing, Advised
  <2> QED BY <1>2, <2>2, <2>4 DEF ViewInv, ViewTypeOK
<1> QED BY <1>1, <1>6, <1>7 DEF Finds

(* A section that was not had is named, but for the one exception.         *)
LEMMA SectionsPreserve ==
    ASSUME ViewInv, ReadRecent \/ ReadLoans
    PROVE  ViewInv'
<1>u. UNCHANGED <<hotPath, bank, hot, moves>>
  BY DEF ReadRecent, ReadLoans
<1>v. /\ view \in Views
      /\ view.step \in {"recent", "loans"} /\ "balance" \notin view.lost
  BY DEF ReadRecent, ReadLoans, Stands, ViewInv, ViewTypeOK, Told,
         Composing
<1>1. \A section \in Sections :
         /\ Misses(section) \in Views
         /\ Misses(section).step = view.step
         /\ Misses(section).lost = view.lost \cup {section}
         /\ view.partial \subseteq Misses(section).partial
         /\ section \in Misses(section).partial \cup Silently
         /\ Misses(section).channel = view.channel
         /\ Misses(section).strayed = view.strayed
         /\ Misses(section).balance = view.balance
         /\ Misses(section).moved = view.moved
  BY <1>v DEF Misses, Named, Silently, Sections, Views
<1>2. \A section \in Sections :
         /\ Strays(section) \in Views
         /\ Strays(section).lost = view.lost \cup {section}
         /\ Strays(section).partial = view.partial
         /\ Strays(section).channel = view.channel
         /\ Strays(section).strayed
         /\ Strays(section).balance = view.balance
         /\ Strays(section).moved = view.moved
  BY <1>v DEF Strays, Sections, Views
<1>3. view.lost \subseteq view.partial \cup Silently
  BY <1>v DEF ViewInv, Told, Composing
<1>4. CASE ReadRecent
  <2>1. PICK saw \in Views :
           /\ view' = [saw EXCEPT !.step = "loans"]
           /\ saw.channel = view.channel
           /\ saw.balance = view.balance /\ saw.moved = view.moved
           /\ view.strayed => saw.strayed
           /\ "balance" \notin saw.lost
           /\ saw.lost \subseteq saw.partial
                 \cup IF saw.channel = "inline" \/ saw.strayed
                      THEN {"recent_activity"} ELSE {}
    <3>1. CASE \E rows \in TxnRows :
                  view' = [view EXCEPT !.rows = rows, !.step = "loans"]
      <4>1. PICK rows \in 0 .. MaxRows :
               view' = [view EXCEPT !.rows = rows, !.step = "loans"]
        BY <3>1 DEF TxnRows, HotRows, ColdRows, ViewInv, ViewTypeOK, Banks,
                    HotCopies
      <4> DEFINE saw == [view EXCEPT !.rows = rows]
      <4>2. /\ saw \in Views /\ saw.channel = view.channel
            /\ saw.balance = view.balance /\ saw.moved = view.moved
            /\ saw.strayed = view.strayed
            /\ saw.lost = view.lost /\ saw.partial = view.partial
        BY <1>v DEF Views
      <4>3. view' = [saw EXCEPT !.step = "loans"]
        BY <1>v, <4>1 DEF Views
      <4> HIDE DEF saw
      <4> QED BY <1>v, <1>3, <4>2, <4>3 DEF Silently
    <3>2. CASE view' = [Misses("recent_activity") EXCEPT !.step = "loans"]
      BY <1>v, <1>1, <1>3, <3>2 DEF Sections, Silently
    <3>3. CASE view' = [Strays("recent_activity") EXCEPT !.step = "loans"]
      BY <1>v, <1>2, <1>3, <3>3 DEF Sections, Silently
    <3> QED BY <1>4, <3>1, <3>2, <3>3 DEF ReadRecent
  <2>2. /\ view' \in Views
        /\ view'.step = "loans" /\ view'.channel = saw.channel
        /\ view'.balance = saw.balance /\ view'.moved = saw.moved
        /\ view'.strayed = saw.strayed
        /\ view'.lost = saw.lost /\ view'.partial = saw.partial
    BY <2>1 DEF Views, ViewSteps
  <2>3. Told'
    BY <2>1, <2>2 DEF Told, Silently, Begun, Composing
  <2>4. Faithful'
    BY <1>u, <1>v, <1>4, <2>1, <2>2
       DEF ViewInv, Faithful, Composing, Advised
  <2> QED BY <1>u, <2>2, <2>3, <2>4 DEF ViewInv, ViewTypeOK
<1>5. ASSUME NEW saw \in Views, NEW loan, view' = Decides(saw, loan),
             view.step = "loans",
             loan = ListedLoan \/ "loans" \in saw.partial,
             saw.channel = view.channel, saw.strayed = view.strayed,
             saw.balance = view.balance, saw.moved = view.moved,
             "balance" \notin saw.lost,
             saw.lost \subseteq saw.partial \cup Silently
      PROVE  ViewInv'
  <2>1. NextAction(saw.balance, loan) \in Actions
    BY DEF NextAction, Actions
  <2>2. /\ view' \in Views
        /\ view'.step = "hop" /\ view'.channel = saw.channel
        /\ view'.balance = saw.balance /\ view'.moved = saw.moved
        /\ view'.strayed = saw.strayed
        /\ view'.lost = saw.lost /\ view'.partial = saw.partial
        /\ view'.action = NextAction(saw.balance, loan)
    BY <1>5, <2>1 DEF Decides, Views, ViewSteps
  <2>3. \/ loan = bank.loan
        \/ view.channel = "inline" /\ bank.crowded
        \/ "loans" \in saw.partial
    BY <1>5 DEF ListedLoan
  <2>4. Told'
    BY <1>5, <2>2 DEF Told, Silently, Begun, Composing
  <2>5. Faithful'
    BY <1>u, <1>5, <2>2, <2>3 DEF ViewInv, Faithful, Composing, Advised
  <2> QED BY <1>u, <2>2, <2>4, <2>5 DEF ViewInv, ViewTypeOK
<1>6. CASE ReadLoans
  <2>0. view.step = "loans"
    BY <1>6 DEF ReadLoans, Stands
  <2>1. CASE view' = Decides(view, ListedLoan)
    BY <1>v, <1>3, <1>5, <2>0, <2>1
  <2>2. CASE view' = Decides(Misses("loans"), "none")
    <3> DEFINE saw == Misses("loans")
    <3>1. view.channel = "inline" => "loans" \in saw.partial
      BY <1>v DEF Misses, Named, Views
    <3>2. /\ "loans" \in saw.partial
          /\ saw \in Views
          /\ saw.channel = view.channel /\ saw.strayed = view.strayed
          /\ saw.balance = view.balance /\ saw.moved = view.moved
          /\ "balance" \notin saw.lost
          /\ saw.lost \subseteq saw.partial \cup Silently
      BY <1>v, <1>1, <1>3, <3>1 DEF Silently, Sections
    <3> HIDE DEF saw
    <3>3. view' = Decides(saw, "none")
      BY <2>2 DEF saw
    <3> QED BY <1>5, <2>0, <3>2, <3>3
  <2>3. CASE view' = [Strays("loans") EXCEPT !.step = After404]
    <3>1. PICK step \in {"error", "not_found"} :
             view' = [Strays("loans") EXCEPT !.step = step]
      BY <2>3 DEF After404
    <3>2. view' \in Views /\ view'.step = step /\ view'.strayed
      BY <1>2, <3>1 DEF Sections, Views, ViewSteps, Outcomes
    <3>3. Told' /\ Faithful'
      BY <3>2 DEF Told, Faithful, Begun, Composing, Advised
    <3> QED BY <1>u, <3>2, <3>3 DEF ViewInv, ViewTypeOK
  <2> QED BY <1>6, <2>1, <2>2, <2>3 DEF ReadLoans
<1> QED BY <1>4, <1>6

(* The answer that reaches the channel is the one that was composed.       *)
LEMMA HopPreserves ==
    ASSUME ViewInv, Hop
    PROVE  ViewInv'
<1>1. PICK step \in {"served", "unavailable", "not_found"},
           strayed \in BOOLEAN :
         /\ view.step = "hop"
         /\ view' = [view EXCEPT !.step = step, !.strayed = strayed]
         /\ view.strayed => strayed
         /\ step = "served" /\ view.channel = "deep" => view.partial = {}
         /\ step = "not_found" => strayed
  <2>1. /\ view \in Views /\ view.strayed \in BOOLEAN /\ view.step = "hop"
        /\ \A step : [view EXCEPT !.step = step] =
                     [view EXCEPT !.step = step, !.strayed = view.strayed]
    BY DEF Hop, Stands, ViewInv, ViewTypeOK, Views
  <2>2. CASE Ending(Status(view)) \/ Ending("unavailable")
    BY <2>1, <2>2 DEF Status, Ending
  <2>3. CASE view' = [view EXCEPT !.step = "not_found", !.strayed = TRUE]
    BY <2>1, <2>3
  <2> QED BY <2>2, <2>3 DEF Hop
<1>2. /\ view' \in Views
      /\ view'.step = step /\ view'.channel = view.channel
      /\ view'.balance = view.balance /\ view'.moved = view.moved
      /\ view'.lost = view.lost /\ view'.partial = view.partial
      /\ view'.action = view.action /\ view'.strayed = strayed
  BY <1>1 DEF ViewInv, ViewTypeOK, Views, ViewSteps, Outcomes
<1>3. UNCHANGED <<hotPath, bank, hot, moves>>
  BY DEF Hop
<1>4. Told' /\ Faithful'
  BY <1>1, <1>2, <1>3
     DEF ViewInv, Told, Faithful, Silently, Begun, Composing, Advised
<1> QED BY <1>2, <1>3, <1>4 DEF ViewInv, ViewTypeOK

(* The invariant is one: whatever the bank, the copy and the services do,  *)
(* a request in flight accounts for the sources that failed it.            *)
LEMMA ViewInvariant == ViewSpec => []ViewInv
<1>1. ViewInv /\ [ViewNext]_viewVars => ViewInv'
  <2> SUFFICES ASSUME ViewInv, [ViewNext]_viewVars PROVE ViewInv'
    OBVIOUS
  <2>1. CASE UNCHANGED viewVars
    BY <2>1 DEF viewVars, ViewInv, ViewTypeOK, Told, Faithful, Silently
  <2>2. CASE ViewNext
    BY <2>2, BankPreserves, CopyPreserves, StartPreserves, BalancePreserves,
       SectionsPreserve, HopPreserves DEF ViewNext
  <2> QED BY <2>1, <2>2
<1> QED BY InitEstablishes, <1>1, PTL DEF ViewSpec

(* The records of a request, of the bank and of the copy are well formed,  *)
(* for every bound on the rows and the moves.                              *)
THEOREM ViewTypeCorrect == ViewSpec => []ViewTypeOK
<1>1. ViewInv => ViewTypeOK
  BY DEF ViewInv
<1> QED BY <1>1, ViewInvariant, PTL

(* No channel of src/products and src/mcp_server shows an outage as an     *)
(* empty section, as an account that does not exist or as health, but for  *)
(* the in-process activity and a 404 a service answers about itself.       *)
THEOREM OutagesAreAlwaysTold == ViewSpec => []OutagesAreTold
<1>1. ViewInv => OutagesAreTold
  BY DEF ViewInv, ViewTypeOK, Views, Sections, Told, OutagesAreTold,
         Silently, Composing
<1> QED BY <1>1, ViewInvariant, PTL

(* The advice of decide_next_action is the one the bank calls for, but for *)
(* the copy, the named gap and the crowded list.                           *)
THEOREM AdviceAlwaysFollows == ViewSpec => []AdviceFollowsTheBank
<1>1. ViewInv => AdviceFollowsTheBank
  BY DEF ViewInv, ViewTypeOK, Banks, Loans, Faithful, NextAction,
         AdviceFollowsTheBank, Composing, Advised
<1> QED BY <1>1, ViewInvariant, PTL

(***************************************************************************)
(* Why the pipeline loses nothing but what NothingIsLost names, for any    *)
(* number of transactions, keys, jobs and deliveries.  A job acknowledges  *)
(* a message without inserting it only when it remembers the key, and a    *)
(* key is remembered only once a record of that key has gone on to an      *)
(* insert (of this job or, after a restart, of another), is a row, or was  *)
(* dropped by a cancelled job.                                             *)
(***************************************************************************)
\* What the argument needs of the types.
Shapes ==
    /\ keyOf \in [Txns -> Keys]
    /\ delivered \in [Txns -> Nat]
    /\ waiting \in [Txns -> Nat]
    /\ memory \in [Jobs -> SUBSET Keys]
    /\ inserting \in [Jobs -> [Txns -> Nat]]
    /\ silver \in [Txns -> Nat]

\* A record of the key has gone past a job's memory of keys.
OnItsWay(u) == silver[u] > 0 \/ \E j \in Jobs : inserting[j][u] > 0

Landed(k) ==
    k \in cancelled \/ \E u \in Txns : keyOf[u] = k /\ OnItsWay(u)

RememberedHaveLanded == \A j \in Jobs : \A k \in memory[j] : Landed(k)

Accounted(t) ==
    delivered[t] > 0 =>
        waiting[t] > 0 \/ t \in dlq \cup expired \/ Landed(keyOf[t])

IngestInv ==
    /\ Shapes
    /\ RememberedHaveLanded
    /\ \A t \in Txns : Accounted(t)

(* Nothing has been delivered at the start, and nothing is remembered.     *)
LEMMA InitAccounted == IngestInit => IngestInv
  BY DEF IngestInit, IngestInv, Shapes, RememberedHaveLanded, Accounted,
         NoTxns

(* The invariant is the property and what makes it inductive.              *)
LEMMA InvNothingIsLost == IngestInv => NothingIsLost
  BY DEF IngestInv, Accounted, Landed, OnItsWay, NothingIsLost, Twins

(* A message delivered once more waits.                                    *)
LEMMA DeliverAccounted ==
    ASSUME IngestInv, NEW t \in Txns, Deliver(t)
    PROVE  IngestInv'
<1>1. /\ delivered' = [delivered EXCEPT ![t] = @ + 1]
      /\ waiting' = [waiting EXCEPT ![t] = @ + 1]
      /\ UNCHANGED <<keyOf, memory, inserting, silver, dlq, expired,
                     cancelled>>
  BY DEF Deliver
<1>2. Shapes'
  BY <1>1 DEF IngestInv, Shapes
<1>3. \A k : Landed(k) <=> Landed(k)'
  BY <1>1 DEF Landed, OnItsWay
<1>4. ASSUME NEW u \in Txns
      PROVE  waiting'[u] > 0 \/ Accounted(u)'
  BY <1>1, <1>3 DEF IngestInv, Shapes, Accounted, Landed, OnItsWay
<1>5. \A u \in Txns : Accounted(u)'
  BY <1>4 DEF Accounted
<1>6. RememberedHaveLanded'
  BY <1>1, <1>3 DEF IngestInv, RememberedHaveLanded
<1> QED BY <1>2, <1>5, <1>6 DEF IngestInv

(* A message no job can read is expired; one that does not parse is dead.  *)
LEMMA LeaveQueueAccounted ==
    ASSUME IngestInv, NEW t \in Txns,
           Expire(t) \/ \E j \in Jobs : Reject(j, t)
    PROVE  IngestInv'
<1>1. /\ waiting' \in [Txns -> Nat]
      /\ \A u \in Txns \ {t} : waiting'[u] = waiting[u]
      /\ t \in dlq' \cup expired'
      /\ dlq \cup expired \subseteq dlq' \cup expired'
      /\ UNCHANGED <<keyOf, delivered, memory, inserting, silver, cancelled>>
  BY DEF Expire, Reject, IngestInv, Shapes
<1>2. Shapes'
  BY <1>1 DEF IngestInv, Shapes
<1>3. \A k : Landed(k) <=> Landed(k)'
  BY <1>1 DEF Landed, OnItsWay
<1>4. RememberedHaveLanded'
  BY <1>1, <1>3 DEF IngestInv, RememberedHaveLanded
<1>5. ASSUME NEW u \in Txns
      PROVE  Accounted(u)'
  <2>1. Accounted(u)
    BY DEF IngestInv
  <2>2. CASE u = t
    BY <2>2, <1>1 DEF Accounted
  <2>3. CASE u # t
    BY <2>1, <2>3, <1>1 DEF Accounted, Landed, OnItsWay
  <2> QED BY <2>2, <2>3
<1> QED BY <1>2, <1>4, <1>5 DEF IngestInv

(* A record that parses is remembered, and lands if its key had not.       *)
LEMMA ProcessAccounted ==
    ASSUME IngestInv, NEW j \in Jobs, NEW t \in Txns, Process(j, t)
    PROVE  IngestInv'
<1> DEFINE k == keyOf[t]
           more == IF Remembered(j, t) THEN 0 ELSE 1
<1>1. /\ waiting' = [waiting EXCEPT ![t] = @ - 1] /\ waiting[t] > 0
      /\ memory' = [memory EXCEPT ![j] = @ \cup {k}]
      /\ inserting' = [inserting EXCEPT ![j][t] = @ + more]
      /\ UNCHANGED <<keyOf, delivered, silver, dlq, expired, cancelled>>
  BY DEF Process
<1>2. more \in Nat /\ k \in Keys
  BY DEF IngestInv, Shapes
<1>3. Remembered(j, t) => Landed(k)
  BY DEF Remembered, IngestInv, RememberedHaveLanded
<1>4. ~Remembered(j, t) => more = 1
  OBVIOUS
<1> HIDE DEF more
<1>5. Shapes'
  BY <1>1, <1>2 DEF IngestInv, Shapes
<1>6. \A u \in Txns : OnItsWay(u) => OnItsWay(u)'
  <2>1. \A i \in Jobs, u \in Txns : inserting'[i][u] >= inserting[i][u]
    BY <1>1, <1>2 DEF IngestInv, Shapes
  <2> QED BY <2>1, <1>1, <1>5 DEF OnItsWay, IngestInv, Shapes
<1>7. \A q : Landed(q) => Landed(q)'
  BY <1>1, <1>6 DEF Landed
<1>8. Landed(k)'
  <2>1. CASE Remembered(j, t)
    BY <2>1, <1>1, <1>3, <1>7 DEF Landed
  <2>2. CASE ~Remembered(j, t)
    <3>1. inserting'[j][t] > 0
      BY <2>2, <1>1, <1>4 DEF IngestInv, Shapes
    <3> QED BY <3>1, <1>1 DEF Landed, OnItsWay
  <2> QED BY <2>1, <2>2
<1>9. RememberedHaveLanded'
  BY <1>1, <1>7, <1>8 DEF IngestInv, Shapes, RememberedHaveLanded
<1>10. ASSUME NEW u \in Txns
       PROVE  Accounted(u)'
  <2>1. Accounted(u)
    BY DEF IngestInv
  <2>2. CASE u = t
    BY <2>2, <1>1, <1>8 DEF Accounted, Landed
  <2>3. CASE u # t
    <3>1. waiting'[u] = waiting[u] /\ keyOf'[u] = keyOf[u]
      BY <2>3, <1>1 DEF IngestInv, Shapes
    <3>2. Landed(keyOf[u]) => Landed(keyOf[u])'
      BY <1>7, <1>1 DEF Landed
    <3> QED BY <2>1, <3>1, <3>2, <1>1 DEF Accounted
  <2> QED BY <2>2, <2>3
<1> QED BY <1>5, <1>9, <1>10 DEF IngestInv

(* Steps after the memory of keys: what has landed stays landed.           *)
LEMMA AfterwardsAccounted ==
    ASSUME IngestInv, Shapes',
           UNCHANGED <<keyOf, delivered, waiting, dlq, expired>>,
           \A k \in Keys : Landed(k) => Landed(k)',
           \A j \in Jobs : memory'[j] \subseteq memory[j]
    PROVE  IngestInv'
<1>1. RememberedHaveLanded'
  BY DEF IngestInv, Shapes, RememberedHaveLanded
<1>2. ASSUME NEW t \in Txns
      PROVE  Accounted(t)'
  <2>1. Accounted(t) /\ keyOf[t] \in Keys
    BY DEF IngestInv, Shapes
  <2>2. Landed(keyOf[t]) => Landed(keyOf[t])'
    BY <2>1 DEF Landed
  <2> QED BY <2>1, <2>2 DEF Accounted
<1> QED BY <1>1, <1>2 DEF IngestInv

(* An insert makes a row of a record that was on its way.                  *)
LEMMA InsertAccounted ==
    ASSUME IngestInv, NEW j \in Jobs, NEW t \in Txns, Insert(j, t)
    PROVE  IngestInv'
<1>1. /\ inserting[j][t] > 0
      /\ inserting' = [inserting EXCEPT ![j][t] = @ - 1]
      /\ silver' = [silver EXCEPT ![t] = @ + 1]
      /\ UNCHANGED <<keyOf, delivered, waiting, memory, dlq, expired,
                     cancelled>>
  BY DEF Insert
<1>2. Shapes'
  BY <1>1 DEF IngestInv, Shapes
<1>3. \A u \in Txns : OnItsWay(u) => OnItsWay(u)'
  <2>1. silver'[t] > 0
    BY <1>1 DEF IngestInv, Shapes
  <2>2. \A u \in Txns \ {t} :
           /\ silver'[u] = silver[u]
           /\ \A i \in Jobs : inserting'[i][u] = inserting[i][u]
    BY <1>1 DEF IngestInv, Shapes
  <2> QED BY <2>1, <2>2 DEF OnItsWay
<1>4. \A k : Landed(k) => Landed(k)'
  BY <1>1, <1>3 DEF Landed
<1> QED BY <1>1, <1>2, <1>4, AfterwardsAccounted

(* A job that forgets, starts, drains or ends; one that is cancelled drops *)
(* what it was inserting, and the history says so.                         *)
LEMMA JobAccounted ==
    ASSUME IngestInv, NEW j \in Jobs,
           \/ Launch(j) \/ Runs(j) \/ Drain(j) \/ Drained(j) \/ Cancel(j)
           \/ \E k \in Keys : TimerFires(j, k)
    PROVE  IngestInv'
<1>1. CASE Cancel(j)
  <2>1. /\ memory' = [memory EXCEPT ![j] = {}]
        /\ inserting' = [inserting EXCEPT ![j] = NoTxns]
        /\ cancelled' = cancelled \cup
              {keyOf[t] : t \in {u \in Txns : inserting[j][u] > 0}}
        /\ UNCHANGED <<keyOf, delivered, waiting, silver, dlq, expired>>
    BY <1>1 DEF Cancel, Becomes
  <2>2. Shapes' /\ \A i \in Jobs : memory'[i] \subseteq memory[i]
    BY <2>1 DEF IngestInv, Shapes, NoTxns
  <2>3. ASSUME NEW u \in Txns, OnItsWay(u)
        PROVE  keyOf[u] \in cancelled' \/ OnItsWay(u)'
    <3>1. CASE silver[u] > 0
      BY <3>1, <2>1 DEF OnItsWay
    <3>2. CASE \E i \in Jobs : inserting[i][u] > 0
      <4>1. PICK i \in Jobs : inserting[i][u] > 0
        BY <3>2
      <4>2. CASE i = j
        BY <4>1, <4>2, <2>1
      <4>3. CASE i # j
        BY <4>1, <4>3, <2>1 DEF IngestInv, Shapes, OnItsWay
      <4> QED BY <4>2, <4>3
    <3> QED BY <3>1, <3>2, <2>3 DEF OnItsWay
  <2>4. \A k : Landed(k) => Landed(k)'
    BY <2>1, <2>3 DEF Landed
  <2> QED BY <2>1, <2>2, <2>4, AfterwardsAccounted
<1>2. CASE Launch(j) \/ Runs(j) \/ Drain(j) \/ Drained(j)
  <2>1. UNCHANGED <<keyOf, delivered, waiting, memory, inserting, silver,
                    dlq, expired, cancelled>>
    BY <1>2 DEF Launch, Runs, Drain, Drained, Becomes
  <2> QED BY <2>1, AfterwardsAccounted
          DEF IngestInv, Shapes, Landed, OnItsWay
<1>3. CASE \E k \in Keys : TimerFires(j, k)
  <2>1. /\ \E k \in Keys : memory' = [memory EXCEPT ![j] = @ \ {k}]
        /\ UNCHANGED <<keyOf, delivered, waiting, inserting, silver, dlq,
                       expired, cancelled>>
    BY <1>3 DEF TimerFires
  <2>2. Shapes' /\ \A i \in Jobs : memory'[i] \subseteq memory[i]
    BY <2>1 DEF IngestInv, Shapes
  <2> QED BY <2>1, <2>2, AfterwardsAccounted DEF Landed, OnItsWay
<1> QED BY <1>1, <1>2, <1>3

(* Every step keeps the account.                                           *)
LEMMA StepAccounted == IngestInv /\ [IngestNext]_ingestVars => IngestInv'
<1> SUFFICES ASSUME IngestInv, [IngestNext]_ingestVars
             PROVE  IngestInv'
  OBVIOUS
<1>1. CASE UNCHANGED ingestVars
  BY <1>1, AfterwardsAccounted
     DEF ingestVars, IngestInv, Shapes, Landed, OnItsWay
<1>2. ASSUME NEW t \in Txns, Deliver(t) PROVE IngestInv'
  BY <1>2, DeliverAccounted
<1>3. ASSUME NEW t \in Txns, Expire(t) \/ \E j \in Jobs : Reject(j, t)
      PROVE  IngestInv'
  BY <1>3, LeaveQueueAccounted
<1>4. ASSUME NEW j \in Jobs, NEW t \in Txns, Process(j, t) PROVE IngestInv'
  BY <1>4, ProcessAccounted
<1>5. ASSUME NEW j \in Jobs, NEW t \in Txns, Insert(j, t) PROVE IngestInv'
  BY <1>5, InsertAccounted
<1>6. ASSUME NEW j \in Jobs,
             \/ Launch(j) \/ Runs(j) \/ Drain(j) \/ Drained(j) \/ Cancel(j)
             \/ \E k \in Keys : TimerFires(j, k)
      PROVE  IngestInv'
  BY <1>6, JobAccounted
<1> QED BY <1>1, <1>2, <1>3, <1>4, <1>5, <1>6 DEF IngestNext

(* Nothing published is lost on the way to the Silver table but what       *)
(* NothingIsLost names (pipeline.py, run_dataflow.sh).                     *)
THEOREM NothingEverLost == IngestSpec => []NothingIsLost
<1>1. IngestSpec => []IngestInv
  BY InitAccounted, StepAccounted, PTL DEF IngestSpec
<1> QED BY <1>1, InvNothingIsLost, PTL

(***************************************************************************)
(* One row per key                                                         *)
(***************************************************************************)
\* The key is job j's to answer for: nobody else saw it, nobody forgot it.
Sole(k, j) == k \notin forgot /\ seenBy[k] \subseteq {j}

\* A record's rows and those job j is about to write.
RowsOfKey(t, j) == silver[t] + inserting[j][t]

OnceAtSole ==
    \A k \in Keys, j \in Jobs : Sole(k, j) =>
        \A t, u \in Txns : keyOf[t] = k /\ keyOf[u] = k =>
            /\ RowsOfKey(t, j) <= 1
            /\ t # u => RowsOfKey(t, j) = 0 \/ RowsOfKey(u, j) = 0

InsertingSaw ==
    \A j \in Jobs, t \in Txns :
        inserting[j][t] > 0 => j \in seenBy[keyOf[t]]

UnseenHasNoRow ==
    \A t \in Txns : seenBy[keyOf[t]] = {} => silver[t] = 0

\* A job that saw a key and has not forgotten it still drops it, unless it
\* was cancelled, and then it reads no more.
SeenIsRemembered ==
    \A k \in Keys : \A j \in seenBy[k] :
        j \in Jobs /\ (k \in forgot \cup memory[j] \/ job[j] = "cancelled")

OnceShapes ==
    /\ Shapes
    /\ job = [j \in Jobs |-> job[j]]
    /\ seenBy = [k \in Keys |-> seenBy[k]]

OnceInv ==
    /\ OnceShapes
    /\ OnceAtSole
    /\ InsertingSaw
    /\ UnseenHasNoRow
    /\ SeenIsRemembered

(* The second invariant holds at the start too.                            *)
LEMMA InitOnce == IngestInit => OnceInv
  BY DEF IngestInit, OnceInv, OnceShapes, Shapes, OnceAtSole, RowsOfKey,
         InsertingSaw, UnseenHasNoRow, SeenIsRemembered, NoTxns

(* With a sole job the copies bound the rows; with none there are none.    *)
LEMMA InvOneRow == OnceInv => OneRowPerKey
<1> SUFFICES ASSUME OnceInv, NEW t \in Txns, NEW u \in Twins(t),
                    keyOf[t] \notin forgot,
                    \A i, j \in seenBy[keyOf[t]] : i = j
             PROVE  silver[t] + (IF u = t THEN 0 ELSE silver[u]) <= 1
  BY DEF OneRowPerKey
<1>1. keyOf[t] \in Keys /\ u \in Txns /\ keyOf[u] = keyOf[t]
  BY DEF OnceInv, OnceShapes, Shapes, Twins
<1>2. silver[t] \in Nat /\ silver[u] \in Nat
  BY <1>1 DEF OnceInv, OnceShapes, Shapes
<1>3. CASE seenBy[keyOf[t]] = {}
  BY <1>1, <1>3 DEF OnceInv, UnseenHasNoRow
<1>4. CASE seenBy[keyOf[t]] # {}
  <2>1. PICK j \in seenBy[keyOf[t]] : TRUE
    BY <1>4
  <2>2. j \in Jobs /\ Sole(keyOf[t], j)
    BY <2>1, <1>1 DEF OnceInv, SeenIsRemembered, Sole
  <2>3. inserting[j][t] \in Nat /\ inserting[j][u] \in Nat
    BY <2>2, <1>1 DEF OnceInv, OnceShapes, Shapes
  <2>4. /\ RowsOfKey(t, j) <= 1
        /\ t # u => RowsOfKey(t, j) = 0 \/ RowsOfKey(u, j) = 0
        /\ RowsOfKey(u, j) <= 1
    BY <2>2, <1>1 DEF OnceInv, OnceAtSole
  <2> QED BY <2>3, <2>4, <1>2 DEF RowsOfKey
<1> QED BY <1>3, <1>4

(* Steps that add no copy, hand no key on and forget openly.               *)
LEMMA NothingAdded ==
    ASSUME OnceInv, OnceShapes',
           UNCHANGED <<keyOf, seenBy>>,
           forgot \subseteq forgot',
           \A t \in Txns : silver'[t] = 0 \/ silver[t] > 0
                         \/ \E j \in Jobs : inserting[j][t] > 0,
           \A j \in Jobs, t \in Txns : inserting'[j][t] <= inserting[j][t],
           \A j \in Jobs, t \in Txns :
              Sole(keyOf[t], j) => RowsOfKey(t, j)' <= RowsOfKey(t, j),
           \A j \in Jobs : \A k \in memory[j] \ memory'[j] :
              k \in forgot' \/ job'[j] = "cancelled",
           \A j \in Jobs : job[j] = "cancelled" => job'[j] = "cancelled"
    PROVE  OnceInv'
<1>1. InsertingSaw'
  <2> SUFFICES ASSUME NEW j \in Jobs, NEW t \in Txns, inserting'[j][t] > 0
               PROVE  j \in seenBy[keyOf[t]]
    BY DEF InsertingSaw
  <2>1. /\ inserting[j][t] \in Nat /\ inserting'[j][t] \in Nat
        /\ inserting'[j][t] <= inserting[j][t]
    BY DEF OnceInv, OnceShapes, Shapes
  <2> QED BY <2>1 DEF OnceInv, InsertingSaw
<1>2. UnseenHasNoRow'
  BY DEF OnceInv, InsertingSaw, UnseenHasNoRow
<1>3. SeenIsRemembered'
  BY DEF OnceInv, SeenIsRemembered
<1>4. OnceAtSole'
  <2> SUFFICES ASSUME NEW k \in Keys, NEW j \in Jobs, Sole(k, j)',
                      NEW t \in Txns, NEW u \in Txns,
                      keyOf[t] = k, keyOf[u] = k
               PROVE  /\ RowsOfKey(t, j)' <= 1
                      /\ t # u => RowsOfKey(t, j)' = 0 \/ RowsOfKey(u, j)' = 0
    BY DEF OnceAtSole, RowsOfKey
  <2>1. Sole(k, j)
    BY DEF Sole
  <2>2. /\ RowsOfKey(t, j) <= 1
        /\ t # u => RowsOfKey(t, j) = 0 \/ RowsOfKey(u, j) = 0
    BY <2>1 DEF OnceInv, OnceAtSole
  <2>3. /\ RowsOfKey(t, j)' <= RowsOfKey(t, j)
        /\ RowsOfKey(u, j)' <= RowsOfKey(u, j)
    BY <2>1
  <2>4. /\ RowsOfKey(t, j) \in Nat /\ RowsOfKey(t, j)' \in Nat
        /\ RowsOfKey(u, j) \in Nat /\ RowsOfKey(u, j)' \in Nat
    BY DEF OnceInv, OnceShapes, Shapes, RowsOfKey
  <2> QED BY <2>2, <2>3, <2>4
<1> QED BY <1>1, <1>2, <1>3, <1>4 DEF OnceInv

(* A record processed: its job drops it, or was the first to see its key.  *)
LEMMA ProcessOnce ==
    ASSUME OnceInv, NEW j \in Jobs, NEW t \in Txns, Process(j, t)
    PROVE  OnceInv'
<1> DEFINE k == keyOf[t]
           more == IF Remembered(j, t) THEN 0 ELSE 1
<1>1. /\ job[j] = "running"
      /\ waiting[t] > 0 /\ waiting' = [waiting EXCEPT ![t] = @ - 1]
      /\ memory' = [memory EXCEPT ![j] = @ \cup {k}]
      /\ inserting' = [inserting EXCEPT ![j][t] = @ + more]
      /\ seenBy' = [seenBy EXCEPT ![k] = @ \cup {j}]
      /\ UNCHANGED <<keyOf, delivered, job, silver, forgot>>
  BY DEF Process
<1>2. more \in {0, 1} /\ k \in Keys /\ (k \in memory[j] => more = 0)
  BY DEF OnceInv, OnceShapes, Shapes, Remembered
<1> HIDE DEF more
<1>3. OnceShapes'
  <2>1. waiting' \in [Txns -> Nat] /\ inserting' \in [Jobs -> [Txns -> Nat]]
    BY <1>1, <1>2 DEF OnceInv, OnceShapes, Shapes
  <2>2. /\ memory' \in [Jobs -> SUBSET Keys]
        /\ seenBy' = [q \in Keys |-> seenBy'[q]]
    BY <1>1, <1>2 DEF OnceInv, OnceShapes, Shapes
  <2> QED BY <2>1, <2>2, <1>1 DEF OnceInv, OnceShapes, Shapes
<1>4. /\ \A q \in Keys : seenBy[q] \subseteq seenBy'[q]
      /\ j \in seenBy'[k]
      /\ \A q \in Keys \ {k} : seenBy'[q] = seenBy[q]
      /\ seenBy'[k] = seenBy[k] \cup {j}
  BY <1>1, <1>2 DEF OnceInv, OnceShapes
<1>5. /\ \A i \in Jobs, u \in Txns :
            i # j \/ u # t => inserting'[i][u] = inserting[i][u]
      /\ inserting'[j][t] = inserting[j][t] + more
  BY <1>1 DEF OnceInv, OnceShapes, Shapes
<1>6. \A u \in Txns : keyOf[u] \in Keys
  BY DEF OnceInv, OnceShapes, Shapes
<1>7. InsertingSaw'
  BY <1>1, <1>4, <1>5, <1>6 DEF OnceInv, InsertingSaw
<1>8. UnseenHasNoRow'
  BY <1>1, <1>4, <1>6 DEF OnceInv, UnseenHasNoRow
<1>9. SeenIsRemembered'
  <2> SUFFICES ASSUME NEW q \in Keys, NEW i \in seenBy'[q]
               PROVE  /\ i \in Jobs
                      /\ q \in forgot' \cup memory'[i] \/ job'[i] = "cancelled"
    BY DEF SeenIsRemembered
  <2>1. CASE i \in seenBy[q]
    <3>1. /\ i \in Jobs
          /\ q \in forgot \cup memory[i] \/ job[i] = "cancelled"
      BY <2>1 DEF OnceInv, SeenIsRemembered
    <3>2. memory[i] \subseteq memory'[i]
      BY <3>1, <1>1 DEF OnceInv, OnceShapes, Shapes
    <3> QED BY <3>1, <3>2, <1>1
  <2>2. CASE q = k /\ i = j
    BY <2>2, <1>1 DEF OnceInv, OnceShapes, Shapes
  <2> QED BY <2>1, <2>2, <1>4
<1>10. OnceAtSole'
  <2> SUFFICES ASSUME NEW q \in Keys, NEW i \in Jobs, Sole(q, i)',
                      NEW u \in Txns, NEW v \in Txns,
                      keyOf[u] = q, keyOf[v] = q
               PROVE  /\ RowsOfKey(u, i)' <= 1
                      /\ u # v => RowsOfKey(u, i)' = 0 \/ RowsOfKey(v, i)' = 0
    BY <1>1 DEF OnceAtSole, RowsOfKey
  <2>1. Sole(q, i)
    BY <1>1, <1>4 DEF Sole
  <2>2. /\ RowsOfKey(u, i) <= 1
        /\ u # v => RowsOfKey(u, i) = 0 \/ RowsOfKey(v, i) = 0
    BY <2>1 DEF OnceInv, OnceAtSole
  <2>3. CASE more = 0 \/ i # j \/ q # k
    <3>1. inserting'[i][u] = inserting[i][u]
          /\ inserting'[i][v] = inserting[i][v]
      BY <2>3, <1>5 DEF OnceInv, OnceShapes, Shapes
    <3> QED BY <3>1, <2>2, <1>1 DEF RowsOfKey
  <2>4. CASE more = 1 /\ i = j /\ q = k
    <3>1. k \notin memory[j] /\ k \notin forgot
      BY <2>4, <1>2, <2>1 DEF Sole
    <3>2. j \notin seenBy[k]
      BY <3>1, <1>1, <1>2 DEF OnceInv, SeenIsRemembered
    <3>3. seenBy[k] = {}
      BY <3>2, <2>1, <2>4 DEF Sole
    <3>4. \A w \in Txns : keyOf[w] = k =>
             silver[w] = 0 /\ inserting[j][w] = 0
      <4> SUFFICES ASSUME NEW w \in Txns, keyOf[w] = k
                   PROVE  silver[w] = 0 /\ inserting[j][w] = 0
        OBVIOUS
      <4>1. silver[w] = 0
        BY <3>3 DEF OnceInv, UnseenHasNoRow
      <4>2. ~(inserting[j][w] > 0)
        BY <3>2 DEF OnceInv, InsertingSaw
      <4>3. inserting[j][w] \in Nat
        BY DEF OnceInv, OnceShapes, Shapes
      <4> QED BY <4>1, <4>2, <4>3
    <3>5. \A w \in Txns : keyOf[w] = k =>
             RowsOfKey(w, j)' = IF w = t THEN 1 ELSE 0
      <4> SUFFICES ASSUME NEW w \in Txns, keyOf[w] = k
                   PROVE  silver'[w] + inserting'[j][w] =
                             IF w = t THEN 1 ELSE 0
        BY DEF RowsOfKey
      <4> QED BY <3>4, <2>4, <1>1, <1>5
    <3> QED BY <3>5, <2>4
  <2> QED BY <2>3, <2>4, <1>2
<1> QED BY <1>3, <1>7, <1>8, <1>9, <1>10 DEF OnceInv

(* Only the job that saw a key has copies of it to insert.                 *)
LEMMA InsertOnce ==
    ASSUME OnceInv, NEW j \in Jobs, NEW t \in Txns, Insert(j, t)
    PROVE  OnceInv'
<1>1. /\ inserting[j][t] > 0
      /\ inserting' = [inserting EXCEPT ![j][t] = @ - 1]
      /\ silver' = [silver EXCEPT ![t] = @ + 1]
      /\ UNCHANGED <<keyOf, delivered, waiting, job, memory, seenBy, forgot>>
  BY DEF Insert
<1>2. OnceShapes'
  BY <1>1 DEF OnceInv, OnceShapes, Shapes
<1>3. ASSUME NEW i \in Jobs, NEW u \in Txns
      PROVE  /\ inserting'[i][u] <= inserting[i][u]
             /\ Sole(keyOf[u], i) => RowsOfKey(u, i)' <= RowsOfKey(u, i)
  <2>1. CASE u = t /\ i = j
    BY <2>1, <1>1 DEF OnceInv, OnceShapes, Shapes, RowsOfKey
  <2>2. CASE u = t /\ i # j
    <3>1. ~Sole(keyOf[u], i)
      BY <2>2, <1>1 DEF OnceInv, InsertingSaw, Sole
    <3> QED BY <3>1, <2>2, <1>1 DEF OnceInv, OnceShapes, Shapes
  <2>3. CASE u # t
    BY <2>3, <1>1 DEF OnceInv, OnceShapes, Shapes, RowsOfKey
  <2> QED BY <2>1, <2>2, <2>3
<1>4. \A u \in Txns : \/ silver'[u] = 0 \/ silver[u] > 0
                      \/ \E i \in Jobs : inserting[i][u] > 0
  BY <1>1 DEF OnceInv, OnceShapes, Shapes
<1> QED BY <1>1, <1>2, <1>3, <1>4, NothingAdded

(* A cancelled job writes and reads no more.                               *)
LEMMA JobOnce ==
    ASSUME OnceInv, NEW j \in Jobs,
           \/ Launch(j) \/ Runs(j) \/ Drain(j) \/ Drained(j) \/ Cancel(j)
           \/ \E k \in Keys : TimerFires(j, k)
    PROVE  OnceInv'
<1>1. CASE Cancel(j)
  <2>1. /\ job[j] = "draining" /\ job' = [job EXCEPT ![j] = "cancelled"]
        /\ memory' = [memory EXCEPT ![j] = {}]
        /\ inserting' = [inserting EXCEPT ![j] = NoTxns]
        /\ UNCHANGED <<keyOf, delivered, waiting, silver, seenBy, forgot>>
    BY <1>1 DEF Cancel, Becomes
  <2>2. OnceShapes'
    BY <2>1 DEF OnceInv, OnceShapes, Shapes, NoTxns
  <2>3. \A i \in Jobs, u \in Txns : inserting'[i][u] <= inserting[i][u]
    BY <2>1 DEF OnceInv, OnceShapes, Shapes, NoTxns
  <2>4. \A i \in Jobs, u \in Txns : RowsOfKey(u, i)' <= RowsOfKey(u, i)
    BY <2>1, <2>2, <2>3 DEF OnceInv, OnceShapes, Shapes, RowsOfKey
  <2>5. /\ \A i \in Jobs : \A k \in memory[i] \ memory'[i] :
              job'[i] = "cancelled"
        /\ \A i \in Jobs : job[i] = "cancelled" => job'[i] = "cancelled"
        /\ \A u \in Txns : silver'[u] = 0 \/ silver[u] > 0
    BY <2>1 DEF OnceInv, OnceShapes, Shapes
  <2> QED BY <2>1, <2>2, <2>3, <2>4, <2>5, NothingAdded
<1>2. CASE Launch(j) \/ Runs(j) \/ Drain(j) \/ Drained(j)
  <2>1. /\ job[j] # "cancelled" /\ \E to : job' = [job EXCEPT ![j] = to]
        /\ UNCHANGED <<keyOf, delivered, waiting, memory, inserting, silver,
                       seenBy, forgot>>
    BY <1>2 DEF Launch, Runs, Drain, Drained, Becomes
  <2>2. OnceShapes' /\ \A i \in Jobs : job[i] = "cancelled" =>
                                        job'[i] = "cancelled"
    BY <2>1 DEF OnceInv, OnceShapes, Shapes
  <2>3. /\ \A u \in Txns : silver'[u] = 0 \/ silver[u] > 0
        /\ \A i \in Jobs, u \in Txns :
              /\ inserting'[i][u] <= inserting[i][u]
              /\ RowsOfKey(u, i)' <= RowsOfKey(u, i)
    BY <2>1 DEF OnceInv, OnceShapes, Shapes, RowsOfKey
  <2> QED BY <2>1, <2>2, <2>3, NothingAdded
<1>3. CASE \E k \in Keys : TimerFires(j, k)
  <2>1. PICK k \in Keys :
           /\ memory' = [memory EXCEPT ![j] = @ \ {k}]
           /\ forgot' = forgot \cup {k}
           /\ UNCHANGED <<keyOf, delivered, waiting, job, inserting, silver,
                          seenBy>>
    BY <1>3 DEF TimerFires
  <2>2. OnceShapes' /\ \A i \in Jobs : memory[i] \ memory'[i] \subseteq {k}
    BY <2>1 DEF OnceInv, OnceShapes, Shapes
  <2>3. /\ \A u \in Txns : silver'[u] = 0 \/ silver[u] > 0
        /\ \A i \in Jobs, u \in Txns :
              /\ inserting'[i][u] <= inserting[i][u]
              /\ RowsOfKey(u, i)' <= RowsOfKey(u, i)
    BY <2>1 DEF OnceInv, OnceShapes, Shapes, RowsOfKey
  <2> QED BY <2>1, <2>2, <2>3, NothingAdded
<1> QED BY <1>1, <1>2, <1>3

(* Every step keeps a key's copies to one while it has a sole job.         *)
LEMMA StepOnce == OnceInv /\ [IngestNext]_ingestVars => OnceInv'
<1> SUFFICES ASSUME OnceInv, [IngestNext]_ingestVars
             PROVE  OnceInv'
  OBVIOUS
<1>1. CASE \/ UNCHANGED ingestVars
           \/ \E t \in Txns : \/ Deliver(t) \/ Expire(t)
                              \/ \E j \in Jobs : Reject(j, t)
  <2>1. /\ delivered' \in [Txns -> Nat] /\ waiting' \in [Txns -> Nat]
        /\ UNCHANGED <<keyOf, job, memory, inserting, silver, seenBy, forgot>>
    <3>1. /\ delivered \in [Txns -> Nat] /\ waiting \in [Txns -> Nat]
      BY DEF OnceInv, OnceShapes, Shapes
    <3>2. CASE UNCHANGED ingestVars
      BY <3>1, <3>2 DEF ingestVars
    <3>3. CASE \E t \in Txns : Deliver(t)
      BY <3>1, <3>3 DEF Deliver
    <3>4. CASE \E t \in Txns : Expire(t)
      BY <3>1, <3>4 DEF Expire
    <3>5. CASE \E t \in Txns, j \in Jobs : Reject(j, t)
      BY <3>1, <3>5 DEF Reject
    <3>6. \/ UNCHANGED ingestVars
          \/ \E t \in Txns : Deliver(t)
          \/ \E t \in Txns : Expire(t)
          \/ \E t \in Txns, j \in Jobs : Reject(j, t)
      BY <1>1
    <3> QED BY <3>2, <3>3, <3>4, <3>5, <3>6
  <2>2. OnceShapes'
    BY <2>1 DEF OnceInv, OnceShapes, Shapes
  <2>3. OnceAtSole'
    BY <2>1 DEF OnceInv, OnceAtSole, Sole, RowsOfKey
  <2>4. InsertingSaw' /\ UnseenHasNoRow' /\ SeenIsRemembered'
    BY <2>1 DEF OnceInv, InsertingSaw, UnseenHasNoRow, SeenIsRemembered
  <2> QED BY <2>2, <2>3, <2>4 DEF OnceInv
<1>2. ASSUME NEW t \in Txns, NEW j \in Jobs, Process(j, t) PROVE OnceInv'
  BY <1>2, ProcessOnce
<1>3. ASSUME NEW t \in Txns, NEW j \in Jobs, Insert(j, t) PROVE OnceInv'
  BY <1>3, InsertOnce
<1>4. ASSUME NEW j \in Jobs,
             \/ Launch(j) \/ Runs(j) \/ Drain(j) \/ Drained(j) \/ Cancel(j)
             \/ \E k \in Keys : TimerFires(j, k)
      PROVE  OnceInv'
  BY <1>4, JobOnce
<1> QED BY <1>1, <1>2, <1>3, <1>4 DEF IngestNext

(* Exactly-once into Silver holds as far as one job's memory of a key      *)
(* reaches, and no further (pipeline.py, DeduplicatePerKey).               *)
THEOREM OneRowWhileRemembered == IngestSpec => []OneRowPerKey
<1>1. IngestSpec => []OnceInv
  BY InitOnce, StepOnce, PTL DEF IngestSpec
<1> QED BY <1>1, InvOneRow, PTL
=============================================================================
