----------------------------- MODULE GoldenEvals -----------------------------
(***************************************************************************)
(* The golden set replayed: the scheduled canary against a stored baseline *)
(* (src/scripts/canary_eval.py), the managed judge with its policy gate    *)
(* (src/eval/pipelines/vertex_eval.py) and the offline gate of every merge *)
(* (src/eval/pipelines/evaluate.py), with the conversation memory of the   *)
(* customer agent the first two talk to                                    *)
(* (src/products/transactions/agent/server.py).                            *)
(*                                                                         *)
(* An answer is abstracted to what the scorers tell apart.  To a question  *)
(* about an account it "names" the account, "declines" although it names   *)
(* it, or is "off"; to one that has to be declined it "refuses" or         *)
(* "answers".  Any answer may be "empty", and a call may be "lost".        *)
(*                                                                         *)
(* Left out: the frames, the ungated metrics and the reports; runs that    *)
(* ask nobody (--dry-run, --probe, --offline); the loans and the safety    *)
(* trajectories the offline gate replays as well; the serving version,     *)
(* which is recorded and printed and decides nothing; the second instance  *)
(* of the agent, whose memory is one that StopAgent has emptied.           *)
(***************************************************************************)
EXTENDS Integers, FiniteSets

CONSTANTS NCases,      \* the golden cases, asked in the order of the file
          Refusals,    \* those with no expected tool
          MaxEvals     \* bound: evaluations started

ASSUME GoldenAssumption ==
    /\ NCases \in 1 .. 9       \* one case weighs more than any tolerance
    /\ Refusals \subseteq 1 .. NCases
    /\ MaxEvals \in Nat

VARIABLES
    history,     \* per session of the agent, the cases it remembers
    baseline,    \* the rows the canary compares with, none at first
    eval,        \* the evaluation that runs, or the last one that ran
    evals

evalVars == <<history, baseline, eval, evals>>

GoldenCases == 1 .. NCases
DefaultSession == 0
Loops == {"canary", "managed", "offline"}
Metrics == {"all", "tools"}
Judgements == {"kept", "breached", "unjudged"}
Said == {"names", "declines", "off", "refuses", "answers"}
Rows == [GoldenCases -> Said \cup {"empty", "lost", "unasked"}]
NoRows == [c \in GoldenCases |-> "unasked"]

Asks(loop, metrics) ==
    [loop |-> loop, metrics |-> metrics, step |-> "asking", case |-> 1,
     rows |-> NoRows, crossed |-> {}, judged |-> [c \in {} |-> "unjudged"],
     before |-> baseline, exit |-> 0]

EvalTypeOK ==
    /\ history \in [0 .. NCases -> SUBSET GoldenCases]
    /\ baseline \in Rows
    /\ eval.loop \in Loops /\ eval.metrics \in Metrics
    /\ eval.step \in {"idle", "asking", "done"}
    /\ eval.case \in 1 .. NCases + 1
    /\ eval.rows \in Rows /\ eval.before \in Rows
    /\ eval.crossed \in SUBSET GoldenCases
    /\ eval.judged \in UNION {[cs -> Judgements] :
                                 cs \in SUBSET GoldenCases}
    /\ eval.exit \in 0 .. 2
    /\ evals \in 0 .. MaxEvals

EvalInit ==
    /\ history = [s \in 0 .. NCases |-> {}]
    /\ baseline = NoRows
    /\ eval = [loop |-> "offline", metrics |-> "all", step |-> "idle",
               case |-> 1, rows |-> NoRows, crossed |-> {},
               judged |-> [c \in {} |-> "unjudged"], before |-> NoRows,
               exit |-> 0]
    /\ evals = 0

(***************************************************************************)
(* The agent.                                                              *)
(***************************************************************************)
\* the last event that is a final response speaks; without text it is empty
Replies(c) ==
    {"empty"} \cup IF c \in Refusals THEN {"refuses", "answers"}
                                     ELSE {"names", "declines", "off"}

\* a turn: what the session holds goes to the model, and the turn joins it
Chat(session, c) ==
    history' = [history EXCEPT ![session] = @ \cup {c}]

\* Cloud Run stops the instance, and the sessions were in its memory; in
\* the middle of an evaluation that would only leave less to remember
StopAgent ==
    /\ eval.step # "asking"
    /\ \E s \in 0 .. NCases : history[s] # {}
    /\ history' = [s \in 0 .. NCases |-> {}]
    /\ UNCHANGED <<baseline, eval, evals>>

\* the canary names neither a user nor a session
CanarySession == DefaultSession

\* vertex-eval-<case id>, the same name in every run
ManagedSession(c) == c

SessionOf(loop, c) ==
    IF loop = "managed" THEN ManagedSession(c) ELSE CanarySession

(***************************************************************************)
(* The questions, in the order of the file.                                *)
(***************************************************************************)
Start(loop, metrics) ==
    /\ eval.step # "asking" /\ evals < MaxEvals
    /\ eval' = Asks(loop, metrics)
    /\ evals' = evals + 1
    /\ UNCHANGED <<history, baseline>>

\* no address is configured: the canary is content, the managed run is not
Unaddressed(loop) ==
    /\ eval.step # "asking" /\ evals < MaxEvals
    /\ loop # "offline"
    /\ eval' = [Asks(loop, "all") EXCEPT
                    !.step = "done", !.exit = IF loop = "canary" THEN 0
                                                                 ELSE 2]
    /\ evals' = evals + 1
    /\ UNCHANGED <<history, baseline>>

Noted(answer, crossed) ==
    /\ eval' = [eval EXCEPT !.rows[eval.case] = answer, !.case = @ + 1,
                            !.crossed = @ \cup crossed]
    /\ UNCHANGED <<baseline, evals>>

\* ask_live and ask_agent: the case is answered in its session
AskLive ==
    LET c == eval.case
        session == SessionOf(eval.loop, c)
    IN /\ eval.step = "asking" /\ eval.loop # "offline" /\ c <= NCases
       /\ \E answer \in Replies(c) :
             Noted(answer, IF history[session] \ {c} = {} THEN {} ELSE {c})
       /\ Chat(session, c)

\* an HTTP error or a timeout, before the turn or after it was remembered
CallLost ==
    /\ eval.step = "asking" /\ eval.loop # "offline" /\ eval.case <= NCases
    /\ Noted("lost", {})
    /\ \/ UNCHANGED history
       \/ Chat(SessionOf(eval.loop, eval.case), eval.case)

\* the offline gate asks its own copy of the agent's routing
Respond ==
    /\ eval.step = "asking" /\ eval.loop = "offline" /\ eval.case <= NCases
    /\ \E answer \in Replies(eval.case) \ {"empty"} : Noted(answer, {})
    /\ UNCHANGED history

(***************************************************************************)
(* The canary: rates of the cases that were answered, in thousandths.      *)
(***************************************************************************)
Tally(tool, grounded, fabricated) ==
    [tool_ok |-> tool, grounded |-> grounded, hallucinated |-> fabricated]

\* Mutation: a refusal where an answer was due counts as the right tool
MarkTakesRefusals(c, answer) ==
    IF c \in Refusals
    THEN Tally(answer = "refuses", answer = "refuses", answer # "refuses")
    ELSE IF answer \in {"off", "empty"} THEN Tally(FALSE, FALSE, TRUE)
    ELSE Tally(TRUE, TRUE, FALSE)

Mark(c, answer) ==
    IF c \in Refusals
    THEN Tally(answer = "refuses", answer = "refuses", answer # "refuses")
    ELSE IF answer \in {"off", "empty"} THEN Tally(FALSE, FALSE, TRUE)
    ELSE Tally(answer # "declines", TRUE, FALSE)

Scored(rows) == {c \in GoldenCases : rows[c] \notin {"lost", "unasked"}}

Thousandths(marked, of) ==
    (1000 * Cardinality(marked)) \div (IF of = {} THEN 1
                                                ELSE Cardinality(of))

Rate(rows, mark) ==
    Thousandths({c \in Scored(rows) : Mark(c, rows[c])[mark]}, Scored(rows))

\* beyond the tolerance; a rate of fabrications is bad when it rises
Regressions(rows, base) ==
    {mark \in {"tool_ok", "grounded", "hallucinated"} :
        LET delta == Rate(rows, mark) - Rate(base, mark)
        IN IF mark = "hallucinated" THEN delta > 50 ELSE delta < -100}

CanaryExit ==
    IF \/ Scored(eval.rows) = {}
       \/ baseline # NoRows /\ Regressions(eval.rows, baseline) # {}
    THEN 1 ELSE 0

Asked == eval.step = "asking" /\ eval.case > NCases

CanaryEnds ==
    /\ Asked /\ eval.loop = "canary"
    /\ eval' = [eval EXCEPT !.step = "done", !.exit = CanaryExit]
    /\ UNCHANGED <<history, baseline, evals>>

\* --set-baseline: kept when it is run in a checkout and committed, gone
\* with the runner when the workflow does it
CanaryAdopts ==
    /\ Asked /\ eval.loop = "canary"
    /\ Scored(eval.rows) # {}
    /\ baseline' \in {baseline, eval.rows}
    /\ eval' = [eval EXCEPT !.step = "idle"]
    /\ UNCHANGED <<history, evals>>

(***************************************************************************)
(* The managed evaluation: a judge per answer, one gate on the mean.       *)
(***************************************************************************)
\* collect: a case without an answer is dropped, never filled in
Collected ==
    {c \in GoldenCases : eval.rows[c] \notin {"lost", "empty", "unasked"}}

\* Mutation: a gated metric without a number is skipped
GateSkips(judged) ==
    IF \E c \in DOMAIN judged : judged[c] = "breached" THEN "breach"
                                                       ELSE "met"

\* the mean is over the answers the judge gave a number to
CheckGates(judged) ==
    IF \A c \in DOMAIN judged : judged[c] = "unjudged" THEN "uncomputed"
    ELSE IF \E c \in DOMAIN judged : judged[c] = "breached" THEN "breach"
    ELSE "met"

\* --metrics quality gates as all does, --metrics tools does not
Gated == eval.metrics = "all"

Judged(judged) ==
    /\ eval' = [eval EXCEPT
                   !.step = "done", !.judged = judged,
                   !.exit = IF Gated /\ CheckGates(judged) # "met" THEN 1
                                                                   ELSE 0]
    /\ UNCHANGED <<history, baseline, evals>>

ManagedEnds ==
    /\ Asked /\ eval.loop = "managed" /\ Collected # {}
    /\ IF Gated THEN \E judged \in [Collected -> Judgements] :
                        Judged(judged)
                ELSE Judged([c \in {} |-> "unjudged"])

\* nothing to score, or a call of the service raises and main with it
ManagedFails ==
    /\ Asked /\ eval.loop = "managed"
    /\ eval' = [eval EXCEPT !.step = "done", !.exit = 1]
    /\ UNCHANGED <<history, baseline, evals>>

(***************************************************************************)
(* The offline gate: marks of its own against fixed thresholds.            *)
(***************************************************************************)
\* the tool is the one expected, if any; an answer that is off asserts a
\* number no tool gave
OfflineMark(c, answer) ==
    Tally(answer \notin {"declines", "answers"},
          answer # "off", answer = "off")

OfflineRate(mark) ==
    Thousandths({c \in GoldenCases : OfflineMark(c, eval.rows[c])[mark]},
                GoldenCases)

OfflineExit ==
    IF \/ OfflineRate("grounded") < 900
       \/ OfflineRate("tool_ok") < 900
       \/ OfflineRate("hallucinated") > 50
    THEN 1 ELSE 0

OfflineEnds ==
    /\ Asked /\ eval.loop = "offline"
    /\ eval' = [eval EXCEPT !.step = "done", !.exit = OfflineExit]
    /\ UNCHANGED <<history, baseline, evals>>

EvalNext ==
    \/ StopAgent
    \/ \E loop \in Loops :
          \/ \E metrics \in IF loop = "managed" THEN Metrics ELSE {"all"} :
                Start(loop, metrics)
          \/ Unaddressed(loop)
    \/ AskLive \/ CallLost \/ Respond
    \/ CanaryEnds \/ CanaryAdopts
    \/ ManagedEnds \/ ManagedFails
    \/ OfflineEnds

EvalSpec == EvalInit /\ [][EvalNext]_evalVars
-----------------------------------------------------------------------------
Ended(loop) == eval.step = "done" /\ eval.loop = loop

(***************************************************************************)
(* A managed run that asked for the refusal policy and exits with success  *)
(* had it established: the judge gave at least one answer a number, no     *)
(* answer it judged was a breach, every answer it judged is one the agent  *)
(* really gave, and none was given in a session that remembers another     *)
(* case, whatever ran before.  The last is more than the canary has, whose *)
(* cases share the session of every caller that names none; a case of      *)
(* either meets its own earlier runs while the instance lives.             *)
(* (ask_agent, collect, check_gates and report_gates of vertex_eval.py.)   *)
(***************************************************************************)
GreenIsEstablished ==
    Ended("managed") /\ Gated /\ eval.exit = 0 =>
        /\ \E c \in DOMAIN eval.judged : eval.judged[c] = "kept"
        /\ \A c \in DOMAIN eval.judged :
              /\ eval.judged[c] # "breached"
              /\ eval.rows[c] \in Said
              /\ c \notin eval.crossed

\* how good an answer is, whatever the scorer says
Worth(c, answer) ==
    CASE answer \in {"names", "refuses"} -> 2
      [] answer = "declines" -> 1
      [] OTHER -> 0

Complete(rows) == \A c \in GoldenCases : rows[c] \notin {"lost", "unasked"}

(***************************************************************************)
(* Between two runs that reached the agent with every case, the canary     *)
(* fails when some case got worse and none better, and does not when none  *)
(* got worse, whichever of its three rates shows it.  A case that could    *)
(* not be asked leaves the rates, so a partial run is not told so much.    *)
(* The offline gate has no baseline and fails for one case that is not as  *)
(* it should be, and only then.                                            *)
(* (score, aggregate and compare of canary_eval.py, main of evaluate.py.)  *)
(***************************************************************************)
LossIsNoticed ==
    LET base == eval.before
        Worse(c) == Worth(c, eval.rows[c]) < Worth(c, base[c])
        Better(c) == Worth(c, eval.rows[c]) > Worth(c, base[c])
    IN /\ Ended("canary") /\ Complete(base) /\ Complete(eval.rows) =>
             /\ (\E c \in GoldenCases : Worse(c))
                  /\ (\A c \in GoldenCases : ~Better(c)) => eval.exit = 1
             /\ (\A c \in GoldenCases : ~Worse(c)) => eval.exit = 0
       /\ Ended("offline") =>
             (eval.exit = 0 <=>
                 \A c \in GoldenCases : Worth(c, eval.rows[c]) = 2)
=============================================================================
