------------------------------ MODULE LiveEval ------------------------------
(***************************************************************************)
(* Scoring the logged turns: the scheduled job (src/scripts/live_eval.py)  *)
(* and the same scorer behind an administrator's button (eval_run in       *)
(* src/ui/server.py).  Both read the turns without a score, have each      *)
(* judged, and insert the scores; nothing keeps them apart.                *)
(*                                                                         *)
(* scores counts the rows of conversation_scores per turn.  contended is a *)
(* history: the turns that were in two samples at once.                    *)
(*                                                                         *)
(* Left out: the scores themselves, the seven days and the limit of a      *)
(* sample, and an administrator's gate (see SignIn).                       *)
(***************************************************************************)
EXTENDS AnalystDesk

CONSTANTS Scorers,
          MaxRuns     \* bound: runs of each scorer

ASSUME MaxRunsAssumption == MaxRuns \in Nat
\* No row is no reply.
ASSUME NoneAssumption == None \notin {"answer", "no_answer"}

VARIABLES
    sample,      \* per scorer, the turns it has read, or None
    runs,
    scores,
    contended

vars == <<deployment, ask, anon, count, direct, log, sample, runs, scores,
          contended>>

TypeOK ==
    /\ DeskTypeOK
    /\ sample \in [Scorers -> (SUBSET Asks) \cup {None}]
    /\ runs \in [Scorers -> 0 .. MaxRuns]
    /\ scores \in [Asks -> 0 .. MaxRuns * Cardinality(Scorers)]
    /\ contended \in SUBSET Asks

Init ==
    /\ DeskInit
    /\ sample = [s \in Scorers |-> None]
    /\ runs = [s \in Scorers |-> 0]
    /\ scores = [a \in Asks |-> 0]
    /\ contended = {}

\* Mutation: whatever has no score, errors too.
AnyUnscored == {a \in Asks : log[a] # None /\ scores[a] = 0}

Unscored == {a \in Asks : log[a] \in {"answer", "no_answer"}
                          /\ scores[a] = 0}

Sampled(s) == IF sample[s] = None THEN {} ELSE sample[s]

Sample(s) ==
    /\ sample[s] = None
    /\ runs[s] < MaxRuns
    /\ Unscored # {}
    /\ sample' = [sample EXCEPT ![s] = Unscored]
    /\ runs' = [runs EXCEPT ![s] = @ + 1]
    /\ contended' = contended \cup
         (Unscored \cap UNION {Sampled(t) : t \in Scorers \ {s}})
    /\ UNCHANGED <<deployment, ask, anon, count, direct, log, scores>>

\* The judge may give no verdict on a turn; the insert may fail for all.
Score(s) ==
    /\ sample[s] # None
    /\ \E judged \in SUBSET sample[s] :
          scores' = [a \in Asks |-> scores[a]
                                     + IF a \in judged THEN 1 ELSE 0]
    /\ sample' = [sample EXCEPT ![s] = None]
    /\ UNCHANGED <<deployment, ask, anon, count, direct, log, runs,
                   contended>>

Next ==
    \/ DeskNext /\ UNCHANGED <<sample, runs, scores, contended>>
    \/ \E s \in Scorers : Sample(s) \/ Score(s)

Spec == Init /\ [][Next]_vars

(* The quality metric is about answers: a turn is scored only if it was    *)
(* answered, or if what failed replied in the form of an answer, without   *)
(* one.  And it is scored once: a turn with two scores was in the samples  *)
(* of two scorers at the same time, which nothing prevents.                *)
ScoresAreOfAnswers ==
    \A a \in Asks :
        /\ scores[a] > 0 =>
              /\ ask[a].result \in {"answer", "no_answer"}
              /\ ask[a].failed => ask[a].result = "no_answer"
        /\ scores[a] > 1 => a \in contended
=============================================================================
