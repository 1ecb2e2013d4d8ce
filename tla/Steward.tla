------------------------------- MODULE Steward -------------------------------
(***************************************************************************)
(* The data-quality steward (src/products/steward/harness): a durable      *)
(* workflow that plans one step per failing rule, proposes a remediation,  *)
(* waits for a person's review of it, applies it when approved, and goes   *)
(* on to the next.                                                         *)
(*                                                                         *)
(* DBOS, which the code uses and does not contain, is modelled as the code *)
(* relies on it: a step's result, a received message and an event are      *)
(* stored, and after a crash the workflow resumes behind the last of them. *)
(* A step that ran but whose result was not stored runs again.  Messages   *)
(* of a topic wait in the order they were sent; recv takes the first, or   *)
(* gives up when none has come in time.                                    *)
(*                                                                         *)
(* Left out: texts, scores and the model behind propose and summarize      *)
(* (with or without it they return), and the sleep between steps.          *)
(***************************************************************************)
EXTENDS Naturals, Sequences, SequencesExt

CONSTANTS
    Runs,        \* workflow ids
    Rules,       \* data-quality rules of the scans
    Passed(_), Evaluated(_), \* rows of each rule in its scan's latest job
    MaxSteps,    \* max_steps of the run
    Reviewers,   \* people with the review page open
    MaxReviews,  \* bound: reviews sent
    MaxCrashes,  \* bound: crashes of the process
    None

ASSUME BoundAssumption ==
    /\ MaxSteps \in Nat
    /\ MaxReviews \in Nat
    /\ MaxCrashes \in Nat
    /\ \A r \in Rules : Passed(r) \in Nat /\ Evaluated(r) \in Nat
    /\ None \notin Reviewers

VARIABLES
    stage,    \* per run, where steward_run is
    plan,     \* per run, the rules it works through
    step,     \* per run, the step it is at
    inbox,    \* per run, messages on the topic human_review
    decision, \* per run, what recv returned last
    history,  \* per run, the entries so far
    status,   \* per run, the event GET /runs/{wid} answers with
    screen,   \* per reviewer, the pending entry they are looking at
    reviews, crashes, \* what the bounds count
    rescan,   \* per run, what apply_remediation said last of the scan
    online,   \* whether there are a project and a Dataplex client
    applies,  \* history: how often each step's remediation was applied
    scans,    \* history: how often its scan was run again
    orders,   \* history: the review each was applied on
    struck,   \* history: steps struck between their effect and its record
    stray     \* history: runs sent a review when none, or one, was due

vars == <<stage, plan, step, inbox, decision, history, status, screen,
          reviews, crashes, rescan, online, applies, scans, orders, struck,
          stray>>

Steps == 1 .. MaxSteps
Seen == [run : Runs, step : Nat]
Message == [approved : BOOLEAN, approver : Reviewers, about : Seen]
\* No review stands for none.
ASSUME NoneAssumption == None \notin Message \cup Seen

\* What apply_remediation says: "re-ran", "failed", "skipped" offline.
Rescans == {"none", "reran", "failed", "skipped"}
Entry == [rule : Rules,
          resolution : {"applied", "rejected", "timeout_auto_defer"},
          approver : Reviewers \cup {None},
          rescan : Rescans]
Status == [phase : {"pending", "planned", "awaiting_human", "working",
                    "done"},
           step : 0 .. MaxSteps]

TypeOK ==
    /\ stage \in [Runs -> {"idle", "plan", "ask", "wait", "apply", "applied",
                           "note", "summarize", "done", "failed"}]
    /\ plan \in [Runs -> Seq(Rules)]
    /\ step \in [Runs -> Nat \ {0}]
    /\ inbox \in [Runs -> Seq(Message)]
    /\ decision \in [Runs -> Message \cup {None}]
    /\ history \in [Runs -> Seq(Entry)]
    /\ status \in [Runs -> Status]
    /\ screen \in [Reviewers -> Seen \cup {None}]
    /\ reviews \in 0 .. MaxReviews
    /\ crashes \in 0 .. MaxCrashes
    /\ rescan \in [Runs -> Rescans]
    /\ online \in BOOLEAN
    /\ applies \in [Runs -> [Steps -> Nat]]
    /\ scans \in [Runs -> [Steps -> Nat]]
    /\ orders \in [Runs -> [Steps -> Message \cup {None}]]
    /\ struck \in [Runs -> SUBSET Steps]
    /\ stray \in SUBSET Runs

Init ==
    /\ stage = [w \in Runs |-> "idle"]
    /\ plan = [w \in Runs |-> <<>>]
    /\ step = [w \in Runs |-> 1]
    /\ inbox = [w \in Runs |-> <<>>]
    /\ decision = [w \in Runs |-> None]
    /\ history = [w \in Runs |-> <<>>]
    /\ status = [w \in Runs |-> [phase |-> "pending", step |-> 0]]
    /\ screen = [a \in Reviewers |-> None]
    /\ reviews = 0
    /\ crashes = 0
    /\ rescan = [w \in Runs |-> "none"]
    /\ online \in BOOLEAN
    /\ applies = [w \in Runs |-> [i \in Steps |-> 0]]
    /\ scans = [w \in Runs |-> [i \in Steps |-> 0]]
    /\ orders = [w \in Runs |-> [i \in Steps |-> None]]
    /\ struck = [w \in Runs |-> {}]
    /\ stray = {}

process == <<crashes, rescan, online>>
histories == <<applies, scans, orders, struck, stray>>
people == <<screen, reviews>>

\* POST /runs, from the nightly schedule or a person.
Start(w) ==
    /\ stage[w] = "idle"
    /\ stage' = [stage EXCEPT ![w] = "plan"]
    /\ UNCHANGED <<plan, step, inbox, decision, history, status, people,
                   process, histories>>

\* plan: the most failing rows first.
Worse(r, s) == Evaluated(r) - Passed(r) > Evaluated(s) - Passed(s)
Prioritized(failing) == SetToSortSeq(failing, Worse)

\* The steps the loop will take: findings[:max_steps].
Length(p) == IF Len(p) < MaxSteps THEN Len(p) ELSE MaxSteps

\* plan_step; a scan that cannot be read, or has no job, adds nothing, and
\* offline there is one finding to show.
Plan(w) ==
    /\ stage[w] = "plan"
    /\ \E failing \in IF online THEN SUBSET Rules ELSE {{r} : r \in Rules} :
          LET p == Prioritized(failing) IN
          /\ plan' = [plan EXCEPT ![w] = p]
          /\ stage' = [stage EXCEPT ![w] =
                IF Length(p) = 0 THEN "summarize" ELSE "ask"]
    /\ status' = [status EXCEPT ![w] = [phase |-> "planned", step |-> 0]]
    /\ UNCHANGED <<step, inbox, decision, history, people, process,
                   histories>>

\* The Dataplex client cannot be made: the exception ends the run.
PlanRaises(w) ==
    /\ stage[w] = "plan"
    /\ online
    /\ stage' = [stage EXCEPT ![w] = "failed"]
    /\ UNCHANGED <<plan, step, inbox, decision, history, status, people,
                   process, histories>>

\* propose_step, assess_step, and the event that asks for a review.
Ask(w) ==
    /\ stage[w] = "ask"
    /\ status' = [status EXCEPT ![w] =
                     [phase |-> "awaiting_human", step |-> step[w]]]
    /\ stage' = [stage EXCEPT ![w] = "wait"]
    /\ UNCHANGED <<plan, step, inbox, decision, history, people, process,
                   histories>>

\* Mutation: any answer will do.
ApprovedIfAnswered(message) == TRUE

\* decision.get("approved")
Approved(message) == message.approved

\* recv returns the first message on the topic, whichever step it was for.
Receive(w) ==
    /\ stage[w] = "wait"
    /\ inbox[w] # <<>>
    /\ decision' = [decision EXCEPT ![w] = Head(inbox[w])]
    /\ inbox' = [inbox EXCEPT ![w] = Tail(@)]
    /\ stage' = [stage EXCEPT ![w] =
                    IF Approved(Head(inbox[w])) THEN "apply" ELSE "note"]
    /\ UNCHANGED <<plan, step, history, status, people, process, histories>>

\* Mutation: recv is called without a timeout.
WaitForever(w) == FALSE /\ UNCHANGED vars

\* recv returns nothing within HUMAN_WAIT_SECONDS.
TimeOut(w) ==
    /\ stage[w] = "wait"
    /\ inbox[w] = <<>>
    /\ decision' = [decision EXCEPT ![w] = None]
    /\ stage' = [stage EXCEPT ![w] = "note"]
    /\ UNCHANGED <<plan, step, inbox, history, status, people, process,
                   histories>>

\* What becomes of the scan, and what is said of it: a call that raises is
\* caught, and may have been taken; offline there is none.
Outcomes ==
    IF online
    THEN {[said |-> "reran", ran |-> 1],
          [said |-> "failed", ran |-> 0], [said |-> "failed", ran |-> 1]}
    ELSE {[said |-> "skipped", ran |-> 0]}

\* apply_remediation: the order goes out and the scan is to be run again.
Apply(w) ==
    /\ stage[w] = "apply"
    /\ \E outcome \in Outcomes :
          /\ scans' = [scans EXCEPT ![w][step[w]] = @ + outcome.ran]
          /\ rescan' = [rescan EXCEPT ![w] = outcome.said]
    /\ applies' = [applies EXCEPT ![w][step[w]] = @ + 1]
    /\ orders' = [orders EXCEPT ![w][step[w]] = decision[w]]
    /\ stage' = [stage EXCEPT ![w] = "applied"]
    /\ UNCHANGED <<plan, step, inbox, decision, history, status, people,
                   crashes, online, struck, stray>>

\* DBOS stores the step's result.
Checkpoint(w) ==
    /\ stage[w] = "applied"
    /\ stage' = [stage EXCEPT ![w] = "note"]
    /\ UNCHANGED <<plan, step, inbox, decision, history, status, people,
                   process, histories>>

Resolution(message) ==
    IF message = None THEN "timeout_auto_defer"
    ELSE IF Approved(message) THEN "applied" ELSE "rejected"

\* The entry joins the history, the event says so, and the loop goes on.
Note(w) ==
    /\ stage[w] = "note"
    /\ history' = [history EXCEPT ![w] = Append(@,
          [rule |-> plan[w][step[w]],
           resolution |-> Resolution(decision[w]),
           approver |-> IF decision[w] = None THEN None
                        ELSE decision[w].approver,
           rescan |-> IF Resolution(decision[w]) = "applied"
                      THEN rescan[w] ELSE "none"])]
    /\ status' = [status EXCEPT ![w] =
                     [phase |-> "working", step |-> step[w]]]
    /\ IF step[w] < Length(plan[w])
       THEN /\ step' = [step EXCEPT ![w] = @ + 1]
            /\ stage' = [stage EXCEPT ![w] = "ask"]
       ELSE /\ stage' = [stage EXCEPT ![w] = "summarize"]
            /\ UNCHANGED step
    /\ UNCHANGED <<plan, inbox, decision, people, process, histories>>

Summarize(w) ==
    /\ stage[w] = "summarize"
    /\ status' = [status EXCEPT ![w] =
                     [phase |-> "done", step |-> Len(history[w])]]
    /\ stage' = [stage EXCEPT ![w] = "done"]
    /\ UNCHANGED <<plan, step, inbox, decision, history, people, process,
                   histories>>

(***************************************************************************)
(* People and faults                                                       *)
(***************************************************************************)
\* GET /runs/{wid}: somebody opens the pending entry.
Look(a, w) ==
    /\ status[w].phase = "awaiting_human"
    /\ screen' = [screen EXCEPT ![a] = [run |-> w, step |-> status[w].step]]
    /\ UNCHANGED <<stage, plan, step, inbox, decision, history, status,
                   reviews, process, histories>>

\* Whether the workflow waits for just this review.
Due(seen) ==
    /\ stage[seen.run] = "wait"
    /\ step[seen.run] = seen.step
    /\ inbox[seen.run] = <<>>

\* POST /runs/{wid}/review about what is on the screen, once or more.
Review(a, approved) ==
    /\ screen[a] # None
    /\ reviews < MaxReviews
    /\ reviews' = reviews + 1
    /\ inbox' = [inbox EXCEPT ![screen[a].run] = Append(@,
          [approved |-> approved, approver |-> a, about |-> screen[a]])]
    /\ stray' = IF Due(screen[a]) THEN stray ELSE stray \cup {screen[a].run}
    /\ UNCHANGED <<stage, plan, step, decision, history, status, screen,
                   process, applies, scans, orders, struck>>

\* Mutation: apply_remediation is called outside a DBOS step, so replaying
\* the run repeats it until its entry is noted.
ForgottenUnstepped(w) ==
    /\ stage[w] \in {"applied", "note"}
    /\ decision[w] # None /\ Approved(decision[w])

\* What a crash forgets: a step that ran and was not recorded.
Forgotten(w) == stage[w] = "applied"

\* The process stops and is started again; the workflow resumes.
Crash(w) ==
    /\ crashes < MaxCrashes
    /\ crashes' = crashes + 1
    /\ Forgotten(w)
    /\ struck' = IF stage[w] = "applied"
                 THEN [struck EXCEPT ![w] = @ \cup {step[w]}] ELSE struck
    /\ stage' = [stage EXCEPT ![w] = "apply"]
    /\ UNCHANGED <<plan, step, inbox, decision, history, status, people,
                   rescan, online, applies, scans, orders, stray>>

Work(w) ==
    \/ Plan(w)
    \/ PlanRaises(w)
    \/ Ask(w)
    \/ Receive(w)
    \/ TimeOut(w)
    \/ Apply(w)
    \/ Checkpoint(w)
    \/ Note(w)
    \/ Summarize(w)

Next ==
    \/ \E w \in Runs : Start(w) \/ Work(w) \/ Crash(w)
    \/ \E a \in Reviewers, w \in Runs : Look(a, w)
    \/ \E a \in Reviewers, approved \in BOOLEAN : Review(a, approved)

Spec == Init /\ [][Next]_vars

\* DBOS resumes every run that has not finished, and a wait has an end.
FairSpec == Spec /\ \A w \in Runs : WF_vars(Work(w))

(***************************************************************************)
(* Properties                                                              *)
(***************************************************************************)
(* A remediation is applied on an approval of that very step, as long      *)
(* as every review is sent once and while its step waits for it.  A review *)
(* sent twice, or after its step was decided, stays in the topic and is    *)
(* taken for the review of a later step (never of an earlier one): recv    *)
(* names no finding, and the event says awaiting_human until the entry is  *)
(* noted.                                                                  *)
OrdersAreReviewed ==
    \A w \in Runs, i \in Steps :
        applies[w][i] > 0 =>
            /\ orders[w][i] # None
            /\ orders[w][i].approved
            /\ orders[w][i].about.run = w
            /\ orders[w][i].about.step <= i
            /\ w \notin stray => orders[w][i].about.step = i

(* The history can be believed.  The steps it calls applied, and no        *)
(* others, were applied, each just once unless a crash struck between the  *)
(* effect and its record; then it was applied again, never dropped.  And   *)
(* what an entry says of the scan is so: one it calls re-run was run, one  *)
(* it calls skipped was not, none was run more often than the step was     *)
(* applied.  Of a scan it calls failed nothing is known.                   *)
AppliedExactlyOnce ==
    \A w \in Runs, i \in Steps :
        /\ i <= Len(history[w]) =>
              /\ history[w][i].resolution = "applied" <=> applies[w][i] > 0
              /\ history[w][i].rescan = "reran" => scans[w][i] > 0
              /\ history[w][i].rescan = "skipped" => scans[w][i] = 0
              /\ i \notin struck[w] => applies[w][i] <= 1
        /\ scans[w][i] <= applies[w][i]
        /\ i > step[w] => applies[w][i] = 0

(* A run that was started comes to its end, whether or not anybody reviews *)
(* it; with no Dataplex client to be made the end is an exception.         *)
RunsFinish ==
    \A w \in Runs : stage[w] = "plan" ~> stage[w] \in {"done", "failed"}
=============================================================================
