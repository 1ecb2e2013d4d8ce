-------------------------------- MODULE Loan --------------------------------
(***************************************************************************)
(* Loan approval: the Loan API and its BigQuery store (src/products/loans/ *)
(* api), the Cloud Workflows execution that drives it (workflow/           *)
(* loan_approval.yaml), and the people who post decisions to the API       *)
(* beside it.                                                              *)
(*                                                                         *)
(* The API runs in several processes.  Each keeps the decisions it took in *)
(* memory and numbers the next one from there; the tables are shared.      *)
(* Every write is a step and may raise, applied or not; a streamed insert  *)
(* that raises is followed by a load job.  Handlers run in threads, so     *)
(* Calls overlap.                                                          *)
(*                                                                         *)
(* Left out: names, texts, the counteroffer's amount, the credit profile's *)
(* own table and the audit rows, which nothing reads back to decide.       *)
(***************************************************************************)
EXTENDS LoanRisk, Sequences, FiniteSets

CONSTANTS
    Loans,        \* loan ids
    Instances,    \* processes of the Loan API
    Calls,        \* threads: API calls that can be in flight
    Applications, \* what may be asked for, with the true overdrafts
    Decisions,    \* the decisions people post
    People,       \* approvers
    MaxDecisions, \* bound: decisions taken on one loan
    MaxFaults,    \* bound: writes that raise and processes that stop
    None

ASSUME BoundAssumption ==
    /\ MaxDecisions \in Nat
    /\ MaxFaults \in Nat
ASSUME SetAssumption ==
    /\ Decisions \subseteq {"APPROVE", "REJECT", "REQUEST_MODIFICATION",
                            "COUNTEROFFER"}
    /\ "auto-policy" \notin People
    /\ None \notin Applications
    /\ {None, "several"} \cap Instances = {} /\ None # "several"

VARIABLES
    request,   \* per loan, what was asked for
    table,     \* per loan, the status in loan_request
    risk,      \* per loan, the row of risk_assessment
    rows,      \* per loan, the rows of approval_decision
    memory,    \* per process and loan, the decisions it holds in memory
    call,      \* per thread, the handler it is running
    execution, \* per loan, the workflow execution
    verdict,   \* per loan, the decision and approver the execution holds
    made,      \* history: decisions taken on each loan
    taker,     \* history: the process that took the loan's decisions one
               \* after the other and wrote them; None before the first,
               \* "several" once that is not so
    faults

vars == <<request, table, risk, rows, memory, call, execution, verdict,
          made, taker, faults>>

Approvers == People \cup {"auto-policy"}
Idle == [stage |-> "idle"]
Row == [id : 1 .. MaxDecisions, version : 1 .. MaxDecisions,
        decision : Decisions, approver : Approvers]
Submitting == [stage : {"create", "assess", "pend"}, at : Instances,
               loan : Loans, workflow : BOOLEAN]
Deciding == [stage : {"append", "insert", "update", "audit"},
             at : Instances, loan : Loans, row : Row, workflow : BOOLEAN]

TypeOK ==
    /\ request \in [Loans -> Applications \cup {None}]
    /\ table \in [Loans -> {"absent", "CREATED", "PENDING_APPROVAL",
                            "APPROVED", "REJECTED", "MODIFIED"}]
    /\ risk \in [Loans -> {None} \cup [score : 0 .. 100,
                                       answered : BOOLEAN]]
    /\ rows \in [Loans -> Seq(Row)]
    /\ memory \in [Instances -> [Loans -> 0 .. MaxDecisions]]
    /\ call \in [Calls -> {Idle} \cup Submitting \cup Deciding]
    /\ execution \in [Loans -> {"none", "submit", "route", "waiting",
                                "capture", "decide", "notify", "done",
                                "failed"}]
    /\ verdict \in [Loans -> {None} \cup [decision : Decisions,
                                          approver : Approvers]]
    /\ made \in [Loans -> 0 .. MaxDecisions]
    /\ taker \in [Loans -> Instances \cup {None, "several"}]
    /\ faults \in 0 .. MaxFaults

Init ==
    /\ request = [l \in Loans |-> None]
    /\ table = [l \in Loans |-> "absent"]
    /\ risk = [l \in Loans |-> None]
    /\ rows = [l \in Loans |-> <<>>]
    /\ memory = [i \in Instances |-> [l \in Loans |-> 0]]
    /\ call = [q \in Calls |-> Idle]
    /\ execution = [l \in Loans |-> "none"]
    /\ verdict = [l \in Loans |-> None]
    /\ made = [l \in Loans |-> 0]
    /\ taker = [l \in Loans |-> None]
    /\ faults = 0

Fault == faults < MaxFaults /\ faults' = faults + 1
NoFault == UNCHANGED faults
Free(q) == call[q].stage = "idle"
InFlight(l) == {q \in Calls : ~Free(q) /\ call[q].loan = l}

\* The handler goes on to its next write.
Goes(q, stage) == call' = [call EXCEPT ![q].stage = stage]

\* The handler answers; the execution that called takes up at `next`.
Answers(q, next) ==
    /\ call' = [call EXCEPT ![q] = Idle]
    /\ execution' = IF call[q].workflow
                    THEN [execution EXCEPT ![call[q].loan] = next]
                    ELSE execution

\* A write raised: 500, and an execution that called it fails.
Fails(q) == Fault /\ Answers(q, "failed")

(***************************************************************************)
(* POST /v1/loans                                                          *)
(***************************************************************************)
Submit(q, i, l, f, workflow) ==
    /\ Free(q)
    /\ request[l] = None
    /\ request' = [request EXCEPT ![l] = f]
    /\ call' = [call EXCEPT ![q] = [stage |-> "create", at |-> i, loan |-> l,
                                    workflow |-> workflow]]
    /\ execution' = IF workflow THEN [execution EXCEPT ![l] = "submit"]
                    ELSE execution
    /\ UNCHANGED <<table, risk, rows, memory, verdict, made, taker, faults>>

\* create_loan: a load job, since the row is updated soon after.
CreateLoan(q) ==
    /\ call[q].stage = "create"
    /\ LET written == [table EXCEPT ![call[q].loan] = "CREATED"] IN
       \/ /\ table' = written /\ Goes(q, "assess") /\ NoFault
          /\ UNCHANGED execution
       \/ table' \in {table, written} /\ Fails(q)
    /\ UNCHANGED <<request, risk, rows, memory, verdict, made, taker>>

\* save_profile, the overdraft read, score_risk and save_risk.  The read may
\* go unanswered, which counts as no overdrafts.
Assess(q) ==
    /\ call[q].stage = "assess"
    /\ \E answered \in BOOLEAN :
          LET l == call[q].loan
              written == [risk EXCEPT ![l] =
                 [score |-> Score(request[l],
                                  OverdraftsRead(request[l], answered)),
                  answered |-> answered]]
          IN \/ risk' = written /\ Goes(q, "pend") /\ NoFault
                   /\ UNCHANGED execution
             \/ risk' \in {risk, written} /\ Fails(q)
    /\ UNCHANGED <<request, table, rows, memory, verdict, made, taker>>

\* set_status(PENDING_APPROVAL), whatever the status is by now.
Pend(q) ==
    /\ call[q].stage = "pend"
    /\ LET written == [table EXCEPT ![call[q].loan] = "PENDING_APPROVAL"] IN
       \/ table' = written /\ Answers(q, "route") /\ NoFault
       \/ table' \in {table, written} /\ Fails(q)
    /\ UNCHANGED <<request, risk, rows, memory, verdict, made, taker>>

(***************************************************************************)
(* POST /v1/loans/{id}/decision                                            *)
(***************************************************************************)
\* sum(1 for d in self._decisions ...) + 1
Version(i, l) == memory[i][l] + 1

\* record_decision up to the version number.  get_loan must find the loan;
\* its status is not looked at.
Begin(q, i, l, d, a, workflow) ==
    /\ Free(q)
    /\ table[l] # "absent"
    /\ made[l] < MaxDecisions
    /\ made' = [made EXCEPT ![l] = @ + 1]
    /\ taker' = [taker EXCEPT ![l] =
          IF @ \in {None, i} /\ InFlight(l) = {} THEN i ELSE "several"]
    /\ call' = [call EXCEPT ![q] =
          [stage |-> "append", at |-> i, loan |-> l, workflow |-> workflow,
           row |-> [id |-> made[l] + 1, version |-> Version(i, l),
                    decision |-> d, approver |-> a]]]

\* A person posts a decision to the API.
Decide(q, i, l, d, a) ==
    /\ Begin(q, i, l, d, a, FALSE)
    /\ UNCHANGED <<request, table, risk, rows, memory, execution, verdict,
                   faults>>

\* Mutation: the status is updated before the row is inserted.
StatusFirst == [insert |-> "audit", update |-> "insert", start |-> "update"]

\* The order of record_decision's writes.
WriteOrder == [insert |-> "update", update |-> "audit", start |-> "insert"]

\* Mutation: memory is for the demo only.
ForgetRow(q) ==
    /\ call[q].stage = "append"
    /\ Goes(q, WriteOrder.start)
    /\ UNCHANGED <<request, table, risk, rows, memory, execution, verdict,
                   made, taker, faults>>

\* self._decisions.append(row)
AppendRow(q) ==
    /\ call[q].stage = "append"
    /\ memory' = [memory EXCEPT ![call[q].at][call[q].loan] = @ + 1]
    /\ Goes(q, WriteOrder.start)
    /\ UNCHANGED <<request, table, risk, rows, execution, verdict, made,
                   taker, faults>>

\* _insert: streamed; if that raises, a load job.  A stream that was applied
\* and raised leaves the row there twice; when the load job raises as well
\* the handler fails, with the row there, once or twice, or not.
InsertRow(q) ==
    /\ call[q].stage = "insert"
    /\ LET l == call[q].loan
           one == Append(rows[l], call[q].row)
           two == Append(one, call[q].row)
       IN \/ /\ rows' = [rows EXCEPT ![l] = one]
             /\ Goes(q, WriteOrder.insert) /\ NoFault
             /\ UNCHANGED <<execution, taker>>
          \/ /\ rows' \in {[rows EXCEPT ![l] = r] : r \in {one, two}}
             /\ Goes(q, WriteOrder.insert) /\ Fault
             /\ UNCHANGED <<execution, taker>>
          \/ /\ rows' \in {[rows EXCEPT ![l] = r] :
                              r \in {rows[l], one, two}}
             /\ taker' = [taker EXCEPT ![l] = "several"]
             /\ Fails(q)
    /\ UNCHANGED <<request, table, risk, memory, verdict, made>>

StatusOf(decision) ==
    CASE decision = "APPROVE" -> "APPROVED"
      [] decision = "REJECT" -> "REJECTED"
      [] OTHER -> "MODIFIED"

UpdateStatus(q) ==
    /\ call[q].stage = "update"
    /\ LET l == call[q].loan
           written == [table EXCEPT ![l] = StatusOf(call[q].row.decision)]
       IN \/ /\ table' = written /\ Goes(q, WriteOrder.update) /\ NoFault
             /\ UNCHANGED <<execution, taker>>
          \/ /\ table' \in {table, written}
             /\ taker' = [taker EXCEPT ![l] = "several"]
             /\ Fails(q)
    /\ UNCHANGED <<request, risk, rows, memory, verdict, made>>

\* The audit row, and the answer; when it raises the decision stands.
Audit(q) ==
    /\ call[q].stage = "audit"
    /\ \/ Answers(q, "notify") /\ NoFault
       \/ Fails(q)
    /\ UNCHANGED <<request, table, risk, rows, memory, verdict, made, taker>>

(***************************************************************************)
(* The workflow                                                            *)
(***************************************************************************)
Holds(l, d, a) ==
    /\ verdict' = [verdict EXCEPT ![l] = [decision |-> d, approver |-> a]]
    /\ execution' = [execution EXCEPT ![l] = "capture"]

Route(l) ==
    /\ execution[l] = "route"
    /\ IF Shortcut(risk[l].score) = "await"
       THEN execution' = [execution EXCEPT ![l] = "waiting"]
            /\ UNCHANGED verdict
       ELSE Holds(l, Shortcut(risk[l].score), "auto-policy")
    /\ UNCHANGED <<request, table, risk, rows, memory, call, made, taker,
                   faults>>

\* Somebody posts to the callback.
Callback(l, d, a) ==
    /\ execution[l] = "waiting"
    /\ Holds(l, d, a)
    /\ UNCHANGED <<request, table, risk, rows, memory, call, made, taker,
                   faults>>

\* Seven days pass; the callback's timeout ends the execution.
CallbackTimesOut(l) ==
    /\ execution[l] = "waiting"
    /\ execution' = [execution EXCEPT ![l] = "failed"]
    /\ UNCHANGED <<request, table, risk, rows, memory, call, verdict, made,
                   taker, faults>>

\* capture_decision posts what the execution holds.
Capture(q, i, l) ==
    /\ execution[l] = "capture"
    /\ Begin(q, i, l, verdict[l].decision, verdict[l].approver, TRUE)
    /\ execution' = [execution EXCEPT ![l] = "decide"]
    /\ UNCHANGED <<request, table, risk, rows, memory, verdict, faults>>

\* notify_customer; an error ends the execution, the decision stands.
Notify(l) ==
    /\ execution[l] = "notify"
    /\ \/ execution' = [execution EXCEPT ![l] = "done"] /\ NoFault
       \/ execution' = [execution EXCEPT ![l] = "failed"] /\ Fault
    /\ UNCHANGED <<request, table, risk, rows, memory, call, verdict, made,
                   taker>>

\* A process stops: its memory and its calls are gone.
Stop(i) ==
    /\ Fault
    /\ memory' = [memory EXCEPT ![i] = [l \in Loans |-> 0]]
    /\ LET cut == {q \in Calls : ~Free(q) /\ call[q].at = i}
           left == {l \in Loans : \E q \in cut :
                        call[q].loan = l /\ call[q].workflow}
       IN /\ call' = [q \in Calls |-> IF q \in cut THEN Idle ELSE call[q]]
          /\ execution' = [l \in Loans |->
                 IF l \in left THEN "failed" ELSE execution[l]]
          /\ taker' = [l \in Loans |->
                 IF taker[l] = i \/ l \in {call[q].loan : q \in cut}
                 THEN "several" ELSE taker[l]]
    /\ UNCHANGED <<request, table, risk, rows, verdict, made>>

Handle(q) ==
    \/ CreateLoan(q)
    \/ Assess(q)
    \/ Pend(q)
    \/ AppendRow(q)
    \/ InsertRow(q)
    \/ UpdateStatus(q)
    \/ Audit(q)

Arrive(q, i, l) ==
    \/ \E f \in Applications, w \in BOOLEAN : Submit(q, i, l, f, w)
    \/ \E d \in Decisions, a \in People : Decide(q, i, l, d, a)
    \/ Capture(q, i, l)

Execute(l) ==
    \/ Route(l)
    \/ \E d \in Decisions, a \in People : Callback(l, d, a)
    \/ CallbackTimesOut(l)
    \/ Notify(l)

Next ==
    \/ \E q \in Calls, i \in Instances, l \in Loans : Arrive(q, i, l)
    \/ \E q \in Calls : Handle(q)
    \/ \E l \in Loans : Execute(l)
    \/ \E i \in Instances : Stop(i)

Spec == Init /\ [][Next]_vars

(***************************************************************************)
(* Properties                                                              *)
(***************************************************************************)
\* The row that ROW_NUMBER() ... ORDER BY version DESC puts first.
Latest(l) ==
    CHOOSE r \in {rows[l][k] : k \in 1 .. Len(rows[l])} :
        \A k \in 1 .. Len(rows[l]) : rows[l][k].version <= r.version

(* A loan that reads APPROVED, REJECTED or MODIFIED has a decision row     *)
(* that says so, whichever write raised and wherever a process stopped:    *)
(* the append-only history is never behind the status.                     *)
StatusHasItsDecision ==
    \A l \in Loans :
        table[l] \in {"APPROVED", "REJECTED", "MODIFIED"} =>
            \E k \in 1 .. Len(rows[l]) :
                StatusOf(rows[l][k].decision) = table[l]

(* "Versioned (loan_id + version)": a version names one decision, later    *)
(* decisions have higher ones, and the view's final_decision agrees with   *)
(* the status - as long as one process takes a loan's decisions, one after *)
(* the other, and no write of theirs raises for good.  The number is       *)
(* counted in memory, so without that it promises nothing.                 *)
VersionsOrderDecisions ==
    \A l \in {k \in Loans : taker[k] # "several"} :
        /\ \A j, k \in 1 .. Len(rows[l]) :
              rows[l][j].id < rows[l][k].id =>
                  rows[l][j].version < rows[l][k].version
        /\ (rows[l] # <<>> /\ InFlight(l) = {}) =>
              table[l] = StatusOf(Latest(l).decision)

(* What the workflow decides without a person is what policy says of the   *)
(* customer's true record: a rejection always; an approval unless the      *)
(* Transactions API did not answer, which counts as no overdrafts.         *)
AutoDecisionsFollowPolicy ==
    \A l \in Loans :
        \A k \in 1 .. Len(rows[l]) :
            rows[l][k].approver = "auto-policy" =>
                LET true == Score(request[l], request[l].overdrafts) IN
                \/ rows[l][k].decision = "REJECT" /\ true >= DeclineMin
                \/ /\ rows[l][k].decision = "APPROVE"
                   /\ true <= AutoApproveMax \/ ~risk[l].answered
=============================================================================
