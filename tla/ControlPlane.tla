---------------------------- MODULE ControlPlane ----------------------------
(***************************************************************************)
(* Controls alerting: every control event is logged once and leaves on two *)
(* planes, as evidence in BigQuery and as a message that a Cloud Workflows *)
(* execution posts to ServiceNow (src/infra/modules/controls_alerting);    *)
(* a daily job compares the two (src/scripts/reconcile_controls.py).       *)
(*                                                                         *)
(* One ServiceNow instance takes the rows of every environment; evidence   *)
(* and messages are per environment.  A message may be lost or delivered   *)
(* again, and a call may raise, applied or not.  The job reads one plane   *)
(* after the other while both go on.                                       *)
(*                                                                         *)
(* Left out: CONTROL_EVENTS off (then nothing is emitted), the row's texts,*)
(* the e-mail alert on the undelivered entry and its rate limit, a query   *)
(* of ServiceNow cut short at ten thousand rows, an error of ServiceNow    *)
(* with no message (the workflow tests the message), and what the job      *)
(* prints: it runs outside Cloud Run, so no sink picks that up.            *)
(***************************************************************************)
EXTENDS ControlEvent

CONSTANTS
    Events,        \* control events, in no order
    Emissions,     \* entries a control point may log
    Window,        \* the job's window, in ticks
    MaxRetries,    \* max_retries of the POST
    MaxDeliveries, \* bound: deliveries of one message
    MaxFaults,     \* bound: messages lost or repeated, calls that raise
    MaxClock,      \* bound: ticks
    MaxJobs        \* bound: runs of the job

ASSUME BoundAssumption ==
    /\ Window \in Nat /\ MaxRetries \in Nat /\ MaxDeliveries \in Nat
    /\ MaxFaults \in Nat /\ MaxClock \in Nat /\ MaxJobs \in Nat
ASSUME EventsAssumption == IsFiniteSet(Events)
ASSUME EmissionAssumption ==
    \A entry \in Emissions :
        /\ entry.service \in Envs \cup {None}
        /\ entry.log \in {"stdout", "anomaly"}

VARIABLES
    clock,
    event,       \* per event, None or its entry and the tick of it
    evidence,    \* the <<event, environment>> the evidence sinks have written
    message,     \* per event and environment: none, published or lost
    execution,   \* per event, environment and delivery, the workflow
    rows,        \* rows of em_event
    undelivered, \* executions that logged control_event_undelivered
    job,         \* the reconciliation
    jobs,
    faults

vars == <<clock, event, evidence, message, execution, rows, undelivered,
          job, jobs, faults>>

Carriers == Events \X Envs \X (1 .. MaxDeliveries)
Keys == {entry.key : entry \in Emissions}
Stages == {"none", "post", "log", "succeeded", "failed", "died"}
Row == [event : Events, env : Envs, delivery : 1 .. MaxDeliveries,
        try : 0 .. MaxRetries, at : 0 .. MaxClock]
NoJob == [stage |-> "idle"]
Reading == [stage : {"read"}, env : Envs, seen : SUBSET Events,
            at : 0 .. MaxClock]
Report == [stage : {"reported"}, dropped : SUBSET Keys,
           unexplained : SUBSET Keys, duplicated : SUBSET Keys,
           severity : 2 .. 4]

TypeOK ==
    /\ clock \in 0 .. MaxClock
    /\ event \in [Events -> {None} \cup [entry : Emissions,
                                         at : 0 .. MaxClock]]
    /\ evidence \in SUBSET (Events \X Envs)
    /\ message \in [Events \X Envs -> {"none", "published", "lost"}]
    /\ execution \in [Carriers -> [stage : Stages,
                                   try : 0 .. MaxRetries]]
    /\ rows \in SUBSET Row
    /\ undelivered \in SUBSET Carriers
    /\ job \in {NoJob} \cup Reading \cup Report
    /\ jobs \in 0 .. MaxJobs
    /\ faults \in 0 .. MaxFaults

Init ==
    /\ clock = 0
    /\ event = [e \in Events |-> None]
    /\ evidence = {}
    /\ message = [m \in Events \X Envs |-> "none"]
    /\ execution = [c \in Carriers |-> [stage |-> "none", try |-> 0]]
    /\ rows = {}
    /\ undelivered = {}
    /\ job = NoJob
    /\ jobs = 0
    /\ faults = 0

Fault == faults < MaxFaults /\ faults' = faults + 1
Goes(c, stage) == execution' = [execution EXCEPT ![c].stage = stage]
KeyOf(e) == event[e].entry.key

Tick ==
    /\ clock < MaxClock
    /\ clock' = clock + 1
    /\ UNCHANGED <<event, evidence, message, execution, rows, undelivered,
                   job, jobs, faults>>

\* A control point writes its line.
Emit(e, entry) ==
    /\ event[e] = None
    /\ event' = [event EXCEPT ![e] = [entry |-> entry, at |-> clock]]
    /\ UNCHANGED <<clock, evidence, message, execution, rows, undelivered,
                   job, jobs, faults>>

(***************************************************************************)
(* The sinks and the trigger                                               *)
(***************************************************************************)
\* The evidence sink's table is named after the log.
SinkEvidence(e, env) ==
    /\ event[e] # None
    /\ <<e, env>> \notin evidence
    /\ SinkFilter(event[e].entry, env)
    /\ evidence' = evidence \cup {<<e, env>>}
    /\ UNCHANGED <<clock, event, message, execution, rows, undelivered,
                   job, jobs, faults>>

SinkNotify(e, env) ==
    /\ event[e] # None
    /\ message[<<e, env>>] = "none"
    /\ SinkFilter(event[e].entry, env)
    /\ \/ message' = [message EXCEPT ![<<e, env>>] = "published"]
          /\ UNCHANGED faults
       \/ message' = [message EXCEPT ![<<e, env>>] = "lost"] /\ Fault
    /\ UNCHANGED <<clock, event, evidence, execution, rows, undelivered,
                   job, jobs>>

\* Eventarc starts an execution, which reads the credentials first, outside
\* any try.  Pub/Sub may deliver more than once.
Deliver(e, env, d) ==
    /\ message[<<e, env>>] = "published"
    /\ execution[<<e, env, d>>].stage = "none"
    /\ d > 1 => execution[<<e, env, d - 1>>].stage # "none"
    /\ \/ Goes(<<e, env, d>>, "post")
          /\ IF d = 1 THEN UNCHANGED faults ELSE Fault
       \/ d = 1 /\ Goes(<<e, env, d>>, "died") /\ Fault
    /\ UNCHANGED <<clock, event, evidence, message, rows, undelivered,
                   job, jobs>>

(***************************************************************************)
(* The dispatch workflow                                                   *)
(***************************************************************************)
\* Mutation: an execution that got past the POST is green.
AlwaysGreen(took) == "succeeded"

\* fail_if_undelivered, after the chat card, whose errors are swallowed.
Verdict(took) == IF took THEN "succeeded" ELSE "failed"

MayRetry(try) == try < MaxRetries

Written(c) == [event |-> c[1], env |-> c[2], delivery |-> c[3],
               try |-> execution[c].try, at |-> clock]

\* post_event: answered; or the call raised, applied or not, and is retried
\* or not.
PostEvent(c) ==
    /\ execution[c].stage = "post"
    /\ \/ /\ rows' = rows \cup {Written(c)}
          /\ Goes(c, Verdict(TRUE))
          /\ UNCHANGED faults
       \/ /\ Fault
          /\ rows' \in {rows, rows \cup {Written(c)}}
          /\ \/ /\ MayRetry(execution[c].try)
                /\ execution' = [execution EXCEPT ![c].try = @ + 1]
             \/ Goes(c, "log")
    /\ UNCHANGED <<clock, event, evidence, message, undelivered, job, jobs>>

\* log_undelivered, inside the except and outside any try of its own.
LogUndelivered(c) ==
    /\ execution[c].stage = "log"
    /\ \/ /\ undelivered' = undelivered \cup {c}
          /\ Goes(c, Verdict(FALSE))
          /\ UNCHANGED faults
       \/ Goes(c, "died") /\ Fault /\ UNCHANGED undelivered
    /\ UNCHANGED <<clock, event, evidence, message, rows, job, jobs>>

(***************************************************************************)
(* The reconciliation                                                      *)
(***************************************************************************)
Recent(at) == at + Window >= clock

\* evidence_sql: the environment's dataset, the table of standard output.
ReadEvidence(env) ==
    /\ job.stage # "read"
    /\ jobs < MaxJobs
    /\ jobs' = jobs + 1
    /\ job' = [stage |-> "read", env |-> env, at |-> clock,
               seen |-> {e \in Events : /\ <<e, env>> \in evidence
                                        /\ event[e].entry.log = "stdout"
                                        /\ Recent(event[e].at)}]
    /\ UNCHANGED <<clock, event, evidence, message, execution, rows,
                   undelivered, faults>>

\* Mutation: a query that failed is taken for one without rows.
NoAnswer == {}

\* servicenow_query: whatever the environment.
RecentRows == {r \in rows : Recent(r.at)}

Fired(k) == Cardinality({e \in job.seen : KeyOf(e) = k})
Received(k) == Cardinality({r \in RecentRows : KeyOf(r.event) = k})

\* reconcile and verdict
Reconcile ==
    /\ job.stage = "read"
    /\ LET ev == {KeyOf(e) : e \in job.seen}
           sn == {KeyOf(r.event) : r \in RecentRows}
           more == {k \in ev \cap sn : Received(k) > Fired(k)}
       IN job' = [stage |-> "reported", dropped |-> ev \ sn,
                  unexplained |-> sn \ ev, duplicated |-> more,
                  severity |->
                     IF ev = sn /\ more = {} THEN 4
                     ELSE IF ev \ sn # {} \/ ev \cap sn = {} THEN 2 ELSE 3]
    /\ UNCHANGED <<clock, event, evidence, message, execution, rows,
                   undelivered, jobs, faults>>

Carry(e, env) ==
    \/ SinkEvidence(e, env)
    \/ SinkNotify(e, env)
    \/ \E d \in 1 .. MaxDeliveries : Deliver(e, env, d)

Dispatch(c) ==
    \/ PostEvent(c)
    \/ LogUndelivered(c)

Next ==
    \/ Tick
    \/ \E e \in Events, entry \in Emissions : Emit(e, entry)
    \/ \E e \in Events, env \in Envs : Carry(e, env)
    \/ \E c \in Carriers : Dispatch(c)
    \/ \E env \in Envs : ReadEvidence(env)
    \/ Reconcile

Spec == Init /\ [][Next]_vars

(***************************************************************************)
(* Properties                                                              *)
(***************************************************************************)
\* The environment an event happened in: where its service runs, or, for a
\* job that runs in no service, the one it was started for.
HappenedIn(entry) ==
    IF entry.service = None THEN entry.claimed ELSE entry.service

(* An event leaves on the planes of the environment it happened in and on  *)
(* no other, whatever its emitter claims; it gets a second row only where  *)
(* a message was repeated or a call raised; and only what happened in      *)
(* production reaches a severity at which ServiceNow opens an incident.    *)
EachEventOnItsOwnPlane ==
    /\ \A x \in evidence : x[2] = HappenedIn(event[x[1]].entry)
    /\ \A r \in rows :
          /\ r.env = HappenedIn(event[r.event].entry)
          /\ SeverityOf(event[r.event].entry) < 4 <=> r.env = "prod"
          /\ faults = 0 => \A s \in rows : s.event = r.event => s = r

(* "A green execution for a dropped record would be a lie": an execution   *)
(* that succeeded left its row, and one that failed has logged the entry a *)
(* human is paged from.  So an event is dropped in silence only by a lost  *)
(* message or a call that raises outside every try: the credentials, or    *)
(* the log entry itself.                                                   *)
NoSilentDrop ==
    \A c \in Carriers :
        /\ execution[c].stage = "succeeded" =>
              \E r \in rows : <<r.event, r.env, r.delivery>> = c
        /\ execution[c].stage = "failed" => c \in undelivered

(* What the report is worth.  A key it calls dropped has no row at all,    *)
(* unless a tick fell between the two reads.  An event that was dropped    *)
(* goes unreported only behind the row of another one with its key, of     *)
(* whichever environment.  A key it calls duplicated has an event written  *)
(* twice, or a row whose event the evidence read did not count.            *)
ReportTellsTheTruth ==
    [][ (job.stage = "read" /\ job'.stage = "reported") =>
        /\ \A e \in job.seen :
              LET dropped == \A r \in rows : r.event # e IN
              IF KeyOf(e) \in job'.dropped
              THEN dropped \/ job.at < clock
              ELSE dropped => \E r \in rows : KeyOf(r.event) = KeyOf(e)
        /\ \A k \in job'.duplicated :
              \/ \E r, s \in rows : /\ KeyOf(r.event) = k
                                    /\ r.event = s.event /\ r # s
              \/ \E r \in rows : /\ KeyOf(r.event) = k
                                 /\ r.event \notin job.seen
      ]_vars
=============================================================================
