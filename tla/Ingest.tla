------------------------------- MODULE Ingest -------------------------------
(***************************************************************************)
(* How a transaction reaches the Silver table: the generator publishes it  *)
(* (src/products/transactions/generator/generate.py), Pub/Sub delivers it  *)
(* at least once, and a Dataflow job parses it, drops what its memory of   *)
(* idempotency keys holds, and inserts the rest                            *)
(* (src/products/transactions/pipeline/pipeline.py).  Jobs are launched on *)
(* demand, drained, and cancelled after a grace period                     *)
(* (src/scripts/run_dataflow.sh); nothing keeps a second one from running. *)
(*                                                                         *)
(* A message is acknowledged when the stage that ends with the memory of   *)
(* keys commits; the insert is a stage of its own.  A stage that fails is  *)
(* run again, which changes nothing here.                                  *)
(*                                                                         *)
(* keyOf and malformed are chosen at the start: two transactions of one    *)
(* account, type, second and amount have one key, and another publisher's  *)
(* record may not validate.  forgot, seenBy, expired and cancelled are     *)
(* histories.                                                              *)
(*                                                                         *)
(* Left out: the columns, de-identification (it changes one of them), the  *)
(* Bronze subscription, the dead-letter policy of the subscription, and a  *)
(* memory of keys that lives for no time at all (deduplication off).       *)
(***************************************************************************)
EXTENDS Naturals

CONSTANTS Txns,
          Keys,
          Jobs,       \* the launches, each with a job id of its own
          MaxCopies   \* bound: deliveries of a message

ASSUME MaxCopiesAssumption == MaxCopies \in Nat \ {0}

VARIABLES
    keyOf, malformed,
    delivered,  \* per transaction, its deliveries so far
    waiting,    \* per transaction, the deliveries not acknowledged
    job,        \* per job, its state
    memory,     \* per job, the keys it would drop
    inserting,  \* per job, the transactions past its memory
    silver,     \* per transaction, its rows
    dlq,
    forgot, seenBy, expired, cancelled

ingestVars == <<keyOf, malformed, delivered, waiting, job, memory, inserting,
                silver, dlq, forgot, seenBy, expired, cancelled>>

JobStates == {"new", "queued", "running", "draining", "drained", "cancelled"}

IngestTypeOK ==
    /\ keyOf \in [Txns -> Keys]
    /\ malformed \in SUBSET Txns
    /\ delivered \in [Txns -> 0 .. MaxCopies]
    /\ waiting \in [Txns -> 0 .. MaxCopies]
    /\ job \in [Jobs -> JobStates]
    /\ memory \in [Jobs -> SUBSET Keys]
    /\ inserting \in [Jobs -> [Txns -> 0 .. MaxCopies]]
    /\ silver \in [Txns -> 0 .. MaxCopies]
    /\ dlq \in SUBSET Txns
    /\ forgot \in SUBSET Keys
    /\ seenBy \in [Keys -> SUBSET Jobs]
    /\ expired \in SUBSET Txns
    /\ cancelled \in SUBSET Keys

NoTxns == [t \in Txns |-> 0]

IngestInit ==
    /\ keyOf \in [Txns -> Keys]
    /\ malformed \in SUBSET Txns
    /\ delivered = NoTxns
    /\ waiting = NoTxns
    /\ job = [j \in Jobs |-> "new"]
    /\ memory = [j \in Jobs |-> {}]
    /\ inserting = [j \in Jobs |-> NoTxns]
    /\ silver = NoTxns
    /\ dlq = {}
    /\ forgot = {}
    /\ seenBy = [k \in Keys |-> {}]
    /\ expired = {}
    /\ cancelled = {}

(***************************************************************************)
(* Publishing and delivering                                               *)
(***************************************************************************)
\* The first delivery, another publication by the client's own retry, or a
\* redelivery, of a message acknowledged or not.
Deliver(t) ==
    /\ delivered[t] < MaxCopies
    /\ delivered' = [delivered EXCEPT ![t] = @ + 1]
    /\ waiting' = [waiting EXCEPT ![t] = @ + 1]
    /\ UNCHANGED <<keyOf, malformed, job, memory, inserting, silver, dlq,
                   forgot, seenBy, expired, cancelled>>

\* A week without a job: the subscription keeps a message no longer.
Expire(t) ==
    /\ waiting[t] > 0
    /\ \A j \in Jobs : job[j] # "running"
    /\ waiting' = [waiting EXCEPT ![t] = 0]
    /\ expired' = expired \cup {t}
    /\ UNCHANGED <<keyOf, malformed, delivered, job, memory, inserting,
                   silver, dlq, forgot, seenBy, cancelled>>

(***************************************************************************)
(* The pipeline                                                            *)
(***************************************************************************)
\* Mutation: keys are remembered before records are validated.
RejectRemembered(j, t) ==
    /\ job[j] = "running"
    /\ waiting[t] > 0
    /\ t \in malformed
    /\ waiting' = [waiting EXCEPT ![t] = @ - 1]
    /\ memory' = [memory EXCEPT ![j] = @ \cup {keyOf[t]}]
    /\ dlq' = dlq \cup {t}
    /\ UNCHANGED <<keyOf, malformed, delivered, job, inserting, silver,
                   forgot, seenBy, expired, cancelled>>

\* ParseAndValidate yields a record, or an envelope for the dead letters.
Reject(j, t) ==
    /\ job[j] = "running"
    /\ waiting[t] > 0
    /\ t \in malformed
    /\ waiting' = [waiting EXCEPT ![t] = @ - 1]
    /\ dlq' = dlq \cup {t}
    /\ UNCHANGED <<keyOf, malformed, delivered, job, memory, inserting,
                   silver, forgot, seenBy, expired, cancelled>>

\* Mutation: the record's own id is remembered, not the producer's key.
RememberedAsRecord(j, t) ==
    keyOf[t] \in memory[j] /\ (inserting[j][t] > 0 \/ silver[t] > 0)

\* DeduplicatePerKey passes the first of a key and keeps the key for the
\* time of --dedup_ttl_seconds.
Remembered(j, t) == keyOf[t] \in memory[j]

Process(j, t) ==
    LET k == keyOf[t] IN
    /\ job[j] = "running"
    /\ waiting[t] > 0
    /\ t \notin malformed
    /\ waiting' = [waiting EXCEPT ![t] = @ - 1]
    /\ memory' = [memory EXCEPT ![j] = @ \cup {k}]
    /\ inserting' = [inserting EXCEPT
                       ![j][t] = @ + IF Remembered(j, t) THEN 0 ELSE 1]
    /\ seenBy' = [seenBy EXCEPT ![k] = @ \cup {j}]
    /\ UNCHANGED <<keyOf, malformed, delivered, job, silver, dlq, forgot,
                   expired, cancelled>>

TimerFires(j, k) ==
    /\ job[j] \in {"running", "draining"}
    /\ k \in memory[j]
    /\ memory' = [memory EXCEPT ![j] = @ \ {k}]
    /\ forgot' = forgot \cup {k}
    /\ UNCHANGED <<keyOf, malformed, delivered, waiting, job, inserting,
                   silver, dlq, seenBy, expired, cancelled>>

\* WriteSilver
Insert(j, t) ==
    /\ job[j] \in {"running", "draining"}
    /\ inserting[j][t] > 0
    /\ inserting' = [inserting EXCEPT ![j][t] = @ - 1]
    /\ silver' = [silver EXCEPT ![t] = @ + 1]
    /\ UNCHANGED <<keyOf, malformed, delivered, waiting, job, memory, dlq,
                   forgot, seenBy, expired, cancelled>>

(***************************************************************************)
(* run_dataflow.sh                                                         *)
(***************************************************************************)
Becomes(j, from, to) ==
    /\ job[j] \in from
    /\ job' = [job EXCEPT ![j] = to]
    /\ UNCHANGED <<keyOf, malformed, delivered, waiting, silver, dlq, forgot,
                   seenBy, expired>>

Launch(j) ==
    Becomes(j, {"new"}, "queued") /\ UNCHANGED <<memory, inserting, cancelled>>

Runs(j) ==
    Becomes(j, {"queued"}, "running")
    /\ UNCHANGED <<memory, inserting, cancelled>>

\* Only a running job can be drained: after ten minutes the script asks all
\* the same, fails, and leaves the job to run.
Drain(j) ==
    Becomes(j, {"running"}, "draining")
    /\ UNCHANGED <<memory, inserting, cancelled>>

\* A drain ends when nothing is left, the timers of the keys included.
Drained(j) ==
    /\ memory[j] = {}
    /\ inserting[j] = NoTxns
    /\ Becomes(j, {"draining"}, "drained")
    /\ UNCHANGED <<memory, inserting, cancelled>>

\* "Still draining after the grace period (dedup timers); cancelling."
Cancel(j) ==
    /\ Becomes(j, {"draining"}, "cancelled")
    /\ memory' = [memory EXCEPT ![j] = {}]
    /\ inserting' = [inserting EXCEPT ![j] = NoTxns]
    /\ cancelled' = cancelled \cup
                      {keyOf[t] : t \in {u \in Txns : inserting[j][u] > 0}}

IngestNext ==
    \/ \E t \in Txns :
        \/ Deliver(t) \/ Expire(t)
        \/ \E j \in Jobs : Reject(j, t) \/ Process(j, t) \/ Insert(j, t)
    \/ \E j \in Jobs :
        \/ Launch(j) \/ Runs(j) \/ Drain(j) \/ Drained(j) \/ Cancel(j)
        \/ \E k \in Keys : TimerFires(j, k)

IngestSpec == IngestInit /\ [][IngestNext]_ingestVars

(***************************************************************************)
(* Properties                                                              *)
(***************************************************************************)
Twins(t) == {u \in Txns : keyOf[u] = keyOf[t]}

(* A key has a second row only after a job forgot it, or if two jobs saw   *)
(* it, at a time or one after the other: their memories are not shared.    *)
OneRowPerKey ==
    \A t \in Txns : \A u \in Twins(t) :
        \/ silver[t] + (IF u = t THEN 0 ELSE silver[u]) <= 1
        \/ keyOf[t] \in forgot
        \/ \E i, j \in seenBy[keyOf[t]] : i # j

(* Nothing published is lost on the way: it waits, is being inserted, is a *)
(* row or a dead letter, or another transaction of its key is.  Only a     *)
(* subscription nobody read for a week, or a job cancelled before its      *)
(* inserts were done, which run_dataflow.sh takes for impossible, loses.   *)
NothingIsLost ==
    \A t \in Txns :
        delivered[t] > 0 =>
            \/ waiting[t] > 0
            \/ t \in dlq \cup expired
            \/ keyOf[t] \in cancelled
            \/ \E u \in Twins(t) : \/ silver[u] > 0
                                   \/ \E j \in Jobs : inserting[j][u] > 0
=============================================================================
