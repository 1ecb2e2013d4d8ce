----------------------------- MODULE AgentTurn -----------------------------
(***************************************************************************)
(* The turns of one session through agent_proxy, _agent_turn and           *)
(* _safety_screen of ui/server.py: many requests at once, each of which    *)
(* takes the session's lease or is turned away, reads the session's rows,  *)
(* gets its answer screened, writes its own row and the rows of the turns  *)
(* it was handed, and gives the lease back.                                *)
(*                                                                         *)
(* It composes SessionMutex (what the lease promises, the shared store and *)
(* a table per process) with SafetyEngine (what a turn decides).  An       *)
(* action is the code between two awaits.  The store may fail to grant, to *)
(* register and to drain, reads and writes of the evidence table, the      *)
(* agent and the classifier may fail, and a process may die anywhere.      *)
(***************************************************************************)
EXTENDS SafetyEngine, SessionMutex

CONSTANTS
    Store,          \* the shared store of the leases, Firestore
    Home,           \* per request, the table of the process that serves it
    Messageless,    \* requests whose body carries no "message"
    Verdicts,       \* what the classifier may say
    ArmorBlocks,    \* the classes Model Armor may block a turn under
    Kinds,          \* the kinds of fault there may be
    MaxFaults       \* bound on the kinds of fault one session meets

ASSUME TurnAssumption ==
    /\ Store \in Stores
    /\ Home \in [Requests -> Stores \ {Store}]
    /\ Messageless \subseteq Requests
    /\ Verdicts \subseteq [Signals -> 0..Certain]
    /\ ArmorBlocks \subseteq ArmorClasses \ {"none"}
    /\ MaxFaults \in Nat

VARIABLES
    step,       \* where _agent_turn stands with a request
    armor,      \* the class Model Armor blocked the turn under, or "none"
    memory,     \* the SessionState the request advances
    turn,       \* the turn it judged
    counted,    \* how many of the drained entries it has folded in
    reply,      \* what the customer is answered
    rows,       \* turn_signals, in the order of the inserts
    stamp,      \* the clock: every timestamp taken is a later one
    arrived,    \* the timestamp a turned-away turn registers with
    written,    \* what the clock read when it was registered (history)
    copies,     \* the tables it was registered in (history)
    faults      \* what has gone wrong in this session (history)

turnVars == <<step, armor, memory, turn, counted, reply, rows, stamp,
              arrived, written, copies, faults>>

vars == <<mutexVars, turnVars>>

Steps == {"new", "reading", "answering", "folding", "counting", "judging",
          "recording", "refolding", "recounting", "leaving", "gone"}

Replies == Decisions \cup {"unanswered", "concurrent", "error"}

Init ==
    /\ MutexInit
    /\ step = [r \in Requests |-> "new"]
    /\ armor = [r \in Requests |-> "none"]
    /\ memory = [r \in Requests |-> NoSession]
    /\ turn = [r \in Requests |-> EmptyTurn(0)]
    /\ counted = [r \in Requests |-> 0]
    /\ reply = [r \in Requests |-> "unanswered"]
    /\ rows = <<>>
    /\ stamp = 1
    /\ arrived = [r \in Requests |-> 0]
    /\ written = [r \in Requests |-> 0]
    /\ copies = [r \in Requests |-> {}]
    /\ faults = {}

Goto(r, label) == step' = [step EXCEPT ![r] = label]

\* A session meets at most MaxFaults kinds of fault.
Fails(kind) ==
    /\ kind \in Kinds
    /\ Cardinality(faults \cup {kind}) =< MaxFaults
    /\ faults' = faults \cup {kind}

\* f, with e for the requests of R.
Reset(f, R, e) == [r \in Requests |-> IF r \in R THEN e ELSE f[r]]

\* The requests are over, and what they kept in memory with them.
Forget(R) ==
    /\ step' = Reset(step, R, "gone")
    /\ armor' = Reset(armor, R, "none")
    /\ memory' = Reset(memory, R, NoSession)
    /\ turn' = Reset(turn, R, EmptyTurn(0))
    /\ counted' = Reset(counted, R, 0)

----------------------------------------------------------------------------
\* agent_proxy

Arrive(r) ==
    /\ r \notin Messageless
    /\ Ask(r)
    /\ UNCHANGED turnVars

\* acquire: where the store raises, the process's own table grants.
GetsLease(r) ==
    /\ \/ Take(r, Store) /\ UNCHANGED faults
       \/ Take(r, Home[r]) /\ Fails("fallback")
    /\ Goto(r, "reading")
    /\ UNCHANGED <<armor, memory, turn, counted, reply, rows, stamp,
                   arrived, written, copies>>

\* With no message there is no lease, and the turn goes ahead all the same.
GoesUnleased(r) ==
    /\ r \in Messageless
    /\ step[r] = "new"
    /\ Goto(r, "reading")
    /\ Fails("unleased")
    /\ UNCHANGED <<mutexVars, armor, memory, turn, counted, reply, rows,
                   stamp, arrived, written, copies>>

\* The entry of register_concurrent is stamped before its write is awaited.
IsTurnedAway(r) ==
    /\ Refuse(r)
    /\ arrived' = [arrived EXCEPT ![r] = stamp]
    /\ stamp' = stamp + 1
    /\ UNCHANGED <<step, armor, memory, turn, counted, reply, rows, written,
                   copies, faults>>

\* Where the store raises, applied or not, the entry goes into the process's
\* own table as well.
IsRegistered(r) ==
    /\ \E S \in {{Store}, {Home[r]}, {Store, Home[r]}} :
        /\ Register(r, S)
        /\ copies' = [copies EXCEPT ![r] = S]
        /\ IF S = {Store} THEN UNCHANGED faults ELSE Fails("register")
    /\ written' = [written EXCEPT ![r] = stamp]
    /\ reply' = [reply EXCEPT ![r] = "concurrent"]
    /\ UNCHANGED <<step, armor, memory, turn, counted, rows, stamp, arrived>>

----------------------------------------------------------------------------
\* _agent_turn

\* Row k is read before row i.
Before(k, i) ==
    \/ rows[k].ts < rows[i].ts
    \/ rows[k].ts = rows[i].ts /\ k < i

Earlier(i) == {k \in DOMAIN rows : Before(k, i)}

\* load_state asks for the rows ORDER BY ts.
OldestFirst ==
    [n \in DOMAIN rows |->
        rows[CHOOSE i \in DOMAIN rows : Cardinality(Earlier(i)) = n - 1]]

ReadState(r) ==
    /\ step[r] = "reading"
    /\ memory' = [memory EXCEPT ![r] = StateFromRows(OldestFirst, 0)]
    /\ Goto(r, "answering")
    /\ UNCHANGED <<mutexVars, armor, turn, counted, reply, rows, stamp,
                   arrived, written, copies, faults>>

\* "judging turn alone"
ReadFails(r) ==
    /\ step[r] = "reading"
    /\ memory' = [memory EXCEPT ![r] = NoSession]
    /\ Goto(r, "answering")
    /\ Fails("read")
    /\ UNCHANGED <<mutexVars, armor, turn, counted, reply, rows, stamp,
                   arrived, written, copies>>

\* What Model Armor makes of a prompt or a response: the class of the
\* detectors that fired, "unclassified" where it fails closed; "none" where
\* nothing fired, it is not configured, or it fails open.
Screenings == ArmorBlocks \cup {"none"}

\* The agent answers, or Model Armor blocks the prompt or the response.
IsAnswered(r) ==
    /\ step[r] = "answering"
    /\ \E class \in Screenings :
        armor' = [armor EXCEPT ![r] = class]
    /\ Goto(r, "folding")
    /\ UNCHANGED <<mutexVars, memory, turn, counted, reply, rows, stamp,
                   arrived, written, copies, faults>>

\* The call to the agent raises: the turn is not screened.
AgentFails(r) ==
    /\ step[r] = "answering"
    /\ reply' = [reply EXCEPT ![r] = "error"]
    /\ Goto(r, "leaving")
    /\ UNCHANGED <<mutexVars, armor, memory, turn, counted, rows, stamp,
                   arrived, written, copies, faults>>

----------------------------------------------------------------------------
\* _safety_screen

\* Where a request goes with n drained entries still to count.
AfterFold(r, n) ==
    IF n > 0
    THEN IF step[r] \in {"folding", "counting"}
         THEN "counting" ELSE "recounting"
    ELSE IF step[r] \in {"folding", "counting"} THEN "judging" ELSE "leaving"

\* Mutation: the turns turned away while the classifier ran are left.
FoldsPendingOnce(r) ==
    /\ step[r] \in {"folding", "refolding"}
    /\ IF r \in Messageless \/ step[r] = "refolding"
         THEN UNCHANGED mutexVars /\ Goto(r, AfterFold(r, 0))
         ELSE Drain(r) /\ Goto(r, AfterFold(r, Len(pending[at[r]])))
    /\ UNCHANGED <<armor, memory, turn, counted, reply, rows, stamp,
                   arrived, written, copies, faults>>

\* The drain of _safety_fold_concurrent, of the store the lease is of: without
\* a lease there is none.
FoldsPending(r) ==
    /\ step[r] \in {"folding", "refolding"}
    /\ IF r \in Messageless
         THEN UNCHANGED mutexVars /\ Goto(r, AfterFold(r, 0))
         ELSE Drain(r) /\ Goto(r, AfterFold(r, Len(pending[at[r]])))
    /\ UNCHANGED <<armor, memory, turn, counted, reply, rows, stamp,
                   arrived, written, copies, faults>>

DrainFails(r) ==
    /\ step[r] \in {"folding", "refolding"}
    /\ r \notin Messageless
    /\ at[r] = Store
    /\ UNCHANGED mutexVars \/ DrainLost(r)
    /\ Goto(r, AfterFold(r, 0))
    /\ Fails("drain")
    /\ UNCHANGED <<armor, memory, turn, counted, reply, rows,
                   stamp, arrived, written, copies>>

\* The evidence row of a decided turn, with the conversation it is of and
\* the place it had in the session.
Row(c, index, t, decision) ==
    LET row == EvidenceRow(t, decision)
    IN  [by |-> c, turn_index |-> index, signals |-> row.signals,
         agent_refused |-> row.agent_refused, armor |-> row.armor,
         ts |-> row.ts, tier |-> row.tier, action |-> row.action]

\* Mutation: the state in memory is not advanced.
RecordsOnly(r, c, t) ==
    LET row == Row(c, memory[r].turns + 1, t, Evaluate(t, memory[r]))
    IN  rows' = Append(rows, row) /\ UNCHANGED <<memory, faults>>

\* _safety_record and advance, for the turn of conversation c.  A failed
\* write loses the row; the state in memory has counted the turn.
Records(r, c, t) ==
    LET decision == Evaluate(t, memory[r])
        row == Row(c, memory[r].turns + 1, t, decision)
    IN  /\ \/ rows' = Append(rows, row) /\ UNCHANGED faults
           \/ UNCHANGED rows /\ Fails("write")
        /\ memory' = [memory EXCEPT ![r] =
                        Advance(@, t, decision.tier, decision.action)]

Counts(r) ==
    /\ step[r] \in {"counting", "recounting"}
    /\ LET c == drained[r][counted[r] + 1]
       IN  Records(r, c, ConcurrentTurn(arrived[c]))
    /\ counted' = [counted EXCEPT ![r] = @ + 1]
    /\ Goto(r, AfterFold(r, Len(drained[r]) - counted[r] - 1))
    /\ UNCHANGED <<mutexVars, armor, turn, reply, stamp, arrived, written,
                   copies>>

\* What the turn was, stamped when it is known.
Judgements(r) ==
    IF armor[r] # "none" THEN {ArmorTurn(armor[r], stamp)}
    ELSE IF memory[r].quarantined THEN {EmptyTurn(stamp)}
    ELSE {UnscreenedTurn(stamp)} \cup
         {ClassifiedTurn(v, FALSE, TRUE, stamp) : v \in Verdicts}

Judges(r) ==
    /\ step[r] = "judging"
    /\ \E t \in Judgements(r) : turn' = [turn EXCEPT ![r] = t]
    /\ stamp' = stamp + 1
    /\ Goto(r, "recording")
    /\ UNCHANGED <<mutexVars, armor, memory, counted, reply, rows,
                   arrived, written, copies, faults>>

RecordsOwn(r) ==
    /\ step[r] = "recording"
    /\ Records(r, r, turn[r])
    /\ reply' = [reply EXCEPT ![r] = ActionFor(turn[r], memory[r])]
    /\ Goto(r, "refolding")
    /\ UNCHANGED <<mutexVars, armor, turn, counted, stamp, arrived, written,
                   copies>>

\* The response is returned and the lease, if any, given back.
Returns(r) ==
    /\ step[r] = "leaving"
    /\ IF r \in Messageless THEN UNCHANGED mutexVars ELSE Leave(r)
    /\ Forget({r})
    /\ UNCHANGED <<reply, rows, stamp, arrived, written, copies, faults>>

----------------------------------------------------------------------------
\* What nobody asked for

OutstaysLease(r) ==
    /\ Overrun({r})
    /\ Fails("late")
    /\ UNCHANGED <<step, armor, memory, turn, counted, reply, rows, stamp,
                   arrived, written, copies>>

\* What the process of table s is at work on.
Serving(s) ==
    {r \in Requests :
        /\ Home[r] = s
        /\ \/ phase[r] \in {"waiting", "refused"}
           \/ step[r] \notin {"new", "gone"}}

\* A process dies, with its requests and its table; the next one of that
\* name starts empty.
Crashes(s) ==
    /\ s \in Stores \ {Store}
    /\ Die(Serving(s) \ Messageless, {s})
    /\ Forget(Serving(s))
    /\ Fails("crash")
    /\ UNCHANGED <<reply, rows, stamp, arrived, written, copies>>

RequestStep(r) ==
    \/ Arrive(r) \/ GetsLease(r) \/ GoesUnleased(r)
    \/ IsTurnedAway(r) \/ IsRegistered(r)
    \/ ReadState(r) \/ ReadFails(r) \/ IsAnswered(r) \/ AgentFails(r)
    \/ FoldsPending(r) \/ DrainFails(r) \/ Counts(r)
    \/ Judges(r) \/ RecordsOwn(r) \/ Returns(r)
    \/ OutstaysLease(r)

Next ==
    \/ \E r \in Requests : RequestStep(r)
    \/ \E s \in Stores : Crashes(s)

Spec == Init /\ [][Next]_vars

----------------------------------------------------------------------------
\* Properties

TypeOK ==
    /\ MutexTypeOK
    /\ step \in [Requests -> Steps]
    /\ armor \in [Requests -> ArmorClasses]
    /\ memory \in [Requests -> SessionStates]
    /\ turn \in [Requests -> Turns]
    /\ counted \in [Requests -> Nat]
    /\ reply \in [Requests -> Replies]
    /\ \A i \in DOMAIN rows :
        rows[i].by \in Requests /\ rows[i].turn_index \in Nat
    /\ stamp \in Nat
    /\ arrived \in [Requests -> Nat] /\ written \in [Requests -> Nat]
    /\ copies \in [Requests -> SUBSET Stores]

Without(kinds) == faults \cap kinds = {}

RowOf(i, r) == rows[i].by = r

HasRow(r) == \E i \in DOMAIN rows : RowOf(i, r)

Hits == {i \in DOMAIN rows :
            \/ rows[i].armor = "security"
            \/ \E n \in {"probe", "concurrent_turn"} :
                rows[i].signals[n] >= Med}

\* One lease for the session, no turn that outstays it or runs without it,
\* and an evidence table that answers.
Calm == Without({"late", "unleased", "fallback", "read", "write"})

(***************************************************************************)
(* turn_index is 1, 2, 3, ... in the order the rows were written, whatever *)
(* requests overlap, time out at the agent, die, fail to register or fail  *)
(* to drain, in a calm session: the burst of 2026-09-19 wrote 1,1,1,2,2,2. *)
(***************************************************************************)
IndexesRunOn ==
    Calm => \A i \in DOMAIN rows : rows[i].turn_index = i

(***************************************************************************)
(* A burst reaches the lock a patient attacker would: once the rows hold   *)
(* SecurityQuarantine hits, the row that brought the count there locked    *)
(* the session, and so did every row since.                                *)
(***************************************************************************)
BurstReachesLock ==
    Calm => \A i \in DOMAIN rows :
            Cardinality({k \in Hits : k =< i}) >= SecurityQuarantine
                => rows[i].action = "quarantine"

(***************************************************************************)
(* A session that was locked when a request took its lease answers that    *)
(* request with the lock: the rows of the earlier holders are complete     *)
(* when the lease is granted, so what the state read sees is complete.     *)
(***************************************************************************)
LockedSessionAnswersWithLock ==
    Calm => \A i, j \in DOMAIN rows :
            i < j /\ rows[i].action = "quarantine"
                => /\ rows[j].action = "quarantine"
                   /\ reply[rows[j].by] \in {"quarantine", "concurrent"}

(***************************************************************************)
(* A turned-away message counts, and no more often than it was registered. *)
(* It counts: one that reached the shared store before the holder judged   *)
(* its own message has a row by the time the holder has given its lease    *)
(* back.  And whatever goes wrong it has no more rows than tables it was   *)
(* put in, not by two holders of an overrun lease nor by the two drains of *)
(* one holder: two rows come only of a registration that raised after it   *)
(* was applied.  A turn of its own has one row.                            *)
(***************************************************************************)
TurnedAwayCountsOnce ==
    /\ Without({"late", "fallback", "crash", "drain", "write"})
          => \A i \in DOMAIN rows, p \in Requests :
              /\ rows[i].by \notin Messageless
              /\ phase[rows[i].by] = "done"
              /\ Store \in copies[p] /\ written[p] =< rows[i].ts
              => HasRow(p)
    /\ \A r \in Requests :
          Cardinality({i \in DOMAIN rows : RowOf(i, r)}) =<
              IF phase[r] = "registered" THEN Cardinality(copies[r]) ELSE 1

(***************************************************************************)
(* "the fifth locks the session, and the message that was in flight is     *)
(* answered with the lock, not the answer" (docs/adr/0034, amendment).     *)
(***************************************************************************)
InFlightAnsweredWithLock ==
    \A r \in Requests :
        step[r] = "leaving" /\ reply[r] # "error" /\ memory[r].quarantined
            => reply[r] = "quarantine"

=============================================================================
