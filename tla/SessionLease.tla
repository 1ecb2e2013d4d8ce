---------------------------- MODULE SessionLease ----------------------------
(***************************************************************************)
(* ui/session_lock.py: the lease that serializes the turns of one session. *)
(*                                                                         *)
(* A store is the Firestore document of the session, or the table one      *)
(* process keeps (MemoryBackend).  Both answer the same four calls, so one *)
(* record serves for both: the holder, the time its lease has left, and    *)
(* the entries of the turns that were turned away.  A deleted document is  *)
(* the record with no holder and nothing pending.                          *)
(*                                                                         *)
(* Time is counted down (what is left of the lease and of the wait, how    *)
(* long a turn has run) where the code compares absolute times; no bound   *)
(* on the clock is needed then.  Every Firestore call may fail.            *)
(***************************************************************************)
EXTENDS Integers, Sequences

CONSTANTS
    Requests,       \* calls of agent_proxy that carry a message
    Instances,      \* Cloud Run processes, each with its MemoryBackend
    InstanceOf,     \* the process a request is routed to
    MemoryOnly,     \* processes whose backend() answers the memory table
    Firestore,      \* the store shared by the processes
    Nobody,         \* no holder
    TtlS,           \* ttl_seconds()
    WaitS,          \* wait_seconds()
    MaxTurn         \* the longest a turn runs under its lease

Stores == Instances \cup {Firestore}

ASSUME ConfigAssumption ==
    /\ InstanceOf \in [Requests -> Instances]
    /\ MemoryOnly \subseteq Instances
    /\ Firestore \notin Instances
    /\ Nobody \notin Requests
    /\ Nobody \notin Stores

ASSUME TimeAssumption ==
    /\ TtlS \in Nat \ {0}
    /\ WaitS \in Nat
    /\ MaxTurn \in Nat

VARIABLES
    pc,         \* where agent_proxy stands with a request
    be,         \* the backend its acquire loop is on, then its Lease.backend
    wait,       \* what is left of wait_s
    age,        \* how long it has held the lease
    store,      \* [Stores -> document]
    drained,    \* the entries drain() has handed it
    lost        \* entries emptied by a drain that raised (history)

vars == <<pc, be, wait, age, store, drained, lost>>

Document == [holder : Requests \cup {Nobody}, left : Nat,
             pending : Seq(Requests)]

NoDocument == [holder |-> Nobody, left |-> 0, pending |-> <<>>]

InFlight(r) == pc[r] \in {"acquiring", "holding", "refused"}

\* backend(): Firestore, unless this process is on the memory table for good.
Backend(r) ==
    IF InstanceOf[r] \in MemoryOnly THEN InstanceOf[r] ELSE Firestore

\* Mutations: the lease ends a moment early, and no lease is looked at.
BusyEarly(doc) == doc.holder # Nobody /\ doc.left > 1
BusyNever(doc) == FALSE

Busy(doc) == doc.holder # Nobody /\ doc.left > 0

Entries(seq) == {seq[k] : k \in DOMAIN seq}

Leased(doc, r) == [doc EXCEPT !.holder = r, !.left = TtlS]

\* Mutation: the document is deleted with the entries it holds.
GivenBackDeletes(doc) == NoDocument

\* Only the lease is given back: entries still pending stay for the next one.
GivenBack(doc) == [doc EXCEPT !.holder = Nobody, !.left = 0]

Init ==
    /\ pc = [r \in Requests |-> "new"]
    /\ be = [r \in Requests |-> InstanceOf[r]]
    /\ wait = [r \in Requests |-> 0]
    /\ age = [r \in Requests |-> 0]
    /\ store = [s \in Stores |-> NoDocument]
    /\ drained = [r \in Requests |-> <<>>]
    /\ lost = {}

----------------------------------------------------------------------------
\* acquire()

Arrive(r) ==
    /\ pc[r] = "new"
    /\ pc' = [pc EXCEPT ![r] = "acquiring"]
    /\ be' = [be EXCEPT ![r] = Backend(r)]
    /\ wait' = [wait EXCEPT ![r] = WaitS]
    /\ UNCHANGED <<age, store, drained, lost>>

\* One try of the loop on store s, the stores being as in `stores`.
TryOn(r, s, stores) ==
    /\ be' = [be EXCEPT ![r] = s]
    /\ \/ /\ ~Busy(stores[s])
          /\ store' = [stores EXCEPT ![s] = Leased(@, r)]
          /\ pc' = [pc EXCEPT ![r] = "holding"]
          /\ wait' = [wait EXCEPT ![r] = 0]
       \/ /\ Busy(stores[s])
          /\ store' = stores
          /\ pc' = IF wait[r] = 0 THEN [pc EXCEPT ![r] = "refused"] ELSE pc
          /\ UNCHANGED wait
    /\ UNCHANGED <<age, drained, lost>>

Acquire(r) ==
    /\ pc[r] = "acquiring"
    /\ TryOn(r, be[r], store)

\* The transaction raises: this call goes on with the table of its process.
\* The commit may have been applied all the same, its answer lost.
AcquireFails(r) ==
    /\ pc[r] = "acquiring"
    /\ be[r] = Firestore
    /\ \/ TryOn(r, InstanceOf[r], store)
       \/ /\ ~Busy(store[Firestore])
          /\ TryOn(r, InstanceOf[r],
                   [store EXCEPT ![Firestore] = Leased(@, r)])

----------------------------------------------------------------------------
\* register_concurrent()

RegisterAt(r, S) ==
    /\ pc[r] = "refused"
    /\ store' = [s \in Stores |->
                    IF s \in S THEN [store[s] EXCEPT !.pending = Append(@, r)]
                               ELSE store[s]]
    /\ pc' = [pc EXCEPT ![r] = "registered"]
    /\ UNCHANGED <<be, wait, age, drained, lost>>

Register(r) == RegisterAt(r, {Backend(r)})

\* The write raises, applied or not: the process's table gets the entry too.
RegisterFails(r) ==
    /\ Backend(r) = Firestore
    /\ \/ RegisterAt(r, {InstanceOf[r]})
       \/ RegisterAt(r, {InstanceOf[r], Firestore})

----------------------------------------------------------------------------
\* Lease.drain() and Lease.release()

Drain(r) ==
    /\ pc[r] = "holding"
    /\ drained' = [drained EXCEPT ![r] = @ \o store[be[r]].pending]
    /\ store' = [store EXCEPT ![be[r]].pending = <<>>]
    /\ UNCHANGED <<pc, be, wait, age, lost>>

\* The transaction raises: the holder is handed nothing, and what a commit
\* whose answer was lost has emptied is gone.
DrainFails(r) ==
    /\ pc[r] = "holding"
    /\ be[r] = Firestore
    /\ store' = [store EXCEPT ![Firestore].pending = <<>>]
    /\ lost' = lost \cup Entries(store[Firestore].pending)
    /\ UNCHANGED <<pc, be, wait, age, drained>>

\* Mutation: the lease is given back whoever holds it.
ReleaseAnyway(r) ==
    /\ pc[r] = "holding"
    /\ pc' = [pc EXCEPT ![r] = "released"]
    /\ store' = [store EXCEPT ![be[r]] = GivenBack(@)]
    /\ age' = [age EXCEPT ![r] = 0]
    /\ UNCHANGED <<be, wait, drained, lost>>

Release(r) ==
    /\ pc[r] = "holding"
    /\ pc' = [pc EXCEPT ![r] = "released"]
    /\ store' = IF store[be[r]].holder = r
                  THEN [store EXCEPT ![be[r]] = GivenBack(@)]
                  ELSE store
    /\ age' = [age EXCEPT ![r] = 0]
    /\ UNCHANGED <<be, wait, drained, lost>>

ReleaseFails(r) ==
    /\ pc[r] = "holding"
    /\ be[r] = Firestore
    /\ pc' = [pc EXCEPT ![r] = "released"]
    /\ age' = [age EXCEPT ![r] = 0]
    /\ UNCHANGED <<be, wait, store, drained, lost>>

----------------------------------------------------------------------------
\* The process dies: its requests and its table are gone, the document stays.
Dies(r, i) == InFlight(r) /\ InstanceOf[r] = i

Crash(i) ==
    /\ pc' = [r \in Requests |-> IF Dies(r, i) THEN "dead" ELSE pc[r]]
    /\ wait' = [r \in Requests |-> IF Dies(r, i) THEN 0 ELSE wait[r]]
    /\ age' = [r \in Requests |-> IF Dies(r, i) THEN 0 ELSE age[r]]
    /\ store' = [store EXCEPT ![i] = NoDocument]
    /\ UNCHANGED <<be, drained, lost>>

\* Mutation: expiry is never noticed.
ElapseNever(doc) == doc

Elapse(doc) == [doc EXCEPT !.left = IF @ > 0 THEN @ - 1 ELSE 0]

Tick ==
    /\ \A r \in Requests : pc[r] = "holding" => age[r] < MaxTurn
    /\ age' = [r \in Requests |->
                IF pc[r] = "holding" THEN age[r] + 1 ELSE age[r]]
    /\ wait' = [r \in Requests |-> IF wait[r] > 0 THEN wait[r] - 1 ELSE 0]
    /\ store' = [s \in Stores |-> Elapse(store[s])]
    /\ UNCHANGED <<pc, be, drained, lost>>

Finish(r) == Release(r) \/ ReleaseFails(r)

Answer429(r) == Register(r) \/ RegisterFails(r)

Step(r) ==
    \/ Arrive(r) \/ Acquire(r) \/ AcquireFails(r)
    \/ Answer429(r)
    \/ Drain(r) \/ DrainFails(r) \/ Finish(r)

Next ==
    \/ \E r \in Requests : Step(r)
    \/ \E i \in Instances : Crash(i)
    \/ Tick

Spec == Init /\ [][Next]_vars

\* The event loop gets round to every coroutine, a `finally` runs, a poll is
\* repeated, and time passes.
Fairness ==
    /\ WF_vars(Tick)
    /\ \A r \in Requests : WF_vars(Acquire(r)) /\ WF_vars(Finish(r))

FairSpec == Spec /\ Fairness

----------------------------------------------------------------------------
\* Properties

TypeOK ==
    /\ pc \in [Requests -> {"new", "acquiring", "holding", "refused",
                            "registered", "released", "dead"}]
    /\ be \in [Requests -> Stores]
    /\ wait \in [Requests -> Nat]
    /\ age \in [Requests -> Nat]
    /\ store \in [Stores -> Document]
    /\ drained \in [Requests -> Seq(Requests)]
    /\ lost \subseteq Requests

(***************************************************************************)
(* Two requests run under the lease of one store only if one of them has   *)
(* outstayed ttl_seconds(), whatever calls fail and whichever processes    *)
(* die: the serialization holds exactly as long as turns are shorter than  *)
(* the lease.                                                              *)
(***************************************************************************)
OverlapOnlyByOverrun ==
    \A p, q \in Requests :
        /\ pc[p] = "holding" /\ pc[q] = "holding"
        /\ be[p] = be[q] /\ p # q
        => age[p] >= TtlS \/ age[q] >= TtlS

(***************************************************************************)
(* No step of another request takes an unexpired lease from a request that *)
(* runs under it: a late release "expired and taken over, or never ours"   *)
(* leaves the document alone, and so do a refused and a failing acquire.   *)
(***************************************************************************)
UnexpiredLeaseKept ==
    [][\A s \in Stores, r \in Requests :
        (store[s].holder = r /\ pc[r] = "holding" /\ store[s].left > 0)
            => \/ store'[s].holder = r
               \/ pc'[r] # "holding"]_vars

(***************************************************************************)
(* A turn registered in the Firestore document leaves it only into the     *)
(* hands of a request that will count it, or by a drain that was applied   *)
(* and raised: a release with entries pending keeps the document, and      *)
(* expiry and takeover do not touch them.                                  *)
(***************************************************************************)
RejectedTurnsSurvive ==
    [][\A p \in Entries(store[Firestore].pending) :
        \/ p \in Entries(store'[Firestore].pending)
        \/ \E r \in Requests : pc[r] = "holding" /\ p \in Entries(drained'[r])
        \/ p \in lost']_vars

(***************************************************************************)
(* A session comes free.  A second request waits a bounded time: it is     *)
(* served or answered "one message at a time", however the calls it makes  *)
(* fail.  And a holder that dies, or whose release fails, blocks its       *)
(* session for the TTL at most, not forever.                               *)
(***************************************************************************)
SessionComesFree ==
    \A r \in Requests :
        /\ pc[r] = "acquiring" ~> pc[r] # "acquiring"
        /\ (store[Firestore].holder = r /\ pc[r] # "holding")
               ~> (store[Firestore].holder # r \/ store[Firestore].left = 0)

(***************************************************************************)
(* ttl_seconds(): "Longer than the slowest honest turn (90 s agent +       *)
(* classifier), so a live holder is never stolen from".  Does not hold of  *)
(* a MaxTurn beyond TtlS, which the timeouts of the calls made under the   *)
(* lease allow.                                                            *)
(***************************************************************************)
LiveHolderNeverStolenFrom ==
    [][\A r \in Requests :
        (pc[r] = "holding" /\ store[be[r]].holder = r)
            => (pc'[r] = "holding" => store'[be[r]].holder = r)]_vars

----------------------------------------------------------------------------
\* What the lease promises: SessionMutex, under this mapping.

PhaseOf(r) ==
    CASE pc[r] = "acquiring" -> "waiting"
      [] pc[r] = "released"  -> "done"
      [] pc[r] = "holding"   -> IF age[r] < TtlS THEN "holding" ELSE "late"
      [] OTHER               -> pc[r]

Mutex == INSTANCE SessionMutex WITH
    Nowhere <- Nobody,
    phase   <- [r \in Requests |-> PhaseOf(r)],
    at      <- [r \in Requests |->
                  IF pc[r] = "holding" THEN be[r] ELSE Nobody],
    pending <- [s \in Stores |-> store[s].pending]

ImplementsMutex == Mutex!MutexSpec

=============================================================================
