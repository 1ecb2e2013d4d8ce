---------------------------- MODULE SessionMutex ----------------------------
(***************************************************************************)
(* What the session lease of ui/session_lock.py promises to the turn that  *)
(* runs under it, with no clock, no document and no backend failure in     *)
(* sight.  One session key is modelled: every document and table entry of  *)
(* the code is per key.                                                    *)
(*                                                                         *)
(* A request asks, then either takes the lease of one store or is refused  *)
(* and registered as a pending concurrent turn.  A store never protects    *)
(* two requests.  A request that outstays its lease is "late": it still    *)
(* runs, but nothing keeps another one out.  SessionLease implements this  *)
(* module; AgentTurn is written on top of it.                              *)
(***************************************************************************)
EXTENDS Sequences

CONSTANTS
    Requests,   \* one per call of agent_proxy; each draws a fresh holder id
    Stores,     \* where a lease can live: Firestore, or one process's table
    Nowhere     \* not a store

ASSUME NowhereAssumption == Nowhere \notin Stores

VARIABLES
    phase,      \* [Requests -> Phases]
    at,         \* the store whose lease a request runs under
    pending,    \* per store, the refused requests nobody has counted yet
    drained     \* per request, the refused requests it was handed to count

mutexVars == <<phase, at, pending, drained>>

Phases == {"new", "waiting", "holding", "late", "refused", "registered",
           "done", "dead"}

Inside(r) == phase[r] \in {"holding", "late"}

Protected(r, s) == phase[r] = "holding" /\ at[r] = s

MutexTypeOK ==
    /\ phase \in [Requests -> Phases]
    /\ at \in [Requests -> Stores \cup {Nowhere}]
    /\ pending \in [Stores -> Seq(Requests)]
    /\ drained \in [Requests -> Seq(Requests)]

MutexInit ==
    /\ phase = [r \in Requests |-> "new"]
    /\ at = [r \in Requests |-> Nowhere]
    /\ pending = [s \in Stores |-> <<>>]
    /\ drained = [r \in Requests |-> <<>>]

Ask(r) ==
    /\ phase[r] = "new"
    /\ phase' = [phase EXCEPT ![r] = "waiting"]
    /\ UNCHANGED <<at, pending, drained>>

Take(r, s) ==
    /\ phase[r] = "waiting"
    /\ \A q \in Requests : ~Protected(q, s)
    /\ phase' = [phase EXCEPT ![r] = "holding"]
    /\ at' = [at EXCEPT ![r] = s]
    /\ UNCHANGED <<pending, drained>>

Refuse(r) ==
    /\ phase[r] = "waiting"
    /\ phase' = [phase EXCEPT ![r] = "refused"]
    /\ UNCHANGED <<at, pending, drained>>

\* A write that raises after it was applied is repeated in a second store.
Register(r, S) ==
    /\ phase[r] = "refused"
    /\ phase' = [phase EXCEPT ![r] = "registered"]
    /\ pending' = [s \in Stores |->
                    IF s \in S THEN Append(pending[s], r) ELSE pending[s]]
    /\ UNCHANGED <<at, drained>>

\* Mutation: the entries are handed out and left where they are.
DrainKeeps(r) ==
    /\ Inside(r)
    /\ drained' = [drained EXCEPT ![r] = @ \o pending[at[r]]]
    /\ UNCHANGED <<phase, at, pending>>

Drain(r) ==
    /\ Inside(r)
    /\ drained' = [drained EXCEPT ![r] = @ \o pending[at[r]]]
    /\ pending' = [pending EXCEPT ![at[r]] = <<>>]
    /\ UNCHANGED <<phase, at>>

\* A drain that was applied and raised hands out nothing.
DrainLost(r) ==
    /\ Inside(r)
    /\ pending' = [pending EXCEPT ![at[r]] = <<>>]
    /\ UNCHANGED <<phase, at, drained>>

\* Time runs out for the requests of R at once: nothing protects them now.
Overrun(R) ==
    /\ \A r \in R : phase[r] = "holding"
    /\ phase' = [r \in Requests |-> IF r \in R THEN "late" ELSE phase[r]]
    /\ UNCHANGED <<at, pending, drained>>

Leave(r) ==
    /\ Inside(r)
    /\ phase' = [phase EXCEPT ![r] = "done"]
    /\ at' = [at EXCEPT ![r] = Nowhere]
    /\ UNCHANGED <<pending, drained>>

\* A process dies with the requests R it was serving and the store it kept.
Die(R, S) ==
    /\ \A r \in R : phase[r] \in {"waiting", "holding", "late", "refused"}
    /\ \A r \in Requests \ R : Inside(r) => at[r] \notin S
    /\ phase' = [r \in Requests |-> IF r \in R THEN "dead" ELSE phase[r]]
    /\ at' = [r \in Requests |-> IF r \in R THEN Nowhere ELSE at[r]]
    /\ pending' = [s \in Stores |-> IF s \in S THEN <<>> ELSE pending[s]]
    /\ UNCHANGED drained

MutexNext ==
    \/ \E r \in Requests :
        \/ Ask(r) \/ Refuse(r) \/ Drain(r) \/ DrainLost(r) \/ Leave(r)
        \/ \E s \in Stores : Take(r, s)
        \/ \E S \in SUBSET Stores : Register(r, S)
    \/ \E R \in SUBSET Requests : Overrun(R)
    \/ \E R \in SUBSET Requests, S \in SUBSET Stores : Die(R, S)

MutexSpec == MutexInit /\ [][MutexNext]_mutexVars

(***************************************************************************)
(* No store's lease protects two requests at once: try_acquire "must be    *)
(* atomic in the backend: two callers may not both hear yes".              *)
(***************************************************************************)
MutualExclusion ==
    \A s \in Stores : \A p, q \in Requests :
        Protected(p, s) /\ Protected(q, s) => p = q

=============================================================================
