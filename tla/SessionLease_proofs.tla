------------------------ MODULE SessionLease_proofs ------------------------
(***************************************************************************)
(* Theorems about SessionLease, for any requests, processes, stores and    *)
(* times.                                                                  *)
(*                                                                         *)
(* None of the properties is inductive: a request runs alone because the   *)
(* document says so, so the invariant ties what a request believes (pc,    *)
(* be, age) to what the document holds until the lease has run out.        *)
(***************************************************************************)
EXTENDS SessionLease, TLAPS

\* A request only ever takes the lease of the shared store or of its process.
OwnStore ==
    \A r \in Requests :
        pc[r] \in {"acquiring", "holding"}
            => be[r] \in {Firestore, InstanceOf[r]}

\* The age of a lease is counted from the moment it is taken.
AgeOfHolders ==
    \A r \in Requests : pc[r] # "holding" => age[r] = 0

\* While a lease has not run out, the document names its holder, and what is
\* left of it is what the holder has not used.
LeaseIsWritten ==
    \A r \in Requests :
        pc[r] = "holding" /\ age[r] < TtlS
            => /\ store[be[r]].holder = r
               /\ store[be[r]].left = TtlS - age[r]

LeaseInv == TypeOK /\ OwnStore /\ AgeOfHolders /\ LeaseIsWritten

----------------------------------------------------------------------------
\* Documents

LEMMA StoresFacts ==
    /\ Firestore \in Stores
    /\ Instances \subseteq Stores
    /\ \A r \in Requests : InstanceOf[r] \in Instances
    /\ \A r \in Requests : Backend(r) \in {Firestore, InstanceOf[r]}
  BY ConfigAssumption DEF Stores, Backend

LEMMA DocumentTypes ==
    ASSUME NEW doc \in Document
    PROVE  /\ NoDocument \in Document
           /\ GivenBack(doc) \in Document
           /\ Elapse(doc) \in Document
           /\ \A r \in Requests : Leased(doc, r) \in Document
           /\ \A r \in Requests :
                [doc EXCEPT !.pending = Append(@, r)] \in Document
           /\ [doc EXCEPT !.pending = <<>>] \in Document
<1>1. NoDocument \in Document
  BY DEF Document, NoDocument
<1>2. GivenBack(doc) \in Document
  BY DEF Document, GivenBack
<1>3. Elapse(doc) \in Document
  BY DEF Document, Elapse
<1>4. \A r \in Requests : Leased(doc, r) \in Document
  BY TimeAssumption DEF Document, Leased
<1>5. \A r \in Requests : [doc EXCEPT !.pending = Append(@, r)] \in Document
  <2> TAKE r \in Requests
  <2>1. Append(doc.pending, r) \in Seq(Requests)
    BY DEF Document
  <2> QED BY <2>1 DEF Document
<1>6. [doc EXCEPT !.pending = <<>>] \in Document
  <2>1. <<>> \in Seq(Requests)
    OBVIOUS
  <2> QED BY <2>1 DEF Document
<1> QED BY <1>1, <1>2, <1>3, <1>4, <1>5, <1>6

LEMMA DocumentFields ==
    ASSUME NEW doc \in Document, NEW r
    PROVE  /\ Leased(doc, r).holder = r
           /\ Leased(doc, r).left = TtlS
           /\ Leased(doc, r).pending = doc.pending
           /\ GivenBack(doc).pending = doc.pending
           /\ Elapse(doc).pending = doc.pending
           /\ Elapse(doc).holder = doc.holder
           /\ [doc EXCEPT !.pending = Append(@, r)].pending =
                Append(doc.pending, r)
           /\ [doc EXCEPT !.pending = <<>>].pending = <<>>
  BY DEF Document, Leased, GivenBack, Elapse

----------------------------------------------------------------------------
\* The invariant is inductive

LEMMA InitLeaseInv == Init => LeaseInv
<1> SUFFICES ASSUME Init PROVE LeaseInv
  OBVIOUS
<1>1. TypeOK
  BY StoresFacts, ConfigAssumption
  DEF Init, TypeOK, Document, NoDocument
<1>2. OwnStore /\ AgeOfHolders /\ LeaseIsWritten
  BY DEF Init, OwnStore, AgeOfHolders, LeaseIsWritten
<1> QED BY <1>1, <1>2 DEF LeaseInv

\* The documents agree with whoever holds an unexpired lease.
Written(stores) ==
    \A q \in Requests :
        pc[q] = "holding" /\ age[q] < TtlS
            => /\ stores[be[q]].holder = q
               /\ stores[be[q]].left = TtlS - age[q]

\* A document that is not busy protects nobody, so leasing it to another
\* request takes nothing from anyone.
LEMMA FreeProtectsNobody ==
    ASSUME LeaseInv, NEW stores \in [Stores -> Document], Written(stores),
           NEW s \in Stores, ~Busy(stores[s]),
           NEW q \in Requests, pc[q] = "holding", age[q] < TtlS
    PROVE  be[q] # s
<1>1. SUFFICES ASSUME be[q] = s PROVE FALSE
  OBVIOUS
<1>2. stores[s].holder = q /\ stores[s].left = TtlS - age[q]
  BY <1>1 DEF Written
<1>3. TtlS - age[q] > 0 /\ q # Nobody
  BY TimeAssumption, ConfigAssumption DEF LeaseInv, TypeOK
<1> QED BY <1>2, <1>3 DEF Busy

\* One try, on whatever documents the failing transaction left behind.
LEMMA TryOnKeepsInv ==
    ASSUME LeaseInv, NEW r \in Requests, pc[r] = "acquiring",
           NEW s \in {Firestore, InstanceOf[r]},
           NEW stores \in [Stores -> Document], Written(stores),
           TryOn(r, s, stores)
    PROVE  LeaseInv'
<1> USE DEF LeaseInv
<1>s. s \in Stores
  BY StoresFacts
<1>1. CASE /\ ~Busy(stores[s])
           /\ store' = [stores EXCEPT ![s] = Leased(@, r)]
           /\ pc' = [pc EXCEPT ![r] = "holding"]
           /\ wait' = [wait EXCEPT ![r] = 0]
  <2> USE <1>1
  <2>0. /\ be' = [be EXCEPT ![r] = s]
        /\ UNCHANGED <<age, drained, lost>>
    BY DEF TryOn
  <2>1. Leased(stores[s], r) \in Document
    BY <1>s, DocumentTypes
  <2>2. TypeOK'
    BY <2>0, <2>1, <1>s DEF TypeOK
  <2>3. OwnStore'
    BY <2>0 DEF OwnStore, TypeOK
  <2>4. AgeOfHolders'
    BY <2>0 DEF AgeOfHolders, TypeOK
  <2>5. LeaseIsWritten'
    <3> SUFFICES ASSUME NEW q \in Requests, pc'[q] = "holding", age'[q] < TtlS
                 PROVE  /\ store'[be'[q]].holder = q
                        /\ store'[be'[q]].left = TtlS - age'[q]
      BY DEF LeaseIsWritten
    <3>1. CASE q = r
      <4>1. be'[q] = s /\ age'[q] = 0
        BY <3>1, <2>0 DEF AgeOfHolders, TypeOK
      <4>2. store'[s] = Leased(stores[s], r)
        BY <1>s
      <4>3. store'[s].holder = r /\ store'[s].left = TtlS
        BY <4>2, <1>s, DocumentFields
      <4> QED BY <3>1, <4>1, <4>3, TimeAssumption
    <3>2. CASE q # r
      <4>1. pc[q] = "holding" /\ age[q] < TtlS /\ be'[q] = be[q]
        BY <3>2, <2>0 DEF TypeOK
      <4>2. be[q] # s
        BY <4>1, <1>s, FreeProtectsNobody
      <4>3. store'[be'[q]] = stores[be[q]]
        BY <4>1, <4>2 DEF TypeOK
      <4> QED BY <4>1, <4>3, <2>0 DEF Written
    <3> QED BY <3>1, <3>2
  <2> QED BY <2>2, <2>3, <2>4, <2>5
<1>2. CASE /\ store' = stores
           /\ pc' = IF wait[r] = 0 THEN [pc EXCEPT ![r] = "refused"] ELSE pc
           /\ UNCHANGED wait
  <2> USE <1>2
  <2>0. /\ be' = [be EXCEPT ![r] = s]
        /\ UNCHANGED <<age, drained, lost>>
    BY DEF TryOn
  <2>1. \A q \in Requests :
            pc'[q] = "holding"
                => q # r /\ pc[q] = "holding" /\ be'[q] = be[q]
    BY <2>0 DEF TypeOK
  <2>2. TypeOK'
    BY <2>0, <1>s DEF TypeOK
  <2>3. OwnStore'
    BY <2>0 DEF OwnStore, TypeOK
  <2>4. AgeOfHolders'
    BY <2>0 DEF AgeOfHolders, TypeOK
  <2>5. LeaseIsWritten'
    BY <2>0, <2>1 DEF LeaseIsWritten, Written
  <2> QED BY <2>2, <2>3, <2>4, <2>5
<1> QED BY <1>1, <1>2 DEF TryOn

\* Only Firestore fails half way: the process's own table stays as it was.
LEMMA CommitLostKeepsWritten ==
    ASSUME LeaseInv, NEW r \in Requests, ~Busy(store[Firestore])
    PROVE  LET stores == [store EXCEPT ![Firestore] = Leased(@, r)]
           IN  stores \in [Stores -> Document] /\ Written(stores)
<1> DEFINE stores == [store EXCEPT ![Firestore] = Leased(@, r)]
<1>1. store \in [Stores -> Document] /\ Firestore \in Stores
  BY StoresFacts DEF LeaseInv, TypeOK
<1>2. Leased(store[Firestore], r) \in Document
  BY <1>1, DocumentTypes
<1>3. stores \in [Stores -> Document]
  BY <1>1, <1>2
<1>4. Written(store)
  BY DEF LeaseInv, LeaseIsWritten, Written
<1>5. Written(stores)
  <2> SUFFICES ASSUME NEW q \in Requests, pc[q] = "holding", age[q] < TtlS
               PROVE  stores[be[q]] = store[be[q]]
    BY <1>4 DEF Written
  <2>1. be[q] # Firestore
    BY <1>1, <1>4, FreeProtectsNobody
  <2> QED BY <1>1, <2>1 DEF LeaseInv, TypeOK
<1> QED BY <1>3, <1>5

LEMMA StepKeepsInv ==
    ASSUME LeaseInv, NEW r \in Requests, Step(r)
    PROVE  LeaseInv'
<1> USE DEF LeaseInv
<1>t. /\ store \in [Stores -> Document]
      /\ be[r] \in Stores
      /\ Written(store)
      /\ InstanceOf[r] \in Stores /\ Firestore \in Stores
      /\ Backend(r) \in {Firestore, InstanceOf[r]}
  BY StoresFacts DEF TypeOK, LeaseIsWritten, Written
<1>1. CASE Arrive(r)
  <2>1. TypeOK'
    BY <1>1, <1>t, TimeAssumption DEF Arrive, TypeOK
  <2>2. OwnStore' /\ AgeOfHolders' /\ LeaseIsWritten'
    BY <1>1, <1>t
    DEF Arrive, TypeOK, OwnStore, AgeOfHolders, LeaseIsWritten
  <2> QED BY <2>1, <2>2
<1>2. CASE Acquire(r)
  <2>1. pc[r] = "acquiring" /\ be[r] \in {Firestore, InstanceOf[r]}
    BY <1>2 DEF Acquire, OwnStore
  <2> QED BY <1>2, <1>t, <2>1, TryOnKeepsInv DEF Acquire
<1>3. CASE AcquireFails(r)
  <2>1. pc[r] = "acquiring"
    BY <1>3 DEF AcquireFails
  <2>2. CASE TryOn(r, InstanceOf[r], store)
    BY <1>t, <2>1, <2>2, TryOnKeepsInv
  <2>3. CASE /\ ~Busy(store[Firestore])
             /\ TryOn(r, InstanceOf[r],
                      [store EXCEPT ![Firestore] = Leased(@, r)])
    <3> DEFINE stores == [store EXCEPT ![Firestore] = Leased(@, r)]
    <3>1. stores \in [Stores -> Document] /\ Written(stores)
      BY <2>3, CommitLostKeepsWritten
    <3>2. TryOn(r, InstanceOf[r], stores)
      BY <2>3
    <3> HIDE DEF stores
    <3> QED BY <2>1, <3>1, <3>2, TryOnKeepsInv
  <2> QED BY <1>3, <2>2, <2>3 DEF AcquireFails
<1>4. ASSUME NEW S, RegisterAt(r, S) PROVE LeaseInv'
  <2>1. \A s \in Stores :
            [store[s] EXCEPT !.pending = Append(@, r)] \in Document
    BY <1>t, DocumentTypes
  <2>2. TypeOK'
    BY <1>4, <1>t, <2>1 DEF RegisterAt, TypeOK
  <2>3. \A x \in Stores : /\ store'[x].holder = store[x].holder
                          /\ store'[x].left = store[x].left
    BY <1>4, <1>t DEF RegisterAt, Document
  <2>4. OwnStore' /\ AgeOfHolders'
    BY <1>4 DEF RegisterAt, TypeOK, OwnStore, AgeOfHolders
  <2>5. LeaseIsWritten'
    BY <1>4, <2>3 DEF RegisterAt, TypeOK, LeaseIsWritten
  <2> QED BY <2>2, <2>4, <2>5
<1>5. CASE Answer429(r)
  BY <1>5, <1>4 DEF Answer429, Register, RegisterFails
<1>6. CASE Drain(r) \/ DrainFails(r)
  <2>1. [store[be[r]] EXCEPT !.pending = <<>>] \in Document
    BY <1>t, DocumentTypes
  <2>2. /\ UNCHANGED <<pc, be, wait, age>>
        /\ store' = [store EXCEPT ![be[r]] = [@ EXCEPT !.pending = <<>>]]
    BY <1>6 DEF Drain, DrainFails
  <2>3. drained' \in [Requests -> Seq(Requests)]
    <3>1. drained[r] \o store[be[r]].pending \in Seq(Requests)
      BY <1>t DEF TypeOK, Document
    <3> QED BY <1>6, <3>1 DEF Drain, DrainFails, TypeOK
  <2>4. lost' \subseteq Requests
    <3>1. store[be[r]].pending \in Seq(Requests)
      BY <1>t DEF Document
    <3>2. Entries(store[be[r]].pending) \subseteq Requests
      BY <3>1 DEF Entries
    <3> QED BY <1>6, <3>2 DEF Drain, DrainFails, TypeOK
  <2>5. TypeOK'
    BY <1>t, <2>1, <2>2, <2>3, <2>4 DEF TypeOK
  <2>6. \A s \in Stores : /\ store'[s].holder = store[s].holder
                          /\ store'[s].left = store[s].left
    BY <1>t, <2>2 DEF Document
  <2>7. OwnStore' /\ AgeOfHolders'
    BY <2>2 DEF OwnStore, AgeOfHolders
  <2>8. LeaseIsWritten'
    BY <2>2, <2>6 DEF TypeOK, LeaseIsWritten
  <2> QED BY <2>5, <2>7, <2>8
<1>7. CASE Finish(r)
  <2>1. /\ pc[r] = "holding"
        /\ pc' = [pc EXCEPT ![r] = "released"]
        /\ age' = [age EXCEPT ![r] = 0]
        /\ UNCHANGED <<be, wait, drained, lost>>
    BY <1>7 DEF Finish, Release, ReleaseFails
  <2>2. \/ store' = store
        \/ /\ store[be[r]].holder = r
           /\ store' = [store EXCEPT ![be[r]] = GivenBack(@)]
    BY <1>7 DEF Finish, Release, ReleaseFails
  <2>3. GivenBack(store[be[r]]) \in Document
    BY <1>t, DocumentTypes
  <2>4. TypeOK'
    <3>1. store' \in [Stores -> Document]
      BY <1>t, <2>2, <2>3
    <3>2. pc' \in [Requests -> {"new", "acquiring", "holding", "refused",
                               "registered", "released", "dead"}]
      BY <2>1 DEF TypeOK
    <3>3. age' \in [Requests -> Nat]
      BY <2>1 DEF TypeOK
    <3> QED BY <2>1, <3>1, <3>2, <3>3 DEF TypeOK
  <2>5. OwnStore' /\ AgeOfHolders'
    BY <2>1 DEF TypeOK, OwnStore, AgeOfHolders
  <2>6. LeaseIsWritten'
    <3> SUFFICES ASSUME NEW q \in Requests, pc'[q] = "holding", age'[q] < TtlS
                 PROVE  store'[be'[q]] = store[be[q]] /\ q # r
      BY <2>1 DEF TypeOK, LeaseIsWritten
    <3>1. q # r /\ pc[q] = "holding" /\ age[q] < TtlS /\ be'[q] = be[q]
      BY <2>1 DEF TypeOK
    <3>2. store[be[q]].holder = q /\ be[q] \in Stores
      BY <3>1 DEF LeaseIsWritten, TypeOK
    <3> QED BY <1>t, <2>2, <3>1, <3>2
  <2> QED BY <2>4, <2>5, <2>6
<1> QED BY <1>1, <1>2, <1>3, <1>5, <1>6, <1>7 DEF Step

LEMMA CrashKeepsInv ==
    ASSUME LeaseInv, NEW i \in Instances, Crash(i)
    PROVE  LeaseInv'
<1> USE DEF LeaseInv
<1>t. i \in Stores /\ i # Firestore /\ store \in [Stores -> Document]
  BY StoresFacts, ConfigAssumption DEF TypeOK
<1>1. TypeOK'
  <2>1. NoDocument \in Document
    BY DEF Document, NoDocument
  <2>2. store' \in [Stores -> Document]
    BY <1>t, <2>1 DEF Crash
  <2>3. /\ pc' \in [Requests -> {"new", "acquiring", "holding", "refused",
                                 "registered", "released", "dead"}]
        /\ wait' \in [Requests -> Nat]
        /\ age' \in [Requests -> Nat]
    BY DEF Crash, TypeOK
  <2> QED BY <2>2, <2>3 DEF Crash, TypeOK
<1>2. OwnStore' /\ AgeOfHolders'
  BY DEF Crash, OwnStore, AgeOfHolders
<1>3. LeaseIsWritten'
  <2> SUFFICES ASSUME NEW q \in Requests, pc'[q] = "holding", age'[q] < TtlS
               PROVE  /\ store'[be'[q]].holder = q
                      /\ store'[be'[q]].left = TtlS - age'[q]
    BY DEF LeaseIsWritten
  <2>1. ~Dies(q, i) /\ pc[q] = "holding" /\ age'[q] = age[q] /\ be' = be
    BY DEF Crash
  <2>2. be[q] # i
    BY <1>t, <2>1 DEF Dies, InFlight, OwnStore
  <2>3. store'[be[q]] = store[be[q]]
    BY <1>t, <2>1, <2>2 DEF Crash, TypeOK
  <2> QED BY <2>1, <2>3 DEF LeaseIsWritten
<1> QED BY <1>1, <1>2, <1>3

LEMMA TickKeepsInv ==
    ASSUME LeaseInv, Tick
    PROVE  LeaseInv'
<1> USE DEF LeaseInv
<1>1. TypeOK'
  <2>1. \A s \in Stores : Elapse(store[s]) \in Document
    BY DocumentTypes DEF TypeOK
  <2>2. store' \in [Stores -> Document]
    BY <2>1 DEF Tick
  <2>3. age' \in [Requests -> Nat] /\ wait' \in [Requests -> Nat]
    BY DEF Tick, TypeOK
  <2> QED BY <2>2, <2>3 DEF Tick, TypeOK
<1>2. OwnStore' /\ AgeOfHolders'
  BY DEF Tick, OwnStore, AgeOfHolders
<1>3. LeaseIsWritten'
  <2> SUFFICES ASSUME NEW q \in Requests, pc'[q] = "holding", age'[q] < TtlS
               PROVE  /\ store'[be'[q]].holder = q
                      /\ store'[be'[q]].left = TtlS - age'[q]
    BY DEF LeaseIsWritten
  <2>1. /\ pc[q] = "holding" /\ be' = be /\ be[q] \in Stores
        /\ age'[q] = age[q] + 1 /\ age[q] \in Nat /\ TtlS \in Nat
    BY TimeAssumption DEF Tick, TypeOK
  <2>2. store[be[q]].holder = q /\ store[be[q]].left = TtlS - age[q]
    BY <2>1 DEF LeaseIsWritten
  <2>3. store'[be[q]] = Elapse(store[be[q]]) /\ store[be[q]] \in Document
    BY <2>1 DEF Tick, TypeOK
  <2>4. /\ store'[be[q]].holder = store[be[q]].holder
        /\ store'[be[q]].left =
              IF store[be[q]].left > 0 THEN store[be[q]].left - 1 ELSE 0
    BY <2>3 DEF Elapse, Document
  <2> QED BY <2>1, <2>2, <2>4
<1> QED BY <1>1, <1>2, <1>3

LEMMA NextKeepsInv ==
    ASSUME LeaseInv, [Next]_vars
    PROVE  LeaseInv'
<1>1. CASE Next
  BY <1>1, StepKeepsInv, CrashKeepsInv, TickKeepsInv DEF Next
<1>2. CASE UNCHANGED vars
  BY <1>2 DEF vars, LeaseInv, TypeOK, OwnStore, AgeOfHolders, LeaseIsWritten
<1> QED BY <1>1, <1>2

\* The invariant holds of every state the lease reaches.
THEOREM LeaseInvariant == Spec => []LeaseInv
<1> QED BY InitLeaseInv, NextKeepsInv, PTL DEF Spec

\* Every variable keeps its type: ages, waits and leases never go below zero,
\* and a document is a document after every call and every failure.
THEOREM TypeCorrect == Spec => []TypeOK
<1>1. LeaseInv => TypeOK
  BY DEF LeaseInv
<1> QED BY LeaseInvariant, <1>1, PTL

----------------------------------------------------------------------------
\* Two requests run under one lease only if one of them outstayed it.

\* The serialization that session_lock.py promises, for any number of
\* requests and processes and any ttl_seconds(): both requests would have to
\* be the holder their document names.
THEOREM OverlapIsOverrun == Spec => []OverlapOnlyByOverrun
<1>1. LeaseInv => OverlapOnlyByOverrun
  <2> SUFFICES ASSUME LeaseInv, NEW p \in Requests, NEW q \in Requests,
                      pc[p] = "holding", pc[q] = "holding",
                      be[p] = be[q], p # q,
                      ~(age[p] >= TtlS), ~(age[q] >= TtlS)
               PROVE  FALSE
    BY DEF OverlapOnlyByOverrun
  <2>1. age[p] < TtlS /\ age[q] < TtlS
    BY TimeAssumption DEF LeaseInv, TypeOK
  <2>2. store[be[p]].holder = p /\ store[be[q]].holder = q
    BY <2>1 DEF LeaseInv, LeaseIsWritten
  <2> QED BY <2>2
<1> QED BY LeaseInvariant, <1>1, PTL

----------------------------------------------------------------------------
\* No step of another request takes an unexpired lease.

\* The table of a process names requests of that process only.
TableIsOwn ==
    \A i \in Instances, r \in Requests :
        store[i].holder = r => InstanceOf[r] = i

\* The holders a step can leave in the documents.
LEMMA TryOnHolders ==
    ASSUME TypeOK, NEW r \in Requests, NEW s \in {Firestore, InstanceOf[r]},
           NEW stores \in [Stores -> Document], TryOn(r, s, stores)
    PROVE  /\ s \in Stores
           /\ \A x \in Stores :
                \/ store'[x] = stores[x]
                \/ x = s /\ ~Busy(stores[x]) /\ store'[x].holder = r
  BY StoresFacts, DocumentFields DEF TryOn

LEMMA AcquireHolders ==
    ASSUME LeaseInv, NEW r \in Requests, Acquire(r) \/ AcquireFails(r)
    PROVE  /\ pc[r] = "acquiring"
           /\ \A x \in Stores :
                \/ store'[x] = store[x]
                \/ /\ x \in {Firestore, InstanceOf[r]}
                   /\ ~Busy(store[x])
                   /\ store'[x].holder = r
<1>t. /\ TypeOK /\ store \in [Stores -> Document] /\ Firestore \in Stores
      /\ InstanceOf[r] # Firestore /\ InstanceOf[r] \in Stores
  BY StoresFacts, ConfigAssumption DEF LeaseInv, TypeOK
<1>1. pc[r] = "acquiring"
  BY DEF Acquire, AcquireFails
<1>2. CASE Acquire(r)
  <2>1. be[r] \in {Firestore, InstanceOf[r]}
    BY <1>1 DEF LeaseInv, OwnStore
  <2> QED BY <1>t, <1>1, <1>2, <2>1, TryOnHolders DEF Acquire
<1>3. CASE TryOn(r, InstanceOf[r], store)
  BY <1>t, <1>1, <1>3, TryOnHolders
<1>4. CASE /\ ~Busy(store[Firestore])
           /\ TryOn(r, InstanceOf[r],
                    [store EXCEPT ![Firestore] = Leased(@, r)])
  <2> DEFINE commit == [store EXCEPT ![Firestore] = Leased(@, r)]
  <2>1. commit \in [Stores -> Document]
    BY <1>t, DocumentTypes
  <2>2. /\ commit[Firestore].holder = r
        /\ \A x \in Stores \ {Firestore} : commit[x] = store[x]
    BY <1>t, DocumentFields
  <2>3. TryOn(r, InstanceOf[r], commit)
    BY <1>4
  <2> HIDE DEF commit
  <2>4. \A x \in Stores :
            \/ store'[x] = commit[x]
            \/ /\ x = InstanceOf[r] /\ ~Busy(commit[x])
               /\ store'[x].holder = r
    BY <1>t, <2>1, <2>3, TryOnHolders
  <2> QED BY <1>t, <1>1, <1>4, <2>2, <2>4
<1> QED BY <1>2, <1>3, <1>4 DEF AcquireFails

\* Every other call leaves the holder of a document as it was, or frees it.
LEMMA OtherHolders ==
    ASSUME TypeOK, NEW r \in Requests,
           \/ Arrive(r) \/ Answer429(r)
           \/ Drain(r) \/ DrainFails(r) \/ Finish(r)
    PROVE  \A x \in Stores :
            \/ store'[x].holder = store[x].holder
            \/ /\ store[x].holder = r /\ pc'[r] = "released"
               /\ store'[x].holder = Nobody
<1>t. store \in [Stores -> Document] /\ be[r] \in Stores
  BY DEF TypeOK
<1>1. CASE Arrive(r)
  BY <1>1 DEF Arrive
<1>2. CASE Answer429(r)
  <2>1. PICK S : RegisterAt(r, S)
    BY <1>2 DEF Answer429, Register, RegisterFails
  <2> QED BY <1>t, <2>1 DEF RegisterAt, Document
<1>3. CASE Drain(r) \/ DrainFails(r)
  <2>1. store' = [store EXCEPT ![be[r]] = [@ EXCEPT !.pending = <<>>]]
    BY <1>3 DEF Drain, DrainFails
  <2> QED BY <1>t, <2>1 DEF Document
<1>4. CASE Finish(r)
  <2>1. GivenBack(store[be[r]]).holder = Nobody
    BY <1>t DEF Document, GivenBack
  <2>2. pc'[r] = "released"
    BY <1>4 DEF Finish, Release, ReleaseFails, TypeOK
  <2>3. \/ store' = store
        \/ /\ store[be[r]].holder = r
           /\ store' = [store EXCEPT ![be[r]] = GivenBack(@)]
    BY <1>4 DEF Finish, Release, ReleaseFails
  <2> QED BY <1>t, <2>1, <2>2, <2>3
<1> QED BY <1>1, <1>2, <1>3, <1>4

LEMMA TableIsOwnKept ==
    ASSUME LeaseInv, TableIsOwn, [Next]_vars
    PROVE  TableIsOwn'
<1> SUFFICES ASSUME NEW i \in Instances, NEW q \in Requests,
                    store'[i].holder = q
             PROVE  InstanceOf[q] = i
  BY DEF TableIsOwn
<1>t. /\ TypeOK /\ i \in Stores /\ i # Firestore /\ q # Nobody
      /\ store \in [Stores -> Document]
  BY StoresFacts, ConfigAssumption DEF LeaseInv, TypeOK
<1>1. CASE \E r \in Requests : Step(r)
  <2>1. PICK r \in Requests : Step(r)
    BY <1>1
  <2>2. CASE Acquire(r) \/ AcquireFails(r)
    BY <1>t, <2>2, AcquireHolders DEF TableIsOwn
  <2>3. CASE \/ Arrive(r) \/ Answer429(r)
             \/ Drain(r) \/ DrainFails(r) \/ Finish(r)
    BY <1>t, <2>3, OtherHolders DEF TableIsOwn
  <2> QED BY <2>1, <2>2, <2>3 DEF Step
<1>2. CASE \E j \in Instances : Crash(j)
  BY <1>t, <1>2 DEF Crash, NoDocument, TableIsOwn
<1>3. CASE Tick
  <2>1. store'[i].holder = store[i].holder
    BY <1>t, <1>3, DocumentFields DEF Tick
  <2> QED BY <2>1 DEF TableIsOwn
<1>4. CASE UNCHANGED vars
  BY <1>4 DEF vars, TableIsOwn
<1> QED BY <1>1, <1>2, <1>3, <1>4 DEF Next

LEMMA StepKeepsUnexpired ==
    ASSUME LeaseInv, TableIsOwn, Next, NEW s \in Stores, NEW r \in Requests,
           store[s].holder = r, pc[r] = "holding", store[s].left > 0
    PROVE  store'[s].holder = r \/ pc'[r] # "holding"
<1>t. /\ TypeOK /\ store \in [Stores -> Document] /\ r # Nobody
      /\ Busy(store[s])
  BY ConfigAssumption DEF LeaseInv, TypeOK, Busy
<1>1. CASE \E q \in Requests : Step(q)
  <2>1. PICK q \in Requests : Step(q)
    BY <1>1
  <2>2. CASE Acquire(q) \/ AcquireFails(q)
    BY <1>t, <2>2, AcquireHolders
  <2>3. CASE \/ Arrive(q) \/ Answer429(q)
             \/ Drain(q) \/ DrainFails(q) \/ Finish(q)
    BY <1>t, <2>3, OtherHolders
  <2> QED BY <2>1, <2>2, <2>3 DEF Step
<1>2. CASE \E i \in Instances : Crash(i)
  <2>1. PICK i \in Instances : Crash(i)
    BY <1>2
  <2>2. CASE s = i
    BY <1>t, <2>1, <2>2 DEF TableIsOwn, Crash, Dies, InFlight
  <2>3. CASE s # i
    BY <1>t, <2>1, <2>3 DEF Crash
  <2> QED BY <2>2, <2>3
<1>3. CASE Tick
  BY <1>t, <1>3, DocumentFields DEF Tick
<1> QED BY <1>1, <1>2, <1>3 DEF Next

\* "release and drain only act on documents the caller still owns": whatever
\* fails and whichever process dies, an unexpired lease ends with its holder.
THEOREM UnexpiredLeaseIsKept == Spec => UnexpiredLeaseKept
<1>1. Init => TableIsOwn
  BY StoresFacts, ConfigAssumption DEF Init, TableIsOwn, NoDocument
<1>2. LeaseInv /\ TableIsOwn /\ [Next]_vars
        => [\A s \in Stores, r \in Requests :
                (store[s].holder = r /\ pc[r] = "holding" /\ store[s].left > 0)
                    => \/ store'[s].holder = r
                       \/ pc'[r] # "holding"]_vars
  BY StepKeepsUnexpired
<1> QED BY <1>1, <1>2, LeaseInvariant, TableIsOwnKept, PTL
        DEF Spec, UnexpiredLeaseKept

----------------------------------------------------------------------------
\* What is registered in Firestore is counted, or a drain that raised took it.

LEMMA EntriesGrow ==
    ASSUME NEW a \in Seq(Requests), NEW b \in Seq(Requests),
           NEW r \in Requests, NEW p
    PROVE  /\ p \in Entries(a) => p \in Entries(Append(a, r))
           /\ p \in Entries(b) => p \in Entries(a \o b)
<1>1. ASSUME p \in Entries(a) PROVE p \in Entries(Append(a, r))
  <2>1. PICK k \in 1..Len(a) : a[k] = p
    BY <1>1 DEF Entries
  <2>2. Append(a, r)[k] = p /\ k \in DOMAIN Append(a, r)
    BY <2>1
  <2> QED BY <2>2 DEF Entries
<1>2. ASSUME p \in Entries(b) PROVE p \in Entries(a \o b)
  <2>1. PICK k \in 1..Len(b) : b[k] = p
    BY <1>2 DEF Entries
  <2>2. (a \o b)[Len(a) + k] = p /\ Len(a) + k \in DOMAIN (a \o b)
    BY <2>1
  <2> QED BY <2>2 DEF Entries
<1> QED BY <1>1, <1>2

LEMMA StepKeepsRejected ==
    ASSUME LeaseInv, NEW r \in Requests, Step(r),
           NEW p \in Entries(store[Firestore].pending)
    PROVE  \/ p \in Entries(store'[Firestore].pending)
           \/ pc[r] = "holding" /\ p \in Entries(drained'[r])
           \/ p \in lost'
<1>t. /\ TypeOK /\ Firestore \in Stores /\ be[r] \in Stores
      /\ store \in [Stores -> Document] /\ store[Firestore] \in Document
      /\ InstanceOf[r] \in Stores
      /\ store[Firestore].pending \in Seq(Requests)
  BY StoresFacts DEF LeaseInv, TypeOK, Document
<1>1. CASE Arrive(r)
  BY <1>1 DEF Arrive
<1>2. CASE Acquire(r) \/ AcquireFails(r)
  <2>1. ASSUME NEW s \in Stores, NEW stores \in [Stores -> Document],
               stores[Firestore].pending = store[Firestore].pending,
               TryOn(r, s, stores)
        PROVE  store'[Firestore].pending = store[Firestore].pending
    BY <1>t, <2>1, DocumentFields DEF TryOn
  <2>2. [store EXCEPT ![Firestore] = Leased(@, r)] \in [Stores -> Document]
    BY <1>t, DocumentTypes
  <2>3. [store EXCEPT ![Firestore] = Leased(@, r)][Firestore].pending
            = store[Firestore].pending
    BY <1>t, DocumentFields
  <2>4. store'[Firestore].pending = store[Firestore].pending
    BY <1>2, <1>t, <2>1, <2>2, <2>3 DEF Acquire, AcquireFails
  <2> QED BY <2>4
<1>3. CASE Answer429(r)
  <2>1. PICK S : RegisterAt(r, S)
    BY <1>3 DEF Answer429, Register, RegisterFails
  <2>2. store'[Firestore].pending \in
            {store[Firestore].pending, Append(store[Firestore].pending, r)}
    BY <1>t, <2>1, DocumentFields DEF RegisterAt
  <2> QED BY <1>t, <2>2, EntriesGrow
<1>4. CASE Drain(r)
  <2>1. CASE be[r] = Firestore
    <3>1. drained'[r] = drained[r] \o store[Firestore].pending
      BY <1>4, <1>t, <2>1 DEF Drain, TypeOK
    <3>2. drained[r] \in Seq(Requests) /\ pc[r] = "holding"
      BY <1>4, <1>t DEF Drain, TypeOK
    <3> QED BY <1>t, <3>1, <3>2, EntriesGrow
  <2>2. CASE be[r] # Firestore
    BY <1>4, <1>t, <2>2 DEF Drain
  <2> QED BY <2>1, <2>2
<1>5. CASE DrainFails(r)
  BY <1>5 DEF DrainFails
<1>6. CASE Finish(r)
  BY <1>6, <1>t, DocumentFields DEF Finish, Release, ReleaseFails
<1> QED BY <1>1, <1>2, <1>3, <1>4, <1>5, <1>6 DEF Step

\* "Still counted": a turn that was turned away is not forgotten by a release,
\* an expiry, a takeover or a crash of the process that held the lease.
THEOREM RejectedTurnsAreKept == Spec => RejectedTurnsSurvive
<1>1. LeaseInv /\ [Next]_vars
        => [\A p \in Entries(store[Firestore].pending) :
                \/ p \in Entries(store'[Firestore].pending)
                \/ \E r \in Requests :
                        pc[r] = "holding" /\ p \in Entries(drained'[r])
                \/ p \in lost']_vars
  <2> SUFFICES ASSUME LeaseInv, Next,
                      NEW p \in Entries(store[Firestore].pending)
               PROVE  \/ p \in Entries(store'[Firestore].pending)
                      \/ \E r \in Requests :
                            pc[r] = "holding" /\ p \in Entries(drained'[r])
                      \/ p \in lost'
    OBVIOUS
  <2>1. CASE \E r \in Requests : Step(r)
    BY <2>1, StepKeepsRejected
  <2>2. CASE \E i \in Instances : Crash(i)
    BY <2>2, ConfigAssumption DEF Crash, LeaseInv, TypeOK, Stores
  <2>3. CASE Tick
    BY <2>3, StoresFacts, DocumentFields DEF Tick, LeaseInv, TypeOK
  <2> QED BY <2>1, <2>2, <2>3 DEF Next
<1> QED BY <1>1, LeaseInvariant, PTL DEF Spec, RejectedTurnsSurvive

(***************************************************************************)
(* SessionLease implements SessionMutex: every call on a document, every   *)
(* failure of Firestore, every crash and every tick of the clock is a step *)
(* of the abstract lease or no step at all.                                *)
(***************************************************************************)

\* The mapping of the INSTANCE, by name.
AbsPhase == [r \in Requests |-> PhaseOf(r)]
AbsAt == [r \in Requests |-> IF pc[r] = "holding" THEN be[r] ELSE Nobody]
AbsPending == [s \in Stores |-> store[s].pending]

\* What a step of one request does to the mapped variables.
SamePhases(r) == \A q \in Requests \ {r} : AbsPhase'[q] = AbsPhase[q]

LEMMA PhaseFacts ==
    ASSUME TypeOK, NEW r \in Requests
    PROVE  /\ pc[r] \in {"new", "refused", "registered", "dead"}
                => AbsPhase[r] = pc[r]
           /\ pc[r] = "acquiring" => AbsPhase[r] = "waiting"
           /\ pc[r] = "released" => AbsPhase[r] = "done"
           /\ pc[r] = "holding" =>
                /\ AbsPhase[r] = IF age[r] < TtlS THEN "holding" ELSE "late"
                /\ AbsAt[r] = be[r]
           /\ pc[r] # "holding" => AbsAt[r] = Nobody
  BY DEF TypeOK, AbsPhase, AbsAt, PhaseOf

\* One request moves: the mapped phase and store of the others stay.
LEMMA OneMoves ==
    ASSUME NEW r \in Requests,
           \A q \in Requests \ {r} :
                pc'[q] = pc[q] /\ be'[q] = be[q] /\ age'[q] = age[q]
    PROVE  /\ AbsPhase' = [AbsPhase EXCEPT ![r] = AbsPhase'[r]]
           /\ AbsAt' = [AbsAt EXCEPT ![r] = AbsAt'[r]]
  BY DEF AbsPhase, AbsAt, PhaseOf

LEMMA SamePending ==
    ASSUME \A s \in Stores : store'[s].pending = store[s].pending
    PROVE  AbsPending' = AbsPending
  BY DEF AbsPending

LEMMA InitRefines == Init => Mutex!MutexInit
  BY DEF Init, Mutex!MutexInit, PhaseOf, NoDocument

\* A try takes the lease, is refused, or changes nothing.
LEMMA TryOnRefines ==
    ASSUME LeaseInv, LeaseInv', NEW r \in Requests, pc[r] = "acquiring",
           NEW s \in {Firestore, InstanceOf[r]},
           NEW stores \in [Stores -> Document], Written(stores),
           \A x \in Stores : stores[x].pending = store[x].pending,
           TryOn(r, s, stores)
    PROVE  \/ Mutex!Take(r, s) \/ Mutex!Refuse(r)
           \/ UNCHANGED <<AbsPhase, AbsAt, AbsPending, drained>>
<1>s. s \in Stores /\ TypeOK /\ TypeOK'
  BY StoresFacts DEF LeaseInv
<1>0. be' = [be EXCEPT ![r] = s] /\ UNCHANGED <<age, drained>>
  BY DEF TryOn
<1>1. CASE /\ ~Busy(stores[s])
           /\ store' = [stores EXCEPT ![s] = Leased(@, r)]
           /\ pc' = [pc EXCEPT ![r] = "holding"]
  <2>1. \A x \in Stores : store'[x].pending = store[x].pending
    BY <1>1, <1>s, DocumentFields
  <2>2. AbsPending' = AbsPending
    BY <2>1, SamePending
  <2>3. /\ AbsPhase' = [AbsPhase EXCEPT ![r] = AbsPhase'[r]]
        /\ AbsAt' = [AbsAt EXCEPT ![r] = AbsAt'[r]]
    BY <1>1, <1>0, <1>s, OneMoves DEF TypeOK
  <2>4. pc'[r] = "holding" /\ be'[r] = s /\ age'[r] = 0
    BY <1>1, <1>0, <1>s DEF TypeOK, LeaseInv, AgeOfHolders
  <2>5. AbsPhase'[r] = "holding" /\ AbsAt'[r] = s
    BY <2>4, TimeAssumption DEF AbsPhase, AbsAt, PhaseOf
  <2>6. AbsPhase[r] = "waiting"
    BY <1>s, PhaseFacts
  <2>7. \A q \in Requests : ~(AbsPhase[q] = "holding" /\ AbsAt[q] = s)
    <3> SUFFICES ASSUME NEW q \in Requests,
                        AbsPhase[q] = "holding", AbsAt[q] = s
                 PROVE  FALSE
      OBVIOUS
    <3>1. pc[q] = "holding" /\ age[q] < TtlS /\ be[q] = s
      BY <1>s, ConfigAssumption DEF AbsPhase, AbsAt, PhaseOf, TypeOK
    <3> QED BY <3>1, <1>1, <1>s, FreeProtectsNobody
  <2>8. Mutex!Take(r, s)
    BY <2>2, <2>3, <2>5, <2>6, <2>7, <1>0
    DEF Mutex!Take, Mutex!Protected, AbsPhase, AbsAt, AbsPending
  <2> QED BY <2>8
<1>2. CASE /\ store' = stores
           /\ pc' = IF wait[r] = 0 THEN [pc EXCEPT ![r] = "refused"] ELSE pc
  <2>1. AbsPending' = AbsPending
    BY <1>2, SamePending
  <2>2. /\ AbsPhase' = [AbsPhase EXCEPT ![r] = AbsPhase'[r]]
        /\ AbsAt' = [AbsAt EXCEPT ![r] = AbsAt'[r]]
    BY <1>2, <1>0, <1>s, OneMoves DEF TypeOK
  <2>3. AbsPhase[r] = "waiting" /\ AbsAt[r] = Nobody
    BY <1>s, PhaseFacts
  <2>4. pc'[r] \in {"refused", "acquiring"}
    BY <1>2, <1>s DEF TypeOK
  <2>5. AbsAt'[r] = Nobody
    BY <2>4 DEF AbsAt
  <2>6. AbsPhase'[r] \in {"refused", "waiting"}
    BY <2>4 DEF AbsPhase, PhaseOf
  <2>7. AbsAt' = AbsAt
    BY <2>2, <2>3, <2>5 DEF AbsAt
  <2>8. CASE AbsPhase'[r] = "refused"
    BY <2>1, <2>2, <2>3, <2>7, <2>8, <1>0
    DEF Mutex!Refuse, AbsPhase, AbsAt, AbsPending
  <2>9. CASE AbsPhase'[r] = "waiting"
    <3>1. AbsPhase' = AbsPhase
      BY <2>2, <2>3, <2>9 DEF AbsPhase
    <3> QED BY <2>1, <2>7, <3>1, <1>0
  <2> QED BY <2>6, <2>8, <2>9
<1> QED BY <1>1, <1>2 DEF TryOn

\* Every step of a request is one of the abstract lease, or a stutter.
LEMMA StepRefines ==
    ASSUME LeaseInv, NEW r \in Requests, Step(r)
    PROVE  \/ Mutex!MutexNext
           \/ UNCHANGED <<AbsPhase, AbsAt, AbsPending, drained>>
<1>t. /\ TypeOK /\ TypeOK' /\ LeaseInv'
      /\ store \in [Stores -> Document] /\ be[r] \in Stores
      /\ Written(store)
      /\ InstanceOf[r] \in Stores /\ Firestore \in Stores
      /\ Backend(r) \in {Firestore, InstanceOf[r]}
  BY StepKeepsInv, StoresFacts DEF LeaseInv, TypeOK, LeaseIsWritten, Written
<1>1. CASE Arrive(r)
  <2>1. AbsPending' = AbsPending
    BY <1>1, SamePending DEF Arrive
  <2>2. /\ AbsPhase' = [AbsPhase EXCEPT ![r] = AbsPhase'[r]]
        /\ AbsAt' = [AbsAt EXCEPT ![r] = AbsAt'[r]]
    BY <1>1, <1>t, OneMoves DEF Arrive, TypeOK
  <2>3. pc[r] = "new" /\ pc'[r] = "acquiring"
    BY <1>1, <1>t DEF Arrive, TypeOK
  <2>4. /\ AbsPhase[r] = "new" /\ AbsPhase'[r] = "waiting"
        /\ AbsAt[r] = Nobody /\ AbsAt'[r] = Nobody
    BY <2>3 DEF AbsPhase, AbsAt, PhaseOf
  <2>5. AbsAt' = AbsAt
    BY <2>2, <2>4 DEF AbsAt
  <2>6. Mutex!Ask(r)
    BY <1>1, <2>1, <2>2, <2>4, <2>5
    DEF Arrive, Mutex!Ask, AbsPhase, AbsAt, AbsPending
  <2> QED BY <2>6 DEF Mutex!MutexNext
<1>2. CASE Acquire(r) \/ AcquireFails(r)
  <2>1. pc[r] = "acquiring"
    BY <1>2 DEF Acquire, AcquireFails
  <2>2. PICK s \in {Firestore, InstanceOf[r]},
             stores \in [Stores -> Document] :
            /\ Written(stores)
            /\ \A x \in Stores : stores[x].pending = store[x].pending
            /\ TryOn(r, s, stores)
    <3>1. CASE Acquire(r)
      <4>1. be[r] \in {Firestore, InstanceOf[r]}
        BY <2>1 DEF LeaseInv, OwnStore
      <4> QED BY <1>t, <3>1, <4>1 DEF Acquire
    <3>2. CASE AcquireFails(r) /\ TryOn(r, InstanceOf[r], store)
      BY <1>t, <3>2
    <3>3. CASE /\ ~Busy(store[Firestore])
               /\ TryOn(r, InstanceOf[r],
                        [store EXCEPT ![Firestore] = Leased(@, r)])
      <4> DEFINE commit == [store EXCEPT ![Firestore] = Leased(@, r)]
      <4>1. commit \in [Stores -> Document] /\ Written(commit)
        BY <3>3, CommitLostKeepsWritten
      <4>2. \A x \in Stores : commit[x].pending = store[x].pending
        BY <1>t, DocumentFields
      <4>3. TryOn(r, InstanceOf[r], commit)
        BY <3>3
      <4> HIDE DEF commit
      <4> QED BY <4>1, <4>2, <4>3
    <3> QED BY <1>2, <3>1, <3>2, <3>3 DEF AcquireFails
  <2>3. s \in Stores
    BY <1>t
  <2>4. \/ Mutex!Take(r, s) \/ Mutex!Refuse(r)
        \/ UNCHANGED <<AbsPhase, AbsAt, AbsPending, drained>>
    BY <1>t, <2>1, <2>2, TryOnRefines
  <2> QED BY <2>3, <2>4 DEF Mutex!MutexNext
<1>3. CASE Answer429(r)
  <2>1. PICK S \in SUBSET Stores : RegisterAt(r, S)
    BY <1>3, <1>t DEF Answer429, Register, RegisterFails
  <2>2. /\ AbsPhase' = [AbsPhase EXCEPT ![r] = AbsPhase'[r]]
        /\ AbsAt' = [AbsAt EXCEPT ![r] = AbsAt'[r]]
    BY <1>t, <2>1, OneMoves DEF RegisterAt, TypeOK
  <2>3. pc[r] = "refused" /\ pc'[r] = "registered"
    BY <1>t, <2>1 DEF RegisterAt, TypeOK
  <2>4. /\ AbsPhase[r] = "refused" /\ AbsPhase'[r] = "registered"
        /\ AbsAt[r] = Nobody /\ AbsAt'[r] = Nobody
    BY <2>3 DEF AbsPhase, AbsAt, PhaseOf
  <2>5. AbsAt' = AbsAt
    BY <2>2, <2>4 DEF AbsAt
  <2>6. \A x \in Stores :
            store'[x].pending = IF x \in S THEN Append(store[x].pending, r)
                                          ELSE store[x].pending
    <3>1. \A x \in Stores :
            [store[x] EXCEPT !.pending = Append(@, r)].pending
                = Append(store[x].pending, r)
      BY <1>t, DocumentFields
    <3> QED BY <2>1, <3>1 DEF RegisterAt
  <2>7. AbsPending' = [x \in Stores |-> IF x \in S
                                       THEN Append(AbsPending[x], r)
                                       ELSE AbsPending[x]]
    BY <2>6 DEF AbsPending
  <2>8. Mutex!Register(r, S)
    BY <2>1, <2>2, <2>4, <2>5, <2>7
    DEF RegisterAt, Mutex!Register, AbsPhase, AbsAt, AbsPending
  <2> QED BY <2>8 DEF Mutex!MutexNext
<1>4. CASE Drain(r) \/ DrainFails(r)
  <2>1. /\ pc[r] = "holding" /\ UNCHANGED <<pc, be, age>>
        /\ store' = [store EXCEPT ![be[r]] = [@ EXCEPT !.pending = <<>>]]
    BY <1>4 DEF Drain, DrainFails
  <2>2. AbsPhase' = AbsPhase /\ AbsAt' = AbsAt
    BY <2>1 DEF AbsPhase, AbsAt, PhaseOf
  <2>3. AbsPhase[r] \in {"holding", "late"} /\ AbsAt[r] = be[r]
    BY <1>t, <2>1, PhaseFacts
  <2>4. \A x \in Stores :
            store'[x].pending = IF x = be[r] THEN <<>> ELSE store[x].pending
    <3>1. [store[be[r]] EXCEPT !.pending = <<>>].pending = <<>>
      BY <1>t, DocumentFields
    <3> QED BY <1>t, <2>1, <3>1
  <2>5. AbsPending' = [AbsPending EXCEPT ![be[r]] = <<>>]
    BY <2>4 DEF AbsPending
  <2>6. CASE Drain(r)
    <3>1. drained' = [drained EXCEPT ![r] = @ \o AbsPending[AbsAt[r]]]
      BY <1>t, <2>3, <2>6 DEF AbsPending, Drain
    <3>2. Mutex!Drain(r)
      BY <2>2, <2>3, <2>5, <3>1
      DEF Mutex!Drain, Mutex!Inside, AbsPhase, AbsAt, AbsPending
    <3> QED BY <3>2 DEF Mutex!MutexNext
  <2>7. CASE DrainFails(r)
    <3>1. drained' = drained
      BY <2>7 DEF DrainFails
    <3>2. Mutex!DrainLost(r)
      BY <2>2, <2>3, <2>5, <3>1
      DEF Mutex!DrainLost, Mutex!Inside, AbsPhase, AbsAt, AbsPending
    <3> QED BY <3>2 DEF Mutex!MutexNext
  <2> QED BY <1>4, <2>6, <2>7
<1>5. CASE Finish(r)
  <2>1. /\ pc[r] = "holding"
        /\ pc' = [pc EXCEPT ![r] = "released"]
        /\ age' = [age EXCEPT ![r] = 0]
        /\ UNCHANGED <<be, drained>>
        /\ \/ store' = store
           \/ store' = [store EXCEPT ![be[r]] = GivenBack(@)]
    BY <1>5 DEF Finish, Release, ReleaseFails
  <2>2. AbsPending' = AbsPending
    BY <1>t, <2>1, SamePending, DocumentFields
  <2>3. /\ AbsPhase' = [AbsPhase EXCEPT ![r] = AbsPhase'[r]]
        /\ AbsAt' = [AbsAt EXCEPT ![r] = AbsAt'[r]]
    BY <1>t, <2>1, OneMoves DEF TypeOK
  <2>4. AbsPhase[r] \in {"holding", "late"}
    BY <1>t, <2>1, PhaseFacts
  <2>5. AbsPhase'[r] = "done" /\ AbsAt'[r] = Nobody
    BY <1>t, <2>1 DEF AbsPhase, AbsAt, PhaseOf, TypeOK
  <2>6. Mutex!Leave(r)
    BY <2>1, <2>2, <2>3, <2>4, <2>5
    DEF Mutex!Leave, Mutex!Inside, AbsPhase, AbsAt, AbsPending
  <2> QED BY <2>6 DEF Mutex!MutexNext
<1> QED BY <1>1, <1>2, <1>3, <1>4, <1>5 DEF Step

\* A crash takes the requests of the process and the table they leased from.
LEMMA CrashRefines ==
    ASSUME LeaseInv, NEW i \in Instances, Crash(i)
    PROVE  Mutex!MutexNext
<1> DEFINE R == {r \in Requests : Dies(r, i)}
<1>t. TypeOK /\ OwnStore /\ i \in Stores /\ i # Firestore
  BY StoresFacts, ConfigAssumption DEF LeaseInv
<1>1. \A r \in R : AbsPhase[r] \in {"waiting", "holding", "late", "refused"}
  BY <1>t, PhaseFacts DEF Dies, InFlight
<1>2. \A r \in Requests \ R :
        AbsPhase[r] \in {"holding", "late"} => AbsAt[r] \notin {i}
  <2> SUFFICES ASSUME NEW r \in Requests \ R,
                      AbsPhase[r] \in {"holding", "late"}, AbsAt[r] = i
               PROVE  FALSE
    OBVIOUS
  <2>1. pc[r] = "holding" /\ be[r] = i
    BY <1>t, ConfigAssumption DEF AbsPhase, AbsAt, PhaseOf, TypeOK
  <2> QED BY <1>t, <2>1 DEF OwnStore, Dies, InFlight
<1>3. AbsPhase' = [r \in Requests |-> IF r \in R THEN "dead" ELSE AbsPhase[r]]
  BY DEF Crash, AbsPhase, PhaseOf
<1>4. AbsAt' = [r \in Requests |-> IF r \in R THEN Nobody ELSE AbsAt[r]]
  BY DEF Crash, AbsAt
<1>5. AbsPending' =
        [s \in Stores |-> IF s \in {i} THEN <<>> ELSE AbsPending[s]]
  BY <1>t DEF Crash, AbsPending, NoDocument, TypeOK
<1>6. drained' = drained
  BY DEF Crash
<1> HIDE DEF R
<1>7. Mutex!Die(R, {i})
  BY <1>1, <1>2, <1>3, <1>4, <1>5, <1>6
  DEF Mutex!Die, Mutex!Inside, AbsPhase, AbsAt, AbsPending
<1>8. R \in SUBSET Requests /\ {i} \in SUBSET Stores
  BY <1>t DEF R
<1> QED BY <1>7, <1>8 DEF Mutex!MutexNext

\* A tick is the overrun of the requests whose lease it brings to its end.
LEMMA TickRefines ==
    ASSUME LeaseInv, Tick
    PROVE  Mutex!MutexNext
<1> DEFINE R == {r \in Requests :
                    pc[r] = "holding" /\ age[r] < TtlS /\ ~(age'[r] < TtlS)}
<1>t. TypeOK /\ UNCHANGED <<pc, be, drained>>
  BY DEF LeaseInv, Tick
<1>1. \A r \in R : AbsPhase[r] = "holding"
  BY <1>t, PhaseFacts
<1>2. AbsPhase' = [r \in Requests |-> IF r \in R THEN "late" ELSE AbsPhase[r]]
  <2> SUFFICES ASSUME NEW r \in Requests
               PROVE  PhaseOf(r)' = IF r \in R THEN "late" ELSE PhaseOf(r)
    BY DEF AbsPhase
  <2>1. CASE pc[r] = "holding"
    <3>1. age'[r] = age[r] + 1 /\ age[r] \in Nat
      BY <1>t, <2>1 DEF Tick, TypeOK
    <3> QED BY <1>t, <2>1, <3>1, TimeAssumption DEF PhaseOf
  <2>2. CASE pc[r] # "holding"
    BY <1>t, <2>2 DEF PhaseOf
  <2> QED BY <2>1, <2>2
<1>3. AbsAt' = AbsAt
  BY <1>t DEF AbsAt
<1>4. AbsPending' = AbsPending
  BY <1>t, SamePending, DocumentFields DEF Tick, TypeOK
<1> HIDE DEF R
<1>5. Mutex!Overrun(R)
  BY <1>t, <1>1, <1>2, <1>3, <1>4
  DEF Mutex!Overrun, AbsPhase, AbsAt, AbsPending
<1>6. R \in SUBSET Requests
  BY DEF R
<1> QED BY <1>5, <1>6 DEF Mutex!MutexNext

\* The lease of session_lock.py keeps what SessionMutex promises: whatever is
\* true of every behaviour of the abstract lease is true of the code's.
THEOREM LeaseImplementsMutex == Spec => ImplementsMutex
<1>1. LeaseInv /\ [Next]_vars => [Mutex!MutexNext]_(Mutex!mutexVars)
  <2> SUFFICES ASSUME LeaseInv, [Next]_vars
               PROVE  \/ Mutex!MutexNext
                      \/ UNCHANGED <<AbsPhase, AbsAt, AbsPending, drained>>
    BY DEF Mutex!mutexVars, AbsPhase, AbsAt, AbsPending
  <2>1. CASE Next
    BY <2>1, StepRefines, CrashRefines, TickRefines DEF Next
  <2>2. CASE UNCHANGED vars
    BY <2>2 DEF vars, AbsPhase, AbsAt, AbsPending, PhaseOf
  <2> QED BY <2>1, <2>2
<1> QED BY InitRefines, LeaseInvariant, <1>1, PTL
        DEF Spec, ImplementsMutex, Mutex!MutexSpec
=============================================================================
