-------------------------- MODULE AgentTurn_proofs --------------------------
(***************************************************************************)
(* The abstract lease excludes, for any requests and stores; the turns of  *)
(* a session use it as SessionMutex allows, so they inherit that.  And     *)
(* what a session writes under it: whatever messages arrive, and for any   *)
(* thresholds, the indexes of its rows run on, a burst reaches the lock,   *)
(* the lock is answered, and a turned-away message counts, no more often   *)
(* than it was registered.                                                 *)
(*                                                                         *)
(* The order of the argument: the exclusion; induction, and with it what   *)
(* a read of the rows rebuilds, in whatever order they are read; what a    *)
(* row keeps of a turn; the invariant TurnInv, conjunct by conjunct; the   *)
(* theorems.                                                               *)
(***************************************************************************)
EXTENDS AgentTurn, FiniteSetTheorems, SequenceTheorems, WellFoundedInduction,
        TLAPS

\* A request inside runs under the lease of a store.
InsideSomewhere == \A r \in Requests : Inside(r) => at[r] \in Stores

MutexInv == MutexTypeOK /\ InsideSomewhere /\ MutualExclusion

LEMMA InitMutexInv == MutexInit => MutexInv
  BY NowhereAssumption
  DEF MutexInit, MutexInv, MutexTypeOK, Phases, InsideSomewhere, Inside,
      MutualExclusion, Protected

\* A step that protects nobody new keeps the exclusion.
LEMMA NobodyNew ==
    ASSUME MutexInv, phase' \in [Requests -> Phases],
           \A r \in Requests :
                /\ phase'[r] = "holding" => phase[r] = "holding"
                /\ Inside(r)' => Inside(r) /\ at'[r] = at[r]
    PROVE  InsideSomewhere' /\ MutualExclusion'
<1>1. InsideSomewhere'
  BY DEF MutexInv, InsideSomewhere
<1>2. \A r \in Requests, s \in Stores : Protected(r, s)' => Protected(r, s)
  BY DEF Protected, Inside
<1>3. MutualExclusion'
  BY <1>2 DEF MutexInv, MutualExclusion
<1> QED BY <1>1, <1>3

LEMMA MutexStep ==
    ASSUME MutexInv, MutexNext
    PROVE  MutexInv'
<1>t. MutexTypeOK /\ InsideSomewhere /\ MutualExclusion
  BY DEF MutexInv
<1>1. ASSUME NEW r \in Requests, Ask(r) \/ Refuse(r) \/ Leave(r)
      PROVE  MutexInv'
  <2>1. MutexTypeOK'
    BY <1>1, <1>t DEF Ask, Refuse, Leave, MutexTypeOK, Phases
  <2>2. \A q \in Requests :
            /\ phase'[q] = "holding" => phase[q] = "holding"
            /\ Inside(q)' => Inside(q) /\ at'[q] = at[q]
    BY <1>1, <1>t DEF Ask, Refuse, Leave, MutexTypeOK, Inside
  <2> QED BY <2>1, <2>2, NobodyNew DEF MutexInv, MutexTypeOK
<1>2. ASSUME NEW r \in Requests, NEW s \in Stores, Take(r, s)
      PROVE  MutexInv'
  <2>1. MutexTypeOK'
    BY <1>2, <1>t DEF Take, MutexTypeOK, Phases
  <2>2. InsideSomewhere'
    BY <1>2, <1>t DEF Take, MutexTypeOK, InsideSomewhere, Inside
  <2>3. MutualExclusion'
    <3> SUFFICES ASSUME NEW x \in Stores,
                        NEW p \in Requests, NEW q \in Requests,
                        Protected(p, x)', Protected(q, x)', p # q
                 PROVE  FALSE
      BY DEF MutualExclusion
    <3>1. \A o \in Requests \ {r} : Protected(o, x)' => Protected(o, x)
      BY <1>2, <1>t DEF Take, Protected, MutexTypeOK
    <3>2. CASE p = r \/ q = r
      <4>1. x = s
        BY <1>2, <1>t, <3>2 DEF Take, Protected, MutexTypeOK
      <4> QED BY <1>2, <3>1, <3>2, <4>1 DEF Take
    <3>3. CASE p # r /\ q # r
      BY <1>t, <3>1, <3>3 DEF MutualExclusion
    <3> QED BY <3>2, <3>3
  <2> QED BY <2>1, <2>2, <2>3 DEF MutexInv
<1>3. ASSUME NEW r \in Requests, NEW S \in SUBSET Stores, Register(r, S)
      PROVE  MutexInv'
  <2>1. \A s \in Stores : Append(pending[s], r) \in Seq(Requests)
    BY <1>t DEF MutexTypeOK
  <2>2. pending' \in [Stores -> Seq(Requests)]
    BY <1>3, <1>t, <2>1 DEF Register, MutexTypeOK
  <2>3. MutexTypeOK'
    BY <1>3, <1>t, <2>2 DEF Register, MutexTypeOK, Phases
  <2>4. \A q \in Requests :
            /\ phase'[q] = "holding" => phase[q] = "holding"
            /\ Inside(q)' => Inside(q) /\ at'[q] = at[q]
    BY <1>3, <1>t DEF Register, MutexTypeOK, Inside
  <2> QED BY <2>3, <2>4, NobodyNew DEF MutexInv, MutexTypeOK
<1>4. ASSUME NEW r \in Requests, Drain(r) \/ DrainLost(r)
      PROVE  MutexInv'
  <2>1. at[r] \in Stores
    BY <1>4, <1>t DEF Drain, DrainLost, InsideSomewhere
  <2>2. pending' \in [Stores -> Seq(Requests)]
    <3>1. <<>> \in Seq(Requests)
      OBVIOUS
    <3> QED BY <1>4, <1>t, <2>1, <3>1 DEF Drain, DrainLost, MutexTypeOK
  <2>3. drained' \in [Requests -> Seq(Requests)]
    <3>1. drained[r] \o pending[at[r]] \in Seq(Requests)
      BY <1>t, <2>1 DEF MutexTypeOK
    <3> QED BY <1>4, <1>t, <3>1 DEF Drain, DrainLost, MutexTypeOK
  <2>4. UNCHANGED <<phase, at>>
    BY <1>4 DEF Drain, DrainLost
  <2>5. MutexTypeOK'
    BY <1>t, <2>2, <2>3, <2>4 DEF MutexTypeOK
  <2> QED BY <2>4, <2>5, NobodyNew DEF MutexInv, MutexTypeOK, Inside
<1>5. ASSUME NEW R \in SUBSET Requests, Overrun(R)
      PROVE  MutexInv'
  <2>1. MutexTypeOK'
    BY <1>5, <1>t DEF Overrun, MutexTypeOK, Phases
  <2>2. \A q \in Requests :
            /\ phase'[q] = "holding" => phase[q] = "holding"
            /\ Inside(q)' => Inside(q) /\ at'[q] = at[q]
    BY <1>5, <1>t DEF Overrun, MutexTypeOK, Inside
  <2> QED BY <2>1, <2>2, NobodyNew DEF MutexInv, MutexTypeOK
<1>6. ASSUME NEW R \in SUBSET Requests, NEW S \in SUBSET Stores, Die(R, S)
      PROVE  MutexInv'
  <2>1. pending' \in [Stores -> Seq(Requests)]
    <3>1. <<>> \in Seq(Requests)
      OBVIOUS
    <3> QED BY <1>6, <1>t, <3>1 DEF Die, MutexTypeOK
  <2>2. MutexTypeOK'
    BY <1>6, <1>t, <2>1 DEF Die, MutexTypeOK, Phases
  <2>3. \A q \in Requests :
            /\ phase'[q] = "holding" => phase[q] = "holding"
            /\ Inside(q)' => Inside(q) /\ at'[q] = at[q]
    BY <1>6, <1>t DEF Die, MutexTypeOK, Inside
  <2> QED BY <2>2, <2>3, NobodyNew DEF MutexInv, MutexTypeOK
<1> QED BY <1>1, <1>2, <1>3, <1>4, <1>5, <1>6 DEF MutexNext

LEMMA MutexStepOrNot == MutexInv /\ [MutexNext]_mutexVars => MutexInv'
<1>1. CASE UNCHANGED mutexVars
  BY <1>1 DEF mutexVars, MutexInv, MutexTypeOK, InsideSomewhere, Inside,
              MutualExclusion, Protected
<1> QED BY <1>1, MutexStep

\* Whatever requests ask, overrun, leave and die, a store never protects two.
LEMMA MutexExcludes == MutexSpec => []MutualExclusion
<1>1. MutexInv => MutualExclusion
  BY DEF MutexInv
<1> QED BY InitMutexInv, MutexStepOrNot, <1>1, PTL DEF MutexSpec

\* Whatever a request does, it does to the lease what the lease allows.
LEMMA RequestStepOnLease ==
    ASSUME NEW r \in Requests, RequestStep(r)
    PROVE  MutexNext \/ UNCHANGED mutexVars
<1>s. /\ Store \in Stores /\ Home[r] \in Stores
      /\ {{Store}, {Home[r]}, {Store, Home[r]}} \subseteq SUBSET Stores
  <2>1. Store \in Stores /\ Home[r] \in Stores
    BY TurnAssumption
  <2> QED BY <2>1
<1>1. CASE \/ GoesUnleased(r) \/ ReadState(r) \/ ReadFails(r) \/ IsAnswered(r)
           \/ AgentFails(r) \/ Counts(r) \/ Judges(r) \/ RecordsOwn(r)
  BY <1>1 DEF GoesUnleased, ReadState, ReadFails, IsAnswered, AgentFails,
              Counts, Judges, RecordsOwn
<1>2. CASE Arrive(r)
  BY <1>2 DEF Arrive, MutexNext
<1>3. CASE GetsLease(r)
  BY <1>s, <1>3 DEF GetsLease, MutexNext
<1>4. CASE IsTurnedAway(r)
  BY <1>4 DEF IsTurnedAway, MutexNext
<1>5. CASE IsRegistered(r)
  <2>1. PICK S \in {{Store}, {Home[r]}, {Store, Home[r]}} : Register(r, S)
    BY <1>5 DEF IsRegistered
  <2>2. S \in SUBSET Stores
    BY <1>s, <2>1
  <2> QED BY <2>1, <2>2 DEF MutexNext
<1>6. CASE FoldsPending(r) \/ DrainFails(r)
  BY <1>6 DEF FoldsPending, DrainFails, MutexNext
<1>7. CASE Returns(r)
  BY <1>7 DEF Returns, MutexNext
<1>8. CASE OutstaysLease(r)
  <2>1. Overrun({r})
    BY <1>8 DEF OutstaysLease
  <2> QED BY <2>1 DEF MutexNext
<1> QED BY <1>1, <1>2, <1>3, <1>4, <1>5, <1>6, <1>7, <1>8 DEF RequestStep

LEMMA CrashOnLease ==
    ASSUME NEW s \in Stores, Crashes(s)
    PROVE  MutexNext
<1>1. Die(Serving(s) \ Messageless, {s})
  BY DEF Crashes
<1>2. /\ Serving(s) \ Messageless \in SUBSET Requests
      /\ {s} \in SUBSET Stores
  BY DEF Serving
<1> QED BY <1>1, <1>2 DEF MutexNext

\* Between them the handlers of ui/server.py follow the protocol of the lease:
\* nobody drains or gives back what it never took, nobody takes it twice.
THEOREM TurnsFollowMutex == Spec => MutexSpec
<1>1. Init => MutexInit
  BY DEF Init
<1>2. [Next]_vars => [MutexNext]_mutexVars
  BY RequestStepOnLease, CrashOnLease DEF Next, vars, mutexVars
<1> QED BY <1>1, <1>2, PTL DEF Spec, MutexSpec

\* At most one request reads, judges and writes the rows of the session under
\* an unexpired lease, whatever messages arrive and whatever fails.
THEOREM TurnsAreSerialized == Spec => []MutualExclusion
<1> QED BY TurnsFollowMutex, MutexExcludes, PTL

(***************************************************************************)
(* Induction, as a fact about sets of naturals                             *)
(***************************************************************************)
Below == {pair \in Nat \X Nat : pair[1] < pair[2]}

LEMMA Induction ==
    ASSUME NEW T \in SUBSET Nat, 0 \in T, \A n \in T : n + 1 \in T
    PROVE  T = Nat
<1> DEFINE U == Nat \ T
<1>1. IsWellFoundedOn(Below, Nat)
  BY NatLessThanWellFounded, Zenon DEF OpToRel, Below
<1>2. \A x, y \in Nat : <<y, x>> \in Below <=> y < x
  BY DEF Below
<1>3. SUFFICES ASSUME U # {} PROVE FALSE
  OBVIOUS
<1>4. PICK x \in U : \A y \in U : ~(<<y, x>> \in Below)
  <2>1. U \subseteq Nat
    OBVIOUS
  <2> HIDE DEF U
  <2> QED BY <1>1, <1>3, <2>1, WFMin
<1>5. x # 0 /\ x - 1 \in Nat /\ x - 1 < x
  OBVIOUS
<1>6. x - 1 \in T
  BY <1>2, <1>4, <1>5
<1>7. (x - 1) + 1 \in T
  BY <1>6
<1> QED BY <1>7

(***************************************************************************)
(* The state rebuilt from rows                                             *)
(***************************************************************************)
\* f folds the rows of every set of places among the first n, latest first.
FoldsOver(f, n, s, base) ==
    f = [u \in SUBSET (1 .. n) |->
            IF u = {} THEN base
            ELSE AdvanceFromRow(f[u \ {Max(u)}], s[Max(u)])]

LEMMA MaxOfPlaces ==
    ASSUME NEW n \in Nat, NEW u \in SUBSET (1 .. n + 1), n + 1 \in u
    PROVE  Max(u) = n + 1
<1>1. \A y \in u : n + 1 >= y
  OBVIOUS
<1>2. \A x \in u : (\A y \in u : x >= y) => x = n + 1
  OBVIOUS
<1> QED BY <1>1, <1>2 DEF Max

LEMMA FoldExists ==
    ASSUME NEW s, NEW base, NEW n \in Nat
    PROVE  \E f : FoldsOver(f, n, s, base)
<1> DEFINE T == {k \in Nat : \E f : FoldsOver(f, k, s, base)}
<1>1. 0 \in T
  <2> DEFINE f == [u \in SUBSET (1 .. 0) |-> base]
  <2>1. \A u \in SUBSET (1 .. 0) : u = {}
    OBVIOUS
  <2>2. FoldsOver(f, 0, s, base)
    BY <2>1 DEF FoldsOver
  <2> QED BY <2>2
<1>2. ASSUME NEW k \in T PROVE k + 1 \in T
  <2>1. k \in Nat
    OBVIOUS
  <2>2. PICK f : FoldsOver(f, k, s, base)
    OBVIOUS
  <2> DEFINE g == [u \in SUBSET (1 .. k + 1) |->
                     IF k + 1 \in u
                     THEN AdvanceFromRow(f[u \ {k + 1}], s[k + 1])
                     ELSE f[u]]
  <2>3. ASSUME NEW u \in SUBSET (1 .. k + 1)
        PROVE  g[u] = IF u = {} THEN base
                      ELSE AdvanceFromRow(g[u \ {Max(u)}], s[Max(u)])
    <3>1. CASE k + 1 \in u
      <4>1. Max(u) = k + 1
        BY <2>1, <3>1, MaxOfPlaces
      <4>2. u \ {k + 1} \in SUBSET (1 .. k + 1) /\ u # {}
        BY <3>1
      <4>3. g[u \ {k + 1}] = f[u \ {k + 1}]
        BY <4>2
      <4> QED BY <3>1, <4>1, <4>2, <4>3
    <3>2. CASE k + 1 \notin u
      <4>1. u \in SUBSET (1 .. k)
        BY <2>1, <3>2
      <4>2. f[u] = IF u = {} THEN base
                   ELSE AdvanceFromRow(f[u \ {Max(u)}], s[Max(u)])
        BY <2>2, <4>1, Zenon DEF FoldsOver
      <4>3. \A v \in SUBSET u : g[v] = f[v]
        BY <3>2
      <4>4. g[u] = f[u] /\ g[u \ {Max(u)}] = f[u \ {Max(u)}]
        BY <4>3
      <4> QED BY <4>2, <4>4, Zenon
    <3> QED BY <3>1, <3>2
  <2>4. FoldsOver(g, k + 1, s, base)
    <3> HIDE DEF g
    <3>1. g = [u \in SUBSET (1 .. k + 1) |-> g[u]]
      BY DEF g
    <3> QED BY <2>3, <3>1, Zenon DEF FoldsOver
  <2> QED BY <2>1, <2>4
<1>3. T = Nat
  <2> HIDE DEF T
  <2>1. T \in SUBSET Nat
    BY DEF T
  <2> QED BY <1>1, <1>2, <2>1, Induction
<1> QED BY <1>3

IsWalk(walk, s, n) ==
    /\ walk[0] = [NoSession EXCEPT !.principal_sessions_flagged = 0]
    /\ \A i \in 1 .. n : walk[i] = AdvanceFromRow(walk[i - 1], s[i])

(* What load_state rebuilds is the end of a walk over the rows, oldest     *)
(* first, that advances the empty state by one row at a time.              *)
LEMMA RebuildIsAWalk ==
    ASSUME NEW s, NEW n \in Nat, DOMAIN s = 1 .. n
    PROVE  \E walk : IsWalk(walk, s, n) /\ StateFromRows(s, 0) = walk[n]
<1> DEFINE base == [NoSession EXCEPT !.principal_sessions_flagged = 0]
           iter == CHOOSE f : FoldsOver(f, n, s, base)
           walk == [i \in 0 .. n |-> iter[1 .. i]]
<1>1. FoldsOver(iter, n, s, base)
  <2> HIDE DEF base
  <2> QED BY FoldExists, Zenon
<1>2. StateFromRows(s, 0) = iter[1 .. n]
  <2>1. StateFromRows(s, 0) = FoldLeft(AdvanceFromRow, base, s)
    BY DEF StateFromRows
  <2> HIDE DEF base
  <2>2. FoldLeft(AdvanceFromRow, base, s) = iter[DOMAIN s]
    BY Zenon DEF FoldLeft, MapThenFoldSet, FoldsOver
  <2> QED BY <2>1, <2>2
<1> HIDE DEF iter
<1>3. walk[0] = base
  <2>1. 1 .. 0 = {} /\ {} \in SUBSET (1 .. n) /\ 0 \in 0 .. n
    OBVIOUS
  <2> HIDE DEF base
  <2>2. iter[{}] = base
    BY <1>1, <2>1, Zenon DEF FoldsOver
  <2> QED BY <2>1, <2>2
<1>4. ASSUME NEW i \in 1 .. n
      PROVE  walk[i] = AdvanceFromRow(walk[i - 1], s[i])
  <2> DEFINE u == 1 .. i
  <2>1. u \in SUBSET (1 .. n) /\ u # {} /\ i \in 0 .. n /\ i - 1 \in 0 .. n
    <3>1. u \subseteq 1 .. n /\ i \in u
      OBVIOUS
    <3>2. i \in 0 .. n /\ i - 1 \in 0 .. n
      OBVIOUS
    <3> QED BY <3>1, <3>2
  <2>2. Max(u) = i
    <3>1. i - 1 \in Nat /\ u \in SUBSET (1 .. (i - 1) + 1)
          /\ (i - 1) + 1 \in u /\ (i - 1) + 1 = i
      OBVIOUS
    <3> HIDE DEF u
    <3> QED BY <3>1, MaxOfPlaces
  <2>3. u \ {i} = 1 .. (i - 1)
    OBVIOUS
  <2> HIDE DEF u, base
  <2>4. iter[u] = AdvanceFromRow(iter[u \ {Max(u)}], s[Max(u)])
    BY <1>1, <2>1, Zenon DEF FoldsOver
  <2> QED BY <2>1, <2>2, <2>3, <2>4 DEF u
<1> HIDE DEF walk, base
<1>5. walk[n] = iter[1 .. n]
  BY DEF walk
<1>6. IsWalk(walk, s, n)
  BY <1>3, <1>4 DEF IsWalk, base
<1> QED BY <1>2, <1>5, <1>6

(***************************************************************************)
(* The order of the read                                                   *)
(***************************************************************************)
Rows ==
    [by : Requests, turn_index : Int, signals : [Signals -> Nat],
     agent_refused : BOOLEAN, armor : ArmorClasses, ts : Nat, tier : 0 .. 2,
     action : Decisions]

\* How many rows the read puts before row i.
Rank(i) == Cardinality(Earlier(i))

LEMMA RanksAreApart ==
    ASSUME rows \in Seq(Rows)
    PROVE  /\ \A i \in DOMAIN rows : Rank(i) \in 0 .. Len(rows) - 1
           /\ \A i, j \in DOMAIN rows : Rank(i) = Rank(j) => i = j
<1> DEFINE D == 1 .. Len(rows)
<1>1. /\ DOMAIN rows = D /\ Len(rows) \in Nat
      /\ \A i \in D : rows[i].ts \in Nat
  <2>1. DOMAIN rows = D /\ Len(rows) \in Nat /\ \A i \in D : rows[i] \in Rows
    OBVIOUS
  <2>2. \A row \in Rows : row.ts \in Nat
    BY DEF Rows
  <2> QED BY <2>1, <2>2
<1>2. IsFiniteSet(D) /\ Cardinality(D) = Len(rows)
  BY <1>1, FS_Interval
<1>3. \A i \in D : ~Before(i, i)
  BY <1>1 DEF Before
<1>4. \A i, j \in D : i # j => Before(i, j) \/ Before(j, i)
  BY <1>1 DEF Before
<1>5. \A i, j, k \in D : Before(i, j) /\ Before(j, k) => Before(i, k)
  BY <1>1 DEF Before
<1>6. \A i \in D : Earlier(i) \in SUBSET D /\ IsFiniteSet(Earlier(i))
  BY <1>1, <1>2, FS_Subset DEF Earlier
<1> HIDE DEF D
<1>7. ASSUME NEW i \in D PROVE Rank(i) \in 0 .. Len(rows) - 1
  <2>1. /\ IsFiniteSet(D \ {i})
        /\ Cardinality(D \ {i}) = Len(rows) - 1
    BY <1>2, FS_RemoveElement
  <2>2. Earlier(i) \in SUBSET (D \ {i})
    BY <1>1, <1>3, <1>6 DEF Earlier
  <2>3. Rank(i) <= Len(rows) - 1
    BY <2>1, <2>2, FS_Subset DEF Rank
  <2>4. Rank(i) \in Nat
    BY <1>6, FS_CardinalityType DEF Rank
  <2> QED BY <1>1, <2>3, <2>4
<1>8. ASSUME NEW i \in D, NEW j \in D, Before(i, j) PROVE Rank(i) # Rank(j)
  <2>1. Earlier(i) \in SUBSET Earlier(j)
    BY <1>1, <1>5, <1>8 DEF Earlier
  <2>2. i \in Earlier(j) /\ i \notin Earlier(i)
    BY <1>1, <1>3, <1>8 DEF Earlier
  <2> QED BY <1>6, <2>1, <2>2, FS_Subset DEF Rank
<1> QED BY <1>1, <1>4, <1>7, <1>8

(* The read loses no row and repeats none.                                 *)
LEMMA ReadPermutes ==
    ASSUME rows \in Seq(Rows)
    PROVE  \E p \in Bijection(1 .. Len(rows), 1 .. Len(rows)) :
              OldestFirst = [n \in 1 .. Len(rows) |-> rows[p[n]]]
<1> DEFINE D == 1 .. Len(rows)
           rank == [i \in D |-> Rank(i) + 1]
           p == [n \in D |-> CHOOSE i \in D : Cardinality(Earlier(i)) = n - 1]
<1>1. DOMAIN rows = D /\ Len(rows) \in Nat
  OBVIOUS
<1>2. /\ \A i \in D : Rank(i) \in 0 .. Len(rows) - 1
      /\ \A i, j \in D : Rank(i) = Rank(j) => i = j
  BY <1>1, RanksAreApart
<1>3. rank \in Injection(D, D)
  <2>1. \A i \in D : Rank(i) + 1 \in D
    BY <1>1, <1>2
  <2>2. rank \in [D -> D]
    BY <2>1
  <2>3. \A i, j \in D : rank[i] = rank[j] => i = j
    BY <1>1, <1>2
  <2> QED BY <2>2, <2>3 DEF Injection, IsInjective
<1>4. rank \in Surjection(D, D)
  <2>1. IsFiniteSet(D)
    BY <1>1, FS_Interval
  <2> HIDE DEF D, rank
  <2> QED BY <1>3, <2>1, FS_Injection
<1>5. ASSUME NEW n \in D
      PROVE  p[n] \in D /\ Rank(p[n]) = n - 1
  <2>1. PICK i \in D : rank[i] = n
    BY <1>4 DEF Surjection
  <2>2. Cardinality(Earlier(i)) = n - 1
    BY <1>1, <1>2, <2>1 DEF Rank
  <2> QED BY <2>2 DEF Rank
<1>6. p \in Bijection(D, D)
  <2> HIDE DEF D
  <2>1. p \in [D -> D] /\ DOMAIN p = D
    BY <1>5
  <2>2. \A m, n \in D : p[m] = p[n] => m = n
    <3>1. D \subseteq Int
      BY DEF D
    <3> HIDE DEF p
    <3> QED BY <1>5, <3>1
  <2>3. \A i \in D : p[Rank(i) + 1] = i
    <3>1. \A i \in D : Rank(i) + 1 \in D /\ (Rank(i) + 1) - 1 = Rank(i)
      BY <1>1, <1>2 DEF D
    <3> HIDE DEF p
    <3> QED BY <1>2, <1>5, <3>1
  <2>4. \A i \in D : Rank(i) + 1 \in D
    BY <1>1, <1>2 DEF D
  <2> HIDE DEF p
  <2>5. p \in Injection(D, D)
    BY <2>1, <2>2 DEF Injection, IsInjective
  <2>6. p \in Surjection(D, D)
    BY <2>1, <2>3, <2>4 DEF Surjection
  <2> QED BY <2>5, <2>6 DEF Bijection
<1>7. OldestFirst = [n \in D |-> rows[p[n]]]
  BY <1>1 DEF OldestFirst
<1> HIDE DEF p
<1> QED BY <1>6, <1>7

(***************************************************************************)
(* What a state tallies                                                    *)
(***************************************************************************)
IsState(s) ==
    /\ {"turns", "security_hits", "quarantined"} \subseteq DOMAIN s
    /\ s.turns \in Nat /\ s.security_hits \in Nat
    /\ s.quarantined \in BOOLEAN

IsHit(row) ==
    \/ row.armor = "security"
    \/ \E n \in {"probe", "concurrent_turn"} : row.signals[n] >= Med

LEMMA AdvanceTallies ==
    ASSUME NEW s, IsState(s), NEW t, NEW tier, NEW action,
           NEW a, a = Advance(s, t, tier, action)
    PROVE  /\ IsState(a)
           /\ a.turns = s.turns + 1
           /\ a.security_hits = s.security_hits + One(IsSecurityHit(t))
           /\ a.quarantined <=> s.quarantined \/ action = "quarantine"
<1>1. /\ DOMAIN a = DOMAIN s
      /\ a.turns = s.turns + 1
      /\ a.security_hits = s.security_hits + One(IsSecurityHit(t))
      /\ a.quarantined = (s.quarantined \/ action = "quarantine")
  BY DEF Advance, IsState
<1>2. One(IsSecurityHit(t)) \in Nat
  BY DEF One
<1>3. a.quarantined \in BOOLEAN
  BY <1>1
<1>4. a.turns \in Nat /\ a.security_hits \in Nat
  BY <1>1, <1>2 DEF IsState
<1> QED BY <1>1, <1>3, <1>4 DEF IsState

LEMMA HitsAreSecurity ==
    ASSUME NEW t
    PROVE  IsSecurityHit(t) <=> IsHit(t)
<1>1. \A n \in Signals : ClassOf[n] = "security" <=>
                             n \in {"probe", "concurrent_turn"}
  BY DEF Signals, ModelSignals, ClassOf
<1>2. {"probe", "concurrent_turn"} \subseteq Signals
  BY DEF Signals, ModelSignals
<1> QED BY <1>1, <1>2 DEF IsSecurityHit, IsHit, AtLeast

LEMMA RowAdvances ==
    ASSUME NEW s, IsState(s), NEW row, NEW a, a = AdvanceFromRow(s, row)
    PROVE  /\ IsState(a)
           /\ a.turns = s.turns + 1
           /\ a.security_hits = s.security_hits + One(IsHit(row))
           /\ a.quarantined <=> s.quarantined \/ row.action = "quarantine"
<1> DEFINE t == [signals |-> row.signals, agent_refused |-> row.agent_refused,
                 armor |-> row.armor, classifier_error |-> FALSE,
                 ts |-> row.ts]
<1>1. a = Advance(s, t, row.tier, row.action)
  BY DEF AdvanceFromRow
<1>2. IsSecurityHit(t) <=> IsHit(row)
  <2>1. IsHit(t) <=> IsHit(row)
    BY DEF IsHit
  <2> HIDE DEF t
  <2> QED BY <2>1, HitsAreSecurity
<1>3. One(IsSecurityHit(t)) = One(IsHit(row))
  BY <1>2 DEF One
<1> HIDE DEF t
<1> QED BY <1>1, <1>3, AdvanceTallies

(* A walk over rows tallies them.                                          *)
LEMMA WalkTallies ==
    ASSUME NEW walk, NEW s, NEW n \in Nat, IsWalk(walk, s, n)
    PROVE  /\ IsState(walk[n])
           /\ walk[n].turns = n
           /\ walk[n].security_hits =
                 Cardinality({k \in 1 .. n : IsHit(s[k])})
           /\ walk[n].quarantined <=>
                 \E k \in 1 .. n : s[k].action = "quarantine"
<1> DEFINE hits(i) == {k \in 1 .. i : IsHit(s[k])}
           Tallied(i) ==
              /\ IsState(walk[i])
              /\ walk[i].turns = i
              /\ walk[i].security_hits = Cardinality(hits(i))
              /\ walk[i].quarantined <=>
                    \E k \in 1 .. i : s[k].action = "quarantine"
           T == {i \in Nat : i <= n => Tallied(i)}
<1>1. 0 \in T
  <2>1. walk[0] = [NoSession EXCEPT !.principal_sessions_flagged = 0]
    BY DEF IsWalk
  <2>2. IsState(walk[0])
    BY <2>1 DEF IsState, NoSession
  <2>3. walk[0].turns = 0 /\ walk[0].security_hits = 0
        /\ walk[0].quarantined = FALSE
    BY <2>1 DEF NoSession
  <2>4. hits(0) = {} /\ 1 .. 0 = {}
    OBVIOUS
  <2>5. Cardinality(hits(0)) = 0
    BY <2>4, FS_EmptySet
  <2> QED BY <2>2, <2>3, <2>4, <2>5
<1>2. ASSUME NEW i \in T PROVE i + 1 \in T
  <2> SUFFICES ASSUME i + 1 <= n PROVE Tallied(i + 1)
    OBVIOUS
  <2>1. i \in Nat /\ Tallied(i)
    OBVIOUS
  <2>2. walk[i + 1] = AdvanceFromRow(walk[i], s[i + 1])
    <3>1. i + 1 \in 1 .. n /\ (i + 1) - 1 = i
      BY <2>1
    <3> QED BY <3>1 DEF IsWalk
  <2>3. /\ IsState(walk[i + 1])
        /\ walk[i + 1].turns = i + 1
        /\ walk[i + 1].security_hits =
              Cardinality(hits(i)) + One(IsHit(s[i + 1]))
        /\ walk[i + 1].quarantined <=>
              \/ \E k \in 1 .. i : s[k].action = "quarantine"
              \/ s[i + 1].action = "quarantine"
    <3>1. /\ IsState(walk[i + 1])
          /\ walk[i + 1].turns = walk[i].turns + 1
          /\ walk[i + 1].security_hits =
                walk[i].security_hits + One(IsHit(s[i + 1]))
          /\ walk[i + 1].quarantined <=>
                \/ walk[i].quarantined
                \/ s[i + 1].action = "quarantine"
      <4> HIDE DEF Tallied
      <4>1. IsState(walk[i])
        BY <2>1 DEF Tallied
      <4> QED BY <4>1, <2>2, RowAdvances
    <3> HIDE DEF hits
    <3> QED BY <2>1, <3>1
  <2>4. Cardinality(hits(i + 1)) =
          Cardinality(hits(i)) + One(IsHit(s[i + 1]))
    <3>1. IsFiniteSet(hits(i)) /\ Cardinality(hits(i)) \in Nat
      <4>1. IsFiniteSet(1 .. i)
        BY <2>1, FS_Interval
      <4>2. hits(i) \in SUBSET (1 .. i)
        OBVIOUS
      <4> HIDE DEF hits
      <4>3. IsFiniteSet(hits(i))
        BY <4>1, <4>2, FS_Subset
      <4> QED BY <4>3, FS_CardinalityType
    <3>2. CASE IsHit(s[i + 1])
      <4>1. hits(i + 1) = hits(i) \cup {i + 1} /\ i + 1 \notin hits(i)
        BY <2>1, <3>2
      <4> HIDE DEF hits
      <4> QED BY <3>1, <3>2, <4>1, FS_AddElement DEF One
    <3>3. CASE ~IsHit(s[i + 1])
      <4>1. hits(i + 1) = hits(i)
        BY <2>1, <3>3
      <4> HIDE DEF hits
      <4> QED BY <3>1, <3>3, <4>1 DEF One
    <3> QED BY <3>2, <3>3
  <2>5. 1 .. i + 1 = (1 .. i) \cup {i + 1}
    BY <2>1
  <2> HIDE DEF hits
  <2> QED BY <2>3, <2>4, <2>5
<1>3. T = Nat
  <2>1. T \in SUBSET Nat
    OBVIOUS
  <2> HIDE DEF T
  <2> QED BY <1>1, <1>2, <2>1, Induction
<1>4. n \in T
  BY <1>3
<1> QED BY <1>4

(* However the rows were read back, the state tallies those there are.     *)
LEMMA ReadTallies ==
    ASSUME rows \in Seq(Rows), NEW st, st = StateFromRows(OldestFirst, 0)
    PROVE  /\ IsState(st)
           /\ st.turns = Len(rows)
           /\ st.security_hits = Cardinality(Hits)
           /\ st.quarantined <=>
                 \E i \in DOMAIN rows : rows[i].action = "quarantine"
<1> DEFINE n == Len(rows)
           D == 1 .. n
           s == OldestFirst
<1>1. n \in Nat /\ DOMAIN rows = D
  OBVIOUS
<1>2. PICK p \in Bijection(D, D) : s = [k \in D |-> rows[p[k]]]
  BY ReadPermutes
<1>3. /\ p \in [D -> D]
      /\ \A k, l \in D : p[k] = p[l] => k = l
      /\ \A i \in D : \E k \in D : p[k] = i
  BY DEF Bijection, Injection, IsInjective, Surjection
<1> HIDE DEF s
<1>4. DOMAIN s = D
  BY <1>2
<1>5. PICK walk : IsWalk(walk, s, n) /\ StateFromRows(s, 0) = walk[n]
  BY <1>1, <1>4, RebuildIsAWalk
<1> DEFINE hits == {k \in D : IsHit(s[k])}
<1>6. /\ IsState(st) /\ st.turns = n
      /\ st.security_hits = Cardinality(hits)
      /\ st.quarantined <=> \E k \in D : s[k].action = "quarantine"
  BY <1>1, <1>5, WalkTallies DEF s
<1>7. Cardinality(hits) = Cardinality(Hits)
  <2> DEFINE f == [k \in hits |-> p[k]]
  <2>1. Hits = {i \in D : IsHit(rows[i])}
    BY <1>1 DEF Hits, IsHit
  <2>2. IsFiniteSet(hits)
    <3>1. IsFiniteSet(D) /\ hits \in SUBSET D
      BY <1>1, FS_Interval
    <3> HIDE DEF D, hits
    <3> QED BY <3>1, FS_Subset
  <2> HIDE DEF D
  <2>3. f \in [hits -> Hits]
    BY <1>2, <1>3, <2>1
  <2>4. \A k, l \in hits : f[k] = f[l] => k = l
    BY <1>3
  <2>5. \A i \in Hits : \E k \in hits : f[k] = i
    BY <1>2, <1>3, <2>1
  <2> HIDE DEF f, hits
  <2>6. f \in Bijection(hits, Hits)
    BY <2>3, <2>4, <2>5 DEF Bijection, Injection, IsInjective, Surjection
  <2>7. ExistsBijection(hits, Hits)
    BY <2>6 DEF ExistsBijection
  <2> QED BY <2>2, <2>7, FS_Bijection
<1>8. (\E k \in D : s[k].action = "quarantine") <=>
      (\E i \in D : rows[i].action = "quarantine")
  BY <1>2, <1>3
<1> QED BY <1>1, <1>6, <1>7, <1>8

(***************************************************************************)
(* Turns and their rows                                                    *)
(***************************************************************************)
LEMMA TurnsAreTurns ==
    ASSUME NEW now \in Nat
    PROVE  /\ EmptyTurn(now) \in Turns /\ EmptyTurn(now).ts = now
           /\ ConcurrentTurn(now) \in Turns /\ ConcurrentTurn(now).ts = now
<1>1. EmptyTurn(now) \in Turns /\ EmptyTurn(now).ts = now
  <2>1. Silent \in [Signals -> 0 .. Certain]
    BY DEF Silent, Certain
  <2> QED BY <2>1 DEF EmptyTurn, Turns, ArmorClasses
<1>2. ConcurrentTurn(now) \in Turns /\ ConcurrentTurn(now).ts = now
  <2>1. [EmptyTurn(now).signals EXCEPT !["concurrent_turn"] = Certain]
            \in [Signals -> 0 .. Certain]
    <3>1. EmptyTurn(now).signals \in [Signals -> 0 .. Certain]
      BY <1>1 DEF Turns
    <3>2. Certain \in 0 .. Certain
      BY DEF Certain
    <3> QED BY <3>1, <3>2
  <2> QED BY <1>1, <2>1 DEF ConcurrentTurn, Turns
<1> QED BY <1>1, <1>2

LEMMA JudgementsAreTurns ==
    ASSUME NEW r \in Requests, armor \in [Requests -> ArmorClasses],
           stamp \in Nat, NEW t \in Judgements(r)
    PROVE  t \in Turns /\ t.ts = stamp
<1>1. EmptyTurn(stamp) \in Turns /\ EmptyTurn(stamp).ts = stamp
  BY TurnsAreTurns
<1>2. UnscreenedTurn(stamp) \in Turns /\ UnscreenedTurn(stamp).ts = stamp
  BY <1>1 DEF UnscreenedTurn, Turns
<1>3. \A class \in ArmorClasses :
        ArmorTurn(class, stamp) \in Turns /\ ArmorTurn(class, stamp).ts = stamp
  BY <1>1 DEF ArmorTurn, Turns
<1>4. ASSUME NEW v \in Verdicts
      PROVE  /\ ClassifiedTurn(v, FALSE, TRUE, stamp) \in Turns
             /\ ClassifiedTurn(v, FALSE, TRUE, stamp).ts = stamp
  <2>1. v \in [Signals -> 0 .. Certain] /\ 0 \in 0 .. Certain
    BY TurnAssumption DEF Certain
  <2>2. [n \in Signals |->
            IF \/ n \notin ModelSignals
               \/ n = "answer_policy_breach" /\ ~TRUE
            THEN 0 ELSE v[n]] \in [Signals -> 0 .. Certain]
    BY <2>1
  <2> QED BY <1>1, <2>2 DEF ClassifiedTurn, Turns
<1> QED BY <1>1, <1>2, <1>3, <1>4 DEF Judgements

(* A row drops no hit: rounding takes nothing below med.                   *)
LEMMA RowKeepsHits ==
    ASSUME NEW t \in Turns, NEW d, NEW c, NEW index
    PROVE  /\ Row(c, index, t, d).signals \in [Signals -> Nat]
           /\ IsHit(Row(c, index, t, d)) <=> IsSecurityHit(t)
<1> DEFINE row == Row(c, index, t, d)
<1>1. /\ row.armor = t.armor
      /\ row.signals = [n \in Signals |->
            IF t.signals[n] >= Med THEN Rounded(t.signals[n]) ELSE 0]
  BY DEF Row, EvidenceRow
<1>2. \A n \in Signals : t.signals[n] \in Nat
  <2>1. t.signals \in [Signals -> 0 .. Certain]
    BY DEF Turns
  <2>2. 0 .. Certain \subseteq Nat
    BY DEF Certain
  <2> QED BY <2>1, <2>2
<1>3. /\ Med \in Nat \ {0}
      /\ \A v \in Nat : Rounded(v) \in Nat
      /\ \A v \in Nat : v >= Med => Rounded(v) >= Med
  BY ThresholdAssumption, GrainAssumption DEF Rounded
<1> HIDE DEF row
<1>4. row.signals \in [Signals -> Nat]
  BY <1>1, <1>2, <1>3
<1>5. \A n \in Signals : row.signals[n] >= Med <=> t.signals[n] >= Med
  BY <1>1, <1>2, <1>3
<1>6. {"probe", "concurrent_turn"} \subseteq Signals
  BY DEF Signals, ModelSignals
<1>7. IsHit(row) <=> IsHit(t)
  BY <1>1, <1>5, <1>6 DEF IsHit
<1> QED BY <1>4, <1>7, HitsAreSecurity DEF row

LEMMA RowFacts ==
    ASSUME NEW c \in Requests, NEW s, IsState(s), NEW t \in Turns,
           NEW row, row = Row(c, s.turns + 1, t, Evaluate(t, s))
    PROVE  /\ row \in Rows
           /\ row.by = c /\ row.turn_index = s.turns + 1 /\ row.ts = t.ts
           /\ IsHit(row) <=> IsSecurityHit(t)
           /\ row.action = ActionFor(t, s)
<1>1. /\ row = [by |-> c, turn_index |-> s.turns + 1,
                signals |-> row.signals, agent_refused |-> t.agent_refused,
                armor |-> t.armor, ts |-> t.ts, tier |-> TierFor(t, s),
                action |-> ActionFor(t, s)]
      /\ row.by = c /\ row.turn_index = s.turns + 1 /\ row.ts = t.ts
      /\ row.action = ActionFor(t, s)
  BY DEF Row, EvidenceRow, Evaluate
<1>2. row.signals \in [Signals -> Nat] /\ (IsHit(row) <=> IsSecurityHit(t))
  BY RowKeepsHits
<1>3. TierFor(t, s) \in 0 .. 2 /\ ActionFor(t, s) \in Decisions
  BY DEF TierFor, ActionFor, Decisions
<1>4. s.turns + 1 \in Int
  BY DEF IsState
<1>5. t.agent_refused \in BOOLEAN /\ t.armor \in ArmorClasses /\ t.ts \in Nat
  BY DEF Turns
<1>6. row \in Rows
  BY <1>1, <1>2, <1>3, <1>4, <1>5 DEF Rows
<1> QED BY <1>1, <1>2, <1>6

(* What _safety_record and advance do, or a write that fails.              *)
Recording(r, c, t, row) ==
    /\ row \in Rows
    /\ row.by = c /\ row.turn_index = memory[r].turns + 1 /\ row.ts = t.ts
    /\ IsHit(row) <=> IsSecurityHit(t)
    /\ row.action = ActionFor(t, memory[r])
    /\ \/ rows' = Append(rows, row) /\ UNCHANGED faults
       \/ UNCHANGED rows /\ Fails("write")
    /\ DOMAIN memory' = Requests
    /\ \A q \in Requests \ {r} : memory'[q] = memory[q]
    /\ IsState(memory'[r])
    /\ memory'[r].turns = memory[r].turns + 1
    /\ memory'[r].security_hits = memory[r].security_hits + One(IsHit(row))
    /\ memory'[r].quarantined <=>
          memory[r].quarantined \/ row.action = "quarantine"

LEMMA RecordsIsRecording ==
    ASSUME NEW r \in Requests, NEW c \in Requests, NEW t \in Turns,
           DOMAIN memory = Requests, IsState(memory[r]), Records(r, c, t)
    PROVE  \E row \in Rows : Recording(r, c, t, row)
<1> DEFINE d == Evaluate(t, memory[r])
           row == Row(c, memory[r].turns + 1, t, d)
           a == Advance(memory[r], t, d.tier, d.action)
<1>1. /\ row \in Rows
      /\ row.by = c /\ row.turn_index = memory[r].turns + 1 /\ row.ts = t.ts
      /\ IsHit(row) <=> IsSecurityHit(t)
      /\ row.action = ActionFor(t, memory[r])
  BY RowFacts
<1>2. /\ IsState(a)
      /\ a.turns = memory[r].turns + 1
      /\ a.security_hits = memory[r].security_hits + One(IsSecurityHit(t))
      /\ a.quarantined <=> memory[r].quarantined \/ d.action = "quarantine"
  <2> HIDE DEF d
  <2> QED BY AdvanceTallies
<1>3. d.action = ActionFor(t, memory[r])
  BY DEF Evaluate
<1>4. /\ \/ rows' = Append(rows, row) /\ UNCHANGED faults
         \/ UNCHANGED rows /\ Fails("write")
      /\ memory' = [memory EXCEPT ![r] = a]
  BY DEF Records
<1>5. One(IsSecurityHit(t)) = One(IsHit(row))
  BY <1>1 DEF One
<1> HIDE DEF row, a, d
<1>6. /\ DOMAIN memory' = Requests
      /\ \A q \in Requests \ {r} : memory'[q] = memory[q]
      /\ memory'[r] = a
  BY <1>4
<1>7. Recording(r, c, t, row)
  BY <1>1, <1>2, <1>3, <1>4, <1>5, <1>6 DEF Recording
<1> QED BY <1>1, <1>7

(***************************************************************************)
(* The invariant of the turns                                              *)
(***************************************************************************)
TurnTypes ==
    /\ step \in [Requests -> Steps]
    /\ armor \in [Requests -> ArmorClasses]
    /\ DOMAIN memory = Requests /\ \A r \in Requests : IsState(memory[r])
    /\ turn \in [Requests -> Turns]
    /\ counted \in [Requests -> Nat]
    /\ reply \in [Requests -> Replies]
    /\ rows \in Seq(Rows)
    /\ stamp \in Nat
    /\ arrived \in [Requests -> Nat]
    /\ written \in [Requests -> Nat]
    /\ copies \in [Requests -> SUBSET Stores]

Counting == {"counting", "recounting"}

\* The steps at which a turn has its row, or had its write fail.
Recorded == {"refolding", "recounting", "leaving", "gone"}

(* Where a request stands in its turn and with the lease goes together.    *)
Places ==
    \A r \in Requests :
        IF r \in Messageless
        THEN /\ phase[r] = "new"
             /\ step[r] \notin Counting
             /\ step[r] # "new" => "unleased" \in faults
        ELSE /\ step[r] = "new" <=>
                    phase[r] \in {"new", "waiting", "refused", "registered"}
             /\ step[r] = "gone" <=> phase[r] \in {"done", "dead"}
             /\ phase[r] = "late" => "late" \in faults
             /\ phase[r] = "dead" => "crash" \in faults
             /\ Inside(r) => at[r] = Store \/ "fallback" \in faults

(* What a holder has been handed, and how far it has come with it.         *)
Progress ==
    \A r \in Requests :
        /\ step[r] \in {"new", "reading", "answering", "folding"}
              => drained[r] = <<>> /\ counted[r] = 0
        /\ step[r] \in Counting => counted[r] < Len(drained[r])
        /\ step[r] \in {"judging", "recording", "refolding", "leaving"}
              => counted[r] = Len(drained[r])
        /\ r \in Messageless => drained[r] = <<>>

WaitsAt(p, s) == \E k \in DOMAIN pending[s] : pending[s][k] = p

Waits(p) == WaitsAt(p, Store)

Handed(p, h) == \E k \in DOMAIN drained[h] : drained[h][k] = p

OwedBy(p, h, k) ==
    /\ step[h] \in Counting /\ k \in DOMAIN drained[h]
    /\ k > counted[h] /\ drained[h][k] = p

Owed(p, h) == \E k \in DOMAIN drained[h] : OwedBy(p, h, k)

(* Who waits or was handed out was registered, and only he is in a table.  *)
Queued ==
    /\ \A p \in Requests, s \in Stores :
          WaitsAt(p, s) => phase[p] = "registered"
    /\ \A p, h \in Requests : Handed(p, h) => phase[p] = "registered"
    /\ \A p \in Requests : phase[p] # "registered" => copies[p] = {}

(* A turn of its own has one row, once it is past it.                      *)
RowsPlaced ==
    /\ \A i \in DOMAIN rows :
          phase[rows[i].by] # "registered" => step[rows[i].by] \in Recorded
    /\ \A i, j \in DOMAIN rows :
          phase[rows[i].by] # "registered" /\ rows[i].by = rows[j].by
              => i = j

(* The tickets of a turned-away message: its rows, and the places at which *)
(* it waits for one or is owed one.  No step makes two of one.             *)
IsTicket(p, t) ==
    \/ t[1] = "row" /\ t[2] = Nowhere
           /\ t[3] \in DOMAIN rows /\ rows[t[3]].by = p
    \/ t[1] = "owed" /\ t[2] \in Requests /\ OwedBy(p, t[2], t[3])
    \/ t[1] = "waits" /\ t[2] \in Stores
           /\ t[3] \in DOMAIN pending[t[2]] /\ pending[t[2]][t[3]] = p

AllTickets ==
    {"row", "owed", "waits"} \X (Requests \cup Stores \cup {Nowhere}) \X Nat

Tickets(p) == {t \in AllTickets : IsTicket(p, t)}

TicketsAreFew ==
    \A p \in Requests : phase[p] = "registered" =>
        /\ IsFiniteSet(Tickets(p)) /\ IsFiniteSet(copies[p])
        /\ Cardinality(Tickets(p)) =< Cardinality(copies[p])

Replied ==
    \A p \in Requests : phase[p] = "registered" => reply[p] = "concurrent"

(* The clock has passed what was judged.                                   *)
Stamped ==
    /\ \A r \in Requests : step[r] = "recording" => turn[r].ts < stamp
    /\ \A i \in DOMAIN rows :
          phase[rows[i].by] # "registered" => rows[i].ts < stamp

(* The state in the holder's memory is the state of the rows.              *)
Tallied ==
    Calm => \A h \in Requests :
        phase[h] = "holding" /\ step[h] # "reading" =>
            /\ memory[h].turns = Len(rows)
            /\ memory[h].security_hits = Cardinality(Hits)
            /\ memory[h].quarantined <=>
                  \E i \in DOMAIN rows : rows[i].action = "quarantine"

Whole == Without({"late", "fallback", "crash", "drain", "write"})

(* A message that reached the shared store waits there, is owed a row or   *)
(* has it; and one that did before a turn was judged no longer waits when  *)
(* that turn has drained for the last time.                                *)
NoneForgotten ==
    Whole =>
        /\ \A p \in Requests : Store \in copies[p] =>
              Waits(p) \/ HasRow(p) \/ \E h \in Requests : Owed(p, h)
        /\ \A i \in DOMAIN rows, p \in Requests :
              /\ rows[i].by \notin Messageless
              /\ phase[rows[i].by] # "registered"
              /\ step[rows[i].by] \in {"recounting", "leaving", "gone"}
              /\ Store \in copies[p] /\ written[p] =< rows[i].ts
              => ~Waits(p) /\ (HasRow(p) \/ Owed(p, rows[i].by))

TurnInv ==
    /\ MutexInv /\ TurnTypes /\ Places /\ Progress /\ Queued /\ RowsPlaced
    /\ TicketsAreFew /\ Replied /\ Stamped /\ Tallied /\ NoneForgotten
    /\ IndexesRunOn /\ BurstReachesLock /\ LockedSessionAnswersWithLock

LEMMA RowOwners ==
    ASSUME TurnTypes
    PROVE  /\ DOMAIN rows = 1 .. Len(rows) /\ Len(rows) \in Nat
           /\ \A i \in DOMAIN rows :
                 rows[i].by \in Requests /\ rows[i].ts \in Nat
<1>1. /\ DOMAIN rows = 1 .. Len(rows) /\ Len(rows) \in Nat
      /\ \A i \in DOMAIN rows : rows[i] \in Rows
  BY LenProperties, ElementOfSeq DEF TurnTypes
<1> QED BY <1>1 DEF Rows

LEMMA InitTurnInv == Init => TurnInv
<1> SUFFICES ASSUME Init PROVE TurnInv
  OBVIOUS
<1>1. MutexInv
  BY InitMutexInv DEF Init
<1>2. TurnTypes
  <2>1. EmptyTurn(0) \in Turns
    BY TurnsAreTurns
  <2>2. IsState(NoSession)
    BY DEF IsState, NoSession
  <2> QED BY <2>1, <2>2
          DEF Init, TurnTypes, Steps, ArmorClasses, Replies, Rows
<1>3. Places /\ Progress /\ Queued /\ TicketsAreFew
  BY DEF Init, MutexInit, Places, Progress, Queued, WaitsAt, Handed,
         Counting, Inside, TicketsAreFew
<1>4. DOMAIN rows = {} /\ Len(rows) = 0
  BY DEF Init
<1>5. RowsPlaced /\ Replied /\ Stamped
  BY <1>4 DEF Init, MutexInit, RowsPlaced, Replied, Stamped
<1>6. Tallied /\ NoneForgotten
  BY <1>4 DEF Init, MutexInit, Tallied, NoneForgotten
<1>7. IndexesRunOn /\ BurstReachesLock /\ LockedSessionAnswersWithLock
  BY <1>4 DEF IndexesRunOn, BurstReachesLock, LockedSessionAnswersWithLock
<1> QED BY <1>1, <1>2, <1>3, <1>5, <1>6, <1>7 DEF TurnInv

(***************************************************************************)
(* Steps                                                                   *)
(***************************************************************************)
LEMMA TypesStep ==
    ASSUME MutexInv, TurnTypes, Progress, NEW r \in Requests, RequestStep(r)
    PROVE  TurnTypes'
<1> USE DEF TurnTypes
<1>1. CASE \/ Arrive(r) \/ GetsLease(r) \/ GoesUnleased(r)
           \/ FoldsPending(r) \/ DrainFails(r) \/ OutstaysLease(r)
  <2>1. UNCHANGED <<armor, memory, turn, counted, reply, rows, stamp, arrived,
                    written, copies>>
    BY <1>1 DEF Arrive, GetsLease, GoesUnleased, FoldsPending, DrainFails,
                OutstaysLease, turnVars
  <2>2. step' \in [Requests -> Steps]
    BY <1>1 DEF Arrive, GetsLease, GoesUnleased, FoldsPending, DrainFails,
                OutstaysLease, turnVars, Goto, Steps, AfterFold
  <2> QED BY <2>1, <2>2
<1>a. CASE IsTurnedAway(r) \/ IsRegistered(r)
  <2>1. UNCHANGED <<step, armor, memory, turn, counted, rows>>
    BY <1>a DEF IsTurnedAway, IsRegistered
  <2>2. /\ reply' \in [Requests -> Replies]
        /\ stamp' \in Nat
        /\ arrived' \in [Requests -> Nat]
        /\ written' \in [Requests -> Nat]
        /\ copies' \in [Requests -> SUBSET Stores]
    <3>1. CASE IsTurnedAway(r)
      BY <3>1 DEF IsTurnedAway
    <3>2. CASE IsRegistered(r)
      <4>1. "concurrent" \in Replies
        BY DEF Replies
      <4>2. PICK S \in {{Store}, {Home[r]}, {Store, Home[r]}} :
                copies' = [copies EXCEPT ![r] = S]
        BY <3>2 DEF IsRegistered
      <4>3. S \in SUBSET Stores
        <5>1. Store \in Stores /\ Home[r] \in Stores
          BY TurnAssumption
        <5>2. S = {Store} \/ S = {Home[r]} \/ S = {Store, Home[r]}
          BY <4>2
        <5> QED BY <5>1, <5>2
      <4>4. copies' \in [Requests -> SUBSET Stores]
        BY <4>2, <4>3
      <4> QED BY <3>2, <4>1, <4>4 DEF IsRegistered
    <3> QED BY <1>a, <3>1, <3>2
  <2>3. /\ step' \in [Requests -> Steps]
        /\ armor' \in [Requests -> ArmorClasses]
        /\ turn' \in [Requests -> Turns]
        /\ counted' \in [Requests -> Nat]
        /\ rows' \in Seq(Rows)
    BY <2>1
  <2>4. /\ DOMAIN memory' = Requests
        /\ \A q \in Requests : IsState(memory'[q])
    BY <2>1
  <2> QED BY <2>2, <2>3, <2>4
<1>2. CASE ReadState(r)
  <2>1. IsState(StateFromRows(OldestFirst, 0))
    BY ReadTallies
  <2> QED BY <1>2, <2>1 DEF ReadState, Goto, Steps
<1>3. CASE ReadFails(r)
  <2>1. IsState(NoSession)
    BY DEF IsState, NoSession
  <2> QED BY <1>3, <2>1 DEF ReadFails, Goto, Steps
<1>4. CASE IsAnswered(r) \/ AgentFails(r)
  <2>1. UNCHANGED <<memory, turn, counted, rows, stamp, arrived, written,
                    copies>>
    BY <1>4 DEF IsAnswered, AgentFails
  <2>2. Screenings \subseteq ArmorClasses
    BY TurnAssumption DEF Screenings, ArmorClasses
  <2>3. step' \in [Requests -> Steps] /\ armor' \in [Requests -> ArmorClasses]
    BY <1>4, <2>2 DEF IsAnswered, AgentFails, Goto, Steps
  <2>4. reply' \in [Requests -> Replies]
    BY <1>4 DEF IsAnswered, AgentFails, Replies
  <2> QED BY <2>1, <2>3, <2>4
<1>5. CASE Judges(r)
  <2>1. PICK t \in Judgements(r) : turn' = [turn EXCEPT ![r] = t]
    BY <1>5 DEF Judges
  <2>2. t \in Turns
    BY JudgementsAreTurns
  <2> QED BY <1>5, <2>1, <2>2 DEF Judges, Goto, Steps
<1>6. ASSUME NEW c \in Requests, NEW t \in Turns, Records(r, c, t)
      PROVE  /\ rows' \in Seq(Rows)
             /\ DOMAIN memory' = Requests
             /\ \A q \in Requests : IsState(memory'[q])
  <2>1. PICK row \in Rows : Recording(r, c, t, row)
    BY <1>6, RecordsIsRecording
  <2>2. Append(rows, row) \in Seq(Rows)
    OBVIOUS
  <2> QED BY <2>1, <2>2 DEF Recording
<1>7. CASE Counts(r)
  <2> DEFINE c == drained[r][counted[r] + 1]
  <2>1. c \in Requests
    BY <1>7 DEF Counts, Progress, Counting, MutexInv, MutexTypeOK
  <2>2. ConcurrentTurn(arrived[c]) \in Turns
    BY <2>1, TurnsAreTurns
  <2>3. Records(r, c, ConcurrentTurn(arrived[c]))
    BY <1>7 DEF Counts
  <2> HIDE DEF c
  <2>4. /\ rows' \in Seq(Rows)
        /\ DOMAIN memory' = Requests
        /\ \A q \in Requests : IsState(memory'[q])
    BY <1>6, <2>1, <2>2, <2>3
  <2> QED BY <1>7, <2>4 DEF Counts, Goto, Steps, AfterFold
<1>8. CASE RecordsOwn(r)
  <2>1. turn[r] \in Turns /\ Records(r, r, turn[r])
    BY <1>8 DEF RecordsOwn
  <2>2. /\ rows' \in Seq(Rows)
        /\ DOMAIN memory' = Requests
        /\ \A q \in Requests : IsState(memory'[q])
    BY <1>6, <2>1
  <2>3. ActionFor(turn[r], memory[r]) \in Replies
    BY DEF ActionFor, Replies, Decisions
  <2> QED BY <1>8, <2>2, <2>3 DEF RecordsOwn, Goto, Steps
<1>9. CASE Returns(r)
  <2>1. IsState(NoSession) /\ EmptyTurn(0) \in Turns
    BY TurnsAreTurns DEF IsState, NoSession
  <2>2. /\ Forget({r})
        /\ UNCHANGED <<reply, rows, stamp, arrived, written, copies>>
    BY <1>9 DEF Returns
  <2>3. /\ step' \in [Requests -> Steps]
        /\ armor' \in [Requests -> ArmorClasses]
        /\ turn' \in [Requests -> Turns]
        /\ counted' \in [Requests -> Nat]
    BY <2>1, <2>2 DEF Forget, Reset, Steps, ArmorClasses
  <2>4. /\ DOMAIN memory' = Requests
        /\ \A q \in Requests : IsState(memory'[q])
    BY <2>1, <2>2 DEF Forget, Reset
  <2> QED BY <2>2, <2>3, <2>4
<1> QED BY <1>1, <1>a, <1>2, <1>3, <1>4, <1>5, <1>7, <1>8, <1>9
        DEF RequestStep

(* Nothing that went wrong is forgotten, and a lost write goes wrong.      *)
LEMMA FaultsStay ==
    ASSUME NEW r \in Requests, RequestStep(r)
    PROVE  faults \subseteq faults'
  BY DEF RequestStep, Arrive, GetsLease, GoesUnleased, IsTurnedAway,
         IsRegistered, ReadState, ReadFails, IsAnswered, AgentFails,
         FoldsPending, DrainFails, Counts, Judges, RecordsOwn, Records,
         Returns, OutstaysLease, turnVars, Fails

LEMMA PlacesStep ==
    ASSUME MutexInv, TurnTypes, Places, NEW r \in Requests, RequestStep(r)
    PROVE  Places'
<1> USE DEF TurnTypes, MutexInv, MutexTypeOK, Places, Counting, Inside
<1>f. faults \subseteq faults'
  BY FaultsStay
<1>1. CASE Arrive(r) \/ IsTurnedAway(r) \/ IsRegistered(r)
  <2>1. step' = step /\ at' = at
    BY <1>1 DEF Arrive, Ask, IsTurnedAway, Refuse, IsRegistered, Register,
                turnVars
  <2>2. \E x \in {"waiting", "refused", "registered"} :
            phase' = [phase EXCEPT ![r] = x]
    BY <1>1 DEF Arrive, Ask, IsTurnedAway, Refuse, IsRegistered, Register
  <2>3. phase[r] \in {"new", "waiting", "refused"} /\ r \notin Messageless
    BY <1>1 DEF Arrive, Ask, IsTurnedAway, Refuse, IsRegistered, Register
  <2> QED BY <1>f, <2>1, <2>2, <2>3
<1>g. CASE GetsLease(r)
  <2>1. PICK s \in Stores :
            Take(r, s) /\ (s = Store \/ "fallback" \in faults')
    BY <1>g, TurnAssumption DEF GetsLease, Fails
  <2> QED BY <1>f, <1>g, <2>1 DEF GetsLease, Take, Goto
<1>2. CASE GoesUnleased(r) \/ ReadFails(r) \/ DrainFails(r)
  BY <1>2
  DEF GoesUnleased, ReadFails, DrainFails, DrainLost, Goto, Fails, AfterFold,
      mutexVars
<1>3. CASE ReadState(r) \/ IsAnswered(r) \/ AgentFails(r) \/ Judges(r)
  BY <1>3 DEF ReadState, IsAnswered, AgentFails, Judges, Goto, mutexVars
<1>4. CASE FoldsPending(r)
  BY <1>4 DEF FoldsPending, Drain, Goto, AfterFold, mutexVars
<1>5. CASE Counts(r) \/ RecordsOwn(r)
  <2>1. faults \subseteq faults'
    BY <1>5 DEF Counts, RecordsOwn, Records, Fails
  <2>2. UNCHANGED <<phase, at>>
    BY <1>5 DEF Counts, RecordsOwn, mutexVars
  <2>3. \E s \in Steps \ {"new", "gone"} :
            /\ step' = [step EXCEPT ![r] = s]
            /\ step[r] \notin Counting => s \notin Counting
    BY <1>5 DEF Counts, RecordsOwn, Goto, AfterFold, Steps
  <2>4. step[r] # "new" /\ step[r] # "gone"
    BY <1>5 DEF Counts, RecordsOwn
  <2> QED BY <2>1, <2>2, <2>3, <2>4
<1>6. CASE Returns(r)
  BY <1>6 DEF Returns, Leave, Forget, Reset, Goto, mutexVars
<1>7. CASE OutstaysLease(r)
  BY <1>7 DEF OutstaysLease, Overrun, Fails
<1> QED BY <1>1, <1>g, <1>2, <1>3, <1>4, <1>5, <1>6, <1>7 DEF RequestStep

(* A step of one request changes nothing that is another's.                *)
LEMMA OthersStay ==
    ASSUME MutexInv, TurnTypes, NEW r \in Requests, RequestStep(r),
           NEW q \in Requests \ {r}
    PROVE  /\ phase'[q] = phase[q] /\ at'[q] = at[q]
           /\ drained'[q] = drained[q] /\ step'[q] = step[q]
           /\ counted'[q] = counted[q] /\ turn'[q] = turn[q]
           /\ reply'[q] = reply[q] /\ written'[q] = written[q]
           /\ memory'[q] = memory[q] /\ copies'[q] = copies[q]
<1> USE DEF MutexInv, MutexTypeOK, TurnTypes
<1>1. CASE \/ Arrive(r) \/ GetsLease(r) \/ GoesUnleased(r)
           \/ IsTurnedAway(r) \/ IsRegistered(r)
  BY <1>1 DEF Arrive, GetsLease, GoesUnleased, IsTurnedAway, IsRegistered,
              Ask, Take, Refuse, Register, Goto, turnVars, mutexVars
<1>2. CASE ReadState(r) \/ ReadFails(r) \/ IsAnswered(r) \/ AgentFails(r)
  BY <1>2 DEF ReadState, ReadFails, IsAnswered, AgentFails, Goto, mutexVars
<1>3. CASE FoldsPending(r) \/ DrainFails(r)
  BY <1>3 DEF FoldsPending, DrainFails, Drain, DrainLost, Goto, mutexVars
<1>4. CASE Judges(r)
  BY <1>4 DEF Judges, Goto, mutexVars
<1>5. CASE Counts(r) \/ RecordsOwn(r)
  <2>1. memory'[q] = memory[q]
    BY <1>5 DEF Counts, RecordsOwn, Records
  <2> QED BY <1>5, <2>1 DEF Counts, RecordsOwn, Goto, mutexVars
<1>6. CASE Returns(r)
  BY <1>6 DEF Returns, Leave, Forget, Reset, mutexVars
<1>7. CASE OutstaysLease(r)
  BY <1>7 DEF OutstaysLease, Overrun
<1> QED BY <1>1, <1>2, <1>3, <1>4, <1>5, <1>6, <1>7 DEF RequestStep

(* What a step of r may do to the messages that wait and to its own.       *)
Registers(r) ==
    /\ phase[r] = "refused" /\ phase'[r] = "registered"
    /\ copies'[r] \in {{Store}, {Home[r]}, {Store, Home[r]}}
    /\ \A s \in Stores :
          pending'[s] = IF s \in copies'[r] THEN Append(pending[s], r)
                        ELSE pending[s]
    /\ drained'[r] = drained[r] /\ step'[r] = step[r]
    /\ written'[r] = stamp /\ UNCHANGED <<rows, stamp>>

Drains(r) ==
    /\ step[r] \in {"folding", "refolding"} /\ r \notin Messageless
    /\ Inside(r) /\ at[r] \in Stores
    /\ UNCHANGED <<phase, counted, copies>>
    /\ drained'[r] = drained[r] \o pending[at[r]]
    /\ pending'[at[r]] = <<>>
    /\ \A s \in Stores \ {at[r]} : pending'[s] = pending[s]
    /\ step'[r] = AfterFold(r, Len(pending[at[r]]))
    /\ UNCHANGED <<rows, stamp>>

Loses(r) ==
    /\ "drain" \in faults'
    /\ step[r] \in {"folding", "refolding"}
    /\ step'[r] \in {"judging", "leaving"}
    /\ step[r] = "folding" => step'[r] = "judging"
    /\ UNCHANGED <<phase, counted, copies>>
    /\ drained'[r] = drained[r]
    /\ \A s \in Stores : pending'[s] = <<>> \/ pending'[s] = pending[s]
    /\ UNCHANGED <<rows, stamp>>

LeavesAlone(r) ==
    /\ phase'[r] = "registered" <=> phase[r] = "registered"
    /\ drained'[r] = drained[r] /\ copies'[r] = copies[r]
    /\ \A s \in Stores : pending'[s] = pending[s]
    /\ step'[r] \in Counting
          => step[r] \in Counting /\ counted[r] =< counted'[r]

LEMMA EffectsOnMessages ==
    ASSUME MutexInv, TurnTypes, Places, NEW r \in Requests, RequestStep(r)
    PROVE  Registers(r) \/ Drains(r) \/ Loses(r) \/ LeavesAlone(r)
<1> USE DEF MutexInv, MutexTypeOK, TurnTypes
<1>s. Inside(r) => at[r] \in Stores
  BY DEF InsideSomewhere
<1>1. CASE \/ Arrive(r) \/ GetsLease(r) \/ GoesUnleased(r) \/ IsTurnedAway(r)
           \/ Judges(r) \/ OutstaysLease(r)
  <2>1. LeavesAlone(r)
    BY <1>1
    DEF Arrive, GetsLease, GoesUnleased, IsTurnedAway, Judges, OutstaysLease,
        Ask, Take, Refuse, Overrun, mutexVars, LeavesAlone, turnVars, Goto,
        Counting
  <2> QED BY <2>1
<1>2. CASE \/ ReadState(r) \/ ReadFails(r) \/ IsAnswered(r) \/ AgentFails(r)
           \/ Counts(r) \/ RecordsOwn(r)
  <2>1. LeavesAlone(r)
    BY <1>2 DEF ReadState, ReadFails, IsAnswered, AgentFails, Counts,
                RecordsOwn, mutexVars, LeavesAlone, Goto, Counting
  <2> QED BY <2>1
<1>3. CASE IsRegistered(r)
  <2>1. PICK S \in {{Store}, {Home[r]}, {Store, Home[r]}} :
            Register(r, S) /\ copies' = [copies EXCEPT ![r] = S]
    BY <1>3 DEF IsRegistered
  <2>2. copies'[r] = S
    BY <2>1
  <2>3. Registers(r)
    BY <1>3, <2>1, <2>2 DEF IsRegistered, Register, Registers
  <2> QED BY <2>3
<1>4. CASE FoldsPending(r) /\ r \in Messageless
  <2>1. LeavesAlone(r)
    BY <1>4 DEF FoldsPending, mutexVars, LeavesAlone, Goto, Counting,
                AfterFold
  <2> QED BY <2>1
<1>5. CASE FoldsPending(r) /\ r \notin Messageless
  <2>1. Drain(r)
    BY <1>5 DEF FoldsPending
  <2>2. at[r] \in Stores
    BY <1>s, <2>1 DEF Drain
  <2>3. Drains(r)
    BY <1>s, <1>5, <2>1, <2>2 DEF FoldsPending, Drain, Drains, Goto
  <2> QED BY <2>3
<1>6. CASE DrainFails(r)
  <2>1. /\ \A s \in Stores :
              pending'[s] = <<>> \/ pending'[s] = pending[s]
        /\ drained'[r] = drained[r] /\ UNCHANGED phase
    <3>1. CASE UNCHANGED mutexVars
      BY <3>1 DEF mutexVars
    <3>2. CASE DrainLost(r)
      BY <1>s, <3>2 DEF DrainLost
    <3> QED BY <1>6, <3>1, <3>2 DEF DrainFails
  <2>2. Loses(r)
    BY <1>6, <2>1 DEF DrainFails, Loses, Goto, AfterFold, Fails
  <2> QED BY <2>2
<1>7. CASE Returns(r)
  <2>1. LeavesAlone(r)
    BY <1>7 DEF Returns, Leave, mutexVars, LeavesAlone, Inside, Forget, Reset,
                Goto, Counting
  <2> QED BY <2>1
<1> QED BY <1>1, <1>2, <1>3, <1>4, <1>5, <1>6, <1>7 DEF RequestStep

LEMMA ProgressStep ==
    ASSUME MutexInv, TurnTypes, Places, Progress,
           NEW r \in Requests, RequestStep(r)
    PROVE  Progress'
<1> USE DEF MutexInv, MutexTypeOK, TurnTypes
<1> DEFINE P(q) ==
        /\ step[q] \in {"new", "reading", "answering", "folding"}
              => drained[q] = <<>> /\ counted[q] = 0
        /\ step[q] \in Counting => counted[q] < Len(drained[q])
        /\ step[q] \in {"judging", "recording", "refolding", "leaving"}
              => counted[q] = Len(drained[q])
        /\ q \in Messageless => drained[q] = <<>>
<1>1. ASSUME NEW q \in Requests \ {r} PROVE P(q)'
  <2>1. /\ drained'[q] = drained[q] /\ step'[q] = step[q]
        /\ counted'[q] = counted[q]
    BY OthersStay
  <2>2. P(q)
    BY DEF Progress
  <2> QED BY <2>1, <2>2
<1>2. P(r)'
  <2>s. drained[r] \in Seq(Requests) /\ Len(<<>>) = 0
    OBVIOUS
  <2>1. CASE \/ Arrive(r) \/ GetsLease(r) \/ GoesUnleased(r) \/ IsTurnedAway(r)
             \/ IsRegistered(r) \/ OutstaysLease(r)
    BY <2>1 DEF Arrive, GetsLease, GoesUnleased, IsTurnedAway, OutstaysLease,
        IsRegistered, Register, Ask, Take, Refuse, Overrun, mutexVars,
        turnVars, Goto, Progress, Places, Counting
  <2>2. CASE ReadState(r) \/ ReadFails(r) \/ IsAnswered(r) \/ AgentFails(r)
    BY <2>2, <2>s DEF ReadState, ReadFails, IsAnswered, AgentFails, mutexVars,
        Goto, Progress, Counting
  <2>3. CASE Judges(r) \/ RecordsOwn(r)
    BY <2>3 DEF Judges, RecordsOwn, mutexVars, Goto, Progress, Counting
  <2>4. CASE FoldsPending(r) /\ r \in Messageless
    BY <2>4, <2>s DEF FoldsPending, mutexVars, Goto, Progress, Counting,
        AfterFold
  <2>5. CASE FoldsPending(r) /\ r \notin Messageless
    <3>1. Drain(r) /\ pending[at[r]] \in Seq(Requests)
      BY <2>5 DEF FoldsPending, Drain, InsideSomewhere
    <3>2. /\ drained'[r] = drained[r] \o pending[at[r]]
          /\ counted'[r] = counted[r]
          /\ step'[r] = AfterFold(r, Len(pending[at[r]]))
      BY <2>5, <3>1 DEF FoldsPending, Drain, Goto
    <3>3. Len(drained'[r]) = Len(drained[r]) + Len(pending[at[r]])
      BY <2>s, <3>1, <3>2
    <3>4. counted[r] = Len(drained[r])
      BY <2>5, <2>s DEF FoldsPending, Progress
    <3>5. /\ Len(pending[at[r]]) \in Nat
          /\ step'[r] \in Counting <=> Len(pending[at[r]]) > 0
          /\ step'[r] \in Counting \cup {"judging", "leaving"}
      BY <2>5, <3>1, <3>2 DEF FoldsPending, AfterFold, Counting
    <3>6. Len(drained[r]) \in Nat
      BY <2>s
    <3>7. step'[r] \in Counting => counted'[r] < Len(drained'[r])
      BY <3>2, <3>3, <3>4, <3>5, <3>6
    <3>8. step'[r] \notin Counting => counted'[r] = Len(drained'[r])
      BY <3>2, <3>3, <3>4, <3>5, <3>6
    <3>9. step'[r] \notin {"new", "reading", "answering", "folding"}
      BY <3>5 DEF Counting
    <3> QED BY <2>5, <3>7, <3>8, <3>9 DEF Counting
  <2>6. CASE DrainFails(r)
    <3>1. drained'[r] = drained[r] /\ counted'[r] = counted[r]
      BY <2>6 DEF DrainFails, DrainLost, mutexVars
    <3>2. step'[r] \in {"judging", "leaving"}
      BY <2>6 DEF DrainFails, Goto, AfterFold
    <3>3. counted[r] = Len(drained[r])
      BY <2>6, <2>s DEF DrainFails, Progress
    <3> QED BY <2>6, <3>1, <3>2, <3>3 DEF Counting, Progress
  <2>7. CASE Counts(r)
    <3>1. drained'[r] = drained[r] /\ counted'[r] = counted[r] + 1
      BY <2>7 DEF Counts, mutexVars
    <3>2. step'[r] = AfterFold(r, Len(drained[r]) - counted[r] - 1)
      BY <2>7 DEF Counts, Goto
    <3>3. counted[r] < Len(drained[r]) /\ step[r] \in Counting
      BY <2>7 DEF Counts, Progress, Counting
    <3>4. Len(drained[r]) \in Nat /\ counted[r] \in Nat
      BY <2>s
    <3>5. /\ step'[r] \in Counting \cup {"judging", "leaving"}
          /\ step'[r] \in Counting => Len(drained[r]) - counted[r] - 1 > 0
          /\ step'[r] \notin Counting
                => ~(Len(drained[r]) - counted[r] - 1 > 0)
      BY <3>2, <3>3 DEF AfterFold, Counting
    <3>6. step'[r] \in Counting => counted'[r] < Len(drained'[r])
      BY <3>1, <3>3, <3>4, <3>5
    <3>7. step'[r] \notin Counting => counted'[r] = Len(drained'[r])
      BY <3>1, <3>3, <3>4, <3>5
    <3>8. step'[r] \notin {"new", "reading", "answering", "folding"}
      BY <3>5 DEF Counting
    <3>9. r \in Messageless => drained'[r] = <<>>
      BY <3>1 DEF Progress
    <3> QED BY <3>6, <3>7, <3>8, <3>9 DEF Counting
  <2>8. CASE Returns(r)
    <3>1. step'[r] = "gone" /\ drained'[r] = drained[r]
      BY <2>8 DEF Returns, Leave, Forget, Reset, mutexVars
    <3> QED BY <3>1 DEF Progress, Counting
  <2> QED BY <2>1, <2>2, <2>3, <2>4, <2>5, <2>6, <2>7, <2>8 DEF RequestStep
<1> HIDE DEF P
<1>3. \A q \in Requests : P(q)'
  BY <1>1, <1>2
<1> QED BY <1>3 DEF P, Progress

(* Membership in the lists the messages wait in.                           *)
IsOn(p, s) == \E k \in DOMAIN s : s[k] = p

LEMMA AppendFacts ==
    ASSUME NEW S, NEW s \in Seq(S), NEW e \in S
    PROVE  /\ \A p : IsOn(p, Append(s, e)) <=> IsOn(p, s) \/ p = e
           /\ \A k \in DOMAIN Append(s, e) :
                 IF k \in DOMAIN s THEN Append(s, e)[k] = s[k]
                 ELSE k = Len(s) + 1 /\ Append(s, e)[k] = e
<1>1. /\ Len(s) \in Nat /\ DOMAIN s = 1 .. Len(s)
      /\ DOMAIN Append(s, e) = 1 .. Len(s) + 1
      /\ \A k \in 1 .. Len(s) : Append(s, e)[k] = s[k]
      /\ Append(s, e)[Len(s) + 1] = e
  BY AppendProperties
<1>2. \A k \in 1 .. Len(s) + 1 : k \in 1 .. Len(s) \/ k = Len(s) + 1
  BY <1>1
<1>3. /\ Len(s) + 1 \in 1 .. Len(s) + 1
      /\ \A k \in 1 .. Len(s) : k \in 1 .. Len(s) + 1 /\ k # Len(s) + 1
  BY <1>1
<1> DEFINE t == Append(s, e)
<1> HIDE DEF t
<1>4. /\ DOMAIN t = 1 .. Len(s) + 1
      /\ \A k \in 1 .. Len(s) : t[k] = s[k]
      /\ t[Len(s) + 1] = e
  BY <1>1 DEF t
<1>5. \A p : IsOn(p, t) <=> IsOn(p, s) \/ p = e
  BY <1>1, <1>2, <1>3, <1>4, Zenon DEF IsOn
<1>6. \A k \in DOMAIN t : IF k \in DOMAIN s THEN t[k] = s[k]
                          ELSE k = Len(s) + 1 /\ t[k] = e
  BY <1>1, <1>2, <1>3, <1>4, Zenon
<1> QED BY <1>5, <1>6 DEF t

LEMMA ConcatFacts ==
    ASSUME NEW S, NEW s \in Seq(S), NEW t \in Seq(S)
    PROVE  /\ \A p : IsOn(p, s \o t) => IsOn(p, s) \/ IsOn(p, t)
           /\ \A k \in DOMAIN t :
                 /\ Len(s) + k \in DOMAIN (s \o t) /\ Len(s) + k > Len(s)
                 /\ (s \o t)[Len(s) + k] = t[k]
           /\ \A k \in DOMAIN (s \o t) : k > Len(s) =>
                 k - Len(s) \in DOMAIN t /\ (s \o t)[k] = t[k - Len(s)]
<1> DEFINE u == s \o t
           n == Len(s)
           m == Len(t)
<1>1. u \in Seq(S) /\ Len(u) = n + m
  BY ConcatProperties
<1>2. \A k \in 1 .. Len(u) :
        u[k] = IF k <= Len(s) THEN s[k] ELSE t[k - Len(s)]
  BY ConcatProperties
<1>3. n \in Nat /\ m \in Nat /\ DOMAIN s = 1 .. n /\ DOMAIN t = 1 .. m
  BY LenProperties
<1>4. DOMAIN u = 1 .. n + m
  BY <1>1, LenProperties
<1> HIDE DEF u, n, m
<1>5. \A k \in 1 .. n + m : u[k] = IF k <= n THEN s[k] ELSE t[k - n]
  BY <1>1, <1>2 DEF n
<1>6. \A k \in 1 .. m : n + k \in 1 .. n + m /\ ~(n + k <= n)
                        /\ (n + k) - n = k /\ n + k > n
  BY <1>3
<1>7. \A k \in 1 .. m : u[n + k] = t[k]
  BY <1>5, <1>6
<1>8. \A k \in 1 .. n + m : IF k > n THEN k - n \in 1 .. m ELSE k \in 1 .. n
  BY <1>3
<1>9. \A k \in 1 .. n + m :
        IF k > n THEN u[k] = t[k - n] ELSE u[k] = s[k]
  <2>1. \A k \in 1 .. n + m : k > n <=> ~(k <= n)
    BY <1>3
  <2> QED BY <1>5, <2>1
<1>10. \A p : IsOn(p, u) => IsOn(p, s) \/ IsOn(p, t)
  <2>1. SUFFICES ASSUME NEW k \in 1 .. n + m
                 PROVE  IsOn(u[k], s) \/ IsOn(u[k], t)
    BY <1>4 DEF IsOn
  <2>2. CASE k > n
    BY <1>3, <1>8, <1>9, <2>2 DEF IsOn
  <2>3. CASE ~(k > n)
    BY <1>3, <1>8, <1>9, <2>3 DEF IsOn
  <2> QED BY <2>2, <2>3
<1> QED BY <1>3, <1>4, <1>6, <1>7, <1>8, <1>9, <1>10 DEF u, n, m

(* Nobody leaves the registered or forgets that it has its row.            *)
LEMMA RegisteredStep ==
    ASSUME MutexInv, TurnTypes, Places, NEW r \in Requests, RequestStep(r),
           NEW p \in Requests
    PROVE  /\ phase[p] = "registered" => phase'[p] = "registered"
           /\ phase[p] # "registered" /\ phase'[p] = "registered"
                 => p = r /\ Registers(r) /\ step[p] = "new"
           /\ step[p] \in Recorded => step'[p] \in Recorded
<1>1. CASE p # r
  BY <1>1, OthersStay
<1>2. CASE p = r
  <2>1. phase[p] = "registered" => phase'[p] = "registered"
    BY <1>2, EffectsOnMessages DEF Registers, Drains, Loses, LeavesAlone
  <2>2. phase[p] # "registered" /\ phase'[p] = "registered"
            => Registers(r) /\ step[p] = "new"
    BY <1>2, EffectsOnMessages
    DEF Registers, Drains, Loses, LeavesAlone, Places
  <2>3. ASSUME step[r] \in Recorded PROVE step'[r] \in Recorded
    <3> USE <2>3 DEF Recorded, MutexInv, MutexTypeOK, TurnTypes
    <3>1. CASE \/ Arrive(r) \/ GetsLease(r) \/ GoesUnleased(r)
               \/ IsTurnedAway(r) \/ IsRegistered(r) \/ OutstaysLease(r)
      BY <3>1 DEF Arrive, GetsLease, Take, GoesUnleased, IsTurnedAway,
                  IsRegistered, OutstaysLease, turnVars, Places
    <3>2. CASE \/ ReadState(r) \/ ReadFails(r) \/ IsAnswered(r)
               \/ AgentFails(r) \/ Judges(r) \/ RecordsOwn(r)
      BY <3>2 DEF ReadState, ReadFails, IsAnswered, AgentFails, Judges,
                  RecordsOwn
    <3>3. CASE FoldsPending(r) \/ DrainFails(r) \/ Counts(r)
      BY <3>3 DEF FoldsPending, DrainFails, Counts, Goto, AfterFold
    <3>4. CASE Returns(r)
      BY <3>4 DEF Returns, Forget, Reset
    <3> QED BY <3>1, <3>2, <3>3, <3>4 DEF RequestStep
  <2> QED BY <1>2, <2>1, <2>2, <2>3
<1> QED BY <1>1, <1>2

LEMMA QueuedStep ==
    ASSUME MutexInv, TurnTypes, Places, Queued,
           NEW r \in Requests, RequestStep(r)
    PROVE  Queued'
<1>t. /\ \A s \in Stores : pending[s] \in Seq(Requests)
      /\ \A q \in Requests : drained[q] \in Seq(Requests)
  BY DEF MutexInv, MutexTypeOK
<1>h. /\ \A p \in Requests, s \in Stores :
            IsOn(p, pending[s]) => phase[p] = "registered"
      /\ \A p, h \in Requests :
            IsOn(p, drained[h]) => phase[p] = "registered"
      /\ \A p \in Requests : phase[p] # "registered" => copies[p] = {}
  BY DEF Queued, WaitsAt, Handed, IsOn
<1>1. ASSUME NEW p \in Requests, NEW s \in Stores, IsOn(p, pending'[s])
      PROVE  phase'[p] = "registered"
  <2>1. CASE Registers(r)
    <3>1. IsOn(p, pending[s]) \/ p = r
      BY <1>1, <1>t, <2>1, AppendFacts DEF Registers
    <3> QED BY <1>h, <2>1, <3>1, RegisteredStep DEF Registers
  <2>2. CASE Drains(r) \/ Loses(r) \/ LeavesAlone(r)
    <3>1. pending'[s] = pending[s] \/ pending'[s] = <<>>
      BY <2>2 DEF Drains, Loses, LeavesAlone
    <3>2. IsOn(p, pending[s])
      BY <1>1, <3>1 DEF IsOn
    <3> QED BY <1>h, <3>2, RegisteredStep
  <2> QED BY <2>1, <2>2, EffectsOnMessages
<1>2. ASSUME NEW p \in Requests, NEW h \in Requests, IsOn(p, drained'[h])
      PROVE  phase'[p] = "registered"
  <2>1. CASE h # r
    <3>1. IsOn(p, drained[h])
      BY <1>2, <2>1, OthersStay
    <3> QED BY <1>h, <3>1, RegisteredStep
  <2>2. CASE h = r /\ Drains(r)
    <3>1. /\ at[r] \in Stores
          /\ drained'[r] = drained[r] \o pending[at[r]]
      BY <2>2 DEF Drains
    <3>2. pending[at[r]] \in Seq(Requests) /\ drained[r] \in Seq(Requests)
      BY <1>t, <3>1
    <3>3. IsOn(p, drained[r]) \/ IsOn(p, pending[at[r]])
      BY <1>2, <2>2, <3>1, <3>2, ConcatFacts
    <3> QED BY <1>h, <3>1, <3>3, RegisteredStep
  <2>3. CASE h = r /\ ~Drains(r)
    <3>1. drained'[r] = drained[r]
      BY <2>3, EffectsOnMessages DEF Registers, Loses, LeavesAlone
    <3> QED BY <1>2, <1>h, <2>3, <3>1, RegisteredStep
  <2> QED BY <2>1, <2>2, <2>3
<1>3. ASSUME NEW p \in Requests, phase'[p] # "registered"
      PROVE  copies'[p] = {}
  <2>1. phase[p] # "registered" /\ copies[p] = {}
    BY <1>3, <1>h, RegisteredStep
  <2>2. CASE p # r
    BY <2>1, <2>2, OthersStay
  <2>3. CASE p = r
    BY <1>3, <2>1, <2>3, EffectsOnMessages
    DEF Registers, Drains, Loses, LeavesAlone
  <2> QED BY <2>2, <2>3
<1> QED BY <1>1, <1>2, <1>3 DEF Queued, WaitsAt, Handed, IsOn

(* A message waits because it did, or was registered in this step.         *)
LEMMA WaitsStep ==
    ASSUME MutexInv, TurnTypes, Places, NEW r \in Requests, RequestStep(r),
           NEW p \in Requests, Waits(p)'
    PROVE  Waits(p) \/ (p = r /\ Registers(r))
<1>s. Store \in Stores /\ pending[Store] \in Seq(Requests)
  BY TurnAssumption DEF MutexInv, MutexTypeOK
<1>p. IsOn(p, pending'[Store])
  BY DEF Waits, WaitsAt, IsOn
<1>1. CASE Registers(r)
  <2>1. IsOn(p, pending[Store]) \/ p = r
    BY <1>s, <1>p, <1>1, AppendFacts DEF Registers
  <2> QED BY <1>1, <2>1 DEF Waits, WaitsAt, IsOn
<1>2. CASE Drains(r) \/ Loses(r) \/ LeavesAlone(r)
  <2>1. pending'[Store] = <<>> \/ pending'[Store] = pending[Store]
    BY <1>s, <1>2 DEF Drains, Loses, LeavesAlone
  <2> QED BY <1>p, <2>1 DEF Waits, WaitsAt, IsOn
<1> QED BY <1>1, <1>2, EffectsOnMessages

(* The three ways the rows come out of a step.                             *)
LEMMA RowsStay ==
    ASSUME NEW r \in Requests, RequestStep(r), ~Counts(r), ~RecordsOwn(r)
    PROVE  UNCHANGED rows
  BY DEF RequestStep, Arrive, GetsLease, GoesUnleased, IsTurnedAway,
         IsRegistered, ReadState, ReadFails, IsAnswered, AgentFails,
         FoldsPending, DrainFails, Judges, Returns, OutstaysLease,
         turnVars

IsCounted(c, r) ==
    /\ c \in Requests
    /\ step[r] \in Counting
    /\ counted[r] + 1 \in DOMAIN drained[r]
    /\ c = drained[r][counted[r] + 1]
    /\ counted'[r] = counted[r] + 1
    /\ UNCHANGED <<mutexVars, stamp, reply, arrived, written, turn>>

IsOwn(r) ==
    /\ step[r] = "recording" /\ step'[r] = "refolding"
    /\ turn[r] \in Turns
    /\ reply'[r] = ActionFor(turn[r], memory[r])
    /\ UNCHANGED <<mutexVars, stamp, arrived, written, turn>>

LEMMA CountsRecords ==
    ASSUME MutexInv, TurnTypes, Progress, NEW r \in Requests, Counts(r)
    PROVE  \E c \in Requests, t \in Turns, row \in Rows :
                /\ IsCounted(c, r) /\ t = ConcurrentTurn(arrived[c])
                /\ Recording(r, c, t, row)
<1> DEFINE c == drained[r][counted[r] + 1]
           t == ConcurrentTurn(arrived[c])
<1>1. /\ Len(drained[r]) \in Nat /\ DOMAIN drained[r] = 1 .. Len(drained[r])
      /\ counted[r] \in Nat /\ counted[r] < Len(drained[r])
  BY LenProperties
  DEF MutexInv, MutexTypeOK, TurnTypes, Progress, Counts, Counting
<1>2. counted[r] + 1 \in DOMAIN drained[r]
  BY <1>1
<1>3. c \in Requests
  BY <1>1, <1>2, ElementOfSeq DEF MutexInv, MutexTypeOK
<1>4. IsCounted(c, r)
  BY <1>2, <1>3 DEF Counts, IsCounted, Counting, TurnTypes
<1>5. t \in Turns /\ Records(r, c, t)
  BY <1>3, TurnsAreTurns DEF Counts, TurnTypes
<1> HIDE DEF c
<1>6. t = ConcurrentTurn(arrived[c])
  OBVIOUS
<1> HIDE DEF t
<1>7. \E row \in Rows : Recording(r, c, t, row)
  BY <1>3, <1>5, RecordsIsRecording DEF TurnTypes
<1> QED BY <1>3, <1>4, <1>5, <1>6, <1>7

LEMMA OwnRecords ==
    ASSUME TurnTypes, NEW r \in Requests, RecordsOwn(r)
    PROVE  IsOwn(r) /\ \E row \in Rows : Recording(r, r, turn[r], row)
<1>1. turn[r] \in Turns /\ Records(r, r, turn[r])
  BY DEF RecordsOwn, TurnTypes
<1>2. IsOwn(r)
  BY <1>1 DEF RecordsOwn, IsOwn, TurnTypes, Goto
<1>3. \E row \in Rows : Recording(r, r, turn[r], row)
  BY <1>1, RecordsIsRecording DEF TurnTypes
<1> QED BY <1>2, <1>3

(* Whose row a step writes, if it writes one.                              *)
RowsGrow(row) ==
    /\ Len(rows) \in Nat /\ DOMAIN rows = 1 .. Len(rows)
    /\ rows' = Append(rows, row)
    /\ DOMAIN rows' = 1 .. Len(rows) + 1 /\ Len(rows') = Len(rows) + 1
    /\ \A i \in 1 .. Len(rows) :
          /\ rows'[i] = rows[i]
          /\ i \in 1 .. Len(rows) + 1 /\ i # Len(rows) + 1
    /\ rows'[Len(rows) + 1] = row
    /\ Len(rows) + 1 \in 1 .. Len(rows) + 1
    /\ \A i \in 1 .. Len(rows) + 1 : i \in 1 .. Len(rows) \/ i = Len(rows) + 1

LEMMA GrowthOfRows ==
    ASSUME TurnTypes, NEW row \in Rows, rows' = Append(rows, row)
    PROVE  RowsGrow(row)
<1>1. /\ Len(rows) \in Nat /\ DOMAIN rows = 1 .. Len(rows)
      /\ DOMAIN rows' = 1 .. Len(rows) + 1 /\ Len(rows') = Len(rows) + 1
      /\ \A i \in 1 .. Len(rows) : rows'[i] = rows[i]
      /\ rows'[Len(rows) + 1] = row
  BY AppendProperties, LenProperties DEF TurnTypes
<1>2. /\ \A i \in 1 .. Len(rows) :
            i \in 1 .. Len(rows) + 1 /\ i # Len(rows) + 1
      /\ Len(rows) + 1 \in 1 .. Len(rows) + 1
      /\ \A i \in 1 .. Len(rows) + 1 :
            i \in 1 .. Len(rows) \/ i = Len(rows) + 1
  BY <1>1
<1> QED BY <1>1, <1>2 DEF RowsGrow

LEMMA RowsPlacedStep ==
    ASSUME MutexInv, TurnTypes, Places, Progress, Queued, RowsPlaced,
           NEW r \in Requests, RequestStep(r)
    PROVE  RowsPlaced'
<1>t. \A i \in DOMAIN rows : rows[i].by \in Requests
  BY RowOwners
<1>1. /\ \A i \in DOMAIN rows :
            phase'[rows[i].by] # "registered"
                => /\ phase[rows[i].by] # "registered"
                   /\ step'[rows[i].by] \in Recorded
                   /\ step[rows[i].by] \in Recorded
      /\ \A i, j \in DOMAIN rows :
            phase'[rows[i].by] # "registered" /\ rows[i].by = rows[j].by
                => i = j
  BY <1>t, RegisteredStep DEF RowsPlaced
<1>2. CASE UNCHANGED rows
  BY <1>1, <1>2 DEF RowsPlaced
<1>3. ASSUME NEW row \in Rows, rows' = Append(rows, row),
             \/ phase'[row.by] = "registered"
             \/ /\ step[row.by] = "recording"
                /\ step'[row.by] = "refolding"
      PROVE  RowsPlaced'
  <2>1. RowsGrow(row)
    BY <1>3, GrowthOfRows
  <2>2. step[row.by] = "recording" => step[row.by] \notin Recorded
    BY DEF Recorded
  <2>3. \A i \in DOMAIN rows :
            phase'[row.by] # "registered" => rows[i].by # row.by
    BY <1>1, <1>3, <2>2
  <2>4. \A i \in DOMAIN rows' :
            phase'[rows'[i].by] # "registered"
                => step'[rows'[i].by] \in Recorded
    BY <1>1, <1>3, <2>1 DEF RowsGrow, Recorded
  <2>5. \A i, j \in DOMAIN rows' :
            phase'[rows'[i].by] # "registered" /\ rows'[i].by = rows'[j].by
                => i = j
    BY <1>1, <2>1, <2>3 DEF RowsGrow
  <2> QED BY <2>4, <2>5 DEF RowsPlaced
<1>4. CASE Counts(r)
  <2>1. PICK c \in Requests, t \in Turns, row \in Rows :
                IsCounted(c, r) /\ Recording(r, c, t, row)
    BY <1>4, CountsRecords
  <2>2. Handed(c, r) /\ UNCHANGED phase
    BY <2>1 DEF IsCounted, Handed, mutexVars
  <2>3. phase'[row.by] = "registered"
    BY <2>1, <2>2 DEF Queued, Recording
  <2> QED BY <1>2, <1>3, <2>1, <2>3 DEF Recording
<1>5. CASE RecordsOwn(r)
  <2>1. PICK row \in Rows : Recording(r, r, turn[r], row)
    BY <1>5, OwnRecords
  <2>2. row.by = r /\ step[r] = "recording" /\ step'[r] = "refolding"
    BY <1>5, <2>1, OwnRecords DEF IsOwn, Recording
  <2> QED BY <1>2, <1>3, <2>1, <2>2 DEF Recording
<1> QED BY <1>2, <1>4, <1>5, RowsStay

(* The tickets of a message stay as few as they were where each is one it  *)
(* had, or stands in the place of one.                                     *)
Few(p) ==
    /\ IsFiniteSet(Tickets(p)) /\ IsFiniteSet(copies[p])
    /\ Cardinality(Tickets(p)) =< Cardinality(copies[p])

LEMMA FewStay ==
    ASSUME NEW p, Few(p), copies'[p] = copies[p],
           \/ Tickets(p)' \subseteq Tickets(p)
           \/ \E f : f \in Injection(Tickets(p)', Tickets(p))
    PROVE  Few(p)'
<1> DEFINE T == Tickets(p)
           U == Tickets(p)'
<1>1. IsFiniteSet(T) /\ Cardinality(T) =< Cardinality(copies[p])
  BY DEF Few
<1>2. IsFiniteSet(U) /\ Cardinality(U) =< Cardinality(T)
  <2> HIDE DEF T, U
  <2>1. CASE U \subseteq T
    BY <1>1, <2>1, FS_Subset
  <2>2. CASE \E f : f \in Injection(U, T)
    BY <1>1, <2>2, FS_Injection
  <2> QED BY <2>1, <2>2 DEF T, U
<1>3. IsFiniteSet(copies[p])
  BY DEF Few
<1> HIDE DEF T, U
<1>4. /\ Cardinality(U) \in Nat /\ Cardinality(T) \in Nat
      /\ Cardinality(copies[p]) \in Nat
  BY <1>1, <1>2, <1>3, FS_CardinalityType
<1>5. Cardinality(U) =< Cardinality(copies[p])
  BY <1>1, <1>2, <1>4
<1> QED BY <1>2, <1>3, <1>5 DEF Few, U

(* The first ticket of a message is the place it is registered at.         *)
LEMMA FewAtFirst ==
    ASSUME MutexInv, TurnTypes, Places, Queued, RowsPlaced,
           NEW r \in Requests, RequestStep(r), Registers(r)
    PROVE  Few(r)'
<1>t. /\ \A s \in Stores : pending[s] \in Seq(Requests)
      /\ \A i \in DOMAIN rows : rows[i].by \in Requests
      /\ Store \in Stores /\ Home[r] \in Stores
  <2>1. Store \in Stores /\ Home[r] \in Stores
    BY TurnAssumption
  <2>2. \A s \in Stores : pending[s] \in Seq(Requests)
    BY DEF MutexInv, MutexTypeOK
  <2> QED BY <2>1, <2>2, RowOwners
<1>n. /\ \A s \in Stores : \A k \in DOMAIN pending[s] : pending[s][k] # r
      /\ \A h \in Requests : \A k \in DOMAIN drained[h] : drained[h][k] # r
      /\ \A i \in DOMAIN rows : rows[i].by # r
  <2>1. phase[r] = "refused" /\ step[r] \notin Recorded
    BY DEF Registers, Places, Recorded
  <2> QED BY <1>t, <2>1 DEF Queued, WaitsAt, Handed, RowsPlaced
<1>1. ASSUME NEW t \in Tickets(r)'
      PROVE  /\ t[1] = "waits" /\ t[2] \in copies'[r]
             /\ t[2] \in Stores /\ t[3] = Len(pending[t[2]]) + 1
             /\ t = <<t[1], t[2], t[3]>>
  <2>1. t \in AllTickets /\ IsTicket(r, t)'
    BY DEF Tickets
  <2>2. ~(t[1] = "row" /\ t[3] \in DOMAIN rows' /\ rows'[t[3]].by = r)
    BY <1>n DEF Registers
  <2>3. \A h \in Requests : \A k : ~OwedBy(r, h, k)'
    <3>1. TAKE h \in Requests
    <3>2. drained'[h] = drained[h]
      BY OthersStay DEF Registers
    <3> QED BY <1>n, <3>2 DEF OwedBy
  <2>4. /\ t[1] = "waits" /\ t[2] \in Stores
        /\ t[3] \in DOMAIN pending'[t[2]] /\ pending'[t[2]][t[3]] = r
    BY <2>1, <2>2, <2>3 DEF IsTicket
  <2>5. t[2] \in copies'[r]
    BY <1>n, <2>4 DEF Registers
  <2>6. pending'[t[2]] = Append(pending[t[2]], r)
    BY <2>4, <2>5 DEF Registers
  <2>7. t[3] = Len(pending[t[2]]) + 1
    BY <1>t, <1>n, <2>4, <2>6, AppendFacts
  <2> QED BY <2>1, <2>4, <2>5, <2>7 DEF AllTickets
<1>2. IsFiniteSet(copies'[r])
  <2>1. \A a : IsFiniteSet({a})
    BY FS_Singleton
  <2>2. IsFiniteSet({Store} \cup {Home[r]})
    BY <2>1, FS_Union
  <2>3. {Store, Home[r]} = {Store} \cup {Home[r]}
    OBVIOUS
  <2>4. \/ copies'[r] = {Store} \/ copies'[r] = {Home[r]}
        \/ copies'[r] = {Store, Home[r]}
    BY DEF Registers
  <2> QED BY <2>1, <2>2, <2>3, <2>4
<1> DEFINE U == Tickets(r)'
           S == copies'[r]
           f == [t \in U |-> t[2]]
<1>3. f \in Injection(U, S)
  <2>1. \A t, u \in U : t[2] = u[2] => t = u
    BY <1>1
  <2>2. \A t \in U : t[2] \in S
    BY <1>1
  <2> HIDE DEF U, S
  <2>3. f \in [U -> S] /\ \A t, u \in U : f[t] = f[u] => t = u
    BY <2>1, <2>2
  <2> HIDE DEF f
  <2> QED BY <2>3 DEF Injection, IsInjective
<1> HIDE DEF f
<1>4. IsFiniteSet(U) /\ Cardinality(U) =< Cardinality(S)
  <2>1. IsFiniteSet(S)
    BY <1>2
  <2> HIDE DEF U, S
  <2> QED BY <1>3, <2>1, FS_Injection
<1> QED BY <1>2, <1>4 DEF Few

\* The ticket of a message that r hands itself stands for its place in the
\* queue, the row it counts for the place it is owed one at.
LEMMA FewAfterDrain ==
    ASSUME MutexInv, TurnTypes, Places, Progress, NEW r \in Requests,
           RequestStep(r), Drains(r), NEW p \in Requests, Few(p)
    PROVE  Few(p)'
<1>1. /\ at[r] \in Stores /\ counted'[r] = Len(drained[r])
      /\ drained'[r] = drained[r] \o pending[at[r]]
      /\ \A h \in Requests \ {r} :
            /\ drained'[h] = drained[h] /\ counted'[h] = counted[h]
            /\ step'[h] = step[h]
      /\ pending'[at[r]] = <<>>
      /\ \A s \in Stores \ {at[r]} : pending'[s] = pending[s]
      /\ rows' = rows /\ copies'[p] = copies[p]
  BY OthersStay DEF Drains, Progress
<1>2. /\ drained[r] \in Seq(Requests) /\ pending[at[r]] \in Seq(Requests)
      /\ Len(drained[r]) \in Nat
  BY <1>1, LenProperties DEF MutexInv, MutexTypeOK
<1> DEFINE T == Tickets(p)
           U == Tickets(p)'
           n == Len(drained[r])
           Moved(t) == t[1] = "owed" /\ t[2] = r
           f == [t \in U |-> IF Moved(t) THEN <<"waits", at[r], t[3] - n>>
                             ELSE t]
<1>3. ASSUME NEW t \in U
      PROVE  /\ t = <<t[1], t[2], t[3]>> /\ t[3] \in Nat
             /\ Moved(t) => <<"waits", at[r], t[3] - n>> \in T
             /\ ~Moved(t) => t \in T /\ (t[1] = "waits" => t[2] # at[r])
  <2>1. t \in AllTickets /\ IsTicket(p, t)'
    BY DEF Tickets
  <2>2. t = <<t[1], t[2], t[3]>> /\ t[3] \in Nat
    BY <2>1 DEF AllTickets
  <2>3. ASSUME Moved(t) PROVE <<"waits", at[r], t[3] - n>> \in T
    <3>1. OwedBy(p, r, t[3])'
      BY <2>1, <2>3 DEF IsTicket
    <3>2. /\ t[3] \in DOMAIN (drained[r] \o pending[at[r]])
          /\ t[3] > n /\ (drained[r] \o pending[at[r]])[t[3]] = p
      BY <1>1, <3>1 DEF OwedBy
    <3> DEFINE k == t[3] - n
    <3>3. k \in DOMAIN pending[at[r]] /\ pending[at[r]][k] = p
      BY <1>2, <3>2, ConcatFacts
    <3>4. k \in Nat
      BY <1>2, <3>3, LenProperties
    <3> HIDE DEF k
    <3>5. <<"waits", at[r], k>> \in AllTickets
      BY <1>1, <3>4 DEF AllTickets
    <3>6. IsTicket(p, <<"waits", at[r], k>>)
      BY <1>1, <3>3 DEF IsTicket
    <3> QED BY <3>5, <3>6 DEF Tickets, k
  <2>4. ASSUME ~Moved(t) PROVE t \in T /\ (t[1] = "waits" => t[2] # at[r])
    <3>1. CASE t[1] = "row"
      BY <1>1, <2>1, <3>1 DEF IsTicket, Tickets
    <3>2. CASE t[1] = "owed"
      <4>1. t[2] \in Requests \ {r} /\ OwedBy(p, t[2], t[3])'
        BY <2>1, <2>4, <3>2 DEF IsTicket
      <4>2. OwedBy(p, t[2], t[3])
        BY <1>1, <4>1 DEF OwedBy
      <4> QED BY <2>1, <3>2, <4>1, <4>2 DEF IsTicket, Tickets
    <3>3. CASE t[1] = "waits"
      <4>1. /\ t[2] \in Stores /\ t[3] \in DOMAIN pending'[t[2]]
            /\ pending'[t[2]][t[3]] = p
        BY <2>1, <3>3 DEF IsTicket
      <4>2. t[2] # at[r]
        BY <1>1, <4>1
      <4>3. pending'[t[2]] = pending[t[2]]
        BY <1>1, <4>1, <4>2
      <4> QED BY <2>1, <3>3, <4>1, <4>2, <4>3 DEF IsTicket, Tickets
    <3> QED BY <2>1, <3>1, <3>2, <3>3 DEF AllTickets
  <2> QED BY <2>2, <2>3, <2>4
<1>4. n \in Nat
  BY <1>2
<1>5. f \in Injection(U, T)
  <2> HIDE DEF U, T, n
  <2>1. \A t \in U : f[t] \in T
    BY <1>3
  <2>2. ASSUME NEW t \in U, NEW u \in U, f[t] = f[u] PROVE t = u
    <3>1. CASE Moved(t) /\ Moved(u)
      <4>1. t[3] - n = u[3] - n
        BY <2>2, <3>1
      <4>2. t[3] \in Nat /\ u[3] \in Nat
        BY <1>3
      <4>3. t[3] = u[3]
        BY <1>4, <4>1, <4>2
      <4> QED BY <1>3, <3>1, <4>3
    <3>2. CASE Moved(t) /\ ~Moved(u)
      <4>1. u = <<"waits", at[r], t[3] - n>>
        BY <2>2, <3>2
      <4> QED BY <1>3, <3>2, <4>1
    <3>3. CASE ~Moved(t) /\ Moved(u)
      <4>1. t = <<"waits", at[r], u[3] - n>>
        BY <2>2, <3>3
      <4> QED BY <1>3, <3>3, <4>1
    <3>4. CASE ~Moved(t) /\ ~Moved(u)
      BY <2>2, <3>4
    <3> QED BY <3>1, <3>2, <3>3, <3>4
  <2>3. f \in [U -> T]
    BY <2>1
  <2> HIDE DEF f
  <2> QED BY <2>2, <2>3 DEF Injection, IsInjective
<1>6. \E g : g \in Injection(Tickets(p)', Tickets(p))
  BY <1>5
<1> QED BY <1>1, <1>6, FewStay

LEMMA FewAfterCount ==
    ASSUME MutexInv, TurnTypes, Places, Progress, NEW r \in Requests,
           Counts(r), RequestStep(r), NEW p \in Requests, Few(p)
    PROVE  Few(p)'
<1>1. PICK c \in Requests, t0 \in Turns, row \in Rows :
            IsCounted(c, r) /\ Recording(r, c, t0, row)
  BY CountsRecords
<1>j. PICK j \in Nat : j = counted[r] + 1
  BY DEF TurnTypes
<1> DEFINE T == Tickets(p)
           U == Tickets(p)'
           place == <<"owed", r, j>>
           New(t) == t[1] = "row" /\ t[3] \notin DOMAIN rows
           f == [t \in U |-> IF New(t) THEN place ELSE t]
<1>2. /\ drained' = drained /\ pending' = pending /\ counted'[r] = j
      /\ j \in DOMAIN drained[r] /\ c = drained[r][j]
      /\ step[r] \in Counting /\ j > counted[r] /\ counted[r] \in Nat
      /\ j \in Nat /\ ~(j > j)
      /\ \A k \in Nat : k > j => k > counted[r]
      /\ \A h \in Requests \ {r} :
            step'[h] = step[h] /\ counted'[h] = counted[h]
  <2>1. counted[r] \in Nat
    BY DEF TurnTypes
  <2> QED BY <1>1, <1>j, <2>1, OthersStay DEF IsCounted, mutexVars
<1>3. copies'[p] = copies[p]
  BY DEF Counts
<1>4. ASSUME NEW t \in U
      PROVE  /\ t = <<t[1], t[2], t[3]>> /\ t # place
             /\ ~New(t) => t \in T
             /\ New(t) => t = <<"row", Nowhere, Len(rows) + 1>> /\ c = p
  <2>1. t \in AllTickets /\ IsTicket(p, t)'
    BY DEF Tickets
  <2>2. t = <<t[1], t[2], t[3]>> /\ t[3] \in Nat
    BY <2>1 DEF AllTickets
  <2>3. t # place
    <3>1. ~OwedBy(p, r, j)'
      BY <1>2 DEF OwedBy
    <3> QED BY <2>1, <3>1 DEF IsTicket
  <2>4. CASE t[1] = "waits"
    BY <1>2, <2>1, <2>2, <2>3, <2>4 DEF IsTicket, Tickets
  <2>5. CASE t[1] = "owed"
    <3>1. t[2] \in Requests /\ OwedBy(p, t[2], t[3])'
      BY <2>1, <2>5 DEF IsTicket
    <3>2. OwedBy(p, t[2], t[3])
      BY <1>2, <2>2, <3>1 DEF OwedBy
    <3> QED BY <2>1, <2>2, <2>3, <2>5, <3>1, <3>2 DEF IsTicket, Tickets
  <2>6. CASE t[1] = "row"
    <3>0. t[2] = Nowhere /\ t[3] \in DOMAIN rows' /\ rows'[t[3]].by = p
      BY <2>1, <2>6 DEF IsTicket
    <3>1. CASE UNCHANGED rows
      BY <2>1, <2>2, <2>3, <2>6, <3>0, <3>1 DEF IsTicket, Tickets
    <3>2. CASE rows' = Append(rows, row)
      <4>1. RowsGrow(row) /\ row.by = c
        BY <1>1, <3>2, GrowthOfRows DEF Recording
      <4>2. CASE t[3] \in DOMAIN rows
        <5>1. rows[t[3]].by = p
          BY <3>0, <4>1, <4>2 DEF RowsGrow
        <5> QED BY <2>1, <2>2, <2>3, <2>6, <3>0, <4>2, <5>1
                DEF IsTicket, Tickets
      <4>3. CASE t[3] \notin DOMAIN rows
        <5>1. t[3] = Len(rows) + 1 /\ c = p
          BY <3>0, <4>1, <4>3 DEF RowsGrow
        <5> QED BY <2>2, <2>3, <2>6, <3>0, <4>3, <5>1
      <4> QED BY <4>2, <4>3
    <3> QED BY <1>1, <3>1, <3>2 DEF Recording
  <2> QED BY <2>1, <2>4, <2>5, <2>6 DEF AllTickets
<1>5. c = p => place \in T
  <2>1. place \in AllTickets
    BY <1>2 DEF AllTickets
  <2>2. c = p => IsTicket(p, place)
    BY <1>2 DEF IsTicket, OwedBy
  <2> QED BY <2>1, <2>2 DEF Tickets
<1>6. f \in Injection(U, T)
  <2> HIDE DEF U, T, place, New
  <2>1. \A t \in U : f[t] \in T
    BY <1>4, <1>5
  <2>2. \A t, u \in U : f[t] = f[u] => t = u
    BY <1>4
  <2>3. f \in [U -> T]
    BY <2>1
  <2> HIDE DEF f
  <2> QED BY <2>2, <2>3 DEF Injection, IsInjective
<1>7. \E g : g \in Injection(Tickets(p)', Tickets(p))
  BY <1>6
<1> QED BY <1>3, <1>7, FewStay

LEMMA TicketsStep ==
    ASSUME MutexInv, TurnTypes, Places, Progress, Queued, RowsPlaced,
           TicketsAreFew, NEW r \in Requests, RequestStep(r)
    PROVE  TicketsAreFew'
<1> SUFFICES ASSUME NEW p \in Requests, phase'[p] = "registered"
             PROVE  Few(p)'
  BY DEF TicketsAreFew, Few
<1>1. CASE phase[p] # "registered"
  BY <1>1, FewAtFirst, RegisteredStep
<1>2. CASE phase[p] = "registered"
  <2>1. Few(p)
    BY <1>2 DEF TicketsAreFew, Few
  <2>2. CASE Drains(r)
    BY <2>1, <2>2, FewAfterDrain
  <2>3. CASE Counts(r)
    BY <2>1, <2>3, FewAfterCount
  <2>4. CASE ~Drains(r) /\ ~Counts(r)
    <3>1. Registers(r) \/ Loses(r) \/ LeavesAlone(r)
      BY <2>4, EffectsOnMessages
    <3>2. copies'[p] = copies[p]
      <4>1. CASE p # r
        BY <4>1, OthersStay
      <4>2. CASE p = r
        BY <1>2, <3>1, <4>2 DEF Registers, Loses, LeavesAlone
      <4> QED BY <4>1, <4>2
    <3>3. ASSUME NEW i \in DOMAIN rows', rows'[i].by = p
          PROVE  i \in DOMAIN rows /\ rows[i].by = p
      <4>1. CASE UNCHANGED rows
        BY <3>3, <4>1
      <4>2. CASE RecordsOwn(r)
        <5>1. PICK row \in Rows : Recording(r, r, turn[r], row)
          BY <4>2, OwnRecords
        <5>2. CASE rows' = Append(rows, row)
          <6>1. RowsGrow(row) /\ row.by = r
            BY <5>1, <5>2, GrowthOfRows DEF Recording
          <6>2. p # r
            BY <1>2, <4>2 DEF RecordsOwn, Places
          <6> QED BY <3>3, <6>1, <6>2 DEF RowsGrow
        <5> QED BY <4>1, <5>1, <5>2 DEF Recording
      <4> QED BY <2>4, <4>1, <4>2, RowsStay
    <3>4. ASSUME NEW s \in Stores, NEW k \in DOMAIN pending'[s],
                 pending'[s][k] = p
          PROVE  k \in DOMAIN pending[s] /\ pending[s][k] = p
      <4>1. CASE Registers(r)
        <5>1. p # r /\ pending[s] \in Seq(Requests)
          BY <1>2, <4>1 DEF Registers, MutexInv, MutexTypeOK
        <5>2. \/ pending'[s] = pending[s]
              \/ pending'[s] = Append(pending[s], r)
          BY <4>1 DEF Registers
        <5> QED BY <3>4, <5>1, <5>2, AppendFacts
      <4>2. CASE Loses(r) \/ LeavesAlone(r)
        <5>1. pending'[s] = <<>> \/ pending'[s] = pending[s]
          BY <4>2 DEF Loses, LeavesAlone
        <5> QED BY <3>4, <5>1
      <4> QED BY <3>1, <4>1, <4>2
    <3>5. ASSUME NEW h \in Requests, NEW k \in Nat, OwedBy(p, h, k)'
          PROVE  OwedBy(p, h, k)
      <4>1. CASE h # r
        <5>1. /\ drained'[h] = drained[h] /\ step'[h] = step[h]
              /\ counted'[h] = counted[h]
          BY <4>1, OthersStay
        <5> QED BY <3>5, <5>1 DEF OwedBy
      <4>2. CASE h = r
        <5>1. LeavesAlone(r)
          <6>1. ~Registers(r)
            BY <3>5, <4>2 DEF OwedBy, Registers, Places, Counting
          <6>2. ~Loses(r)
            BY <3>5, <4>2 DEF OwedBy, Loses, Counting
          <6> QED BY <3>1, <6>1, <6>2
        <5>2. /\ drained'[r] = drained[r] /\ step[r] \in Counting
              /\ counted[r] =< counted'[r] /\ k > counted'[r]
              /\ k \in DOMAIN drained[r] /\ drained[r][k] = p
          BY <3>5, <4>2, <5>1 DEF OwedBy, LeavesAlone
        <5>3. counted[r] \in Nat /\ counted'[r] \in Nat
          BY TypesStep DEF TurnTypes
        <5>4. k > counted[r]
          BY <5>2, <5>3
        <5> QED BY <4>2, <5>2, <5>4 DEF OwedBy
      <4> QED BY <4>1, <4>2
    <3>6. ASSUME NEW t \in AllTickets, IsTicket(p, t)' PROVE IsTicket(p, t)
      <4>1. t[3] \in Nat
        BY DEF AllTickets
      <4>2. CASE t[1] = "row"
        BY <3>3, <3>6, <4>2 DEF IsTicket
      <4>3. CASE t[1] = "owed"
        BY <3>5, <3>6, <4>1, <4>3 DEF IsTicket
      <4>4. CASE t[1] = "waits"
        BY <3>4, <3>6, <4>4 DEF IsTicket
      <4> QED BY <3>6, <4>2, <4>3, <4>4 DEF IsTicket
    <3>7. Tickets(p)' \subseteq Tickets(p)
      BY <3>6 DEF Tickets
    <3> QED BY <2>1, <3>2, <3>7, FewStay
  <2> QED BY <2>2, <2>3, <2>4
<1> QED BY <1>1, <1>2

LEMMA RepliedStep ==
    ASSUME MutexInv, TurnTypes, Places, Replied,
           NEW r \in Requests, RequestStep(r)
    PROVE  Replied'
<1>1. SUFFICES ASSUME NEW p \in Requests, phase'[p] = "registered"
               PROVE  reply'[p] = "concurrent"
  BY DEF Replied
<1>2. CASE p # r
  BY <1>1, <1>2, OthersStay DEF Replied
<1>3. CASE p = r /\ IsRegistered(r)
  BY <1>3 DEF IsRegistered, TurnTypes
<1>4. CASE p = r /\ ~IsRegistered(r)
  <2> USE DEF MutexInv, MutexTypeOK, TurnTypes
  <2>1. phase[r] = "registered" /\ step[r] = "new" /\ r \notin Messageless
    <3>1. phase[r] = "registered"
      BY <1>1, <1>4
      DEF RequestStep, Arrive, GetsLease, GoesUnleased, IsTurnedAway, Ask,
          Take, Refuse, ReadState, ReadFails, IsAnswered, AgentFails,
          FoldsPending, Drain, DrainFails, DrainLost, Counts, Judges,
          RecordsOwn, Returns, Leave, OutstaysLease, Overrun,
          mutexVars
    <3> QED BY <3>1 DEF Places
  <2>2. reply'[r] = reply[r]
    BY <2>1, <1>4
    DEF RequestStep, Arrive, GetsLease, GoesUnleased, IsTurnedAway,
        ReadState, ReadFails, IsAnswered, AgentFails, FoldsPending,
        DrainFails, Counts, Judges, RecordsOwn, Returns, OutstaysLease,
        turnVars
  <2> QED BY <1>4, <2>1, <2>2 DEF Replied
<1> QED BY <1>2, <1>3, <1>4

LEMMA StampedStep ==
    ASSUME MutexInv, TurnTypes, Places, Progress, Queued, Stamped,
           NEW r \in Requests, RequestStep(r)
    PROVE  Stamped'
<1>t. /\ DOMAIN rows = 1 .. Len(rows) /\ stamp \in Nat
      /\ \A i \in DOMAIN rows : rows[i].by \in Requests /\ rows[i].ts \in Nat
      /\ \A q \in Requests : turn[q].ts \in Nat
  BY RowOwners DEF Turns, TurnTypes
<1>1. stamp' = stamp \/ stamp' = stamp + 1
  BY DEF RequestStep, Arrive, GetsLease, GoesUnleased, IsTurnedAway,
         IsRegistered, ReadState, ReadFails, IsAnswered, AgentFails,
         FoldsPending, DrainFails, Counts, Judges, RecordsOwn, Returns,
         OutstaysLease, turnVars
<1>2. \A n \in Nat : n < stamp => n < stamp'
  BY <1>t, <1>1
<1>3. \A q \in Requests : step'[q] = "recording" => turn'[q].ts < stamp'
  <2>1. SUFFICES ASSUME NEW q \in Requests, step'[q] = "recording"
                 PROVE  turn'[q].ts < stamp'
    OBVIOUS
  <2>2. CASE q # r
    <3>1. step'[q] = step[q] /\ turn'[q] = turn[q]
      BY <2>2, OthersStay
    <3> QED BY <1>t, <1>2, <2>1, <3>1 DEF Stamped
  <2>3. CASE q = r /\ Judges(r)
    <3>1. PICK t \in Judgements(r) : turn' = [turn EXCEPT ![r] = t]
      BY <2>3 DEF Judges
    <3>2. t.ts = stamp
      BY JudgementsAreTurns DEF TurnTypes
    <3>3. stamp' = stamp + 1
      BY <2>3 DEF Judges
    <3> QED BY <1>t, <2>3, <3>1, <3>2, <3>3 DEF TurnTypes
  <2>4. CASE q = r /\ ~Judges(r)
    <3>1. step[r] = "recording" /\ turn'[r] = turn[r]
      BY <2>1, <2>4
      DEF RequestStep, Arrive, GetsLease, GoesUnleased, IsTurnedAway,
          IsRegistered, ReadState, ReadFails, IsAnswered, AgentFails,
          FoldsPending, DrainFails, Counts, RecordsOwn, Returns,
          OutstaysLease, Forget, Reset, Goto, AfterFold, turnVars,
          TurnTypes
    <3> QED BY <1>t, <1>2, <2>4, <3>1 DEF Stamped
  <2> QED BY <2>2, <2>3, <2>4
<1>4. \A i \in DOMAIN rows :
        phase'[rows[i].by] # "registered" => rows[i].ts < stamp'
  BY <1>t, <1>2, RegisteredStep DEF Stamped
<1>5. ASSUME NEW row \in Rows, rows' = Append(rows, row),
             phase'[row.by] # "registered" => row.ts < stamp'
      PROVE  Stamped'
  <2>1. RowsGrow(row)
    BY <1>5, GrowthOfRows
  <2>2. \A i \in DOMAIN rows' :
            phase'[rows'[i].by] # "registered" => rows'[i].ts < stamp'
    BY <1>4, <1>5, <2>1 DEF RowsGrow
  <2> QED BY <1>3, <2>2 DEF Stamped
<1>6. CASE UNCHANGED rows
  BY <1>3, <1>4, <1>6 DEF Stamped
<1>7. CASE Counts(r)
  <2>1. PICK c \in Requests, t \in Turns, row \in Rows :
                IsCounted(c, r) /\ Recording(r, c, t, row)
    BY <1>7, CountsRecords
  <2>2. Handed(c, r) /\ UNCHANGED phase
    BY <2>1 DEF IsCounted, Handed, mutexVars
  <2>3. phase'[row.by] = "registered"
    BY <2>1, <2>2 DEF Queued, Recording
  <2> QED BY <1>5, <1>6, <2>1, <2>3 DEF Recording
<1>8. CASE RecordsOwn(r)
  <2>1. PICK row \in Rows : Recording(r, r, turn[r], row)
    BY <1>8, OwnRecords
  <2>2. turn[r].ts < stamp /\ stamp' = stamp
    BY <1>8 DEF RecordsOwn, Stamped
  <2> QED BY <1>5, <1>6, <2>1, <2>2 DEF Recording
<1> QED BY <1>6, <1>7, <1>8, RowsStay

(* While no lease was overrun, the request on its way through its turn     *)
(* holds the lease, and nobody else does.                                  *)
LEMMA HolderIsOne ==
    ASSUME MutexInv, TurnTypes, Places,
           "late" \notin faults, "fallback" \notin faults,
           NEW r \in Requests, r \notin Messageless,
           step[r] \notin {"new", "gone"}
    PROVE  /\ phase[r] = "holding"
           /\ \A h \in Requests : phase[h] = "holding" => h = r
<1>1. phase[r] = "holding"
  BY DEF MutexInv, MutexTypeOK, Phases, Places
<1>2. \A h \in Requests : phase[h] = "holding" => Protected(h, Store)
  BY DEF Inside, Protected, Places, MutexInv, MutexTypeOK, TurnTypes
<1>3. Store \in Stores
  BY TurnAssumption
<1> QED BY <1>1, <1>2, <1>3 DEF MutexInv, MutualExclusion

LEMMA ReplyStays ==
    ASSUME MutexInv, TurnTypes, Places, NEW r \in Requests, RequestStep(r),
           NEW p \in Requests,
           phase[p] = "registered" \/ step[p] \in Recorded
    PROVE  reply'[p] = reply[p]
<1>1. CASE p # r
  BY <1>1, OthersStay
<1>2. CASE p = r
  <2> USE DEF MutexInv, MutexTypeOK, TurnTypes
  <2>1. ~IsRegistered(r) /\ ~AgentFails(r) /\ ~RecordsOwn(r)
    BY <1>2 DEF IsRegistered, Register, AgentFails, RecordsOwn, Places,
                Recorded
  <2> QED BY <1>2, <2>1
      DEF RequestStep, Arrive, GetsLease, GoesUnleased, IsTurnedAway,
          ReadState, ReadFails, IsAnswered, FoldsPending, DrainFails,
          Counts, Judges, Returns, OutstaysLease, turnVars
<1> QED BY <1>1, <1>2

LEMMA HitsGrow ==
    ASSUME TurnTypes, NEW row \in Rows, RowsGrow(row)
    PROVE  /\ IsFiniteSet(Hits) /\ Cardinality(Hits) \in Nat
           /\ Hits \subseteq 1 .. Len(rows)
           /\ Cardinality(Hits') = Cardinality(Hits) + One(IsHit(row))
           /\ \A k \in 1 .. Len(rows) : k \in Hits' <=> k \in Hits
           /\ Hits' \subseteq 1 .. Len(rows) + 1
<1> DEFINE n == Len(rows)
<1>1. /\ Hits = {i \in 1 .. n : IsHit(rows[i])}
      /\ Hits' = {i \in 1 .. n + 1 : IsHit(rows'[i])}
  BY DEF Hits, IsHit, RowsGrow
<1>2. /\ n \in Nat /\ rows'[n + 1] = row
      /\ \A i \in 1 .. n : rows'[i] = rows[i]
  BY DEF RowsGrow
<1>3. IsFiniteSet(1 .. n) /\ Hits \in SUBSET (1 .. n)
  BY <1>1, <1>2, FS_Interval
<1>4. IsFiniteSet(Hits) /\ Cardinality(Hits) \in Nat
  BY <1>3, FS_Subset, FS_CardinalityType
<1> HIDE DEF n
<1>5. /\ 1 .. n + 1 = (1 .. n) \cup {n + 1}
      /\ n + 1 \notin 1 .. n
  BY <1>2
<1>6. CASE IsHit(row)
  <2>1. Hits' = Hits \cup {n + 1} /\ n + 1 \notin Hits
    BY <1>1, <1>2, <1>5, <1>6
  <2>2. Cardinality(Hits') = Cardinality(Hits) + 1
    BY <1>4, <2>1, FS_AddElement
  <2> QED BY <1>3, <1>4, <1>5, <1>6, <2>1, <2>2 DEF One, n
<1>7. CASE ~IsHit(row)
  <2>1. Hits' = Hits
    BY <1>1, <1>2, <1>5, <1>7
  <2> QED BY <1>3, <1>4, <1>5, <1>7, <2>1 DEF One, n
<1> QED BY <1>6, <1>7

(* What is known of a row that is written while nothing is wrong.          *)
Inserts(r, c, t, row) ==
    /\ Recording(r, c, t, row) /\ RowsGrow(row)
    /\ UNCHANGED phase
    /\ phase[r] = "holding"
    /\ \A h \in Requests : phase[h] = "holding" => h = r
    /\ IsState(memory[r])
    /\ memory[r].turns = Len(rows)
    /\ memory[r].security_hits = Cardinality(Hits)
    /\ memory[r].quarantined <=>
          \E i \in DOMAIN rows : rows[i].action = "quarantine"
    /\ reply'[c] = "concurrent" \/ reply'[c] = row.action

LEMMA CalmWrites ==
    ASSUME MutexInv, TurnTypes, Places, Progress, Queued, Replied,
           Tallied, Calm', NEW r \in Requests, RequestStep(r),
           Counts(r) \/ RecordsOwn(r)
    PROVE  /\ Calm
           /\ \E c \in Requests, t \in Turns, row \in Rows :
                 Inserts(r, c, t, row)
<1>1. Calm
  BY FaultsStay DEF Calm, Without
<1>2. step[r] \in Counting \cup {"recording"}
  BY DEF Counts, RecordsOwn, Counting
<1>3. r \notin Messageless
  BY <1>1, <1>2 DEF Calm, Without, Places, Counting
<1>4. /\ phase[r] = "holding"
      /\ \A h \in Requests : phase[h] = "holding" => h = r
  BY <1>1, <1>2, <1>3, HolderIsOne DEF Calm, Without, Counting
<1>5. /\ IsState(memory[r])
      /\ memory[r].turns = Len(rows)
      /\ memory[r].security_hits = Cardinality(Hits)
      /\ memory[r].quarantined <=>
            \E i \in DOMAIN rows : rows[i].action = "quarantine"
  BY <1>1, <1>2, <1>4 DEF Tallied, Counting, TurnTypes
<1>6. ~Fails("write")
  BY DEF Fails, Calm, Without
<1>7. CASE Counts(r)
  <2>1. PICK c \in Requests, t \in Turns, row \in Rows :
                IsCounted(c, r) /\ Recording(r, c, t, row)
    BY <1>7, CountsRecords
  <2>2. RowsGrow(row)
    BY <1>6, <2>1, GrowthOfRows DEF Recording
  <2>3. UNCHANGED <<phase, reply>> /\ Handed(c, r)
    BY <2>1 DEF IsCounted, mutexVars, Handed
  <2>4. reply'[c] = "concurrent"
    BY <2>3 DEF Queued, Replied
  <2>5. Inserts(r, c, t, row)
    BY <1>4, <1>5, <2>1, <2>2, <2>3, <2>4 DEF Inserts
  <2> QED BY <1>1, <2>5
<1>8. CASE RecordsOwn(r)
  <2>1. PICK row \in Rows : Recording(r, r, turn[r], row)
    BY <1>8, OwnRecords
  <2>2. RowsGrow(row)
    BY <1>6, <2>1, GrowthOfRows DEF Recording
  <2>3. turn[r] \in Turns /\ UNCHANGED phase
        /\ reply'[r] = ActionFor(turn[r], memory[r])
    BY <1>8, OwnRecords DEF IsOwn, mutexVars
  <2>4. reply'[r] = row.action
    BY <2>1, <2>3 DEF Recording
  <2>5. Inserts(r, r, turn[r], row)
    BY <1>4, <1>5, <2>1, <2>2, <2>3, <2>4 DEF Inserts
  <2> QED BY <1>1, <2>3, <2>5
<1> QED BY <1>7, <1>8

LEMMA TalliedStep ==
    ASSUME MutexInv, TurnTypes, Places, Progress, Queued, Replied,
           Tallied, NEW r \in Requests, RequestStep(r)
    PROVE  Tallied'
<1> SUFFICES ASSUME Calm', NEW h \in Requests, phase'[h] = "holding",
                    step'[h] # "reading"
             PROVE  /\ memory'[h].turns = Len(rows')
                    /\ memory'[h].security_hits = Cardinality(Hits')
                    /\ memory'[h].quarantined <=>
                          \E i \in DOMAIN rows' :
                                rows'[i].action = "quarantine"
  BY DEF Tallied
<1>1. Calm
  BY FaultsStay DEF Calm, Without
<1>2. CASE Counts(r) \/ RecordsOwn(r)
  <2>1. PICK c \in Requests, t \in Turns, row \in Rows : Inserts(r, c, t, row)
    BY <1>2, CalmWrites
  <2>2. h = r
    BY <2>1 DEF Inserts
  <2>3. /\ memory'[r].turns = memory[r].turns + 1
        /\ memory'[r].security_hits =
              memory[r].security_hits + One(IsHit(row))
        /\ memory'[r].quarantined <=>
              memory[r].quarantined \/ row.action = "quarantine"
    BY <2>1 DEF Inserts, Recording
  <2>4. Cardinality(Hits') = Cardinality(Hits) + One(IsHit(row))
    BY <2>1, HitsGrow DEF Inserts
  <2>5. (\E i \in DOMAIN rows' : rows'[i].action = "quarantine") <=>
        \/ \E i \in DOMAIN rows : rows[i].action = "quarantine"
        \/ row.action = "quarantine"
    BY <2>1 DEF Inserts, RowsGrow
  <2>6. Len(rows') = Len(rows) + 1
    BY <2>1 DEF Inserts, RowsGrow
  <2> QED BY <2>1, <2>2, <2>3, <2>4, <2>5, <2>6 DEF Inserts
<1>3. CASE ~Counts(r) /\ ~RecordsOwn(r)
  <2>1. rows' = rows /\ Hits' = Hits
    BY <1>3, RowsStay DEF Hits
  <2>2. CASE ReadState(r) /\ h = r
    <3>1. memory'[r] = StateFromRows(OldestFirst, 0)
      BY <2>2 DEF ReadState, TurnTypes
    <3> QED BY <2>1, <2>2, <3>1, ReadTallies DEF TurnTypes
  <2>3. CASE ~(ReadState(r) /\ h = r)
    <3>1. memory'[h] = memory[h] /\ phase[h] = "holding"
          /\ step[h] # "reading"
      <4>1. CASE h # r
        BY <4>1, OthersStay
      <4>2. CASE h = r
        <5> USE DEF MutexInv, MutexTypeOK, TurnTypes
        <5>1. ~ReadFails(r)
          BY DEF ReadFails, Fails, Calm, Without
        <5>2. ~GetsLease(r)
          BY <4>2 DEF GetsLease, Goto
        <5>3. ~Arrive(r) /\ ~IsTurnedAway(r) /\ ~IsRegistered(r)
              /\ ~Returns(r) /\ ~OutstaysLease(r)
          <6>1. ~Arrive(r) /\ ~IsTurnedAway(r) /\ ~IsRegistered(r)
            BY <4>2 DEF Arrive, Ask, IsTurnedAway, Refuse, IsRegistered,
                        Register
          <6>2. ~Returns(r)
            BY <4>2 DEF Returns, Leave, mutexVars, Places
          <6>3. ~OutstaysLease(r)
            BY <4>2 DEF OutstaysLease, Overrun
          <6> QED BY <6>1, <6>2, <6>3
        <5>4. ~GoesUnleased(r)
          BY DEF GoesUnleased, Fails, Calm, Without
        <5> QED BY <1>3, <2>3, <4>2, <5>1, <5>2, <5>3, <5>4
            DEF RequestStep, IsAnswered, AgentFails, FoldsPending, Drain,
                DrainFails, DrainLost, Judges, mutexVars
      <4> QED BY <4>1, <4>2
    <3> QED BY <1>1, <2>1, <3>1 DEF Tallied
  <2> QED BY <2>2, <2>3
<1> QED BY <1>2, <1>3

LEMMA IndexesStep ==
    ASSUME MutexInv, TurnTypes, Places, Progress, Queued, Replied,
           Tallied, IndexesRunOn, NEW r \in Requests, RequestStep(r)
    PROVE  IndexesRunOn'
<1> SUFFICES ASSUME Calm'
             PROVE  \A i \in DOMAIN rows' : rows'[i].turn_index = i
  BY DEF IndexesRunOn, Calm
<1>1. \A i \in DOMAIN rows : rows[i].turn_index = i
  BY FaultsStay DEF Calm, Without, IndexesRunOn
<1>2. CASE Counts(r) \/ RecordsOwn(r)
  <2>1. PICK c \in Requests, t \in Turns, row \in Rows : Inserts(r, c, t, row)
    BY <1>2, CalmWrites
  <2>2. row.turn_index = Len(rows) + 1
    BY <2>1 DEF Inserts, Recording
  <2> QED BY <1>1, <2>1, <2>2 DEF Inserts, RowsGrow
<1>3. CASE ~Counts(r) /\ ~RecordsOwn(r)
  BY <1>1, <1>3, RowsStay
<1> QED BY <1>2, <1>3

LEMMA BurstStep ==
    ASSUME MutexInv, TurnTypes, Places, Progress, Queued, Replied,
           Tallied, BurstReachesLock, NEW r \in Requests, RequestStep(r)
    PROVE  BurstReachesLock'
<1> DEFINE Full(i) ==
        Cardinality({k \in Hits : k =< i}) >= SecurityQuarantine
<1> SUFFICES ASSUME Calm', NEW i \in DOMAIN rows', Full(i)'
             PROVE  rows'[i].action = "quarantine"
  BY DEF BurstReachesLock, Calm
<1>1. \A j \in DOMAIN rows : Full(j) => rows[j].action = "quarantine"
  BY FaultsStay DEF Calm, Without, BurstReachesLock
<1>2. CASE Counts(r) \/ RecordsOwn(r)
  <2>1. PICK c \in Requests, t \in Turns, row \in Rows : Inserts(r, c, t, row)
    BY <1>2, CalmWrites
  <2>2. RowsGrow(row)
    BY <2>1 DEF Inserts
  <2>3. /\ Cardinality(Hits') = Cardinality(Hits) + One(IsHit(row))
        /\ Hits \subseteq 1 .. Len(rows)
        /\ \A k \in 1 .. Len(rows) : k \in Hits' <=> k \in Hits
        /\ Hits' \subseteq 1 .. Len(rows) + 1
    BY <2>2, HitsGrow
  <2>4. CASE i \in 1 .. Len(rows)
    <3>0. Len(rows) \in Nat /\ i \in DOMAIN rows /\ rows'[i] = rows[i]
      BY <2>2, <2>4 DEF RowsGrow
    <3>1. \A k \in 1 .. Len(rows) + 1 : k =< i => k \in 1 .. Len(rows)
      BY <2>4, <3>0
    <3>2. \A k : k \in Hits' /\ k =< i <=> k \in Hits /\ k =< i
      BY <2>3, <3>1
    <3>3. {k \in Hits' : k =< i} = {k \in Hits : k =< i}
      BY <3>2
    <3> QED BY <1>1, <3>0, <3>3
  <2>5. CASE i = Len(rows) + 1
    <3>0. \A k \in 1 .. Len(rows) + 1 : k =< i
      BY <2>2, <2>5 DEF RowsGrow
    <3>1. {k \in Hits' : k =< i} = Hits'
      BY <2>3, <3>0
    <3>2. One(IsHit(row)) = One(IsSecurityHit(t))
      BY <2>1 DEF Inserts, Recording, One
    <3>3. SecNow(t, memory[r]) >= SecurityQuarantine
      BY <2>1, <2>3, <3>1, <3>2 DEF SecNow, Inserts
    <3>4. ActionFor(t, memory[r]) = "quarantine"
      BY <3>3 DEF ActionFor, Locks
    <3> QED BY <2>1, <2>2, <2>5, <3>4 DEF Inserts, Recording, RowsGrow
  <2> QED BY <2>2, <2>4, <2>5 DEF RowsGrow
<1>3. CASE ~Counts(r) /\ ~RecordsOwn(r)
  <2>1. rows' = rows /\ Hits' = Hits
    BY <1>3, RowsStay DEF Hits
  <2> QED BY <1>1, <2>1
<1> QED BY <1>2, <1>3

LEMMA LockedStep ==
    ASSUME MutexInv, TurnTypes, Places, Progress, Queued, RowsPlaced,
           Replied, Tallied, LockedSessionAnswersWithLock,
           NEW r \in Requests, RequestStep(r)
    PROVE  LockedSessionAnswersWithLock'
<1> DEFINE Answered(p) == reply[p] \in {"quarantine", "concurrent"}
<1> SUFFICES ASSUME Calm', NEW i \in DOMAIN rows', NEW j \in DOMAIN rows',
                    i < j, rows'[i].action = "quarantine"
             PROVE  /\ rows'[j].action = "quarantine"
                    /\ reply'[rows'[j].by] \in {"quarantine", "concurrent"}
  BY DEF LockedSessionAnswersWithLock, Calm
<1>t. \A k \in DOMAIN rows : rows[k].by \in Requests
  BY RowOwners
<1>1. \A k, l \in DOMAIN rows :
        k < l /\ rows[k].action = "quarantine"
            => /\ rows[l].action = "quarantine"
               /\ reply[rows[l].by] \in {"quarantine", "concurrent"}
  BY FaultsStay DEF Calm, Without, LockedSessionAnswersWithLock
<1>2. \A k \in DOMAIN rows : reply'[rows[k].by] = reply[rows[k].by]
  BY <1>t, ReplyStays DEF RowsPlaced
<1>3. CASE Counts(r) \/ RecordsOwn(r)
  <2>1. PICK c \in Requests, t \in Turns, row \in Rows : Inserts(r, c, t, row)
    BY <1>3, CalmWrites
  <2>2. RowsGrow(row)
    BY <2>1 DEF Inserts
  <2>3. CASE j \in 1 .. Len(rows)
    <3>1. i \in 1 .. Len(rows)
      BY <2>2, <2>3 DEF RowsGrow
    <3> QED BY <1>1, <1>2, <2>2, <2>3, <3>1 DEF RowsGrow
  <2>4. CASE j = Len(rows) + 1
    <3>1. i \in 1 .. Len(rows)
      BY <2>2, <2>4 DEF RowsGrow
    <3>2. memory[r].quarantined
      BY <2>1, <2>2, <3>1 DEF Inserts, RowsGrow
    <3>3. ActionFor(t, memory[r]) = "quarantine"
      BY <3>2 DEF ActionFor, Locks
    <3> QED BY <2>1, <2>2, <2>4, <3>3 DEF Inserts, Recording, RowsGrow
  <2> QED BY <2>2, <2>3, <2>4 DEF RowsGrow
<1>4. CASE ~Counts(r) /\ ~RecordsOwn(r)
  <2>1. rows' = rows
    BY <1>4, RowsStay
  <2> QED BY <1>1, <1>2, <2>1
<1> QED BY <1>3, <1>4

(* A row is kept.                                                          *)
LEMMA RowStays ==
    ASSUME TurnTypes, Progress, MutexInv, NEW r \in Requests, RequestStep(r),
           NEW i \in DOMAIN rows
    PROVE  i \in DOMAIN rows' /\ rows'[i] = rows[i]
<1>1. CASE UNCHANGED rows
  BY <1>1
<1>2. ASSUME NEW row \in Rows, rows' = Append(rows, row)
      PROVE  i \in DOMAIN rows' /\ rows'[i] = rows[i]
  BY <1>2, GrowthOfRows DEF RowsGrow
<1> QED BY <1>1, <1>2, RowsStay, CountsRecords, OwnRecords DEF Recording

LEMMA NoneForgottenStep ==
    ASSUME MutexInv, TurnTypes, Places, Progress, Queued, RowsPlaced,
           Stamped, NoneForgotten, NEW r \in Requests, RequestStep(r)
    PROVE  NoneForgotten'
<1>b. \A i \in DOMAIN rows' : rows'[i].by \in Requests
  <2>1. rows' \in Seq(Rows)
    BY TypesStep DEF TurnTypes
  <2>2. \A i \in DOMAIN rows' : rows'[i] \in Rows
    BY <2>1, ElementOfSeq, LenProperties
  <2> QED BY <2>2 DEF Rows
<1> SUFFICES ASSUME Whole'
             PROVE
        /\ \A p \in Requests : Store \in copies'[p] =>
              Waits(p)' \/ HasRow(p)' \/ \E h \in Requests : Owed(p, h)'
        /\ \A i \in DOMAIN rows', p, b \in Requests :
              /\ rows'[i].by = b /\ b \notin Messageless
              /\ phase'[b] # "registered"
              /\ step'[b] \in {"recounting", "leaving", "gone"}
              /\ Store \in copies'[p] /\ written'[p] =< rows'[i].ts
              => ~Waits(p)' /\ (HasRow(p)' \/ Owed(p, b)')
  BY <1>b DEF NoneForgotten, Owed, OwedBy
<1>w. Whole /\ ~Fails("write") /\ ~Fails("drain") /\ ~Fails("late")
      /\ ~Fails("fallback")
  BY FaultsStay DEF Whole, Without, Fails
<1>t. \A i \in DOMAIN rows : rows[i].by \in Requests /\ rows[i].ts \in Nat
  BY RowOwners
<1>s. Store \in Stores /\ pending[Store] \in Seq(Requests)
  BY TurnAssumption DEF MutexInv, MutexTypeOK
<1>c. /\ \A p \in Requests : Store \in copies[p] => phase[p] = "registered"
      /\ \A p \in Requests : ~(p = r /\ Registers(r)) => copies'[p] = copies[p]
  <2>1. \A p \in Requests : Store \in copies[p] => phase[p] = "registered"
    BY DEF Queued
  <2>2. ASSUME NEW p \in Requests, ~(p = r /\ Registers(r))
        PROVE  copies'[p] = copies[p]
    BY <2>2, OthersStay, EffectsOnMessages DEF Drains, Loses, LeavesAlone
  <2> QED BY <2>1, <2>2
<1>1. /\ \A p \in Requests : Store \in copies[p] =>
            Waits(p) \/ HasRow(p) \/ \E h \in Requests : Owed(p, h)
      /\ \A i \in DOMAIN rows, p \in Requests :
            /\ rows[i].by \notin Messageless
            /\ phase[rows[i].by] # "registered"
            /\ step[rows[i].by] \in {"recounting", "leaving", "gone"}
            /\ Store \in copies[p] /\ written[p] =< rows[i].ts
            => ~Waits(p) /\ (HasRow(p) \/ Owed(p, rows[i].by))
  BY <1>w DEF NoneForgotten
\* A row is kept, and what was owed is owed or has its row.
<1>2. ASSUME NEW p \in Requests, HasRow(p) PROVE HasRow(p)'
  BY <1>2, RowStays DEF HasRow, RowOf
<1>3. ASSUME NEW p \in Requests, NEW h \in Requests, Owed(p, h)
      PROVE  Owed(p, h)' \/ HasRow(p)'
  <2>1. CASE h # r
    <3>1. /\ drained'[h] = drained[h] /\ step'[h] = step[h]
          /\ counted'[h] = counted[h]
      BY <2>1, OthersStay
    <3> QED BY <1>3, <3>1 DEF Owed, OwedBy
  <2>2. CASE h = r
    <3>1. step[r] \in Counting
      BY <1>3, <2>2 DEF Owed, OwedBy
    <3>2. Counts(r)
      <4> USE <3>1 DEF Counting
      <4>1. r \notin Messageless /\ phase[r] \in {"holding", "late"}
        BY DEF Places, MutexInv, MutexTypeOK, Phases
      <4> QED BY <1>w, <4>1
          DEF RequestStep, Arrive, Ask, GetsLease, Take, GoesUnleased,
              IsTurnedAway, Refuse, IsRegistered, Register, ReadState,
              ReadFails, IsAnswered, AgentFails, FoldsPending, DrainFails,
              Judges, RecordsOwn, Returns, OutstaysLease
    <3>3. PICK c \in Requests, t \in Turns, row \in Rows :
                IsCounted(c, r) /\ Recording(r, c, t, row)
      BY <3>2, CountsRecords
    <3>4. RowsGrow(row) /\ row.by = c
      BY <1>w, <3>3, GrowthOfRows DEF Recording
    <3>5. PICK k \in DOMAIN drained[r] :
                k > counted[r] /\ drained[r][k] = p
      BY <1>3, <2>2 DEF Owed, OwedBy
    <3>6. /\ k \in Nat /\ counted[r] \in Nat /\ Len(drained[r]) \in Nat
          /\ k =< Len(drained[r])
      <4>1. drained[r] \in Seq(Requests) /\ counted[r] \in Nat
        BY DEF MutexInv, MutexTypeOK, TurnTypes
      <4>2. DOMAIN drained[r] = 1 .. Len(drained[r]) /\ Len(drained[r]) \in Nat
        BY <4>1, LenProperties
      <4> QED BY <3>5, <4>1, <4>2
    <3>7. CASE k = counted[r] + 1
      <4>1. c = p
        BY <3>3, <3>5, <3>7 DEF IsCounted
      <4> QED BY <3>4, <4>1 DEF RowsGrow, HasRow, RowOf
    <3>8. CASE k # counted[r] + 1
      <4>1. k > counted[r] + 1 /\ Len(drained[r]) - counted[r] - 1 > 0
        BY <3>5, <3>6, <3>8
      <4>2. step'[r] = AfterFold(r, Len(drained[r]) - counted[r] - 1)
        BY <3>2 DEF Counts, Goto, TurnTypes
      <4>3. step'[r] \in Counting
        BY <4>1, <4>2 DEF AfterFold, Counting
      <4>4. drained' = drained /\ counted'[r] = counted[r] + 1
        BY <3>3 DEF IsCounted, mutexVars
      <4> QED BY <2>2, <3>5, <4>1, <4>3, <4>4 DEF Owed, OwedBy
    <3> QED BY <3>7, <3>8
  <2> QED BY <2>1, <2>2
\* What waited waits, or was drained and is owed.
<1>4. ASSUME NEW p \in Requests, Waits(p)
      PROVE  Waits(p)' \/ (Drains(r) /\ Owed(p, r)')
  <2>p. IsOn(p, pending[Store])
    BY <1>4 DEF Waits, WaitsAt, IsOn
  <2>1. CASE LeavesAlone(r)
    BY <1>s, <1>4, <2>1 DEF LeavesAlone, Waits, WaitsAt
  <2>2. CASE Registers(r)
    <3>1. IsOn(p, Append(pending[Store], r))
      BY <1>s, <2>p, AppendFacts
    <3>2. IsOn(p, pending'[Store])
      BY <1>s, <2>p, <2>2, <3>1 DEF Registers
    <3> QED BY <3>2 DEF Waits, WaitsAt, IsOn
  <2>3. CASE Loses(r)
    BY <2>3 DEF Loses, Whole, Without
  <2>4. CASE Drains(r)
    <3>1. at[r] = Store /\ drained[r] \in Seq(Requests)
      BY <1>w, <2>4
      DEF Drains, Places, Whole, Without, MutexInv, MutexTypeOK
    <3>2. PICK k \in DOMAIN pending[Store] : pending[Store][k] = p
      BY <1>4 DEF Waits, WaitsAt
    <3>3. /\ drained'[r] = drained[r] \o pending[Store]
          /\ counted'[r] = Len(drained[r])
      BY <2>4, <3>1 DEF Drains, Progress
    <3>4. step'[r] \in Counting
      <4>1. Len(pending[Store]) > 0
        BY <1>s, <3>2, LenProperties
      <4> QED BY <2>4, <3>1, <4>1 DEF Drains, AfterFold, Counting
    <3>5. PICK j : j = Len(drained[r]) + k
      OBVIOUS
    <3>6. /\ j \in DOMAIN drained'[r] /\ j > counted'[r]
          /\ drained'[r][j] = p
      <4> DEFINE d == drained[r]
                 q == pending[Store]
      <4>1. /\ d \in Seq(Requests) /\ q \in Seq(Requests)
            /\ k \in DOMAIN q /\ q[k] = p
        BY <1>s, <3>1, <3>2
      <4> HIDE DEF d, q
      <4>2. /\ Len(d) + k \in DOMAIN (d \o q) /\ Len(d) + k > Len(d)
            /\ (d \o q)[Len(d) + k] = p
        BY <4>1, ConcatFacts
      <4> QED BY <3>3, <3>5, <4>2 DEF d, q
    <3>7. Owed(p, r)'
      BY <3>4, <3>6 DEF Owed, OwedBy
    <3> QED BY <2>4, <3>7
  <2> QED BY <2>1, <2>2, <2>3, <2>4, EffectsOnMessages
<1>5. ASSUME NEW p \in Requests, Store \in copies'[p]
      PROVE  Waits(p)' \/ HasRow(p)' \/ \E h \in Requests : Owed(p, h)'
  <2>1. CASE Store \in copies[p]
    <3>1. CASE Waits(p)
      BY <1>4, <3>1
    <3>2. CASE HasRow(p)
      BY <1>2, <3>2
    <3>3. ASSUME NEW h \in Requests, Owed(p, h)
          PROVE  HasRow(p)' \/ \E g \in Requests : Owed(p, g)'
      BY <1>3, <3>3
    <3> QED BY <1>1, <2>1, <3>1, <3>2, <3>3
  <2>2. CASE Store \notin copies[p]
    <3>1. p = r /\ Registers(r)
      BY <1>5, <1>c, <2>2
    <3>2. pending'[Store] = Append(pending[Store], r)
      BY <1>s, <1>5, <3>1 DEF Registers
    <3>3. IsOn(r, Append(pending[Store], r))
      BY <1>s, AppendFacts
    <3> QED BY <3>1, <3>2, <3>3 DEF Waits, WaitsAt, IsOn
  <2> QED BY <2>1, <2>2
<1>6. ASSUME NEW i \in DOMAIN rows', NEW p \in Requests, NEW b \in Requests,
             rows'[i].by = b, b \notin Messageless,
             phase'[b] # "registered",
             step'[b] \in {"recounting", "leaving", "gone"},
             Store \in copies'[p], written'[p] =< rows'[i].ts
      PROVE  ~Waits(p)' /\ (HasRow(p)' \/ Owed(p, b)')
  <2>1. phase[b] # "registered"
    BY <1>6, RegisteredStep
  <2>2. ASSUME i \in DOMAIN rows, rows'[i] = rows[i],
               Store \notin copies[p]
        PROVE  FALSE
    <3>1. p = r /\ Registers(r)
      BY <1>6, <1>c, <2>2
    <3>2. written'[p] = stamp /\ stamp \in Nat
      BY <3>1 DEF Registers, TurnTypes
    <3>3. rows[i].ts < stamp /\ rows[i].ts \in Nat
      BY <1>6, <1>t, <2>1, <2>2 DEF Stamped
    <3> QED BY <1>6, <2>2, <3>2, <3>3
  <2>3. ASSUME i \in DOMAIN rows, rows'[i] = rows[i],
               Store \in copies[p]
        PROVE  ~Waits(p)' /\ (HasRow(p)' \/ Owed(p, b)')
    <3>0. phase[p] = "registered"
      BY <1>c, <2>3
    <3>1. written'[p] = written[p]
      <4>1. CASE p # r
        BY <4>1, OthersStay
      <4>2. CASE p = r
        BY <3>0, <4>2
        DEF RequestStep, Arrive, GetsLease, GoesUnleased, IsTurnedAway,
            IsRegistered, Register, ReadState, ReadFails, IsAnswered,
            AgentFails, FoldsPending, DrainFails, Counts, Judges,
            RecordsOwn, Returns, OutstaysLease, turnVars
      <4> QED BY <4>1, <4>2
    <3>2. CASE step[b] \in {"recounting", "leaving", "gone"}
      <4>1. ~Waits(p) /\ (HasRow(p) \/ Owed(p, b))
        BY <1>1, <1>6, <2>1, <2>3, <3>1, <3>2
      <4>2. ~Waits(p)'
        BY <3>0, <4>1, WaitsStep DEF Registers
      <4> QED BY <1>2, <1>3, <4>1, <4>2
    <3>3. CASE step[b] \notin {"recounting", "leaving", "gone"}
      <4>1. step[b] = "refolding" /\ b = r
        <5>1. step[b] \in Recorded
          BY <1>6, <2>1, <2>3 DEF RowsPlaced
        <5>2. step[b] = "refolding"
          BY <3>3, <5>1 DEF Recorded
        <5> QED BY <1>6, <5>2, OthersStay
      <4>2. FoldsPending(r)
        <5>1. phase[r] \in {"holding", "late"}
          BY <1>6, <4>1 DEF Places, MutexInv, MutexTypeOK, Phases
        <5> QED BY <1>w, <1>6, <4>1, <5>1
            DEF RequestStep, Arrive, Ask, GetsLease, Take, GoesUnleased,
                IsTurnedAway, Refuse, IsRegistered, Register, ReadState,
                ReadFails, IsAnswered, AgentFails, DrainFails, Counts,
                Judges, RecordsOwn, Returns, OutstaysLease
      <4>3. pending'[Store] = <<>>
        <5>1. Drain(r)
          BY <1>6, <4>1, <4>2 DEF FoldsPending
        <5>2. at[r] = Store
          BY <1>w, <1>6, <4>1, <5>1 DEF Drain, Places, Whole, Without
        <5> QED BY <1>s, <5>1, <5>2 DEF Drain, MutexInv, MutexTypeOK
      <4>4. ~Waits(p)'
        BY <4>3 DEF Waits, WaitsAt
      <4>5. \A h \in Requests : ~Owed(p, h)
        <5>1. "late" \notin faults /\ "fallback" \notin faults
          BY <1>w DEF Whole, Without
        <5>2. \A h \in Requests : phase[h] = "holding" => h = r
          BY <1>6, <4>1, <5>1, HolderIsOne
        <5>3. ASSUME NEW h \in Requests, Owed(p, h) PROVE FALSE
          <6>1. step[h] \in Counting
            BY <5>3 DEF Owed, OwedBy
          <6>2. h \notin Messageless
            BY <6>1 DEF Places
          <6>3. phase[h] = "holding"
            BY <5>1, <6>1, <6>2, HolderIsOne DEF Counting
          <6> QED BY <4>1, <5>2, <6>1, <6>3 DEF Counting
        <5> QED BY <5>3
      <4>6. Waits(p) \/ HasRow(p)
        BY <1>1, <2>3, <4>5
      <4> QED BY <1>2, <1>4, <4>1, <4>4, <4>6
    <3> QED BY <3>2, <3>3
  <2>4. CASE UNCHANGED rows
    BY <2>2, <2>3, <2>4
  <2>5. ASSUME NEW row \in Rows, rows' = Append(rows, row),
               phase'[row.by] = "registered" \/ step'[row.by] = "refolding"
        PROVE  ~Waits(p)' /\ (HasRow(p)' \/ Owed(p, b)')
    <3>1. RowsGrow(row)
      BY <2>5, GrowthOfRows
    <3>2. i # Len(rows) + 1
      BY <1>6, <2>5, <3>1 DEF RowsGrow
    <3> QED BY <2>2, <2>3, <3>1, <3>2 DEF RowsGrow
  <2>6. CASE Counts(r)
    <3>1. PICK c \in Requests, t \in Turns, row \in Rows :
                IsCounted(c, r) /\ Recording(r, c, t, row)
      BY <2>6, CountsRecords
    <3>2. Handed(c, r) /\ UNCHANGED phase
      BY <3>1 DEF IsCounted, Handed, mutexVars
    <3>3. phase'[row.by] = "registered"
      BY <3>1, <3>2 DEF Queued, Recording
    <3> QED BY <2>4, <2>5, <3>1, <3>3 DEF Recording
  <2>7. CASE RecordsOwn(r)
    <3>1. PICK row \in Rows : Recording(r, r, turn[r], row)
      BY <2>7, OwnRecords
    <3>2. step'[r] = "refolding" /\ row.by = r
      BY <2>7, <3>1, OwnRecords DEF IsOwn, Recording
    <3> QED BY <2>4, <2>5, <3>1, <3>2 DEF Recording
  <2> QED BY <2>4, <2>6, <2>7, RowsStay
<1> QED BY <1>5, <1>6

(* A process that dies takes its requests with it, and what its table held.*)
LEMMA CrashStep ==
    ASSUME TurnInv, NEW s \in Stores, Crashes(s)
    PROVE  TurnInv'
<1> USE DEF TurnInv
<1> DEFINE Lost(q) == q \in Serving(s)
<1>1. /\ rows' = rows /\ reply' = reply /\ stamp' = stamp
      /\ arrived' = arrived /\ written' = written /\ copies' = copies
      /\ drained' = drained /\ faults \subseteq faults'
      /\ "crash" \in faults' /\ Hits' = Hits
      /\ \A q \in Stores : pending'[q] = <<>> \/ pending'[q] = pending[q]
  BY DEF Crashes, Die, Fails, Hits, MutexInv, MutexTypeOK
<1>2. ASSUME NEW q \in Requests
      PROVE  IF Lost(q)
             THEN /\ step'[q] = "gone" /\ counted'[q] = 0
                  /\ step[q] \notin {"gone"} /\ phase[q] # "registered"
                  /\ q \notin Messageless => phase'[q] = "dead"
                  /\ q \in Messageless
                        => phase'[q] = phase[q] /\ step[q] # "new"
             ELSE /\ step'[q] = step[q] /\ counted'[q] = counted[q]
                  /\ turn'[q] = turn[q] /\ memory'[q] = memory[q]
                  /\ phase'[q] = phase[q] /\ at'[q] = at[q]
  <2>1. CASE Lost(q)
    <3>1. /\ step'[q] = "gone" /\ counted'[q] = 0
          /\ phase'[q] = IF q \in Messageless THEN phase[q] ELSE "dead"
      BY <2>1 DEF Crashes, Die, Forget, Reset
    <3>2. \/ phase[q] \in {"waiting", "refused"}
          \/ step[q] \notin {"new", "gone"}
      BY <2>1 DEF Serving
    <3>3. step[q] # "gone" /\ phase[q] # "registered"
          /\ (q \in Messageless => step[q] # "new")
      BY <3>2 DEF Places
    <3> QED BY <2>1, <3>1, <3>3
  <2>2. CASE ~Lost(q)
    BY <2>2 DEF Crashes, Die, Forget, Reset, TurnTypes, MutexInv, MutexTypeOK
  <2> QED BY <2>1, <2>2
<1> HIDE DEF Lost
<1>3. /\ \A q \in Requests : phase'[q] = "registered" <=>
                              phase[q] = "registered"
      /\ \A q \in Requests : step[q] \in Recorded => step'[q] \in Recorded
  BY <1>2 DEF Recorded, Places
<1>b. \A i \in DOMAIN rows : rows[i].by \in Requests
  BY RowOwners
<1>4. MutexInv'
  BY CrashOnLease, MutexStepOrNot
<1>5. TurnTypes'
  <2>1. /\ EmptyTurn(0) \in Turns /\ IsState(NoSession)
        /\ "gone" \in Steps /\ "none" \in ArmorClasses
    BY TurnsAreTurns DEF IsState, NoSession, Steps, ArmorClasses
  <2>2. /\ step' \in [Requests -> Steps]
        /\ armor' \in [Requests -> ArmorClasses]
        /\ turn' \in [Requests -> Turns]
        /\ counted' \in [Requests -> Nat]
    BY <2>1 DEF Crashes, Forget, Reset, TurnTypes
  <2>3. DOMAIN memory' = Requests
        /\ \A q \in Requests :
              memory'[q] = NoSession \/ memory'[q] = memory[q]
    BY DEF Crashes, Forget, Reset, TurnTypes
  <2>4. \A q \in Requests : IsState(memory'[q])
    BY <2>1, <2>3 DEF TurnTypes
  <2> QED BY <1>1, <2>2, <2>3, <2>4 DEF TurnTypes
<1>6. Places'
  <2>1. SUFFICES ASSUME NEW q \in Requests
                 PROVE
          IF q \in Messageless
          THEN /\ phase'[q] = "new"
               /\ step'[q] \notin Counting
               /\ step'[q] # "new" => "unleased" \in faults'
          ELSE /\ step'[q] = "new" <=>
                    phase'[q] \in {"new", "waiting", "refused", "registered"}
               /\ step'[q] = "gone" <=> phase'[q] \in {"done", "dead"}
               /\ phase'[q] = "late" => "late" \in faults'
               /\ phase'[q] = "dead" => "crash" \in faults'
               /\ Inside(q)' => at'[q] = Store \/ "fallback" \in faults'
    BY DEF Places
  <2>2. CASE Lost(q) /\ q \in Messageless
    BY <1>1, <1>2, <2>2 DEF Places, Counting
  <2>3. CASE Lost(q) /\ q \notin Messageless
    <3>1. phase'[q] = "dead" /\ step'[q] = "gone"
      BY <1>2, <2>3
    <3> QED BY <1>1, <2>3, <3>1 DEF Inside
  <2>4. CASE ~Lost(q)
    <3>1. step'[q] = step[q] /\ phase'[q] = phase[q] /\ at'[q] = at[q]
      BY <1>2, <2>4
    <3> QED BY <1>1, <3>1 DEF Places, Inside
  <2> QED BY <2>2, <2>3, <2>4
<1>7. Progress'
  BY <1>1, <1>2 DEF Progress, Counting
<1>8. Queued'
  <2>1. \A p \in Requests, q \in Stores : WaitsAt(p, q)' => WaitsAt(p, q)
    BY <1>1 DEF WaitsAt
  <2>2. \A p, h \in Requests : Handed(p, h)' => Handed(p, h)
    BY <1>1 DEF Handed
  <2> QED BY <1>1, <1>3, <2>1, <2>2 DEF Queued
<1>9. RowsPlaced'
  BY <1>1, <1>3, <1>b DEF RowsPlaced
<1>10. TicketsAreFew'
  <2> SUFFICES ASSUME NEW p \in Requests, phase'[p] = "registered"
               PROVE  Few(p)'
    BY DEF TicketsAreFew, Few
  <2>1. Few(p)
    BY <1>3 DEF TicketsAreFew, Few
  <2>2. \A h \in Requests : \A k : OwedBy(p, h, k)' => OwedBy(p, h, k)
    <3>1. TAKE h \in Requests
    <3>2. step'[h] \in Counting =>
              step'[h] = step[h] /\ counted'[h] = counted[h]
      BY <1>2 DEF Counting
    <3> QED BY <1>1, <3>2 DEF OwedBy
  <2>3. \A q \in Stores : \A k \in DOMAIN pending'[q] :
            pending'[q][k] = p => k \in DOMAIN pending[q] /\ pending[q][k] = p
    BY <1>1
  <2>4. \A t \in AllTickets : IsTicket(p, t)' => IsTicket(p, t)
    BY <1>1, <2>2, <2>3 DEF IsTicket
  <2>5. Tickets(p)' \subseteq Tickets(p) /\ copies'[p] = copies[p]
    BY <1>1, <2>4 DEF Tickets
  <2> QED BY <2>1, <2>5, FewStay
<1>11. Replied' /\ Stamped'
  <2>1. Replied'
    BY <1>1, <1>3 DEF Replied
  <2>2. \A q \in Requests : step'[q] = "recording" => turn'[q].ts < stamp'
    BY <1>1, <1>2 DEF Stamped
  <2>3. \A i \in DOMAIN rows' :
            phase'[rows'[i].by] # "registered" => rows'[i].ts < stamp'
    BY <1>1, <1>3, <1>b DEF Stamped
  <2> QED BY <2>1, <2>2, <2>3 DEF Stamped
<1>12. Tallied'
  <2> SUFFICES ASSUME Calm', NEW h \in Requests, phase'[h] = "holding",
                      step'[h] # "reading"
               PROVE  /\ memory'[h].turns = Len(rows')
                      /\ memory'[h].security_hits = Cardinality(Hits')
                      /\ memory'[h].quarantined <=>
                            \E i \in DOMAIN rows' :
                                  rows'[i].action = "quarantine"
    BY DEF Tallied
  <2>1. Calm
    BY <1>1 DEF Calm, Without
  <2>2. ~Lost(h)
    BY <1>2 DEF Places
  <2>3. phase[h] = "holding" /\ step[h] # "reading" /\ memory'[h] = memory[h]
    BY <1>2, <2>2
  <2> QED BY <1>1, <2>1, <2>3 DEF Tallied
<1>13. NoneForgotten'
  BY <1>1 DEF NoneForgotten, Whole, Without
<1>14. IndexesRunOn' /\ BurstReachesLock' /\ LockedSessionAnswersWithLock'
  <2>1. Calm' => Calm
    BY <1>1 DEF Calm, Without
  <2>2. IndexesRunOn'
    BY <1>1, <2>1 DEF IndexesRunOn
  <2>3. BurstReachesLock'
    BY <1>1, <2>1 DEF BurstReachesLock
  <2>4. LockedSessionAnswersWithLock'
    BY <1>1, <2>1 DEF LockedSessionAnswersWithLock
  <2> QED BY <2>2, <2>3, <2>4
<1> QED BY <1>4, <1>5, <1>6, <1>7, <1>8, <1>9, <1>10, <1>11, <1>12, <1>13,
           <1>14

(***************************************************************************)
(* The theorems                                                            *)
(***************************************************************************)
LEMMA TurnInvStep == TurnInv /\ [Next]_vars => TurnInv'
<1> SUFFICES ASSUME TurnInv, [Next]_vars PROVE TurnInv'
  OBVIOUS
<1> USE DEF TurnInv
<1>1. ASSUME NEW r \in Requests, RequestStep(r) PROVE TurnInv'
  <2>1. MutexInv'
    BY <1>1, RequestStepOnLease, MutexStepOrNot
  <2>2. TurnTypes'
    BY <1>1, TypesStep
  <2>3. Places'
    BY <1>1, PlacesStep
  <2>4. Progress'
    BY <1>1, ProgressStep
  <2>5. Queued'
    BY <1>1, QueuedStep
  <2>6. RowsPlaced'
    BY <1>1, RowsPlacedStep
  <2>7. Replied'
    BY <1>1, RepliedStep
  <2>8. Stamped'
    BY <1>1, StampedStep
  <2>9. Tallied'
    BY <1>1, TalliedStep
  <2>10. NoneForgotten'
    BY <1>1, NoneForgottenStep
  <2>11. IndexesRunOn'
    BY <1>1, IndexesStep
  <2>12. BurstReachesLock'
    BY <1>1, BurstStep
  <2>13. LockedSessionAnswersWithLock'
    BY <1>1, LockedStep
  <2>14. TicketsAreFew'
    BY <1>1, TicketsStep
  <2> QED BY <2>1, <2>2, <2>3, <2>4, <2>5, <2>6, <2>7, <2>8, <2>9, <2>10,
             <2>11, <2>12, <2>13, <2>14
<1>2. CASE UNCHANGED vars
  <2>1. /\ UNCHANGED <<phase, at, pending, drained, step, armor, memory>>
        /\ UNCHANGED <<turn, counted, reply, rows, stamp, arrived>>
        /\ UNCHANGED <<written, copies, faults>>
    BY <1>2 DEF vars, mutexVars, turnVars
  <2>2. MutexInv'
    BY <2>1, MutexStepOrNot DEF mutexVars
  <2>3. TurnTypes' /\ Places' /\ Progress'
    <3>1. TurnTypes'
      BY <2>1 DEF TurnTypes
    <3>2. Places'
      BY <2>1 DEF Places, Inside
    <3>3. Progress'
      BY <2>1 DEF Progress
    <3> QED BY <3>1, <3>2, <3>3
  <2>4. Queued' /\ RowsPlaced' /\ Replied' /\ Stamped'
    BY <2>1 DEF Queued, RowsPlaced, Replied, Stamped, WaitsAt, Handed
  <2>10. TicketsAreFew'
    <3>1. \A p : Tickets(p)' = Tickets(p)
      BY <2>1 DEF Tickets, IsTicket, OwedBy
    <3> QED BY <2>1, <3>1 DEF TicketsAreFew
  <2>5. Hits' = Hits
    BY <2>1 DEF Hits
  <2>6. Tallied'
    BY <2>1, <2>5 DEF Tallied, Calm, Without
  <2>7. NoneForgotten'
    BY <2>1 DEF NoneForgotten, Whole, Without, Waits, WaitsAt, HasRow, RowOf,
                Owed, OwedBy
  <2>8. IndexesRunOn' /\ LockedSessionAnswersWithLock'
    BY <2>1 DEF IndexesRunOn, LockedSessionAnswersWithLock, Calm, Without
  <2>9. BurstReachesLock'
    BY <2>1, <2>5 DEF BurstReachesLock, Calm, Without
  <2> QED BY <2>2, <2>3, <2>4, <2>6, <2>7, <2>8, <2>9, <2>10
<1>3. ASSUME NEW s \in Stores, Crashes(s) PROVE TurnInv'
  BY <1>3, CrashStep
<1> QED BY <1>1, <1>2, <1>3 DEF Next

LEMMA TurnInvHolds == Spec => []TurnInv
<1> QED BY InitTurnInv, TurnInvStep, PTL DEF Spec

\* The burst of 2026-09-19 wrote 1,1,1,2,2,2; whatever messages arrive while
\* the lease holds and the table answers, turn_index counts the rows.
THEOREM IndexesAlwaysRunOn == Spec => []IndexesRunOn
<1>1. TurnInv => IndexesRunOn
  BY DEF TurnInv
<1> QED BY TurnInvHolds, <1>1, PTL

\* Messages sent at once reach the lock that messages sent one by one reach,
\* for any thresholds.
THEOREM BurstAlwaysReachesLock == Spec => []BurstReachesLock
<1>1. TurnInv => BurstReachesLock
  BY DEF TurnInv
<1> QED BY TurnInvHolds, <1>1, PTL

\* Once a row locked the session, every row after it does, and its customer
\* is answered with the lock or was turned away.
THEOREM LockIsAnswered == Spec => []LockedSessionAnswersWithLock
<1>1. TurnInv => LockedSessionAnswersWithLock
  BY DEF TurnInv
<1> QED BY TurnInvHolds, <1>1, PTL

\* A turned-away message that reached the shared store gets its row before
\* the holder that was still to judge has given its lease back; and no
\* message has more rows than tables it was registered in, whatever fails.
THEOREM TurnedAwayAlwaysCountsOnce == Spec => []TurnedAwayCountsOnce
<1>1. TurnInv => TurnedAwayCountsOnce
  <2> SUFFICES ASSUME TurnInv PROVE TurnedAwayCountsOnce
    OBVIOUS
  <2> USE DEF TurnInv
  <2>t. /\ DOMAIN rows = 1 .. Len(rows) /\ Len(rows) \in Nat
        /\ \A i \in DOMAIN rows : rows[i].by \in Requests
    BY RowOwners
  <2>1. ASSUME NEW p \in Requests
        PROVE  Cardinality({i \in DOMAIN rows : RowOf(i, p)}) =<
                  IF phase[p] = "registered" THEN Cardinality(copies[p])
                  ELSE 1
    <3> DEFINE Own == {i \in DOMAIN rows : RowOf(i, p)}
               T == Tickets(p)
               f == [i \in Own |-> <<"row", Nowhere, i>>]
    <3>1. CASE phase[p] = "registered"
      <4>1. /\ IsFiniteSet(T) /\ IsFiniteSet(copies[p])
            /\ Cardinality(T) =< Cardinality(copies[p])
        BY <3>1 DEF TicketsAreFew
      <4>2. \A i \in Own : <<"row", Nowhere, i>> \in T
        <5>1. TAKE i \in Own
        <5>2. i \in Nat /\ i \in DOMAIN rows /\ rows[i].by = p
          BY <2>t DEF RowOf
        <5>3. <<"row", Nowhere, i>> \in AllTickets
          BY <5>2 DEF AllTickets
        <5>4. IsTicket(p, <<"row", Nowhere, i>>)
          BY <5>2 DEF IsTicket
        <5> QED BY <5>3, <5>4 DEF Tickets
      <4> HIDE DEF Own, T
      <4>3. f \in [Own -> T] /\ \A i, j \in Own : f[i] = f[j] => i = j
        BY <4>2
      <4> HIDE DEF f
      <4>4. f \in Injection(Own, T)
        BY <4>3 DEF Injection, IsInjective
      <4>5. IsFiniteSet(Own) /\ Cardinality(Own) =< Cardinality(T)
        BY <4>1, <4>4, FS_Injection
      <4>6. /\ Cardinality(Own) \in Nat /\ Cardinality(T) \in Nat
            /\ Cardinality(copies[p]) \in Nat
        BY <4>1, <4>5, FS_CardinalityType
      <4>7. Cardinality(Own) =< Cardinality(copies[p])
        BY <4>1, <4>5, <4>6
      <4> QED BY <3>1, <4>7 DEF Own
    <3>2. CASE phase[p] # "registered"
      <4>1. \A i, j \in Own : i = j
        BY <3>2 DEF RowsPlaced, RowOf
      <4>2. Own = {} \/ \E i : Own = {i}
        BY <4>1
      <4>3. Cardinality(Own) = 0 \/ Cardinality(Own) = 1
        BY <4>2, FS_EmptySet, FS_Singleton
      <4> HIDE DEF Own
      <4>4. Cardinality(Own) =< 1
        BY <4>3
      <4> QED BY <3>2, <4>4 DEF Own
    <3> QED BY <3>1, <3>2
  <2>2. ASSUME Whole, NEW i \in DOMAIN rows, NEW p \in Requests,
               rows[i].by \notin Messageless, phase[rows[i].by] = "done",
               Store \in copies[p], written[p] =< rows[i].ts
        PROVE  HasRow(p)
    <3>1. step[rows[i].by] = "gone"
      BY <2>t, <2>2 DEF Places
    <3>2. HasRow(p) \/ Owed(p, rows[i].by)
      BY <2>2, <3>1 DEF NoneForgotten
    <3> QED BY <3>1, <3>2 DEF Owed, OwedBy, Counting
  <2>3. Whole => \A i \in DOMAIN rows, p \in Requests :
              /\ rows[i].by \notin Messageless
              /\ phase[rows[i].by] = "done"
              /\ Store \in copies[p] /\ written[p] =< rows[i].ts
              => HasRow(p)
    BY <2>2
  <2>4. \A p \in Requests :
          Cardinality({i \in DOMAIN rows : RowOf(i, p)}) =<
              IF phase[p] = "registered" THEN Cardinality(copies[p]) ELSE 1
    BY <2>1
  <2> QED BY <2>3, <2>4 DEF TurnedAwayCountsOnce, Whole
<1> QED BY TurnInvHolds, <1>1, PTL

=============================================================================
