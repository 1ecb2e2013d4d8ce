--------------------------- MODULE McpAuth_proofs ---------------------------
(***************************************************************************)
(* Why a token of the MCP OAuth server is never for more than a person     *)
(* approved, for any number of instances, threads, sign-ins and refreshes: *)
(* what a ticket grants is copied from the sign-in's pending request at    *)
(* the callback and from ticket to ticket afterwards, and a sign-in has    *)
(* one callback.                                                           *)
(***************************************************************************)
EXTENDS McpAuth, TLAPS

\* What the argument needs of the types.
Shapes ==
    /\ pending \in [Signins -> Asked \cup {None}]
    /\ record \in [Tickets -> Record \cup {None}]
    /\ approved \in [Signins -> Grant \cup {None}]
    /\ slot = [q \in Slots |-> slot[q]]
    /\ known \in SUBSET Tickets

\* A ticket that a client or a handler holds has been issued.
Holding == {"delete", "judge", "store"}

Issued ==
    /\ \A t \in known : record[t] # None
    /\ \A q \in Slots : slot[q].stage \in Holding =>
          slot[q].ticket \in Tickets /\ record[slot[q].ticket] # None
    /\ \A q \in Slots : slot[q].stage = "delete" => slot[q] \in Taking

\* A sign-in waits for its callback or has had it.
OneCallback ==
    /\ \A g \in Signins : pending[g] # None => record[g] = None
    /\ \A g \in Signins : approved[g] # None => record[g] # None

Approves(k) ==
    /\ k.from \in Signins
    /\ approved[k.from] # None
    /\ k.client = approved[k.from].client
    /\ k.person = approved[k.from].person
    /\ k.resource = approved[k.from].resource

RecordsBound == \A t \in Tickets : record[t] # None => Approves(record[t])
TokensBound == \A k \in tokens : Approves(k)

BoundInv == Shapes /\ Issued /\ OneCallback /\ RecordsBound /\ TokensBound

(* Nothing has been issued at the start.                                   *)
LEMMA InitBound == Init => BoundInv
  BY DEF Init, BoundInv, Shapes, Issued, OneCallback, RecordsBound,
         TokensBound, Idle, Holding

(* Steps that issue nothing and change no request in flight but to start,  *)
(* advance or end it keep every ticket bound.                              *)
LEMMA NothingIssued ==
    ASSUME BoundInv,
           UNCHANGED <<record, approved, tokens>>,
           pending' \in [Signins -> Asked \cup {None}],
           \A g \in Signins : pending'[g] # None => record[g] = None,
           known' \in SUBSET Tickets,
           \A t \in known' : record[t] # None,
           slot' = [q \in Slots |-> slot'[q]],
           \A q \in Slots : slot'[q].stage \in Holding =>
              slot'[q].ticket \in Tickets /\ record[slot'[q].ticket] # None,
           \A q \in Slots : slot'[q].stage = "delete" => slot'[q] \in Taking
    PROVE  BoundInv'
  BY DEF BoundInv, Shapes, Issued, OneCallback, RecordsBound, TokensBound,
         Approves

(* The callback: the ticket is what its sign-in approved, and no other     *)
(* ticket comes from that sign-in, since none was issued for it before.    *)
LEMMA CallbackBound ==
    ASSUME BoundInv, NEW q \in Slots, NEW g \in Signins, NEW p \in People,
           Callback(q, g, p)
    PROVE  BoundInv'
<1> DEFINE a == pending[g]
           r == [client |-> a.client, redirect |-> a.redirect,
                 challenge |-> a.challenge, person |-> p,
                 resource |-> a.resource, from |-> g, left |-> CodeTtl]
           b == [client |-> a.client, person |-> p, resource |-> a.resource]
           s == [stage |-> "store", at |-> a.at, ticket |-> g]
<1>1. /\ pending[g] # None /\ p \in Allowed
      /\ record' = [record EXCEPT ![g] = r]
      /\ approved' = [approved EXCEPT ![g] = b]
      /\ slot' = [slot EXCEPT ![q] = s]
      /\ pending' = [pending EXCEPT ![g] = None]
      /\ UNCHANGED <<known, tokens>>
  BY DEF Callback
<1>2. a \in Asked
  BY <1>1 DEF BoundInv, Shapes
<1>3. r \in Record /\ b \in Grant /\ g \in Tickets
  BY <1>1, <1>2, TtlAssumption DEF Asked, Record, Grant, Tickets
<1>4. r # None /\ b # None
  BY <1>3, NoneAssumption
<1>5. record[g] = None /\ approved[g] = None
  BY <1>1 DEF BoundInv, OneCallback
<1>6. r.from = g /\ r.client = b.client /\ r.person = b.person
      /\ r.resource = b.resource /\ s.ticket = g /\ s.stage = "store"
  OBVIOUS
<1> HIDE DEF a, r, b, s
<1>7. Shapes'
  BY <1>1, <1>3 DEF BoundInv, Shapes
<1>8. Issued'
  BY <1>1, <1>3, <1>4, <1>6 DEF BoundInv, Shapes, Issued
<1>9. OneCallback'
  BY <1>1, <1>3, <1>4 DEF BoundInv, Shapes, OneCallback, Tickets
<1>10. \A k : Approves(k) => k.from # g /\ Approves(k)'
  BY <1>1, <1>5 DEF Approves, BoundInv, Shapes
<1>11. RecordsBound'
  <2> SUFFICES ASSUME NEW t \in Tickets, record'[t] # None
               PROVE  Approves(record[t])'
    BY DEF RecordsBound
  <2>1. CASE t = g
    BY <2>1, <1>1, <1>3, <1>4, <1>6 DEF Approves, BoundInv, Shapes
  <2>2. CASE t # g
    BY <2>2, <1>1, <1>10 DEF RecordsBound, BoundInv, Shapes, Approves
  <2> QED BY <2>1, <2>2
<1>12. TokensBound'
  BY <1>1, <1>10 DEF TokensBound, BoundInv, Approves
<1> QED BY <1>7, <1>8, <1>9, <1>11, <1>12 DEF BoundInv

(* The exchange: both the token and the next ticket are the ticket's.      *)
LEMMA MintBound ==
    ASSUME BoundInv, NEW q \in Slots, NEW claim \in Claim,
           NEW n \in Refreshes, Mint(q, claim, n)
    PROVE  BoundInv'
<1> DEFINE t == slot[q].ticket
           k == [client |-> claim.client, person |-> record[t].person,
                 resource |-> record[t].resource, from |-> record[t].from]
           r == [record[t] EXCEPT !.left = RefreshTtl]
           s == [stage |-> "store", at |-> slot[q].at, ticket |-> n]
<1>1. /\ slot[q].stage = "judge"
      /\ Redeems(q, claim)
      /\ tokens' = tokens \cup {k}
      /\ record' = [record EXCEPT ![n] = r]
      /\ slot' = [slot EXCEPT ![q] = s]
      /\ UNCHANGED <<pending, known, approved>>
  BY DEF Mint
<1>2. t \in Tickets /\ record[t] # None
  BY <1>1 DEF BoundInv, Issued, Holding
<1>3. record[t] \in Record
  BY <1>2 DEF BoundInv, Shapes
<1>4. r \in Record /\ n \in Tickets /\ n \notin Signins
  BY <1>3, TtlAssumption, SetsAssumption DEF Record, Tickets
<1>5. r # None
  BY <1>4, NoneAssumption
<1>6. claim.client = record[t].client
  BY <1>1 DEF Redeems, Matches
<1>7. Approves(record[t])
  BY <1>2 DEF BoundInv, RecordsBound
<1>8. Approves(k)
  BY <1>6, <1>7 DEF Approves
<1>9. Approves(r)
  <2>1. /\ r.from = record[t].from /\ r.client = record[t].client
        /\ r.person = record[t].person /\ r.resource = record[t].resource
    BY <1>3 DEF Record
  <2> QED BY <2>1, <1>7 DEF Approves
<1>10. s.ticket = n /\ s.stage = "store"
  OBVIOUS
<1> HIDE DEF t, k, r, s
<1>11. Shapes'
  BY <1>1, <1>4 DEF BoundInv, Shapes
<1>12. Issued'
  BY <1>1, <1>4, <1>5, <1>10 DEF BoundInv, Shapes, Issued
<1>13. OneCallback'
  BY <1>1, <1>4 DEF BoundInv, Shapes, OneCallback, Tickets
<1>14. RecordsBound'
  BY <1>1, <1>4, <1>9 DEF BoundInv, Shapes, RecordsBound, Approves
<1>15. TokensBound'
  BY <1>1, <1>8 DEF BoundInv, TokensBound, Approves
<1> QED BY <1>11, <1>12, <1>13, <1>14, <1>15 DEF BoundInv

(* Time passes: a ticket grows older and stays what it is.                 *)
LEMMA TickBound ==
    ASSUME BoundInv, Tick
    PROVE  BoundInv'
<1>1. \A r \in Record \cup {None} :
         /\ Aged(r) \in Record \cup {None}
         /\ Aged(r) = None <=> r = None
         /\ r # None => /\ Aged(r).from = r.from /\ Aged(r).client = r.client
                        /\ Aged(r).person = r.person
                        /\ Aged(r).resource = r.resource
  <2> SUFFICES ASSUME NEW r \in Record
               PROVE  /\ Aged(r) \in Record
                      /\ Aged(r).from = r.from /\ Aged(r).client = r.client
                      /\ Aged(r).person = r.person
                      /\ Aged(r).resource = r.resource
    BY NoneAssumption DEF Aged
  <2>1. CASE r # None /\ r.left >= 0
    <3>1. r.left - 1 \in {-1} \cup Nat
      BY <2>1 DEF Record
    <3>2. Aged(r) = [r EXCEPT !.left = r.left - 1]
      BY <2>1 DEF Aged
    <3> QED BY <3>1, <3>2 DEF Record
  <2>2. CASE ~(r # None /\ r.left >= 0)
    BY <2>2 DEF Aged
  <2> QED BY <2>1, <2>2
<1>2. /\ record' = [t \in Tickets |-> Aged(record[t])]
      /\ UNCHANGED <<pending, approved, slot, known, tokens>>
  BY DEF Tick
<1>3. \A t \in Tickets : record[t] \in Record \cup {None}
  BY DEF BoundInv, Shapes
<1>4. \A t \in Tickets :
         /\ record'[t] \in Record \cup {None}
         /\ record'[t] = None <=> record[t] = None
  BY <1>1, <1>2, <1>3
<1>5. Shapes'
  BY <1>2, <1>4 DEF BoundInv, Shapes
<1>6. Issued' /\ OneCallback'
  BY <1>2, <1>4 DEF BoundInv, Shapes, Issued, OneCallback, Tickets
<1>7. RecordsBound'
  <2> SUFFICES ASSUME NEW t \in Tickets, record'[t] # None
               PROVE  Approves(record[t])'
    BY DEF RecordsBound
  <2>1. Approves(record[t]) /\ record[t] # None
    BY <1>4 DEF BoundInv, RecordsBound
  <2>2. /\ record'[t].from = record[t].from
        /\ record'[t].client = record[t].client
        /\ record'[t].person = record[t].person
        /\ record'[t].resource = record[t].resource
    BY <1>1, <1>2, <1>3, <2>1
  <2> QED BY <1>2, <2>1, <2>2 DEF Approves
<1>8. TokensBound'
  BY <1>2 DEF BoundInv, TokensBound, Approves
<1> QED BY <1>5, <1>6, <1>7, <1>8 DEF BoundInv

(* Everything else moves tickets about.                                    *)
LEMMA SigninBound ==
    ASSUME BoundInv, Signin
    PROVE  BoundInv'
<1>1. ASSUME NEW i \in Instances, NEW c \in Clients, Register(i, c)
      PROVE  BoundInv'
  BY <1>1, NothingIssued
     DEF Register, BoundInv, Shapes, Issued, OneCallback
<1>2. ASSUME NEW i \in Instances, NEW g \in Signins, NEW c \in Clients,
             NEW u \in Redirects, NEW v \in Verifiers, NEW r \in Resources,
             Authorize(i, g, c, u, v, r)
      PROVE  BoundInv'
  <2>1. /\ pending' = [pending EXCEPT ![g] =
              [at |-> i, client |-> c, redirect |-> u, challenge |-> v,
               resource |-> r]]
        /\ record[g] = None
        /\ UNCHANGED <<record, approved, tokens, slot, known>>
    BY <1>2 DEF Authorize, Unissued
  <2>2. [at |-> i, client |-> c, redirect |-> u, challenge |-> v,
         resource |-> r] \in Asked
    BY <1>2 DEF Asked
  <2> QED BY <2>1, <2>2, NothingIssued
          DEF BoundInv, Shapes, Issued, OneCallback
<1>3. ASSUME NEW q \in Slots, NEW g \in Signins, NEW p \in People,
             Callback(q, g, p)
      PROVE  BoundInv'
  BY <1>3, CallbackBound
<1>4. ASSUME NEW g \in Signins, CallbackRefused(g)
      PROVE  BoundInv'
  BY <1>4, NothingIssued
     DEF CallbackRefused, BoundInv, Shapes, Issued, OneCallback
<1> QED BY <1>1, <1>2, <1>3, <1>4 DEF Signin

(* A handler of /token between its steps.                                  *)
LEMMA ExchangeBound ==
    ASSUME BoundInv, NEW q \in Slots, Exchange(q)
    PROVE  BoundInv'
<1>1. ASSUME NEW i \in Instances, NEW t \in Tickets, Present(q, i, t)
      PROVE  BoundInv'
  <2>1. PICK s : /\ slot' = [slot EXCEPT ![q] = s]
                 /\ s.ticket = t
                 /\ s.stage = "delete" => s \in Taking
    <3> DEFINE took == [stage |-> "judge", at |-> i, ticket |-> t,
                        found |-> FoundFirst(i, t), seen |-> FALSE,
                        reach |-> \/ t \in memory[i]
                                  \/ i \in Durable /\ t \in documents,
                        missed |-> FALSE]
               read == [took EXCEPT !.stage = "delete",
                           !.seen = t \notin memory[i] /\ t \in documents]
               fell == [took EXCEPT !.missed = t \notin memory[i]]
    <3>1. \/ slot' = [slot EXCEPT ![q] = read]
          \/ slot' = [slot EXCEPT ![q] = fell]
          \/ slot' = [slot EXCEPT ![q] = took]
      BY <1>1 DEF Present
    <3>2. FoundFirst(i, t) \in {"nothing", "memory", "document"}
          /\ t \in Tickets
      BY <1>1 DEF FoundFirst, Present, BoundInv, Shapes
    <3>3. read \in Taking /\ read.ticket = t
      BY <3>2 DEF Taking
    <3>4. /\ fell.ticket = t /\ fell.stage = "judge"
          /\ took.ticket = t /\ took.stage = "judge"
      OBVIOUS
    <3> HIDE DEF took, read, fell
    <3> QED BY <3>1, <3>3, <3>4
  <2>2. t \in known /\ UNCHANGED <<record, approved, tokens, pending, known>>
    BY <1>1 DEF Present
  <2> QED BY <2>1, <2>2, NothingIssued
          DEF BoundInv, Shapes, Issued, OneCallback
<1>2. CASE DeleteDocument(q)
  <2>1. /\ slot[q].stage = "delete"
        /\ UNCHANGED <<record, approved, tokens, pending, known>>
        /\ \/ slot' = [slot EXCEPT ![q].stage = "judge",
                                   ![q].found = FoundAfterDelete(q)]
           \/ slot' = [slot EXCEPT
                   ![q].stage = "judge",
                   ![q].missed = (slot[q].found = "nothing")]
    BY <1>2 DEF DeleteDocument
  <2>2. slot[q] \in Taking
    BY <2>1 DEF BoundInv, Issued
  <2>3. \E s : /\ slot' = [slot EXCEPT ![q] = s]
               /\ s.ticket = slot[q].ticket /\ s.stage = "judge"
    <3> DEFINE took == slot[q]
               had == [took EXCEPT !.stage = "judge",
                                   !.found = FoundAfterDelete(q)]
               lost == [took EXCEPT !.stage = "judge",
                                    !.missed = (took.found = "nothing")]
    <3>1. \/ slot' = [slot EXCEPT ![q] = had]
          \/ slot' = [slot EXCEPT ![q] = lost]
      BY <2>1
    <3> HIDE DEF took
    <3>2. took \in Taking
      BY <2>2 DEF took
    <3>3. /\ had.ticket = took.ticket /\ had.stage = "judge"
          /\ lost.ticket = took.ticket /\ lost.stage = "judge"
      BY <3>2 DEF Taking
    <3> HIDE DEF had, lost
    <3> QED BY <3>1, <3>3 DEF took
  <2>4. ASSUME NEW p \in Slots, slot'[p].stage \in Holding
        PROVE  slot'[p].ticket \in Tickets /\ record[slot'[p].ticket] # None
    BY <2>1, <2>3, <2>4 DEF BoundInv, Shapes, Issued, Holding
  <2>5. UNCHANGED <<record, approved, tokens, pending, known>>
    BY <2>1
  <2> QED BY <2>3, <2>4, <2>5, NothingIssued
          DEF BoundInv, Shapes, Issued, OneCallback
<1>3. ASSUME NEW claim \in Claim, NEW n \in Refreshes, Mint(q, claim, n)
      PROVE  BoundInv'
  BY <1>3, MintBound
<1>4. CASE RefuseMismatch(q) \/ Reply(q)
  BY <1>4, NothingIssued
     DEF RefuseMismatch, Reply, Idle, BoundInv, Shapes, Issued, OneCallback,
         Holding
<1>5. CASE Refuse(q)
  BY <1>5, NothingIssued
     DEF Refuse, BoundInv, Shapes, Issued, OneCallback, Holding
<1>6. CASE Store(q)
  <2>1. /\ slot[q].stage = "store" /\ slot' = [slot EXCEPT ![q] = Idle]
        /\ known' = known \cup {slot[q].ticket}
        /\ UNCHANGED <<record, approved, tokens, pending>>
    BY <1>6 DEF Store
  <2>2. slot[q].ticket \in Tickets /\ record[slot[q].ticket] # None
    BY <2>1 DEF BoundInv, Issued, Holding
  <2> QED BY <2>1, <2>2, NothingIssued
          DEF Idle, BoundInv, Shapes, Issued, OneCallback, Holding
<1> QED BY <1>1, <1>2, <1>3, <1>4, <1>5, <1>6 DEF Exchange

(* An instance stops, and its requests with it.                            *)
LEMMA StopBound ==
    ASSUME BoundInv, NEW i \in Instances, Stop(i)
    PROVE  BoundInv'
<1>1. /\ pending' = [g \in Signins |->
             IF pending[g] # None /\ pending[g].at = i THEN None
             ELSE pending[g]]
      /\ slot' = [q \in Slots |->
             IF slot[q] # Idle /\ slot[q].at = i THEN Idle ELSE slot[q]]
      /\ UNCHANGED <<record, approved, tokens, known>>
  BY DEF Stop
<1>2. Idle.stage \notin Holding /\ Idle.stage # "delete"
  BY DEF Idle, Holding
<1> QED BY <1>1, <1>2, NothingIssued
        DEF BoundInv, Shapes, Issued, OneCallback

(* What tickets and tokens are for never goes beyond the approvals,        *)
(* whatever fails, stops or runs at the same time.                         *)
LEMMA BoundInvariant == Spec => []BoundInv
<1>1. BoundInv /\ [Next]_vars => BoundInv'
  <2> SUFFICES ASSUME BoundInv, [Next]_vars PROVE BoundInv'
    OBVIOUS
  <2>1. CASE UNCHANGED vars
    BY <2>1 DEF vars, BoundInv, Shapes, Issued, OneCallback, RecordsBound,
                TokensBound, Approves
  <2>2. CASE Next
    BY <2>2, SigninBound, ExchangeBound, StopBound, TickBound DEF Next
  <2> QED BY <2>1, <2>2
<1> QED BY InitBound, <1>1, PTL DEF Spec

(* "a refresh must not widen reach to a resource the human never           *)
(* approved" (main.py, token), through any number of refreshes.            *)
THEOREM TokensAreBound == Spec => []BoundToApproval
<1>1. BoundInv => BoundToApproval
  BY DEF BoundInv, TokensBound, Approves, BoundToApproval
<1> QED BY <1>1, BoundInvariant, PTL

(***************************************************************************)
(* Single use                                                              *)
(***************************************************************************)
\* What a handler is doing with a ticket.
Takes(s, t) == s.stage \in {"delete", "judge"} /\ s.ticket = t
Stores(s, t) == s.stage = "store" /\ s.ticket = t
HasMemory(s, t) == Takes(s, t) /\ s.found = "memory"
HasDocument(s, t) ==
    \/ s.stage = "delete" /\ s.ticket = t /\ s.seen
    \/ s.stage = "judge" /\ s.ticket = t /\ s.found = "document"

Handlers == {Idle} \cup Taking \cup Refused \cup Storing

SpentShapes ==
    /\ slot \in [Slots -> Handlers]
    /\ \A q \in Slots : slot[q].stage = "delete" => slot[q].found # "document"
    /\ memory \in [Instances -> SUBSET Tickets]
    /\ documents \subseteq Tickets
    /\ uses \in [Tickets -> [memory : Nat, document : Nat]]

\* A ticket is stored once, after it is made and before anybody knows it.
Fresh(t) ==
    /\ record[t] = None => /\ \A i \in Instances : t \notin memory[i]
                           /\ t \notin known
    /\ t \notin known =>
          /\ t \notin documents
          /\ uses[t].memory = 0 /\ uses[t].document = 0
          /\ \A q \in Slots : ~Takes(slot[q], t)
    /\ t \in known => \A q \in Slots : ~Stores(slot[q], t)
    /\ \A p, q \in Slots :
          Stores(slot[p], t) /\ Stores(slot[q], t) => p = q

\* The copy in memory is in one instance, in one handler or used.
OneMemory(t) ==
    /\ \A i, j \in Instances : t \in memory[i] /\ t \in memory[j] => i = j
    /\ \A q \in Slots : HasMemory(slot[q], t) =>
          /\ \A i \in Instances : t \notin memory[i]
          /\ uses[t].memory = 0
          /\ \A p \in Slots : HasMemory(slot[p], t) => p = q
    /\ uses[t].memory > 0 => \A i \in Instances : t \notin memory[i]
    /\ uses[t].memory <= 1

\* So is the document, while one handler at a time takes it.
OneDocument(t) ==
    t \notin overlapped =>
        /\ \A p, q \in Slots :
              Takes(slot[p], t) /\ Takes(slot[q], t) => p = q
        /\ \A q \in Slots : HasDocument(slot[q], t) =>
              /\ uses[t].document = 0
              /\ slot[q].stage = "judge" => t \notin documents
        /\ uses[t].document > 0 => t \notin documents
        /\ uses[t].document <= 1

SpentInv ==
    /\ SpentShapes
    /\ \A t \in Tickets : Fresh(t) /\ OneMemory(t) /\ OneDocument(t)

LEMMA InitSpent == Init => SpentInv
<1> SUFFICES ASSUME Init PROVE SpentInv
  OBVIOUS
<1>1. SpentShapes
  BY DEF Init, SpentShapes, Handlers, Idle
<1>2. \A q \in Slots : slot[q].stage = "idle"
  BY DEF Init, Idle
<1>3. \A t \in Tickets : uses[t].memory = 0 /\ uses[t].document = 0
  BY DEF Init
<1>4. ASSUME NEW t \in Tickets
      PROVE  Fresh(t) /\ OneMemory(t) /\ OneDocument(t)
  BY <1>2, <1>3 DEF Init, Fresh, OneMemory, OneDocument, Takes, Stores,
                    HasMemory, HasDocument
<1> QED BY <1>1, <1>4 DEF SpentInv

(* Handlers that end, instances that forget and time disturb nothing.      *)
LEMMA NothingTaken ==
    ASSUME SpentInv, SpentShapes',
           UNCHANGED <<documents, uses, known, overlapped>>,
           \A t \in Tickets : record'[t] = None => record[t] = None,
           \A i \in Instances : memory'[i] \subseteq memory[i],
           \A q \in Slots : \/ slot'[q] = slot[q]
                            \/ slot'[q].stage \in {"idle", "refused"}
    PROVE  SpentInv'
<1>1. ASSUME NEW t \in Tickets
      PROVE  Fresh(t)' /\ OneMemory(t)' /\ OneDocument(t)'
  <2>1. Fresh(t) /\ OneMemory(t) /\ OneDocument(t)
    BY DEF SpentInv
  <2>2. \A q \in Slots : /\ Takes(slot'[q], t) => slot'[q] = slot[q]
                         /\ Stores(slot'[q], t) => slot'[q] = slot[q]
                         /\ HasMemory(slot'[q], t) => slot'[q] = slot[q]
                         /\ HasDocument(slot'[q], t) => slot'[q] = slot[q]
    BY DEF Takes, Stores, HasMemory, HasDocument
  <2>3. Fresh(t)'
    BY <2>1, <2>2 DEF Fresh
  <2>4. OneMemory(t)'
    BY <2>1, <2>2 DEF OneMemory
  <2>5. OneDocument(t)'
    BY <2>1, <2>2 DEF OneDocument
  <2> QED BY <2>3, <2>4, <2>5
<1> QED BY <1>1 DEF SpentInv

(* A new ticket goes to one instance's memory, and to a handler to store.  *)
LEMMA TicketMade ==
    ASSUME BoundInv, SpentInv, SpentShapes',
           NEW n \in Tickets, record[n] = None, NEW i \in Instances,
           NEW q \in Slots, NEW s, Stores(s, n),
           ~Stores(slot[q], n),
           slot' = [slot EXCEPT ![q] = s],
           memory' = [memory EXCEPT ![i] = @ \cup {n}],
           record' = [record EXCEPT ![n] = record'[n]],
           record'[n] # None,
           UNCHANGED <<documents, known, overlapped>>,
           \A t \in Tickets : t # n /\ uses'[t] # uses[t] =>
              /\ Takes(slot[q], t)
              /\ slot[q].stage = "judge"
              /\ \/ /\ slot[q].found = "memory"
                    /\ uses'[t].memory = uses[t].memory + 1
                    /\ uses'[t].document = uses[t].document
                 \/ /\ slot[q].found = "document"
                    /\ uses'[t].memory = uses[t].memory
                    /\ uses'[t].document = uses[t].document + 1,
           uses'[n] = uses[n]
    PROVE  SpentInv'
<1>1. /\ n \notin known /\ Fresh(n) /\ OneMemory(n) /\ OneDocument(n)
      /\ \A j \in Instances : n \notin memory[j]
      /\ \A p \in Slots : ~Takes(slot[p], n) /\ ~Stores(slot[p], n)
  BY DEF SpentInv, Fresh, BoundInv, Issued, Holding, Stores
<1>2. /\ slot'[q] = s
      /\ \A p \in Slots \ {q} : slot'[p] = slot[p]
  BY DEF SpentInv, SpentShapes
<1>3. \A t \in Tickets : ~Takes(s, t) /\ ~HasMemory(s, t)
                        /\ ~HasDocument(s, t) /\ (t # n => ~Stores(s, t))
  BY DEF Takes, Stores, HasMemory, HasDocument
<1>4. Fresh(n)' /\ OneMemory(n)' /\ OneDocument(n)'
  <2>1. \A p \in Slots : /\ ~Takes(slot'[p], n)
                         /\ ~HasMemory(slot'[p], n)
                         /\ ~HasDocument(slot'[p], n)
                         /\ Stores(slot'[p], n) => p = q
    BY <1>1, <1>2, <1>3 DEF Takes, HasMemory, HasDocument
  <2>2. /\ uses[n].memory = 0 /\ uses[n].document = 0
        /\ n \notin documents
    BY <1>1 DEF Fresh
  <2>3. \A j \in Instances : n \in memory'[j] => j = i
    BY <1>1 DEF SpentInv, SpentShapes
  <2>4. Fresh(n)'
    BY <2>1, <2>2, <1>1 DEF Fresh
  <2> QED BY <2>1, <2>2, <2>3, <2>4 DEF OneMemory, OneDocument
<1>5. ASSUME NEW t \in Tickets, t # n
      PROVE  Fresh(t)' /\ OneMemory(t)' /\ OneDocument(t)'
  <2>1. Fresh(t) /\ OneMemory(t) /\ OneDocument(t)
    BY DEF SpentInv
  <2>2. /\ record'[t] = None <=> record[t] = None
        /\ \A j \in Instances : t \in memory'[j] <=> t \in memory[j]
    BY <1>5 DEF SpentInv, SpentShapes, BoundInv, Shapes
  <2>3. \A p \in Slots :
           /\ Takes(slot'[p], t) => p # q /\ slot'[p] = slot[p]
           /\ Stores(slot'[p], t) => p # q /\ slot'[p] = slot[p]
           /\ HasMemory(slot'[p], t) => p # q /\ slot'[p] = slot[p]
           /\ HasDocument(slot'[p], t) => p # q /\ slot'[p] = slot[p]
    BY <1>2, <1>3, <1>5
  <2>4. CASE uses'[t] = uses[t]
    <3>1. Fresh(t)'
      BY <2>1, <2>2, <2>3, <2>4 DEF Fresh
    <3>2. OneMemory(t)'
      BY <2>1, <2>2, <2>3, <2>4 DEF OneMemory
    <3>3. OneDocument(t)'
      BY <2>1, <2>2, <2>3, <2>4 DEF OneDocument
    <3> QED BY <3>1, <3>2, <3>3
  <2>5. CASE uses'[t] # uses[t]
    <3>1. /\ Takes(slot[q], t) /\ slot[q].stage = "judge" /\ t \in known
          /\ uses[t].memory \in Nat /\ uses[t].document \in Nat
      BY <2>1, <2>5, <1>5 DEF Fresh, SpentInv, SpentShapes
    <3>2. Fresh(t)'
      BY <2>1, <2>2, <2>3, <3>1 DEF Fresh
    <3>3. CASE slot[q].found = "memory"
      <4>1. /\ HasMemory(slot[q], t)
            /\ uses'[t].memory = uses[t].memory + 1
            /\ uses'[t].document = uses[t].document
        BY <3>1, <3>3, <2>5, <1>5 DEF HasMemory
      <4>2. OneMemory(t)'
        BY <2>1, <2>2, <2>3, <3>1, <4>1 DEF OneMemory
      <4>3. OneDocument(t)'
        BY <2>1, <2>2, <2>3, <4>1 DEF OneDocument
      <4> QED BY <3>2, <4>2, <4>3
    <3>4. CASE slot[q].found # "memory"
      <4>1. /\ HasDocument(slot[q], t)
            /\ uses'[t].memory = uses[t].memory
            /\ uses'[t].document = uses[t].document + 1
        BY <3>1, <3>4, <2>5, <1>5 DEF HasDocument, Takes
      <4>2. OneMemory(t)'
        BY <2>1, <2>2, <2>3, <4>1 DEF OneMemory
      <4>3. \A p \in Slots : HasDocument(slot[p], t) => Takes(slot[p], t)
        BY DEF HasDocument, Takes
      <4>4. OneDocument(t)'
        BY <2>1, <2>2, <2>3, <3>1, <4>1, <4>3 DEF OneDocument
      <4> QED BY <3>2, <4>2, <4>4
    <3> QED BY <3>3, <3>4
  <2> QED BY <2>4, <2>5
<1> QED BY <1>4, <1>5 DEF SpentInv

LEMMA CallbackSpent ==
    ASSUME BoundInv, SpentInv, NEW q \in Slots, NEW g \in Signins,
           NEW p \in People, Callback(q, g, p)
    PROVE  SpentInv'
<1> DEFINE s == [stage |-> "store", at |-> pending[g].at, ticket |-> g]
           r == [client |-> pending[g].client,
                 redirect |-> pending[g].redirect,
                 challenge |-> pending[g].challenge, person |-> p,
                 resource |-> pending[g].resource, from |-> g,
                 left |-> CodeTtl]
<1>1. /\ slot[q].stage = "idle" /\ pending[g] # None /\ p \in Allowed
      /\ record' = [record EXCEPT ![g] = r]
      /\ memory' = [memory EXCEPT ![pending[g].at] = @ \cup {g}]
      /\ slot' = [slot EXCEPT ![q] = s]
      /\ UNCHANGED <<documents, known, uses, overlapped>>
  BY DEF Callback, Free
<1>2. /\ pending[g] \in Asked /\ g \in Tickets /\ record[g] = None
      /\ record = [t \in Tickets |-> record[t]]
  BY <1>1 DEF BoundInv, Shapes, OneCallback, Tickets
<1>3. /\ r \in Record /\ pending[g].at \in Instances
      /\ s \in Storing /\ Stores(s, g)
  BY <1>1, <1>2, TtlAssumption DEF Asked, Record, Storing, Stores
<1>4. r # None /\ ~Stores(slot[q], g)
  BY <1>1, <1>3, NoneAssumption DEF Stores
<1> HIDE DEF s, r
<1>5. record'[g] = r /\ record' = [record EXCEPT ![g] = record'[g]]
  BY <1>1, <1>2
<1>6. SpentShapes'
  BY <1>1, <1>2, <1>3 DEF SpentInv, SpentShapes, Handlers, Stores
<1> QED BY <1>1, <1>2, <1>3, <1>4, <1>5, <1>6, TicketMade

LEMMA MintSpent ==
    ASSUME BoundInv, SpentInv, NEW q \in Slots, NEW claim \in Claim,
           NEW n \in Refreshes, Mint(q, claim, n)
    PROVE  SpentInv'
<1> DEFINE t == slot[q].ticket
           found == slot[q].found
           i == slot[q].at
           r == [record[t] EXCEPT !.left = RefreshTtl]
           s == [stage |-> "store", at |-> i, ticket |-> n]
<1>1. /\ slot[q].stage = "judge" /\ found # "nothing"
      /\ record[n] = None
      /\ uses' = [uses EXCEPT ![t][found] = @ + 1]
      /\ record' = [record EXCEPT ![n] = r]
      /\ memory' = [memory EXCEPT ![i] = @ \cup {n}]
      /\ slot' = [slot EXCEPT ![q] = s]
      /\ UNCHANGED <<documents, known, overlapped>>
  BY DEF Mint, Redeems, Unissued
<1>2. slot[q] \in Taking
  BY <1>1 DEF SpentInv, SpentShapes, Handlers, Idle, Refused, Storing
<1>3. /\ t \in Tickets /\ n \in Tickets /\ i \in Instances
      /\ found \in {"memory", "document"}
  BY <1>1, <1>2 DEF Taking, Tickets
<1>4. record[t] \in Record /\ record = [u \in Tickets |-> record[u]]
  BY <1>1, <1>3 DEF BoundInv, Shapes, Issued, Holding
<1>5. /\ r \in Record /\ s \in Storing /\ Stores(s, n)
      /\ t # n /\ Takes(slot[q], t) /\ ~Stores(slot[q], n)
  BY <1>1, <1>3, <1>4, TtlAssumption, NoneAssumption
     DEF Record, Storing, Stores, Takes
<1>6. r # None
  BY <1>5, NoneAssumption
<1>7. /\ uses' \in [Tickets -> [memory : Nat, document : Nat]]
      /\ \A u \in Tickets \ {t} : uses'[u] = uses[u]
      /\ \/ /\ found = "memory"
            /\ uses'[t].memory = uses[t].memory + 1
            /\ uses'[t].document = uses[t].document
         \/ /\ found = "document"
            /\ uses'[t].memory = uses[t].memory
            /\ uses'[t].document = uses[t].document + 1
  <2> DEFINE x == uses[t]
  <2>1. x \in [memory : Nat, document : Nat]
    BY <1>3 DEF SpentInv, SpentShapes
  <2> HIDE DEF x
  <2>2. /\ [x EXCEPT !.memory = @ + 1] \in [memory : Nat, document : Nat]
        /\ [x EXCEPT !.memory = @ + 1].memory = x.memory + 1
        /\ [x EXCEPT !.memory = @ + 1].document = x.document
        /\ [x EXCEPT !.document = @ + 1] \in [memory : Nat, document : Nat]
        /\ [x EXCEPT !.document = @ + 1].memory = x.memory
        /\ [x EXCEPT !.document = @ + 1].document = x.document + 1
    BY <2>1
  <2>3. \/ /\ found = "memory"
           /\ uses' = [uses EXCEPT ![t] = [x EXCEPT !.memory = @ + 1]]
        \/ /\ found = "document"
           /\ uses' = [uses EXCEPT ![t] = [x EXCEPT !.document = @ + 1]]
    BY <1>1, <1>3 DEF x
  <2> HIDE DEF t, found
  <2> QED BY <2>2, <2>3, <1>3 DEF x, SpentInv, SpentShapes
<1> HIDE DEF t, found, i, r, s
<1>8. record'[n] = r /\ record' = [record EXCEPT ![n] = record'[n]]
  BY <1>1, <1>3, <1>4
<1>9. SpentShapes'
  BY <1>1, <1>3, <1>5, <1>7 DEF SpentInv, SpentShapes, Handlers, Stores
<1>10. ASSUME NEW u \in Tickets, u # n, uses'[u] # uses[u]
       PROVE  u = t
  BY <1>7, <1>10
<1>11. uses'[n] = uses[n]
  BY <1>3, <1>5, <1>7
<1>12. ASSUME NEW u \in Tickets, u # n, uses'[u] # uses[u]
       PROVE  /\ Takes(slot[q], u)
              /\ slot[q].stage = "judge"
              /\ \/ /\ slot[q].found = "memory"
                    /\ uses'[u].memory = uses[u].memory + 1
                    /\ uses'[u].document = uses[u].document
                 \/ /\ slot[q].found = "document"
                    /\ uses'[u].memory = uses[u].memory
                    /\ uses'[u].document = uses[u].document + 1
  <2>1. u = t
    BY <1>10, <1>12
  <2>2. slot[q].found = found
    BY DEF found
  <2> QED BY <2>1, <2>2, <1>1, <1>5, <1>7
<1>13. record'[n] # None
  BY <1>6, <1>8
<1> QED BY <1>1, <1>3, <1>5, <1>8, <1>9, <1>11, <1>12, <1>13, TicketMade

(* The document is written and the ticket handed over: once.               *)
LEMMA StoreSpent ==
    ASSUME BoundInv, SpentInv, NEW q \in Slots, Store(q)
    PROVE  SpentInv'
<1>0. PICK n : n = slot[q].ticket
  OBVIOUS
<1>1. /\ slot[q].stage = "store"
      /\ documents' \in {documents, documents \cup {n}}
      /\ known' = known \cup {n}
      /\ slot' = [slot EXCEPT ![q] = Idle]
      /\ UNCHANGED <<record, memory, uses, overlapped>>
  BY <1>0 DEF Store
<1>2. /\ n \in Tickets /\ record[n] # None /\ Stores(slot[q], n)
  BY <1>0, <1>1 DEF BoundInv, Issued, Holding, Stores
<1>3. n \notin known /\ Fresh(n) /\ OneMemory(n) /\ OneDocument(n)
  BY <1>2 DEF SpentInv, Fresh
<1>4. SpentShapes'
  BY <1>1, <1>2 DEF SpentInv, SpentShapes, Handlers, Idle
<1>5. /\ slot'[q] = Idle
      /\ \A p \in Slots \ {q} : slot'[p] = slot[p]
  BY <1>1 DEF SpentInv, SpentShapes
<1>6. \A t : ~Takes(Idle, t) /\ ~Stores(Idle, t) /\ ~HasMemory(Idle, t)
             /\ ~HasDocument(Idle, t)
  BY DEF Takes, Stores, HasMemory, HasDocument, Idle
<1>7. ASSUME NEW t \in Tickets
      PROVE  Fresh(t)' /\ OneMemory(t)' /\ OneDocument(t)'
  <2>1. Fresh(t) /\ OneMemory(t) /\ OneDocument(t)
    BY DEF SpentInv
  <2>2. \A p \in Slots :
           /\ Takes(slot'[p], t) => p # q /\ slot'[p] = slot[p]
           /\ Stores(slot'[p], t) => p # q /\ slot'[p] = slot[p]
           /\ HasMemory(slot'[p], t) => p # q /\ slot'[p] = slot[p]
           /\ HasDocument(slot'[p], t) => p # q /\ slot'[p] = slot[p]
    BY <1>5, <1>6
  <2>3. OneMemory(t)'
    BY <2>1, <2>2, <1>1 DEF OneMemory
  <2>4. CASE t = n
    <3>1. \A p \in Slots : ~Takes(slot'[p], n) /\ ~HasDocument(slot'[p], n)
      BY <2>2, <2>4, <1>3 DEF Fresh, HasDocument, Takes
    <3>2. uses[n].document = 0
      BY <1>3 DEF Fresh
    <3>3. \A p \in Slots : ~Stores(slot'[p], n)
      BY <2>2, <2>4, <1>2, <1>3 DEF Fresh
    <3>4. Fresh(n)'
      BY <3>1, <3>3, <1>1, <1>2 DEF Fresh
    <3>5. OneDocument(n)'
      BY <3>1, <3>2, <1>1 DEF OneDocument
    <3> QED BY <2>3, <2>4, <3>4, <3>5
  <2>5. CASE t # n
    <3>1. /\ t \in documents' <=> t \in documents
          /\ t \in known' <=> t \in known
      BY <2>5, <1>1
    <3>2. Fresh(t)'
      BY <2>1, <2>2, <3>1, <1>1 DEF Fresh
    <3>3. OneDocument(t)'
      BY <2>1, <2>2, <3>1, <1>1 DEF OneDocument
    <3> QED BY <2>3, <3>2, <3>3
  <2> QED BY <2>4, <2>5
<1> QED BY <1>4, <1>7 DEF SpentInv

(* A take begins: the copy in memory leaves it for this handler.           *)
LEMMA PresentSpent ==
    ASSUME BoundInv, SpentInv, NEW q \in Slots, NEW i \in Instances,
           NEW t \in Tickets, Present(q, i, t)
    PROVE  SpentInv'
<1>1. PICK s \in Taking :
         /\ slot' = [slot EXCEPT ![q] = s]
         /\ s.ticket = t
         /\ s.found = "memory" => t \in memory[i]
         /\ s.found # "document"
         /\ s.stage = "delete" /\ s.seen => t \in documents
  <2> DEFINE took == [stage |-> "judge", at |-> i, ticket |-> t,
                      found |-> FoundFirst(i, t), seen |-> FALSE,
                      reach |-> \/ t \in memory[i]
                                \/ i \in Durable /\ t \in documents,
                      missed |-> FALSE]
             read == [took EXCEPT !.stage = "delete",
                         !.seen = t \notin memory[i] /\ t \in documents]
             fell == [took EXCEPT !.missed = t \notin memory[i]]
  <2>1. \/ slot' = [slot EXCEPT ![q] = read]
        \/ slot' = [slot EXCEPT ![q] = fell]
        \/ slot' = [slot EXCEPT ![q] = took]
    BY DEF Present
  <2>2. /\ FoundFirst(i, t) \in {"nothing", "memory"}
        /\ FoundFirst(i, t) = "memory" => t \in memory[i]
    BY DEF FoundFirst
  <2>3. /\ took \in Taking /\ took.ticket = t /\ took.stage = "judge"
        /\ took.found = FoundFirst(i, t)
    BY <2>2 DEF Taking
  <2>4. /\ read \in Taking /\ read.ticket = t
        /\ read.found = FoundFirst(i, t)
        /\ read.seen => t \in documents
    BY <2>2 DEF Taking
  <2>5. /\ fell \in Taking /\ fell.ticket = t /\ fell.stage = "judge"
        /\ fell.found = FoundFirst(i, t)
    BY <2>2 DEF Taking
  <2> HIDE DEF took, read, fell
  <2> QED BY <2>1, <2>2, <2>3, <2>4, <2>5
<1>2. /\ slot[q].stage = "idle" /\ t \in known
      /\ memory' = [memory EXCEPT ![i] = @ \ {t}]
      /\ overlapped \subseteq overlapped'
      /\ TakingNow(t) # {} => t \in overlapped'
      /\ UNCHANGED <<record, documents, known, uses>>
  BY DEF Present, Free
<1>3. SpentShapes'
  BY <1>1, <1>2 DEF SpentInv, SpentShapes, Handlers
<1>4. /\ slot'[q] = s
      /\ \A p \in Slots \ {q} : slot'[p] = slot[p]
      /\ \A j \in Instances : memory'[j] \subseteq memory[j]
      /\ t \notin memory'[i]
  BY <1>1, <1>2 DEF SpentInv, SpentShapes
<1>5. /\ s.stage \in {"delete", "judge"}
      /\ Takes(s, t) /\ \A u : ~Stores(s, u)
      /\ \A u : u # t =>
            ~Takes(s, u) /\ ~HasMemory(s, u) /\ ~HasDocument(s, u)
  BY <1>1 DEF Taking, Takes, Stores, HasMemory, HasDocument
<1>6. ASSUME NEW u \in Tickets, u # t
      PROVE  Fresh(u)' /\ OneMemory(u)' /\ OneDocument(u)'
  <2>1. Fresh(u) /\ OneMemory(u) /\ OneDocument(u)
    BY DEF SpentInv
  <2>2. \A p \in Slots :
           /\ Takes(slot'[p], u) => p # q /\ slot'[p] = slot[p]
           /\ Stores(slot'[p], u) => p # q /\ slot'[p] = slot[p]
           /\ HasMemory(slot'[p], u) => p # q /\ slot'[p] = slot[p]
           /\ HasDocument(slot'[p], u) => p # q /\ slot'[p] = slot[p]
    BY <1>4, <1>5, <1>6
  <2>3. Fresh(u)'
    BY <2>1, <2>2, <1>2, <1>4 DEF Fresh
  <2>4. OneMemory(u)'
    BY <2>1, <2>2, <1>2, <1>4 DEF OneMemory
  <2>5. OneDocument(u)'
    BY <2>1, <2>2, <1>2 DEF OneDocument
  <2> QED BY <2>3, <2>4, <2>5
<1>7. Fresh(t) /\ OneMemory(t) /\ OneDocument(t)
  BY DEF SpentInv
<1>8. Fresh(t)'
  BY <1>7, <1>2, <1>4, <1>5 DEF Fresh
<1>9. OneMemory(t)'
  <2>1. CASE HasMemory(s, t)
    <3>1. t \in memory[i]
      BY <2>1, <1>1 DEF HasMemory
    <3>2. /\ \A p \in Slots : ~HasMemory(slot[p], t)
          /\ uses[t].memory = 0
          /\ \A j \in Instances : t \in memory[j] => j = i
      BY <3>1, <1>7 DEF OneMemory, SpentInv, SpentShapes
    <3>3. \A j \in Instances : t \notin memory'[j]
      BY <3>2, <1>4
    <3>4. \A p \in Slots : HasMemory(slot'[p], t) => p = q
      BY <3>2, <1>4
    <3> QED BY <3>2, <3>3, <3>4, <1>2 DEF OneMemory
  <2>2. CASE ~HasMemory(s, t)
    <3>1. \A p \in Slots :
             HasMemory(slot'[p], t) => p # q /\ slot'[p] = slot[p]
      BY <2>2, <1>4
    <3> QED BY <3>1, <1>2, <1>4, <1>7 DEF OneMemory
  <2> QED BY <2>1, <2>2
<1>10. OneDocument(t)'
  <2> SUFFICES ASSUME t \notin overlapped'
               PROVE  OneDocument(t)'
    BY DEF OneDocument
  <2>1. /\ t \notin overlapped
        /\ \A p \in Slots : ~Takes(slot[p], t)
    BY <1>2 DEF TakingNow, Takes
  <2>2. \A p \in Slots : Takes(slot'[p], t) => p = q
    BY <2>1, <1>4
  <2>3. \A p \in Slots : HasDocument(slot'[p], t) =>
           p = q /\ s.stage = "delete" /\ t \in documents
    BY <2>2, <1>1, <1>4 DEF HasDocument, Takes
  <2>4. /\ uses[t].document > 0 => t \notin documents
        /\ uses[t].document <= 1 /\ uses[t].document \in Nat
    BY <2>1, <1>7 DEF OneDocument, SpentInv, SpentShapes
  <2> QED BY <2>2, <2>3, <2>4, <1>2, <1>4 DEF OneDocument
<1> QED BY <1>3, <1>6, <1>8, <1>9, <1>10 DEF SpentInv

(* The delete: a document that was seen is now this handler's alone, or,   *)
(* when the delete raised, nobody's.                                       *)
LEMMA DeleteSpent ==
    ASSUME BoundInv, SpentInv, NEW q \in Slots, DeleteDocument(q)
    PROVE  SpentInv'
<1>1. PICK x, t : x = slot[q] /\ t = x.ticket
  OBVIOUS
<1>2. /\ x.stage = "delete" /\ x \in Taking /\ x.found # "document"
      /\ t \in Tickets
  BY <1>1 DEF DeleteDocument, SpentInv, SpentShapes, Handlers, Idle, Taking,
              Refused, Storing
<1>3. PICK s \in Taking :
         /\ slot' = [slot EXCEPT ![q] = s]
         /\ s.ticket = t /\ s.stage = "judge"
         /\ s.found = "memory" => x.found = "memory"
         /\ s.found = "document" => x.seen /\ t \notin documents'
         /\ documents' \in {documents, documents \ {t}}
  <2> DEFINE had == [x EXCEPT !.stage = "judge",
                              !.found = FoundAfterDelete(q)]
             lost == [x EXCEPT !.stage = "judge",
                               !.missed = (x.found = "nothing")]
  <2>1. \/ documents' = documents \ {t} /\ slot' = [slot EXCEPT ![q] = had]
        \/ documents' = documents /\ slot' = [slot EXCEPT ![q] = lost]
    BY <1>1 DEF DeleteDocument
  <2>2. FoundAfterDelete(q) = IF x.seen THEN "document" ELSE x.found
    BY <1>1 DEF FoundAfterDelete
  <2>3. /\ had \in Taking /\ had.ticket = t /\ had.stage = "judge"
        /\ had.found = IF x.seen THEN "document" ELSE x.found
    BY <1>1, <1>2, <2>2 DEF Taking
  <2>4. /\ lost \in Taking /\ lost.ticket = t /\ lost.stage = "judge"
        /\ lost.found = x.found
    BY <1>1, <1>2 DEF Taking
  <2> HIDE DEF had, lost
  <2> QED BY <2>1, <2>3, <2>4, <1>2
<1>4. UNCHANGED <<record, memory, known, uses, overlapped>>
  BY DEF DeleteDocument
<1>5. SpentShapes'
  BY <1>3, <1>4 DEF SpentInv, SpentShapes, Handlers
<1>6. /\ slot'[q] = s
      /\ \A p \in Slots \ {q} : slot'[p] = slot[p]
  BY <1>3 DEF SpentInv, SpentShapes
<1>7. /\ Takes(x, t) /\ (HasMemory(s, t) => HasMemory(x, t))
      /\ HasDocument(s, t) => HasDocument(x, t) /\ t \notin documents'
      /\ \A u : ~Stores(s, u)
      /\ \A u : u # t =>
            ~Takes(s, u) /\ ~HasMemory(s, u) /\ ~HasDocument(s, u)
  BY <1>1, <1>2, <1>3 DEF Takes, Stores, HasMemory, HasDocument
<1>8. ASSUME NEW u \in Tickets
      PROVE  Fresh(u)' /\ OneMemory(u)' /\ OneDocument(u)'
  <2>1. /\ Fresh(u) /\ OneMemory(u) /\ OneDocument(u)
        /\ u \in documents' => u \in documents
    BY <1>3 DEF SpentInv
  <2>2. \A p \in Slots :
           /\ Takes(slot'[p], u) => Takes(slot[p], u)
           /\ Stores(slot'[p], u) => Stores(slot[p], u)
           /\ HasMemory(slot'[p], u) => HasMemory(slot[p], u)
           /\ HasDocument(slot'[p], u) =>
                 /\ HasDocument(slot[p], u)
                 /\ slot'[p] = slot[p] \/ u \notin documents'
    BY <1>1, <1>6, <1>7
  <2>3. Fresh(u)'
    BY <2>1, <2>2, <1>4 DEF Fresh
  <2>4. OneMemory(u)'
    BY <2>1, <2>2, <1>4 DEF OneMemory
  <2>5. OneDocument(u)'
    BY <2>1, <2>2, <1>4 DEF OneDocument
  <2> QED BY <2>3, <2>4, <2>5
<1> QED BY <1>5, <1>8 DEF SpentInv

(* The steps that take nothing.                                            *)
LEMMA OthersSpent ==
    ASSUME BoundInv, SpentInv,
           \/ UNCHANGED vars \/ Tick
           \/ \E i \in Instances : Stop(i)
           \/ \E i \in Instances, c \in Clients : Register(i, c)
           \/ \E i \in Instances, g \in Signins, c \in Clients,
                 u \in Redirects, v \in Verifiers, r \in Resources :
                 Authorize(i, g, c, u, v, r)
           \/ \E g \in Signins : CallbackRefused(g)
           \/ \E q \in Slots : RefuseMismatch(q) \/ Refuse(q) \/ Reply(q)
    PROVE  SpentInv'
<1>1. CASE \/ UNCHANGED vars
           \/ \E i \in Instances, c \in Clients : Register(i, c)
           \/ \E i \in Instances, g \in Signins, c \in Clients,
                 u \in Redirects, v \in Verifiers, r \in Resources :
                 Authorize(i, g, c, u, v, r)
           \/ \E g \in Signins : CallbackRefused(g)
  <2>1. UNCHANGED <<record, memory, documents, slot, known, uses, overlapped>>
    BY <1>1 DEF vars, Register, Authorize, CallbackRefused
  <2> QED BY <2>1, NothingTaken DEF SpentInv, SpentShapes
<1>2. CASE Tick
  <2>1. /\ record' = [t \in Tickets |-> Aged(record[t])]
        /\ UNCHANGED <<memory, documents, slot, known, uses, overlapped>>
    BY <1>2 DEF Tick
  <2>2. ASSUME NEW t \in Tickets, record'[t] = None
        PROVE  record[t] = None
    <3> SUFFICES ASSUME record[t] # None PROVE FALSE
      OBVIOUS
    <3>1. record[t] \in Record
      BY DEF BoundInv, Shapes
    <3>2. Aged(record[t]) \in Record
      BY <3>1 DEF Aged, Record
    <3> QED BY <3>2, <2>1, <2>2, NoneAssumption
  <2> QED BY <2>1, <2>2, NothingTaken DEF SpentInv, SpentShapes
<1>3. ASSUME NEW i \in Instances, Stop(i) PROVE SpentInv'
  <2>1. /\ memory' = [memory EXCEPT ![i] = {}]
        /\ slot' = [q \in Slots |->
               IF slot[q] # Idle /\ slot[q].at = i THEN Idle ELSE slot[q]]
        /\ UNCHANGED <<record, documents, known, uses, overlapped>>
    BY <1>3 DEF Stop
  <2>2. /\ Idle.stage = "idle" /\ Idle \in Handlers
        /\ \A q \in Slots : slot'[q] = slot[q] \/ slot'[q] = Idle
    BY <2>1 DEF Idle, Handlers
  <2>3. SpentShapes'
    BY <2>1, <2>2 DEF SpentInv, SpentShapes
  <2>4. \A j \in Instances : memory'[j] \subseteq memory[j]
    BY <2>1 DEF SpentInv, SpentShapes
  <2> QED BY <2>1, <2>2, <2>3, <2>4, NothingTaken
<1>4. ASSUME NEW q \in Slots, RefuseMismatch(q) \/ Refuse(q) \/ Reply(q)
      PROVE  SpentInv'
  <2>1. UNCHANGED <<record, memory, documents, known, uses, overlapped>>
    BY <1>4 DEF RefuseMismatch, Refuse, Reply
  <2>2. PICK s \in Handlers : /\ slot' = [slot EXCEPT ![q] = s]
                              /\ s.stage \in {"idle", "refused"}
    <3>1. CASE RefuseMismatch(q) \/ Reply(q)
      BY <3>1 DEF RefuseMismatch, Reply, Handlers, Idle
    <3>2. CASE Refuse(q)
      <4> DEFINE x == slot[q]
                 s == [stage |-> "refused", at |-> x.at, ticket |-> x.ticket,
                       reach |-> x.reach, missed |-> x.missed]
      <4>1. slot' = [slot EXCEPT ![q] = s] /\ x.stage = "judge"
        BY <3>2 DEF Refuse
      <4>2. x \in Taking
        BY <4>1 DEF SpentInv, SpentShapes, Handlers, Idle, Refused, Storing
      <4>3. s \in Refused /\ s.stage = "refused"
        BY <4>2 DEF Taking, Refused
      <4> HIDE DEF x, s
      <4> QED BY <4>1, <4>3 DEF Handlers
    <3> QED BY <1>4, <3>1, <3>2
  <2>3. /\ slot'[q].stage \in {"idle", "refused"}
        /\ \A p \in Slots \ {q} : slot'[p] = slot[p]
    BY <2>2 DEF SpentInv, SpentShapes
  <2>4. SpentShapes'
    BY <2>1, <2>2 DEF SpentInv, SpentShapes
  <2> QED BY <2>1, <2>3, <2>4, NothingTaken DEF SpentInv, SpentShapes
<1> QED BY <1>1, <1>2, <1>3, <1>4

(* No copy is spent twice, whatever fails, stops or runs at the same time. *)
LEMMA SpentInvariant == Spec => []SpentInv
<1>1. BoundInv /\ SpentInv /\ [Next]_vars => SpentInv'
  <2> SUFFICES ASSUME BoundInv, SpentInv, [Next]_vars PROVE SpentInv'
    OBVIOUS
  <2>1. CASE UNCHANGED vars \/ Tick \/ \E i \in Instances : Stop(i)
    BY <2>1, OthersSpent
  <2>2. CASE Signin
    BY <2>2, OthersSpent, CallbackSpent DEF Signin
  <2>3. ASSUME NEW q \in Slots, Exchange(q) PROVE SpentInv'
    <3>1. CASE RefuseMismatch(q) \/ Refuse(q) \/ Reply(q)
      BY <3>1, OthersSpent
    <3> QED BY <2>3, <3>1, PresentSpent, DeleteSpent, MintSpent, StoreSpent
            DEF Exchange
  <2> QED BY <2>1, <2>2, <2>3 DEF Next
<1> QED BY InitSpent, <1>1, BoundInvariant, PTL DEF Spec

(* "a code is single-use by construction here" (Store.take_code) holds per *)
(* copy, and of the document while no two takes of it overlap.             *)
THEOREM TicketsAreSpentOnce == Spec => []SpentOncePerCopy
<1>1. SpentInv => SpentOncePerCopy
  BY DEF SpentInv, OneMemory, OneDocument, SpentOncePerCopy
<1> QED BY <1>1, SpentInvariant, PTL

(***************************************************************************)
(* Refusals                                                                *)
(***************************************************************************)
\* A copy within reach was found, is about to be, or was lost to a fault.
Honest(s) ==
    /\ s.stage = "delete" => (s.reach => s.found = "memory" \/ s.seen)
    /\ s.stage = "judge" => (s.found = "nothing" => ~s.reach \/ s.missed)

Caused(s) ==
    s.stage = "refused" =>
        /\ s.ticket \in Tickets /\ record[s.ticket] # None
        /\ ~s.reach \/ s.missed \/ Expired(record[s.ticket])

CauseInv == \A q \in Slots : Honest(slot[q]) /\ Caused(slot[q])

\* What may happen to a record: it is made, or it ages.
RecordsAge ==
    \A t \in Tickets :
        record[t] # None => /\ record'[t] # None
                            /\ Expired(record[t]) => Expired(record'[t])

LEMMA AlwaysAge ==
    ASSUME BoundInv, [Next]_vars
    PROVE  RecordsAge
<1>1. CASE Tick
  <2> SUFFICES ASSUME NEW t \in Tickets, record[t] # None
               PROVE  /\ record'[t] # None
                      /\ Expired(record[t]) => Expired(record'[t])
    BY DEF RecordsAge
  <2> DEFINE k == record[t]
  <2>1. k \in Record /\ record'[t] = Aged(k)
    BY <1>1 DEF Tick, BoundInv, Shapes
  <2> HIDE DEF k
  <2>2. Aged(k) \in Record /\ (Expired(k) => Aged(k) = k)
    BY <2>1 DEF Aged, Expired, Record
  <2> QED BY <2>1, <2>2, NoneAssumption DEF k
<1>2. ASSUME NEW q \in Slots, NEW g \in Signins, NEW p \in People,
             Callback(q, g, p)
      PROVE  RecordsAge
  <2>1. record[g] = None
    BY <1>2 DEF Callback, BoundInv, OneCallback
  <2>2. \A t \in Tickets : t # g => record'[t] = record[t]
    BY <1>2 DEF Callback, BoundInv, Shapes
  <2> QED BY <2>1, <2>2 DEF RecordsAge
<1>3. ASSUME NEW q \in Slots, NEW claim \in Claim, NEW n \in Refreshes,
             Mint(q, claim, n)
      PROVE  RecordsAge
  <2>1. record[n] = None
    BY <1>3 DEF Mint, Unissued
  <2>2. \A t \in Tickets : t # n => record'[t] = record[t]
    BY <1>3 DEF Mint, BoundInv, Shapes
  <2> QED BY <2>1, <2>2 DEF RecordsAge
<1>4. CASE UNCHANGED record
  BY <1>4 DEF RecordsAge
<1>5. \/ Tick \/ UNCHANGED record
      \/ \E q \in Slots, g \in Signins, p \in People : Callback(q, g, p)
      \/ \E q \in Slots, claim \in Claim, n \in Refreshes : Mint(q, claim, n)
  <2>1. CASE UNCHANGED vars \/ \E i \in Instances : Stop(i)
    BY <2>1 DEF vars, Stop
  <2>2. CASE Signin
    BY <2>2 DEF Signin, Register, Authorize, CallbackRefused
  <2>3. ASSUME NEW q \in Slots, Exchange(q)
        PROVE  \/ UNCHANGED record
               \/ \E claim \in Claim, n \in Refreshes : Mint(q, claim, n)
    <3>1. CASE \E i \in Instances, t \in Tickets : Present(q, i, t)
      BY <3>1 DEF Present
    <3>2. CASE DeleteDocument(q) \/ RefuseMismatch(q) \/ Refuse(q)
      BY <3>2 DEF DeleteDocument, RefuseMismatch, Refuse
    <3>3. CASE Store(q) \/ Reply(q)
      BY <3>3 DEF Store, Reply
    <3> QED BY <2>3, <3>1, <3>2, <3>3 DEF Exchange
  <2> QED BY <2>1, <2>2, <2>3 DEF Next
<1> QED BY <1>1, <1>2, <1>3, <1>4, <1>5

(* A handler that stays as it is keeps its cause.                          *)
LEMMA OneStays ==
    ASSUME CauseInv, RecordsAge, NEW p \in Slots, slot'[p] = slot[p]
    PROVE  Honest(slot'[p]) /\ Caused(slot[p])'
<1>1. PICK x : x = slot[p] /\ x = slot'[p]
  OBVIOUS
<1>2. Honest(x) /\ Caused(x)
  BY <1>1 DEF CauseInv
<1>3. x.stage = "refused" =>
         /\ x.ticket \in Tickets /\ record'[x.ticket] # None
         /\ ~x.reach \/ x.missed \/ Expired(record'[x.ticket])
  <2> SUFFICES ASSUME x.stage = "refused"
               PROVE  /\ x.ticket \in Tickets /\ record'[x.ticket] # None
                      /\ ~x.reach \/ x.missed \/ Expired(record'[x.ticket])
    OBVIOUS
  <2>1. /\ x.ticket \in Tickets /\ record[x.ticket] # None
        /\ ~x.reach \/ x.missed \/ Expired(record[x.ticket])
    BY <1>2 DEF Caused
  <2>2. /\ record'[x.ticket] # None
        /\ Expired(record[x.ticket]) => Expired(record'[x.ticket])
    BY <2>1 DEF RecordsAge
  <2> QED BY <2>1, <2>2
<1>4. Caused(slot[p])'
  BY <1>1, <1>3 DEF Caused, Expired
<1> QED BY <1>1, <1>2, <1>4

(* One handler moves on to a state whose refusal has its cause.            *)
LEMMA OneMoves ==
    ASSUME SpentInv, CauseInv, RecordsAge, NEW q \in Slots, NEW s,
           slot' = [slot EXCEPT ![q] = s], Honest(s), Caused(s)'
    PROVE  CauseInv'
<1> SUFFICES ASSUME NEW p \in Slots
             PROVE  Honest(slot'[p]) /\ Caused(slot[p])'
  BY DEF CauseInv, Honest
<1>1. CASE p = q
  BY <1>1 DEF SpentInv, SpentShapes, Caused
<1>2. CASE p # q
  <2>1. slot'[p] = slot[p]
    BY <1>2 DEF SpentInv, SpentShapes
  <2> QED BY <2>1, OneStays
<1> QED BY <1>1, <1>2

(* Steps that leave every handler alone or end it.                         *)
LEMMA SomeEnd ==
    ASSUME CauseInv, RecordsAge,
           \A q \in Slots : slot'[q] = slot[q] \/ slot'[q].stage = "idle"
    PROVE  CauseInv'
<1> SUFFICES ASSUME NEW p \in Slots
             PROVE  Honest(slot'[p]) /\ Caused(slot[p])'
  BY DEF CauseInv, Honest
<1>1. CASE slot'[p] = slot[p]
  BY <1>1, OneStays
<1>2. CASE slot'[p].stage = "idle"
  BY <1>2 DEF Honest, Caused
<1> QED BY <1>1, <1>2

LEMMA StepCause ==
    ASSUME BoundInv, SpentInv, CauseInv, [Next]_vars
    PROVE  CauseInv'
<1>1. RecordsAge
  BY AlwaysAge
<1>2. CASE \/ UNCHANGED vars \/ Tick \/ \E i \in Instances : Stop(i)
           \/ \E i \in Instances, c \in Clients : Register(i, c)
           \/ \E i \in Instances, g \in Signins, c \in Clients,
                 u \in Redirects, v \in Verifiers, r \in Resources :
                 Authorize(i, g, c, u, v, r)
           \/ \E g \in Signins : CallbackRefused(g)
           \/ \E q \in Slots : RefuseMismatch(q) \/ Store(q) \/ Reply(q)
  <2>1. \A q \in Slots : slot'[q] = slot[q] \/ slot'[q].stage = "idle"
    BY <1>2 DEF vars, Tick, Stop, Register, Authorize, CallbackRefused,
                RefuseMismatch, Store, Reply, Idle, SpentInv, SpentShapes
  <2> QED BY <1>1, <2>1, SomeEnd
<1>3. ASSUME NEW q \in Slots, NEW g \in Signins, NEW p \in People,
             Callback(q, g, p)
      PROVE  CauseInv'
  <2> DEFINE s == [stage |-> "store", at |-> pending[g].at, ticket |-> g]
  <2>1. slot' = [slot EXCEPT ![q] = s] /\ s.stage = "store"
    BY <1>3 DEF Callback
  <2> HIDE DEF s
  <2> QED BY <2>1, <1>1, OneMoves DEF Honest, Caused
<1>4. ASSUME NEW q \in Slots, NEW claim \in Claim, NEW n \in Refreshes,
             Mint(q, claim, n)
      PROVE  CauseInv'
  <2> DEFINE s == [stage |-> "store", at |-> slot[q].at, ticket |-> n]
  <2>1. slot' = [slot EXCEPT ![q] = s] /\ s.stage = "store"
    BY <1>4 DEF Mint
  <2> HIDE DEF s
  <2> QED BY <2>1, <1>1, OneMoves DEF Honest, Caused
<1>5. ASSUME NEW q \in Slots, NEW i \in Instances, NEW t \in Tickets,
             Present(q, i, t)
      PROVE  CauseInv'
  <2> DEFINE took == [stage |-> "judge", at |-> i, ticket |-> t,
                      found |-> FoundFirst(i, t), seen |-> FALSE,
                      reach |-> \/ t \in memory[i]
                                \/ i \in Durable /\ t \in documents,
                      missed |-> FALSE]
             read == [took EXCEPT !.stage = "delete",
                         !.seen = t \notin memory[i] /\ t \in documents]
             fell == [took EXCEPT !.missed = t \notin memory[i]]
  <2>1. \/ slot' = [slot EXCEPT ![q] = read]
        \/ slot' = [slot EXCEPT ![q] = fell]
        \/ i \notin Durable /\ slot' = [slot EXCEPT ![q] = took]
    BY <1>5 DEF Present
  <2>2. FoundFirst(i, t) = IF t \in memory[i] THEN "memory" ELSE "nothing"
    BY DEF FoundFirst
  <2>3. Honest(read) /\ Honest(fell) /\ (i \notin Durable => Honest(took))
    BY <2>2 DEF Honest
  <2>4. /\ read.stage = "delete" /\ fell.stage = "judge"
        /\ took.stage = "judge"
    OBVIOUS
  <2> HIDE DEF took, read, fell
  <2>5. PICK s : /\ slot' = [slot EXCEPT ![q] = s]
                 /\ Honest(s) /\ s.stage # "refused"
    BY <2>1, <2>3, <2>4
  <2> QED BY <2>5, <1>1, OneMoves DEF Caused
<1>6. ASSUME NEW q \in Slots, DeleteDocument(q)
      PROVE  CauseInv'
  <2>1. PICK x : x = slot[q]
    OBVIOUS
  <2>2. x \in Taking /\ x.stage = "delete" /\ Honest(x)
    BY <1>6, <2>1 DEF DeleteDocument, SpentInv, SpentShapes, Handlers, Idle,
                      Refused, Storing, CauseInv
  <2> DEFINE had == [x EXCEPT !.stage = "judge",
                              !.found = FoundAfterDelete(q)]
             lost == [x EXCEPT !.stage = "judge",
                               !.missed = (x.found = "nothing")]
  <2>3. \/ slot' = [slot EXCEPT ![q] = had]
        \/ slot' = [slot EXCEPT ![q] = lost]
    BY <1>6, <2>1 DEF DeleteDocument
  <2>4. FoundAfterDelete(q) = IF x.seen THEN "document" ELSE x.found
    BY <2>1 DEF FoundAfterDelete
  <2>5. Honest(had) /\ had.stage = "judge"
    BY <2>2, <2>4 DEF Honest, Taking
  <2>6. Honest(lost) /\ lost.stage = "judge"
    BY <2>2 DEF Honest, Taking
  <2> HIDE DEF had, lost
  <2>7. PICK s : /\ slot' = [slot EXCEPT ![q] = s]
                 /\ Honest(s) /\ s.stage = "judge"
    BY <2>3, <2>5, <2>6
  <2> QED BY <2>7, <1>1, OneMoves DEF Caused
<1>7. ASSUME NEW q \in Slots, Refuse(q)
      PROVE  CauseInv'
  <2>1. PICK x : x = slot[q]
    OBVIOUS
  <2>2. /\ x \in Taking /\ x.stage = "judge" /\ Honest(x)
        /\ record[x.ticket] # None
    BY <1>7, <2>1 DEF Refuse, SpentInv, SpentShapes, Handlers, Idle,
                      Refused, Storing, CauseInv, BoundInv, Issued, Holding
  <2> DEFINE s == [stage |-> "refused", at |-> x.at, ticket |-> x.ticket,
                   reach |-> x.reach, missed |-> x.missed]
  <2>3. /\ slot' = [slot EXCEPT ![q] = s]
        /\ x.found = "nothing" \/ Expired(record[x.ticket])
        /\ UNCHANGED record
    BY <1>7, <2>1 DEF Refuse
  <2>4. Honest(s) /\ Caused(s)'
    BY <2>2, <2>3 DEF Honest, Caused, Taking
  <2> HIDE DEF s
  <2> QED BY <2>3, <2>4, <1>1, OneMoves
<1> QED BY <1>2, <1>3, <1>4, <1>5, <1>6, <1>7 DEF Next, Signin, Exchange

(* A request in time that matches is refused only if no copy was within    *)
(* its reach or an exception of Firestore cost it the document.            *)
THEOREM RefusalsHaveACause == Spec => []RefusedForACause
<1>1. Init => CauseInv
  BY DEF Init, CauseInv, Honest, Caused, Idle
<1>2. BoundInv /\ SpentInv /\ CauseInv /\ [Next]_vars => CauseInv'
  BY StepCause
<1>3. CauseInv => RefusedForACause
  BY DEF CauseInv, Caused, RefusedForACause
<1> QED BY <1>1, <1>2, <1>3, BoundInvariant, SpentInvariant, PTL DEF Spec
=============================================================================
