------------------------------- MODULE McpAuth -------------------------------
(***************************************************************************)
(* The OAuth server in front of the MCP server (src/products/mcp_auth):    *)
(* dynamic registration, /authorize, Google's /callback and /token, on     *)
(* several Cloud Run instances that each keep clients, pending sign-ins,   *)
(* authorization codes and refresh tokens in memory and, where the store   *)
(* answered its probe, in Firestore as well.                               *)
(*                                                                         *)
(* A code and a refresh token go through the same two functions of the     *)
(* store (put_code/put_refresh, take_code/take_refresh), so both are       *)
(* tickets here; the code of a sign-in bears the sign-in's name.  Every    *)
(* Firestore call is a step of its own and may raise, which the store      *)
(* swallows.  Handlers are plain functions run by a thread pool: several   *)
(* Slots run at once, in one instance or in two.                           *)
(*                                                                         *)
(* Left out: scope and state strings, response texts, RSA, hashing of      *)
(* stored refresh tokens (no property tells them apart).                   *)
(***************************************************************************)
EXTENDS Integers, FiniteSets

CONSTANTS
    Instances,   \* Cloud Run instances of the service
    Durable,     \* those whose probe of Firestore succeeded
    Slots,       \* threads: requests that can be in flight at once
    Clients, Redirects,
    RegisteredUris, \* per client, the usable redirects it registers, if any
    Verifiers,   \* PKCE verifiers, each standing for its S256 challenge too
    Resources, AllowedResources,
    People, Allowed,
    Signins,     \* sign-ins, and the authorization codes they end in
    Refreshes,   \* refresh tokens
    CodeTtl, RefreshTtl,
    MaxFaults,   \* bound: exceptions of Firestore and instances stopping
    None

ASSUME SetsAssumption ==
    /\ Durable \subseteq Instances
    /\ Allowed \subseteq People
    /\ AllowedResources \subseteq Resources
    /\ RegisteredUris \in [Clients -> SUBSET Redirects]
    /\ Signins \cap Refreshes = {}
    /\ MaxFaults \in Nat
    /\ None \notin Instances
ASSUME TtlAssumption ==
    /\ CodeTtl \in Nat
    /\ RefreshTtl \in Nat

Tickets == Signins \cup Refreshes

VARIABLES
    clients,   \* per instance, the clients its memory holds
    docClients,\* the clients in Firestore
    pending,   \* per sign-in, the authorize request _PENDING holds, and where
    record,    \* per ticket, what it grants and how long it has to live
    memory,    \* per instance, the tickets its memory holds
    documents, \* the tickets Firestore holds
    slot,      \* per thread, the handler it is running
    known,     \* tickets a client has been given in a response
    approved,  \* history: the grants a person's sign-in approved
    tokens,    \* history: the access tokens minted, with the ticket redeemed
    uses,      \* history: redemptions per ticket, from memory and document
    overlapped, \* history: tickets two handlers were taking at once
    faults     \* how often Firestore has raised or an instance has stopped

vars == <<clients, docClients, pending, record, memory, documents, slot,
          known, approved, tokens, uses, overlapped, faults>>

Idle == [stage |-> "idle"]

Grant == [client : Clients, person : Allowed, resource : Resources]

\* What authorize keeps between the redirect to Google and the callback.
Asked == [at : Instances, client : Clients, redirect : Redirects,
          challenge : Verifiers, resource : Resources]

Record == [client : Clients, redirect : Redirects, challenge : Verifiers,
           person : Allowed, resource : Resources, from : Signins,
           left : {-1} \cup Nat]

ASSUME NoneAssumption ==
    None \notin Asked /\ None \notin Record /\ None \notin Grant

\* The form fields of a /token request.
Claim == [client : Clients, redirect : Redirects,
          verifier : Verifiers \cup {None}, resource : Resources \cup {None}]

\* A thread inside take_code or take_refresh: what it has found, what the
\* read saw, whether a copy was within its reach when it began and whether an
\* exception cost it the document.  Then inside put_code or put_refresh.
Taking == [stage : {"delete", "judge"}, at : Instances,
           ticket : Tickets, found : {"nothing", "memory", "document"},
           seen : BOOLEAN, reach : BOOLEAN, missed : BOOLEAN]
Refused == [stage : {"refused"}, at : Instances, ticket : Tickets,
            reach : BOOLEAN, missed : BOOLEAN]
Storing == [stage : {"store"}, at : Instances, ticket : Tickets]

TypeOK ==
    /\ clients \in [Instances -> SUBSET Clients]
    /\ docClients \in SUBSET Clients
    /\ pending \in [Signins -> Asked \cup {None}]
    /\ record \in [Tickets -> Record \cup {None}]
    /\ memory \in [Instances -> SUBSET Tickets]
    /\ documents \in SUBSET Tickets
    /\ slot \in [Slots -> {Idle} \cup Taking \cup Refused \cup Storing]
    /\ known \in SUBSET Tickets
    /\ approved \in [Signins -> Grant \cup {None}]
    /\ tokens \in SUBSET [client : Clients, person : Allowed,
                         resource : Resources, from : Signins]
    /\ uses \in [Tickets -> [memory : Nat, document : Nat]]
    /\ overlapped \in SUBSET Tickets
    /\ faults \in 0 .. MaxFaults

Init ==
    /\ clients = [i \in Instances |-> {}]
    /\ docClients = {}
    /\ pending = [g \in Signins |-> None]
    /\ record = [t \in Tickets |-> None]
    /\ memory = [i \in Instances |-> {}]
    /\ documents = {}
    /\ slot = [q \in Slots |-> Idle]
    /\ known = {}
    /\ approved = [g \in Signins |-> None]
    /\ tokens = {}
    /\ uses = [t \in Tickets |-> [memory |-> 0, document |-> 0]]
    /\ overlapped = {}
    /\ faults = 0

Fault == faults < MaxFaults /\ faults' = faults + 1
NoFault == UNCHANGED faults

Free(q) == slot[q].stage = "idle"
Unissued(t) == record[t] = None
Expired(r) == r.left < 0

(***************************************************************************)
(* Registration and sign-in                                                *)
(***************************************************************************)
\* put_client: memory first, then the document, whose write may fail.
PutClient(i, c) ==
    /\ clients' = [clients EXCEPT ![i] = @ \cup {c}]
    /\ \/ i \in Durable /\ docClients' = docClients \cup {c} /\ NoFault
       \/ i \in Durable /\ Fault /\ UNCHANGED docClients
       \/ i \notin Durable /\ NoFault /\ UNCHANGED docClients

\* POST /register of a client with usable redirects.  Ids are random: a name
\* no copy holds any more stands for a new client.
Register(i, c) ==
    /\ RegisteredUris[c] # {}
    /\ c \notin docClients
    /\ \A j \in Instances : c \notin clients[j]
    /\ PutClient(i, c)
    /\ UNCHANGED <<pending, record, memory, documents, slot, known, approved,
                   tokens, uses, overlapped>>

\* Store.get_client finds the client here or in Firestore.
Reaches(i, c) == c \in clients[i] \/ (i \in Durable /\ c \in docClients)

\* GET /authorize of a client this instance can find, with a redirect the
\* client registered, a challenge and an allowed resource.  A document read is
\* cached.  A request that fails one of these checks keeps nothing.
Authorize(i, g, c, u, v, r) ==
    /\ pending[g] = None /\ Unissued(g)
    /\ Reaches(i, c)
    /\ u \in RegisteredUris[c]
    /\ r \in AllowedResources
    /\ clients' = [clients EXCEPT ![i] = @ \cup {c}]
    /\ pending' = [pending EXCEPT ![g] =
           [at |-> i, client |-> c, redirect |-> u, challenge |-> v,
            resource |-> r]]
    /\ UNCHANGED <<docClients, record, memory, documents, slot, known,
                   approved, tokens, uses, overlapped, faults>>

\* GET /callback at the instance that kept the sign-in, for a person Google
\* vouches for and the deployment admits: the code goes to memory.
Callback(q, g, p) ==
    /\ Free(q)
    /\ pending[g] # None
    /\ p \in Allowed
    /\ LET a == pending[g] IN
       /\ record' = [record EXCEPT ![g] =
             [client |-> a.client, redirect |-> a.redirect,
              challenge |-> a.challenge, person |-> p,
              resource |-> a.resource, from |-> g, left |-> CodeTtl]]
       /\ memory' = [memory EXCEPT ![a.at] = @ \cup {g}]
       /\ approved' = [approved EXCEPT ![g] =
             [client |-> a.client, person |-> p, resource |-> a.resource]]
       /\ slot' = [slot EXCEPT ![q] =
             [stage |-> "store", at |-> a.at, ticket |-> g]]
    /\ pending' = [pending EXCEPT ![g] = None]
    /\ UNCHANGED <<clients, docClients, documents, known, tokens, uses,
                   overlapped, faults>>

\* The same callback refused: expired, cancelled, not verified, not admitted.
\* Also authorize, which drops the sign-ins that have expired.
CallbackRefused(g) ==
    /\ pending[g] # None
    /\ pending' = [pending EXCEPT ![g] = None]
    /\ UNCHANGED <<clients, docClients, record, memory, documents, slot,
                   known, approved, tokens, uses, overlapped, faults>>

\* put_code, put_refresh: the document, then the response that hands the
\* ticket over.
Store(q) ==
    /\ slot[q].stage = "store"
    /\ LET t == slot[q].ticket  i == slot[q].at IN
       /\ \/ i \in Durable /\ documents' = documents \cup {t} /\ NoFault
          \/ i \in Durable /\ Fault /\ UNCHANGED documents
          \/ i \notin Durable /\ NoFault /\ UNCHANGED documents
       /\ known' = known \cup {t}
    /\ slot' = [slot EXCEPT ![q] = Idle]
    /\ UNCHANGED <<clients, docClients, pending, record, memory, approved,
                   tokens, uses, overlapped>>

(***************************************************************************)
(* POST /token                                                             *)
(***************************************************************************)
TakingNow(t) == {q \in Slots :
    slot[q].stage \in {"delete", "judge"} /\ slot[q].ticket = t}

\* Mutation: the document is believed before the delete has come back.
FoundAtOnce(i, t) ==
    IF t \in memory[i] THEN "memory"
    ELSE IF i \in Durable /\ t \in documents THEN "document"
    ELSE "nothing"

\* What the pop of the memory copy yields.
FoundFirst(i, t) == IF t \in memory[i] THEN "memory" ELSE "nothing"

\* take_code, take_refresh: pop the memory copy, then ref.get().  One step,
\* for when the pop finds a copy the document read does not matter, and when
\* it finds none it does nothing.
Present(q, i, t) ==
    /\ Free(q)
    /\ t \in known
    /\ memory' = [memory EXCEPT ![i] = @ \ {t}]
    /\ LET took == [stage |-> "judge", at |-> i, ticket |-> t,
                    found |-> FoundFirst(i, t), seen |-> FALSE,
                    reach |-> \/ t \in memory[i]
                              \/ i \in Durable /\ t \in documents,
                    missed |-> FALSE]
       IN \/ /\ i \in Durable
             /\ slot' = [slot EXCEPT ![q] =
                   [took EXCEPT !.stage = "delete",
                       !.seen = t \notin memory[i] /\ t \in documents]]
             /\ NoFault
          \/ /\ i \in Durable /\ Fault
             /\ slot' = [slot EXCEPT ![q] =
                   [took EXCEPT !.missed = t \notin memory[i]]]
          \/ /\ i \notin Durable /\ NoFault
             /\ slot' = [slot EXCEPT ![q] = took]
    /\ overlapped' = IF TakingNow(t) = {} THEN overlapped
                     ELSE overlapped \cup {t}
    /\ UNCHANGED <<clients, docClients, pending, record, documents, known,
                   approved, tokens, uses>>

\* Mutation: take_code forgets to use the document it has read.
FoundInMemoryOnly(q) == slot[q].found

\* What the take returns once the delete has come back.
FoundAfterDelete(q) ==
    IF slot[q].seen THEN "document" ELSE slot[q].found

\* ref.delete(); the document read counts only when the delete did not raise.
DeleteDocument(q) ==
    /\ slot[q].stage = "delete"
    /\ \/ /\ documents' = documents \ {slot[q].ticket}
          /\ slot' = [slot EXCEPT ![q].stage = "judge",
                                  ![q].found = FoundAfterDelete(q)]
          /\ NoFault
       \/ /\ Fault
          /\ slot' = [slot EXCEPT ![q].stage = "judge",
                                  ![q].missed = (slot[q].found = "nothing")]
          /\ UNCHANGED documents
    /\ UNCHANGED <<clients, docClients, pending, record, memory, known,
                   approved, tokens, uses, overlapped>>

\* Mutation: a refresh is not bound to the client that holds the grant.
MatchesResourceOnly(t, claim) ==
    IF t \in Signins
    THEN /\ claim.client = record[t].client
         /\ claim.redirect = record[t].redirect
         /\ claim.verifier = record[t].challenge
    ELSE claim.resource \in {None, record[t].resource}

\* The checks of token(): a code is bound to its client, redirect and
\* challenge; a refresh token to its client and resource.
Matches(t, claim) ==
    /\ claim.client = record[t].client
    /\ IF t \in Signins
       THEN /\ claim.redirect = record[t].redirect
            /\ claim.verifier = record[t].challenge
       ELSE claim.resource \in {None, record[t].resource}

Redeems(q, claim) ==
    /\ slot[q].found # "nothing"
    /\ ~Expired(record[slot[q].ticket])
    /\ Matches(slot[q].ticket, claim)

\* The access token is minted and a new refresh token goes to memory.  The
\* fields of the request matter only here, so they are chosen here.
Mint(q, claim, n) ==
    /\ slot[q].stage = "judge"
    /\ Redeems(q, claim)
    /\ n \in Refreshes /\ Unissued(n)
    /\ LET t == slot[q].ticket IN
       /\ tokens' = tokens \cup
             {[client |-> claim.client, person |-> record[t].person,
               resource |-> record[t].resource, from |-> record[t].from]}
       /\ uses' = [uses EXCEPT ![t][slot[q].found] = @ + 1]
       /\ record' = [record EXCEPT ![n] =
                        [record[t] EXCEPT !.left = RefreshTtl]]
    /\ memory' = [memory EXCEPT ![slot[q].at] = @ \cup {n}]
    /\ slot' = [slot EXCEPT ![q] =
          [stage |-> "store", at |-> slot[q].at, ticket |-> n]]
    /\ UNCHANGED <<clients, docClients, pending, documents, known, approved,
                   overlapped, faults>>

\* invalid_grant or invalid_target because the request does not match.
RefuseMismatch(q) ==
    /\ slot[q].stage = "judge"
    /\ {claim \in Claim : ~Matches(slot[q].ticket, claim)} # {}
    /\ slot' = [slot EXCEPT ![q] = Idle]
    /\ UNCHANGED <<clients, docClients, pending, record, memory, documents,
                   known, approved, tokens, uses, overlapped, faults>>

\* invalid_grant to a request that matches: nothing was found, or too late.
Refuse(q) ==
    /\ slot[q].stage = "judge"
    /\ {claim \in Claim : Matches(slot[q].ticket, claim)} # {}
    /\ slot[q].found = "nothing" \/ Expired(record[slot[q].ticket])
    /\ slot' = [slot EXCEPT ![q] =
          [stage |-> "refused", at |-> slot[q].at, ticket |-> slot[q].ticket,
           reach |-> slot[q].reach, missed |-> slot[q].missed]]
    /\ UNCHANGED <<clients, docClients, pending, record, memory, documents,
                   known, approved, tokens, uses, overlapped, faults>>

\* The 400 reaches the client.
Reply(q) ==
    /\ slot[q].stage = "refused"
    /\ slot' = [slot EXCEPT ![q] = Idle]
    /\ UNCHANGED <<clients, docClients, pending, record, memory, documents,
                   known, approved, tokens, uses, overlapped, faults>>

(***************************************************************************)
(* The surroundings                                                        *)
(***************************************************************************)
\* An instance stops: its memory and the requests it runs are gone.
Stop(i) ==
    /\ Fault
    /\ clients' = [clients EXCEPT ![i] = {}]
    /\ memory' = [memory EXCEPT ![i] = {}]
    /\ pending' = [g \in Signins |->
           IF pending[g] # None /\ pending[g].at = i THEN None
           ELSE pending[g]]
    /\ slot' = [q \in Slots |->
           IF slot[q] # Idle /\ slot[q].at = i THEN Idle ELSE slot[q]]
    /\ UNCHANGED <<docClients, record, documents, known, approved, tokens,
                   uses, overlapped>>

\* A unit of time less to live; -1 is any time past expires_at.
Aged(r) == IF r # None /\ r.left >= 0 THEN [r EXCEPT !.left = @ - 1] ELSE r

\* One unit of time; what a ticket has left says how old it is.
Tick ==
    /\ record' = [t \in Tickets |-> Aged(record[t])]
    /\ UNCHANGED <<clients, docClients, pending, memory, documents, slot,
                   known, approved, tokens, uses, overlapped, faults>>

Signin ==
    \/ \E i \in Instances, c \in Clients : Register(i, c)
    \/ \E i \in Instances, g \in Signins, c \in Clients, u \in Redirects,
          v \in Verifiers, r \in Resources : Authorize(i, g, c, u, v, r)
    \/ \E q \in Slots, g \in Signins, p \in People : Callback(q, g, p)
    \/ \E g \in Signins : CallbackRefused(g)

Exchange(q) ==
    \/ \E i \in Instances, t \in Tickets : Present(q, i, t)
    \/ DeleteDocument(q)
    \/ \E claim \in Claim, n \in Refreshes : Mint(q, claim, n)
    \/ RefuseMismatch(q)
    \/ Refuse(q)
    \/ Store(q)
    \/ Reply(q)

Next ==
    \/ Signin
    \/ \E q \in Slots : Exchange(q)
    \/ \E i \in Instances : Stop(i)
    \/ Tick

Spec == Init /\ [][Next]_vars

(***************************************************************************)
(* Properties                                                              *)
(***************************************************************************)
(* Every access token, however many refreshes after the sign-in, is for    *)
(* the client that began it, the person Google vouched for and the one     *)
(* resource that person was asked about (main.py, token: "a refresh must   *)
(* not widen reach to a resource the human never approved").               *)
BoundToApproval ==
    \A k \in tokens :
        /\ approved[k.from] # None
        /\ k.client = approved[k.from].client
        /\ k.person = approved[k.from].person
        /\ k.resource = approved[k.from].resource

(* A code or refresh token yields at most one grant per copy: one from     *)
(* memory ever, and one from the document unless two takes of it           *)
(* overlapped.  It holds through exceptions of get and delete, since a     *)
(* document whose delete raised is not believed.                           *)
SpentOncePerCopy ==
    \A t \in Tickets :
        /\ uses[t].memory <= 1
        /\ t \notin overlapped => uses[t].document <= 1

(* A client that presents a ticket in time, with the fields it was issued  *)
(* for, at an instance that could reach a copy, is served, whoever else    *)
(* presents it, unless an exception cost the request the document.         *)
RefusedForACause ==
    \A q \in Slots :
        slot[q].stage = "refused" =>
            LET t == slot[q].ticket IN
            ~slot[q].reach \/ slot[q].missed \/ Expired(record[t])

(* Store.take_code says "a code is single-use by construction here".       *)
SingleUse ==
    \A g \in Signins : uses[g].memory + uses[g].document <= 1
=============================================================================
