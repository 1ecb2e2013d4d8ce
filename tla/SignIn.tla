------------------------------- MODULE SignIn -------------------------------
(***************************************************************************)
(* Signing in once (ADR-0025): the browser's tab (src/ui/index.html), the  *)
(* three routes of the BFF it calls (src/ui/server.py, auth_exchange,      *)
(* auth_refresh, auth_signout), the store of refresh tokens                *)
(* (src/ui/user_tokens.py) and what Google keeps of a user's consent.      *)
(*                                                                         *)
(* A route runs in a worker thread; one action is the code between two     *)
(* calls that leave the process, each of which may fail.  The tab clears   *)
(* itself at a sign-out without waiting for the answer, and goes on: its   *)
(* next sign-in may overtake it.  Refresh tokens are numbered, 0 is none;  *)
(* Google issues one at the first consent only, and forgets it when it is  *)
(* revoked.  access, the token the analyst's questions go with, is named   *)
(* by the user it speaks for.                                              *)
(*                                                                         *)
(* Left out: a second window, the texts of the errors, the scopes, the     *)
(* cache of verified ID tokens (which never outlives the token).           *)
(***************************************************************************)
EXTENDS Naturals

CONSTANTS Users, Requests,
          MaxGrants    \* bound: refresh tokens issued per user

ASSUME MaxGrantsAssumption == MaxGrants \in Nat

VARIABLES
    codeFlow,  \* whether GOOGLE_OAUTH_CLIENT_SECRET is set
    tab,
    request,   \* the requests in flight, of the tab
    grant,     \* per user, the refresh token Google takes
    issued,    \* per user, the last refresh token issued
    stored,    \* per user, finchat_user_tokens
    upset      \* history: not saved in peace since the last disturbance

signVars == <<codeFlow, tab, request, grant, issued, stored, upset>>

Nobody == "nobody"
Tokens == 0 .. MaxGrants
Stages == {"idle", "code", "save", "exchanged", "load", "refresh",
           "refreshed", "popup", "signout", "revoke", "delete", "ended"}

Idle == [stage |-> "idle", user |-> Nobody, token |-> 0, valid |-> FALSE,
         ok |-> FALSE]
SignedOut == [user |-> Nobody, valid |-> FALSE, told |-> FALSE,
              access |-> Nobody, fresh |-> FALSE]

SignTypeOK ==
    /\ codeFlow \in BOOLEAN
    /\ tab \in [user : Users \cup {Nobody}, valid : BOOLEAN, told : BOOLEAN,
                access : Users \cup {Nobody}, fresh : BOOLEAN]
    /\ request \in [Requests -> [stage : Stages, user : Users \cup {Nobody},
                                 token : Tokens, valid : BOOLEAN,
                                 ok : BOOLEAN]]
    /\ grant \in [Users -> Tokens]
    /\ issued \in [Users -> Tokens]
    /\ stored \in [Users -> Tokens]
    /\ upset \in [Users -> BOOLEAN]

SignInit ==
    /\ codeFlow \in BOOLEAN
    /\ tab = SignedOut
    /\ request = [r \in Requests |-> Idle]
    /\ grant = [u \in Users |-> 0]
    /\ issued = [u \in Users |-> 0]
    /\ stored = [u \in Users |-> 0]
    /\ upset = [u \in Users |-> TRUE]

(***************************************************************************)
(* Requests.  ok is a history: of a sign-out, that nothing failed and no   *)
(* other request of the user overlapped it; of an exchange, that the token *)
(* was stored.                                                             *)
(***************************************************************************)
SigningOut == {"signout", "revoke", "delete", "ended"}

InFlight(u) == {r \in Requests : request[r].user = u}

Begin(r, stage, u, ok) ==
    /\ request[r].stage = "idle"
    /\ request' = [q \in Requests |->
          IF q = r
          THEN [Idle EXCEPT !.stage = stage, !.user = u, !.ok = ok,
                            !.valid = tab.valid]
          ELSE IF request[q].user = u /\ request[q].stage \in SigningOut
          THEN [request[q] EXCEPT !.ok = FALSE]
          ELSE request[q]]

Goes(r, stage) == request' = [request EXCEPT ![r].stage = stage]
\* On, with a call behind it that raised, applied or not, and was swallowed.
Fails(r, stage) ==
    request' = [request EXCEPT ![r].stage = stage, ![r].ok = FALSE]
Ends(r) == request' = [request EXCEPT ![r] = Idle]

(***************************************************************************)
(* Sign-in: the popup's code, exchanged for the tokens                     *)
(***************************************************************************)
SignInWithCode(r, u) ==
    /\ codeFlow
    /\ tab.user = Nobody
    /\ Begin(r, "code", u, FALSE)
    /\ UNCHANGED <<tab, grant, issued, stored, upset, codeFlow>>

\* Google answers, with a refresh token at the first consent; the ID token
\* is then verified, which may fail with the refresh token in hand.
ExchangeCode(r) ==
    LET u == request[r].user
        first == grant[u] = 0 IN
    /\ request[r].stage = "code"
    /\ \/ Ends(r) /\ UNCHANGED <<grant, issued>>
       \/ /\ first => issued[u] < MaxGrants
          /\ issued' = [issued EXCEPT ![u] = IF first THEN @ + 1 ELSE @]
          /\ grant' = [grant EXCEPT ![u] = IF first THEN issued'[u] ELSE @]
          /\ \/ Ends(r)
             \/ request' = [request EXCEPT
                    ![r].stage = "save",
                    ![r].token = IF first THEN issued'[u] ELSE 0]
    /\ UNCHANGED <<tab, stored, upset, codeFlow>>

\* Mutation: what Google returned is saved, or nothing in its place.
SavesAnyway(r) == TRUE

\* "Google returns one only on the FIRST grant", which must not clobber.
Saves(r) == request[r].token # 0

Save(r) ==
    LET u == request[r].user
        peace == InFlight(u) = {r} /\ grant[u] = request[r].token IN
    /\ request[r].stage = "save"
    /\ \/ /\ Saves(r)
          /\ stored' = [stored EXCEPT ![u] = request[r].token]
          /\ upset' = [upset EXCEPT
                         ![u] = IF request[r].token # 0 THEN ~peace ELSE @]
          /\ \/ request' = [request EXCEPT ![r].stage = "exchanged",
                                           ![r].ok = request[r].token # 0]
             \/ Fails(r, "exchanged")
       \/ /\ Fails(r, "exchanged")     \* not stored, or no token
          /\ UNCHANGED <<stored, upset>>
    /\ UNCHANGED <<tab, grant, issued, codeFlow>>

\* The answer reaches the tab, which takes all of it, or it does not.
Exchanged(r) ==
    LET u == request[r].user IN
    /\ request[r].stage = "exchanged"
    /\ \/ \E access \in {u, Nobody} :
             /\ tab' = [user |-> u, valid |-> TRUE, told |-> request[r].ok,
                        access |-> access, fresh |-> access = u]
       \/ UNCHANGED tab
    /\ Ends(r)
    /\ UNCHANGED <<grant, issued, stored, upset, codeFlow>>

\* Without the code flow: the ID token from Google's own button, and the
\* access token asked for at once, unless the tab holds one.
OnGoogleCred(r, u) ==
    /\ ~codeFlow
    /\ tab.user = Nobody
    /\ tab' = [tab EXCEPT !.user = u, !.valid = TRUE]
    /\ IF tab.fresh THEN UNCHANGED request ELSE Begin(r, "popup", u, FALSE)
    /\ UNCHANGED <<grant, issued, stored, upset, codeFlow>>

(***************************************************************************)
(* A question, and the access token it goes with                           *)
(***************************************************************************)
\* A tab that has an access token sends it, expired or not; one that has
\* none asks first.
EnsureAccessToken(r) ==
    /\ tab.user # Nobody
    /\ tab.access = Nobody
    /\ Begin(r, IF codeFlow THEN "load" ELSE "popup", tab.user, FALSE)
    /\ UNCHANGED <<tab, grant, issued, stored, upset, codeFlow>>

\* The refresh route: the ID token is verified, then the store is read.
Load(r) ==
    LET token == stored[request[r].user] IN
    /\ request[r].stage = "load"
    /\ \/ Goes(r, "popup")      \* not verified, not read, or none stored
       \/ /\ request[r].valid /\ token # 0
          /\ request' = [request EXCEPT ![r].stage = "refresh",
                                        ![r].token = token]
    /\ UNCHANGED <<tab, grant, issued, stored, upset, codeFlow>>

RefreshAccessToken(r) ==
    /\ request[r].stage = "refresh"
    /\ \/ Goes(r, "popup")
       \/ /\ request[r].token = grant[request[r].user]
          /\ Goes(r, "refreshed")
    /\ UNCHANGED <<tab, grant, issued, stored, upset, codeFlow>>

\* Both ways end in the tab's variables, whoever is signed in by then.
Takes(r) ==
    /\ tab' = [tab EXCEPT !.access = request[r].user, !.fresh = TRUE]
    /\ Ends(r)

Refreshed(r) ==
    /\ request[r].stage = "refreshed"
    /\ \/ Takes(r)
       \/ Goes(r, "popup") /\ UNCHANGED tab
    /\ UNCHANGED <<grant, issued, stored, upset, codeFlow>>

\* The interactive client; refused, the question goes without a token.
Popup(r) ==
    /\ request[r].stage = "popup"
    /\ \/ Takes(r)
       \/ Ends(r) /\ UNCHANGED tab
    /\ UNCHANGED <<grant, issued, stored, upset, codeFlow>>

AccessExpires ==
    /\ tab.fresh
    /\ tab' = [tab EXCEPT !.fresh = FALSE]
    /\ UNCHANGED <<request, grant, issued, stored, upset, codeFlow>>

IdExpires ==
    /\ tab.valid
    /\ tab' = [tab EXCEPT !.valid = FALSE]
    /\ UNCHANGED <<request, grant, issued, stored, upset, codeFlow>>

(***************************************************************************)
(* Sign-out                                                                *)
(***************************************************************************)
SignOut(r) ==
    LET u == tab.user IN
    /\ u # Nobody
    /\ tab' = SignedOut
    /\ IF codeFlow
       THEN /\ Begin(r, "signout", u, InFlight(u) = {})
            /\ upset' = [upset EXCEPT ![u] = TRUE]
       ELSE UNCHANGED <<request, upset>>
    /\ UNCHANGED <<grant, issued, stored, codeFlow>>

\* Mutation: amnesia, the store is emptied and Google not told.
OnlyDeletes(token) == "delete"

AfterLoad(token) == IF token # 0 THEN "revoke" ELSE "delete"

\* Unverified, the route answers ok and does nothing.
BeginSignOut(r) ==
    LET u == request[r].user IN
    /\ request[r].stage = "signout"
    /\ \/ Fails(r, "ended")
       \/ /\ request[r].valid
          /\ \E token \in {0, stored[u]} :        \* 0: or the read failed
                request' = [request EXCEPT
                    ![r].stage = AfterLoad(token), ![r].token = token,
                    ![r].ok = @ /\ token = grant[u]]
    /\ UNCHANGED <<tab, grant, issued, stored, upset, codeFlow>>

RevokeAtGoogle(r) ==
    LET u == request[r].user IN
    /\ request[r].stage = "revoke"
    /\ \/ /\ grant' = [grant EXCEPT ![u] = IF @ = request[r].token THEN 0
                                           ELSE @]
          /\ Goes(r, "delete") \/ Fails(r, "delete")
       \/ Fails(r, "delete") /\ UNCHANGED grant
    /\ UNCHANGED <<tab, issued, stored, upset, codeFlow>>

Delete(r) ==
    /\ request[r].stage = "delete"
    /\ \/ /\ stored' = [stored EXCEPT ![request[r].user] = 0]
          /\ Goes(r, "ended") \/ Fails(r, "ended")
       \/ Fails(r, "ended") /\ UNCHANGED stored
    /\ UNCHANGED <<tab, grant, issued, upset, codeFlow>>

Ended(r) ==
    /\ request[r].stage = "ended"
    /\ Ends(r)
    /\ UNCHANGED <<tab, grant, issued, stored, upset, codeFlow>>

\* The user takes the consent back on Google's own page.
Withdraw(u) ==
    /\ grant[u] # 0
    /\ grant' = [grant EXCEPT ![u] = 0]
    /\ upset' = [upset EXCEPT ![u] = TRUE]
    /\ UNCHANGED <<tab, request, issued, stored, codeFlow>>

SignNext ==
    \/ AccessExpires \/ IdExpires
    \/ \E u \in Users : Withdraw(u)
    \/ \E r \in Requests :
        \/ \E u \in Users : SignInWithCode(r, u) \/ OnGoogleCred(r, u)
        \/ ExchangeCode(r) \/ Save(r) \/ Exchanged(r)
        \/ EnsureAccessToken(r) \/ Load(r) \/ RefreshAccessToken(r)
        \/ Refreshed(r) \/ Popup(r)
        \/ SignOut(r) \/ BeginSignOut(r) \/ RevokeAtGoogle(r) \/ Delete(r)
        \/ Ended(r)

SignSpec == SignInit /\ [][SignNext]_signVars

(***************************************************************************)
(* Properties                                                              *)
(***************************************************************************)
(* A user who is told the sign-in is permanent has a live refresh token    *)
(* stored, as long as nobody signs out or withdraws the consent: no later  *)
(* sign-in, which brings no token, and no other user clobbers it.  A save  *)
(* that another request of the same user overlaps promises nothing.        *)
PersistentMeansRefreshable ==
    LET u == tab.user IN
    u # Nobody /\ tab.told /\ ~upset[u] =>
        grant[u] # 0 /\ stored[u] = grant[u]

(* "Revoke at Google, not just locally": a verified sign-out of a user     *)
(* whose live token was stored leaves neither the token nor the consent    *)
(* behind, unless one of its calls failed or another request of the user   *)
(* overlapped it (a sign-in that overtakes it loses its new token).        *)
SignOutForgets ==
    \A r \in Requests :
        request[r].stage = "ended" /\ request[r].ok =>
            /\ stored[request[r].user] = 0
            /\ grant[request[r].user] = 0
=============================================================================
