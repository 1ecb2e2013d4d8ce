------------------------------ MODULE McpServer ------------------------------
(***************************************************************************)
(* The MCP server as a resource server (ADR-0020): a call carries a token  *)
(* of the authorization server (see McpAuth) or of a Google service        *)
(* account; the middleware verifies it against the published keys, which   *)
(* are cached (src/mcp_server/auth.py), and the staff tool asks again who  *)
(* is calling (src/mcp_server/caller.py, src/mcp_server/server.py).        *)
(*                                                                         *)
(* The server is one process with one event loop, and verify blocks it,    *)
(* its fetch included: a verification is one action.  Keys are numbered.   *)
(* A secret is rotated by storing the next; an instance of the             *)
(* authorization server reads it when it starts, and makes a key of its    *)
(* own if none is configured.  split and failed are histories of a call.   *)
(*                                                                         *)
(* Left out: the claims other than the key, the caller and the expiry, the *)
(* transport over stdio (no caller), the tools that ask nothing about the  *)
(* caller, and the routing of ask_analytics (see AnalystDesk).             *)
(***************************************************************************)
EXTENDS Naturals

CONSTANTS Callers,    \* one token and one call at a time each
          Instances,  \* of the authorization server
          MaxKeys     \* bound: keys made

ASSUME MaxKeysAssumption == MaxKeys \in Nat \ {0}

VARIABLES
    configured,  \* whether OAUTH_SIGNING_KEY_PEM is
    made,        \* the last key made
    signs,       \* per instance, the key it signs with and publishes
    token,       \* per caller
    jwks,        \* the server's copy of the published keys
    seen,        \* callers already identified by this token
    call

mcpVars == <<configured, made, signs, token, jwks, seen, call>>

KeyIds == 1 .. MaxKeys
Kinds == {"staff", "customer", "registered", "service"}
Persons == {"staff", "customer"}
NoToken == [kid |-> 0, kind |-> "customer", live |-> FALSE]
NoCall == [step |-> "idle", failed |-> FALSE, split |-> FALSE]
Finished == {"unauthorized", "refused", "answered"}

McpTypeOK ==
    /\ configured \in BOOLEAN
    /\ made \in KeyIds
    /\ signs \in [Instances -> KeyIds]
    /\ token \in [Callers -> [kid : {0} \cup KeyIds, kind : Kinds,
                              live : BOOLEAN]]
    /\ jwks \in [keys : SUBSET KeyIds, fresh : BOOLEAN]
    /\ seen \in SUBSET Callers
    /\ call \in [Callers -> [step : {"idle", "verify", "gate"} \cup Finished,
                             failed : BOOLEAN, split : BOOLEAN]]

McpInit ==
    /\ configured \in BOOLEAN
    /\ made = 1
    /\ signs = [i \in Instances |-> 1]
    /\ token = [c \in Callers |-> NoToken]
    /\ jwks = [keys |-> {}, fresh |-> FALSE]
    /\ seen = {}
    /\ call = [c \in Callers |-> NoCall]

(***************************************************************************)
(* The authorization server                                                *)
(***************************************************************************)
RotateSecret ==
    /\ configured
    /\ made < MaxKeys
    /\ made' = made + 1
    /\ UNCHANGED <<configured, signs, token, jwks, seen, call>>

\* SigningKey
Restart(i) ==
    /\ IF configured THEN UNCHANGED made
       ELSE made < MaxKeys /\ made' = made + 1
    /\ signs' = [signs EXCEPT ![i] = made']
    /\ UNCHANGED <<configured, token, jwks, seen, call>>

\* A new token, of an instance, or of Google for a service.
Issue(c, i, kind) ==
    /\ call[c].step \in Finished \cup {"idle"}
    /\ token' = [token EXCEPT
                   ![c] = [kid |-> IF kind \in Persons THEN signs[i] ELSE 0,
                           kind |-> kind, live |-> TRUE]]
    /\ seen' = seen \ {c}
    /\ call' = [call EXCEPT ![c] = NoCall]
    /\ UNCHANGED <<configured, made, signs, jwks>>

TokenExpires(c) ==
    /\ token[c].live
    /\ token' = [token EXCEPT ![c].live = FALSE]
    /\ UNCHANGED <<configured, made, signs, jwks, seen, call>>

JwksExpires ==
    /\ jwks.fresh
    /\ jwks' = [jwks EXCEPT !.fresh = FALSE]
    /\ UNCHANGED <<configured, made, signs, token, seen, call>>

(***************************************************************************)
(* Verification                                                            *)
(***************************************************************************)
\* What a fetch replaces the copy with: the key of whichever instance.
Published == {[keys |-> {signs[i]}, fresh |-> TRUE] : i \in Instances}

\* Mutation: a copy that is fresh is not asked for again.
NoForcedRefresh(copy, kid) == {copy}

\* "One forced refresh, then give up."
AskedAgain(copy, kid) == IF kid \in copy.keys THEN {copy} ELSE Published

\* The copies a verification of a person's token may end with, when no fetch
\* fails.
Copies(kid) ==
    UNION {AskedAgain(copy, kid) : copy \in IF jwks.fresh THEN {jwks}
                                           ELSE Published}

\* A fetch that fails: what the copy is then.  The first may have succeeded.
FailedCopies(kid) ==
    IF jwks.fresh THEN IF kid \in jwks.keys THEN {} ELSE {jwks}
    ELSE {jwks} \cup {copy \in Published : kid \notin copy.keys}

\* good, bad: the next steps of the call.  A service's token is verified by
\* Google's library, which fetches too and keeps nothing.
Verifies(c, good, bad) ==
    LET t == token[c]
        ends(step, failed) ==
          [call EXCEPT ![c].step = step, ![c].failed = @ \/ failed,
                       ![c].split = @ \/ \E i \in Instances : signs[i] # t.kid]
    IN IF t.kind \notin Persons
       THEN /\ \/ call' = ends(IF t.live THEN good ELSE bad, FALSE)
               \/ call' = ends(bad, TRUE)
            /\ UNCHANGED jwks
       ELSE \/ /\ jwks' \in Copies(t.kid)
               /\ call' = ends(IF t.live /\ t.kid \in jwks'.keys THEN good
                               ELSE bad, FALSE)
            \/ /\ jwks' \in FailedCopies(t.kid)
               /\ call' = ends(bad, TRUE)

Call(c) ==
    /\ call[c].step \in Finished \cup {"idle"}
    /\ token[c] # NoToken
    /\ call' = [call EXCEPT ![c] = [NoCall EXCEPT !.step = "verify"]]
    /\ UNCHANGED <<configured, made, signs, token, jwks, seen>>

Middleware(c) ==
    /\ call[c].step = "verify"
    /\ Verifies(c, "gate", "unauthorized")
    /\ UNCHANGED <<configured, made, signs, token, seen>>

(***************************************************************************)
(* The staff tool                                                          *)
(***************************************************************************)
\* require_staff, of somebody: staff, or a service registered for the tool.
Permitted(kind) == kind \in {"staff", "registered"}

Outcome(c) == IF Permitted(token[c].kind) THEN "answered" ELSE "refused"

\* current: known by the token's id, or verified once more.  A service's
\* token has none.
StaffGateKnown(c) ==
    /\ call[c].step = "gate"
    /\ c \in seen
    /\ call' = [call EXCEPT ![c].step = Outcome(c)]
    /\ UNCHANGED <<configured, made, signs, token, jwks, seen>>

StaffGate(c) ==
    /\ call[c].step = "gate"
    /\ c \notin seen
    /\ Verifies(c, Outcome(c), "refused")
    /\ seen' \in {seen, seen \cup {c}}
    /\ c \in seen' <=> token[c].kind \in Persons /\ token[c].live
                         /\ token[c].kid \in jwks'.keys
                         /\ call'[c].failed = call[c].failed
    /\ UNCHANGED <<configured, made, signs, token>>

\* More than 512 callers later.
Forgotten(c) ==
    /\ c \in seen
    /\ seen' = seen \ {c}
    /\ UNCHANGED <<configured, made, signs, token, jwks, call>>

McpNext ==
    \/ RotateSecret \/ JwksExpires
    \/ \E i \in Instances : Restart(i)
    \/ \E c \in Callers :
        \/ \E i \in Instances, kind \in Kinds : Issue(c, i, kind)
        \/ TokenExpires(c) \/ Call(c) \/ Middleware(c)
        \/ StaffGateKnown(c) \/ StaffGate(c) \/ Forgotten(c)

McpSpec == McpInit /\ [][McpNext]_mcpVars

(***************************************************************************)
(* Properties                                                              *)
(***************************************************************************)
(* "A key rotation should not need a redeploy": while its token lives, a   *)
(* person is turned away, or staff refused, only if a fetch of the keys    *)
(* failed, or if some instance of the authorization server signed with     *)
(* another key at the time, of which it publishes no second.               *)
RotationIsFollowed ==
    \A c \in Callers :
        /\ token[c].live
        /\ token[c].kind \in Persons
        /\ \/ call[c].step = "unauthorized"
           \/ call[c].step = "refused" /\ token[c].kind = "staff"
        => call[c].failed \/ call[c].split
=============================================================================
