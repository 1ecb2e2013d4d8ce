----------------------------- MODULE MCServices -----------------------------
(***************************************************************************)
(* The parts that share no state, in one run: the part a behaviour is      *)
(* about is chosen at its start, the others are parked in a fixed initial  *)
(* state and take no step, so the state spaces add up.                     *)
(*                                                                         *)
(* The parts share their sets of model values too, to keep the symmetry    *)
(* group small: p1 and p2 are users, callers or transactions, q1 and q2    *)
(* requests, instances, jobs or scorers.                                   *)
(***************************************************************************)
EXTENDS MCSafetySession, LiveEval, SignIn, McpServer, CustomerView, Ingest,
        TLC

VARIABLE part

Symmetry == Permutations(Users) \cup Permutations(Requests)

DeskParked == /\ Init
              /\ deployment = [url |-> FALSE, required |-> FALSE,
                               anon |-> FALSE]
SignParked == SignInit /\ ~codeFlow
McpParked == McpInit /\ ~configured
ViewParked == ViewInit /\ ~hotPath
IngestParked == /\ IngestInit
                /\ keyOf = [t \in Txns |-> CHOOSE k \in Keys : TRUE]
                /\ malformed = {}
SessionParked == SessionInit /\ state = NoSession

ServicesInit ==
    /\ part \in {"desk", "sign", "mcp", "view", "ingest", "session"}
    /\ IF part = "desk" THEN Init ELSE DeskParked
    /\ IF part = "sign" THEN SignInit ELSE SignParked
    /\ IF part = "mcp" THEN McpInit ELSE McpParked
    /\ IF part = "view" THEN ViewInit ELSE ViewParked
    /\ IF part = "ingest" THEN IngestInit ELSE IngestParked
    /\ IF part = "session" THEN SessionInit ELSE SessionParked

ServicesNext ==
    \/ /\ part = "desk" /\ Next
       /\ UNCHANGED <<part, signVars, mcpVars, viewVars, ingestVars,
                      sessionVars>>
    \/ /\ part = "sign" /\ SignNext
       /\ UNCHANGED <<part, vars, mcpVars, viewVars, ingestVars, sessionVars>>
    \/ /\ part = "mcp" /\ McpNext
       /\ UNCHANGED <<part, vars, signVars, viewVars, ingestVars, sessionVars>>
    \/ /\ part = "view" /\ ViewNext
       /\ UNCHANGED <<part, vars, signVars, mcpVars, ingestVars, sessionVars>>
    \/ /\ part = "ingest" /\ IngestNext
       /\ UNCHANGED <<part, vars, signVars, mcpVars, viewVars, sessionVars>>
    \/ /\ part = "session" /\ SessionNext
       /\ UNCHANGED <<part, vars, signVars, mcpVars, viewVars, ingestVars>>

ServicesSpec ==
    ServicesInit
      /\ [][ServicesNext]_<<part, vars, signVars, mcpVars, viewVars,
                            ingestVars, sessionVars>>
=============================================================================
