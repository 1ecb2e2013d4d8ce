---------------------------- MODULE MCAgentTurn ----------------------------
\* Requests of one session in any order; the classifier sees nothing or a probe
\* that worked, and a hit that does not lock comes from Model Armor.
EXTENDS AgentTurn, TLC

CONSTANTS r1, r2, r3, m, firestore, t1, t2, t3, t4

\* Every request is served by a process of its own, ...
Apart == r1 :> t1 @@ r2 :> t2 @@ r3 :> t3 @@ m :> t4

\* ... or two of them by one.
Shared == r1 :> t1 @@ r2 :> t2 @@ r3 :> t2

TurnKinds == {"late", "unleased", "register", "read", "drain", "write",
              "crash"}

\* What may go wrong with the tables a turned-away message is put in.
TableKinds == {"fallback", "register", "late", "crash"}

MCVerdicts ==
    {Silent,
     [Silent EXCEPT !["probe"] = High, !["answer_policy_breach"] = High]}

Quiet == {Silent}

\* The requests change places with their processes.
Alike ==
    {f @@ t1 :> Apart[f[r1]] @@ t2 :> Apart[f[r2]] @@ t3 :> Apart[f[r3]] :
        f \in Permutations({r1, r2, r3})}

SameProcess == Permutations({r2, r3})

=============================================================================
