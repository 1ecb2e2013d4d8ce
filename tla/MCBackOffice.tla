---------------------------- MODULE MCBackOffice ----------------------------
(***************************************************************************)
(* The loan workflow, the golden evaluations, the agent registry and the   *)
(* knowledge search in one run.  They share no state: the part a behaviour *)
(* is about is chosen at its start and the others take no step, so the     *)
(* state spaces add up.                                                    *)
(*                                                                         *)
(* One loan, and applications on both sides of every threshold the         *)
(* workflow and the recommendation look at.                                *)
(***************************************************************************)
EXTENDS Loan, GoldenEvals, AgentRegistry, KnowledgeSearch, TLC

VARIABLE part

Application(credit, dti, overdrafts, amount) ==
    [credit |-> credit, dti |-> dti, overdrafts |-> overdrafts,
     amount |-> amount]

MCApplications ==
    {Application(760, 280, 3, 20000),  \* 20, without its overdrafts 0
     Application(759, 280, 3, 20001),  \* 35, without its overdrafts 15
     Application(640, 281, 0, 20000),  \* 37
     Application(639, 430, 1, 20000),  \* 65, without its overdrafts 55
     Application(639, 431, 2, 50001)}  \* 90, without its overdrafts 80

Symmetry == Permutations(Calls) \cup Permutations(Instances)

RegistryParked ==
    /\ RegistryInit
    /\ \A a \in Agents : tree.entries[a].key = "k1" <=> a \in Consequential
    /\ \A a, b \in Agents : tree.code[a].file = tree.code[b].file
    /\ tree.code = [a \in Agents |->
                       [file |-> CHOOSE f \in Files : TRUE, tools |-> {},
                        listed |-> {}, model |-> "gateway"]]
SearchParked == SearchInit /\ ~setup.kb /\ ~setup.agent_url /\ ~setup.rerank

OfficeInit ==
    /\ part \in {"loan", "golden", "registry", "search"}
    /\ Init /\ EvalInit
    /\ IF part = "registry" THEN RegistryInit ELSE RegistryParked
    /\ IF part = "search" THEN SearchInit ELSE SearchParked

OfficeNext ==
    \/ /\ part = "loan" /\ Next
       /\ UNCHANGED <<part, evalVars, registryVars, searchVars>>
    \/ /\ part = "golden" /\ EvalNext
       /\ UNCHANGED <<part, vars, registryVars, searchVars>>
    \/ /\ part = "registry" /\ RegistryNext
       /\ UNCHANGED <<part, vars, evalVars, searchVars>>
    \/ /\ part = "search" /\ SearchNext
       /\ UNCHANGED <<part, vars, evalVars, registryVars>>

OfficeSpec ==
    OfficeInit
      /\ [][OfficeNext]_<<part, vars, evalVars, registryVars, searchVars>>
=============================================================================
