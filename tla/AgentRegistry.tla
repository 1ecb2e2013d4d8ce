---------------------------- MODULE AgentRegistry ----------------------------
(***************************************************************************)
(* The registry of agents as a control: the catalogue                      *)
(* (src/scripts/agents_catalog.py), the gate that reads the agents out of  *)
(* the source and compares (src/scripts/verify_agent_registry.py), the     *)
(* policy over the catalogue (src/policy/registry/registry.rego), the      *)
(* Terraform projection, and the snapshot an examiner is shown             *)
(* (src/scripts/agent_registry_bootstrap.py).                              *)
(*                                                                         *)
(* A tree is a checkout: what its source constructs, what its catalogue    *)
(* says, and the projection committed with it.  One is edited; the jobs of *)
(* ci.yml stand between it and main; the snapshot is published from it by  *)
(* hand.  An agent is known by its code_name.                              *)
(*                                                                         *)
(* Left out: the owner, the business area and the data scope (REG-1), the  *)
(* risk tier and with it the second computation of a due date (LIFE-2),    *)
(* entries of external clients, which have no account, two constructions   *)
(* of one name in one file, the display fields, and the pinning warnings,  *)
(* which fail no build.                                                    *)
(***************************************************************************)
EXTENDS Integers

CONSTANTS Agents,          \* code names
          Files,           \* source files
          Tools,
          Keys,            \* what an account's name may be made of
          Consequential,   \* the agents that act on data or on a customer
          Cadence,         \* days a recertification lasts
          MaxDays,         \* bound: days that pass
          MaxEdits         \* bound: edits of the tree

ASSUME RegistryAssumption ==
    /\ Consequential \subseteq Agents
    /\ Cadence \in Nat /\ MaxDays \in Nat /\ MaxEdits \in Nat

VARIABLES
    tree,      \* the checkout that is edited
    main,      \* the branch the jobs guard, with the day of its last merge
    snapshot,     \* the published snapshot, with the source it came with
    today,
    edits

registryVars == <<tree, main, snapshot, today, edits>>

\* How an agent of the source comes by its model: by the gateway's wrapper,
\* by a name that cannot be resolved, or bare; one that is no constructor but
\* a function of the file; one whose own name is computed, of which nothing
\* is read.
Models == {"gateway", "indirect", "direct", "function", "unread"}

\* The tools it is given, and those of them written as names in a list.
Absent == [file |-> "none", tools |-> {}, listed |-> {}, model |-> "direct"]
Constructions ==
    {c \in [file : Files, tools : SUBSET Tools, listed : SUBSET Tools,
            model : Models] :
        c.listed \subseteq c.tools}
Entries == [status : {"active", "retired"}, kind : {"llm", "managed"},
            key : Keys, file : Files, tools : SUBSET Tools,
            hitl : BOOLEAN, certified : 0 .. MaxDays]
IsCode(code) == \A a \in Agents : code[a] \in Constructions \cup {Absent}

IsTree(t) ==
    /\ IsCode(t.code)
    /\ \A a \in Agents : t.entries[a] \in Entries
    /\ t.projected \subseteq Agents \X Keys \X (0 .. MaxDays)

RegistryTypeOK ==
    /\ IsTree(tree) /\ IsTree(main.tree)
    /\ main.day \in 0 .. MaxDays
    /\ DOMAIN snapshot.entries \subseteq Agents
    /\ \A a \in DOMAIN snapshot.entries : snapshot.entries[a] \in Entries
    /\ IsCode(snapshot.code)
    /\ snapshot.verified \in BOOLEAN
    /\ today \in 0 .. MaxDays /\ edits \in 0 .. MaxEdits

Active(entries) == {a \in Agents : entries[a].status = "active"}

\* emit_tfvars: an account per active agent, with the day it is due
Projection(entries) ==
    {<<a, entries[a].key, entries[a].certified>> : a \in Active(entries)}

(***************************************************************************)
(* The gate: findings that fail, by what the scan of the source sees.      *)
(***************************************************************************)
\* the files some active entry names are the only ones that are read
Scanned(entries) == {entries[a].file : a \in Active(entries)}

Readable(c) == c.model \notin {"function", "unread"}

Constructed(code, file) ==
    {a \in Agents : code[a].file = file /\ Readable(code[a])}

Defines(code, file, a) ==
    code[a].file = file /\ code[a].model = "function"

\* Mutation: only a tool that is declared and missing is a drift
MissingTools(code, entries) ==
    {a \in Active(entries) :
        /\ a \in Constructed(code, entries[a].file)
        /\ ~(entries[a].tools \subseteq code[a].listed)}

\* DRIFT-3: the tools read of an agent found in its file are the ones
\* declared; only names in a list are read, and a tool in a variable or
\* wrapped in a call is not
ToolDrift(code, entries) ==
    {a \in Active(entries) : /\ a \in Constructed(code, entries[a].file)
                             /\ code[a].listed # entries[a].tools}

\* DRIFT-2: an entry without its constructor or its function
Ghosts(code, entries) ==
    {a \in Active(entries) :
        /\ a \notin Constructed(code, entries[a].file)
        /\ ~Defines(code, entries[a].file, a)
        /\ entries[a].kind # "managed"}

\* DRIFT-1: a constructor in a scanned file without an entry for that file
Unregistered(code, entries) ==
    UNION {{a \in Constructed(code, file) :
               a \notin Active(entries) \/ entries[a].file # file} :
           file \in Scanned(entries)}

\* DRIFT-4: a model handed over without the gateway's wrapper; one that
\* cannot be resolved is reported and passes
Bypasses(code, entries) ==
    {a \in Active(entries) : /\ entries[a].kind # "managed"
                             /\ a \in Constructed(code, entries[a].file)
                             /\ code[a].model = "direct"}

Verified(t) ==
    /\ ToolDrift(t.code, t.entries) = {}
    /\ Ghosts(t.code, t.entries) = {}
    /\ Unregistered(t.code, t.entries) = {}
    /\ Bypasses(t.code, t.entries) = {}

\* REG-2 and REG-3 and LIFE-1, over the catalogue alone
Denied(entries) ==
    \/ \E a, b \in Active(entries) :
          a # b /\ entries[a].key = entries[b].key
    \/ \E a \in Active(entries) :
          \/ a \in Consequential /\ ~entries[a].hitl
          \/ today > entries[a].certified + Cadence

(***************************************************************************)
(* A registry that matches its code, and what happens to it.               *)
(***************************************************************************)
RegistryInit ==
    /\ \E home \in [Agents -> Files], key \in [Agents -> Keys] :
          LET entries ==
                  [a \in Agents |->
                      [status |-> "active", kind |-> "llm",
                       key |-> key[a], file |-> home[a], tools |-> {},
                       hitl |-> a \in Consequential, certified |-> 0]]
          IN /\ \A a, b \in Agents : a # b => key[a] # key[b]
             /\ tree = [code |-> [a \in Agents |->
                                     [file |-> home[a], tools |-> {},
                                      listed |-> {}, model |-> "gateway"]],
                        entries |-> entries,
                        projected |-> Projection(entries)]
    /\ main = [tree |-> tree, day |-> 0]
    /\ snapshot = [entries |-> [a \in {} |-> tree.entries[a]],
                code |-> tree.code, verified |-> TRUE]
    /\ today = 0
    /\ edits = 0

Edit(t) ==
    /\ edits < MaxEdits
    /\ t # tree
    /\ tree' = t
    /\ edits' = edits + 1
    /\ UNCHANGED <<main, snapshot, today>>

EditCode(a) ==
    \E written \in Constructions \cup {Absent} :
        Edit([tree EXCEPT !.code[a] = written])

EditEntry(a) ==
    LET entry == tree.entries[a]
        Says(changed) == Edit([tree EXCEPT !.entries[a] = changed])
    IN \/ \E status \in {"active", "retired"} :
              Says([entry EXCEPT !.status = status])
       \/ \E tools \in SUBSET Tools : Says([entry EXCEPT !.tools = tools])
       \/ \E file \in Files : Says([entry EXCEPT !.file = file])
       \/ \E key \in Keys : Says([entry EXCEPT !.key = key])
       \/ Says([entry EXCEPT !.hitl = ~@])
       \/ Says([entry EXCEPT !.kind = "managed"])
       \/ Says([entry EXCEPT !.certified = today])

\* agents_catalog.py --emit-tfvars
Regenerate ==
    /\ tree' = [tree EXCEPT !.projected = Projection(tree.entries)]
    /\ tree' # tree
    /\ UNCHANGED <<main, snapshot, today, edits>>

\* the job regenerates it and asks git for a difference
ProjectionIsCurrent(t) == t.projected = Projection(t.entries)

\* the registry and the policy jobs pass
Merge ==
    /\ tree # main.tree
    /\ Verified(tree) /\ ProjectionIsCurrent(tree) /\ ~Denied(tree.entries)
    /\ main' = [tree |-> tree, day |-> today]
    /\ UNCHANGED <<tree, snapshot, today, edits>>

\* the checkout as it stands, merged or not; the policy is not asked
Publish(skip_verify) ==
    /\ skip_verify \/ Verified(tree)
    /\ snapshot' = [entries |-> [a \in Active(tree.entries) |->
                                 tree.entries[a]],
                 code |-> tree.code, verified |-> ~skip_verify]
    /\ UNCHANGED <<tree, main, today, edits>>

Midnight ==
    /\ today < MaxDays
    /\ today' = today + 1
    /\ UNCHANGED <<tree, main, snapshot, edits>>

RegistryNext ==
    \/ \E a \in Agents : EditCode(a) \/ EditEntry(a)
    \/ Regenerate \/ Merge \/ Midnight
    \/ \E skip_verify \in BOOLEAN : Publish(skip_verify)

RegistrySpec == RegistryInit /\ [][RegistryNext]_registryVars
-----------------------------------------------------------------------------
Named(entries) == {entries[a].file : a \in DOMAIN entries}

\* what a row is taken to say of the agents of the source
Describes(entries, code) ==
    \A a \in Agents :
        /\ Readable(code[a]) /\ code[a].file \in Named(entries) =>
              /\ a \in DOMAIN entries
              /\ entries[a].file = code[a].file
              /\ entries[a].tools \subseteq code[a].tools
              /\ code[a].tools \subseteq entries[a].tools
                    \/ code[a].tools # code[a].listed
              /\ entries[a].kind = "managed" \/ code[a].model # "direct"
        /\ a \in DOMAIN entries /\ entries[a].kind = "llm" =>
              code[a].file = entries[a].file

\* Terraform is given one account for the agent, and for no other agent.
HasItsOwnAccount(a, key, accounts) ==
    \E account \in accounts :
        /\ account[1] = a /\ account[2] = key
        /\ \A other \in accounts \ {account} :
              other[1] # a /\ other[2] # key

(***************************************************************************)
(* The agents that main's source constructs, in every file the catalogue   *)
(* names, are registered there, through the gateway and with no tool they  *)
(* are not given; each has an account of its own, the ones that act have a *)
(* human, and on the day of the merge none was overdue.  A snapshot        *)
(* published with the gate describes the source it was published with just *)
(* as well.  Excepted is what the scan does not read: an agent whose name  *)
(* is computed, and a tool that is not a name in a list, which the         *)
(* registry then lacks.  Neither covers a file no active entry names, and  *)
(* later the snapshot may describe another source than main.  (The jobs    *)
(* agent-registry and policy of ci.yml, verify of                          *)
(* agent_registry_bootstrap.py.)                                           *)
(***************************************************************************)
RegistryIsTrue ==
    LET said == [a \in Active(main.tree.entries) |-> main.tree.entries[a]]
        code == main.tree.code
    IN /\ Describes(said, code)
       /\ \A a \in Agents :
             Readable(code[a]) /\ code[a].file \in Named(said) =>
                /\ a \in Consequential => said[a].hitl
                /\ main.day <= said[a].certified + Cadence
                /\ HasItsOwnAccount(a, said[a].key, main.tree.projected)
       /\ snapshot.verified => Describes(snapshot.entries, snapshot.code)

=============================================================================
