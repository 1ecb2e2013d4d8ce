--------------------------- MODULE KnowledgeSearch ---------------------------
(***************************************************************************)
(* A question to the bank's knowledge base: two retrievers in one query,   *)
(* their rankings fused, a model that ranks again                          *)
(* (search_knowledge_base in src/products/transactions/agent/tools.py, the *)
(* SQL and the parsing in retrieval.py), and the fallbacks around them,    *)
(* the last of which is the MCP server's own copy of the corpus            *)
(* (search_kb in src/mcp_server/backends.py).                              *)
(*                                                                         *)
(* A passage is its number, which is also the order of its id.  What the   *)
(* arms return is any ranking; BigQuery orders equal sums as it likes.     *)
(* direct is a history: the reranker was called without the gateway.       *)
(*                                                                         *)
(* Left out: the scores of BM25 and the distances, and the analytics       *)
(* surface, which calls the agent and not this tool.                       *)
(***************************************************************************)
EXTENDS Integers, FiniteSets, SequencesExt

CONSTANTS NPassages,
          KEach,       \* passages taken from each arm
          KCandidates, \* passages kept of the fusion
          TopN         \* passages returned

ASSUME SearchAssumption ==
    /\ NPassages \in Nat
    /\ KEach \in 1 .. 61     \* KB_K_EACH is 8; beyond 61 the fusion changes
    /\ KCandidates \in Nat \ {0} /\ TopN \in Nat \ {0}

VARIABLES
    setup,     \* what the two services are configured with
    find       \* the search

searchVars == <<setup, find>>

Passages == 1 .. NPassages
Rankings == SetToAllKPermutations(Passages) \cup {<<>>}
FindSteps == {"idle", "hybrid", "dense", "rerank", "rerank_direct", "found",
              "failed", "local", "answered"}

NoFind == [step |-> "idle", caller |-> "agent", dense |-> <<>>,
           sparse |-> <<>>, candidates |-> <<>>, order |-> <<>>,
           results |-> <<>>, note |-> FALSE, local |-> FALSE,
           refused |-> FALSE, direct |-> FALSE]

SearchTypeOK ==
    /\ setup \in [kb : BOOLEAN, agent_url : BOOLEAN, rerank : BOOLEAN]
    /\ find.step \in FindSteps /\ find.caller \in {"agent", "mcp"}
    /\ \A field \in {"dense", "sparse", "candidates", "order", "results"} :
          find[field] \in Rankings
    /\ \A flag \in {"note", "local", "refused", "direct"} :
          find[flag] \in BOOLEAN

SearchInit ==
    /\ setup \in [kb : BOOLEAN, agent_url : BOOLEAN, rerank : BOOLEAN]
    /\ find = NoFind

Upto(s, n) == SubSeq(s, 1, IF Len(s) < n THEN Len(s) ELSE n)

Reaches(step, changed) ==
    /\ find' = [changed EXCEPT !.step = step]
    /\ UNCHANGED setup

(***************************************************************************)
(* The fusion.  A passage's share of an arm is one over the constant plus  *)
(* its rank there, nothing where it is not: fractions, <<over, under>>.    *)
(***************************************************************************)
\* Mutation: the ranks are taken without the damping constant
Undamped == 0

RRF_K == 60

RankIn(s, d) == SelectInSeq(s, LAMBDA e : e = d)

Share(s, d) ==
    IF RankIn(s, d) = 0 THEN <<0, 1>> ELSE <<1, RRF_K + RankIn(s, d)>>

Plus(x, y) == <<x[1] * y[2] + y[1] * x[2], x[2] * y[2]>>
NoLess(x, y) == x[1] * y[2] >= y[1] * x[2]

Fused(dense, sparse, d) == Plus(Share(dense, d), Share(sparse, d))

\* the orders the query may return, before and after its limit
Fusions(dense, sparse) ==
    {Upto(s, KCandidates) :
        s \in {s \in SetToSeqs(ToSet(dense) \cup ToSet(sparse)) :
                  \A i \in 1 .. Len(s) - 1 :
                     NoLess(Fused(dense, sparse, s[i]),
                            Fused(dense, sparse, s[i + 1]))}}

(***************************************************************************)
(* The tool.                                                               *)
(***************************************************************************)
\* a misconfigured tool answers with one row that says so
AskTool(caller) ==
    Reaches(IF setup.kb THEN "hybrid" ELSE "failed",
            [NoFind EXCEPT !.caller = caller])

Hybrid ==
    /\ find.step = "hybrid"
    /\ \E dense, sparse \in {Upto(s, KEach) : s \in Rankings} :
          \E candidates \in Fusions(dense, sparse) :
             Reaches(IF candidates = <<>> THEN "found" ELSE "rerank",
                     [find EXCEPT !.dense = dense, !.sparse = sparse,
                                  !.candidates = candidates])

\* the SQL, a permission, the module: the older search answers instead
HybridFails == find.step = "hybrid" /\ Reaches("dense", find)

Dense ==
    /\ find.step = "dense"
    /\ \E dense \in {Upto(s, TopN) : s \in Rankings} :
          Reaches(IF dense = <<>> THEN "found" ELSE "rerank",
                  [find EXCEPT !.dense = dense, !.candidates = dense])

DenseFails == find.step = "dense" /\ Reaches("failed", find)

\* the numbers of s that may be taken, in their order and each once
Numbers(s, may) ==
    FoldLeft(LAMBDA kept, i : IF i \in may /\ ~Contains(kept, i)
                              THEN Append(kept, i) ELSE kept,
             <<>>, s)

ParseRerank(reply, n) == Numbers(reply, 1 .. n)

\* what the order names comes first, the rest keeps its own; nothing named,
\* nothing changed
Reordered(candidates, order) ==
    LET n == Len(candidates)
        rest == Numbers([i \in 1 .. n |-> i], (1 .. n) \ ToSet(order))
    IN [i \in DOMAIN (order \o rest) |-> candidates[(order \o rest)[i]]]

Ranked(candidates, order) ==
    [find EXCEPT !.order = order,
                 !.results = Upto(Reordered(candidates, order), TopN)]

Kept == Ranked(find.candidates, <<>>)

RerankSkipped ==
    /\ find.step = "rerank"
    /\ ~setup.rerank \/ Len(find.candidates) < 2
    /\ Reaches("found", Kept)

AtRerank ==
    find.step = "rerank" /\ setup.rerank /\ Len(find.candidates) >= 2

\* any reply, of numbers that are no candidate's and of repetitions too
Rerankings == BoundedSeq(0 .. KCandidates + 1, 2)

Reads(reply) ==
    LET order == ParseRerank(reply, Len(find.candidates))
    IN Reaches("found", Ranked(find.candidates, order))

RerankGoverned ==
    /\ AtRerank
    /\ \/ \E reply \in Rerankings : Reads(reply)
       \/ Reaches("found", Kept)              \* an error, swallowed
       \/ Reaches("rerank_direct", find)      \* no gateway answered

\* Mutation: a refusal is answered by asking Vertex
RefusalGoesDirect ==
    AtRerank /\ Reaches("rerank_direct", [find EXCEPT !.refused = TRUE])

RerankRefused ==
    /\ AtRerank
    /\ Reaches("found", [Kept EXCEPT !.refused = TRUE])

RerankDirect ==
    /\ find.step = "rerank_direct"
    /\ \/ \E reply \in Rerankings :
             LET order == ParseRerank(reply, Len(find.candidates))
             IN Reaches("found", [Ranked(find.candidates, order)
                                     EXCEPT !.direct = TRUE])
       \/ Reaches("found", [Kept EXCEPT !.direct = TRUE])

(***************************************************************************)
(* The callers: the agent's own model, and the MCP server by /search.      *)
(***************************************************************************)
Question ==
    /\ find.step = "idle"
    /\ \/ AskTool("agent")
       \/ setup.agent_url /\ AskTool("mcp")

\* no agent to ask: the corpus file is what there is, and needs no excuse
AskLocal ==
    /\ find.step = "idle" /\ ~setup.agent_url
    /\ Reaches("local", [NoFind EXCEPT !.caller = "mcp"])

Unreachable ==
    /\ find.step \in FindSteps \ {"local", "answered"}
    /\ setup.agent_url
    /\ find.step # "idle" => find.caller = "mcp"
    /\ Reaches("local", [NoFind EXCEPT !.caller = "mcp", !.note = TRUE,
                                       !.direct = find.direct,
                                       !.refused = find.refused])

\* the tool's error row becomes a note for the MCP client
Failed ==
    /\ find.step = "failed"
    /\ IF find.caller = "mcp"
       THEN Reaches("local", [find EXCEPT !.note = TRUE])
       ELSE Reaches("answered", find)

LocalKbSearch ==
    /\ find.step = "local"
    /\ \E ranking \in {Upto(s, TopN) : s \in Rankings} :
          Reaches("answered", [find EXCEPT !.results = ranking,
                                           !.local = TRUE])

Found == find.step = "found" /\ Reaches("answered", find)

SearchNext ==
    \/ Question \/ AskLocal \/ Unreachable
    \/ Hybrid \/ HybridFails \/ Dense \/ DenseFails
    \/ RerankSkipped \/ RerankGoverned \/ RerankRefused \/ RerankDirect
    \/ Failed \/ LocalKbSearch \/ Found

SearchSpec == SearchInit /\ [][SearchNext]_searchVars
-----------------------------------------------------------------------------
Before(s, d, e) == RankIn(s, d) < RankIn(s, e)

(***************************************************************************)
(* The fusion favours agreement: a passage both arms found, however low,   *)
(* comes before every passage only one of them found, however high, and is *)
(* cut off only by others that both found.  (hybrid_sql and rrf_fuse; the  *)
(* ranks an arm returns are few enough for the constant.)                  *)
(***************************************************************************)
FusionFavoursAgreement ==
    LET both == ToSet(find.dense) \cap ToSet(find.sparse)
        one == (ToSet(find.dense) \cup ToSet(find.sparse)) \ both
    IN find.sparse # <<>> =>
          \A d \in both, e \in one :
             Contains(find.candidates, e) =>
                 Contains(find.candidates, d) /\ Before(find.candidates, d, e)

(***************************************************************************)
(* A search degrades without losing a passage or hiding that it did: the   *)
(* tool returns as many passages as it may, each once and all of them      *)
(* candidates, and those it cut are none the reranker named before one it  *)
(* kept; a refused reranking leaves the fused order and goes nowhere else; *)
(* and an MCP client whose agent is configured and which was served from   *)
(* the local corpus is told so, and told so only then.                     *)
(* (_rerank, search_knowledge_base, search_kb.)                            *)
(***************************************************************************)
SearchDegradesOpenly ==
    find.step = "answered" =>
        /\ find.refused => ~find.direct
        /\ find.caller = "mcp" =>
              (find.note <=> setup.agent_url /\ find.local)
        /\ ~find.local =>
              LET got == ToSet(find.results)
                  had == ToSet(find.candidates)
                  named == {find.candidates[i] : i \in ToSet(find.order)}
              IN /\ Cardinality(got) = Len(find.results)
                 /\ got \subseteq had
                 /\ Len(find.results) = Len(Upto(find.candidates, TopN))
                 /\ named \subseteq got \/ got \subseteq named
                 /\ find.order = <<>> =>
                       IsPrefix(find.results, find.candidates)
=============================================================================
