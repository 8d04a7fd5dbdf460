----------------------------- MODULE Retrieval -----------------------------
(***************************************************************************)
(* How a query gets its context: the searches of handleQuery               *)
(* (internal/api/handlers.go), their fusion and the expansion of code      *)
(* along call edges (internal/retrieval), and the prompt they are put in   *)
(* (buildContext, internal/generate/generate.go).                          *)
(*                                                                         *)
(* A search returns any list of distinct rows, at most TopK: what is       *)
(* similar to what is PostgreSQL's business.  Rows that appear or vanish   *)
(* between two searches are covered by that.  Every search may fail; the   *)
(* handler logs the error and goes on with what it has.                    *)
(***************************************************************************)
EXTENDS Naturals, FiniteSets, Sequences, FiniteSetsExt, SequencesExt

CONSTANTS
    Docs,      \* ids of document chunks
    Nodes,     \* ids of code nodes
    Graphs,    \* the call graphs to query, as sets of pairs of nodes
    Depths,    \* values of RAG_GRAPH_DEPTH
    Orders,    \* orders in which equals may come: one-to-one, items to numbers
    TopK,      \* how many rows a search returns, 10 in the code
    MaxRank,   \* no list is longer: a bound on the documents and on the nodes
    Size,      \* Size[x]: the runes of item x in the prompt
    MaxRunes   \* RAG_CONTEXT_RUNES

Items == Docs \cup Nodes

ASSUME RetrievalAssumption ==
    /\ IsFiniteSet(Items) /\ Docs \cap Nodes = {}
    /\ Graphs \subseteq SUBSET (Nodes \X Nodes)
    /\ Depths \subseteq Nat
    /\ Orders \subseteq [Items -> Nat]
    /\ \A order \in Orders : \A x, y \in Items : order[x] = order[y] => x = y
    /\ TopK \in Nat
    /\ MaxRank \in Nat /\ Cardinality(Docs) <= MaxRank /\ Cardinality(Nodes) <= MaxRank
    /\ Size \in [Items -> Nat \ {0}]
    /\ MaxRunes \in Nat

-----------------------------------------------------------------------------
\* Reciprocal rank fusion.

\* A variant without smoothing: a first rank counts as much as two seconds.
rrfKNone == 0

rrfK == 60

\* Scores are compared, so they are taken times a common multiple of the
\* denominators.
Scale == LET product[n \in 0 .. MaxRank] == IF n = 0 THEN 1 ELSE product[n - 1] * (rrfK + n)
         IN  product[MaxRank]

Ranked(lists) == UNION {ToSet(lists[l]) : l \in DOMAIN lists}

\* Where an item is in the lists.
Places(lists, x) == UNION {{<<l, i>> : i \in {i \in DOMAIN lists[l] : lists[l][i] = x}} :
                              l \in DOMAIN lists}

Score(lists, x) == MapThenSumSet(LAMBDA at : Scale \div (rrfK + at[2]), Places(lists, x))

\* The elements of S in order, where before[x] are those that precede x.
Arrange(S, before) ==
    [n \in 1 .. Cardinality(S) |-> CHOOSE x \in S : Cardinality(before[x]) = n - 1]

\* Rows without an ORDER BY, and equal scores from the iteration of a map
\* that an unstable sort leaves as they come: any order.
InOrder(S, order) == Arrange(S, [x \in S |-> {y \in S : order[y] < order[x]}])

\* A variant that puts the lists one after the other.
RRFConcatenated(lists, order) ==
    FoldLeft(LAMBDA merged, list : merged \o SelectSeq(list, LAMBDA x : ~Contains(merged, x)),
             <<>>, lists)

\* RRF of some lists, equal scores in the given order.
RRF(lists, order) ==
    LET score == [x \in Ranked(lists) |-> Score(lists, x)]
        before(x) == {y \in Ranked(lists) :
                         \/ score[y] > score[x]
                         \/ score[y] = score[x] /\ order[y] < order[x]}
    IN  Arrange(Ranked(lists), [x \in Ranked(lists) |-> before(x)])

-----------------------------------------------------------------------------
\* The neighbours of a node.

Callees(calls, S) == {e[2] : e \in {e \in calls : e[1] \in S}}

\* A variant that goes a hop too far.
GetCodeNeighborsTooFar(calls, node, hops) ==
    LET level[h \in 0 .. hops + 1] == IF h = 0 THEN {node} ELSE Callees(calls, level[h - 1])
    IN  UNION {level[h] : h \in 1 .. hops + 1}

\* GetCodeNeighbors: the recursive query starts at one hop, whatever the
\* depth, and adds a hop while the depth is not reached.  The node itself is
\* among them if it is on a cycle.
GetCodeNeighbors(calls, node, hops) ==
    LET level[h \in 1 .. hops + 1] ==
            Callees(calls, IF h = 1 THEN {node} ELSE level[h - 1])
    IN  UNION {level[h] : h \in 1 .. (IF hops = 0 THEN 1 ELSE hops)}

-----------------------------------------------------------------------------
\* The prompt.

\* A variant that notices the limit only after the entry that exceeds it.
BuildContextOver(list) ==
    LET total[n \in 0 .. Len(list)] == IF n = 0 THEN 0 ELSE total[n - 1] + Size[list[n]]
    IN  SubSeq(list, 1, Cardinality({n \in DOMAIN list : total[n - 1] <= MaxRunes}))

\* buildContext: entries are added up to the first that would not fit.
BuildContext(list) ==
    LET total[n \in 0 .. Len(list)] == IF n = 0 THEN 0 ELSE total[n - 1] + Size[list[n]]
    IN  SubSeq(list, 1, Cardinality({n \in DOMAIN list : total[n] <= MaxRunes}))

-----------------------------------------------------------------------------

VARIABLES
    kind,        \* what ClassifyQuery or the request says: "doc", "code" or "both"
    step,       \* what handleQuery does next
    dense,       \* the results of the two searches for documents
    sparse,
    docResults,  \* their fusion
    graph,       \* the call graph the query is expanded along, and how far
    depth,
    entries,     \* the results of the search for code
    at,          \* the entry point to expand next
    expanded,    \* the entry points and neighbours so far
    failed,      \* whether the expansion failed
    merged,      \* the results of the query
    context      \* those that are in the prompt

docs == <<dense, sparse, docResults>>
code == <<graph, depth, entries, at, expanded, failed>>
retrievalVars == <<kind, step, dense, sparse, docResults, graph, depth, entries, at, expanded, failed,
          merged, context>>

\* What a search returns; an error is an empty list.
Results(S) == {r \in UNION {[1 .. n -> S] : n \in 0 .. TopK} : IsInjective(r)}

SearchDocsDense ==
    /\ step = "dense"
    /\ dense' \in Results(Docs)
    /\ step' = "sparse"
    /\ UNCHANGED <<kind, sparse, docResults, code, merged, context>>

SearchDocsSparse ==
    /\ step = "sparse"
    /\ sparse' \in Results(Docs)
    /\ step' = "fuse"
    /\ UNCHANGED <<kind, dense, docResults, code, merged, context>>

FuseDocs(order) ==
    /\ step = "fuse"
    /\ docResults' = RRF(<<dense, sparse>>, order)
    /\ step' = IF kind = "both" THEN "code" ELSE "merge"
    /\ UNCHANGED <<kind, dense, sparse, code, merged, context>>

SearchCodeDense ==
    /\ step = "code"
    /\ entries' \in Results(Nodes)
    /\ at' = 1
    /\ step' = IF entries' = <<>> THEN "merge" ELSE "expand"
    /\ dense' = <<>> /\ sparse' = <<>>    \* they are out of scope
    /\ UNCHANGED <<kind, docResults, graph, depth, expanded, failed, merged, context>>

\* A variant that does not know what it has seen already.
ExpandEntryAgain(order) ==
    LET entry == entries[at]
        found == GetCodeNeighbors(graph, entry, depth)
    IN  /\ step = "expand"
        /\ expanded' = expanded \o <<entry>> \o InOrder(found, order)
        /\ at' = at + 1
        /\ step' = IF at = Len(entries) THEN "merge" ELSE "expand"
        /\ UNCHANGED <<kind, docs, graph, depth, entries, failed, merged, context>>

\* One round of ExpandCodeGraph: an entry point that an earlier one has
\* reached is passed over, neighbours included.  The scores it gives, nine
\* tenths of the entry point's, are replaced by those of the fusion that
\* follows, which goes by places alone.
ExpandEntry(order) ==
    LET entry == entries[at]
        seen == ToSet(expanded) \cup {entry}
        found == GetCodeNeighbors(graph, entry, depth) \ seen
    IN  /\ step = "expand"
        /\ expanded' = IF Contains(expanded, entry) THEN expanded
                       ELSE expanded \o <<entry>> \o InOrder(found, order)
        /\ at' = at + 1
        /\ step' = IF at = Len(entries) THEN "merge" ELSE "expand"
        /\ UNCHANGED <<kind, docs, graph, depth, entries, failed, merged, context>>

\* GetCodeNeighbors failed: the entry points are used as they are.
ExpandFails ==
    /\ step = "expand" /\ ~Contains(expanded, entries[at])
    /\ expanded' = entries
    /\ failed' = TRUE
    /\ step' = "merge"
    /\ UNCHANGED <<kind, docs, graph, depth, entries, at, merged, context>>

Merge(order) ==
    /\ step = "merge"
    /\ merged' = RRF(<<docResults, expanded>>, order)
    /\ step' = "prompt"
    /\ UNCHANGED <<kind, docs, code, context>>

Prompt ==
    /\ step = "prompt"
    /\ context' = BuildContext(merged)
    /\ step' = "done"
    /\ UNCHANGED <<kind, docs, code, merged>>

RetrievalInit ==
    /\ kind \in {"doc", "code", "both"}
    /\ step = IF kind = "code" THEN "code" ELSE "dense"
    /\ dense = <<>> /\ sparse = <<>> /\ docResults = <<>>
    /\ graph \in Graphs
    /\ depth \in Depths
    /\ entries = <<>>
    /\ at = 0
    /\ expanded = <<>>
    /\ failed = FALSE
    /\ merged = <<>>
    /\ context = <<>>

RetrievalNext ==
    \/ SearchDocsDense
    \/ SearchDocsSparse
    \/ \E order \in Orders : FuseDocs(order)
    \/ SearchCodeDense
    \/ \E order \in Orders : ExpandEntry(order)
    \/ ExpandFails
    \/ \E order \in Orders : Merge(order)
    \/ Prompt

RetrievalSpec == RetrievalInit /\ [][RetrievalNext]_retrievalVars

-----------------------------------------------------------------------------
\* Properties.

\* Type invariant: no list has an item twice.
RetrievalTypeOK ==
    /\ kind \in {"doc", "code", "both"}
    /\ step \in {"dense", "sparse", "fuse", "code", "expand", "merge", "prompt", "done"}
    /\ {dense, sparse, docResults} \subseteq Seq(Docs)
    /\ {entries, expanded} \subseteq Seq(Nodes)
    /\ merged \in Seq(Items) /\ context \in Seq(Items)
    /\ \A list \in {dense, sparse, docResults, entries, expanded, merged, context} :
            IsInjective(list)
    /\ \A list \in {dense, sparse, docResults, expanded} : Len(list) <= MaxRank
    /\ graph \in Graphs /\ depth \in Depths
    /\ at \in 0 .. Len(entries) + 1
    /\ failed \in BOOLEAN

\* A chunk that both searches find comes before every chunk that only one of
\* them finds, even if it is last in both and the other first: this is what
\* k = 60 is for, and it needs TopK to be small against it.
AgreementWins ==
    step \in {"code", "merge"} =>
        \A i, j \in DOMAIN docResults :
            LET twice(x) == Contains(dense, x) /\ Contains(sparse, x)
            IN  twice(docResults[i]) /\ ~twice(docResults[j]) => i < j

\* The items in the first n places of a list.
Top(list, n) == {list[i] : i \in DOMAIN list \cap (1 .. n)}

\* Documents and code share the top of the results evenly, although one
\* source may have far more results: the first 2k are the first k of each.
SourcesShareTop ==
    step \in {"prompt", "done"} =>
        \A k \in 0 .. Len(merged) :
            k <= Len(docResults) /\ k <= Len(expanded) =>
                Top(merged, 2 * k) = Top(docResults, k) \cup Top(expanded, k)

\* What there is within so many hops of a node.
Within(steps, node, hops) ==
    {x \in Nodes : \E h \in 1 .. hops : \E walk \in [0 .. h -> Nodes] :
        walk[0] = node /\ walk[h] = x /\ \A i \in 1 .. h : <<walk[i - 1], walk[i]>> \in steps}

\* What calls a node or is called by it, and so on.
Around(node, hops) == Within(graph \cup {<<e[2], e[1]>> : e \in graph}, node, hops)

\* Every entry point is among the results, however the expansion went; so is
\* everything the first one calls, as deep as is asked for; and if that is a
\* hop at least, there is nothing further from all of them, cycles or not.
ExpansionIsSound ==
    step = "merge" /\ entries # <<>> =>
        /\ ToSet(entries) \subseteq ToSet(expanded)
        /\ ~failed => Within(graph, entries[1], depth) \subseteq ToSet(expanded)
        /\ depth # 0 => ToSet(expanded) \subseteq
                ToSet(entries) \cup UNION {Around(x, depth) : x \in ToSet(entries)}

\* "GetCodeNeighbors returns nodes reachable from nodeID within depth hops"
\* (postgres_code.go:71), and "call/import edges are traversed up to
\* RAG_GRAPH_DEPTH hops" (README.md:234), whatever the depth.
ExpansionWithinDepth ==
    step = "merge" =>
        ToSet(expanded) \subseteq
            ToSet(entries) \cup UNION {Around(x, depth) : x \in ToSet(entries)}

\* "expands each via BFS, returning the union of entry points and their
\* neighbors" (graph.go:9-10).
AllEntriesExpanded ==
    step = "merge" /\ ~failed =>
        \A x \in ToSet(entries) : Within(graph, x, depth) \subseteq ToSet(expanded)

\* The runes of a list in the prompt, each by its entry and its place there.
PromptRunes(list) == UNION {{i} \X (1 .. Size[list[i]]) : i \in DOMAIN list}

\* The prompt takes the results from the top, as many as fit.
ContextFits ==
    step = "done" =>
        /\ IsPrefix(context, merged)
        /\ \A list \in Prefixes(merged) :
              Cardinality(PromptRunes(list)) <= MaxRunes <=> IsPrefix(list, context)
=============================================================================
