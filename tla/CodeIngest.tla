----------------------------- MODULE CodeIngest -----------------------------
(***************************************************************************)
(* Ingestion of one source file: Pipeline.ingestFile                       *)
(* (internal/ingest/code/pipeline.go) over the PostgreSQL tables           *)
(* code_nodes, code_edges and ingest_jobs.                                 *)
(*                                                                         *)
(* A path is the file's path relative to the root of the directory that is *)
(* ingested, which is what every row is keyed by: ingesting the file of    *)
(* another tree with the same relative path is, to the store, an edit of   *)
(* this one, so EditFile stands for both.  Calls on one path run at the    *)
(* same time when requests overlap.  A step of a call is one access to     *)
(* what calls share.                                                       *)
(*                                                                         *)
(* Every parse gives each node it finds a fresh random id.  Here an id is  *)
(* the number of the parse with the index of the node in it; uniqueness is *)
(* all that is used of it.  Embeddings are left out, as in DocIngest.      *)
(***************************************************************************)
EXTENDS Naturals, Sequences, FiniteSets

CONSTANTS
    Paths,       \* relative paths
    Calls,       \* goroutines that can be inside ingestFile at the same time
    Versions,    \* contents a file can have, one per SHA-256 hash
    Languages,   \* languages that requests name or that are detected
    Symbols,     \* qualified names
    Valid,       \* Valid[v][l]: whether v parses in language l
    Defs,        \* Defs[v][l]: the symbols of the nodes found, in their order
    Refs,        \* Refs[v][l]: the calls found, as pairs of symbols of Defs
    MayFail,     \* which of FaultPoints can fail
    MaxParses,   \* bound on the number of parses
    None         \* no version, no path

FaultPoints == {"get", "pending", "embed", "node", "edge", "done", "error"}

\* The cases of the switch in ingestFile.
Supported == {"go", "ruby", "clojure"}

ASSUME ConstantsAssumption ==
    /\ Languages \subseteq STRING
    /\ Valid \in [Versions -> [Languages -> BOOLEAN]]
    /\ Defs \in [Versions -> [Languages -> Seq(Symbols)]]
    /\ Refs \in [Versions -> [Languages -> SUBSET (Symbols \X Symbols)]]
    /\ MayFail \subseteq FaultPoints
    /\ MaxParses \in Nat
    /\ None \notin Versions
    /\ None \notin Paths
    /\ None \notin Languages

VARIABLES
    disk,     \* disk[p]: the version of file p, or None when there is no file
    jobs,     \* jobs[p]: the ingest_jobs row of p
    nodes,    \* nodes[<<p, l, s>>]: the code_nodes row with that unique key
    edges,    \* the code_edges rows, as pairs of node ids
    parses,   \* how many parses have found nodes
    pc,       \* pc[c]: where call c is, "idle" when it has returned
    path,     \* path[c], lang[c]: the arguments of the call
    lang,
    hash,     \* hash[c]: the version that was read
    parse,    \* parse[c]: the number of its parse
    next,     \* next[c]: the index of the node to store next
    todo      \* todo[c]: the calls whose edges are still to be stored

\* History variables: no guard reads them.
VARIABLES
    clean,    \* clean[c]: nothing has disturbed call c so far
    suspect,  \* suspect[p]: what the job row says of p need not be true
    last      \* last[p]: the parse of the call that wrote the last "done"

store == <<jobs, nodes, edges>>
call == <<pc, path, lang, hash, parse, next, todo>>
history == <<clean, suspect, last>>
vars == <<disk, jobs, nodes, edges, parses, pc, path, lang, hash, parse, next, todo,
          clean, suspect, last>>

-----------------------------------------------------------------------------

Keys == Paths \X Languages \X Symbols

NoNode == [id |-> <<0, 0>>, of |-> None]
NoJob == [status |-> "none", hash |-> None, lang |-> None]
Job(status, v, l) == [status |-> status, hash |-> v, lang |-> l]

GetIngestJobByPath(p) == jobs[p]

\* UpsertIngestJob; its error is dropped everywhere.
UpsertIngestJob(c, status, applied) ==
    jobs' = IF applied THEN [jobs EXCEPT ![path[c]] = Job(status, hash[c], lang[c])]
                       ELSE jobs

Goto(c, l) == pc' = [pc EXCEPT ![c] = l]

Writing == {"parse", "embed", "fail", "nodes", "edges", "finish"}
Locations == {"idle", "check", "mark"} \cup Writing

\* The other calls that are writing the path of call c.
Rivals(c) == {d \in Calls \ {c} : path[d] = path[c] /\ pc[d] \in Writing}

\* The nodes and calls that the parse of call c yields.
Found(c) == Defs[hash[c]][lang[c]]
Called(c) == Refs[hash[c]][lang[c]]

\* The id of the node that nodeByQualified holds for a symbol: when a file
\* defines a symbol twice, it is that of the last.
IdOf(c, s) ==
    LET at == {i \in DOMAIN Found(c) : Found(c)[i] = s}
    IN  <<parse[c], CHOOSE i \in at : \A j \in at : j <= i>>

Return(c) ==
    /\ Goto(c, "idle")
    /\ path' = [path EXCEPT ![c] = None]
    /\ lang' = [lang EXCEPT ![c] = None]
    /\ hash' = [hash EXCEPT ![c] = None]
    /\ parse' = [parse EXCEPT ![c] = 0]
    /\ next' = [next EXCEPT ![c] = 1]
    /\ todo' = [todo EXCEPT ![c] = {}]
    /\ clean' = [clean EXCEPT ![c] = TRUE]

-----------------------------------------------------------------------------
\* A call of ingestFile, in the order of its steps.

\* The bound leaves every call that has begun room for its parse.
RoomForParse == parses + Cardinality({c \in Calls : pc[c] # "idle"}) < MaxParses

Begin(c, p, l) ==
    /\ pc[c] = "idle" /\ RoomForParse
    /\ disk[p] # None
    /\ Goto(c, "check")
    /\ path' = [path EXCEPT ![c] = p]
    /\ lang' = [lang EXCEPT ![c] = l]
    /\ hash' = [hash EXCEPT ![c] = disk[p]]
    /\ UNCHANGED <<disk, store, parses, parse, next, todo, history>>

\* The language of the row is not looked at.
Unchanged(c) ==
    /\ GetIngestJobByPath(path[c]).status = "done"
    /\ GetIngestJobByPath(path[c]).hash = hash[c]

SkipUnchanged(c) ==
    /\ pc[c] = "check"
    /\ Unchanged(c)
    /\ Return(c)
    /\ UNCHANGED <<disk, store, parses, suspect, last>>

Proceed(c, unread) ==
    /\ pc[c] = "check"
    /\ unread \/ ~Unchanged(c)
    /\ Goto(c, "mark")
    /\ UNCHANGED <<disk, store, parses, path, lang, hash, parse, next, todo, history>>

\* As in DocIngest, a call is disturbed by a rival and by a lost "pending".
MarkPending(c, applied) ==
    LET p == path[c]
        unmarked == ~applied /\ jobs[p].status = "done"
    IN  /\ pc[c] = "mark"
        /\ UpsertIngestJob(c, "pending", applied)
        /\ Goto(c, "parse")
        /\ clean' = [d \in Calls |->
                        IF d = c THEN Rivals(c) = {} /\ ~unmarked
                                 ELSE clean[d] /\ d \notin Rivals(c)]
        /\ suspect' = [suspect EXCEPT ![p] = @ \/ unmarked]
        /\ UNCHANGED <<disk, nodes, edges, parses, path, lang, hash, parse, next, todo, last>>

\* A file without nodes is done at once; the rows of earlier versions stay.
Parse(c) ==
    /\ pc[c] = "parse"
    /\ lang[c] \in Supported /\ Valid[hash[c]][lang[c]]
    /\ IF Found(c) = <<>>
       THEN /\ Goto(c, "finish")
            /\ UNCHANGED <<parses, parse>>
       ELSE /\ Goto(c, "embed")
            /\ parses' = parses + 1
            /\ parse' = [parse EXCEPT ![c] = parses + 1]
    /\ UNCHANGED <<disk, store, path, lang, hash, next, todo, history>>

ParseFails(c) ==
    /\ pc[c] = "parse"
    /\ lang[c] \in Supported /\ ~Valid[hash[c]][lang[c]]
    /\ Goto(c, "fail")
    /\ UNCHANGED <<disk, store, parses, path, lang, hash, parse, next, todo, history>>

\* The default case of the switch returns nil and leaves the row "pending".
RefuseLanguage(c) ==
    /\ pc[c] = "parse"
    /\ lang[c] \notin Supported
    /\ Return(c)
    /\ UNCHANGED <<disk, store, parses, suspect, last>>

Embed(c, ok) ==
    /\ pc[c] = "embed"
    /\ Goto(c, IF ok THEN "nodes" ELSE "fail")
    /\ UNCHANGED <<disk, store, parses, path, lang, hash, parse, next, todo, history>>

MarkError(c, applied) ==
    /\ pc[c] = "fail"
    /\ UpsertIngestJob(c, "error", applied)
    /\ Return(c)
    /\ UNCHANGED <<disk, nodes, edges, parses, suspect, last>>

Key(c) == <<path[c], lang[c], Found(c)[next[c]]>>

\* ON CONFLICT (repo_path, language, qualified) DO UPDATE sets all columns
\* but the key and the id.
UpsertCodeNode(c) ==
    nodes' = [nodes EXCEPT ![Key(c)] =
                 IF @ = NoNode THEN [id |-> <<parse[c], next[c]>>, of |-> hash[c]]
                               ELSE [@ EXCEPT !.of = hash[c]]]

\* A variant whose loop runs one round too many.
StoreNodeTooMany(c) ==
    LET final == next[c] > Len(Found(c))
    IN  /\ pc[c] = "nodes"
        /\ UpsertCodeNode(c)
        /\ next' = [next EXCEPT ![c] = IF final THEN 1 ELSE @ + 1]
        /\ todo' = [todo EXCEPT ![c] = IF final THEN Called(c) ELSE {}]
        /\ Goto(c, IF ~final THEN "nodes" ELSE IF Called(c) = {} THEN "finish" ELSE "edges")
        /\ UNCHANGED <<disk, jobs, edges, parses, path, lang, hash, parse, history>>

\* One round of the loop over the nodes; after the last come the edges.
StoreNode(c) ==
    LET final == next[c] = Len(Found(c))
    IN  /\ pc[c] = "nodes"
        /\ UpsertCodeNode(c)
        /\ next' = [next EXCEPT ![c] = IF final THEN 1 ELSE @ + 1]
        /\ todo' = [todo EXCEPT ![c] = IF final THEN Called(c) ELSE {}]
        /\ Goto(c, IF ~final THEN "nodes" ELSE IF Called(c) = {} THEN "finish" ELSE "edges")
        /\ UNCHANGED <<disk, jobs, edges, parses, path, lang, hash, parse, history>>

\* A variant that drops the error and goes on.
StoreNodeFailsIgnored(c, written) ==
    /\ pc[c] = "nodes"
    /\ IF written THEN UpsertCodeNode(c) ELSE UNCHANGED nodes
    /\ Goto(c, "finish")
    /\ UNCHANGED <<disk, jobs, edges, parses, path, lang, hash, parse, next, todo, history>>

\* The statement failed, or took effect and its answer was lost.  The call
\* returns and leaves the job row at "pending".
StoreNodeFails(c, written) ==
    /\ pc[c] = "nodes"
    /\ IF written THEN UpsertCodeNode(c) ELSE UNCHANGED nodes
    /\ Return(c)
    /\ UNCHANGED <<disk, jobs, edges, parses, suspect, last>>

Ids == {nodes[k].id : k \in {k \in Keys : nodes[k] # NoNode}}

\* A variant without the foreign keys.
UpsertCodeEdgeUnchecked(from, to) == edges' = edges \cup {<<from, to>>}

\* from_node_id and to_node_id REFERENCE code_nodes: an edge of which either
\* end is not the id of a row is refused; one that is there is left alone.
UpsertCodeEdge(from, to) ==
    edges' = IF {from, to} \subseteq Ids THEN edges \cup {<<from, to>>} ELSE edges

\* A variant of a call that ends its loop one edge early.
StoreEdgeLastSkipped(c, ref, applied) ==
    /\ pc[c] = "edges"
    /\ UNCHANGED edges
    /\ todo' = [todo EXCEPT ![c] = {}]
    /\ Goto(c, "finish")
    /\ UNCHANGED <<disk, jobs, nodes, parses, path, lang, hash, parse, next, history>>

\* A variant that stores an edge again until it is not refused.
StoreEdgeRetried(c, ref, applied) ==
    /\ pc[c] = "edges"
    /\ applied /\ {IdOf(c, ref[1]), IdOf(c, ref[2])} \subseteq Ids
    /\ UpsertCodeEdge(IdOf(c, ref[1]), IdOf(c, ref[2]))
    /\ todo' = [todo EXCEPT ![c] = @ \ {ref}]
    /\ Goto(c, IF todo[c] = {ref} THEN "finish" ELSE "edges")
    /\ UNCHANGED <<disk, jobs, nodes, parses, path, lang, hash, parse, next, history>>

\* One round of the loop over the edges, in any order; every error of
\* UpsertCodeEdge is dropped.
StoreEdge(c, ref, applied) ==
    /\ pc[c] = "edges"
    /\ IF applied THEN UpsertCodeEdge(IdOf(c, ref[1]), IdOf(c, ref[2])) ELSE UNCHANGED edges
    /\ todo' = [todo EXCEPT ![c] = @ \ {ref}]
    /\ clean' = [clean EXCEPT ![c] = @ /\ applied]
    /\ Goto(c, IF todo[c] = {ref} THEN "finish" ELSE "edges")
    /\ UNCHANGED <<disk, jobs, nodes, parses, path, lang, hash, parse, next, suspect, last>>

MarkDone(c, applied) ==
    LET p == path[c]
    IN  /\ pc[c] = "finish"
        /\ UpsertIngestJob(c, "done", applied)
        /\ suspect' = [suspect EXCEPT ![p] = IF applied THEN ~clean[c] ELSE @]
        /\ last' = [last EXCEPT ![p] = IF applied THEN parse[c] ELSE @]
        /\ Return(c)
        /\ UNCHANGED <<disk, nodes, edges, parses>>

-----------------------------------------------------------------------------
\* The environment, as in DocIngest.

EditFile(p) ==
    /\ \E v \in (Versions \cup {None}) \ {disk[p]} : disk' = [disk EXCEPT ![p] = v]
    /\ UNCHANGED <<store, parses, call, history>>

Crash ==
    /\ \E c \in Calls : pc[c] # "idle"
    /\ pc' = [c \in Calls |-> "idle"]
    /\ path' = [c \in Calls |-> None]
    /\ lang' = [c \in Calls |-> None]
    /\ hash' = [c \in Calls |-> None]
    /\ parse' = [c \in Calls |-> 0]
    /\ next' = [c \in Calls |-> 1]
    /\ todo' = [c \in Calls |-> {}]
    /\ clean' = [c \in Calls |-> TRUE]
    /\ UNCHANGED <<disk, store, parses, suspect, last>>

-----------------------------------------------------------------------------

Init ==
    /\ disk \in [Paths -> Versions \cup {None}]
    /\ jobs = [p \in Paths |-> NoJob]
    /\ nodes = [k \in Keys |-> NoNode]
    /\ edges = {}
    /\ parses = 0
    /\ pc = [c \in Calls |-> "idle"]
    /\ path = [c \in Calls |-> None]
    /\ lang = [c \in Calls |-> None]
    /\ hash = [c \in Calls |-> None]
    /\ parse = [c \in Calls |-> 0]
    /\ next = [c \in Calls |-> 1]
    /\ todo = [c \in Calls |-> {}]
    /\ clean = [c \in Calls |-> TRUE]
    /\ suspect = [p \in Paths |-> FALSE]
    /\ last = [p \in Paths |-> 0]

Step(c) ==
    \/ SkipUnchanged(c)
    \/ Proceed(c, FALSE)
    \/ MarkPending(c, TRUE)
    \/ Parse(c)
    \/ ParseFails(c)
    \/ RefuseLanguage(c)
    \/ Embed(c, TRUE)
    \/ StoreNode(c)
    \/ \E ref \in todo[c] : StoreEdge(c, ref, TRUE)
    \/ MarkDone(c, TRUE)
    \/ MarkError(c, TRUE)

Fault(c) ==
    \/ "get" \in MayFail /\ Proceed(c, TRUE)
    \/ "pending" \in MayFail /\ MarkPending(c, FALSE)
    \/ "embed" \in MayFail /\ Embed(c, FALSE)
    \/ "node" \in MayFail /\ \E written \in BOOLEAN : StoreNodeFails(c, written)
    \/ "edge" \in MayFail /\ \E ref \in todo[c] : StoreEdge(c, ref, FALSE)
    \/ "done" \in MayFail /\ MarkDone(c, FALSE)
    \/ "error" \in MayFail /\ MarkError(c, FALSE)

Next ==
    \/ \E c \in Calls, p \in Paths, l \in Languages : Begin(c, p, l)
    \/ \E c \in Calls : Step(c) \/ Fault(c)
    \/ \E p \in Paths : EditFile(p)
    \/ Crash

Spec == Init /\ [][Next]_vars

-----------------------------------------------------------------------------
\* Properties.

NodeRows == [id : (0 .. MaxParses) \X Nat, of : Versions \cup {None}]
JobRows ==
    [status : {"none", "pending", "done", "error"},
     hash : Versions \cup {None},
     lang : Languages \cup {None}]

\* Type invariant.
TypeOK ==
    /\ disk \in [Paths -> Versions \cup {None}]
    /\ jobs \in [Paths -> JobRows]
    /\ nodes \in [Keys -> NodeRows]
    /\ edges \subseteq ((1 .. MaxParses) \X Nat) \X ((1 .. MaxParses) \X Nat)
    /\ parses \in 0 .. MaxParses
    /\ pc \in [Calls -> Locations]
    /\ path \in [Calls -> Paths \cup {None}]
    /\ lang \in [Calls -> Languages \cup {None}]
    /\ hash \in [Calls -> Versions \cup {None}]
    /\ parse \in [Calls -> 0 .. MaxParses]
    /\ next \in [Calls -> Nat \ {0}]
    /\ \A c \in Calls : pc[c] = "nodes" => next[c] \in DOMAIN Found(c)
    /\ todo \in [Calls -> SUBSET (Symbols \X Symbols)]
    /\ clean \in [Calls -> BOOLEAN]
    /\ suspect \in [Paths -> BOOLEAN]
    /\ last \in [Paths -> 0 .. MaxParses]

\* A job row that says "done" at a hash and a language is true in that every
\* symbol this version defines has its row, with this version's content.
\* (Rows of symbols it no longer defines may remain.)  It can be false only
\* for a suspect path.
DoneHasNodes ==
    \A p \in Paths :
        jobs[p].status = "done" /\ ~suspect[p] =>
            LET found == Defs[jobs[p].hash][jobs[p].lang]
            IN  \A i \in DOMAIN found :
                    nodes[<<p, jobs[p].lang, found[i]>>].of = jobs[p].hash

\* Every edge joins two rows of one file that the same parse inserted.
EdgesJoinRows ==
    \A e \in edges :
        /\ {e[1], e[2]} \subseteq Ids
        /\ e[1][1] = e[2][1]

\* For an undisturbed ingest, the edges of a file are lost only where a row
\* is older than the ingest, or a symbol is defined twice: if the parse that
\* was last "done" inserted the rows of both ends of a call as the file's
\* last definitions of them, the edge of the call is there.
NewNodesHaveEdges ==
    \A p \in Paths :
        jobs[p].status = "done" /\ ~suspect[p] /\ last[p] # 0 =>
            LET found == Defs[jobs[p].hash][jobs[p].lang]
                id(s) == nodes[<<p, jobs[p].lang, s>>].id
                inserted(s) ==
                    /\ id(s)[1] = last[p]
                    /\ \A i \in DOMAIN found : found[i] = s => i <= id(s)[2]
            IN  \A ref \in Refs[jobs[p].hash][jobs[p].lang] :
                    inserted(ref[1]) /\ inserted(ref[2]) => <<id(ref[1]), id(ref[2])>> \in edges

\* "Call edges are extracted where available" (README.md:218) and
\* "Re-ingesting the same path is safe" (README.md:194): the edges between
\* the symbols of a file that is "done" are its calls.
DoneHasCalls ==
    \A p \in Paths :
        jobs[p].status = "done" =>
            \A ref \in Refs[jobs[p].hash][jobs[p].lang] :
                <<nodes[<<p, jobs[p].lang, ref[1]>>].id, nodes[<<p, jobs[p].lang, ref[2]>>].id>> \in edges

\* A call stays at a location only while the rest of its work shrinks, and
\* otherwise moves on to a later one.
Later(l) ==
    LET order == <<"check", "mark", "parse", "embed", "nodes", "edges", "fail", "finish", "idle">>
    IN  CHOOSE i \in DOMAIN order : order[i] = l

Nearer(c) ==
    \/ Later(pc'[c]) > Later(pc[c])
    \/ pc'[c] = "nodes" /\ pc[c] = "nodes" /\ next'[c] > next[c]
    \/ pc'[c] = "edges" /\ pc[c] = "edges" /\ todo'[c] \subseteq todo[c] /\ todo'[c] # todo[c]

\* No step of anyone takes a call back.
Advances(c) == Nearer(c) \/ UNCHANGED <<pc[c], next[c], todo[c]>>

\* Every call returns, whatever fails and however calls overlap: a call that
\* has begun can always take its next step, and each step it takes brings it
\* nearer its return, at which its row is "done" or "error", or, where an error
\* or an unknown language cuts it short, "pending".
CallsFinish ==
    [][\A c \in Calls : pc[c] # "idle" => ENABLED Step(c) /\ Advances(c)]_vars
=============================================================================
