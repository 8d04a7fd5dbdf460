# Verification of tokyo3-rag

TLA+ models of the retrieval-augmented generation service in this repository,
the TLC runs that check them and the TLAPS proofs about them. The models are
translated from the Go and SQL sources (`src/`); documents only supply some of
the claims that are checked.

## 1. The system

`ragd` (`cmd/ragd`) is one process: an HTTP server over a PostgreSQL database
with pgvector. `rag` (`cmd/rag`) is a client that sends it one request. There is
no lock, no queue and no transaction spanning two statements anywhere in the
ingest paths: each accepted request runs in a goroutine of its own, and calls
meet only in the database and on the disk.

| Component | State | Operations | Interacts with | Hard behaviour |
|---|---|---|---|---|
| Document ingest (`ingest/doc.go`) | none of its own; rows of `doc_chunks`, `ingest_jobs` | `IngestFile`: read and hash, skip if unchanged, "pending", extract, chunk, embed, delete old, upsert chunks, "done" or "error" | disk, embedder, store | overlapping calls on one path, statements whose errors are dropped, a stop between any two steps, a PDF read twice |
| Directory walk (`ingest/code/pipeline.go`) | two channels, a `WaitGroup`, a pool | `IngestDir` | disk, `ingestFile` | bounded channels in both directions, closing order, dropped errors |
| Code ingest of a file (same file) | rows of `code_nodes`, `code_edges`, `ingest_jobs` | `ingestFile` | parsers, embedder, store | as documents, and: ids that are fresh with every parse but kept by the upsert, foreign keys whose errors are dropped |
| Parsers (`ingest/code/parser`) | none | `ParseGo`, `ParseRuby`, `ParseClojure` | | duplicate names; scanners of lines and parentheses that never fail, whatever the text |
| Store (`store/postgres`) | four tables and `schema_migrations` | upserts, deletes, searches, `GetCodeNeighbors`, `Open`, `migrate` | PostgreSQL | conflict clauses, cascades, two daemons migrating |
| Retrieval (`retrieval`) | none | `ClassifyQuery`, dense and sparse search, `ExpandCodeGraph`, `RRF` | store, embedder | ties ordered by map iteration, shared `seen` set over entry points |
| Generators (`generate`) | a channel and a goroutine per query | `Stream`, `buildContext` | provider, handler | a sender that may outlive its reader, providers that go on after the end |
| HTTP API (`api`) | none | query (SSE), ingest, jobs, delete (501), auth | all of the above | accepted work that nobody waits for, job ids nobody stores, errors in mid-stream |
| Embedders (`embed`) | none | `EmbedTexts` in batches, retries | provider | retries, cancelled contexts, answers with missing, doubled or negative indexes |
| `ragd` start and stop | pool, server | `run` | store, API | shutdown waits for handlers, not for ingests |
| `rag` | none | query, ingest, jobs | API | lines longer than its scanner takes |

What makes each of them correct, and where it can go wrong, is the list of
`hazards` in `PROJECT.json`, each at its line with the properties that cover it.

## 2. Modules

| Module | Models | Role |
|---|---|---|
| `DocIndex` | what document ingestion promises a reader of the store | abstract specification |
| `DocIngest` | `DocPipeline.IngestFile` over its tables | component; implements `DocIndex` |
| `DocIngestProofs` | | theorems about `DocIngest` |
| `IngestDir` | `Pipeline.IngestDir` | component; `ingestFile` is one step that works or fails |
| `IngestDirProofs` | | theorems about `IngestDir` |
| `CodeIngest` | `Pipeline.ingestFile` over its tables | component |
| `CodeIngestProofs` | | theorems about `CodeIngest` |
| `EmbedTexts` | `EmbedTexts` of both providers | component of `TextVectors` |
| `Chunks` | `chunk` | pure function, with what it promises |
| `RubyScanner`, `ClojureScanner` | `ParseRuby`; `ParseClojure` and `findFormEnd` | pure functions, with reference definitions of what the languages mean |
| `Selection` | the loop that keeps some elements of a list | helper of `Chunks` and `ClojureScanner` |
| `TextVectors` | a text on its way through chunking or parsing, `EmbedTexts` and the storing loop | composition of the four |
| `TextVectorsProofs` | | theorems about `TextVectors`, `EmbedTexts`, `Chunks` and the scanners |
| `Service` | a question from its embedding to the last line the client prints, a file from its text to its rows | composition of `TextVectors`, `Retrieval` and `QueryStream` |
| `Ragd` | `Open`, `migrate`, `run`, the goroutines behind `handleIngest` | component: several daemons on one database |
| `RagdProofs` | | theorems about `Ragd` |
| `QueryStream` | `Generator.Stream`, the SSE part of `handleQuery`, `doQuery` | composition of three processes over a channel and a connection |
| `QueryStreamProofs` | | theorems about `QueryStream` |
| `Retrieval` | the searches of `handleQuery`, `RRF`, `ExpandCodeGraph`, `GetCodeNeighbors`, `buildContext` | component; its result is what `QueryStream` answers from |
| `RetrievalProofs` | | theorems about `Retrieval` |
| `RecursionLemmas` | | induction over numbers, loops that have a run, what `Select` returns: what `TextVectorsProofs` and `RetrievalProofs` know of recursive functions |
| `MC*` | | instances for TLC |

### State and actions

**DocIngest.** `disk` is the content of each path as a *version* (one per SHA-256
hash); `jobs` and `chunks` are the tables, `chunks[p][i]` being the version the
row's content comes from. A call is `pc[c]` with the locals of `IngestFile`:
`path`, `hash`, `text` (the version the text was extracted from) and `next` (the
loop index). Each action is one access to shared state, with the code up to the
next one: `Begin` is `os.ReadFile`; `SkipUnchanged`/`Proceed` the skip check;
`MarkPending`, `MarkError`, `MarkDone` the upserts of the job row;
`Extract`/`ExtractFails` extraction and `chunk`; `DeleteOld`, `StoreChunk`,
`StoreFails` the chunk statements. `applied = FALSE` is a statement that failed
and whose error the code drops. `Crash` ends every call and keeps the tables.
`EditFile` is the owner of the file. `EmbedTexts` is one step because nothing
shared changes in it.

**IngestDir.** `pos`/`main` is the calling goroutine (walk, `wg.Wait`, collecting
errors), `jobs`/`closed` and `errs` are the channels, `worker`/`file` the pool.
A receive, a send and the end of an `ingestFile` are one action each. `Dispatch`
blocks at the full channel, `Report` never blocks (`select` with a default).
A tree is the sequence of callbacks `filepath.WalkDir` makes.

**CodeIngest.** As `DocIngest`, with `nodes` keyed by the UNIQUE key (path,
language, qualified name) and `edges` as pairs of ids. A fresh UUID is the pair
(number of the parse, index of the node). `UpsertCodeNode` keeps the id of a row
that exists, `UpsertCodeEdge` refuses an edge without both rows (foreign keys) and
ignores one that exists. `Defs`, `Refs` and `Valid` say what each parser finds in
each version. The edges of a file are stored in any order, which covers the order
in which the parser lists them. Ingesting a file of another root with the same
relative path is an edit to the store, which is why `EditFile` covers it.

**QueryStream.** `gen`/`outbox`/`tokens` are the generator's goroutine and its
channel, `handler` the loop of `handleQuery`, `wire`/`connected` the connection,
`client`/`printed`/`listed` the client. An event of the provider has text or not
and ends the answer or not, which is all the scanner loops of both providers
distinguish. A response may also end without "done" and without an error
(`ResponseEnds`), for which `doQuery` returns nil as after a complete answer.

**Retrieval.** `step` is where `handleQuery` is; `dense`, `sparse`, `docResults`,
`entries`, `expanded`, `merged` are its lists and those of `ExpandCodeGraph`, whose
loop takes one step per entry point (`at`). The pure parts are operators: `RRF`
with scores as integers over a common denominator, `GetCodeNeighbors` level by
level as the recursive query computes it, `BuildContext`. What similarity search
returns is any list of distinct rows within the limit, so the properties hold
whatever PostgreSQL ranks first, and a search that fails returns none. Where the
code leaves an order open (rows without ORDER BY, equal scores out of a map),
the action takes any of `Orders`.

**EmbedTexts.** One call: `provider`, `count`, the batch (`from`), the failed
attempts at it (`attempt`), the slice it returns (`result`) and the context
(`cancelled`). `Send` is `http.Client.Do`, which fails at once under a cancelled
context; `VoyageAnswers` puts vectors where the answer's indexes say, `OllamaAnswers`
compares their number; an answer may name a text twice, one past the batch, or have
null for a vector, and a negative index panics (`VoyagePanics`); `Refused` are the failures that return at once, `Fails` those
that Voyage tries again; `Retry` and `Stop` are the two cases of the `select`.
Text *i* has vector *i*, so a vector in the wrong place shows.

**Chunks, RubyScanner, ClojureScanner.** The scanners are folds over a text whose
symbols are what their code tells apart: blank and visible runes, kinds of lines,
tokens. Names are positions: what line 3 defines within line 1 is `<<1, 3>>`. Beside
each stands what the language itself makes of the text: blocks that balance
(`WellFormed`, `IsDefinition`), and a reader that knows character literals (`RealForms`). Ruby lines
the scanner mistakes (`IrregularLines`) are part of the texts, and only the
properties about every text speak of them.

**TextVectors.** `Write` is the owner of the text; `Extract` reads it all, cuts it
and calls `EmbedTexts`; `StoreRow` is a round of the storing loop, which stops at a
nil vector. A panic ends the request of a question and, in the goroutine of an ingest,
the process, which leaves the job pending (`Panicked`). Only the context of a question can be cancelled (`Hangup`), as ingests
run under `context.Background()`.

**Service.** `phase` says which part a request is in: `TextVectors`, for a question
then `Retrieval` and `QueryStream`, which it extends. `Reading`,
`Retrieving` and `Streaming` are the steps of the parts; `ToRetrieval` and `ToStream`
are the returns of `EmbedTexts` and of the searches to `handleQuery`, and carry on what
the next part depends on: whether the first search has a vector, and whether the client
has left, without which the later calls fail (`cancelled`). What a question asks for and
what the model answers is chosen when it matters (`AskWhat`, `TakeAnswer`).

**Ragd.** `pc[d]` follows `Open` and `migrate` statement by statement (`connect` to
`commit`), then `run` (`serving`, `draining`, `closing`); `handler` and `ingest` are
what the daemon's goroutines do with a connection of the pool. That a transaction
waits for another that creates the same table (`blocked`), that `IF NOT EXISTS`
looks before it creates (`overtaken`), that a version is a primary key, and that
`pool.Close` waits for lent connections is PostgreSQL's and pgx's behaviour. `Crash`
ends the process. What its connection had under way is an orphan (`Abandon`): the
server rolls it back when it notices, and until then it holds what it has created;
a COMMIT or a CREATE TABLE that was sent may still take effect (`LateCommit`,
`LateCreate`), when another daemon is already starting. A request that asks for an
ingest (`Post`) is refused or accepted (`AcceptIngest`) however far its daemon has
shut down meanwhile.

### History variables

`clean[c]` and `suspect[p]` (and `last[p]` in `CodeIngest`) are read by no guard.
A call is *clean* until something happens that the code has no means to notice:
another call writes the same path at the same time, its "pending" write is lost
under a "done" row, a PDF is replaced between the two reads of it, a blank text
meets the rows of an earlier version, its delete is lost while there are rows (for
code: an edge statement is lost). A path is *suspect* when its last "done" was
written by a call that was not clean, or a "pending" was lost under it. The
properties say what holds for paths that are not suspect; what the code does with
the others is shown by the violation runs. `EmbedTexts` notes which texts an answer
had no vector for (`lacking`) and the attempts begun under a cancelled context
(`late`). `Ragd` counts how often a migration was committed (`applied`) and notes
whether a daemon's surroundings failed it (`faulty`), another was starting beside it
(`contended`) or its ten seconds were over (`expired`).

## 3. Runs

| Run | Question | Result |
|---|---|---|
| `doc_concurrent` | two goroutines ingest one file, edited between three versions (0, 1 and 2 chunks) or removed, every fault, crashes: is a "done" row exact, does ingestion implement `DocIndex`? | holds, 931k states |
| `doc_recovery` | the same with two versions, under fairness: does every call return, do repeated ingests converge? | holds, 34k states |
| `doc_reingest` | is "Re-ingesting the same path is safe" (README.md:194)? | **violated**: a file that becomes blank is "done" with the chunks of its old text |
| `ingest_dir` | every tree of at most five entries, two workers, a channel of two files, a context that may be cancelled | holds, 82k states |
| `ingest_dir_unreadable` | "ingesting all recognised source files" (pipeline.go:37) | **violated**: an unreadable entry ends the walk silently |
| `code_concurrent` | two goroutines ingest one file as Go, Ruby and an unsupported language, edited between three versions (a call between two symbols; a symbol defined twice; a syntax error), every fault, crashes | holds, 3.06M states up to exchange of the goroutines |
| `code_reingest` | are the calls of a "done" file its edges (README.md:218)? | **violated**: an edge to or from a symbol that was already stored is refused by the foreign key and lost |
| `service` | every document of 11 runes, Ruby program of 6 lines and Clojure text of 7 tokens, embedded by both providers with every answer and failure, and stored; every question, with all results of searches of at most two rows, all graphs over three calls (chains and a cycle), depths 0, 1 and 2, and every answer of the model of at most four events over a channel of two tokens and a connection of one: are the pieces right, does each row get its own vector, are ranking, expansion and prompt what they are for, does the client see what the model said, does everything end? | holds, 829k states |
| `embed_partial` | does "EmbedTexts return one embedding per input string" (embed.go:17)? | **violated**: a text that Voyage's answer leaves out has a nil vector in a result without an error |
| `ragd` | two daemons start three times in all, fail, crash, lose connections in the middle of a commit, serve, are stopped and started again on a database that is fresh or partly migrated: is every migration applied once, does a daemon alone get through, what does a stop break off? | holds, 845k states |
| `retrieval_depth` | does the expansion stay "within depth hops" (postgres_code.go:71-72, README.md:234)? | **violated**: at depth 0 it goes one hop |
| `retrieval_expand` | does the expansion return "the union of entry points and their neighbors" (graph.go:9-10)? | **violated**: an entry point that an earlier one reaches is not expanded itself |

### Bounds, and why they are enough

* *One path.* No statement of the pipelines reads or writes rows of two paths, so
  calls on different paths do not meet. (The proofs are for any number.)
* *Two calls.* Every race here is between the steps of one call and the writes of
  another; the history variables record only whether there was a rival. (The
  proofs about `DocIngest` are for any number.)
* *Three versions with 0, 1 and 2 chunks*: a file can become longer, shorter,
  blank and what it was before. Code: a version where one call goes between two
  symbols, and one where calls go both ways and a symbol is defined twice; a
  version with a syntax error.
* *`MaxParses`* (3, 2 in `code_reingest`) bounds the calls that start, as each needs room
  for one parse: enough for an ingest, an interrupted one, and a re-ingest.
* *`IngestDir`*: five entries are more files than the channel (2) and the workers
  (2) hold together, and more errors than the channel of errors (2) holds.
* *The streaming part of `service`*: four events overflow the channel of two tokens behind a
  connection of one; answers that go on after their end are included.
* *Its retrieval*: two rows per search are enough for a row that both find last against
  one that only one finds first (the search limit of the code, 10, is as far below
  k = 60), for entry points that reach each other, and for lists of different length.
  Two orders, each the reverse of the other, put any two equals either way. At most
  five items and a prompt of four runes, one of them of two: the cut falls before,
  at and after an entry that fits exactly. `MaxRank` bounds the length of a list, so
  that its scores have a common denominator; it may be any number.
* *Its texts*: a chunk of 4 runes overlaps the next by 2 (the code: 2048 and
  256), so 11 runes have several windows, with and without a short last one. Six
  lines hold two nested definitions with a block, seven tokens two forms with a string
  or a comment. `MaxRare` allows one of the rare symbols per text, counting double.
  Batches of 2 and 3 (the code: 96 and 32) make several of the pieces of one text, full
  and not; three attempts are the code's.
* *`Ragd`*: two migration files, where the repository has one so far, because only two
  show their order. One handler and one directory of two documents per daemon are enough
  to be caught between and within statements by a stop; one ingest at a time runs in a
  daemon. `MaxStarts` allows three starts in all: one that leaves something behind, one
  beside it or after it that meets it, and one more.
* *Symmetry*: in `code_concurrent` the two goroutines are interchangeable; all its
  properties quantify over them, and none is a liveness property.

### Fairness

Steps of a goroutine are weakly fair: the Go runtime runs it, and every statement
or request it waits for works or fails. In `QueryStream` this rests on the
timeouts in the code: 120 s of the provider's client (`BodyFails`, `RequestFails`)
and the 120 s `WriteTimeout` of the server (`Disconnect`). The client is under no
obligation. Nobody is obliged to call an ingest or to edit a file;
`IngestConverges` therefore assumes, inside the property, that the path is
ingested again and again, that calls do not overlap for ever and that disturbances
end. A run without one of these assumptions has counterexamples: two calls that
always overlap can keep the row at "pending" for ever.

`TextVectors` assumes only that `Embed` goes on, which the timeouts of the providers'
HTTP clients (60 s and 120 s) see to. `Service` adds that the goroutine of `handleQuery`
takes its steps from one part to the next (`HandleQuery`); its searches end, as statements
do. In `Ragd` the daemon's own steps are fair, the server notices a lost connection, a
deadline passes, and a statement ends once it runs; handlers and ingests need never
finish. That statements end is an assumption about PostgreSQL: the code sets them no
timeout, and with one that hangs neither a query nor a shutdown would end. `CodeIngest` states that calls return without fairness: `CallsFinish` says
that a call which has begun can always take its next step, and that each step brings it
nearer its end.

## 4. Proofs

All theorems hold for every value of the constants that satisfies the named
assumption of the module.

**`DocIngestProofs`.** `TypeCorrect`, `DoneExact` and `Refinement`
(`Spec => ImplementsIndex`). `DoneIsExact` is not inductive: that `MarkDone` finds
exactly the right rows depends on every step before it. `Inv` adds, per location,
what a clean call may count on: it is alone on its path and the claim of the path
is withdrawn (`CleanIsAlone`), its text is of the version it hashed (`CleanText`),
the rows are a prefix of that version while it stores and complete at the end
(`CleanRows`); and that a call that is not clean but writes under a "done" row has
made the path suspect (`UncleanIsSuspect`). There is a lemma for every action. The
refinement maps `published[p]` to the hash of a "done" row that is not suspect and
shows step by step that rows change only while nothing is published.

**`IngestDirProofs`.** `TypeCorrect`, `OnceEach`, `ErrorReported`. The
invariant says that the channel holds, in increasing order, exactly the files the
walk has passed and no worker has received (`JobsInOrder`, `StartedOnce`), that it
is closed exactly when the walk is over and a worker leaves only when it is empty
(`ClosedAtEnd`), and that, until they are collected, a failure has an error in the
channel or a worker about to put one there (`ErrorsKept`), which needs the channel
to have room for at least one.

**`RagdProofs`.** `TypeCorrect`, `AppliedOnce`, `OpensAlone`, `EndsCleanly`. What keeps
a migration from being applied twice is not the count that `migrate` looks at, which is
old by the time it is used, but that PostgreSQL lets one transaction at a time create
what the migration creates (`OneHolder`) and that the row is inserted in that transaction
(`CommitsNew`). An orphan counts among the transactions that hold, and a commit that is
still under way after its daemon is gone is new as well (`OrphansNew`). `EarlierRecorded`
carries the order from file to file.
`OvertakenIsContended` says of each statement that can fail what it then fails over:
another daemon's work in a start that overlapped, or a count that could not be read.

**`CodeIngestProofs`.** `TypeCorrect`, `EdgesJoined`, `DoneComplete`,
`EdgesComplete`, `CallsAdvance`. The invariant comes in four layers, each of which the
next rests on. `Ordered` is about calls: what their variables hold at each location, that
no two of them have the same parse (`ParsesDiffer`), and that every call that has begun
still has room for its own (`RoomLeft`). `Joined` says that a row with an id of a parse is
one that this parse defines (`RowsOfCall`), so that the two ends of an edge are of one
file. `Complete` is what `DoneHasNodes` needs, as in `DocIngestProofs`: a clean call is
alone, has withdrawn the claim and finds the rows it has stored. `Linked` adds the edges a
clean call has stored so far (`CleanEdges`). `CallsAdvance` is the half of `CallsFinish`
that can be stated without ENABLED: no step of anyone takes a call back.

**`QueryStreamProofs`.** `TypeCorrect`, `Printed`, `Answered`. A text passes through four
queues, the generator's, the channel, the connection and what was printed. `InLine` and
`Overtaking` say that each is in the order of the answer and that what is further on was
read earlier, `NoGap` that what is past the handler has no gap and that nothing is lost
while the connection is up. `GeneratorInStep` and `HandlerInStep` say that no stage ends
before the one before it, so that sources and the end of an answer stand behind all of
its texts (`AllThere`).

**`RetrievalProofs`.** `TypeCorrect`, `Agreement`, `Sharing`, `Expansion`, `Prompting`.
First comes what the operators compute for lists of any length and any graph: a fused
list has every item once, by its score (`Fuses`); the levels of `GetCodeNeighbors` are the
ends of walks (`Neighbors`); `BuildContext` is the longest beginning that fits
(`ContextIsLongest`). The invariant says which of these results the lists of a query are
(`Searched`, `Answering`) and what has been found for the entry points that are done
(`Expanding`). `Agreement` has a hypothesis, `TopK <= rrfK + 1`: a chunk that both searches
find last, with twice 1/(k + n), must still beat one that a single search finds first, with
1/(k + 1). The code's limit of 10 and its k of 60 satisfy it; without it the claim is false.

**`TextVectorsProofs`.** About the call of `EmbedTexts` in its service: `TypeCorrect`,
`Aligning`, `Cancelling`, `RowsComplete`. `Aligned` says of the batches answered so far what
is to hold at the end, `Stopping` that an attempt under a cancelled context is the last,
`RowsInOrder` and `InStep` that rows are stored in the order of the pieces and the service
waits for its call. About the text, of any length:

* `Passages`: the windows of `chunk` reach the end of the document, a passage no longer
  than two of them overlap lies in the first that ends no earlier than it (`WindowHolds`),
  and trimming takes away blanks only (`Trimming`).
* `NodesNested`: `RubySound` is carried from line to line. It says of the stack of frames
  and of the nodes that are closed how they lie in each other and which names they have,
  without the depth, as the claim is about unbalanced texts too.
* `DefinitionsFound`: for well-formed programs `RubyMatches` adds that the depth counts the
  open blocks, so that a frame is closed by the `end` that closes its block.
* `FormsKept`: `ClojureSound` says of the forms found so far that they are apart and behind
  the one the scanner is in, and that no definition is lost.
* `FormsFound`: in plain text the scanner is where Clojure's reader is (`Together`), except
  that the reader knows what the scanner passes over; so a form is found when the reader's
  depth comes back to 0 (`FormsReal`), and a namespace that definitions are named after is
  a form the reader has read before them. Header comments are among the plain texts.

**`RecursionLemmas`.** The provers cannot instantiate induction theorems that take a
predicate. What is true of all numbers is therefore said of a set of numbers: a set of
naturals has a least element (`Least`), one with 0 and the successor of each of its
elements has all numbers up to a bound (`Induct`). From this, a loop that keeps its state
within a known set has a run (`LoopRuns`), by which a recursive function has the values its
definition gives; and `Select` keeps just the elements it should (`SelectKeeps`).

Every safety property and every action property without ENABLED that a run checks is thus
also a theorem. Only model-checked are liveness (`EveryCallReturns`, `IngestConverges`,
`Returns`, `NothingLeftBlocked`, `EmbedReturns`, `Settles`), as the prover does not handle
fairness, and that a call of `ingestFile` can always take a step, the half of `CallsFinish`
that has ENABLED in it.

## 5. What the models leave out

* Content: what a chunk, a vector, a token or a message says. A version stands for
  a content, hashes do not collide, a random id is unique.
* Statements are atomic, as PostgreSQL makes them; isolation beyond single
  statements is not assumed, as the code uses none.
* Which model embeds or generates, and the length of vectors: one deployment uses one.
* Strings, comments and heredocs within lines of Ruby, and reader macros of Clojure:
  the scanners do not know them either, so they only make other kinds of lines and
  tokens of which the symbols above are examples.
* `go/parser`, which finds the symbols of Go files: `Defs` and `Refs` say what it finds.
  What PostgreSQL ranks first, likewise.
* Listing jobs, the token comparison, `handleDeleteNode` (501), logging, configuration,
  formatting: each is one step without shared state.

* The score of a neighbour in the expansion (0.9 of its entry point's): the fusion that
  follows looks at places only.

Four hazards have no property, as the code does nothing about them that could be
stated: the id an accepted ingest is answered with is stored nowhere
(`handlers.go:134`), rows of symbols a file no longer defines stay
(`pipeline.go:139`), the skip check does not look at the language a file was done in
(`pipeline.go:105`), and pgvector's types are registered on the connection that is
to create the extension (`postgres.go:31`).

Some properties say of a hazard only when it does no harm: `DoneIsExact`, `DoneHasNodes` and
`NewNodesHaveEdges` leave out suspect paths and rows that were not inserted anew, so
overlapping calls, lost statements and names defined twice are described by them, not
caught. The notes of the hazards say so.

## 6. Where documents and code disagree

Shown by a run (section 3): `doc_reingest`, `ingest_dir_unreadable`, `code_reingest`,
`retrieval_expand`, `retrieval_depth`, `embed_partial`. Read while modelling, and left
open by the properties, which neither rely on the document nor repeat the code:

* `README.md:213` gives a Ruby `def` inside a class or module the type `method`;
  `ruby.go:68-69` gives every `def` the type `function`. `RubyExact` says where a `def` is
  and what it is called, not its type.
* `README.md:215` and `clojure.go:18` promise a node for the namespace of a Clojure file,
  and `README.md:216` one for `definterface`; `clojureDefRe` (`clojure.go:14`) matches neither,
  nor `def` and names behind metadata. `ClojureExact` is about definitions of the forms it
  matches, for which one token stands.
* A Clojure file that has anything but blanks before `(ns`, such as a header comment, has
  its names qualified by `unknown`, as `clojureNsRe` is matched at the beginning of the file only
  (`clojure.go:13`, `clojure.go:26-28`). `ClojureExact` says that a namespace that is used is
  the right one, not that one is found.
* `README.md:215` gives a Go package declaration a node of type `module`; `go.go:86-121` makes
  nodes of structs and interfaces, besides functions and methods.
* `docs/intro.md:85` has the expansion pull in callees and callers; the query
  (`postgres_code.go:97-103`) follows edges to callees only.

## 7. Plan

Done: the modules of section 2, their runs, and the proofs of section 4.
What is left, in this order:

1. Ranking arguments like `CallsAdvance` for `DocIngest`, `IngestDir`, `EmbedTexts` and
   `Ragd`: no step takes a call, a worker or a daemon back. With the fairness of the runs
   they are what liveness rests on.
2. Location invariants behind the other half of `CallsFinish`: at each location a call has
   what its next step needs (an edge to store, a node to store, room for a parse).
3. An abstract specification of an answer as its reader sees it, which only grows until
   it ends or breaks off, and that `QueryStream` implements it.

## 8. Running

```
tlc -config MCDocConcurrent.cfg MCDocIngest.tla
tlapm DocIngestProofs.tla
```

Definitions named after a source operation with a suffix (`StoreFailsIgnored`,
`LeaveUndrained`, ...) are faulty variants of the definition that follows them.
They are used by no specification; each is a plausible bug of that operation which
a property of the runs detects when it takes the operation's place
(`mutants` in `PROJECT.json`).
