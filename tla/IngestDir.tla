----------------------------- MODULE IngestDir -----------------------------
(***************************************************************************)
(* Code ingestion of a directory: Pipeline.IngestDir                       *)
(* (internal/ingest/code/pipeline.go).  The calling goroutine walks the    *)
(* tree and sends the source files it meets down a buffered channel; a     *)
(* pool of goroutines takes them off and ingests them; errors go, if there *)
(* is room, into a second channel, which is read when all of them are      *)
(* done.                                                                   *)
(*                                                                         *)
(* What ingestFile does to the store is the subject of CodeIngest; here it *)
(* works or it fails.  The tree is the sequence of entries in the order in *)
(* which filepath.WalkDir calls back, and a file is its position in it.    *)
(***************************************************************************)
EXTENDS Naturals, Sequences, FiniteSets

CONSTANTS
    Trees,        \* the trees to walk: sequences over Kinds
    Workers,      \* the goroutines of the pool
    JobCapacity,  \* capacity of the channel of files, 64 in the code
    Cancellable   \* whether the caller's context can be cancelled

\* What the walk's callback makes of an entry: a file in a language that is
\* asked for or detected; a directory, or a file in no known language; one
\* that WalkDir could not read (the root itself may be).
Kinds == {"source", "ignored", "unreadable"}

ASSUME ConstantsAssumption ==
    /\ Trees \subseteq Seq(Kinds)
    /\ IsFiniteSet(Workers) /\ Workers # {}
    /\ JobCapacity \in Nat \ {0}
    /\ Cancellable \in BOOLEAN

None == 0     \* no file: positions start at 1

VARIABLES
    tree,       \* the tree of this call
    pos,        \* the next entry of the walk
    main,       \* the calling goroutine: "walk", "wait", "collect" or "returned"
    jobs,       \* the channel of files
    closed,     \* whether it is closed
    worker,     \* worker[w]: "receive", "ingest", "report" or "gone"
    file,       \* file[w]: the file worker w has received
    errs,       \* the channel of errors, each the file it is about
    result,     \* the file of the error IngestDir has returned, or None
    cancelled   \* whether the context is cancelled

\* History variables.
VARIABLES
    started,    \* started[f]: how often ingestFile was called on f
    failed      \* the files whose ingestFile returned an error

channels == <<jobs, closed, errs>>
pool == <<worker, file>>
history == <<started, failed>>
vars == <<tree, pos, main, jobs, closed, worker, file, errs, result, cancelled, started, failed>>

Files == {f \in DOMAIN tree : tree[f] = "source"}

\* make(chan error, p.workers): room for one error of each worker.  A variant
\* without a buffer follows; a send that does not block then never succeeds,
\* as nothing receives before the workers are gone.
ErrCapacityNone == 0

ErrCapacity == Cardinality(Workers)

-----------------------------------------------------------------------------
\* The calling goroutine.

\* Directories and unknown files are passed over.
PassOver ==
    /\ main = "walk" /\ pos \in DOMAIN tree
    /\ tree[pos] = "ignored"
    /\ pos' = pos + 1
    /\ UNCHANGED <<tree, main, channels, pool, result, cancelled, history>>

\* A variant that does not look at the language it has detected.
DispatchUnrecognised ==
    /\ main = "walk" /\ pos \in DOMAIN tree /\ tree[pos] # "unreadable"
    /\ Len(jobs) < JobCapacity
    /\ jobs' = Append(jobs, pos)
    /\ pos' = pos + 1
    /\ UNCHANGED <<tree, main, closed, errs, pool, result, cancelled, history>>

\* jobs <- job{...} blocks while the channel is full.
Dispatch ==
    /\ main = "walk" /\ pos \in Files
    /\ Len(jobs) < JobCapacity
    /\ jobs' = Append(jobs, pos)
    /\ pos' = pos + 1
    /\ UNCHANGED <<tree, main, closed, errs, pool, result, cancelled, history>>

\* The walk ends at the last entry, at one that cannot be read, or, if the
\* context is cancelled, at a file it would have to send.  WalkDir's result
\* is dropped in each case, and the channel is closed.
EndWalk ==
    /\ main = "walk"
    /\ \/ pos \notin DOMAIN tree
       \/ pos \in DOMAIN tree /\ tree[pos] = "unreadable"
       \/ pos \in Files /\ cancelled
    /\ main' = "wait"
    /\ closed' = TRUE
    /\ UNCHANGED <<tree, pos, jobs, errs, pool, result, cancelled, history>>

\* wg.Wait.
Wait ==
    /\ main = "wait"
    /\ \A w \in Workers : worker[w] = "gone"
    /\ main' = "collect"
    /\ UNCHANGED <<tree, pos, channels, pool, result, cancelled, history>>

\* Drains the errors and returns the first.
Collect ==
    /\ main = "collect"
    /\ main' = "returned"
    /\ result' = IF errs = <<>> THEN None ELSE Head(errs)
    /\ errs' = <<>>
    /\ UNCHANGED <<tree, pos, jobs, closed, pool, cancelled, history>>

Main == PassOver \/ Dispatch \/ EndWalk \/ Wait \/ Collect

-----------------------------------------------------------------------------
\* The goroutines of the pool.

Receive(w) ==
    /\ worker[w] = "receive"
    /\ jobs # <<>>
    /\ worker' = [worker EXCEPT ![w] = "ingest"]
    /\ file' = [file EXCEPT ![w] = Head(jobs)]
    /\ jobs' = Tail(jobs)
    /\ started' = [started EXCEPT ![Head(jobs)] = @ + 1]
    /\ UNCHANGED <<tree, pos, main, closed, errs, result, cancelled, failed>>

\* A variant that leaves as soon as the channel is closed.
LeaveUndrained(w) ==
    /\ worker[w] = "receive"
    /\ closed
    /\ worker' = [worker EXCEPT ![w] = "gone"]
    /\ UNCHANGED <<tree, pos, main, channels, file, result, cancelled, history>>

\* range jobs ends when the channel is closed and empty.
Leave(w) ==
    /\ worker[w] = "receive"
    /\ closed /\ jobs = <<>>
    /\ worker' = [worker EXCEPT ![w] = "gone"]
    /\ UNCHANGED <<tree, pos, main, channels, file, result, cancelled, history>>

\* ingestFile returns.
Ingest(w, ok) ==
    /\ worker[w] = "ingest"
    /\ worker' = [worker EXCEPT ![w] = IF ok THEN "receive" ELSE "report"]
    /\ file' = [file EXCEPT ![w] = IF ok THEN None ELSE @]
    /\ failed' = IF ok THEN failed ELSE failed \cup {file[w]}
    /\ UNCHANGED <<tree, pos, main, channels, result, cancelled, started>>

\* A variant that waits for room; there never is, once the buffer is full.
ReportBlocking(w) ==
    /\ worker[w] = "report"
    /\ Len(errs) < ErrCapacity
    /\ errs' = Append(errs, file[w])
    /\ worker' = [worker EXCEPT ![w] = "receive"]
    /\ file' = [file EXCEPT ![w] = None]
    /\ UNCHANGED <<tree, pos, main, jobs, closed, result, cancelled, history>>

\* The error is dropped if the channel is full.
Report(w) ==
    /\ worker[w] = "report"
    /\ errs' = IF Len(errs) < ErrCapacity THEN Append(errs, file[w]) ELSE errs
    /\ worker' = [worker EXCEPT ![w] = "receive"]
    /\ file' = [file EXCEPT ![w] = None]
    /\ UNCHANGED <<tree, pos, main, jobs, closed, result, cancelled, history>>

Work(w) == Receive(w) \/ Leave(w) \/ (\E ok \in BOOLEAN : Ingest(w, ok)) \/ Report(w)

-----------------------------------------------------------------------------

\* The caller's context is cancelled at any time.  (The one caller there is,
\* the handler's goroutine, passes context.Background, which never is.)
Cancel ==
    /\ Cancellable /\ ~cancelled
    /\ main # "returned"
    /\ cancelled' = TRUE
    /\ UNCHANGED <<tree, pos, main, channels, pool, result, history>>

Init ==
    /\ tree \in Trees
    /\ pos = 1
    /\ main = "walk"
    /\ jobs = <<>>
    /\ closed = FALSE
    /\ worker = [w \in Workers |-> "receive"]
    /\ file = [w \in Workers |-> None]
    /\ errs = <<>>
    /\ result = None
    /\ cancelled = FALSE
    /\ started = [f \in DOMAIN tree |-> 0]
    /\ failed = {}

Next == Main \/ (\E w \in Workers : Work(w)) \/ Cancel

\* The runtime schedules every goroutine, and ingestFile returns.
Fairness == WF_vars(Main) /\ \A w \in Workers : WF_vars(Work(w))

Spec == Init /\ [][Next]_vars /\ Fairness

-----------------------------------------------------------------------------
\* Properties.

\* Type invariant.
TypeOK ==
    /\ tree \in Trees
    /\ pos \in 1 .. Len(tree) + 1
    /\ main \in {"walk", "wait", "collect", "returned"}
    /\ jobs \in Seq(Files) /\ Len(jobs) <= JobCapacity
    /\ closed \in BOOLEAN
    /\ worker \in [Workers -> {"receive", "ingest", "report", "gone"}]
    /\ file \in [Workers -> Files \cup {None}]
    /\ errs \in Seq(Files) /\ Len(errs) <= Cardinality(Workers)
    /\ result \in Files \cup {None}
    /\ cancelled \in BOOLEAN
    /\ started \in [DOMAIN tree -> Nat]
    /\ failed \subseteq Files

\* No file is ingested by two workers, or twice by one; and when IngestDir
\* has returned, every source file the walk has come past was ingested,
\* although most of them were still in the channel when it was closed.
IngestedOnce ==
    /\ \A f \in DOMAIN tree : started[f] <= 1
    /\ main = "returned" => \A f \in Files : f < pos => started[f] = 1

\* IngestDir returns an error exactly when ingestFile has, and the error of
\* one of the files that failed, although errors are dropped when the
\* channel is full.
ErrorIsReported ==
    main = "returned" =>
        IF failed = {} THEN result = None ELSE result \in failed

\* "IngestDir walks root, ingesting all recognised source files."
\* (pipeline.go:37): if it reports no error, all of them were ingested.
AllIngestedOrError ==
    main = "returned" /\ result = None => \A f \in Files : started[f] = 1

\* IngestDir returns: the walk is not stuck for ever at a full channel of
\* files, nor a worker at a full channel of errors.
Returns == <>(main = "returned")
=============================================================================
