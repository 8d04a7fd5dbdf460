----------------------------- MODULE DocIngest -----------------------------
(***************************************************************************)
(* Document ingestion: DocPipeline.IngestFile (internal/ingest/doc.go)     *)
(* over the PostgreSQL tables doc_chunks and ingest_jobs.                  *)
(*                                                                         *)
(* POST /api/v1/ingest starts a goroutine per request and takes no lock,   *)
(* so any number of calls of IngestFile may run at once, on one path or    *)
(* on several.  A step of a call is one access to what calls share: the    *)
(* file on disk or one statement sent to the database.  Every store call   *)
(* whose error the code drops may fail with no effect; the process may     *)
(* stop between any two steps; files are edited at any time.               *)
(*                                                                         *)
(* A file's content is abstracted to a version, and so is its SHA-256      *)
(* hash (no collisions); chunk i of version v is the pair <<v, i>>, so a   *)
(* chunk row is the version its content comes from.  Embeddings are left   *)
(* out: a row is only ever written with one (a missing vector makes the    *)
(* statement fail, see StoreFails).                                        *)
(***************************************************************************)
EXTENDS Naturals

CONSTANTS
    Paths,        \* source paths
    Calls,        \* goroutines that can be inside IngestFile at the same time
    Versions,     \* contents a file can have
    MaxChunks,    \* bound on the chunks of a version
    NumChunks,    \* NumChunks[v]: length of chunk(text of v); 0 for a blank text
    SourceTypes,  \* subset of {"pdf", "markdown"} that requests ask for
    MayFail,      \* which of FaultPoints can fail
    None          \* no version, no path

FaultPoints == {"get", "pending", "extract", "embed", "delete", "store", "done", "error"}

ASSUME ConstantsAssumption ==
    /\ MaxChunks \in Nat
    /\ NumChunks \in [Versions -> 0 .. MaxChunks]
    /\ SourceTypes \subseteq {"pdf", "markdown"}
    /\ MayFail \subseteq FaultPoints
    /\ None \notin Versions
    /\ None \notin Paths

VARIABLES
    disk,     \* disk[p]: the version of file p, or None when there is no file
    jobs,     \* jobs[p]: the ingest_jobs row of p (source_path is UNIQUE)
    chunks,   \* chunks[p][i]: the doc_chunks row (p, i), or None
    pc,       \* pc[c]: where call c is, "idle" when it has returned
    path,     \* path[c]: the argument of the call
    hash,     \* hash[c]: the version os.ReadFile returned, whose hash was taken
    text,     \* text[c]: the version the text to chunk was extracted from
    next      \* next[c]: the index of the chunk to store next

\* History variables: no guard reads them.  See CleanCall and DoneIsExact.
VARIABLES
    clean,    \* clean[c]: nothing has disturbed call c so far
    suspect   \* suspect[p]: what the job row says of p need not be true

store == <<jobs, chunks>>
call == <<pc, path, hash, text, next>>
history == <<clean, suspect>>
vars == <<disk, jobs, chunks, pc, path, hash, text, next, clean, suspect>>

-----------------------------------------------------------------------------

Index == 0 .. MaxChunks - 1
Rows == [Index -> Versions \cup {None}]

NoRows == [i \in Index |-> None]
Complete(v) == [i \in Index |-> IF i < NumChunks[v] THEN v ELSE None]

NoJob == [status |-> "none", hash |-> None]
Job(status, v) == [status |-> status, hash |-> v]
JobRows == [status : {"none", "pending", "done", "error"}, hash : Versions \cup {None}]

\* One row at most; the caller takes no row and an error for the same thing.
GetIngestJobByPath(p) == jobs[p]

\* UpsertIngestJob of a row for path p; an error leaves the table as it was
\* and is dropped by every caller in IngestFile.
UpsertIngestJob(p, status, v, applied) ==
    jobs' = IF applied THEN [jobs EXCEPT ![p] = Job(status, v)] ELSE jobs

Goto(c, l) == pc' = [pc EXCEPT ![c] = l]

\* Where a call is between its first write to the job row and its return.
Writing == {"extract", "embed", "fail", "clear", "store", "finish"}
Locations == {"idle", "check", "mark"} \cup Writing

\* The other calls that are writing the path of call c.
Rivals(c) == {d \in Calls \ {c} : path[d] = path[c] /\ pc[d] \in Writing}

\* What call c knows is gone when it returns.
Return(c) ==
    /\ Goto(c, "idle")
    /\ path' = [path EXCEPT ![c] = None]
    /\ hash' = [hash EXCEPT ![c] = None]
    /\ text' = [text EXCEPT ![c] = None]
    /\ next' = [next EXCEPT ![c] = 0]
    /\ clean' = [clean EXCEPT ![c] = TRUE]

-----------------------------------------------------------------------------
\* A call of IngestFile, in the order of its steps.

\* os.ReadFile and sha256.Sum256; a file that cannot be read ends the call
\* before it has changed anything.
Begin(c, p) ==
    /\ pc[c] = "idle"
    /\ disk[p] # None
    /\ Goto(c, "check")
    /\ path' = [path EXCEPT ![c] = p]
    /\ hash' = [hash EXCEPT ![c] = disk[p]]
    /\ UNCHANGED <<disk, store, text, next, history>>

\* A variant that looks at the hash alone, so that an interrupted ingest
\* counts as a finished one.
UnchangedByHash(c) == GetIngestJobByPath(path[c]).hash = hash[c]

\* The last ingest of the path finished and had the same content.
Unchanged(c) == GetIngestJobByPath(path[c]) = Job("done", hash[c])

SkipUnchanged(c) ==
    /\ pc[c] = "check"
    /\ Unchanged(c)
    /\ Return(c)
    /\ UNCHANGED <<disk, store, suspect>>

\* GetIngestJobByPath failed (unread), or found no row, or one that differs.
Proceed(c, unread) ==
    /\ pc[c] = "check"
    /\ unread \/ ~Unchanged(c)
    /\ Goto(c, "mark")
    /\ UNCHANGED <<disk, store, path, hash, text, next, history>>

\* The row becomes "pending" before anything else is written.  From here on
\* the call is disturbed by any other call writing the path, and a lost
\* write leaves a "done" row standing over rows that are about to change.
MarkPending(c, applied) ==
    LET p == path[c]
        unmarked == ~applied /\ jobs[p].status = "done"
    IN  /\ pc[c] = "mark"
        /\ UpsertIngestJob(p, "pending", hash[c], applied)
        /\ Goto(c, "extract")
        /\ clean' = [d \in Calls |->
                        IF d = c THEN Rivals(c) = {} /\ ~unmarked
                                 ELSE clean[d] /\ d \notin Rivals(c)]
        /\ suspect' = [suspect EXCEPT ![p] = @ \/ unmarked]
        /\ UNCHANGED <<disk, chunks, path, hash, text, next>>

\* The version text is extracted from: extractMarkdown converts the bytes
\* already read (which any other type takes as they are), extractPDF opens
\* the path again.
TextSource(c, type) == IF type = "pdf" THEN disk[path[c]] ELSE hash[c]

\* Text extraction and chunking.  A text without chunks is "done" at once,
\* with the rows of earlier versions left where they are.
Extract(c, type) ==
    LET v == TextSource(c, type)
        p == path[c]
    IN  /\ pc[c] = "extract"
        /\ v # None
        /\ Goto(c, IF NumChunks[v] = 0 THEN "finish" ELSE "embed")
        /\ text' = [text EXCEPT ![c] = v]
        /\ clean' = [clean EXCEPT ![c] =
                        @ /\ v = hash[c] /\ (NumChunks[v] = 0 => chunks[p] = NoRows)]
        /\ UNCHANGED <<disk, store, path, hash, next, suspect>>

\* pdf.Open failed: the file is gone or is not a PDF.
ExtractFails(c) ==
    /\ pc[c] = "extract"
    /\ "pdf" \in SourceTypes
    /\ "extract" \in MayFail \/ disk[path[c]] = None
    /\ Goto(c, "fail")
    /\ UNCHANGED <<disk, store, path, hash, text, next, history>>

\* EmbedTexts returned; the vectors are not modelled.
Embed(c) ==
    /\ pc[c] = "embed"
    /\ Goto(c, "clear")
    /\ UNCHANGED <<disk, store, path, hash, text, next, history>>

EmbedFails(c) ==
    /\ pc[c] = "embed"
    /\ Goto(c, "fail")
    /\ UNCHANGED <<disk, store, path, hash, text, next, history>>

\* The error of an extraction or of the embedder is put in the job row.
MarkError(c, applied) ==
    /\ pc[c] = "fail"
    /\ UpsertIngestJob(path[c], "error", hash[c], applied)
    /\ Return(c)
    /\ UNCHANGED <<disk, chunks, suspect>>

\* A variant that never deletes: a shorter version keeps an old tail.
DeleteOldSkipped(c, applied) ==
    /\ pc[c] = "clear"
    /\ Goto(c, "store")
    /\ UNCHANGED <<disk, store, path, hash, text, next, history>>

DeleteDocChunksBySource(p) == chunks' = [chunks EXCEPT ![p] = NoRows]

\* The error of the delete is dropped.
DeleteOld(c, applied) ==
    LET p == path[c]
    IN  /\ pc[c] = "clear"
        /\ IF applied THEN DeleteDocChunksBySource(p) ELSE UNCHANGED chunks
        /\ clean' = [clean EXCEPT ![c] = @ /\ (applied \/ chunks[p] = NoRows)]
        /\ Goto(c, "store")
        /\ UNCHANGED <<disk, jobs, path, hash, text, next, suspect>>

\* ON CONFLICT (source_path, chunk_index) DO UPDATE: the row becomes this
\* call's, whoever wrote it before.
UpsertDocChunk(c) == chunks' = [chunks EXCEPT ![path[c]][next[c]] = text[c]]

\* A variant whose loop runs one round too many.
StoreChunkTooMany(c) ==
    /\ pc[c] = "store"
    /\ UpsertDocChunk(c)
    /\ next' = [next EXCEPT ![c] = @ + 1]
    /\ Goto(c, IF next[c] = NumChunks[text[c]] THEN "finish" ELSE "store")
    /\ UNCHANGED <<disk, jobs, path, hash, text, history>>

\* One round of the loop over the chunks.
StoreChunk(c) ==
    /\ pc[c] = "store"
    /\ UpsertDocChunk(c)
    /\ next' = [next EXCEPT ![c] = @ + 1]
    /\ Goto(c, IF next[c] + 1 = NumChunks[text[c]] THEN "finish" ELSE "store")
    /\ UNCHANGED <<disk, jobs, path, hash, text, history>>

\* A variant that drops the error as the other store calls do and goes on
\* to claim success.
StoreFailsIgnored(c, written) ==
    /\ pc[c] = "store"
    /\ IF written THEN UpsertDocChunk(c) ELSE UNCHANGED chunks
    /\ Goto(c, "finish")
    /\ UNCHANGED <<disk, jobs, path, hash, text, next, history>>

\* A variant that starts the loop again, however often the store fails.
StoreFailsRetried(c, written) ==
    /\ pc[c] = "store"
    /\ IF written THEN UpsertDocChunk(c) ELSE UNCHANGED chunks
    /\ next' = [next EXCEPT ![c] = 0]
    /\ UNCHANGED <<disk, jobs, pc, path, hash, text, history>>

\* The statement failed, or took effect and its answer was lost.  The call
\* returns and leaves the job row at "pending".
StoreFails(c, written) ==
    /\ pc[c] = "store"
    /\ IF written THEN UpsertDocChunk(c) ELSE UNCHANGED chunks
    /\ Return(c)
    /\ UNCHANGED <<disk, jobs, suspect>>

\* The last upsert of the job row, and the return.
MarkDone(c, applied) ==
    LET p == path[c]
    IN  /\ pc[c] = "finish"
        /\ UpsertIngestJob(p, "done", hash[c], applied)
        /\ suspect' = [suspect EXCEPT ![p] = IF applied THEN ~clean[c] ELSE @]
        /\ Return(c)
        /\ UNCHANGED <<disk, chunks>>

-----------------------------------------------------------------------------
\* The environment.

\* The file is written, replaced or removed by its owner.
EditFile(p) ==
    /\ \E v \in (Versions \cup {None}) \ {disk[p]} : disk' = [disk EXCEPT ![p] = v]
    /\ UNCHANGED <<store, call, history>>

\* ragd stops (signal, crash): nothing waits for the ingest goroutines and
\* nothing restarts them, so every call is gone and the store is as it is.
Crash ==
    /\ \E c \in Calls : pc[c] # "idle"
    /\ pc' = [c \in Calls |-> "idle"]
    /\ path' = [c \in Calls |-> None]
    /\ hash' = [c \in Calls |-> None]
    /\ text' = [c \in Calls |-> None]
    /\ next' = [c \in Calls |-> 0]
    /\ clean' = [c \in Calls |-> TRUE]
    /\ UNCHANGED <<disk, store, suspect>>

-----------------------------------------------------------------------------

Init ==
    /\ disk \in [Paths -> Versions \cup {None}]
    /\ jobs = [p \in Paths |-> NoJob]
    /\ chunks = [p \in Paths |-> NoRows]
    /\ pc = [c \in Calls |-> "idle"]
    /\ path = [c \in Calls |-> None]
    /\ hash = [c \in Calls |-> None]
    /\ text = [c \in Calls |-> None]
    /\ next = [c \in Calls |-> 0]
    /\ clean = [c \in Calls |-> TRUE]
    /\ suspect = [p \in Paths |-> FALSE]

\* A step of a call in which everything works.
Step(c) ==
    \/ SkipUnchanged(c)
    \/ Proceed(c, FALSE)
    \/ MarkPending(c, TRUE)
    \/ \E type \in SourceTypes : Extract(c, type)
    \/ Embed(c)
    \/ DeleteOld(c, TRUE)
    \/ StoreChunk(c)
    \/ MarkDone(c, TRUE)
    \/ MarkError(c, TRUE)

\* A step of a call in which what it asks for fails.
Fault(c) ==
    \/ "get" \in MayFail /\ Proceed(c, TRUE)
    \/ "pending" \in MayFail /\ MarkPending(c, FALSE)
    \/ ExtractFails(c)
    \/ "embed" \in MayFail /\ EmbedFails(c)
    \/ "delete" \in MayFail /\ DeleteOld(c, FALSE)
    \/ "store" \in MayFail /\ \E written \in BOOLEAN : StoreFails(c, written)
    \/ "done" \in MayFail /\ MarkDone(c, FALSE)
    \/ "error" \in MayFail /\ MarkError(c, FALSE)

\* Calls begin and do their work; nothing fails, and nobody interferes.
Smooth ==
    \/ \E c \in Calls, p \in Paths : Begin(c, p)
    \/ \E c \in Calls : Step(c)

Next ==
    \/ Smooth
    \/ \E c \in Calls : Fault(c)
    \/ \E p \in Paths : EditFile(p)
    \/ Crash

Spec == Init /\ [][Next]_vars

\* A goroutine is never stopped short of a crash: what it asks for works or
\* fails.  Nothing obliges anybody to ask for an ingest or to edit a file.
Fairness == \A c \in Calls : WF_vars(Step(c) \/ Fault(c))

FairSpec == Spec /\ Fairness

-----------------------------------------------------------------------------
(***************************************************************************)
(* Properties.                                                             *)
(*                                                                         *)
(* A call is clean when, from its write of "pending" to its write of       *)
(* "done", no other call was writing its path, its "pending" write did not *)
(* get lost under a "done" row, a PDF was not replaced between the two     *)
(* reads of it, a blank text did not find rows of an earlier version, and  *)
(* the delete was not lost while there were rows.  A path is suspect when  *)
(* its last "done" was written by a call that was not clean, or a          *)
(* "pending" write got lost under it.                                      *)
(***************************************************************************)

\* Type invariant.
TypeOK ==
    /\ disk \in [Paths -> Versions \cup {None}]
    /\ jobs \in [Paths -> JobRows]
    /\ chunks \in [Paths -> Rows]
    /\ pc \in [Calls -> Locations]
    /\ path \in [Calls -> Paths \cup {None}]
    /\ hash \in [Calls -> Versions \cup {None}]
    /\ text \in [Calls -> Versions \cup {None}]
    /\ next \in [Calls -> 0 .. MaxChunks]
    /\ clean \in [Calls -> BOOLEAN]
    /\ suspect \in [Paths -> BOOLEAN]

\* A job row that says "done" at a hash is true: the chunk rows of the path
\* are the chunks of that version, none missing and none left over from an
\* earlier one.  This is what lets IngestFile skip the file next time.  It
\* can be false only for a suspect path.
DoneIsExact ==
    \A p \in Paths :
        jobs[p].status = "done" /\ ~suspect[p] => chunks[p] = Complete(jobs[p].hash)

\* The version a path is published at: what a "done" row claims, unless the
\* path is suspect.
Published == [p \in Paths |->
                IF jobs[p].status = "done" /\ ~suspect[p] THEN jobs[p].hash ELSE None]

Abstract == INSTANCE DocIndex WITH published <- Published, rows <- chunks

\* Ingestion implements the index: a published path keeps its rows until a
\* call has withdrawn the claim, and is published again only complete.
ImplementsIndex == Abstract!Spec

\* DoneIsExact without its exception, which is what "Re-ingesting the same
\* path is safe" (README.md:194) says to an operator.
ReingestIsSafe ==
    \A p \in Paths : jobs[p].status = "done" => chunks[p] = Complete(jobs[p].hash)

\* Every call returns, on every path through its failures.
EveryCallReturns == \A c \in Calls : pc[c] # "idle" ~> pc[c] = "idle"

\* No two calls are running.
OneAtATime == \A c, d \in Calls : pc[c] # "idle" /\ pc[d] # "idle" => c = d

\* Once nothing fails, nobody edits the file and calls no longer overlap,
\* ingesting a path again and again ends with its row "done" at the file's
\* content, for good: neither a row an interrupted ingest left behind nor
\* the row of another version makes later calls skip the file.  (Calls that
\* overlap for ever can keep taking turns at "pending" for ever.)
IngestConverges ==
    \A p \in Paths :
        /\ <>[][Smooth]_vars
        /\ <>[]OneAtATime
        /\ []<><<\E c \in Calls : Begin(c, p)>>_vars
        => <>[](jobs[p] = Job("done", disk[p]))
=============================================================================
