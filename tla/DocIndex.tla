------------------------------ MODULE DocIndex ------------------------------
(***************************************************************************)
(* What document ingestion promises to a reader of the store, without      *)
(* calls, job rows or failures: each source path is either published at    *)
(* one version of its file, and then the chunk rows of the path are        *)
(* exactly the chunks of that version, or it is not published, and then    *)
(* its rows may be anything.  Rows change only while the path is           *)
(* unpublished, and a new version is published only after the old one has  *)
(* been withdrawn.                                                         *)
(*                                                                         *)
(* DocIngest implements this specification; see ImplementsIndex there. *)
(***************************************************************************)
EXTENDS Naturals

CONSTANTS
    Paths,      \* source paths
    Versions,   \* contents a file can have, one per SHA-256 hash
    MaxChunks,  \* no version has more chunks than this
    NumChunks,  \* NumChunks[v]: how many chunks version v is split into
    None        \* no version: an absent row, file or claim

VARIABLES
    published,  \* published[p]: the version the path is published at, or None
    rows        \* rows[p][i]: the version chunk i of p comes from, or None

vars == <<published, rows>>

\* Chunk indexes, 0-based as in doc_chunks.chunk_index.
Index == 0 .. MaxChunks - 1

\* The rows of a path that holds version v and nothing else.
Complete(v) == [i \in Index |-> IF i < NumChunks[v] THEN v ELSE None]

Rows == [Index -> Versions \cup {None}]

Init ==
    /\ published = [p \in Paths |-> None]
    /\ rows = [p \in Paths |-> [i \in Index |-> None]]

\* The path's rows are set to those of one version and claimed to be it.
Publish(p, v) ==
    /\ published[p] = None
    /\ published' = [published EXCEPT ![p] = v]
    /\ rows' = [rows EXCEPT ![p] = Complete(v)]

\* The claim is taken back before the rows are touched.
Withdraw(p) ==
    /\ published[p] # None
    /\ published' = [published EXCEPT ![p] = None]
    /\ UNCHANGED rows

\* An unpublished path promises nothing about its rows.
Rewrite(p) ==
    /\ published[p] = None
    /\ \E r \in Rows : rows' = [rows EXCEPT ![p] = r]
    /\ UNCHANGED published

Next ==
    \E p \in Paths :
        \/ \E v \in Versions : Publish(p, v)
        \/ Withdraw(p)
        \/ Rewrite(p)

Spec == Init /\ [][Next]_vars
=============================================================================
