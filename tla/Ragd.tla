-------------------------------- MODULE Ragd --------------------------------
(***************************************************************************)
(* The life of the daemons on one database: postgres.Open with its         *)
(* migrations (internal/store/postgres/postgres.go), run (cmd/ragd/main.go)*)
(* with its shutdown, and what handleIngest leaves running behind an       *)
(* accepted request (internal/api/handlers.go).                            *)
(*                                                                         *)
(* PostgreSQL is external, and modelled by what the statements of migrate  *)
(* rely on: a transaction that creates what another one is creating waits  *)
(* for it; CREATE ... IF NOT EXISTS looks first and creates later, and     *)
(* fails if it is overtaken in between; a version is a primary key; what   *)
(* was sent over a connection that broke may take effect, or not, at any   *)
(* time until the server notices.                                          *)
(* Registering the type of pgvector fails while the extension is missing.  *)
(***************************************************************************)
EXTENDS Naturals, FiniteSets

CONSTANTS
    Daemons,
    Migrations,   \* how many migration files the program holds
    Handlers,     \* requests a daemon serves at the same time
    Documents,    \* files in a directory that is ingested
    MaxStarts     \* bound on the starts of all daemons together

ASSUME ConstantsAssumption ==
    /\ Migrations \in Nat \ {0}
    /\ Documents \in Nat \ {0}
    /\ MaxStarts \in Nat

\* The database.
VARIABLES
    extension,   \* whether pgvector is installed in it
    table,       \* whether schema_migrations is there
    recorded,    \* the rows of schema_migrations
    orphans      \* orphans[m]: what a lost connection left of migration m

\* The daemons.
VARIABLES
    pc,          \* pc[d]: where daemon d is
    file,        \* file[d]: the migration it looks at
    signalled,   \* signalled[d]: its context is cancelled by SIGINT or SIGTERM
    handler,     \* handler[d][h]: a request, which may hold a connection
    ingest,      \* ingest[d]: the goroutine of an accepted ingest, likewise
    at           \* at[d]: the document it is at

\* History variables: no guard of the daemons reads them.
VARIABLES
    applied,     \* applied[m]: how often migration m was committed
    starts,      \* how often daemons were started
    faulty,      \* faulty[d]: its surroundings failed d since it started
    contended,   \* contended[d]: another daemon was starting while d was
    expired      \* expired[d]: the ten seconds of its shutdown were over

database == <<extension, table, recorded, orphans, applied>>
serving == <<handler, ingest, at>>
history == <<starts, faulty, contended, expired>>
vars == <<extension, table, recorded, orphans, pc, file, signalled, handler, ingest, at,
          applied, starts, faulty, contended, expired>>

-----------------------------------------------------------------------------

Starting == {"connect", "check", "create", "count", "exec", "blocked", "record", "commit"}
Running == Starting \cup {"serving", "draining", "closing"}
\* "down" before a start and after a crash, "failed" when run returned an
\* error before it served, "stopped" when it was shut down.
Locations == Running \cup {"down", "failed", "stopped"}

\* A request that is "posting" asks for an ingest.
Tasks == {"idle", "working", "querying", "posting"}

\* A transaction that is "open" will be rolled back; the COMMIT of one that is
\* "sent" may be on its way.  Under 0 it is CREATE TABLE schema_migrations.
Orphans == {"none", "open", "sent"}

Goto(d, l) == pc' = [pc EXCEPT ![d] = l]

\* Open returns an error, and the process ends.
Fail(d) == Goto(d, "failed")

\* What a process has in memory is gone with it.
Reset(d) ==
    /\ file' = [file EXCEPT ![d] = 1]
    /\ signalled' = [signalled EXCEPT ![d] = FALSE]
    /\ handler' = [handler EXCEPT ![d] = [h \in Handlers |-> "idle"]]
    /\ ingest' = [ingest EXCEPT ![d] = "idle"]
    /\ at' = [at EXCEPT ![d] = 0]

\* Whether the transaction of another daemon, which may be gone, holds what
\* migration m creates.
Held(d, m) ==
    \/ orphans[m] # "none"
    \/ \E e \in Daemons \ {d} : pc[e] \in {"record", "commit"} /\ file[e] = m

\* The connection of a daemon breaks while it migrates.
Abandon(d) ==
    orphans' = CASE pc[d] = "create" -> [orphans EXCEPT ![0] = "sent"]
                 [] pc[d] = "record" -> [orphans EXCEPT ![file[d]] = "open"]
                 [] pc[d] = "commit" -> [orphans EXCEPT ![file[d]] = "sent"]
                 [] OTHER -> orphans

-----------------------------------------------------------------------------
\* Open and migrate.

Start(d) ==
    LET others == {e \in Daemons \ {d} : pc[e] \in Starting}
    IN  /\ pc[d] \in {"down", "failed", "stopped"} /\ starts < MaxStarts
        /\ Goto(d, "connect")
        /\ file' = [file EXCEPT ![d] = 1]
        /\ signalled' = [signalled EXCEPT ![d] = FALSE]
        /\ starts' = starts + 1
        /\ faulty' = [faulty EXCEPT ![d] = FALSE]
        /\ contended' = [e \in Daemons |->
                            IF e = d THEN others # {} ELSE contended[e] \/ e \in others]
        /\ expired' = [expired EXCEPT ![d] = FALSE]
        /\ UNCHANGED <<database, serving>>

\* Ping is the first to need a connection, and AfterConnect runs on each.
Connect(d) ==
    /\ pc[d] = "connect"
    /\ IF extension
       THEN Goto(d, "check") /\ UNCHANGED faulty
       ELSE Fail(d) /\ faulty' = [faulty EXCEPT ![d] = TRUE]
    /\ UNCHANGED <<database, file, signalled, serving, starts, contended, expired>>

CheckTable(d) ==
    /\ pc[d] = "check"
    /\ Goto(d, IF table THEN "count" ELSE "create")
    /\ UNCHANGED <<database, file, signalled, serving, history>>

CreateTable(d) ==
    /\ pc[d] = "create"
    /\ IF table THEN Fail(d) ELSE Goto(d, "count")
    /\ table' = TRUE
    /\ UNCHANGED <<extension, recorded, orphans, applied, file, signalled, serving, history>>

\* On to the next file, or, after the last, to ListenAndServe.
NextFile(d) ==
    /\ Goto(d, IF file[d] = Migrations THEN "serving" ELSE "count")
    /\ file' = [file EXCEPT ![d] = IF @ = Migrations THEN @ ELSE @ + 1]

\* A variant that takes one row for none.
CountTwo(d, unread) ==
    /\ pc[d] = "count"
    /\ Goto(d, "exec")
    /\ UNCHANGED <<database, file, signalled, serving, history>>

\* The error of the query is dropped, and the count is then 0.
Count(d, unread) ==
    /\ pc[d] = "count"
    /\ IF file[d] \in recorded /\ ~unread
       THEN NextFile(d)
       ELSE Goto(d, "exec") /\ UNCHANGED file
    /\ faulty' = [faulty EXCEPT ![d] = @ \/ unread]
    /\ UNCHANGED <<database, signalled, serving, starts, contended, expired>>

\* Begin, and the file's statements, which do nothing where what they create
\* is there.
Exec(d) ==
    /\ pc[d] = "exec"
    /\ Goto(d, IF Held(d, file[d]) THEN "blocked" ELSE "record")
    /\ UNCHANGED <<database, file, signalled, serving, history>>

\* The transaction it waited for is over.  If that was committed, a statement
\* that had looked before may fail.
Unblock(d, overtaken) ==
    /\ pc[d] = "blocked" /\ ~Held(d, file[d])
    /\ overtaken => file[d] \in recorded
    /\ IF overtaken THEN Fail(d) ELSE Goto(d, "record")
    /\ UNCHANGED <<database, file, signalled, serving, history>>

\* A variant with ON CONFLICT DO NOTHING.
RecordAgain(d) ==
    /\ pc[d] = "record"
    /\ Goto(d, "commit")
    /\ UNCHANGED <<database, file, signalled, serving, history>>

\* The row is inserted; where it is there, the transaction is rolled back.
Record(d) ==
    /\ pc[d] = "record"
    /\ IF file[d] \in recorded THEN Fail(d) ELSE Goto(d, "commit")
    /\ UNCHANGED <<database, file, signalled, serving, history>>

Committed(m) ==
    /\ recorded' = recorded \cup {m}
    /\ applied' = [applied EXCEPT ![m] = @ + 1]
    /\ UNCHANGED <<extension, table>>

Commit(d) ==
    /\ pc[d] = "commit"
    /\ Committed(file[d])
    /\ NextFile(d)
    /\ UNCHANGED <<orphans, signalled, serving, history>>

\* A connection or a statement fails, and Open with it.
StartFails(d) ==
    /\ pc[d] \in Starting
    /\ Fail(d)
    /\ Abandon(d)
    /\ faulty' = [faulty EXCEPT ![d] = TRUE]
    /\ UNCHANGED <<extension, table, recorded, applied, file, signalled, serving,
                    starts, contended, expired>>

\* The server notices that a connection is lost, and rolls back.
RollBack(m) ==
    /\ orphans[m] # "none"
    /\ orphans' = [orphans EXCEPT ![m] = "none"]
    /\ UNCHANGED <<extension, table, recorded, applied, pc, file, signalled, serving, history>>

\* For whoever is starting, what a lost connection brings about is the work of
\* another daemon, even if it was its own before.
ContendsStarting == contended' = [d \in Daemons |-> contended[d] \/ pc[d] \in Starting]

\* The server commits all the same, or creates the table.
LateCommit(m) ==
    /\ orphans[m] = "sent"
    /\ orphans' = [orphans EXCEPT ![m] = "none"]
    /\ Committed(m)
    /\ ContendsStarting
    /\ UNCHANGED <<pc, file, signalled, serving, starts, faulty, expired>>

LateCreate ==
    /\ orphans[0] = "sent" /\ ~table
    /\ orphans' = [orphans EXCEPT ![0] = "none"]
    /\ table' = TRUE
    /\ ContendsStarting
    /\ UNCHANGED <<extension, recorded, applied, pc, file, signalled, serving,
                    starts, faulty, expired>>

-----------------------------------------------------------------------------
\* Requests.  The pool lends connections until Close is called.

PoolOpen(d) == pc[d] \in {"serving", "draining"}

Request(d, h, from, to) ==
    /\ handler[d][h] = from
    /\ handler' = [handler EXCEPT ![d][h] = to]
    /\ UNCHANGED <<database, pc, file, signalled, ingest, at, history>>

Accept(d, h) == pc[d] = "serving" /\ Request(d, h, "idle", "working")
Query(d, h) == PoolOpen(d) /\ Request(d, h, "working", "querying")
Queried(d, h) == Request(d, h, "querying", "working")
Respond(d, h) == Request(d, h, "working", "idle")

Post(d, h) == pc[d] = "serving" /\ Request(d, h, "idle", "posting")
Refuse(d, h) == Request(d, h, "posting", "idle")

\* handleIngest starts a goroutine with a background context, however far the
\* daemon has shut down meanwhile, and answers at once.  (Bound: one ingest at
\* a time in each daemon.)
AcceptIngest(d, h) ==
    /\ handler[d][h] = "posting" /\ ingest[d] = "idle"
    /\ handler' = [handler EXCEPT ![d][h] = "idle"]
    /\ ingest' = [ingest EXCEPT ![d] = "working"]
    /\ at' = [at EXCEPT ![d] = 1]
    /\ UNCHANGED <<database, pc, file, signalled, history>>

Statement(d) ==
    /\ PoolOpen(d) /\ ingest[d] = "working"
    /\ ingest' = [ingest EXCEPT ![d] = "querying"]
    /\ UNCHANGED <<database, pc, file, signalled, handler, at, history>>

StatementEnds(d) ==
    /\ ingest[d] = "querying"
    /\ ingest' = [ingest EXCEPT ![d] = "working"]
    /\ UNCHANGED <<database, pc, file, signalled, handler, at, history>>

\* A variant that takes one document more than there are.
NextDocumentTooMany(d) ==
    LET final == at[d] > Documents
    IN  /\ ingest[d] = "working"
        /\ ingest' = [ingest EXCEPT ![d] = IF final THEN "idle" ELSE @]
        /\ at' = [at EXCEPT ![d] = IF final THEN 0 ELSE @ + 1]
        /\ UNCHANGED <<database, pc, file, signalled, handler, history>>

\* A document is ingested or has failed, as all do once the pool is closed;
\* the loop goes on either way.
NextDocument(d) ==
    LET final == at[d] = Documents
    IN  /\ ingest[d] = "working"
        /\ ingest' = [ingest EXCEPT ![d] = IF final THEN "idle" ELSE @]
        /\ at' = [at EXCEPT ![d] = IF final THEN 0 ELSE @ + 1]
        /\ UNCHANGED <<database, pc, file, signalled, handler, history>>

-----------------------------------------------------------------------------
\* The end.

\* The signal is only looked at when the daemon serves.
Signal(d) ==
    /\ pc[d] \in Running /\ ~signalled[d]
    /\ signalled' = [signalled EXCEPT ![d] = TRUE]
    /\ UNCHANGED <<database, pc, file, serving, history>>

\* Shutdown accepts nothing more, and waits.
Shutdown(d) ==
    /\ pc[d] = "serving" /\ signalled[d]
    /\ Goto(d, "draining")
    /\ UNCHANGED <<database, file, signalled, serving, history>>

Drained(d) ==
    /\ pc[d] = "draining"
    /\ \A h \in Handlers : handler[d][h] = "idle"
    /\ Goto(d, "closing")
    /\ UNCHANGED <<database, file, signalled, serving, history>>

\* A variant with a deadline for statements only.
DrainExpiresQuerying(d) ==
    /\ pc[d] = "draining"
    /\ \A h \in Handlers : handler[d][h] = "querying"
    /\ Goto(d, "closing")
    /\ expired' = [expired EXCEPT ![d] = TRUE]
    /\ UNCHANGED <<database, file, signalled, serving, starts, faulty, contended>>

\* The ten seconds are over; Shutdown returns an error.
DrainExpires(d) ==
    /\ pc[d] = "draining"
    /\ \E h \in Handlers : handler[d][h] # "idle"
    /\ Goto(d, "closing")
    /\ expired' = [expired EXCEPT ![d] = TRUE]
    /\ UNCHANGED <<database, file, signalled, serving, starts, faulty, contended>>

\* ListenAndServe returns: the address is taken, or accepting fails.  The
\* deferred Close runs, and nothing waits for the handlers.
ServerFails(d) ==
    /\ pc[d] = "serving"
    /\ Goto(d, "closing")
    /\ faulty' = [faulty EXCEPT ![d] = TRUE]
    /\ UNCHANGED <<database, file, signalled, serving, starts, contended, expired>>

InStatement(d) == ingest[d] = "querying" \/ \E h \in Handlers : handler[d][h] = "querying"

\* A variant that waits for the requests' statements only.
CloseAndExitEarly(d) ==
    /\ pc[d] = "closing"
    /\ \A h \in Handlers : handler[d][h] # "querying"
    /\ Goto(d, "stopped")
    /\ Reset(d)
    /\ UNCHANGED <<database, history>>

\* Close waits for the connections that are lent; then the process ends, and
\* with it every goroutine.
CloseAndExit(d) ==
    /\ pc[d] = "closing"
    /\ ~InStatement(d)
    /\ Goto(d, "stopped")
    /\ Reset(d)
    /\ UNCHANGED <<database, history>>

\* The process is killed.
Crash(d) ==
    /\ pc[d] \in Running
    /\ Goto(d, "down")
    /\ Reset(d)
    /\ Abandon(d)
    /\ UNCHANGED <<extension, table, recorded, applied, history>>

-----------------------------------------------------------------------------

\* A database is fresh, or was left by a daemon of an earlier version, with
\* fewer files.
Init ==
    /\ \E n \in 0 .. Migrations :
          /\ recorded = 1 .. n
          /\ applied = [m \in 1 .. Migrations |-> IF m <= n THEN 1 ELSE 0]
          /\ table \in BOOLEAN /\ extension \in BOOLEAN
          /\ n > 0 => table /\ extension
    /\ orphans = [m \in 0 .. Migrations |-> "none"]
    /\ pc = [d \in Daemons |-> "down"]
    /\ file = [d \in Daemons |-> 1]
    /\ signalled = [d \in Daemons |-> FALSE]
    /\ handler = [d \in Daemons |-> [h \in Handlers |-> "idle"]]
    /\ ingest = [d \in Daemons |-> "idle"]
    /\ at = [d \in Daemons |-> 0]
    /\ starts = 0
    /\ faulty = [d \in Daemons |-> FALSE]
    /\ contended = [d \in Daemons |-> FALSE]
    /\ expired = [d \in Daemons |-> FALSE]

\* The administrator installs pgvector.
CreateExtension ==
    /\ ~extension
    /\ extension' = TRUE
    /\ UNCHANGED <<table, recorded, orphans, applied, pc, file, signalled, serving, history>>

\* What a daemon does by itself.
Open(d) ==
    \/ Connect(d)
    \/ CheckTable(d)
    \/ CreateTable(d)
    \/ Count(d, FALSE)
    \/ Exec(d)
    \/ \E overtaken \in BOOLEAN : Unblock(d, overtaken)
    \/ Record(d)
    \/ Commit(d)

Stop(d) == Shutdown(d) \/ Drained(d) \/ DrainExpires(d) \/ CloseAndExit(d)

Fault(d) == Count(d, TRUE) \/ StartFails(d) \/ ServerFails(d) \/ Crash(d)

\* What becomes of a lost connection.
Ends(m) == RollBack(m) \/ (m # 0 /\ LateCommit(m)) \/ (m = 0 /\ LateCreate)

Serve(d) ==
    \/ \E h \in Handlers : Accept(d, h) \/ Query(d, h) \/ Queried(d, h) \/ Respond(d, h)
    \/ \E h \in Handlers : Post(d, h) \/ Refuse(d, h) \/ AcceptIngest(d, h)
    \/ Statement(d)
    \/ StatementEnds(d)
    \/ NextDocument(d)

Next ==
    \/ \E d \in Daemons : Start(d) \/ Open(d) \/ Serve(d) \/ Signal(d) \/ Stop(d) \/ Fault(d)
    \/ \E m \in 0 .. Migrations : Ends(m)
    \/ CreateExtension

\* A daemon goes on by itself, and its deadlines pass; statements end, and the
\* server notices a lost connection.  A handler or an ingest need not end.
Fairness ==
    /\ \A m \in 0 .. Migrations : WF_vars(Ends(m))
    /\ \A d \in Daemons :
          /\ WF_vars(Open(d))
          /\ WF_vars(Stop(d))
          /\ WF_vars(StatementEnds(d))
          /\ \A h \in Handlers : WF_vars(Queried(d, h))

Spec == Init /\ [][Next]_vars /\ Fairness

-----------------------------------------------------------------------------
\* Properties.

\* Type invariant.
TypeOK ==
    /\ extension \in BOOLEAN
    /\ table \in BOOLEAN
    /\ recorded \subseteq 1 .. Migrations
    /\ orphans \in [0 .. Migrations -> Orphans]
    /\ pc \in [Daemons -> Locations]
    /\ file \in [Daemons -> 1 .. Migrations]
    /\ signalled \in [Daemons -> BOOLEAN]
    /\ handler \in [Daemons -> [Handlers -> Tasks]]
    /\ ingest \in [Daemons -> Tasks]
    /\ at \in [Daemons -> 0 .. Documents]
    /\ \A d \in Daemons : at[d] = 0 <=> ingest[d] = "idle"
    /\ applied \in [1 .. Migrations -> Nat]
    /\ starts \in 0 .. MaxStarts
    /\ faulty \in [Daemons -> BOOLEAN]
    /\ contended \in [Daemons -> BOOLEAN]
    /\ expired \in [Daemons -> BOOLEAN]

\* "The server ... runs database migrations automatically on startup"
\* (README.md:119): whatever daemons start together, crash in between and
\* start again, a migration is in the database exactly once if it is recorded
\* and not at all if not, never before an earlier one; and a daemon that serves
\* has all of them.
MigratedOnce ==
    /\ \A m \in 1 .. Migrations : applied[m] = IF m \in recorded THEN 1 ELSE 0
    /\ \A m \in recorded : 1 .. m \subseteq recorded
    /\ \A d \in Daemons :
          pc[d] \in {"serving", "draining", "closing"} => recorded = 1 .. Migrations

\* A daemon that starts alone gets through, whatever crashes and lost races
\* have left behind: it fails to start only if its surroundings fail it,
\* another daemon was starting at the same time, or what one that is gone had
\* sent took effect only then.
StartsAlone ==
    \A d \in Daemons : pc[d] = "failed" => faulty[d] \/ contended[d]

\* A daemon that ends by itself breaks off no statement, of a request or of an
\* ingest; and it breaks off a request only after ten seconds or when its
\* server has failed.  (An ingest is broken off between two statements.)
StopsCleanly ==
    [][\A d \in Daemons :
          pc[d] # "stopped" /\ pc'[d] = "stopped" =>
              /\ ~InStatement(d)
              /\ expired[d] \/ faulty[d] \/ \A h \in Handlers : handler[d][h] = "idle"]_vars

\* Every start comes to an end, as daemons do not wait for each other for
\* ever; and so does a daemon that has got a signal, although handlers and
\* ingests may never finish.
Settles ==
    \A d \in Daemons :
        (pc[d] \in Starting \/ signalled[d]) ~>
            (pc[d] \notin Running \/ (pc[d] = "serving" /\ ~signalled[d]))
=============================================================================
