----------------------------- MODULE RagdProofs -----------------------------
(***************************************************************************)
(* Proofs about Ragd, for any number of daemons, migrations, handlers,     *)
(* documents and starts: the type invariant, MigratedOnce, StartsAlone and *)
(* StopsCleanly.                                                           *)
(*                                                                         *)
(* What keeps a migration from being committed twice is not its row, which *)
(* is looked at long before, but that PostgreSQL lets one transaction at a *)
(* time create what the migration creates, and that the row is inserted in *)
(* that transaction.  Inv says what this leaves a daemon to rely on at     *)
(* each statement of migrate.                                              *)
(***************************************************************************)
EXTENDS Ragd, TLAPS

Holding == {"record", "commit"}

\* The parts of the type invariant.
DatabaseOK ==
    /\ extension \in BOOLEAN
    /\ table \in BOOLEAN
    /\ recorded \subseteq 1 .. Migrations
    /\ orphans \in [0 .. Migrations -> Orphans]
    /\ applied \in [1 .. Migrations -> Nat]

ProcessesOK ==
    /\ pc \in [Daemons -> Locations]
    /\ file \in [Daemons -> 1 .. Migrations]
    /\ signalled \in [Daemons -> BOOLEAN]

ServingOK ==
    /\ handler \in [Daemons -> [Handlers -> Tasks]]
    /\ ingest \in [Daemons -> Tasks]
    /\ at \in [Daemons -> 0 .. Documents]
    /\ \A d \in Daemons : at[d] = 0 <=> ingest[d] = "idle"

HistoryOK ==
    /\ starts \in 0 .. MaxStarts
    /\ faulty \in [Daemons -> BOOLEAN]
    /\ contended \in [Daemons -> BOOLEAN]
    /\ expired \in [Daemons -> BOOLEAN]

\* MigratedOnce, file by file.
Recorded ==
    /\ \A m \in 1 .. Migrations : applied[m] = IF m \in recorded THEN 1 ELSE 0
    /\ \A m \in recorded, k \in 1 .. Migrations : k <= m => k \in recorded
    /\ \A d \in Daemons, k \in 1 .. Migrations :
          pc[d] \in {"serving", "draining", "closing"} => k \in recorded

\* A daemon at a file has seen to all the files before it.
EarlierRecorded ==
    \A d \in Daemons :
        pc[d] \in Starting => \A m \in 1 .. Migrations : m < file[d] => m \in recorded

\* One transaction at a time holds what a migration creates, that of a daemon
\* or one that a lost connection left; and it inserts a row that is not there.
OneHolder ==
    /\ \A d, e \in Daemons :
          d # e /\ pc[d] \in Holding /\ pc[e] \in Holding => file[d] # file[e]
    /\ \A d \in Daemons : pc[d] \in Holding => orphans[file[d]] = "none"

CommitsNew == \A d \in Daemons : pc[d] = "commit" => file[d] \notin recorded

\* The same of a commit that is still under way.
OrphansNew ==
    \A m \in 1 .. Migrations :
        orphans[m] = "sent" =>
            m \notin recorded /\ \A k \in 1 .. Migrations : k < m => k \in recorded

\* Two daemons that are starting know of each other in the history.
StartingTogether ==
    \A d, e \in Daemons :
        d # e /\ pc[d] \in Starting /\ pc[e] \in Starting => contended[d]

\* What a statement of migrate may fail over is the work of another daemon
\* that was starting too, or of a daemon that started alone after an error
\* of its own.
OvertakenIsContended ==
    \A d \in Daemons :
        /\ pc[d] = "create" /\ table => contended[d]
        /\ pc[d] \in {"exec", "blocked", "record"} /\ file[d] \in recorded =>
              faulty[d] \/ contended[d]

\* A daemon that closes its pool has no request left, unless it gave up
\* waiting for them or its server failed.
ClosedIdle ==
    \A d \in Daemons :
        pc[d] = "closing" =>
            expired[d] \/ faulty[d] \/ \A h \in Handlers : handler[d][h] = "idle"

Inv ==
    /\ TypeOK
    /\ Recorded
    /\ EarlierRecorded
    /\ OneHolder
    /\ CommitsNew
    /\ OrphansNew
    /\ StartsAlone
    /\ StartingTogether
    /\ OvertakenIsContended
    /\ ClosedIdle

-----------------------------------------------------------------------------

LEMMA RecordedIsMigratedOnce == ASSUME TypeOK, Recorded PROVE MigratedOnce
  <1> USE ConstantsAssumption
  <1>1. recorded \subseteq 1 .. Migrations
    BY DEF TypeOK
  <1>2. \A m \in recorded : 1 .. m \subseteq recorded
    BY <1>1 DEF Recorded
  <1>3. ASSUME NEW d \in Daemons, pc[d] \in {"serving", "draining", "closing"}
        PROVE  recorded = 1 .. Migrations
    BY <1>1, <1>3 DEF Recorded
  <1> QED
    BY <1>2, <1>3 DEF Recorded, MigratedOnce

LEMMA InitInv == Init => Inv
  <1> SUFFICES ASSUME Init PROVE Inv
    OBVIOUS
  <1> USE ConstantsAssumption
  <1>1. \A d \in Daemons : pc[d] = "down"
    BY DEF Init
  <1>2. TypeOK
    <2>1. DatabaseOK
      BY SMTT(30) DEF Init, DatabaseOK, Orphans
    <2>2. ProcessesOK
      BY DEF Init, ProcessesOK, Locations, Running, Starting
    <2>3. ServingOK
      BY DEF Init, ServingOK, Tasks
    <2>4. HistoryOK
      BY DEF Init, HistoryOK
    <2> QED
      BY <2>1, <2>2, <2>3, <2>4 DEF TypeOK, DatabaseOK, ProcessesOK, ServingOK, HistoryOK
  <1>3. Recorded
    BY DEF Init, Recorded
  <1>4. EarlierRecorded /\ OneHolder /\ CommitsNew /\ OrphansNew /\ StartsAlone
    <2>1. EarlierRecorded /\ OneHolder /\ CommitsNew /\ StartsAlone
      BY <1>1 DEF EarlierRecorded, OneHolder, CommitsNew, StartsAlone, Starting, Holding
    <2>2. OrphansNew
      BY DEF Init, OrphansNew
    <2> QED
      BY <2>1, <2>2
  <1>5. StartingTogether /\ OvertakenIsContended /\ ClosedIdle
    BY <1>1 DEF StartingTogether, OvertakenIsContended, ClosedIdle, Starting
  <1> QED
    BY <1>2, <1>3, <1>4, <1>5 DEF Inv

\* A step that only concerns requests and ingests.
LEMMA ServesInv ==
    ASSUME Inv, UNCHANGED <<database, pc, file, history>>, TypeOK', ClosedIdle'
    PROVE  Inv'
  <1> USE DEF database, history
  <1>1. (Recorded /\ EarlierRecorded /\ OneHolder /\ CommitsNew /\ OrphansNew)'
    BY DEF Inv, Recorded, EarlierRecorded, OneHolder, CommitsNew, OrphansNew
  <1>2. (StartsAlone /\ StartingTogether /\ OvertakenIsContended)'
    BY DEF Inv, StartsAlone, StartingTogether, OvertakenIsContended
  <1> QED
    BY <1>1, <1>2 DEF Inv

\* A step that ends a start without a commit, or comes after it.
LEMMA LeavesInv ==
    ASSUME Inv, NEW d \in Daemons, NEW l \in Locations \ Starting,
           Goto(d, l), UNCHANGED <<extension, table, recorded, applied, contended>>,
           UNCHANGED orphans \/ Abandon(d),
           \A e \in Daemons \ {d} : file'[e] = file[e] /\ faulty'[e] = faulty[e],
           TypeOK', Recorded', StartsAlone', ClosedIdle'
    PROVE  Inv'
  <1> USE DEF Goto
  <1>1. pc'[d] \notin Starting /\ \A e \in Daemons \ {d} : pc'[e] = pc[e]
    BY DEF Inv, TypeOK
  <1>2. (EarlierRecorded /\ CommitsNew)'
    BY <1>1 DEF Inv, EarlierRecorded, CommitsNew, Starting
  <1>3. \A m \in 1 .. Migrations :
            \/ orphans'[m] = orphans[m]
            \/ pc[d] \in Holding /\ m = file[d] /\ (orphans'[m] = "sent" => pc[d] = "commit")
    BY DEF Inv, TypeOK, Abandon, Holding
  <1>4. OneHolder'
    <2>1. \A e \in Daemons : pc'[e] \in Holding =>
              e # d /\ pc[e] \in Holding /\ file'[e] = file[e] /\ file[e] \in 1 .. Migrations
      BY <1>1 DEF Inv, TypeOK, Holding, Starting
    <2>2. ASSUME NEW e \in Daemons, pc'[e] \in Holding PROVE orphans'[file'[e]] = "none"
      BY <1>3, <2>1, <2>2 DEF Inv, OneHolder
    <2> QED
      BY <2>1, <2>2 DEF Inv, OneHolder
  <1>5. OrphansNew'
    <2>1. pc[d] = "commit" =>
              file[d] \notin recorded /\ \A k \in 1 .. Migrations : k < file[d] => k \in recorded
      BY DEF Inv, CommitsNew, EarlierRecorded, Starting
    <2> QED
      BY <1>3, <2>1 DEF Inv, OrphansNew
  <1>6. (StartingTogether /\ OvertakenIsContended)'
    BY <1>1 DEF Inv, StartingTogether, OvertakenIsContended, Starting
  <1> QED
    BY <1>2, <1>4, <1>5, <1>6 DEF Inv

\* A step by which no daemon comes to hold what a migration creates.
LEMMA HoldersKept ==
    ASSUME Inv, UNCHANGED <<recorded, orphans>>,
           \A e \in Daemons : pc'[e] \in Holding => pc'[e] = pc[e] /\ file'[e] = file[e]
    PROVE  (OneHolder /\ CommitsNew /\ OrphansNew)'
  <1>1. \A e \in Daemons : pc'[e] \in Holding => pc[e] \in Holding /\ file'[e] = file[e]
    OBVIOUS
  <1>2. OneHolder'
    BY <1>1 DEF Inv, OneHolder
  <1>3. CommitsNew'
    BY DEF Inv, CommitsNew, Holding
  <1>4. OrphansNew'
    BY DEF Inv, OrphansNew
  <1> QED
    BY <1>2, <1>3, <1>4

LEMMA StartInv ==
    ASSUME Inv, NEW d \in Daemons, Start(d) PROVE Inv'
  <1> USE ConstantsAssumption DEF Start, Goto, database, serving
  <1>1. TypeOK'
    <2>1. DatabaseOK'
      BY DEF Inv, TypeOK, DatabaseOK, Orphans
    <2>2. ProcessesOK'
      BY DEF Inv, TypeOK, ProcessesOK, Locations, Running, Starting
    <2>3. ServingOK'
      BY DEF Inv, TypeOK, ServingOK, Tasks
    <2>4. HistoryOK'
      <3>1. contended' \in [Daemons -> BOOLEAN]
        BY Zenon DEF Inv, TypeOK
      <3>2. faulty' \in [Daemons -> BOOLEAN] /\ expired' \in [Daemons -> BOOLEAN]
        BY DEF Inv, TypeOK
      <3>3. starts' \in 0 .. MaxStarts
        BY DEF Inv, TypeOK
      <3> QED
        BY <3>1, <3>2, <3>3 DEF HistoryOK
    <2> QED
      BY <2>1, <2>2, <2>3, <2>4 DEF TypeOK, DatabaseOK, ProcessesOK, ServingOK, HistoryOK
  <1>2. (Recorded /\ EarlierRecorded)'
    BY DEF Inv, TypeOK, Recorded, EarlierRecorded, Starting
  <1>3. (OneHolder /\ CommitsNew /\ OrphansNew)'
    <2>1. \A e \in Daemons : pc'[e] \in Holding => pc'[e] = pc[e] /\ file'[e] = file[e]
      BY DEF Inv, TypeOK, Holding
    <2> QED
      BY <2>1, HoldersKept
  <1>4. (StartsAlone /\ StartingTogether)'
    BY DEF Inv, TypeOK, StartsAlone, StartingTogether, OvertakenIsContended, Starting
  <1>5. OvertakenIsContended'
    BY DEF Inv, TypeOK, OvertakenIsContended, StartingTogether, Starting
  <1>6. ClosedIdle'
    BY DEF Inv, TypeOK, ClosedIdle
  <1> QED
    BY <1>1, <1>2, <1>3, <1>4, <1>5, <1>6 DEF Inv

LEMMA ConnectInv ==
    ASSUME Inv, NEW d \in Daemons, Connect(d) PROVE Inv'
  <1> USE ConstantsAssumption DEF Connect, Goto, Fail, database, serving
  <1>1. TypeOK'
    BY DEF Inv, TypeOK, Locations, Running, Starting, Tasks
  <1>2. (Recorded /\ EarlierRecorded)'
    <2>1. Recorded'
      BY DEF Inv, TypeOK, Recorded
    <2>2. EarlierRecorded'
      BY DEF Inv, TypeOK, EarlierRecorded, Starting
    <2> QED
      BY <2>1, <2>2
  <1>3. (OneHolder /\ CommitsNew /\ OrphansNew)'
    <2>1. \A e \in Daemons : pc'[e] \in Holding => pc'[e] = pc[e] /\ file'[e] = file[e]
      BY DEF Inv, TypeOK, Holding
    <2> QED
      BY <2>1, HoldersKept
  <1>4. (StartsAlone /\ StartingTogether)'
    <2>1. StartsAlone'
      BY DEF Inv, TypeOK, StartsAlone
    <2>2. contended' = contended /\ \A e \in Daemons : pc'[e] \in Starting => pc[e] \in Starting
      BY DEF Inv, TypeOK, Starting
    <2>3. StartingTogether'
      BY <2>2 DEF Inv, StartingTogether
    <2> QED
      BY <2>1, <2>3
  <1>5. OvertakenIsContended'
    BY DEF Inv, TypeOK, OvertakenIsContended, StartingTogether, Starting
  <1>6. ClosedIdle'
    BY DEF Inv, TypeOK, ClosedIdle
  <1> QED
    BY <1>1, <1>2, <1>3, <1>4, <1>5, <1>6 DEF Inv

LEMMA CheckTableInv ==
    ASSUME Inv, NEW d \in Daemons, CheckTable(d) PROVE Inv'
  <1> USE ConstantsAssumption DEF CheckTable, Goto, database, serving, history
  <1>1. TypeOK'
    BY DEF Inv, TypeOK, Locations, Running, Starting, Tasks
  <1>2. (Recorded /\ EarlierRecorded)'
    BY DEF Inv, TypeOK, Recorded, EarlierRecorded, Starting
  <1>3. (OneHolder /\ CommitsNew /\ OrphansNew)'
    <2>1. \A e \in Daemons : pc'[e] \in Holding => pc'[e] = pc[e] /\ file'[e] = file[e]
      BY DEF Inv, TypeOK, Holding
    <2> QED
      BY <2>1, HoldersKept
  <1>4. (StartsAlone /\ StartingTogether)'
    BY DEF Inv, TypeOK, StartsAlone, StartingTogether, OvertakenIsContended, Starting
  <1>5. OvertakenIsContended'
    BY DEF Inv, TypeOK, OvertakenIsContended, StartingTogether, Starting
  <1>6. ClosedIdle'
    BY DEF Inv, TypeOK, ClosedIdle
  <1> QED
    BY <1>1, <1>2, <1>3, <1>4, <1>5, <1>6 DEF Inv

LEMMA CreateTableInv ==
    ASSUME Inv, NEW d \in Daemons, CreateTable(d) PROVE Inv'
  <1> USE ConstantsAssumption DEF CreateTable, Goto, Fail, serving, history
  <1>1. TypeOK'
    BY DEF Inv, TypeOK, Locations, Running, Starting, Tasks
  <1>p. pc' \in {[pc EXCEPT ![d] = "failed"], [pc EXCEPT ![d] = "count"]}
    OBVIOUS
  <1>2. (Recorded /\ EarlierRecorded)'
    <2>1. CASE pc' = [pc EXCEPT ![d] = "failed"]
      BY <2>1 DEF Inv, TypeOK, Recorded, EarlierRecorded, Starting
    <2>2. CASE pc' = [pc EXCEPT ![d] = "count"]
      BY <2>2 DEF Inv, TypeOK, Recorded, EarlierRecorded, Starting
    <2> QED
      BY <1>p, <2>1, <2>2
  <1>3. (OneHolder /\ CommitsNew /\ OrphansNew)'
    <2>1. \A e \in Daemons : pc'[e] \in Holding => pc'[e] = pc[e] /\ file'[e] = file[e]
      BY DEF Inv, TypeOK, Holding
    <2> QED
      BY <2>1, HoldersKept
  <1>4. (StartsAlone /\ StartingTogether)'
    BY DEF Inv, TypeOK, StartsAlone, StartingTogether, OvertakenIsContended, Starting
  <1>5. OvertakenIsContended'
    BY DEF Inv, TypeOK, OvertakenIsContended, StartingTogether, Starting
  <1>6. ClosedIdle'
    BY DEF Inv, TypeOK, ClosedIdle
  <1> QED
    BY <1>1, <1>2, <1>3, <1>4, <1>5, <1>6 DEF Inv

LEMMA CountInv ==
    ASSUME Inv, NEW d \in Daemons, NEW unread \in BOOLEAN, Count(d, unread) PROVE Inv'
  <1> USE ConstantsAssumption DEF Count, Goto, NextFile, database, serving
  <1>n. \/ pc' = [pc EXCEPT ![d] = "exec"] /\ file' = file
        \/ /\ file[d] \in recorded /\ file[d] = Migrations
           /\ pc' = [pc EXCEPT ![d] = "serving"] /\ file' = file
        \/ /\ file[d] \in recorded /\ file[d] # Migrations
           /\ pc' = [pc EXCEPT ![d] = "count"] /\ file' = [file EXCEPT ![d] = @ + 1]
    BY DEF Inv, TypeOK
  <1>1. TypeOK'
    <2>1. DatabaseOK'
      BY DEF Inv, TypeOK, DatabaseOK, Orphans
    <2>2. ProcessesOK'
      <3>1. pc' \in [Daemons -> Locations]
        BY <1>n DEF Inv, TypeOK, Locations, Running, Starting
      <3>2. file' \in [Daemons -> 1 .. Migrations]
        <4>1. file[d] \in 1 .. Migrations
          BY DEF Inv, TypeOK
        <4>2. CASE file' = file
          BY <4>2 DEF Inv, TypeOK
        <4>3. CASE file[d] # Migrations /\ file' = [file EXCEPT ![d] = @ + 1]
          <5>1. file[d] + 1 \in 1 .. Migrations
            BY <4>1, <4>3
          <5> QED
            BY <4>3, <5>1 DEF Inv, TypeOK
        <4> QED
          BY <1>n, <4>2, <4>3
      <3> QED
        BY <3>1, <3>2 DEF Inv, TypeOK, ProcessesOK
    <2>3. ServingOK'
      BY DEF Inv, TypeOK, ServingOK, Tasks
    <2>4. HistoryOK'
      BY DEF Inv, TypeOK, HistoryOK
    <2> QED
      BY <2>1, <2>2, <2>3, <2>4 DEF TypeOK, DatabaseOK, ProcessesOK, ServingOK, HistoryOK
  <1>2. (Recorded /\ EarlierRecorded)'
    <2>1. CASE pc' = [pc EXCEPT ![d] = "exec"] /\ file' = file
      BY <2>1 DEF Inv, TypeOK, Recorded, EarlierRecorded, Starting
    <2>2. CASE /\ file[d] \in recorded /\ file[d] = Migrations
               /\ pc' = [pc EXCEPT ![d] = "serving"] /\ file' = file
      BY <2>2 DEF Inv, TypeOK, Recorded, EarlierRecorded, Starting
    <2>3. CASE /\ file[d] \in recorded /\ file[d] # Migrations
               /\ pc' = [pc EXCEPT ![d] = "count"] /\ file' = [file EXCEPT ![d] = @ + 1]
      <3>1. \A m \in 1 .. Migrations : m < file[d] + 1 => m \in recorded
        BY <2>3 DEF Inv, TypeOK, Recorded
      <3>2. EarlierRecorded'
        BY <2>3, <3>1 DEF Inv, TypeOK, EarlierRecorded, Starting
      <3>3. Recorded'
        BY <2>3 DEF Inv, TypeOK, Recorded
      <3> QED
        BY <3>2, <3>3
    <2> QED
      BY <1>n, <2>1, <2>2, <2>3
  <1>3. (OneHolder /\ CommitsNew /\ OrphansNew)'
    <2>1. \A e \in Daemons : pc'[e] \in Holding => pc'[e] = pc[e] /\ file'[e] = file[e]
      BY DEF Inv, TypeOK, Holding
    <2> QED
      BY <2>1, HoldersKept
  <1>4. (StartsAlone /\ StartingTogether)'
    <2>1. StartsAlone'
      BY DEF Inv, TypeOK, StartsAlone
    <2>2. contended' = contended /\ \A e \in Daemons : pc'[e] \in Starting => pc[e] \in Starting
      BY DEF Inv, TypeOK, Starting
    <2>3. StartingTogether'
      BY <2>2 DEF Inv, StartingTogether
    <2> QED
      BY <2>1, <2>3
  <1>5. OvertakenIsContended'
    BY DEF Inv, TypeOK, OvertakenIsContended, StartingTogether, Starting
  <1>6. ClosedIdle'
    BY DEF Inv, TypeOK, ClosedIdle
  <1> QED
    BY <1>1, <1>2, <1>3, <1>4, <1>5, <1>6 DEF Inv

LEMMA ExecInv ==
    ASSUME Inv, NEW d \in Daemons, Exec(d) PROVE Inv'
  <1> USE ConstantsAssumption DEF Exec, Goto, Held, database, serving, history
  <1>1. TypeOK'
    BY DEF Inv, TypeOK, Locations, Running, Starting, Tasks
  <1>2. (Recorded /\ EarlierRecorded)'
    BY DEF Inv, TypeOK, Recorded, EarlierRecorded, Starting
  <1>3. (OneHolder /\ CommitsNew /\ OrphansNew)'
    BY DEF Inv, TypeOK, OneHolder, CommitsNew, OrphansNew, Holding
  <1>4. (StartsAlone /\ StartingTogether)'
    BY DEF Inv, TypeOK, StartsAlone, StartingTogether, OvertakenIsContended, Starting
  <1>5. OvertakenIsContended'
    BY DEF Inv, TypeOK, OvertakenIsContended, StartingTogether, Starting
  <1>6. ClosedIdle'
    BY DEF Inv, TypeOK, ClosedIdle
  <1> QED
    BY <1>1, <1>2, <1>3, <1>4, <1>5, <1>6 DEF Inv

LEMMA UnblockInv ==
    ASSUME Inv, NEW d \in Daemons, NEW overtaken \in BOOLEAN, Unblock(d, overtaken) PROVE Inv'
  <1> USE ConstantsAssumption DEF database, serving, history
  <1>u. /\ pc[d] = "blocked" /\ UNCHANGED <<database, file, signalled, serving, history>>
        /\ \/ pc' = [pc EXCEPT ![d] = "failed"] /\ file[d] \in recorded
           \/ pc' = [pc EXCEPT ![d] = "record"]
    BY DEF Unblock, Goto, Fail
  <1>h. /\ \A e \in Daemons \ {d} : pc[e] \in Holding => file[e] # file[d]
        /\ orphans[file[d]] = "none"
    BY DEF Unblock, Held, Holding
  <1>p. /\ \A e \in Daemons \ {d} : pc'[e] = pc[e]
        /\ pc'[d] \in {"failed", "record"} /\ pc' \in [Daemons -> Locations]
    BY <1>u DEF Inv, TypeOK, Locations, Running, Starting
  <1>1. TypeOK'
    BY <1>u, <1>p DEF Inv, TypeOK
  <1>2. (Recorded /\ EarlierRecorded)'
    BY <1>u, <1>p DEF Inv, Recorded, EarlierRecorded, Starting
  <1>3. (OneHolder /\ CommitsNew /\ OrphansNew)'
    <2>1. \A e \in Daemons : pc'[e] \in Holding => e = d \/ pc[e] \in Holding
      BY <1>p
    <2>2. OneHolder'
      BY <1>u, <1>h, <2>1 DEF Inv, OneHolder
    <2>3. (CommitsNew /\ OrphansNew)'
      BY <1>u, <1>p DEF Inv, CommitsNew, OrphansNew
    <2> QED
      BY <2>2, <2>3
  <1>4. (StartsAlone /\ StartingTogether)'
    <2>1. \A e \in Daemons : pc'[e] \in Starting => pc[e] \in Starting
      BY <1>u, <1>p DEF Starting
    <2>2. StartsAlone'
      BY <1>u, <1>p DEF Inv, StartsAlone, OvertakenIsContended
    <2> QED
      BY <1>u, <2>1, <2>2 DEF Inv, StartingTogether
  <1>5. OvertakenIsContended'
    BY <1>u, <1>p DEF Inv, OvertakenIsContended
  <1>6. ClosedIdle'
    BY <1>u, <1>p DEF Inv, ClosedIdle
  <1> QED
    BY <1>1, <1>2, <1>3, <1>4, <1>5, <1>6 DEF Inv

LEMMA RecordInv ==
    ASSUME Inv, NEW d \in Daemons, Record(d) PROVE Inv'
  <1> USE ConstantsAssumption DEF Record, Goto, Fail, database, serving, history
  <1>1. TypeOK'
    BY DEF Inv, TypeOK, Locations, Running, Starting, Tasks
  <1>2. (Recorded /\ EarlierRecorded)'
    BY DEF Inv, TypeOK, Recorded, EarlierRecorded, Starting
  <1>3. (OneHolder /\ CommitsNew /\ OrphansNew)'
    <2>1. \A e \in Daemons :
              /\ pc'[e] \in Holding => pc[e] \in Holding /\ file'[e] = file[e]
              /\ pc'[e] = "commit" => pc[e] = "commit" \/ file[e] \notin recorded
      BY DEF Inv, TypeOK, Holding
    <2>2. (OneHolder /\ CommitsNew)'
      BY <2>1 DEF Inv, OneHolder, CommitsNew, Holding
    <2>3. OrphansNew'
      BY DEF Inv, OrphansNew
    <2> QED
      BY <2>2, <2>3
  <1>4. (StartsAlone /\ StartingTogether)'
    BY DEF Inv, TypeOK, StartsAlone, StartingTogether, OvertakenIsContended, Starting
  <1>5. OvertakenIsContended'
    BY DEF Inv, TypeOK, OvertakenIsContended, StartingTogether, Starting
  <1>6. ClosedIdle'
    BY DEF Inv, TypeOK, ClosedIdle
  <1> QED
    BY <1>1, <1>2, <1>3, <1>4, <1>5, <1>6 DEF Inv

LEMMA CommitInv ==
    ASSUME Inv, NEW d \in Daemons, Commit(d) PROVE Inv'
  <1> USE ConstantsAssumption DEF Commit, Goto, Committed, NextFile, serving, history
  <1>d. file[d] \in 1 .. Migrations /\ file[d] \notin recorded
    BY DEF Inv, TypeOK, CommitsNew
  <1>a. applied \in [1 .. Migrations -> Nat] /\ applied' = [applied EXCEPT ![file[d]] = 1]
    <2>1. applied \in [1 .. Migrations -> Nat] /\ applied[file[d]] = 0
      BY <1>d DEF Inv, TypeOK, Recorded
    <2> QED
      BY <2>1
  <1>1. TypeOK'
    <2>1. DatabaseOK'
      <3>1. \A n \in Nat : [applied EXCEPT ![file[d]] = n] \in [1 .. Migrations -> Nat]
        BY <1>a, <1>d
      <3>2. applied' \in [1 .. Migrations -> Nat]
        BY <1>a, <3>1
      <3> QED
        BY <1>d, <3>2 DEF Inv, TypeOK, DatabaseOK, Orphans
    <2>2. ProcessesOK'
      BY DEF Inv, TypeOK, ProcessesOK, Locations, Running, Starting
    <2>3. ServingOK'
      BY DEF Inv, TypeOK, ServingOK, Tasks
    <2>4. HistoryOK'
      BY DEF Inv, TypeOK, HistoryOK
    <2> QED
      BY <2>1, <2>2, <2>3, <2>4 DEF TypeOK, DatabaseOK, ProcessesOK, ServingOK, HistoryOK
  <1>2. (Recorded /\ EarlierRecorded)'
    <2>1. (\A m \in 1 .. Migrations : applied[m] = IF m \in recorded THEN 1 ELSE 0)'
      BY <1>d, <1>a DEF Inv, TypeOK, Recorded
    <2>2. \A k \in 1 .. Migrations : k <= file[d] => k \in recorded'
      BY <1>d DEF Inv, TypeOK, EarlierRecorded, Starting
    <2>3. (\A m \in recorded, k \in 1 .. Migrations : k <= m => k \in recorded)'
      BY <1>d, <2>2 DEF Inv, TypeOK, Recorded
    <2>4. (\A e \in Daemons, k \in 1 .. Migrations :
              pc[e] \in {"serving", "draining", "closing"} => k \in recorded)'
      BY <1>d, <2>2 DEF Inv, TypeOK, Recorded
    <2>5. EarlierRecorded'
      BY <1>d, <2>2 DEF Inv, TypeOK, EarlierRecorded, Starting
    <2> QED
      BY <2>1, <2>3, <2>4, <2>5 DEF Recorded
  <1>3. (OneHolder /\ CommitsNew /\ OrphansNew)'
    BY DEF Inv, TypeOK, OneHolder, CommitsNew, OrphansNew, Holding
  <1>4. (StartsAlone /\ StartingTogether)'
    BY DEF Inv, TypeOK, StartsAlone, StartingTogether, OvertakenIsContended, Starting
  <1>5. OvertakenIsContended'
    BY DEF Inv, TypeOK, OvertakenIsContended, StartingTogether, Starting
  <1>6. ClosedIdle'
    BY DEF Inv, TypeOK, ClosedIdle
  <1> QED
    BY <1>1, <1>2, <1>3, <1>4, <1>5, <1>6 DEF Inv

LEMMA StartFailsInv == ASSUME Inv, NEW d \in Daemons, StartFails(d) PROVE Inv'
  <1> USE ConstantsAssumption DEF StartFails, Goto, Fail, database, serving
  <1>1. TypeOK'
    <2>1. DatabaseOK'
      <3>1. orphans' \in [0 .. Migrations -> Orphans]
        BY DEF Inv, TypeOK, Abandon, Orphans
      <3> QED
        BY <3>1 DEF Inv, TypeOK, DatabaseOK
    <2>2. ProcessesOK'
      BY DEF Inv, TypeOK, ProcessesOK, Locations, Running, Starting
    <2>3. ServingOK'
      BY DEF Inv, TypeOK, ServingOK, Tasks
    <2>4. HistoryOK'
      BY DEF Inv, TypeOK, HistoryOK
    <2> QED
      BY <2>1, <2>2, <2>3, <2>4 DEF TypeOK, DatabaseOK, ProcessesOK, ServingOK, HistoryOK
  <1>2. (Recorded /\ StartsAlone)'
    BY DEF Inv, TypeOK, Recorded, StartsAlone, Starting
  <1>3. ClosedIdle'
    BY DEF Inv, TypeOK, ClosedIdle
  <1> QED
    BY <1>1, <1>2, <1>3, LeavesInv DEF Inv, TypeOK, Locations, Running, Starting

LEMMA ShutdownInv == ASSUME Inv, NEW d \in Daemons, Shutdown(d) PROVE Inv'
  <1> USE ConstantsAssumption DEF Shutdown, Goto, database, serving, history
  <1>1. TypeOK'
    BY DEF Inv, TypeOK, Locations, Running, Starting, Tasks
  <1>2. (Recorded /\ StartsAlone)'
    BY DEF Inv, TypeOK, Recorded, StartsAlone, Starting
  <1>3. ClosedIdle'
    BY DEF Inv, TypeOK, ClosedIdle
  <1> QED
    BY <1>1, <1>2, <1>3, LeavesInv DEF Inv, TypeOK, Locations, Running, Starting

LEMMA DrainedInv == ASSUME Inv, NEW d \in Daemons, Drained(d) PROVE Inv'
  <1> USE ConstantsAssumption DEF Drained, Goto, database, serving, history
  <1>1. TypeOK'
    BY DEF Inv, TypeOK, Locations, Running, Starting, Tasks
  <1>2. (Recorded /\ StartsAlone)'
    BY DEF Inv, TypeOK, Recorded, StartsAlone, Starting
  <1>3. ClosedIdle'
    BY DEF Inv, TypeOK, ClosedIdle
  <1> QED
    BY <1>1, <1>2, <1>3, LeavesInv DEF Inv, TypeOK, Locations, Running, Starting

LEMMA DrainExpiresInv == ASSUME Inv, NEW d \in Daemons, DrainExpires(d) PROVE Inv'
  <1> USE ConstantsAssumption DEF DrainExpires, Goto, database, serving
  <1>1. TypeOK'
    BY DEF Inv, TypeOK, Locations, Running, Starting, Tasks
  <1>2. (Recorded /\ StartsAlone)'
    BY DEF Inv, TypeOK, Recorded, StartsAlone, Starting
  <1>3. ClosedIdle'
    BY DEF Inv, TypeOK, ClosedIdle
  <1> QED
    BY <1>1, <1>2, <1>3, LeavesInv DEF Inv, TypeOK, Locations, Running, Starting

LEMMA ServerFailsInv == ASSUME Inv, NEW d \in Daemons, ServerFails(d) PROVE Inv'
  <1> USE ConstantsAssumption DEF ServerFails, Goto, database, serving
  <1>1. TypeOK'
    BY DEF Inv, TypeOK, Locations, Running, Starting, Tasks
  <1>2. (Recorded /\ StartsAlone)'
    BY DEF Inv, TypeOK, Recorded, StartsAlone, Starting
  <1>3. ClosedIdle'
    BY DEF Inv, TypeOK, ClosedIdle
  <1> QED
    BY <1>1, <1>2, <1>3, LeavesInv DEF Inv, TypeOK, Locations, Running, Starting

LEMMA CloseAndExitInv == ASSUME Inv, NEW d \in Daemons, CloseAndExit(d) PROVE Inv'
  <1> USE ConstantsAssumption DEF CloseAndExit, Goto, Reset, database, history
  <1>1. TypeOK'
    BY DEF Inv, TypeOK, Locations, Running, Starting, Tasks
  <1>2. (Recorded /\ StartsAlone)'
    BY DEF Inv, TypeOK, Recorded, StartsAlone, Starting
  <1>3. ClosedIdle'
    BY DEF Inv, TypeOK, ClosedIdle
  <1> QED
    BY <1>1, <1>2, <1>3, LeavesInv DEF Inv, TypeOK, Locations, Running, Starting

LEMMA CrashInv == ASSUME Inv, NEW d \in Daemons, Crash(d) PROVE Inv'
  <1> USE ConstantsAssumption DEF Crash, Goto, Reset, database, history
  <1>1. TypeOK'
    <2>1. DatabaseOK'
      <3>1. orphans' \in [0 .. Migrations -> Orphans]
        BY DEF Inv, TypeOK, Abandon, Orphans
      <3> QED
        BY <3>1 DEF Inv, TypeOK, DatabaseOK
    <2>2. ProcessesOK'
      BY DEF Inv, TypeOK, ProcessesOK, Locations, Running, Starting
    <2>3. ServingOK'
      BY DEF Inv, TypeOK, ServingOK, Tasks
    <2>4. HistoryOK'
      BY DEF Inv, TypeOK, HistoryOK
    <2> QED
      BY <2>1, <2>2, <2>3, <2>4 DEF TypeOK, DatabaseOK, ProcessesOK, ServingOK, HistoryOK
  <1>2. (Recorded /\ StartsAlone)'
    BY DEF Inv, TypeOK, Recorded, StartsAlone, Starting
  <1>3. ClosedIdle'
    BY DEF Inv, TypeOK, ClosedIdle
  <1> QED
    BY <1>1, <1>2, <1>3, LeavesInv DEF Inv, TypeOK, Locations, Running, Starting

LEMMA ServeInv == ASSUME Inv, NEW d \in Daemons, Serve(d) PROVE Inv'
  <1> USE ConstantsAssumption DEF database, history
  <1>1. ASSUME NEW h \in Handlers, NEW from \in Tasks, NEW to \in Tasks, Request(d, h, from, to),
               pc[d] = "closing" => from # "idle"
        PROVE  Inv'
    <2> USE <1>1 DEF Request
    <2>1. handler' \in [Daemons -> [Handlers -> Tasks]]
      BY DEF Inv, TypeOK
    <2>2. TypeOK'
      BY <2>1 DEF Inv, TypeOK
    <2>3. ASSUME NEW e \in Daemons, pc[e] = "closing", \A g \in Handlers : handler[e][g] = "idle"
          PROVE  \A g \in Handlers : handler'[e][g] = "idle"
      BY <2>3 DEF Inv, TypeOK
    <2>4. ClosedIdle'
      BY <2>3 DEF Inv, ClosedIdle
    <2> QED
      BY <2>2, <2>4, ServesInv
  <1>2. ASSUME NEW h \in Handlers,
               \/ Accept(d, h) \/ Query(d, h) \/ Queried(d, h) \/ Respond(d, h)
               \/ Post(d, h) \/ Refuse(d, h)
        PROVE  Inv'
    BY <1>1, <1>2 DEF Accept, Query, Queried, Respond, Post, Refuse, Tasks
  <1>3. ASSUME NEW h \in Handlers, AcceptIngest(d, h) PROVE Inv'
    <2> USE <1>3 DEF AcceptIngest
    <2>1. handler' \in [Daemons -> [Handlers -> Tasks]]
      BY DEF Inv, TypeOK, Tasks
    <2>2. ingest' \in [Daemons -> Tasks] /\ at' \in [Daemons -> 0 .. Documents]
      BY DEF Inv, TypeOK, Tasks
    <2>3. \A e \in Daemons : at'[e] = 0 <=> ingest'[e] = "idle"
      BY DEF Inv, TypeOK
    <2>4. TypeOK'
      BY <2>1, <2>2, <2>3 DEF Inv, TypeOK
    <2>5. ASSUME NEW e \in Daemons, pc[e] = "closing", \A g \in Handlers : handler[e][g] = "idle"
          PROVE  \A g \in Handlers : handler'[e][g] = "idle"
      BY <2>5 DEF Inv, TypeOK
    <2>6. ClosedIdle'
      BY <2>5 DEF Inv, ClosedIdle
    <2> QED
      BY <2>4, <2>6, ServesInv
  <1>4. CASE Statement(d) \/ StatementEnds(d) \/ NextDocument(d)
    <2> USE <1>4 DEF Statement, StatementEnds, NextDocument
    <2>1. ServingOK'
      <3>1. CASE Statement(d)
        BY <3>1 DEF Inv, TypeOK, ServingOK, Tasks
      <3>2. CASE StatementEnds(d)
        BY <3>2 DEF Inv, TypeOK, ServingOK, Tasks
      <3>3. CASE NextDocument(d)
        BY <3>3 DEF Inv, TypeOK, ServingOK, Tasks
      <3> QED
        BY <3>1, <3>2, <3>3
    <2>2. TypeOK'
      BY <2>1 DEF Inv, TypeOK, ServingOK
    <2>3. ClosedIdle'
      BY DEF Inv, ClosedIdle
    <2> QED
      BY <2>2, <2>3, ServesInv
  <1> QED
    BY <1>2, <1>3, <1>4 DEF Serve

\* A signal is noted, and nothing else.
LEMMA SignalInv == ASSUME Inv, NEW d \in Daemons, Signal(d) PROVE Inv'
  <1> USE DEF Signal, database, serving, history
  <1>1. TypeOK'
    BY DEF Inv, TypeOK
  <1>2. ClosedIdle'
    BY DEF Inv, ClosedIdle
  <1> QED
    BY <1>1, <1>2, ServesInv

\* What a lost connection leaves comes to nothing.
LEMMA RollBackInv == ASSUME Inv, NEW m \in 0 .. Migrations, RollBack(m) PROVE Inv'
  <1> USE ConstantsAssumption DEF RollBack, serving, history
  <1>1. TypeOK'
    BY DEF Inv, TypeOK, Orphans
  <1>2. (Recorded /\ EarlierRecorded /\ CommitsNew)'
    BY DEF Inv, Recorded, EarlierRecorded, CommitsNew
  <1>3. (OneHolder /\ OrphansNew)'
    BY DEF Inv, TypeOK, OneHolder, OrphansNew
  <1>4. (StartsAlone /\ StartingTogether /\ OvertakenIsContended /\ ClosedIdle)'
    BY DEF Inv, StartsAlone, StartingTogether, OvertakenIsContended, ClosedIdle
  <1> QED
    BY <1>1, <1>2, <1>3, <1>4 DEF Inv

\* It takes effect: no daemon was about to do the same.
LEMMA LateCommitInv == ASSUME Inv, NEW m \in 1 .. Migrations, LateCommit(m) PROVE Inv'
  <1> USE ConstantsAssumption DEF LateCommit, Committed, ContendsStarting, serving
  <1>d. m \notin recorded /\ \A k \in 1 .. Migrations : k < m => k \in recorded
    BY DEF Inv, OrphansNew
  <1>a. applied \in [1 .. Migrations -> Nat] /\ applied' = [applied EXCEPT ![m] = 1]
    <2>1. applied \in [1 .. Migrations -> Nat] /\ applied[m] = 0
      BY <1>d DEF Inv, TypeOK, Recorded
    <2> QED
      BY <2>1
  <1>c. \A d \in Daemons : contended'[d] = (contended[d] \/ pc[d] \in Starting)
    BY DEF Inv, TypeOK
  <1>1. TypeOK'
    <2>1. DatabaseOK'
      <3>1. \A n \in Nat : [applied EXCEPT ![m] = n] \in [1 .. Migrations -> Nat]
        BY <1>a
      <3>2. applied' \in [1 .. Migrations -> Nat]
        BY <1>a, <3>1
      <3> QED
        BY <3>2 DEF Inv, TypeOK, DatabaseOK, Orphans
    <2>2. ProcessesOK' /\ ServingOK'
      BY DEF Inv, TypeOK, ProcessesOK, ServingOK
    <2>3. contended' \in [Daemons -> BOOLEAN]
      BY Zenon DEF Inv, TypeOK
    <2>4. HistoryOK'
      BY <2>3 DEF Inv, TypeOK, HistoryOK
    <2> QED
      BY <2>1, <2>2, <2>4 DEF TypeOK, DatabaseOK, ProcessesOK, ServingOK, HistoryOK
  <1>2. (Recorded /\ EarlierRecorded)'
    <2>1. (\A k \in 1 .. Migrations : applied[k] = IF k \in recorded THEN 1 ELSE 0)'
      BY <1>d, <1>a DEF Inv, TypeOK, Recorded
    <2>2. \A k \in 1 .. Migrations : k <= m => k \in recorded'
      BY <1>d
    <2>3. (\A n \in recorded, k \in 1 .. Migrations : k <= n => k \in recorded)'
      BY <1>d, <2>2 DEF Inv, TypeOK, Recorded
    <2>4. (\A e \in Daemons, k \in 1 .. Migrations :
              pc[e] \in {"serving", "draining", "closing"} => k \in recorded)'
      BY DEF Inv, TypeOK, Recorded
    <2>5. EarlierRecorded'
      BY DEF Inv, TypeOK, EarlierRecorded, Starting
    <2> QED
      BY <2>1, <2>3, <2>4, <2>5 DEF Recorded
  <1>3. (OneHolder /\ CommitsNew /\ OrphansNew)'
    BY DEF Inv, TypeOK, OneHolder, CommitsNew, OrphansNew, Holding
  <1>4. (StartsAlone /\ StartingTogether)'
    BY <1>c DEF Inv, StartsAlone, StartingTogether
  <1>5. OvertakenIsContended'
    BY <1>c DEF Inv, OvertakenIsContended, Starting
  <1>6. ClosedIdle'
    BY DEF Inv, ClosedIdle
  <1> QED
    BY <1>1, <1>2, <1>3, <1>4, <1>5, <1>6 DEF Inv

LEMMA LateCreateInv == ASSUME Inv, LateCreate PROVE Inv'
  <1> USE ConstantsAssumption DEF LateCreate, ContendsStarting, serving
  <1>c. \A d \in Daemons : contended'[d] = (contended[d] \/ pc[d] \in Starting)
    BY DEF Inv, TypeOK
  <1>1. TypeOK'
    <2>1. DatabaseOK' /\ ProcessesOK' /\ ServingOK'
      BY DEF Inv, TypeOK, DatabaseOK, ProcessesOK, ServingOK, Orphans
    <2>2. contended' \in [Daemons -> BOOLEAN]
      BY Zenon DEF Inv, TypeOK
    <2>3. HistoryOK'
      BY <2>2 DEF Inv, TypeOK, HistoryOK
    <2> QED
      BY <2>1, <2>3 DEF TypeOK, DatabaseOK, ProcessesOK, ServingOK, HistoryOK
  <1>2. (Recorded /\ EarlierRecorded /\ CommitsNew)'
    BY DEF Inv, Recorded, EarlierRecorded, CommitsNew
  <1>3. (OneHolder /\ OrphansNew)'
    BY DEF Inv, TypeOK, OneHolder, OrphansNew
  <1>4. (StartsAlone /\ StartingTogether /\ OvertakenIsContended /\ ClosedIdle)'
    BY <1>c DEF Inv, StartsAlone, StartingTogether, OvertakenIsContended, ClosedIdle, Starting
  <1> QED
    BY <1>1, <1>2, <1>3, <1>4 DEF Inv

LEMMA CreateExtensionInv == ASSUME Inv, CreateExtension PROVE Inv'
  <1> USE DEF CreateExtension, serving, history
  <1>1. TypeOK'
    BY DEF Inv, TypeOK
  <1>2. (Recorded /\ EarlierRecorded /\ OneHolder /\ CommitsNew /\ OrphansNew)'
    BY DEF Inv, Recorded, EarlierRecorded, OneHolder, CommitsNew, OrphansNew
  <1>3. (StartsAlone /\ StartingTogether /\ OvertakenIsContended /\ ClosedIdle)'
    BY DEF Inv, StartsAlone, StartingTogether, OvertakenIsContended, ClosedIdle
  <1> QED
    BY <1>1, <1>2, <1>3 DEF Inv

LEMMA StutterInv == ASSUME Inv, UNCHANGED vars PROVE Inv'
  <1> USE DEF vars, database, history
  <1>1. TypeOK' /\ ClosedIdle'
    BY DEF Inv, TypeOK, ClosedIdle
  <1> QED
    BY <1>1, ServesInv

LEMMA NextInv == Inv /\ [Next]_vars => Inv'
  <1> SUFFICES ASSUME Inv, [Next]_vars PROVE Inv'
    OBVIOUS
  <1>1. ASSUME NEW d \in Daemons, Start(d) PROVE Inv'
    BY <1>1, StartInv
  <1>2. ASSUME NEW d \in Daemons, Open(d) PROVE Inv'
    BY <1>2, ConnectInv, CheckTableInv, CreateTableInv, CountInv, ExecInv, UnblockInv,
       RecordInv, CommitInv DEF Open
  <1>3. ASSUME NEW d \in Daemons, Serve(d) \/ Signal(d) PROVE Inv'
    BY <1>3, ServeInv, SignalInv
  <1>4. ASSUME NEW d \in Daemons, Stop(d) PROVE Inv'
    BY <1>4, ShutdownInv, DrainedInv, DrainExpiresInv, CloseAndExitInv DEF Stop
  <1>5. ASSUME NEW d \in Daemons, Fault(d) PROVE Inv'
    BY <1>5, CountInv, StartFailsInv, ServerFailsInv, CrashInv DEF Fault
  <1>6. ASSUME NEW m \in 0 .. Migrations, Ends(m) PROVE Inv'
    <2> USE ConstantsAssumption
    <2>1. m # 0 => m \in 1 .. Migrations
      OBVIOUS
    <2> QED
      BY <1>6, <2>1, RollBackInv, LateCommitInv, LateCreateInv DEF Ends
  <1>7. CASE CreateExtension
    BY <1>7, CreateExtensionInv
  <1>8. CASE UNCHANGED vars
    BY <1>8, StutterInv
  <1> QED
    BY <1>1, <1>2, <1>3, <1>4, <1>5, <1>6, <1>7, <1>8 DEF Next

THEOREM Invariance == Spec => []Inv
  <1> QED
    BY InitInv, NextInv, PTL DEF Spec

-----------------------------------------------------------------------------

\* Every variable keeps its type.
THEOREM TypeCorrect == Spec => []TypeOK
  <1>1. Inv => TypeOK
    BY DEF Inv
  <1> QED
    BY <1>1, Invariance, PTL

\* However many daemons start together on one database, crash in the middle
\* of a migration and start again, migrate (postgres.go) applies each file
\* once, in order, and all of them before its daemon serves.
THEOREM AppliedOnce == Spec => []MigratedOnce
  <1>1. Inv => MigratedOnce
    BY RecordedIsMigratedOnce DEF Inv
  <1> QED
    BY <1>1, Invariance, PTL

\* Open fails only when the database or the connection does, or another
\* daemon was starting at the same time.
THEOREM OpensAlone == Spec => []StartsAlone
  <1>1. Inv => StartsAlone
    BY DEF Inv
  <1> QED
    BY <1>1, Invariance, PTL

\* Only CloseAndExit leads a daemon to its regular end.
LEMMA StopsByClosing ==
    ASSUME TypeOK, [Next]_vars, NEW d \in Daemons, pc[d] # "stopped", pc'[d] = "stopped"
    PROVE  CloseAndExit(d)
  <1> USE DEF Goto
  <1>1. ASSUME NEW e \in Daemons, Start(e) \/ Open(e) \/ Fault(e) PROVE FALSE
    BY <1>1 DEF TypeOK, Start, Open, Fault, Connect, CheckTable, CreateTable, Count, Exec,
       Unblock, Record, Commit, StartFails, ServerFails, Crash, NextFile, Fail
  <1>2. ASSUME NEW e \in Daemons, Serve(e) \/ Signal(e) PROVE FALSE
    BY <1>2 DEF Serve, Signal, Accept, Query, Queried, Respond, Post, Refuse, Request,
       AcceptIngest, Statement, StatementEnds, NextDocument
  <1>3. ASSUME NEW e \in Daemons, Stop(e) PROVE CloseAndExit(d)
    BY <1>3 DEF TypeOK, Stop, Shutdown, Drained, DrainExpires, CloseAndExit
  <1>4. ~CreateExtension /\ ~UNCHANGED vars /\ \A m \in 0 .. Migrations : ~Ends(m)
    BY DEF CreateExtension, vars, Ends, RollBack, LateCommit, LateCreate
  <1> QED
    BY <1>1, <1>2, <1>3, <1>4 DEF Next

\* A daemon that run ends breaks off no statement, and a request only when
\* Shutdown gave up waiting for it or ListenAndServe failed.
THEOREM EndsCleanly == Spec => StopsCleanly
  <1>1. Inv /\ [Next]_vars =>
          [\A d \in Daemons :
              pc[d] # "stopped" /\ pc'[d] = "stopped" =>
                  /\ ~InStatement(d)
                  /\ expired[d] \/ faulty[d] \/ \A h \in Handlers : handler[d][h] = "idle"]_vars
    BY StopsByClosing DEF Inv, ClosedIdle, CloseAndExit
  <1> QED
    BY <1>1, Invariance, PTL DEF Spec, StopsCleanly
=============================================================================
