-------------------------- MODULE IngestDirProofs --------------------------
(***************************************************************************)
(* Proofs about IngestDir, for any tree, any finite pool and any capacity  *)
(* of the channel of files: the type invariant and the two safety          *)
(* properties.                                                             *)
(*                                                                         *)
(* The heart of IngestedOnce is that the channel holds, in increasing      *)
(* order, exactly the files the walk has come past and no worker has       *)
(* taken; that of ErrorIsReported, that as long as nobody reads the        *)
(* channel of errors, a failure has left an error in it or is about to.    *)
(***************************************************************************)
EXTENDS IngestDir, FiniteSetTheorems, TLAPS

\* The channel of files: sent in the order of the walk, received in order.
JobsInOrder ==
    /\ \A i \in DOMAIN jobs : jobs[i] < pos
    /\ \A i, j \in DOMAIN jobs : i < j => jobs[i] < jobs[j]

InChannel(f) == \E i \in DOMAIN jobs : jobs[i] = f

\* A file was started, once, if the walk is past it and it has been received.
StartedOnce ==
    \A f \in DOMAIN tree :
        started[f] = IF f \in Files /\ f < pos /\ ~InChannel(f) THEN 1 ELSE 0

\* The channel is closed at the end of the walk; who is gone left it empty.
ClosedAtEnd ==
    /\ closed <=> main # "walk"
    /\ \A w \in Workers : worker[w] = "gone" => closed /\ jobs = <<>>

\* Busy workers hold a file.
BusyHoldFiles ==
    \A w \in Workers :
        /\ worker[w] \in {"ingest", "report"} => file[w] \in Files
        /\ worker[w] = "report" => file[w] \in failed

\* An error is of a file that failed, and none is lost before all are read.
ErrorsKept ==
    /\ \A i \in DOMAIN errs : errs[i] \in failed
    /\ main # "returned" /\ failed # {} =>
            errs # <<>> \/ \E w \in Workers : worker[w] = "report"

\* Errors are collected when the whole pool has left.
PoolLeft ==
    main \in {"collect", "returned"} => \A w \in Workers : worker[w] = "gone"

Inv ==
    /\ TypeOK
    /\ JobsInOrder
    /\ StartedOnce
    /\ ClosedAtEnd
    /\ BusyHoldFiles
    /\ ErrorsKept
    /\ PoolLeft
    /\ ErrorIsReported

-----------------------------------------------------------------------------

\* There is room for an error.
LEMMA SomeRoom == ErrCapacity \in Nat /\ ErrCapacity > 0
  <1>1. Cardinality(Workers) \in Nat
    BY ConstantsAssumption, FS_CardinalityType
  <1>2. Cardinality(Workers) # 0
    BY ConstantsAssumption, FS_EmptySet
  <1> QED
    BY <1>1, <1>2 DEF ErrCapacity

\* A tree is a sequence, and files are among its positions.
LEMMA TreeFacts ==
    ASSUME TypeOK
    PROVE  /\ Len(tree) \in Nat /\ DOMAIN tree = 1 .. Len(tree)
           /\ Files \subseteq DOMAIN tree
           /\ Files \subseteq Nat \ {0}
           /\ None \notin Files
  BY ConstantsAssumption DEF TypeOK, Files, None

LEMMA InitInv == Init => Inv
  <1> SUFFICES ASSUME Init PROVE Inv
    OBVIOUS
  <1> USE DEF Init
  <1>t. tree \in Seq(Kinds)
    BY ConstantsAssumption
  <1>1. TypeOK
    <2>1. Len(tree) \in Nat /\ pos \in 1 .. Len(tree) + 1
      BY <1>t
    <2>2. Len(jobs) = 0 /\ Len(errs) = 0
      OBVIOUS
    <2>3. 0 <= JobCapacity /\ 0 <= Cardinality(Workers)
      BY ConstantsAssumption, SomeRoom DEF ErrCapacity
    <2>4. jobs \in Seq(Files) /\ errs \in Seq(Files)
      OBVIOUS
    <2>5. started \in [DOMAIN tree -> Nat]
      OBVIOUS
    <2>6. worker \in [Workers -> {"receive", "ingest", "report", "gone"}]
      OBVIOUS
    <2>7. file \in [Workers -> Files \cup {None}]
      OBVIOUS
    <2> QED
      BY <2>1, <2>2, <2>3, <2>4, <2>5, <2>6, <2>7 DEF TypeOK
  <1>2. JobsInOrder
    BY DEF JobsInOrder
  <1>3. StartedOnce
    BY <1>t DEF StartedOnce, Files
  <1>4. ClosedAtEnd /\ BusyHoldFiles /\ ErrorsKept /\ PoolLeft /\ ErrorIsReported
    BY DEF ClosedAtEnd, BusyHoldFiles, ErrorsKept, PoolLeft, ErrorIsReported
  <1> QED
    BY <1>1, <1>2, <1>3, <1>4 DEF Inv

\* Directories, the end of the walk, the wait and a cancelled context move
\* no file.
LEMMA PassOverInv == ASSUME Inv, PassOver PROVE Inv'
  <1> USE DEF PassOver, channels, pool, history
  <1>f. Files' = Files /\ pos \notin Files
    BY DEF Files
  <1>1. TypeOK'
    BY <1>f, TreeFacts DEF Inv, TypeOK
  <1>2. JobsInOrder'
    BY TreeFacts DEF Inv, TypeOK, JobsInOrder
  <1>3. StartedOnce'
    BY <1>f, TreeFacts DEF Inv, TypeOK, StartedOnce, InChannel
  <1>4. (ClosedAtEnd /\ BusyHoldFiles /\ ErrorsKept /\ PoolLeft /\ ErrorIsReported)'
    BY <1>f DEF Inv, ClosedAtEnd, BusyHoldFiles, ErrorsKept, PoolLeft, ErrorIsReported
  <1> QED
    BY <1>1, <1>2, <1>3, <1>4 DEF Inv

LEMMA DispatchInv == ASSUME Inv, Dispatch PROVE Inv'
  <1> USE DEF Dispatch, pool, history
  <1>f. Files' = Files /\ pos \in Nat
    BY TreeFacts DEF Files, Inv
  <1>j. /\ Len(jobs') = Len(jobs) + 1
        /\ \A i \in 1 .. Len(jobs) : jobs'[i] = jobs[i]
        /\ jobs'[Len(jobs) + 1] = pos
        /\ DOMAIN jobs = 1 .. Len(jobs) /\ DOMAIN jobs' = 1 .. Len(jobs')
        /\ Len(jobs) \in Nat
        /\ jobs' \in Seq(Files)
    BY DEF Inv, TypeOK
  <1>1. TypeOK'
    BY <1>f, <1>j, TreeFacts, ConstantsAssumption DEF Inv, TypeOK
  <1>2. JobsInOrder'
    <2>1. \A i \in 1 .. Len(jobs) : jobs[i] \in Nat /\ jobs[i] < pos
      <3>1. \A i \in 1 .. Len(jobs) : jobs[i] \in Files
        BY DEF Inv, TypeOK
      <3> QED
        BY <1>j, <3>1, TreeFacts DEF Inv, JobsInOrder
    <2>2. \A i \in DOMAIN jobs' : jobs'[i] < pos'
      BY <1>j, <1>f, <2>1
    <2>3. \A i, k \in DOMAIN jobs' : i < k => jobs'[i] < jobs'[k]
      BY <1>j, <2>1 DEF Inv, JobsInOrder
    <2> QED
      BY <2>2, <2>3 DEF JobsInOrder
  <1>3. StartedOnce'
    <2>1. \A f \in Files : InChannel(f)' <=> InChannel(f) \/ f = pos
      BY <1>j DEF InChannel
    <2>2. \A f \in Files : f < pos + 1 <=> f < pos \/ f = pos
      BY <1>f, TreeFacts DEF Inv
    <2> QED
      BY <2>1, <2>2, <1>f DEF Inv, StartedOnce
  <1>4. (ClosedAtEnd /\ BusyHoldFiles /\ ErrorsKept /\ PoolLeft /\ ErrorIsReported)'
    BY <1>f DEF Inv, ClosedAtEnd, BusyHoldFiles, ErrorsKept, PoolLeft, ErrorIsReported
  <1> QED
    BY <1>1, <1>2, <1>3, <1>4 DEF Inv

LEMMA EndWalkInv == ASSUME Inv, EndWalk PROVE Inv'
  <1> USE DEF EndWalk, pool, history
  <1>f. Files' = Files
    BY DEF Files
  <1>1. TypeOK'
    BY <1>f DEF Inv, TypeOK
  <1>2. (JobsInOrder /\ StartedOnce)'
    BY <1>f DEF Inv, JobsInOrder, StartedOnce, InChannel
  <1>3. (ClosedAtEnd /\ BusyHoldFiles /\ ErrorsKept /\ PoolLeft /\ ErrorIsReported)'
    BY <1>f DEF Inv, ClosedAtEnd, BusyHoldFiles, ErrorsKept, PoolLeft, ErrorIsReported
  <1> QED
    BY <1>1, <1>2, <1>3 DEF Inv

LEMMA WaitInv == ASSUME Inv, Wait \/ Cancel PROVE Inv'
  <1> USE DEF Wait, Cancel, channels, pool, history
  <1>f. Files' = Files
    BY DEF Files
  <1>1. TypeOK'
    BY <1>f, ConstantsAssumption DEF Inv, TypeOK
  <1>2. (JobsInOrder /\ StartedOnce)'
    BY <1>f DEF Inv, JobsInOrder, StartedOnce, InChannel
  <1>3. (ClosedAtEnd /\ BusyHoldFiles /\ ErrorsKept /\ PoolLeft /\ ErrorIsReported)'
    BY <1>f DEF Inv, ClosedAtEnd, BusyHoldFiles, ErrorsKept, PoolLeft, ErrorIsReported
  <1> QED
    BY <1>1, <1>2, <1>3 DEF Inv

\* The workers are gone, so no failure is still to be reported.
LEMMA CollectInv == ASSUME Inv, Collect PROVE Inv'
  <1> USE DEF Collect, pool, history
  <1>f. Files' = Files
    BY DEF Files
  <1>e. /\ errs \in Seq(Files)
        /\ errs # <<>> => Head(errs) \in failed
        /\ errs = <<>> => failed = {}
    BY DEF Inv, TypeOK, ErrorsKept, PoolLeft
  <1>1. TypeOK'
    BY <1>f, <1>e, SomeRoom DEF Inv, TypeOK, ErrCapacity
  <1>2. (JobsInOrder /\ StartedOnce)'
    BY <1>f DEF Inv, JobsInOrder, StartedOnce, InChannel
  <1>3. (ClosedAtEnd /\ BusyHoldFiles /\ ErrorsKept /\ PoolLeft)'
    BY <1>f DEF Inv, ClosedAtEnd, BusyHoldFiles, ErrorsKept, PoolLeft
  <1>4. ErrorIsReported'
    BY <1>e DEF Inv, ErrorIsReported, ErrorsKept
  <1> QED
    BY <1>1, <1>2, <1>3, <1>4 DEF Inv

\* The first file leaves the channel and is started.
LEMMA ReceiveInv == ASSUME Inv, NEW w \in Workers, Receive(w) PROVE Inv'
  <1> USE DEF Receive
  <1>f. Files' = Files
    BY DEF Files
  <1>j. /\ Len(jobs) \in Nat \ {0} /\ DOMAIN jobs = 1 .. Len(jobs)
        /\ Head(jobs) = jobs[1] /\ jobs[1] \in Files
        /\ jobs' \in Seq(Files)
        /\ Len(jobs') = Len(jobs) - 1 /\ DOMAIN jobs' = 1 .. Len(jobs')
        /\ \A i \in 1 .. Len(jobs') : jobs'[i] = jobs[i + 1]
    BY DEF Inv, TypeOK
  <1>n. \A i \in DOMAIN jobs : jobs[i] \in Nat
    BY TreeFacts DEF Inv, TypeOK
  <1>1. TypeOK'
    <2>1. Len(jobs') <= JobCapacity
      BY <1>j, ConstantsAssumption DEF Inv, TypeOK
    <2>2. started' \in [DOMAIN tree -> Nat]
      BY <1>j, TreeFacts DEF Inv, TypeOK
    <2> QED
      BY <1>f, <1>j, <2>1, <2>2 DEF Inv, TypeOK
  <1>2. JobsInOrder'
    BY <1>j DEF Inv, JobsInOrder
  <1>3. StartedOnce'
    <2>1. \A f \in Files : InChannel(f)' <=> InChannel(f) /\ f # jobs[1]
      <3>1. \A i \in 2 .. Len(jobs) : jobs[i] # jobs[1]
        BY <1>j, <1>n DEF Inv, JobsInOrder
      <3>2. ASSUME NEW f \in Files
            PROVE  InChannel(f)' <=> \E i \in 2 .. Len(jobs) : jobs[i] = f
        <4>1. \A i \in 2 .. Len(jobs) : i - 1 \in DOMAIN jobs' /\ jobs'[i - 1] = jobs[i]
          BY <1>j
        <4>2. \A i \in DOMAIN jobs' : i + 1 \in 2 .. Len(jobs) /\ jobs'[i] = jobs[i + 1]
          BY <1>j
        <4>3. InChannel(f)' <=> \E i \in DOMAIN jobs' : jobs'[i] = f
          BY DEF InChannel
        <4> QED
          BY <4>1, <4>2, <4>3
      <3> QED
        BY <1>j, <3>1, <3>2 DEF InChannel
    <2>2. InChannel(jobs[1]) /\ jobs[1] < pos
      BY <1>j DEF InChannel, Inv, JobsInOrder
    <2>3. started[jobs[1]] = 0
      BY <1>j, <2>2, TreeFacts DEF Inv, StartedOnce
    <2> QED
      BY <1>f, <1>j, <2>1, <2>2, <2>3, TreeFacts DEF Inv, TypeOK, StartedOnce
  <1>4. ClosedAtEnd'
    BY <1>j DEF Inv, TypeOK, ClosedAtEnd
  <1>5. BusyHoldFiles'
    BY <1>f, <1>j DEF Inv, TypeOK, BusyHoldFiles
  <1>6. ErrorsKept'
    BY DEF Inv, TypeOK, ErrorsKept
  <1>7. (PoolLeft /\ ErrorIsReported)'
    BY DEF Inv, PoolLeft, ErrorIsReported
  <1> QED
    BY <1>1, <1>2, <1>3, <1>4, <1>5, <1>6, <1>7 DEF Inv

LEMMA LeaveInv == ASSUME Inv, NEW w \in Workers, Leave(w) PROVE Inv'
  <1> USE DEF Leave, channels, history
  <1>f. Files' = Files
    BY DEF Files
  <1>1. TypeOK'
    BY <1>f DEF Inv, TypeOK
  <1>2. (JobsInOrder /\ StartedOnce)'
    BY <1>f DEF Inv, JobsInOrder, StartedOnce, InChannel
  <1>3. ClosedAtEnd'
    BY DEF Inv, TypeOK, ClosedAtEnd
  <1>4. (BusyHoldFiles /\ ErrorsKept)'
    BY <1>f DEF Inv, TypeOK, BusyHoldFiles, ErrorsKept
  <1>5. (PoolLeft /\ ErrorIsReported)'
    BY DEF Inv, TypeOK, PoolLeft, ErrorIsReported
  <1> QED
    BY <1>1, <1>2, <1>3, <1>4, <1>5 DEF Inv

LEMMA IngestInv == ASSUME Inv, NEW w \in Workers, NEW ok \in BOOLEAN, Ingest(w, ok) PROVE Inv'
  <1> USE DEF Ingest, channels
  <1>f. Files' = Files
    BY DEF Files
  <1>m. main \notin {"collect", "returned"}
    BY DEF Inv, PoolLeft
  <1>1. TypeOK'
    BY <1>f DEF Inv, TypeOK, BusyHoldFiles
  <1>2. (JobsInOrder /\ StartedOnce)'
    BY <1>f DEF Inv, JobsInOrder, StartedOnce, InChannel
  <1>3. ClosedAtEnd'
    BY DEF Inv, TypeOK, ClosedAtEnd
  <1>4. BusyHoldFiles'
    BY <1>f DEF Inv, TypeOK, BusyHoldFiles
  <1>5. ErrorsKept'
    BY DEF Inv, TypeOK, ErrorsKept
  <1>6. (PoolLeft /\ ErrorIsReported)'
    BY <1>m DEF PoolLeft, ErrorIsReported
  <1> QED
    BY <1>1, <1>2, <1>3, <1>4, <1>5, <1>6 DEF Inv

\* An error is sent, or dropped for want of room, and then another is there.
LEMMA ReportInv == ASSUME Inv, NEW w \in Workers, Report(w) PROVE Inv'
  <1> USE DEF Report, history
  <1>f. Files' = Files
    BY DEF Files
  <1>m. main \notin {"collect", "returned"}
    BY DEF Inv, PoolLeft
  <1>w. file[w] \in Files /\ file[w] \in failed
    BY DEF Inv, BusyHoldFiles
  <1>e. /\ errs' \in Seq(Files) /\ errs' # <<>>
        /\ Len(errs') <= ErrCapacity
        /\ \A i \in DOMAIN errs' : errs'[i] \in failed
    <2>1. errs \in Seq(Files) /\ Len(errs) <= ErrCapacity /\ \A i \in DOMAIN errs : errs[i] \in failed
      BY DEF Inv, TypeOK, ErrorsKept, ErrCapacity
    <2>2. CASE Len(errs) < ErrCapacity
      BY <2>1, <2>2, <1>w, SomeRoom
    <2>3. CASE ~(Len(errs) < ErrCapacity)
      BY <2>1, <2>3, SomeRoom
    <2> QED
      BY <2>2, <2>3
  <1>1. TypeOK'
    BY <1>f, <1>e DEF Inv, TypeOK, ErrCapacity
  <1>2. (JobsInOrder /\ StartedOnce)'
    BY <1>f DEF Inv, JobsInOrder, StartedOnce, InChannel
  <1>3. ClosedAtEnd'
    BY DEF Inv, TypeOK, ClosedAtEnd
  <1>4. BusyHoldFiles'
    BY <1>f DEF Inv, TypeOK, BusyHoldFiles
  <1>5. ErrorsKept'
    BY <1>e DEF ErrorsKept
  <1>6. (PoolLeft /\ ErrorIsReported)'
    BY <1>m DEF PoolLeft, ErrorIsReported
  <1> QED
    BY <1>1, <1>2, <1>3, <1>4, <1>5, <1>6 DEF Inv

-----------------------------------------------------------------------------

LEMMA NextInv == Inv /\ [Next]_vars => Inv'
  <1> SUFFICES ASSUME Inv, [Next]_vars PROVE Inv'
    OBVIOUS
  <1>1. CASE Main
    BY <1>1, PassOverInv, DispatchInv, EndWalkInv, WaitInv, CollectInv DEF Main
  <1>2. ASSUME NEW w \in Workers, Work(w) PROVE Inv'
    BY <1>2, ReceiveInv, LeaveInv, IngestInv, ReportInv DEF Work
  <1>3. CASE Cancel
    BY <1>3, WaitInv
  <1>4. CASE UNCHANGED vars
    BY <1>4 DEF vars, Inv, TypeOK, JobsInOrder, StartedOnce, InChannel, ClosedAtEnd, BusyHoldFiles,
                ErrorsKept, PoolLeft, ErrorIsReported, Files
  <1> QED
    BY <1>1, <1>2, <1>3, <1>4 DEF Next

THEOREM Invariance == Spec => []Inv
  BY InitInv, NextInv, PTL DEF Spec

\* The variables of the walk and of the pool keep their types; the channels
\* are never over their capacity.
THEOREM TypeCorrect == Spec => []TypeOK
  <1>1. Inv => TypeOK
    BY DEF Inv
  <1> QED
    BY <1>1, Invariance, PTL

\* However the goroutines are scheduled, no file is ingested twice, and none
\* that the walk has come past is missed.
THEOREM OnceEach == Spec => []IngestedOnce
  <1>1. Inv => IngestedOnce
    <2> SUFFICES ASSUME Inv PROVE IngestedOnce
      OBVIOUS
    <2>1. \A f \in DOMAIN tree : started[f] <= 1
      BY DEF Inv, StartedOnce
    <2>2. ASSUME main = "returned" PROVE jobs = <<>>
      <3>1. PICK w \in Workers : TRUE
        BY ConstantsAssumption
      <3> QED
        BY <2>2, <3>1 DEF Inv, PoolLeft, ClosedAtEnd
    <2>3. ASSUME main = "returned", NEW f \in Files, f < pos PROVE started[f] = 1
      BY <2>2, <2>3, TreeFacts DEF Inv, StartedOnce, InChannel
    <2> QED
      BY <2>1, <2>3 DEF IngestedOnce
  <1> QED
    BY <1>1, Invariance, PTL

\* IngestDir reports an error exactly when an ingest has failed, however
\* many errors its channel had no room for.
THEOREM ErrorReported == Spec => []ErrorIsReported
  <1>1. Inv => ErrorIsReported
    BY DEF Inv
  <1> QED
    BY <1>1, Invariance, PTL
=============================================================================
