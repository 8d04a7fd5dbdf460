-------------------------- MODULE DocIngestProofs --------------------------
(***************************************************************************)
(* Proofs about DocIngest, for any number of paths, calls, versions and    *)
(* chunks and any set of faults: the type invariant, DoneIsExact, and that *)
(* ingestion implements DocIndex.                                          *)
(*                                                                         *)
(* DoneIsExact is not inductive: that MarkDone finds the rows complete     *)
(* depends on what every earlier step of the call left there and on no     *)
(* other call having touched them.  Inv says, step by step, what a clean   *)
(* call may count on.                                                      *)
(***************************************************************************)
EXTENDS DocIngest, TLAPS

\* The locations after extraction, where text[c] is known.
Extracted == {"embed", "clear", "store", "finish"}

\* What the variables of a call hold at each of its locations.
CallsInOrder ==
    \A c \in Calls :
        /\ pc[c] # "idle" => path[c] \in Paths /\ hash[c] \in Versions
        /\ pc[c] \in Extracted => text[c] \in Versions
        /\ pc[c] \in Locations \ {"store", "finish"} => next[c] = 0
        /\ pc[c] = "store" => next[c] < NumChunks[text[c]]
        /\ pc[c] \in {"embed", "clear"} => 0 < NumChunks[text[c]]

\* A row that says "done" has a hash.
DoneHasHash == \A p \in Paths : jobs[p].status = "done" => jobs[p].hash \in Versions

\* A clean call is alone on its path, and has taken back the claim.
CleanIsAlone ==
    \A c \in Calls :
        clean[c] /\ pc[c] \in Writing =>
            /\ \A d \in Calls \ {c} : pc[d] \in Writing => path[d] # path[c]
            /\ jobs[path[c]].status # "done"

\* A clean call chunks the version it has hashed.
CleanText == \A c \in Calls : clean[c] /\ pc[c] \in Extracted => text[c] = hash[c]

\* The rows a clean call has stored so far.
Prefix(v, n) == [i \in Index |-> IF i < n THEN v ELSE None]

\* The rows a clean call finds at its path while it stores, and at its end.
CleanRows ==
    \A c \in Calls :
        clean[c] =>
            /\ pc[c] = "store" => chunks[path[c]] = Prefix(hash[c], next[c])
            /\ pc[c] = "finish" => chunks[path[c]] = Complete(hash[c])

\* A call that is not clean can write under a "done" row, which is then
\* suspect.
UncleanIsSuspect ==
    \A c \in Calls :
        ~clean[c] /\ pc[c] \in Writing /\ jobs[path[c]].status = "done" => suspect[path[c]]

Inv ==
    /\ TypeOK
    /\ CallsInOrder
    /\ DoneHasHash
    /\ CleanIsAlone
    /\ CleanText
    /\ CleanRows
    /\ UncleanIsSuspect
    /\ DoneIsExact

-----------------------------------------------------------------------------

\* No row is stored yet.
LEMMA PrefixZero == ASSUME NEW v PROVE Prefix(v, 0) = NoRows
  <1>1. \A i \in Index : ~(i < 0)
    BY ConstantsAssumption DEF Index
  <1> QED
    BY <1>1 DEF Prefix, NoRows

\* Storing row n makes the prefix one longer.
LEMMA PrefixExtends ==
    ASSUME NEW v, NEW n \in Index
    PROVE  [Prefix(v, n) EXCEPT ![n] = v] = Prefix(v, n + 1)
  <1>1. \A i \in Index : i < n + 1 <=> i < n \/ i = n
    BY ConstantsAssumption DEF Index
  <1> QED
    BY <1>1 DEF Prefix

LEMMA InitInv == Init => Inv
  <1> SUFFICES ASSUME Init PROVE Inv
    OBVIOUS
  <1>1. TypeOK
    BY ConstantsAssumption DEF Init, TypeOK, NoJob, JobRows, NoRows, Rows, Index, Locations, Writing
  <1>2. \A c \in Calls : pc[c] = "idle" /\ next[c] = 0
    BY DEF Init
  <1>3. \A p \in Paths : jobs[p].status = "none"
    BY DEF Init, NoJob
  <1>4. CallsInOrder
    BY <1>2 DEF CallsInOrder, Extracted
  <1>5. CleanIsAlone /\ CleanText /\ CleanRows /\ UncleanIsSuspect
    BY <1>2 DEF CleanIsAlone, CleanText, CleanRows, UncleanIsSuspect, Writing, Extracted
  <1>6. DoneHasHash /\ DoneIsExact
    BY <1>3 DEF DoneHasHash, DoneIsExact
  <1> QED
    BY <1>1, <1>4, <1>5, <1>6 DEF Inv

LEMMA BeginInv == ASSUME Inv, NEW c \in Calls, NEW p \in Paths, Begin(c, p) PROVE Inv'
  <1> USE ConstantsAssumption DEF Begin, Goto, store, history
  <1>1. TypeOK'
    BY DEF Inv, TypeOK, Locations
  <1>2. CallsInOrder'
    BY DEF Inv, TypeOK, CallsInOrder, Extracted, Locations, Writing
  <1>3. (DoneHasHash /\ DoneIsExact)'
    BY DEF Inv, DoneHasHash, DoneIsExact
  <1>4. (CleanIsAlone /\ CleanText)'
    BY DEF Inv, TypeOK, CleanIsAlone, CleanText, Extracted, Writing
  <1>5. (CleanRows /\ UncleanIsSuspect)'
    BY DEF Inv, TypeOK, CleanRows, UncleanIsSuspect, Writing
  <1> QED
    BY <1>1, <1>2, <1>3, <1>4, <1>5 DEF Inv

LEMMA ProceedInv ==
    ASSUME Inv, NEW c \in Calls, NEW unread \in BOOLEAN, Proceed(c, unread) PROVE Inv'
  <1> USE DEF Proceed, Goto, store, history
  <1>1. TypeOK'
    BY DEF Inv, TypeOK, Locations
  <1>2. CallsInOrder'
    BY DEF Inv, TypeOK, CallsInOrder, Extracted, Locations, Writing
  <1>3. (DoneHasHash /\ DoneIsExact)'
    BY DEF Inv, DoneHasHash, DoneIsExact
  <1>4. (CleanIsAlone /\ CleanText)'
    BY DEF Inv, TypeOK, CleanIsAlone, CleanText, Extracted, Writing
  <1>5. (CleanRows /\ UncleanIsSuspect)'
    BY DEF Inv, TypeOK, CleanRows, UncleanIsSuspect, Writing
  <1> QED
    BY <1>1, <1>2, <1>3, <1>4, <1>5 DEF Inv

LEMMA MarkPendingInv ==
    ASSUME Inv, NEW c \in Calls, NEW applied \in BOOLEAN, MarkPending(c, applied) PROVE Inv'
  <1> USE DEF MarkPending, UpsertIngestJob, Goto
  <1>p. path[c] \in Paths /\ hash[c] \in Versions
    BY DEF Inv, CallsInOrder
  <1>j. \A p \in Paths : 
            /\ p # path[c] => jobs'[p] = jobs[p] /\ suspect'[p] = suspect[p]
            /\ jobs'[p].status = "done" => jobs'[p] = jobs[p]
            /\ p = path[c] /\ jobs'[p].status = "done" => suspect'[p]
    BY <1>p DEF Inv, TypeOK, Job
  <1>1. TypeOK'
    BY <1>p DEF Inv, TypeOK, Locations, Writing, Job, JobRows
  <1>2. CallsInOrder'
    BY <1>p DEF Inv, TypeOK, CallsInOrder, Extracted, Locations, Writing
  <1>3. DoneHasHash'
    BY <1>j DEF Inv, DoneHasHash
  <1>4. DoneIsExact'
    BY <1>j DEF Inv, DoneIsExact
  <1>5. CleanIsAlone'
    <2>1. \A d \in Calls : path'[d] = path[d] /\ (d # c => pc'[d] = pc[d])
      BY DEF Inv, TypeOK
    <2>2. \A d \in Calls \ {c} : path[d] = path[c] /\ pc[d] \in Writing => ~clean'[c] /\ ~clean'[d]
      BY DEF Inv, TypeOK, Rivals
    <2>3. \A d \in Calls \ {c} : clean'[d] => clean[d]
      BY DEF Inv, TypeOK
    <2>4. clean'[c] => jobs'[path[c]].status # "done"
      BY <1>p DEF Inv, TypeOK, Job
    <2> QED
      BY <2>1, <2>2, <2>3, <2>4, <1>p, <1>j DEF Inv, CleanIsAlone, CallsInOrder, Writing
  <1>6. (CleanText /\ CleanRows)'
    BY DEF Inv, TypeOK, CleanText, CleanRows, Extracted
  <1>7. UncleanIsSuspect'
    BY <1>p, <1>j DEF Inv, TypeOK, UncleanIsSuspect, CleanIsAlone, Rivals, Writing
  <1> QED
    BY <1>1, <1>2, <1>3, <1>4, <1>5, <1>6, <1>7 DEF Inv

LEMMA ExtractInv ==
    ASSUME Inv, NEW c \in Calls, NEW type \in SourceTypes, Extract(c, type) PROVE Inv'
  <1> USE ConstantsAssumption DEF Extract, Goto, store
  <1> DEFINE v == TextSource(c, type)
  <1>p. path[c] \in Paths /\ hash[c] \in Versions
    BY DEF Inv, CallsInOrder
  <1>v. v \in Versions /\ NumChunks[v] \in 0 .. MaxChunks
    BY <1>p DEF Inv, TypeOK, TextSource
  <1>1. TypeOK'
    BY <1>v DEF Inv, TypeOK, Locations, Writing
  <1>2. CallsInOrder'
    BY <1>v DEF Inv, TypeOK, CallsInOrder, Extracted, Locations, Writing
  <1>3. (DoneHasHash /\ DoneIsExact)'
    BY DEF Inv, DoneHasHash, DoneIsExact
  <1>4. (CleanIsAlone /\ CleanText)'
    BY DEF Inv, TypeOK, CleanIsAlone, CleanText, Extracted, Writing
  <1>5. CleanRows'
    <2>1. clean'[c] /\ pc'[c] = "finish" => chunks[path[c]] = Complete(hash[c])
      <3>1. ASSUME clean'[c], pc'[c] = "finish"
            PROVE  NumChunks[hash[c]] = 0 /\ chunks[path[c]] = NoRows
        BY <3>1 DEF Inv, TypeOK
      <3>2. NumChunks[hash[c]] = 0 => Complete(hash[c]) = Prefix(hash[c], 0)
        BY DEF Prefix, Complete
      <3> QED
        BY <3>1, <3>2, PrefixZero
    <2>2. pc'[c] # "store"
      BY DEF Inv, TypeOK
    <2> QED
      BY <2>1, <2>2 DEF Inv, TypeOK, CleanRows, Prefix, Complete
  <1>6. UncleanIsSuspect'
    BY DEF Inv, TypeOK, UncleanIsSuspect, CleanIsAlone, Writing
  <1> QED
    BY <1>1, <1>2, <1>3, <1>4, <1>5, <1>6 DEF Inv

\* The steps that change nothing but the location of the call.
LEMMA LocalInv ==
    ASSUME Inv, NEW c \in Calls, ExtractFails(c) \/ Embed(c) \/ EmbedFails(c) PROVE Inv'
  <1> USE DEF ExtractFails, Embed, EmbedFails, Goto, store, history
  <1>1. TypeOK'
    BY DEF Inv, TypeOK, Locations, Writing
  <1>2. CallsInOrder'
    BY DEF Inv, TypeOK, CallsInOrder, Extracted, Locations, Writing
  <1>3. (DoneHasHash /\ DoneIsExact)'
    BY DEF Inv, DoneHasHash, DoneIsExact
  <1>4. (CleanIsAlone /\ CleanText)'
    BY DEF Inv, TypeOK, CleanIsAlone, CleanText, Extracted, Writing
  <1>5. (CleanRows /\ UncleanIsSuspect)'
    BY DEF Inv, TypeOK, CleanRows, UncleanIsSuspect, Writing
  <1> QED
    BY <1>1, <1>2, <1>3, <1>4, <1>5 DEF Inv

LEMMA DeleteOldInv ==
    ASSUME Inv, NEW c \in Calls, NEW applied \in BOOLEAN, DeleteOld(c, applied) PROVE Inv'
  <1> USE ConstantsAssumption DEF DeleteOld, DeleteDocChunksBySource, Goto
  <1>p. path[c] \in Paths /\ hash[c] \in Versions
    BY DEF Inv, CallsInOrder, Locations
  <1>1. TypeOK'
    BY <1>p DEF Inv, TypeOK, Locations, Writing, Rows, NoRows
  <1>2. CallsInOrder'
    BY DEF Inv, TypeOK, CallsInOrder, Extracted, Locations, Writing
  <1>3. DoneHasHash'
    BY DEF Inv, DoneHasHash
  <1>4. (CleanIsAlone /\ CleanText)'
    BY DEF Inv, TypeOK, CleanIsAlone, CleanText, Extracted, Writing
  <1>5. CleanRows'
    <2>1. clean'[c] => chunks'[path[c]] = Prefix(hash[c], next[c])
      <3>1. next[c] = 0
        BY DEF Inv, CallsInOrder, Locations, Writing
      <3>2. clean'[c] => chunks'[path[c]] = NoRows
        BY <1>p DEF Inv, TypeOK
      <3> QED
        BY <3>1, <3>2, PrefixZero
    <2>2. \A d \in Calls \ {c} :
             clean[d] /\ pc[d] \in Writing => path[d] # path[c]
      BY DEF Inv, CleanIsAlone, Writing
    <2> QED
      BY <2>1, <2>2, <1>p DEF Inv, TypeOK, CallsInOrder, CleanRows, Writing, Prefix, Complete
  <1>6. UncleanIsSuspect'
    BY DEF Inv, TypeOK, UncleanIsSuspect, CleanIsAlone, Writing
  <1>7. DoneIsExact'
    <2>1. jobs[path[c]].status = "done" => suspect[path[c]]
      BY DEF Inv, CleanIsAlone, UncleanIsSuspect, Writing
    <2>2. \A p \in Paths \ {path[c]} : chunks'[p] = chunks[p]
      BY DEF Inv, TypeOK
    <2> QED
      BY <2>1, <2>2 DEF Inv, DoneIsExact, Complete
  <1> QED
    BY <1>1, <1>2, <1>3, <1>4, <1>5, <1>6, <1>7 DEF Inv

\* A round of the loop extends the rows of a clean call by one.
LEMMA StoreChunkInv == ASSUME Inv, NEW c \in Calls, StoreChunk(c) PROVE Inv'
  <1> USE ConstantsAssumption DEF StoreChunk, UpsertDocChunk, Goto, history
  <1> DEFINE n == NumChunks[text[c]]
  <1>p. path[c] \in Paths /\ hash[c] \in Versions /\ text[c] \in Versions
    BY DEF Inv, CallsInOrder, Extracted
  <1>n. n \in Nat /\ n <= MaxChunks /\ next[c] \in Nat /\ next[c] < n /\ next[c] \in Index
    BY <1>p DEF Inv, TypeOK, CallsInOrder, Index
  <1>1. TypeOK'
    BY <1>p, <1>n DEF Inv, TypeOK, Locations, Writing, Rows
  <1>2. CallsInOrder'
    BY <1>p, <1>n DEF Inv, TypeOK, CallsInOrder, Extracted, Locations, Writing
  <1>3. DoneHasHash'
    BY DEF Inv, DoneHasHash
  <1>4. (CleanIsAlone /\ CleanText)'
    BY DEF Inv, TypeOK, CleanIsAlone, CleanText, Extracted, Writing
  <1>5. CleanRows'
    <2>1. ASSUME clean[c]
          PROVE  chunks'[path[c]] = Prefix(hash[c], next[c] + 1)
      <3>1. text[c] = hash[c] /\ chunks[path[c]] = Prefix(hash[c], next[c])
        BY <2>1 DEF Inv, CleanText, CleanRows, Extracted
      <3>2. chunks'[path[c]] = [chunks[path[c]] EXCEPT ![next[c]] = text[c]]
        BY <1>p DEF Inv, TypeOK
      <3> QED
        BY <3>1, <3>2, <1>n, PrefixExtends
    <2>2. ASSUME clean[c], next[c] + 1 = n
          PROVE  chunks'[path[c]] = Complete(hash[c])
      BY <2>1, <2>2 DEF Inv, CleanText, Extracted, Prefix, Complete
    <2>3. pc'[c] = "finish" => next[c] + 1 = n
      BY DEF Inv, TypeOK
    <2>4. \A d \in Calls \ {c} : clean[d] /\ pc[d] \in Writing => path[d] # path[c]
      BY DEF Inv, CleanIsAlone, Writing
    <2>5. ASSUME NEW d \in Calls \ {c}, clean[d], pc[d] \in {"store", "finish"}
          PROVE  chunks'[path[d]] = chunks[path[d]]
      BY <2>4, <2>5 DEF Inv, TypeOK, CallsInOrder, Writing
    <2>6. next'[c] = next[c] + 1 /\ \A d \in Calls \ {c} : pc'[d] = pc[d] /\ next'[d] = next[d]
      BY DEF Inv, TypeOK
    <2> QED
      BY <2>1, <2>2, <2>3, <2>5, <2>6 DEF Inv, CleanRows, Prefix, Complete
  <1>6. UncleanIsSuspect'
    BY DEF Inv, TypeOK, UncleanIsSuspect, Writing
  <1>7. DoneIsExact'
    <2>1. jobs[path[c]].status = "done" => suspect[path[c]]
      BY DEF Inv, CleanIsAlone, UncleanIsSuspect, Writing
    <2>2. \A p \in Paths \ {path[c]} : chunks'[p] = chunks[p]
      BY DEF Inv, TypeOK
    <2> QED
      BY <2>1, <2>2 DEF Inv, DoneIsExact, Complete
  <1> QED
    BY <1>1, <1>2, <1>3, <1>4, <1>5, <1>6, <1>7 DEF Inv

\* What remains of a call that returns, or of every call after a crash.
LEMMA ReturnFacts ==
    ASSUME Inv, NEW c \in Calls, Return(c)
    PROVE  /\ pc'[c] = "idle" /\ next'[c] = 0
           /\ \A d \in Calls \ {c} :
                 /\ pc'[d] = pc[d] /\ path'[d] = path[d] /\ hash'[d] = hash[d]
                 /\ text'[d] = text[d] /\ next'[d] = next[d] /\ clean'[d] = clean[d]
  BY DEF Inv, TypeOK, Return, Goto

LEMMA ReturnTypes ==
    ASSUME Inv, NEW c \in Calls, Return(c)
    PROVE  /\ pc' \in [Calls -> Locations]
           /\ path' \in [Calls -> Paths \cup {None}]
           /\ hash' \in [Calls -> Versions \cup {None}]
           /\ text' \in [Calls -> Versions \cup {None}]
           /\ next' \in [Calls -> 0 .. MaxChunks]
           /\ clean' \in [Calls -> BOOLEAN]
  BY ConstantsAssumption DEF Inv, TypeOK, Return, Goto, Locations

\* What the other calls hold is untouched by a return.
LEMMA ReturnInOrder ==
    ASSUME Inv, NEW c \in Calls, Return(c) PROVE (CallsInOrder /\ CleanText)'
  <1>1. CallsInOrder'
    BY ReturnFacts DEF Inv, CallsInOrder, Extracted
  <1>2. CleanText'
    BY ReturnFacts DEF Inv, CleanText, Extracted
  <1> QED
    BY <1>1, <1>2

LEMMA SkipUnchangedInv == ASSUME Inv, NEW c \in Calls, SkipUnchanged(c) PROVE Inv'
  <1> USE DEF SkipUnchanged, store
  <1>1. TypeOK'
    BY ReturnTypes DEF Inv, TypeOK
  <1>2. (CallsInOrder /\ CleanText)'
    BY ReturnInOrder
  <1>3. (DoneHasHash /\ DoneIsExact)'
    BY DEF Inv, DoneHasHash, DoneIsExact
  <1>4. (CleanIsAlone /\ CleanRows)'
    BY ReturnFacts DEF Inv, CleanIsAlone, CleanRows, Writing
  <1>5. UncleanIsSuspect'
    BY ReturnFacts DEF Inv, UncleanIsSuspect, Writing
  <1> QED
    BY <1>1, <1>2, <1>3, <1>4, <1>5 DEF Inv

LEMMA MarkErrorInv ==
    ASSUME Inv, NEW c \in Calls, NEW applied \in BOOLEAN, MarkError(c, applied) PROVE Inv'
  <1> USE DEF MarkError, UpsertIngestJob
  <1>p. path[c] \in Paths /\ hash[c] \in Versions
    BY DEF Inv, CallsInOrder
  <1>j. \A p \in Paths : jobs'[p].status = "done" => jobs'[p] = jobs[p]
    BY <1>p DEF Inv, TypeOK, Job
  <1>1. TypeOK'
    BY <1>p, ReturnTypes DEF Inv, TypeOK, Job, JobRows
  <1>2. (CallsInOrder /\ CleanText)'
    BY ReturnInOrder
  <1>3. (DoneHasHash /\ DoneIsExact)'
    BY <1>j DEF Inv, DoneHasHash, DoneIsExact
  <1>4. CleanIsAlone'
    BY <1>j, ReturnFacts DEF Inv, CallsInOrder, CleanIsAlone, Writing
  <1>5. CleanRows'
    BY ReturnFacts DEF Inv, CleanRows
  <1>6. UncleanIsSuspect'
    BY <1>j, ReturnFacts DEF Inv, CallsInOrder, UncleanIsSuspect, Writing
  <1> QED
    BY <1>1, <1>2, <1>3, <1>4, <1>5, <1>6 DEF Inv

\* A failed store breaks no claim: the path has none, or is suspect.
LEMMA StoreFailsInv ==
    ASSUME Inv, NEW c \in Calls, NEW written \in BOOLEAN, StoreFails(c, written) PROVE Inv'
  <1> USE ConstantsAssumption DEF StoreFails, UpsertDocChunk
  <1>p. path[c] \in Paths /\ text[c] \in Versions
    BY DEF Inv, CallsInOrder, Extracted
  <1>r. \A p \in Paths \ {path[c]} : chunks'[p] = chunks[p]
    BY DEF Inv, TypeOK
  <1>1. TypeOK'
    BY <1>p, ReturnTypes DEF Inv, TypeOK, Rows
  <1>2. (CallsInOrder /\ CleanText)'
    BY ReturnInOrder
  <1>3. DoneHasHash'
    BY DEF Inv, DoneHasHash
  <1>4. DoneIsExact'
    <2>1. jobs[path[c]].status = "done" => suspect[path[c]]
      BY DEF Inv, CleanIsAlone, UncleanIsSuspect, Writing
    <2> QED
      BY <2>1, <1>r DEF Inv, DoneIsExact, Complete
  <1>5. CleanIsAlone'
    BY ReturnFacts DEF Inv, CleanIsAlone, Writing
  <1>6. CleanRows'
    <2>1. \A d \in Calls \ {c} : clean[d] /\ pc[d] \in Writing => path[d] # path[c]
      BY DEF Inv, CleanIsAlone, Writing
    <2>2. \A d \in Calls \ {c} : clean[d] /\ pc[d] \in {"store", "finish"} =>
                chunks'[path[d]] = chunks[path[d]]
      BY <2>1, <1>r DEF Inv, CallsInOrder, Writing
    <2> QED
      BY <2>2, ReturnFacts DEF Inv, CleanRows, Prefix, Complete
  <1>7. UncleanIsSuspect'
    BY ReturnFacts DEF Inv, UncleanIsSuspect, Writing
  <1> QED
    BY <1>1, <1>2, <1>3, <1>4, <1>5, <1>6, <1>7 DEF Inv

\* The claim of a clean call is true; that of another makes the path suspect.
LEMMA MarkDoneInv ==
    ASSUME Inv, NEW c \in Calls, NEW applied \in BOOLEAN, MarkDone(c, applied) PROVE Inv'
  <1> USE DEF MarkDone, UpsertIngestJob
  <1> DEFINE p == path[c]
  <1>p. p \in Paths /\ hash[c] \in Versions
    BY DEF Inv, CallsInOrder
  <1>j. /\ \A q \in Paths \ {p} : jobs'[q] = jobs[q] /\ suspect'[q] = suspect[q]
        /\ ~applied => jobs' = jobs /\ suspect' = suspect
        /\ applied => jobs'[p] = Job("done", hash[c]) /\ suspect'[p] = ~clean[c]
    BY <1>p DEF Inv, TypeOK
  <1>1. TypeOK'
    BY <1>p, ReturnTypes DEF Inv, TypeOK, Job, JobRows
  <1>2. (CallsInOrder /\ CleanText)'
    BY ReturnInOrder
  <1>3. DoneHasHash'
    BY <1>j, <1>p DEF Inv, DoneHasHash, Job
  <1>4. DoneIsExact'
    <2>1. clean[c] => chunks[p] = Complete(hash[c])
      BY DEF Inv, CleanRows
    <2> QED
      BY <1>j, <2>1 DEF Inv, DoneIsExact, Job, Complete
  <1>r. \A d \in Calls \ {c} : pc[d] \in Writing /\ path[d] = p => ~clean[d] /\ ~clean[c]
    BY DEF Inv, CleanIsAlone, Writing
  <1>5. CleanIsAlone'
    BY <1>j, <1>r, ReturnFacts DEF Inv, CallsInOrder, CleanIsAlone, Writing
  <1>6. CleanRows'
    BY ReturnFacts DEF Inv, CleanRows, Prefix, Complete
  <1>7. UncleanIsSuspect'
    BY <1>j, <1>r, ReturnFacts DEF Inv, CallsInOrder, UncleanIsSuspect, Writing
  <1> QED
    BY <1>1, <1>2, <1>3, <1>4, <1>5, <1>6, <1>7 DEF Inv

LEMMA EditFileInv == ASSUME Inv, NEW p \in Paths, EditFile(p) PROVE Inv'
  <1> USE DEF EditFile, store, call, history
  <1>1. TypeOK'
    BY DEF Inv, TypeOK
  <1>2. (CallsInOrder /\ DoneHasHash /\ DoneIsExact)'
    BY DEF Inv, CallsInOrder, DoneHasHash, DoneIsExact
  <1>3. (CleanIsAlone /\ CleanText /\ CleanRows /\ UncleanIsSuspect)'
    BY DEF Inv, CleanIsAlone, CleanText, CleanRows, UncleanIsSuspect
  <1> QED
    BY <1>1, <1>2, <1>3 DEF Inv

LEMMA CrashInv == ASSUME Inv, Crash PROVE Inv'
  <1> USE DEF Crash, store
  <1>1. TypeOK'
    BY ConstantsAssumption DEF Inv, TypeOK, Locations
  <1>2. (CallsInOrder /\ CleanIsAlone /\ CleanText /\ CleanRows /\ UncleanIsSuspect)'
    BY DEF CallsInOrder, CleanIsAlone, CleanText, CleanRows, UncleanIsSuspect, Extracted, Writing
  <1>3. (DoneHasHash /\ DoneIsExact)'
    BY DEF Inv, DoneHasHash, DoneIsExact
  <1> QED
    BY <1>1, <1>2, <1>3 DEF Inv

-----------------------------------------------------------------------------

\* Every step of the system preserves the invariant.
LEMMA NextInv == Inv /\ [Next]_vars => Inv'
  <1> SUFFICES ASSUME Inv, [Next]_vars PROVE Inv'
    OBVIOUS
  <1>1. ASSUME NEW c \in Calls, NEW p \in Paths, Begin(c, p) PROVE Inv'
    BY <1>1, BeginInv
  <1>2. ASSUME NEW c \in Calls, Step(c) PROVE Inv'
    BY <1>2, SkipUnchangedInv, ProceedInv, MarkPendingInv, ExtractInv, LocalInv, DeleteOldInv,
       StoreChunkInv, MarkDoneInv, MarkErrorInv DEF Step
  <1>3. ASSUME NEW c \in Calls, Fault(c) PROVE Inv'
    BY <1>3, ProceedInv, MarkPendingInv, LocalInv, DeleteOldInv, StoreFailsInv, MarkDoneInv,
       MarkErrorInv DEF Fault
  <1>4. ASSUME NEW p \in Paths, EditFile(p) PROVE Inv'
    BY <1>4, EditFileInv
  <1>5. CASE UNCHANGED vars
    BY <1>5 DEF vars, Inv, TypeOK, CallsInOrder, DoneHasHash, CleanIsAlone, CleanText, CleanRows,
                UncleanIsSuspect, DoneIsExact, Prefix, Complete
  <1> QED
    BY <1>1, <1>2, <1>3, <1>4, <1>5, CrashInv DEF Next, Smooth

THEOREM Invariance == Spec => []Inv
  BY InitInv, NextInv, PTL DEF Spec

\* The variables of IngestFile and its two tables keep their types.
THEOREM TypeCorrect == Spec => []TypeOK
  <1>1. Inv => TypeOK
    BY DEF Inv
  <1> QED
    BY <1>1, Invariance, PTL

\* Whatever interleaves, fails or stops: a "done" row of a path that is not
\* suspect describes the chunk rows exactly, so skipping the file on the
\* next ingest loses nothing.
THEOREM DoneExact == Spec => []DoneIsExact
  <1>1. Inv => DoneIsExact
    BY DEF Inv
  <1> QED
    BY <1>1, Invariance, PTL

-----------------------------------------------------------------------------
\* Refinement: each step of ingestion is a step of DocIndex, or a stutter.

AbstractVars == <<Published, chunks>>

LEMMA AbstractInit == Init => Abstract!Init
  BY DEF Init, Published, NoJob, NoRows, Index, Abstract!Init, Abstract!Index

\* A step that leaves the claims and the rows alone.
LEMMA Stutter ==
    ASSUME Inv, UNCHANGED <<jobs, chunks, suspect>> PROVE UNCHANGED AbstractVars
  BY DEF Published, AbstractVars

\* A step that can only take back the claim of one path.
LEMMA Withdrawal ==
    ASSUME Inv, NEW p \in Paths, UNCHANGED chunks,
           \A q \in Paths \ {p} : jobs'[q] = jobs[q] /\ suspect'[q] = suspect[q],
           jobs'[p].status = "done" => suspect'[p]
    PROVE  [Abstract!Next]_AbstractVars
  <1>1. Published' = [Published EXCEPT ![p] = None]
    BY DEF Published
  <1>2. CASE Published[p] = None
    BY <1>1, <1>2 DEF Published, AbstractVars
  <1>3. CASE Published[p] # None
    BY <1>1, <1>3 DEF Abstract!Next, Abstract!Withdraw
  <1> QED
    BY <1>2, <1>3

\* A step that changes the rows of a path without a claim, and only those.
LEMMA Rewriting ==
    ASSUME Inv, Inv', NEW p \in Paths, UNCHANGED <<jobs, suspect>>,
           jobs[p].status = "done" => suspect[p],
           \A q \in Paths \ {p} : chunks'[q] = chunks[q]
    PROVE  [Abstract!Next]_AbstractVars
  <1>1. Published' = Published /\ Published[p] = None
    BY DEF Published
  <1>2. chunks'[p] \in Abstract!Rows
    BY DEF Inv, TypeOK, Rows, Index, Abstract!Rows, Abstract!Index
  <1>3. chunks' = [chunks EXCEPT ![p] = chunks'[p]]
    BY DEF Inv, TypeOK
  <1> QED
    BY <1>1, <1>2, <1>3 DEF Abstract!Next, Abstract!Rewrite

\* A clean call claims what the rows of its path hold.
LEMMA Publication ==
    ASSUME Inv, NEW c \in Calls, MarkDone(c, TRUE), clean[c]
    PROVE  Abstract!Next
  <1> DEFINE p == path[c]
  <1>1. p \in Paths /\ hash[c] \in Versions
    BY DEF Inv, CallsInOrder, MarkDone
  <1>2. chunks[p] = Complete(hash[c]) /\ jobs[p].status # "done"
    BY DEF Inv, CleanRows, CleanIsAlone, MarkDone, Writing
  <1>3. jobs' = [jobs EXCEPT ![p] = Job("done", hash[c])] /\ suspect' = [suspect EXCEPT ![p] = FALSE]
    BY DEF MarkDone, UpsertIngestJob
  <1>4. Published[p] = None /\ Published' = [Published EXCEPT ![p] = hash[c]]
    BY <1>1, <1>2, <1>3 DEF Inv, TypeOK, Published, Job
  <1>5. chunks' = [chunks EXCEPT ![p] = Abstract!Complete(hash[c])]
    BY <1>1, <1>2 DEF Inv, TypeOK, MarkDone, Complete, Index, Abstract!Complete, Abstract!Index
  <1> QED
    BY <1>1, <1>4, <1>5 DEF Abstract!Next, Abstract!Publish

LEMMA MarkingRefines ==
    ASSUME Inv, Inv', NEW c \in Calls, NEW applied \in BOOLEAN,
           \/ MarkPending(c, applied)
           \/ MarkError(c, applied)
           \/ MarkDone(c, applied)
    PROVE  [Abstract!Next]_AbstractVars
  <1>1. path[c] \in Paths
    BY DEF Inv, CallsInOrder, MarkPending, MarkError, MarkDone
  <1>2. CASE MarkPending(c, applied)
    <2>1. jobs'[path[c]].status = "done" => suspect'[path[c]]
      BY <1>1, <1>2 DEF Inv, TypeOK, MarkPending, UpsertIngestJob, Job
    <2> QED
      BY <1>1, <1>2, <2>1, Withdrawal DEF Inv, TypeOK, MarkPending, UpsertIngestJob
  <1>3. CASE MarkError(c, applied)
    <2>1. ~applied => UNCHANGED jobs
      BY <1>3 DEF MarkError, UpsertIngestJob
    <2>2. applied => jobs'[path[c]].status # "done"
      BY <1>1, <1>3 DEF Inv, TypeOK, MarkError, UpsertIngestJob, Job
    <2>3. CASE ~applied
      BY <1>3, <2>1, <2>3, Stutter DEF MarkError
    <2>4. CASE applied
      BY <1>1, <1>3, <2>2, <2>4, Withdrawal DEF Inv, TypeOK, MarkError, UpsertIngestJob
    <2> QED
      BY <2>3, <2>4
  <1>4. CASE MarkDone(c, applied)
    <2>1. CASE ~applied
      <3>1. UNCHANGED <<jobs, chunks, suspect>>
        BY <1>4, <2>1 DEF Inv, TypeOK, MarkDone, UpsertIngestJob
      <3> QED
        BY <3>1, Stutter
    <2>2. CASE applied /\ clean[c]
      BY <1>4, <2>2, Publication
    <2>3. CASE applied /\ ~clean[c]
      <3>1. suspect'[path[c]]
        BY <1>1, <1>4, <2>3 DEF Inv, TypeOK, MarkDone
      <3> QED
        BY <1>1, <1>4, <3>1, Withdrawal DEF Inv, TypeOK, MarkDone, UpsertIngestJob
    <2> QED
      BY <2>1, <2>2, <2>3
  <1> QED
    BY <1>2, <1>3, <1>4

LEMMA WritingRefines ==
    ASSUME Inv, Inv', NEW c \in Calls,
           \/ \E applied \in BOOLEAN : DeleteOld(c, applied)
           \/ StoreChunk(c)
           \/ \E written \in BOOLEAN : StoreFails(c, written)
    PROVE  [Abstract!Next]_AbstractVars
  <1> USE DEF DeleteOld, DeleteDocChunksBySource, StoreChunk, StoreFails, UpsertDocChunk, history
  <1>1. path[c] \in Paths
    BY DEF Inv, CallsInOrder
  <1>2. jobs[path[c]].status = "done" => suspect[path[c]]
    BY DEF Inv, CleanIsAlone, UncleanIsSuspect, Writing
  <1>3. UNCHANGED <<jobs, suspect>>
    OBVIOUS
  <1>4. \A q \in Paths \ {path[c]} : chunks'[q] = chunks[q]
    BY DEF Inv, TypeOK
  <1> QED
    BY <1>1, <1>2, <1>3, <1>4, Rewriting

LEMMA NextRefines == Inv /\ Inv' /\ [Next]_vars => [Abstract!Next]_AbstractVars
  <1> SUFFICES ASSUME Inv, Inv', [Next]_vars PROVE [Abstract!Next]_AbstractVars
    OBVIOUS
  <1>1. ASSUME NEW c \in Calls, NEW p \in Paths, Begin(c, p)
        PROVE  UNCHANGED AbstractVars
    BY <1>1, Stutter DEF Begin, store, history
  <1>2. ASSUME NEW c \in Calls, Step(c)
        PROVE  [Abstract!Next]_AbstractVars
    <2>1. CASE SkipUnchanged(c) \/ Proceed(c, FALSE) \/ Embed(c)
      BY <2>1, Stutter DEF SkipUnchanged, Proceed, Embed, store, history
    <2>2. ASSUME NEW type \in SourceTypes, Extract(c, type)
          PROVE  UNCHANGED AbstractVars
      BY <2>2, Stutter DEF Extract, store
    <2> QED
      BY <1>2, <2>1, <2>2, MarkingRefines, WritingRefines DEF Step
  <1>3. ASSUME NEW c \in Calls, Fault(c)
        PROVE  [Abstract!Next]_AbstractVars
    <2>1. CASE Proceed(c, TRUE) \/ ExtractFails(c) \/ EmbedFails(c)
      BY <2>1, Stutter DEF Proceed, ExtractFails, EmbedFails, store, history
    <2> QED
      BY <1>3, <2>1, MarkingRefines, WritingRefines DEF Fault
  <1>4. CASE (\E p \in Paths : EditFile(p)) \/ Crash
    BY <1>4, Stutter DEF EditFile, Crash, store, history
  <1>5. CASE UNCHANGED vars
    BY <1>5, Stutter DEF vars
  <1> QED
    BY <1>1, <1>2, <1>3, <1>4, <1>5 DEF Next, Smooth

\* Ingestion implements DocIndex: a claim stands only over complete rows, and
\* is taken back before a row is touched, along every interleaving.
THEOREM Refinement == Spec => ImplementsIndex
  <1>1. [Abstract!Next]_AbstractVars <=> [Abstract!Next]_(Abstract!vars)
    BY DEF AbstractVars, Abstract!vars
  <1> QED
    BY <1>1, AbstractInit, Invariance, NextRefines, PTL DEF Spec, ImplementsIndex, Abstract!Spec
=============================================================================
