------------------------- MODULE TextVectorsProofs -------------------------
(***************************************************************************)
(* Proofs about TextVectors and the call of EmbedTexts in it, for texts of *)
(* any length, windows of any size and batches of any size: the type       *)
(* invariant, VectorsAligned, CancelStops, DoneHasVectors, PassagesWhole,  *)
(* RubyNodesNest, RubyExact, ClojureExact and ClojureFormsApart.           *)
(*                                                                         *)
(* What is returned at the end is built up batch by batch: Aligned says it *)
(* of the batches answered so far.  What a scanner finds is built up line  *)
(* by line or token by token: RubySound and ClojureSound say it of what    *)
(* was read so far, and RecursionLemmas carries it to the end of the text. *)
(***************************************************************************)
EXTENDS TextVectors, RecursionLemmas

-----------------------------------------------------------------------------
\* The invariant of a call of EmbedTexts.

Asking == {"send", "inflight", "doomed", "waiting", "stopping"}

\* How many texts have been answered.
Answered == IF embed = "done" THEN count ELSE from

\* There is a batch to ask for as long as the call is not over, and one more
\* attempt for it.
InBatch ==
    /\ embed = "idle" => count = 0 /\ attempt = 0 /\ result = <<>> /\ lacking = {}
    /\ embed # "idle" => provider \in Providers
    /\ embed \in Asking => from < count
    /\ attempt < Attempts

\* Of the texts answered so far each has its own vector or lacks one.
Aligned ==
    /\ lacking \subseteq 1 .. Answered
    /\ embed \in {"failed", "panicked"} => result = <<>>
    /\ embed \notin {"failed", "panicked"} =>
          /\ DOMAIN result = 1 .. count
          /\ \A i \in 1 .. Answered : result[i] = IF i \in lacking THEN Nil ELSE i

\* An attempt that begins too late is the last.
Stopping ==
    /\ embed = "doomed" => cancelled
    /\ late = 0 \/ (late = 1 /\ cancelled /\ embed \in {"doomed", "stopping", "failed"})

EmbedInv ==
    /\ EmbedTypeOK
    /\ InBatch
    /\ Aligned
    /\ Stopping

\* The rows are those of the first pieces, none of which lacks a vector.
RowsInOrder ==
    /\ rows \in Seq(1 .. count)
    /\ \A i \in DOMAIN rows : rows[i] = i /\ i \notin lacking
    /\ embed # "done" => rows = <<>>

\* The service and its call of EmbedTexts go on together.
InStep ==
    /\ stage = "written" => embed = "idle"
    /\ stage = "embedding" => embed # "idle"
    /\ stage = "pending" => source # "question"
    /\ source # "question" =>
          /\ stage = "embedding" => Len(rows) < count
          /\ stage = "done" => Len(rows) = count /\ embed \in {"idle", "done"}
          /\ stage = "pending" =>
                \/ embed = "done" /\ Len(rows) + 1 \in lacking
                \/ embed = "panicked" /\ rows = <<>>

Inv ==
    /\ EmbedInv
    /\ source \in TextSources
    /\ text \in Seq(Symbols)
    /\ stage \in Stages
    /\ RowsInOrder
    /\ InStep

-----------------------------------------------------------------------------
\* The steps of EmbedTexts.

LEMMA Batches ==
    ASSUME EmbedTypeOK, InBatch
    PROVE  /\ BatchSize \in Nat \ {0} /\ Attempts \in 1 .. MaxRetries
           /\ embed \in Asking => BatchEnd \in from + 1 .. count
  <1>1. BatchSize \in Nat \ {0} /\ Attempts \in 1 .. MaxRetries
    BY EmbedAssumption DEF BatchSize, Attempts
  <1>2. count \in Nat /\ from \in 0 .. count
    BY DEF EmbedTypeOK
  <1>3. ASSUME embed \in Asking PROVE BatchEnd \in from + 1 .. count
    <2>1. from < count
      BY <1>3 DEF InBatch
    <2> HIDE DEF BatchSize
    <2> QED
      BY <1>1, <1>2, <2>1 DEF BatchEnd
  <1> QED
    BY <1>1, <1>3

\* The steps that leave the texts, the answers and the attempts alone.
LEMMA QuietStep ==
    ASSUME EmbedInv, UNCHANGED <<provider, count, from, result, lacking>>,
           attempt' \in 0 .. Attempts - 1, embed' \in Asking, embed \in Asking,
           cancelled' \in BOOLEAN, Stopping', late' \in Nat
    PROVE  EmbedInv'
  <1>b. Attempts \in 1 .. MaxRetries /\ Attempts' = Attempts
    BY Batches DEF EmbedInv, Attempts
  <1>e. embed' \in EmbedLocations /\ embed' \notin {"idle", "done", "failed", "panicked"}
    BY DEF Asking, EmbedLocations
  <1>f. embed \notin {"idle", "done", "failed", "panicked"}
    BY DEF Asking
  <1>1. EmbedTypeOK'
    <2>1. attempt' \in 0 .. MaxRetries - 1
      BY <1>b, EmbedAssumption
    <2> QED
      BY <1>e, <2>1 DEF EmbedInv, EmbedTypeOK
  <1>2. InBatch'
    <2>1. attempt' < Attempts
      BY <1>b, EmbedAssumption
    <2> QED
      BY <1>b, <1>e, <1>f, <2>1 DEF EmbedInv, InBatch
  <1>3. Aligned'
    <2>1. Answered = from /\ Answered' = from
      BY <1>e, <1>f DEF Answered
    <2> QED
      BY <1>e, <1>f, <2>1 DEF EmbedInv, Aligned
  <1> QED
    BY <1>1, <1>2, <1>3 DEF EmbedInv

\* The steps with which the call fails: nothing is returned.
LEMMA FailingStep ==
    ASSUME EmbedInv, UNCHANGED <<provider, count, from, attempt, cancelled, late, lacking>>,
           embed \in Asking, embed' \in {"failed", "panicked"}, result' = <<>>,
           embed' = "panicked" => embed = "inflight"
    PROVE  EmbedInv'
  <1>f. embed \notin {"idle", "done", "failed", "panicked"}
    BY DEF Asking
  <1>1. EmbedTypeOK'
    BY DEF EmbedInv, EmbedTypeOK, EmbedLocations
  <1>2. InBatch'
    BY <1>f DEF EmbedInv, InBatch, Attempts, Asking
  <1>3. Aligned'
    BY <1>f DEF EmbedInv, Aligned, Answered
  <1>4. Stopping'
    BY <1>f DEF EmbedInv, Stopping
  <1> QED
    BY <1>1, <1>2, <1>3, <1>4 DEF EmbedInv

LEMMA CallInv ==
    ASSUME EmbedInv, NEW p \in Providers, NEW n \in Nat \ {0}, Call(p, n)
    PROVE  EmbedInv' /\ embed' = "send" /\ count' = n
  <1>u. /\ embed = "idle" /\ provider' = p /\ count' = n /\ embed' = "send"
        /\ result' = [i \in 1 .. n |-> Nil]
        /\ UNCHANGED <<from, attempt, cancelled, late, lacking>>
    BY DEF Call
  <1>z. count = 0 /\ from = 0 /\ lacking = {} /\ attempt = 0
    BY <1>u DEF EmbedInv, EmbedTypeOK, InBatch
  <1>d. DOMAIN result' = 1 .. n /\ \A i \in 1 .. n : result'[i] = Nil
    BY <1>u
  <1>1. EmbedTypeOK'
    <2>1. result' \in [1 .. n -> 0 .. n]
      BY <1>u DEF Nil
    <2> QED
      BY <1>u, <1>z, <1>d, <2>1, EmbedAssumption DEF EmbedInv, EmbedTypeOK, EmbedLocations
  <1>2. InBatch'
    <2>1. attempt' < Attempts'
      BY <1>u, <1>z, EmbedAssumption DEF Attempts
    <2> QED
      BY <1>u, <1>z, <2>1 DEF InBatch, Asking
  <1>3. Aligned'
    <2>1. Answered' = 0
      BY <1>u, <1>z DEF Answered
    <2> QED
      BY <1>u, <1>z, <1>d, <2>1 DEF Aligned
  <1>4. Stopping'
    BY <1>u DEF EmbedInv, Stopping
  <1> QED
    BY <1>u, <1>1, <1>2, <1>3, <1>4 DEF EmbedInv

\* A batch has been answered, and its vectors are in their places.
LEMMA AnsweringStep ==
    ASSUME EmbedInv, embed = "inflight", UNCHANGED <<provider, count, cancelled, late>>,
           NextBatch, NEW vecs, result' = Copy(vecs),
           DOMAIN vecs = 1 .. BatchEnd - from,
           lacking' \subseteq lacking \cup (from + 1 .. BatchEnd), lacking \subseteq lacking',
           \A i \in from + 1 .. BatchEnd :
               vecs[i - from] = IF i \in lacking' THEN Nil ELSE i
    PROVE  EmbedInv'
  <1>b. /\ BatchEnd \in from + 1 .. count /\ Attempts \in 1 .. MaxRetries
        /\ count \in Nat /\ from \in Nat /\ from <= count /\ from < BatchEnd
    <2>1. BatchEnd \in from + 1 .. count /\ Attempts \in 1 .. MaxRetries
      BY Batches DEF EmbedInv, Asking
    <2> QED
      BY <2>1 DEF EmbedInv, EmbedTypeOK
  <1>n. \/ BatchEnd = count /\ embed' = "done" /\ UNCHANGED <<from, attempt>>
        \/ BatchEnd < count /\ embed' = "send" /\ from' = BatchEnd /\ attempt' = 0
    BY <1>b DEF NextBatch
  <1> DEFINE to == BatchEnd
  <1>a. Answered = from /\ Answered' = to
    BY <1>n DEF Answered
  <1> HIDE DEF to
  <1>t. to \in from + 1 .. count
    BY <1>b DEF to
  <1>l. lacking' \subseteq 1 .. to /\ \A i \in 1 .. from : i \in lacking' <=> i \in lacking
    <2>1. lacking \subseteq 1 .. from
      BY <1>a DEF EmbedInv, Aligned
    <2>2. lacking' \subseteq lacking \cup (from + 1 .. to)
      BY DEF to
    <2> QED
      BY <1>b, <1>t, <2>1, <2>2
  <1>r. result' = [i \in 1 .. count |-> IF i - from \in 1 .. to - from
                                        THEN vecs[i - from] ELSE result[i]]
    BY DEF Copy, to
  <1>o. \A i \in 1 .. from : result[i] = IF i \in lacking THEN Nil ELSE i
    BY <1>a DEF EmbedInv, Aligned
  <1>v. \A i \in 1 .. to : result'[i] = IF i \in lacking' THEN Nil ELSE i
    <2> SUFFICES ASSUME NEW i \in 1 .. to PROVE result'[i] = IF i \in lacking' THEN Nil ELSE i
      OBVIOUS
    <2>1. i \in 1 .. count
      BY <1>b, <1>t
    <2>2. CASE i \in 1 .. from
      <3>1. i - from \notin 1 .. to - from
        BY <1>b, <1>t, <2>2
      <3>2. result'[i] = result[i]
        BY <1>r, <2>1, <3>1
      <3> QED
        BY <1>o, <1>l, <2>2, <3>2
    <2>3. CASE i \in from + 1 .. to
      <3>1. i - from \in 1 .. to - from
        BY <1>b, <1>t, <2>3
      <3>2. result'[i] = vecs[i - from]
        BY <1>r, <2>1, <3>1
      <3> QED
        BY <2>3, <3>2 DEF to
    <2> QED
      BY <1>b, <1>t, <2>2, <2>3
  <1>1. EmbedTypeOK'
    <2>1. \A i \in 1 .. count : result'[i] \in 0 .. count
      <3> SUFFICES ASSUME NEW i \in 1 .. count PROVE result'[i] \in 0 .. count
        OBVIOUS
      <3>1. CASE i \in 1 .. to
        BY <1>v, <1>b, <1>t, <3>1 DEF Nil
      <3>2. CASE i \notin 1 .. to
        <4>1. i - from \notin 1 .. to - from
          BY <1>b, <1>t, <3>2
        <4>2. result'[i] = result[i]
          BY <1>r, <4>1
        <4>3. DOMAIN result = 1 .. count /\ result \in [DOMAIN result -> 0 .. count]
          BY DEF EmbedInv, Aligned, EmbedTypeOK
        <4> QED
          BY <4>2, <4>3
      <3> QED
        BY <3>1, <3>2
    <2>2. result' = [i \in 1 .. count |-> result'[i]]
      BY <1>r
    <2>3. result' \in [1 .. count -> 0 .. count] /\ DOMAIN result' = 1 .. count
      BY <2>1, <2>2
    <2>4. from' \in 0 .. count /\ attempt' \in 0 .. MaxRetries - 1
      <3>1. attempt \in 0 .. MaxRetries - 1 /\ from \in 0 .. count /\ 0 \in 0 .. MaxRetries - 1
        BY EmbedAssumption DEF EmbedInv, EmbedTypeOK
      <3> QED
        BY <1>n, <1>b, <3>1
    <2>5. lacking' \subseteq 1 .. count
      BY <1>l, <1>t, <1>b
    <2> QED
      BY <1>n, <2>3, <2>4, <2>5 DEF EmbedInv, EmbedTypeOK, EmbedLocations
  <1>2. InBatch'
    BY <1>n, <1>b DEF EmbedInv, InBatch, Asking, Attempts
  <1>3. Aligned'
    BY <1>a, <1>n, <1>l, <1>r, <1>v DEF EmbedInv, Aligned
  <1>4. Stopping'
    BY <1>n DEF EmbedInv, Stopping
  <1> QED
    BY <1>1, <1>2, <1>3, <1>4 DEF EmbedInv

LEMMA SendInv == ASSUME EmbedInv, Send PROVE EmbedInv'
  <1>u. /\ embed = "send" /\ UNCHANGED <<provider, count, from, attempt, result, cancelled, lacking>>
        /\ embed' = (IF cancelled THEN "doomed" ELSE "inflight")
        /\ late' = IF cancelled THEN late + 1 ELSE late
    BY DEF Send
  <1>1. late = 0 /\ cancelled \in BOOLEAN
    BY <1>u DEF EmbedInv, Stopping, EmbedTypeOK
  <1>2. Stopping' /\ late' \in Nat
    BY <1>u, <1>1 DEF Stopping
  <1>3. attempt' \in 0 .. Attempts - 1
    BY <1>u, Batches DEF EmbedInv, EmbedTypeOK, InBatch
  <1>4. embed \in Asking /\ embed' \in Asking
    BY <1>u DEF Asking
  <1> QED
    BY <1>u, <1>1, <1>2, <1>3, <1>4, QuietStep

LEMMA VoyageAnswersInv == ASSUME EmbedInv, NEW answer, VoyageAnswers(answer) PROVE EmbedInv'
  <1> DEFINE lost == {i \in (from + 1) .. BatchEnd : ~Given(answer, i - from)}
             vecs == ByIndex(answer)
  <1>u. /\ embed = "inflight" /\ result' = Copy(vecs)
        /\ lacking' = lacking \cup lost /\ NextBatch
        /\ UNCHANGED <<provider, count, cancelled, late>>
    BY DEF VoyageAnswers
  <1>b. /\ BatchEnd \in from + 1 .. count /\ from \in Nat /\ count \in Nat
    BY <1>u, Batches DEF EmbedInv, EmbedTypeOK, Asking
  <1>l. \A i \in from + 1 .. BatchEnd : i \notin lacking
    BY <1>u, <1>b DEF EmbedInv, Aligned, Answered
  <1>v. DOMAIN vecs = 1 .. BatchEnd - from
    BY DEF ByIndex
  <1>1. ASSUME NEW i \in from + 1 .. BatchEnd
        PROVE  vecs[i - from] = IF i \in lacking' THEN Nil ELSE i
    <2>1. i - from \in 1 .. BatchEnd - from /\ from + (i - from) = i
      BY <1>b
    <2>2. vecs[i - from] = IF Given(answer, i - from) THEN from + (i - from) ELSE Nil
      BY <2>1 DEF ByIndex
    <2>3. i \in lacking' <=> ~Given(answer, i - from)
      BY <1>u, <1>l
    <2> QED
      BY <2>1, <2>2, <2>3
  <1>2. lacking' \subseteq lacking \cup (from + 1 .. BatchEnd) /\ lacking \subseteq lacking'
    BY <1>u
  <1> HIDE DEF vecs, lost
  <1> QED
    BY <1>u, <1>v, <1>1, <1>2, AnsweringStep

LEMMA RefusedInv == ASSUME EmbedInv, Refused PROVE EmbedInv'
  BY FailingStep DEF Refused, Asking

LEMMA VoyagePanicsInv == ASSUME EmbedInv, NEW answer, VoyagePanics(answer) PROVE EmbedInv'
  BY FailingStep DEF VoyagePanics, Asking

LEMMA OllamaAnswersInv == ASSUME EmbedInv, NEW answer, OllamaAnswers(answer),
                                 NEW n \in Nat, answer \in [1 .. n -> BOOLEAN]
                          PROVE  EmbedInv'
  <1>u. /\ embed = "inflight" /\ UNCHANGED <<provider, count, cancelled, late>>
    BY DEF OllamaAnswers
  <1>b. /\ BatchEnd \in from + 1 .. count /\ from \in Nat /\ count \in Nat
    BY <1>u, Batches DEF EmbedInv, EmbedTypeOK, Asking
  <1>n. DOMAIN answer = 1 .. n /\ Len(answer) = n
    OBVIOUS
  <1>1. CASE n = BatchEnd - from
    <2> DEFINE lost == {i \in (from + 1) .. BatchEnd : ~answer[i - from]}
               vecs == [j \in DOMAIN answer |-> IF answer[j] THEN from + j ELSE Nil]
    <2>1. result' = Copy(vecs) /\ lacking' = lacking \cup lost /\ NextBatch
      BY <1>1, <1>n DEF OllamaAnswers
    <2>2. \A i \in from + 1 .. BatchEnd : i \notin lacking
      BY <1>u, <1>b DEF EmbedInv, Aligned, Answered
    <2>3. DOMAIN vecs = 1 .. BatchEnd - from
      BY <1>1, <1>n
    <2>4. ASSUME NEW i \in from + 1 .. BatchEnd
          PROVE  vecs[i - from] = IF i \in lacking' THEN Nil ELSE i
      <3>1. i - from \in DOMAIN answer /\ from + (i - from) = i
        BY <1>1, <1>b, <1>n
      <3>2. vecs[i - from] = IF answer[i - from] THEN i ELSE Nil
        BY <3>1
      <3>3. i \in lacking' <=> ~answer[i - from]
        BY <2>1, <2>2
      <3> QED
        BY <3>2, <3>3
    <2>5. lacking' \subseteq lacking \cup (from + 1 .. BatchEnd) /\ lacking \subseteq lacking'
      BY <2>1
    <2> HIDE DEF vecs, lost
    <2> QED
      BY <1>u, <2>1, <2>3, <2>4, <2>5, AnsweringStep
  <1>2. CASE n # BatchEnd - from
    <2>1. result' = <<>> /\ embed' = "failed" /\ UNCHANGED <<from, attempt, lacking>>
      BY <1>2, <1>n DEF OllamaAnswers
    <2> QED
      BY <1>u, <2>1, FailingStep DEF Asking
  <1> QED
    BY <1>1, <1>2

LEMMA FailsInv == ASSUME EmbedInv, Fails PROVE EmbedInv'
  <1>u. embed \in {"inflight", "doomed"} /\ UNCHANGED <<provider, count, from, cancelled, late, lacking>>
    BY DEF Fails
  <1>1. CASE attempt + 1 = Attempts
    <2>1. embed' = "failed" /\ result' = <<>> /\ attempt' = attempt
      BY <1>1 DEF Fails
    <2> QED
      BY <1>u, <2>1, FailingStep DEF Asking
  <1>2. CASE attempt + 1 # Attempts
    <2>1. /\ embed' = (IF cancelled THEN "stopping" ELSE "waiting")
          /\ result' = result /\ attempt' = attempt + 1
      BY <1>2 DEF Fails
    <2>2. attempt' \in 0 .. Attempts - 1
      BY <1>2, <2>1, Batches, EmbedAssumption DEF EmbedInv, EmbedTypeOK, InBatch
    <2>3. Stopping'
      BY <1>u, <2>1 DEF EmbedInv, Stopping
    <2>4. embed \in Asking /\ embed' \in Asking /\ cancelled \in BOOLEAN /\ late \in Nat
      BY <1>u, <2>1 DEF EmbedInv, EmbedTypeOK, Asking
    <2> QED
      BY <1>u, <2>1, <2>2, <2>3, <2>4, QuietStep
  <1> QED
    BY <1>1, <1>2

LEMMA RetryInv == ASSUME EmbedInv, Retry PROVE EmbedInv'
  <1>u. /\ embed = "waiting" /\ embed' = "send"
        /\ UNCHANGED <<provider, count, from, attempt, result, cancelled, late, lacking>>
    BY DEF Retry
  <1>1. attempt' \in 0 .. Attempts - 1
    BY <1>u, Batches DEF EmbedInv, EmbedTypeOK, InBatch
  <1>2. Stopping'
    BY <1>u DEF EmbedInv, Stopping
  <1>3. embed \in Asking /\ embed' \in Asking /\ cancelled' \in BOOLEAN /\ late' \in Nat
    BY <1>u DEF EmbedInv, EmbedTypeOK, Asking
  <1> QED
    BY <1>u, <1>1, <1>2, <1>3, QuietStep

LEMMA StopInv == ASSUME EmbedInv, Stop PROVE EmbedInv'
  BY FailingStep DEF Stop, Asking

LEMMA CancelInv == ASSUME EmbedInv, Cancel PROVE EmbedInv'
  <1>u. /\ cancelled' = TRUE
        /\ UNCHANGED <<provider, count, embed, from, attempt, result, late, lacking>>
    BY DEF Cancel
  <1>1. EmbedTypeOK'
    BY <1>u DEF EmbedInv, EmbedTypeOK
  <1>2. InBatch'
    BY <1>u DEF EmbedInv, InBatch, Attempts
  <1>3. Aligned'
    BY <1>u DEF EmbedInv, Aligned, Answered
  <1>4. Stopping'
    BY <1>u DEF EmbedInv, Stopping
  <1> QED
    BY <1>1, <1>2, <1>3, <1>4 DEF EmbedInv

LEMMA ProgressInv ==
    ASSUME EmbedInv, Progress
    PROVE  /\ EmbedInv' /\ UNCHANGED <<provider, count>>
           /\ embed \in Asking /\ embed' # "idle"
  <1>b. BatchEnd - from \in Int
    BY Batches DEF EmbedInv, EmbedTypeOK, BatchEnd
  <1>1. EmbedInv'
    <2>1. CASE \E n \in 0 .. (BatchEnd - from + 1) : \E answer \in [1 .. n -> BOOLEAN] :
                  OllamaAnswers(answer)
      <3>1. PICK n \in 0 .. (BatchEnd - from + 1) :
                \E answer \in [1 .. n -> BOOLEAN] : OllamaAnswers(answer)
        BY <2>1
      <3>2. PICK answer \in [1 .. n -> BOOLEAN] : OllamaAnswers(answer)
        BY <3>1
      <3>3. n \in Nat
        BY <1>b
      <3> QED
        BY <3>2, <3>3, OllamaAnswersInv
    <2> QED
      BY <2>1, SendInv, VoyageAnswersInv, VoyagePanicsInv, RefusedInv, FailsInv, RetryInv, StopInv
         DEF Progress
  <1>2. UNCHANGED <<provider, count>> /\ embed \in Asking /\ embed' # "idle"
    BY DEF Progress, Send, VoyageAnswers, VoyagePanics, OllamaAnswers, NextBatch, Refused, Fails,
           Retry, Stop, Asking
  <1> QED
    BY <1>1, <1>2

LEMMA SameEmbedInv == ASSUME EmbedInv, UNCHANGED embedVars PROVE EmbedInv'
  BY DEF EmbedInv, EmbedTypeOK, InBatch, Attempts, Aligned, Answered, Stopping, embedVars

-----------------------------------------------------------------------------
\* The scanner of Ruby: what it carries from line to line.

RubyLines == Ruby!RegularLines \cup Ruby!IrregularLines
RubyFrames == [kind : {"class", "module", "method"}, qualified : Seq(Nat), start : Nat, depth : Nat]
RubyNodes == [type : {"class", "module", "function"}, qualified : Seq(Nat), first : Nat, last : Nat]
RubyStates == [stack : Seq(RubyFrames), depth : Nat, nodes : Seq(RubyNodes)]

LEMMA RubyNames ==
    ASSUME NEW stack \in Seq(RubyFrames) PROVE Ruby!CurrentClass(stack) \in Seq(Nat)
  <1> DEFINE within == {k \in DOMAIN stack : stack[k].kind \in Ruby!Containers}
  <1>1. CASE within = {}
    BY <1>1 DEF Ruby!CurrentClass
  <1>2. CASE within # {}
    <2>1. Len(stack) \in Nat /\ within \subseteq 0 .. Len(stack) /\ within \subseteq DOMAIN stack
      OBVIOUS
    <2>2. Ruby!Max(within) = Max(within)
      BY DEF Max, Ruby!Max
    <2>3. Ruby!CurrentClass(stack) = stack[Max(within)].qualified
      BY <1>2, <2>2 DEF Ruby!CurrentClass
    <2> HIDE DEF within
    <2>4. Max(within) \in within
      BY <1>2, <2>1, GreatestOf
    <2>5. stack[Max(within)] \in RubyFrames
      BY <2>1, <2>4
    <2> QED
      BY <2>3, <2>5 DEF RubyFrames
  <1> QED
    BY <1>1, <1>2

LEMMA RubyClose ==
    ASSUME NEW s \in RubyStates, NEW i \in Nat, s.stack # <<>>
    PROVE  /\ Ruby!Last(s.stack) \in RubyFrames
           /\ Ruby!CloseFrame(s, i) \in RubyStates
  <1>1. Ruby!Last(s.stack) \in RubyFrames /\ Ruby!Front(s.stack) \in Seq(RubyFrames)
    <2>1. s.stack \in Seq(RubyFrames) /\ Len(s.stack) \in Nat \ {0}
      BY DEF RubyStates
    <2> QED
      BY <2>1 DEF Ruby!Last, Ruby!Front
  <1>2. Ruby!Node(Ruby!Last(s.stack), i) \in RubyNodes
    BY <1>1 DEF Ruby!Node, RubyNodes, RubyFrames
  <1>3. Append(s.nodes, Ruby!Node(Ruby!Last(s.stack), i)) \in Seq(RubyNodes)
    BY <1>2 DEF RubyStates
  <1> QED
    BY <1>1, <1>3 DEF Ruby!CloseFrame, RubyStates

LEMMA RubyRound ==
    ASSUME NEW s \in RubyStates, NEW line \in RubyLines, NEW i \in Nat
    PROVE  Ruby!ScanLine(s, line, i) \in RubyStates
  <1>s. s.stack \in Seq(RubyFrames) /\ s.depth \in Nat /\ s.nodes \in Seq(RubyNodes)
    BY DEF RubyStates
  <1>1. CASE line \in Ruby!Definers
    <2> DEFINE f == Ruby!Frame(s, line, i)
    <2>1. f \in RubyFrames
      <3>1. Append(Ruby!CurrentClass(s.stack), i) \in Seq(Nat)
        BY <1>s, RubyNames
      <3> QED
        BY <1>s, <3>1 DEF Ruby!Frame, RubyFrames, Ruby!Containers
    <2>2. Append(s.stack, f) \in Seq(RubyFrames)
      BY <1>s, <2>1
    <2>3. Ruby!ScanLine(s, line, i) = [s EXCEPT !.stack = Append(s.stack, f), !.depth = s.depth + 1]
      BY <1>1 DEF Ruby!ScanLine, Ruby!Definers, Ruby!Containers, RubyStates
    <2>4. \A q \in Seq(RubyFrames), d \in Nat : [s EXCEPT !.stack = q, !.depth = d] \in RubyStates
      BY DEF RubyStates
    <2> HIDE DEF f
    <2>5. s.depth + 1 \in Nat
      BY <1>s
    <2> QED
      BY <2>2, <2>3, <2>4, <2>5
  <1>2. CASE line = "end"
    <2>1. Ruby!ScanLine(s, line, i) = Ruby!End(s, i)
      BY <1>2 DEF Ruby!ScanLine, Ruby!Definers, Ruby!Containers
    <2> DEFINE closes == s.stack # <<>> /\ Ruby!Last(s.stack).depth = s.depth
               closed == IF closes THEN Ruby!CloseFrame(s, i) ELSE s
    <2>2. closed \in RubyStates
      BY RubyClose
    <2>3. Ruby!End(s, i) = [closed EXCEPT !.depth = IF @ > 0 THEN @ - 1 ELSE 0]
      BY DEF Ruby!End
    <2> HIDE DEF closed
    <2>4. \A d \in Nat : [closed EXCEPT !.depth = d] \in RubyStates
      BY <2>2 DEF RubyStates
    <2> DEFINE d == IF closed.depth > 0 THEN closed.depth - 1 ELSE 0
    <2>5. d \in Nat
      BY <2>2 DEF RubyStates
    <2>6. Ruby!ScanLine(s, line, i) = [closed EXCEPT !.depth = d]
      BY <2>1, <2>3
    <2> HIDE DEF d
    <2> QED
      BY <2>4, <2>5, <2>6
  <1>3. CASE line \notin Ruby!Definers /\ line # "end"
    <2>1. Ruby!ScanLine(s, line, i) = [s EXCEPT !.depth = @ + Ruby!Opens(line)]
      BY <1>3 DEF Ruby!ScanLine
    <2>2. Ruby!Opens(line) \in Nat
      BY DEF Ruby!Opens
    <2> QED
      BY <1>s, <2>1, <2>2 DEF RubyStates
  <1> QED
    BY <1>1, <1>2, <1>3

\* after[i] is what the scanner has after i lines.
RubyRun(after, lines) ==
    /\ after \in [0 .. Len(lines) -> RubyStates]
    /\ after[0] = Ruby!Scan
    /\ \A i \in 1 .. Len(lines) : after[i] = Ruby!ScanLine(after[i - 1], lines[i], i)
    /\ Ruby!Scanned(lines) = after[Len(lines)]

LEMMA RubyRuns == ASSUME NEW lines \in Seq(RubyLines) PROVE \E after : RubyRun(after, lines)
  <1> DEFINE N == Len(lines)
             G == [i \in 1 .. N |-> [s \in RubyStates |-> Ruby!ScanLine(s, lines[i], i)]]
             Round(f) == [i \in 0 .. N |->
                            IF i = 0 THEN Ruby!Scan ELSE Ruby!ScanLine(f[i - 1], lines[i], i)]
             after == CHOOSE f : f = Round(f)
  <1>1. N \in Nat /\ \A i \in 1 .. N : lines[i] \in RubyLines /\ i \in Nat
    OBVIOUS
  <1>2. G \in [1 .. N -> [RubyStates -> RubyStates]]
    BY <1>1, RubyRound
  <1>3. PICK f : Run(f, RubyStates, Ruby!Scan, N, G)
    <2>1. Ruby!Scan \in RubyStates
      BY DEF Ruby!Scan, RubyStates
    <2> HIDE DEF G, N
    <2> QED
      BY <1>1, <1>2, <2>1, LoopRuns
  <1>4. \A i \in 0 .. N : i = 0 \/ (i \in 1 .. N /\ i - 1 \in 0 .. N)
    BY <1>1
  <1>5. f = Round(f)
    BY <1>3, <1>4 DEF Run
  <1>6. after = Round(after)
    BY <1>5
  <1>7. Ruby!Scanned(lines) = after[N]
    BY DEF Ruby!Scanned
  <1> HIDE DEF after
  <1>8. DOMAIN after = 0 .. N /\ after[0] = Ruby!Scan
    BY <1>6, <1>1
  <1>c. \A i \in 1 .. N : i - 1 \in 0 .. N /\ i \in 0 .. N /\ i # 0 /\ i \in Nat
    BY <1>1
  <1> HIDE DEF N
  <1>9. ASSUME NEW i \in 1 .. N PROVE after[i] = Ruby!ScanLine(after[i - 1], lines[i], i)
    <2>1. after[i] = Round(after)[i]
      BY <1>6
    <2> HIDE <1>6
    <2> QED
      BY <2>1, <1>c
  <1>10. after \in [0 .. N -> RubyStates]
    <2> DEFINE A == {i \in 0 .. N : after[i] \in RubyStates}
    <2>1. 0 \in A
      BY <1>8, <1>1 DEF Ruby!Scan, RubyStates
    <2>2. ASSUME NEW i \in 1 .. N, i - 1 \in A PROVE i \in A
      BY <1>1, <1>9, <1>c, <2>2, RubyRound
    <2> HIDE DEF A
    <2>3. 0 .. N \subseteq A
      BY <1>1, <2>1, <2>2, Induct
    <2>4. after = [i \in 0 .. N |-> after[i]]
      BY <1>6
    <2> QED
      BY <2>3, <2>4 DEF A
  <1> QED
    BY <1>7, <1>8, <1>9, <1>10 DEF RubyRun, N

LEMMA RubyPieces ==
    ASSUME NEW lines \in Seq(RubyLines) PROVE Ruby!ParseRuby(lines) \in Seq(RubyNodes)
  <1>1. PICK after : RubyRun(after, lines)
    BY RubyRuns
  <1> DEFINE s == Ruby!Scanned(lines)
  <1>2. s \in RubyStates /\ Len(lines) \in Nat
    BY <1>1 DEF RubyRun
  <1> HIDE DEF s
  <1> DEFINE left == [k \in DOMAIN s.stack |-> Ruby!Node(Ruby!Reverse(s.stack)[k], Len(lines))]
  <1>3. s.stack \in Seq(RubyFrames) /\ s.nodes \in Seq(RubyNodes) /\ Len(s.stack) \in Nat
    BY <1>2 DEF RubyStates
  <1>4. ASSUME NEW k \in DOMAIN s.stack PROVE Ruby!Node(Ruby!Reverse(s.stack)[k], Len(lines)) \in RubyNodes
    <2>1. Ruby!Reverse(s.stack)[k] = s.stack[Len(s.stack) - k + 1] /\ k \in 1 .. Len(s.stack)
      BY <1>3 DEF Ruby!Reverse
    <2>2. Len(s.stack) - k + 1 \in 1 .. Len(s.stack)
      BY <1>3, <2>1
    <2>3. Ruby!Reverse(s.stack)[k] \in RubyFrames
      BY <1>3, <2>1, <2>2
    <2> QED
      BY <1>2, <2>3 DEF Ruby!Node, RubyNodes, RubyFrames
  <1>5. left \in Seq(RubyNodes)
    BY <1>3, <1>4
  <1>6. Ruby!ParseRuby(lines) = s.nodes \o left
    BY DEF Ruby!ParseRuby, s
  <1> HIDE DEF left
  <1> QED
    BY <1>3, <1>5, <1>6

-----------------------------------------------------------------------------
\* The nodes of Ruby: what they are at every line.

\* A name that is qualified by the lines of S.
Qualifies(S, name) ==
    /\ name \in Seq(Nat) \ {<<>>}
    /\ Ruby!ToSet(Ruby!Front(name)) = S

Contained(m, n) == n.first < m.first /\ m.last <= n.last

\* One in the other or apart.
Nested(m, n) == Contained(m, n) \/ Contained(n, m) \/ m.last < n.first \/ n.last < m.first

\* The lines of the classes and modules that are open in the first n frames.
Opened(p, n) == {p[j].start : j \in {j \in 1 .. n : p[j].kind \in Ruby!Containers}}

\* The lines of the classes and modules that a node lies in: those that are
\* still open, and those that are nodes already.
Around(m, p, q) ==
    {p[j].start : j \in {j \in DOMAIN p : p[j].kind \in Ruby!Containers /\ p[j].start < m.first}}
    \cup {q[j].first : j \in {j \in DOMAIN q : q[j].type \in Ruby!Containers /\ Contained(m, q[j])}}

\* The open frames p after i lines: in order, and named by those below.
FramesSound(p, i) ==
    /\ p \in Seq(RubyFrames)
    /\ \A k \in DOMAIN p : p[k].start \in 1 .. i
    /\ \A j, k \in DOMAIN p : j < k => p[j].start < p[k].start
    /\ \A k \in DOMAIN p :
          /\ Qualifies(Opened(p, k - 1), p[k].qualified)
          /\ Ruby!ToSet(p[k].qualified) = Opened(p, k - 1) \cup {p[k].start}

\* The nodes q after i lines: they nest, each is in a frame that began before
\* it or was there before the frame began, and is named by what it lies in.
NodesSound(q, p, i) ==
    /\ q \in Seq(RubyNodes)
    /\ \A k \in DOMAIN q : 1 <= q[k].first /\ q[k].first <= q[k].last /\ q[k].last <= i
    /\ \A j, k \in DOMAIN q : j # k => Nested(q[j], q[k])
    /\ \A k \in DOMAIN q, j \in DOMAIN p : p[j].start < q[k].first \/ q[k].last < p[j].start
    /\ \A k \in DOMAIN q : Qualifies(Around(q[k], p, q), q[k].qualified)

\* Each line that defines something has a frame or a node.
Covered(q, p, lines, i) ==
    {p[k].start : k \in DOMAIN p} \cup {q[k].first : k \in DOMAIN q}
        = {h \in 1 .. i : lines[h] \in Ruby!Definers}

RubySound(s, lines, i) ==
    /\ FramesSound(s.stack, i)
    /\ NodesSound(s.nodes, s.stack, i)
    /\ Covered(s.nodes, s.stack, lines, i)

LEMMA Qualified ==
    ASSUME NEW r \in Seq(Nat), NEW i \in Nat
    PROVE  /\ Qualifies(Ruby!ToSet(r), Append(r, i))
           /\ Ruby!ToSet(Append(r, i)) = Ruby!ToSet(r) \cup {i}
  <1> DEFINE n == Len(r)
             a == Append(r, i)
  <1>1. /\ a \in Seq(Nat) /\ Len(a) = n + 1 /\ n \in Nat /\ DOMAIN a = 1 .. n + 1 /\ DOMAIN r = 1 .. n
        /\ a[n + 1] = i /\ \A k \in 1 .. n : a[k] = r[k]
    OBVIOUS
  <1>2. Ruby!Front(a) = r
    <2>1. Ruby!Front(a) = SubSeq(a, 1, Len(a) - 1)
      BY <1>1 DEF Ruby!Front
    <2>2. SubSeq(a, 1, n) = r
      <3>1. SubSeq(a, 1, n) \in Seq(Nat) /\ Len(SubSeq(a, 1, n)) = n
            /\ \A k \in 1 .. n : SubSeq(a, 1, n)[k] = a[k]
        BY <1>1
      <3> HIDE DEF a
      <3> QED
        BY <1>1, <3>1, SeqEqual
    <2> QED
      BY <1>1, <2>1, <2>2
  <1>3. a # <<>>
    OBVIOUS
  <1> HIDE DEF a, n
  <1>4. Ruby!ToSet(a) = Ruby!ToSet(r) \cup {i}
    <2>1. Ruby!ToSet(a) = {a[k] : k \in 1 .. n + 1} /\ Ruby!ToSet(r) = {r[k] : k \in 1 .. n}
      BY <1>1 DEF Ruby!ToSet
    <2>2. \A k \in 1 .. n + 1 : k = n + 1 \/ k \in 1 .. n
      BY <1>1
    <2>3. n + 1 \in 1 .. n + 1 /\ \A k \in 1 .. n : k \in 1 .. n + 1
      BY <1>1
    <2> QED
      BY <1>1, <2>1, <2>2, <2>3
  <1> QED
    BY <1>1, <1>2, <1>3, <1>4 DEF Qualifies, a

\* The innermost class or module is named by itself and those around it.
LEMMA InnermostNamed ==
    ASSUME NEW i \in Nat, NEW p, FramesSound(p, i)
    PROVE  /\ Ruby!CurrentClass(p) \in Seq(Nat)
           /\ Ruby!ToSet(Ruby!CurrentClass(p)) = Opened(p, Len(p))
  <1> DEFINE within == {k \in DOMAIN p : p[k].kind \in Ruby!Containers}
  <1>1. p \in Seq(RubyFrames) /\ Len(p) \in Nat /\ DOMAIN p = 1 .. Len(p)
    BY DEF FramesSound
  <1>2. Ruby!CurrentClass(p) \in Seq(Nat)
    BY <1>1, RubyNames
  <1>3. CASE within = {}
    <2>1. Ruby!CurrentClass(p) = <<>>
      BY <1>3 DEF Ruby!CurrentClass
    <2>2. Ruby!ToSet(<<>>) = {}
      BY DEF Ruby!ToSet
    <2>3. Opened(p, Len(p)) = {}
      BY <1>1, <1>3 DEF Opened
    <2> QED
      BY <1>2, <2>1, <2>2, <2>3
  <1>4. CASE within # {}
    <2> DEFINE k == Max(within)
    <2>1. within \subseteq 0 .. Len(p)
      BY <1>1
    <2>2. Ruby!Max(within) = k
      BY DEF Max, Ruby!Max
    <2>3. Ruby!CurrentClass(p) = p[k].qualified
      BY <1>4, <2>2 DEF Ruby!CurrentClass
    <2> HIDE DEF within
    <2>4. k \in within /\ \A j \in within : j <= k
      BY <1>1, <1>4, <2>1, GreatestOf
    <2> HIDE DEF k
    <2>5. k \in DOMAIN p /\ p[k].kind \in Ruby!Containers
          /\ \A j \in DOMAIN p : p[j].kind \in Ruby!Containers => j <= k
      BY <2>4 DEF within
    <2>6. Ruby!ToSet(p[k].qualified) = Opened(p, k - 1) \cup {p[k].start}
      BY <2>5 DEF FramesSound
    <2>7. \A j \in 1 .. Len(p) : p[j].kind \in Ruby!Containers => j = k \/ j \in 1 .. k - 1
      BY <1>1, <2>5
    <2>8. \A j \in 1 .. k - 1 : j \in 1 .. Len(p)
      BY <1>1, <2>5
    <2>9. Opened(p, Len(p)) = Opened(p, k - 1) \cup {p[k].start}
      BY <1>1, <2>5, <2>7, <2>8 DEF Opened
    <2> QED
      BY <1>2, <2>3, <2>6, <2>9
  <1> QED
    BY <1>3, <1>4

\* A line that begins a frame.
LEMMA FrameOpens ==
    ASSUME NEW s \in RubyStates, NEW lines, NEW i \in Nat \ {0},
           RubySound(s, lines, i - 1), lines[i] \in Ruby!Definers, NEW f,
           f = Ruby!Frame(s, lines[i], i)
    PROVE  /\ FramesSound(Append(s.stack, f), i)
           /\ NodesSound(s.nodes, Append(s.stack, f), i)
           /\ Covered(s.nodes, Append(s.stack, f), lines, i)
  <1> DEFINE p == s.stack
             q == s.nodes
             n == Len(p)
             P == Append(p, f)
  <1>1. FramesSound(p, i - 1) /\ NodesSound(q, p, i - 1) /\ Covered(q, p, lines, i - 1)
    BY DEF RubySound
  <1>2. /\ f.start = i /\ f.qualified = Append(Ruby!CurrentClass(p), i) /\ f \in RubyFrames
    <2>1. Ruby!CurrentClass(p) \in Seq(Nat)
      BY RubyNames DEF RubyStates
    <2>2. Append(Ruby!CurrentClass(p), i) \in Seq(Nat)
      BY <2>1
    <2>3. s.depth + 1 \in Nat
      BY DEF RubyStates
    <2> QED
      BY <2>2, <2>3 DEF Ruby!Frame, RubyFrames, Ruby!Containers
  <1>3. Ruby!CurrentClass(p) \in Seq(Nat) /\ Ruby!ToSet(Ruby!CurrentClass(p)) = Opened(p, n)
    BY <1>1, InnermostNamed
  <1>4. /\ Qualifies(Opened(p, n), f.qualified)
        /\ Ruby!ToSet(f.qualified) = Opened(p, n) \cup {f.start}
    BY <1>2, <1>3, Qualified
  <1>5. p \in Seq(RubyFrames) /\ n \in Nat /\ DOMAIN p = 1 .. n /\ q \in Seq(RubyNodes)
    BY DEF RubyStates
  <1> HIDE DEF p, q
  <1>6. /\ P \in Seq(RubyFrames) /\ Len(P) = n + 1 /\ DOMAIN P = 1 .. n + 1
        /\ P[n + 1] = f /\ \A k \in 1 .. n : P[k] = p[k]
    BY <1>2, <1>5
  <1> HIDE DEF P, n
  <1>7. /\ \A k \in 1 .. n + 1 : k = n + 1 \/ k \in 1 .. n
        /\ n + 1 \in 1 .. n + 1 /\ n + 1 \notin 1 .. n
        /\ \A k \in 1 .. n : k \in 1 .. n + 1 /\ k - 1 \in Nat /\ k - 1 <= n
        /\ (n + 1) - 1 = n /\ \A k \in 1 .. n : k < n + 1 /\ ~(n + 1 < k)
    BY <1>5
  <1>8. /\ \A k \in 1 .. n : p[k].start \in 1 .. i /\ p[k].start < i
        /\ i \in 1 .. i
    <2>1. \A k \in 1 .. n : p[k].start \in 1 .. i - 1
      BY <1>1, <1>5 DEF FramesSound
    <2> QED
      BY <2>1
  <1>9. \A k \in Nat : k <= n => Opened(P, k) = Opened(p, k)
    <2>1. \A k \in Nat : k <= n => \A j \in 1 .. k : j \in 1 .. n
      BY <1>5
    <2> QED
      BY <1>6, <2>1 DEF Opened
  <1>10. FramesSound(P, i)
    <2>1. \A k \in DOMAIN P : P[k].start \in 1 .. i
      BY <1>2, <1>6, <1>7, <1>8
    <2>2. \A j, k \in DOMAIN P : j < k => P[j].start < P[k].start
      <3>1. \A j, k \in 1 .. n : j < k => p[j].start < p[k].start
        BY <1>1, <1>5 DEF FramesSound
      <3>2. ~(n + 1 < n + 1)
        BY <1>5
      <3> QED
        BY <1>2, <1>6, <1>7, <1>8, <3>1, <3>2
    <2>3. ASSUME NEW k \in DOMAIN P
          PROVE  /\ Qualifies(Opened(P, k - 1), P[k].qualified)
                 /\ Ruby!ToSet(P[k].qualified) = Opened(P, k - 1) \cup {P[k].start}
      <3>1. CASE k = n + 1
        <4>1. Opened(P, k - 1) = Opened(p, n)
          BY <1>5, <1>7, <1>9, <3>1
        <4> QED
          BY <1>4, <1>6, <3>1, <4>1
      <3>2. CASE k \in 1 .. n
        <4>1. Opened(P, k - 1) = Opened(p, k - 1)
          BY <1>7, <1>9, <3>2
        <4> QED
          BY <1>1, <1>5, <1>6, <3>2, <4>1 DEF FramesSound
      <3> QED
        BY <1>6, <1>7, <3>1, <3>2
    <2> QED
      BY <1>6, <2>1, <2>2, <2>3 DEF FramesSound
  <1>11. NodesSound(q, P, i)
    <2>1. \A k \in DOMAIN q : /\ 1 <= q[k].first /\ q[k].first <= q[k].last /\ q[k].last <= i
                              /\ q[k].last < i /\ ~(i < q[k].first)
      <3>1. \A k \in DOMAIN q : q[k] \in RubyNodes
        BY <1>5
      <3>2. \A k \in DOMAIN q : /\ 1 <= q[k].first /\ q[k].first <= q[k].last
                                /\ q[k].last <= i - 1 /\ q[k].first \in Nat /\ q[k].last \in Nat
        BY <1>1, <3>1 DEF NodesSound, RubyNodes
      <3> QED
        BY <3>2
    <2>2. \A k \in DOMAIN q, j \in DOMAIN P : P[j].start < q[k].first \/ q[k].last < P[j].start
      <3>1. \A k \in DOMAIN q, j \in 1 .. n : p[j].start < q[k].first \/ q[k].last < p[j].start
        BY <1>1, <1>5 DEF NodesSound
      <3> QED
        BY <1>2, <1>6, <1>7, <2>1, <3>1
    <2>3. ASSUME NEW k \in DOMAIN q PROVE Around(q[k], P, q) = Around(q[k], p, q)
      <3>1. \A j \in DOMAIN P : P[j].start < q[k].first => j \in 1 .. n
        BY <1>2, <1>6, <1>7, <2>1
      <3> QED
        BY <1>5, <1>6, <1>7, <3>1 DEF Around
    <2> QED
      BY <1>1, <2>1, <2>2, <2>3 DEF NodesSound
  <1>12. Covered(q, P, lines, i)
    <2>1. {P[k].start : k \in DOMAIN P} = {p[k].start : k \in DOMAIN p} \cup {i}
      BY <1>2, <1>5, <1>6, <1>7
    <2>2. \A h \in 1 .. i : h = i \/ h \in 1 .. i - 1
      OBVIOUS
    <2>3. \A h \in 1 .. i - 1 : h \in 1 .. i
      OBVIOUS
    <2>4. {h \in 1 .. i : lines[h] \in Ruby!Definers}
             = {h \in 1 .. i - 1 : lines[h] \in Ruby!Definers} \cup {i}
      BY <1>8, <2>2, <2>3
    <2> QED
      BY <1>1, <2>1, <2>4 DEF Covered
  <1> QED
    BY <1>10, <1>11, <1>12 DEF P, p, q

\* A line that ends the frame on top.
LEMMA FrameCloses ==
    ASSUME NEW s \in RubyStates, NEW lines, NEW i \in Nat \ {0}, s.stack # <<>>,
           RubySound(s, lines, i - 1), lines[i] \notin Ruby!Definers,
           NEW P, P = Ruby!Front(s.stack),
           NEW Q, Q = Append(s.nodes, Ruby!Node(Ruby!Last(s.stack), i))
    PROVE  FramesSound(P, i) /\ NodesSound(Q, P, i) /\ Covered(Q, P, lines, i)
  <1> DEFINE p == s.stack
             q == s.nodes
             n == Len(p)
             f == p[n]
             m == Len(q)
             node == Ruby!Node(f, i)
  <1>1. FramesSound(p, i - 1) /\ NodesSound(q, p, i - 1) /\ Covered(q, p, lines, i - 1)
    BY DEF RubySound
  <1>2. /\ p \in Seq(RubyFrames) /\ n \in Nat \ {0} /\ DOMAIN p = 1 .. n
        /\ q \in Seq(RubyNodes) /\ m \in Nat /\ DOMAIN q = 1 .. m
    BY DEF RubyStates
  <1>3. /\ P \in Seq(RubyFrames) /\ DOMAIN P = 1 .. n - 1
        /\ \A k \in 1 .. n - 1 : P[k] = p[k]
    <2>1. P = SubSeq(p, 1, n - 1)
      BY DEF Ruby!Front
    <2> HIDE DEF p
    <2> QED
      BY <1>2, <2>1
  <1>4. f \in RubyFrames /\ Ruby!Last(s.stack) = f
    BY <1>2 DEF Ruby!Last
  <1> HIDE DEF p, q, n, f
  <1>5. /\ node \in RubyNodes /\ node.first = f.start /\ node.last = i
        /\ node.qualified = f.qualified
        /\ node.type \in Ruby!Containers <=> f.kind \in Ruby!Containers
    BY <1>4 DEF Ruby!Node, RubyNodes, RubyFrames, Ruby!Containers
  <1>6. Q = Append(q, node)
    BY <1>4 DEF p, q
  <1> HIDE DEF node
  <1>7. /\ Q \in Seq(RubyNodes) /\ DOMAIN Q = 1 .. m + 1
        /\ Q[m + 1] = node /\ \A k \in 1 .. m : Q[k] = q[k]
    BY <1>2, <1>5, <1>6
  <1> HIDE DEF m
  <1>8. /\ \A k \in 1 .. m + 1 : k = m + 1 \/ k \in 1 .. m
        /\ m + 1 \in 1 .. m + 1 /\ m + 1 \notin 1 .. m
        /\ \A k \in 1 .. m : k \in 1 .. m + 1
        /\ \A k \in 1 .. n : k = n \/ k \in 1 .. n - 1
        /\ n \in 1 .. n /\ \A k \in 1 .. n - 1 : k \in 1 .. n /\ k < n /\ k - 1 \in Nat /\ k - 1 <= n - 1
    BY <1>2
  <1>9. /\ \A k \in 1 .. n : p[k].start \in 1 .. i - 1
        /\ \A j, k \in 1 .. n : j < k => p[j].start < p[k].start
        /\ \A k \in 1 .. n : Qualifies(Opened(p, k - 1), p[k].qualified)
                             /\ Ruby!ToSet(p[k].qualified) = Opened(p, k - 1) \cup {p[k].start}
    BY <1>1, <1>2 DEF FramesSound
  <1>10. f = p[n] /\ f.start \in 1 .. i - 1 /\ f.start < i /\ f.start \in Nat
         /\ \A k \in 1 .. n - 1 : p[k].start < f.start /\ p[k].start \in 1 .. i /\ p[k].start \in Nat
    <2>1. f = p[n]
      BY DEF f
    <2>2. f.start \in 1 .. i - 1 /\ \A k \in 1 .. n - 1 : p[k].start < f.start /\ p[k].start \in 1 .. i - 1
      BY <1>8, <1>9, <2>1
    <2> QED
      BY <2>1, <2>2
  <1>11. /\ \A k \in 1 .. m : /\ 1 <= q[k].first /\ q[k].first <= q[k].last /\ q[k].last < i
                              /\ q[k].last <= i /\ q[k].first \in Nat /\ q[k].last \in Nat
    <2>1. \A k \in 1 .. m : q[k] \in RubyNodes
      BY <1>2
    <2>2. \A k \in 1 .. m : /\ 1 <= q[k].first /\ q[k].first <= q[k].last
                            /\ q[k].last <= i - 1 /\ q[k].first \in Nat /\ q[k].last \in Nat
      BY <1>1, <1>2, <2>1 DEF NodesSound, RubyNodes
    <2> QED
      BY <2>2
  <1>12. FramesSound(P, i)
    <2>1. \A k \in 1 .. n - 1 : Opened(P, k - 1) = Opened(p, k - 1)
      <3>1. \A k \in 1 .. n - 1 : \A j \in 1 .. k - 1 : j \in 1 .. n - 1
        BY <1>2
      <3> QED
        BY <1>3, <3>1 DEF Opened
    <2>2. \A k \in DOMAIN P : P[k].start \in 1 .. i
      BY <1>3, <1>10
    <2>3. \A j, k \in DOMAIN P : j < k => P[j].start < P[k].start
      BY <1>3, <1>8, <1>9
    <2>4. \A k \in DOMAIN P :
             /\ Qualifies(Opened(P, k - 1), P[k].qualified)
             /\ Ruby!ToSet(P[k].qualified) = Opened(P, k - 1) \cup {P[k].start}
      BY <1>3, <1>8, <1>9, <2>1
    <2> QED
      BY <1>3, <2>2, <2>3, <2>4 DEF FramesSound
  <1>13. \A k \in 1 .. m, j \in 1 .. n : p[j].start < q[k].first \/ q[k].last < p[j].start
    BY <1>1, <1>2 DEF NodesSound
  <1>14. \A k \in 1 .. m : Contained(q[k], node) <=> f.start < q[k].first
    BY <1>5, <1>11 DEF Contained
  <1>15. \A k \in 1 .. m : ~Contained(node, q[k]) /\ Nested(q[k], node) /\ Nested(node, q[k])
    <2>1. \A k \in 1 .. m : ~Contained(node, q[k])
      BY <1>5, <1>10, <1>11 DEF Contained
    <2>2. \A k \in 1 .. m : Contained(q[k], node) \/ q[k].last < node.first
      BY <1>5, <1>8, <1>10, <1>13, <1>14
    <2> QED
      BY <2>1, <2>2 DEF Nested
  <1>16. ~Contained(node, node)
    BY <1>5, <1>10 DEF Contained
  <1>17. \A k \in 1 .. m : Around(q[k], P, Q) = Around(q[k], p, q)
    <2>1. ASSUME NEW k \in 1 .. m, NEW x \in Around(q[k], P, Q) PROVE x \in Around(q[k], p, q)
      <3>1. CASE \E j \in DOMAIN P : P[j].kind \in Ruby!Containers /\ P[j].start < q[k].first /\ x = P[j].start
        <4>1. PICK j \in 1 .. n - 1 : P[j].kind \in Ruby!Containers /\ P[j].start < q[k].first /\ x = P[j].start
          BY <1>3, <3>1
        <4> QED
          BY <1>2, <1>3, <1>8, <4>1 DEF Around
      <3>2. CASE \E j \in DOMAIN Q : Q[j].type \in Ruby!Containers /\ Contained(q[k], Q[j]) /\ x = Q[j].first
        <4>1. PICK j \in 1 .. m + 1 : Q[j].type \in Ruby!Containers /\ Contained(q[k], Q[j]) /\ x = Q[j].first
          BY <1>7, <3>2
        <4>2. CASE j \in 1 .. m
          BY <1>2, <1>7, <4>1, <4>2 DEF Around
        <4>3. CASE j = m + 1
          <5>1. Q[j] = node
            BY <1>7, <4>3
          <5>2. f.kind \in Ruby!Containers /\ f.start < q[k].first /\ x = f.start
            BY <1>5, <1>14, <4>1, <5>1
          <5>3. n \in DOMAIN p /\ p[n] = f
            BY <1>2, <1>8, <1>10
          <5> QED
            BY <5>2, <5>3 DEF Around
        <4> QED
          BY <1>8, <4>2, <4>3
      <3> QED
        BY <2>1, <3>1, <3>2 DEF Around
    <2>2. ASSUME NEW k \in 1 .. m, NEW x \in Around(q[k], p, q) PROVE x \in Around(q[k], P, Q)
      <3>1. CASE \E j \in DOMAIN p : p[j].kind \in Ruby!Containers /\ p[j].start < q[k].first /\ x = p[j].start
        <4>1. PICK j \in 1 .. n : p[j].kind \in Ruby!Containers /\ p[j].start < q[k].first /\ x = p[j].start
          BY <1>2, <3>1
        <4>2. CASE j \in 1 .. n - 1
          BY <1>3, <4>1, <4>2 DEF Around
        <4>3. CASE j = n
          <5>1. node.type \in Ruby!Containers /\ Contained(q[k], node) /\ x = node.first
            BY <1>5, <1>10, <1>14, <4>1, <4>3
          <5> QED
            BY <1>7, <1>8, <5>1 DEF Around
        <4> QED
          BY <1>8, <4>2, <4>3
      <3>2. CASE \E j \in DOMAIN q : q[j].type \in Ruby!Containers /\ Contained(q[k], q[j]) /\ x = q[j].first
        BY <1>2, <1>7, <1>8, <3>2 DEF Around
      <3> QED
        BY <2>2, <3>1, <3>2 DEF Around
    <2> QED
      BY <2>1, <2>2
  <1>18. Around(node, P, Q) = Opened(p, n - 1)
    <2>1. \A j \in DOMAIN Q : ~Contained(node, Q[j])
      BY <1>7, <1>8, <1>15, <1>16
    <2>2. \A j \in DOMAIN P : P[j].start < node.first
      BY <1>3, <1>5, <1>10
    <2> QED
      BY <1>3, <2>1, <2>2 DEF Around, Opened
  <1>19. NodesSound(Q, P, i)
    <2>1. \A k \in DOMAIN Q : 1 <= Q[k].first /\ Q[k].first <= Q[k].last /\ Q[k].last <= i
      <3>1. 1 <= node.first /\ node.first <= node.last /\ node.last <= i
        BY <1>5, <1>10
      <3> QED
        BY <1>7, <1>8, <1>11, <3>1
    <2>2. \A j, k \in DOMAIN Q : j # k => Nested(Q[j], Q[k])
      <3>1. \A j, k \in 1 .. m : j # k => Nested(q[j], q[k])
        BY <1>1, <1>2 DEF NodesSound
      <3> QED
        BY <1>7, <1>8, <1>15, <3>1
    <2>3. \A k \in DOMAIN Q, j \in DOMAIN P : P[j].start < Q[k].first \/ Q[k].last < P[j].start
      <3>1. \A j \in DOMAIN P : P[j] = p[j] /\ j \in 1 .. n /\ p[j].start < node.first
        BY <1>3, <1>5, <1>8, <1>10
      <3> QED
        BY <1>7, <1>8, <1>13, <3>1
    <2>4. \A k \in 1 .. m : Qualifies(Around(q[k], p, q), q[k].qualified)
      BY <1>1, <1>2 DEF NodesSound
    <2>5. Qualifies(Opened(p, n - 1), f.qualified)
      BY <1>8, <1>9, <1>10
    <2>6. \A k \in DOMAIN Q : Qualifies(Around(Q[k], P, Q), Q[k].qualified)
      BY <1>5, <1>7, <1>8, <1>17, <1>18, <2>4, <2>5
    <2> QED
      BY <1>7, <2>1, <2>2, <2>3, <2>6 DEF NodesSound
  <1>20. Covered(Q, P, lines, i)
    <2>1. {p[k].start : k \in DOMAIN p} = {P[k].start : k \in DOMAIN P} \cup {f.start}
      <3>1. n \in DOMAIN p /\ p[n].start = f.start
        BY <1>2, <1>8, <1>10
      <3>2. \A k \in DOMAIN P : k \in DOMAIN p /\ p[k].start = P[k].start
        BY <1>2, <1>3, <1>8
      <3>3. \A k \in DOMAIN p : k = n \/ k \in DOMAIN P
        BY <1>2, <1>3, <1>8
      <3> QED
        BY <3>1, <3>2, <3>3
    <2>2. {Q[k].first : k \in DOMAIN Q} = {q[k].first : k \in DOMAIN q} \cup {f.start}
      <3>1. Q[m + 1].first = f.start /\ m + 1 \in DOMAIN Q
        BY <1>5, <1>7, <1>8
      <3>2. \A k \in DOMAIN q : k \in DOMAIN Q /\ Q[k].first = q[k].first
        BY <1>2, <1>7, <1>8
      <3>3. \A k \in DOMAIN Q : k = m + 1 \/ k \in DOMAIN q
        BY <1>2, <1>7, <1>8
      <3> QED
        BY <3>1, <3>2, <3>3
    <2>3. \A h \in 1 .. i : h = i \/ h \in 1 .. i - 1
      OBVIOUS
    <2>4. \A h \in 1 .. i - 1 : h \in 1 .. i
      OBVIOUS
    <2>5. {h \in 1 .. i : lines[h] \in Ruby!Definers} = {h \in 1 .. i - 1 : lines[h] \in Ruby!Definers}
      BY <2>3, <2>4
    <2> QED
      BY <1>1, <2>1, <2>2, <2>5 DEF Covered
  <1> QED
    BY <1>12, <1>19, <1>20

\* A line that changes neither frames nor nodes.
LEMMA LinePasses ==
    ASSUME NEW s \in RubyStates, NEW lines, NEW i \in Nat \ {0},
           RubySound(s, lines, i - 1), lines[i] \notin Ruby!Definers
    PROVE  FramesSound(s.stack, i) /\ NodesSound(s.nodes, s.stack, i)
           /\ Covered(s.nodes, s.stack, lines, i)
  <1> DEFINE p == s.stack
             q == s.nodes
  <1>1. FramesSound(p, i - 1) /\ NodesSound(q, p, i - 1) /\ Covered(q, p, lines, i - 1)
    BY DEF RubySound
  <1>2. p \in Seq(RubyFrames) /\ q \in Seq(RubyNodes)
    BY DEF RubyStates
  <1> HIDE DEF p, q
  <1>3. 1 .. i - 1 \subseteq 1 .. i /\ \A h \in 1 .. i : h = i \/ h \in 1 .. i - 1
    OBVIOUS
  <1>4. FramesSound(p, i)
    BY <1>1, <1>3 DEF FramesSound
  <1>5. NodesSound(q, p, i)
    <2>1. \A k \in DOMAIN q : q[k].last \in Nat
      <3>1. \A k \in DOMAIN q : q[k] \in RubyNodes
        BY <1>2
      <3> QED
        BY <3>1 DEF RubyNodes
    <2>2. \A k \in DOMAIN q : 1 <= q[k].first /\ q[k].first <= q[k].last /\ q[k].last <= i - 1
      BY <1>1 DEF NodesSound
    <2>3. \A k \in DOMAIN q : 1 <= q[k].first /\ q[k].first <= q[k].last /\ q[k].last <= i
      BY <2>1, <2>2
    <2> QED
      BY <1>1, <2>3 DEF NodesSound
  <1>6. {h \in 1 .. i : lines[h] \in Ruby!Definers} = {h \in 1 .. i - 1 : lines[h] \in Ruby!Definers}
    BY <1>3
  <1>7. Covered(q, p, lines, i)
    BY <1>1, <1>6 DEF Covered
  <1> QED
    BY <1>4, <1>5, <1>7 DEF p, q

LEMMA RubySoundRound ==
    ASSUME NEW s \in RubyStates, NEW lines \in Seq(RubyLines), NEW i \in 1 .. Len(lines),
           RubySound(s, lines, i - 1)
    PROVE  RubySound(Ruby!ScanLine(s, lines[i], i), lines, i)
  <1>n. i \in Nat \ {0}
    OBVIOUS
  <1>1. CASE lines[i] \in Ruby!Definers
    <2> DEFINE f == Ruby!Frame(s, lines[i], i)
               P == Append(s.stack, f)
    <2>1. /\ Ruby!ScanLine(s, lines[i], i).stack = P
          /\ Ruby!ScanLine(s, lines[i], i).nodes = s.nodes
      BY <1>1 DEF Ruby!ScanLine, Ruby!Definers, Ruby!Containers, RubyStates
    <2>2. FramesSound(P, i) /\ NodesSound(s.nodes, P, i) /\ Covered(s.nodes, P, lines, i)
      BY <1>n, <1>1, FrameOpens
    <2> HIDE DEF P
    <2> QED
      BY <2>1, <2>2 DEF RubySound
  <1>2. CASE lines[i] = "end" /\ s.stack # <<>> /\ Ruby!Last(s.stack).depth = s.depth
    <2> DEFINE P == Ruby!Front(s.stack)
               Q == Append(s.nodes, Ruby!Node(Ruby!Last(s.stack), i))
    <2>1. lines[i] \notin Ruby!Definers
      BY <1>2 DEF Ruby!Definers, Ruby!Containers
    <2>2. Ruby!ScanLine(s, lines[i], i) = Ruby!End(s, i)
      BY <1>2, <2>1 DEF Ruby!ScanLine
    <2>3. Ruby!End(s, i).stack = P /\ Ruby!End(s, i).nodes = Q
      BY <1>2 DEF Ruby!End, Ruby!CloseFrame, RubyStates
    <2>4. FramesSound(P, i) /\ NodesSound(Q, P, i) /\ Covered(Q, P, lines, i)
      BY <1>n, <1>2, <2>1, FrameCloses
    <2> HIDE DEF P, Q
    <2> QED
      BY <2>2, <2>3, <2>4 DEF RubySound
  <1>3. CASE lines[i] \notin Ruby!Definers
             /\ ~(lines[i] = "end" /\ s.stack # <<>> /\ Ruby!Last(s.stack).depth = s.depth)
    <2>1. /\ Ruby!ScanLine(s, lines[i], i).stack = s.stack
          /\ Ruby!ScanLine(s, lines[i], i).nodes = s.nodes
      BY <1>3 DEF Ruby!ScanLine, Ruby!End, RubyStates
    <2> QED
      BY <1>n, <1>3, <2>1, LinePasses DEF RubySound
  <1>4. lines[i] = "end" => lines[i] \notin Ruby!Definers
    BY DEF Ruby!Definers, Ruby!Containers
  <1> QED
    BY <1>1, <1>2, <1>3, <1>4

\* The nodes of N lines nest, and are named by what they lie in.
AllNested(r, lines, N) ==
    /\ r \in Seq(RubyNodes)
    /\ {r[k].first : k \in DOMAIN r} = {h \in 1 .. N : lines[h] \in Ruby!Definers}
    /\ \A j, k \in DOMAIN r : j # k => r[j].first # r[k].first /\ Nested(r[j], r[k])
    /\ \A k \in DOMAIN r :
          Ruby!ToSet(Ruby!Front(r[k].qualified)) =
              {r[j].first : j \in {j \in DOMAIN r : r[j].type \in Ruby!Containers
                                                     /\ Contained(r[k], r[j])}}

\* What is left open at the end of the file closes there; then all that was
\* said of frames and nodes is said of nodes.
LEMMA FileCloses ==
    ASSUME NEW N \in Nat, NEW lines, NEW p, NEW q, NEW r,
           FramesSound(p, N), NodesSound(q, p, N), Covered(q, p, lines, N),
           r = q \o [k \in DOMAIN p |-> Ruby!Node(Ruby!Reverse(p)[k], N)]
    PROVE  AllNested(r, lines, N)
  <1> DEFINE n == Len(p)
             m == Len(q)
             left == [k \in DOMAIN p |-> Ruby!Node(Ruby!Reverse(p)[k], N)]
  <1>1. /\ p \in Seq(RubyFrames) /\ n \in Nat /\ DOMAIN p = 1 .. n
        /\ q \in Seq(RubyNodes) /\ m \in Nat /\ DOMAIN q = 1 .. m
    BY DEF FramesSound, NodesSound
  \* The node of the frame at k.
  <1> DEFINE node(k) == Ruby!Node(p[k], N)
             at(k) == n - k + 1
  <1>2. \A k \in 1 .. n : at(k) \in 1 .. n /\ at(at(k)) = k
    BY <1>1
  <1>3. \A k \in 1 .. n : left[k] = node(at(k))
    <2>1. \A k \in 1 .. n : Ruby!Reverse(p)[k] = p[at(k)]
      BY <1>1 DEF Ruby!Reverse
    <2> QED
      BY <1>1, <2>1
  <1>4. \A k \in 1 .. n : /\ node(k) \in RubyNodes /\ node(k).first = p[k].start /\ node(k).last = N
                          /\ node(k).qualified = p[k].qualified
                          /\ node(k).type \in Ruby!Containers <=> p[k].kind \in Ruby!Containers
    <2>1. \A k \in 1 .. n : p[k] \in RubyFrames
      BY <1>1
    <2> QED
      BY <2>1 DEF Ruby!Node, RubyNodes, RubyFrames, Ruby!Containers
  <1>5. left \in Seq(RubyNodes) /\ Len(left) = n
    <2>1. DOMAIN left = 1 .. n /\ \A k \in 1 .. n : left[k] \in RubyNodes
      BY <1>1, <1>2, <1>3, <1>4
    <2>2. left \in [1 .. n -> RubyNodes]
      BY <1>1, <2>1
    <2>3. n \in Nat
      BY <1>1
    <2> HIDE DEF left, n
    <2>4. left \in Seq(RubyNodes)
      BY <2>2, <2>3
    <2>5. Len(left) = n
      BY <2>2, <2>3
    <2> QED
      BY <2>4, <2>5
  <1> HIDE DEF n, m, left, node, at
  <1>6. /\ r \in Seq(RubyNodes) /\ DOMAIN r = 1 .. m + n
        /\ \A k \in 1 .. m : r[k] = q[k]
        /\ \A k \in 1 .. n : r[m + k] = left[k]
    BY <1>1, <1>5 DEF left, m
  <1>7. /\ \A k \in 1 .. m + n : k \in 1 .. m \/ k - m \in 1 .. n
        /\ \A k \in 1 .. m : k \in 1 .. m + n
        /\ \A k \in 1 .. n : m + k \in 1 .. m + n
        /\ \A k \in 1 .. m + n : m + (k - m) = k
    BY <1>1
  \* A node of r is one of q or of a frame, and all of these are in r.
  <1> DEFINE Old(k) == k \in 1 .. m /\ r[k] = q[k]
             Open(k) == at(k - m) \in 1 .. n /\ k = m + at(at(k - m)) /\ r[k] = node(at(k - m))
  <1>8. \A k \in DOMAIN r : Old(k) \/ Open(k)
    <2>1. ASSUME NEW k \in 1 .. m + n PROVE Old(k) \/ Open(k)
      <3>1. CASE k \in 1 .. m
        BY <1>6, <3>1
      <3>2. CASE k - m \in 1 .. n
        <4>1. r[m + (k - m)] = left[k - m]
          BY <1>6, <3>2
        <4> QED
          BY <1>2, <1>3, <1>7, <3>2, <4>1
      <3> QED
        BY <1>7, <3>1, <3>2
    <2> QED
      BY <1>6, <2>1
  <1>9. \A k \in 1 .. n : m + at(k) \in DOMAIN r /\ r[m + at(k)] = node(k)
    BY <1>2, <1>3, <1>6, <1>7
  <1>10. /\ \A k \in 1 .. n : p[k].start \in 1 .. N /\ p[k].start \in Nat
         /\ \A j, k \in 1 .. n : j < k => p[j].start < p[k].start
         /\ \A k \in 1 .. n : Qualifies(Opened(p, k - 1), p[k].qualified)
    <2>1. /\ \A k \in 1 .. n : p[k].start \in 1 .. N
          /\ \A j, k \in 1 .. n : j < k => p[j].start < p[k].start
          /\ \A k \in 1 .. n : Qualifies(Opened(p, k - 1), p[k].qualified)
      BY <1>1 DEF FramesSound
    <2>2. \A x \in 1 .. N : x \in Nat
      OBVIOUS
    <2> QED
      BY <2>1, <2>2
  <1>11. /\ \A k \in 1 .. m : /\ q[k].first \in Nat /\ q[k].last \in Nat
                              /\ q[k].first <= q[k].last /\ q[k].last <= N
         /\ \A j, k \in 1 .. m : j # k => Nested(q[j], q[k])
         /\ \A k \in 1 .. m, j \in 1 .. n : p[j].start < q[k].first \/ q[k].last < p[j].start
         /\ \A k \in 1 .. m : Qualifies(Around(q[k], p, q), q[k].qualified)
    <2>1. \A k \in 1 .. m : q[k] \in RubyNodes
      BY <1>1
    <2>2. \A k \in 1 .. m : q[k].first \in Nat /\ q[k].last \in Nat
      BY <2>1 DEF RubyNodes
    <2> QED
      BY <1>1, <2>2 DEF NodesSound
  \* How the nodes of frames and the old nodes lie.
  <1>12. ASSUME NEW j \in 1 .. n, NEW k \in 1 .. n
         PROVE  Contained(node(k), node(j)) <=> j < k
    <2>1. Contained(node(k), node(j)) <=> p[j].start < p[k].start
      BY <1>4 DEF Contained
    <2>2. j < k \/ j = k \/ k < j
      BY <1>1
    <2>3. k < j => p[k].start < p[j].start
      BY <1>10
    <2>4. j < k => p[j].start < p[k].start
      BY <1>10
    <2>5. p[j].start \in Nat /\ p[k].start \in Nat
      BY <1>10
    <2>6. j = k => p[j].start = p[k].start
      OBVIOUS
    <2> QED
      BY <1>1, <2>1, <2>2, <2>3, <2>4, <2>5, <2>6
  <1>13. ASSUME NEW k \in 1 .. m, NEW j \in 1 .. n
         PROVE  /\ Contained(q[k], node(j)) <=> p[j].start < q[k].first
                /\ ~Contained(node(j), q[k])
                /\ Nested(q[k], node(j)) /\ Nested(node(j), q[k])
                /\ q[k].first # node(j).first
    <2>1. Contained(q[k], node(j)) <=> p[j].start < q[k].first
      BY <1>4, <1>11 DEF Contained
    <2>2. p[j].start < q[k].first \/ q[k].last < p[j].start
      BY <1>11
    <2>3. p[j].start \in Nat /\ p[j].start <= N /\ N \in Nat
      BY <1>10
    <2>4. q[k].first \in Nat /\ q[k].last \in Nat /\ q[k].first <= q[k].last /\ q[k].last <= N
      BY <1>11
    <2>5. node(j).first = p[j].start /\ node(j).last = N
      BY <1>4
    <2>6. ~(q[k].first < p[j].start /\ N <= q[k].last)
      BY <2>2, <2>3, <2>4
    <2>7. ~Contained(node(j), q[k])
      BY <2>5, <2>6 DEF Contained
    <2>8. q[k].first # p[j].start
      BY <2>2, <2>3, <2>4
    <2> QED
      BY <2>1, <2>2, <2>5, <2>7, <2>8 DEF Nested
  <1>14. {r[k].first : k \in DOMAIN r} = {h \in 1 .. N : lines[h] \in Ruby!Definers}
    <2>1. \A k \in DOMAIN r : r[k].first \in {p[j].start : j \in DOMAIN p} \cup {q[j].first : j \in DOMAIN q}
      <3>1. ASSUME NEW k \in DOMAIN r, Old(k) PROVE r[k].first \in {q[j].first : j \in DOMAIN q}
        BY <1>1, <3>1
      <3>2. ASSUME NEW k \in DOMAIN r, Open(k) PROVE r[k].first \in {p[j].start : j \in DOMAIN p}
        BY <1>1, <1>4, <3>2
      <3> QED
        BY <1>8, <3>1, <3>2
    <2>2. \A k \in DOMAIN p : p[k].start \in {r[j].first : j \in DOMAIN r}
      BY <1>1, <1>4, <1>9
    <2>3. \A k \in DOMAIN q : q[k].first \in {r[j].first : j \in DOMAIN r}
      BY <1>1, <1>6, <1>7
    <2>4. {r[k].first : k \in DOMAIN r} = {p[j].start : j \in DOMAIN p} \cup {q[j].first : j \in DOMAIN q}
      BY <2>1, <2>2, <2>3
    <2> QED
      BY <2>4 DEF Covered
  <1>15. ASSUME NEW j \in DOMAIN r, NEW k \in DOMAIN r, j # k
         PROVE  r[j].first # r[k].first /\ Nested(r[j], r[k])
    <2>1. CASE Old(j) /\ Old(k)
      <3>1. Nested(q[j], q[k])
        BY <1>11, <1>15, <2>1
      <3>2. /\ q[j].first \in Nat /\ q[j].last \in Nat /\ q[j].first <= q[j].last
            /\ q[k].first \in Nat /\ q[k].last \in Nat /\ q[k].first <= q[k].last
        BY <1>11, <2>1
      <3>3. q[j].first # q[k].first
        BY <3>1, <3>2 DEF Nested, Contained
      <3> QED
        BY <2>1, <3>1, <3>3
    <2>2. CASE Old(j) /\ Open(k)
      BY <1>13, <2>2
    <2>3. CASE Open(j) /\ Old(k)
      BY <1>13, <2>3
    <2>4. CASE Open(j) /\ Open(k)
      <3> DEFINE a == at(j - m)
                 b == at(k - m)
      <3>1. a \in 1 .. n /\ b \in 1 .. n /\ r[j] = node(a) /\ r[k] = node(b) /\ a # b
        BY <1>15, <2>4
      <3> HIDE DEF a, b
      <3>2. a < b \/ b < a
        BY <1>1, <3>1
      <3>3. Contained(node(a), node(b)) \/ Contained(node(b), node(a))
        BY <1>12, <3>1, <3>2
      <3>4. node(a).first # node(b).first
        <4>1. node(a).first \in Nat /\ node(b).first \in Nat
          BY <1>4, <1>10, <3>1
        <4> QED
          BY <3>3, <4>1 DEF Contained
      <3> QED
        BY <3>1, <3>3, <3>4 DEF Nested
    <2> QED
      BY <1>8, <2>1, <2>2, <2>3, <2>4
  <1>16. ASSUME NEW k \in DOMAIN r
         PROVE  Ruby!ToSet(Ruby!Front(r[k].qualified)) =
                     {r[j].first : j \in {j \in DOMAIN r : r[j].type \in Ruby!Containers
                                                            /\ Contained(r[k], r[j])}}
    <2> DEFINE Names == {r[j].first : j \in {j \in DOMAIN r : r[j].type \in Ruby!Containers
                                                            /\ Contained(r[k], r[j])}}
    <2>1. CASE Old(k)
      <3>1. Ruby!ToSet(Ruby!Front(r[k].qualified)) = Around(q[k], p, q)
        BY <1>11, <2>1 DEF Qualifies
      <3>2. ASSUME NEW x \in Names PROVE x \in Around(q[k], p, q)
        <4>1. PICK j \in DOMAIN r : r[j].type \in Ruby!Containers /\ Contained(q[k], r[j]) /\ x = r[j].first
          BY <2>1, <3>2
        <4>2. CASE Old(j)
          BY <1>1, <4>1, <4>2 DEF Around
        <4>3. CASE Open(j)
          <5> DEFINE a == at(j - m)
          <5>1. a \in 1 .. n /\ r[j] = node(a)
            BY <4>3
          <5> HIDE DEF a
          <5>2. p[a].kind \in Ruby!Containers /\ p[a].start < q[k].first /\ x = p[a].start
            BY <1>4, <1>13, <2>1, <4>1, <5>1
          <5> QED
            BY <1>1, <5>1, <5>2 DEF Around
        <4> QED
          BY <1>8, <4>2, <4>3
      <3>3. ASSUME NEW x \in Around(q[k], p, q) PROVE x \in Names
        <4>1. CASE \E j \in DOMAIN p : p[j].kind \in Ruby!Containers /\ p[j].start < q[k].first /\ x = p[j].start
          <5>1. PICK j \in 1 .. n : p[j].kind \in Ruby!Containers /\ p[j].start < q[k].first /\ x = p[j].start
            BY <1>1, <4>1
          <5>2. node(j).type \in Ruby!Containers /\ Contained(q[k], node(j)) /\ x = node(j).first
            BY <1>4, <1>13, <2>1, <5>1
          <5>3. m + at(j) \in DOMAIN r /\ r[m + at(j)] = node(j)
            BY <1>9
          <5> QED
            BY <2>1, <5>2, <5>3
        <4>2. CASE \E j \in DOMAIN q : q[j].type \in Ruby!Containers /\ Contained(q[k], q[j]) /\ x = q[j].first
          <5>1. PICK j \in 1 .. m : q[j].type \in Ruby!Containers /\ Contained(q[k], q[j]) /\ x = q[j].first
            BY <1>1, <4>2
          <5>2. j \in DOMAIN r /\ r[j] = q[j]
            BY <1>6, <1>7
          <5> QED
            BY <2>1, <5>1, <5>2
        <4> QED
          BY <3>3, <4>1, <4>2 DEF Around
      <3> QED
        BY <3>1, <3>2, <3>3
    <2>2. CASE Open(k)
      <3> DEFINE b == at(k - m)
      <3>1. b \in 1 .. n /\ r[k] = node(b)
        BY <2>2
      <3> HIDE DEF b
      <3>2. Ruby!ToSet(Ruby!Front(r[k].qualified)) = Opened(p, b - 1)
        BY <1>4, <1>10, <3>1 DEF Qualifies
      <3>3. \A j \in 1 .. n : j < b <=> j \in 1 .. b - 1
        BY <1>1, <3>1
      <3>4. \A j \in 1 .. b - 1 : j \in 1 .. n
        BY <1>1, <3>1
      <3>5. ASSUME NEW x \in Names PROVE x \in Opened(p, b - 1)
        <4>1. PICK j \in DOMAIN r : r[j].type \in Ruby!Containers /\ Contained(node(b), r[j]) /\ x = r[j].first
          BY <3>1, <3>5
        <4>2. ~Old(j)
          BY <1>13, <3>1, <4>1
        <4>3. Open(j)
          BY <1>8, <4>2
        <4> DEFINE a == at(j - m)
        <4>4. a \in 1 .. n /\ r[j] = node(a)
          BY <4>3
        <4> HIDE DEF a
        <4>5. a < b /\ p[a].kind \in Ruby!Containers /\ x = p[a].start
          BY <1>4, <1>12, <3>1, <4>1, <4>4
        <4> QED
          BY <3>3, <4>4, <4>5 DEF Opened
      <3>6. ASSUME NEW x \in Opened(p, b - 1) PROVE x \in Names
        <4>1. PICK j \in 1 .. b - 1 : p[j].kind \in Ruby!Containers /\ x = p[j].start
          BY <3>6 DEF Opened
        <4>2. j \in 1 .. n /\ j < b
          BY <3>3, <3>4
        <4>3. node(j).type \in Ruby!Containers /\ Contained(node(b), node(j)) /\ x = node(j).first
          BY <1>4, <1>12, <3>1, <4>1, <4>2
        <4>4. m + at(j) \in DOMAIN r /\ r[m + at(j)] = node(j)
          BY <1>9, <4>2
        <4> QED
          BY <3>1, <4>3, <4>4
      <3> QED
        BY <3>2, <3>5, <3>6
    <2> QED
      BY <1>8, <2>1, <2>2
  <1> QED
    BY <1>6, <1>14, <1>15, <1>16 DEF AllNested

LEMMA ScanSound == ASSUME NEW lines PROVE RubySound(Ruby!Scan, lines, 0)
  <1>1. FramesSound(<<>>, 0)
    BY DEF FramesSound
  <1>2. NodesSound(<<>>, <<>>, 0)
    BY DEF NodesSound
  <1>3. Covered(<<>>, <<>>, lines, 0)
    BY DEF Covered
  <1> QED
    BY <1>1, <1>2, <1>3 DEF RubySound, Ruby!Scan

\* The nodes of any Ruby file nest, and are named by their nesting.
LEMMA RubyNests == ASSUME NEW lines \in Seq(RubyLines) PROVE Ruby!NodesNest(lines)
  <1> DEFINE N == Len(lines)
  <1>0. PICK after : RubyRun(after, lines)
    BY RubyRuns
  <1>1. /\ after \in [0 .. N -> RubyStates] /\ after[0] = Ruby!Scan
        /\ \A i \in 1 .. N : after[i] = Ruby!ScanLine(after[i - 1], lines[i], i)
        /\ Ruby!Scanned(lines) = after[N]
    BY <1>0 DEF RubyRun
  <1>n. N \in Nat /\ DOMAIN lines = 1 .. N /\ \A i \in 1 .. N : i - 1 \in 0 .. N /\ i \in 0 .. N
    OBVIOUS
  <1> DEFINE A == {i \in 0 .. N : RubySound(after[i], lines, i)}
  <1>2. 0 \in A
    <2>1. RubySound(Ruby!Scan, lines, 0)
      BY ScanSound
    <2> QED
      BY <1>1, <1>n, <2>1
  <1>3. ASSUME NEW i \in 1 .. N, i - 1 \in A PROVE i \in A
    <2>1. after[i - 1] \in RubyStates /\ RubySound(after[i - 1], lines, i - 1)
      BY <1>1, <1>n, <1>3
    <2> QED
      BY <1>1, <1>n, <2>1, RubySoundRound
  <1> DEFINE s == Ruby!Scanned(lines)
             r == Ruby!ParseRuby(lines)
  <1>4. RubySound(s, lines, N)
    <2>1. 0 .. N \subseteq A
      <3> HIDE DEF A, N
      <3> QED
        BY <1>n, <1>2, <1>3, Induct
    <2>2. N \in 0 .. N
      BY <1>n
    <2> QED
      BY <1>1, <2>1, <2>2
  <1>5. r = s.nodes \o [k \in DOMAIN s.stack |-> Ruby!Node(Ruby!Reverse(s.stack)[k], N)]
    BY DEF Ruby!ParseRuby
  <1> HIDE DEF s, r
  <1>6. /\ r \in Seq(RubyNodes)
        /\ {r[k].first : k \in DOMAIN r} = {h \in 1 .. N : lines[h] \in Ruby!Definers}
        /\ \A j, k \in DOMAIN r : j # k => r[j].first # r[k].first /\ Nested(r[j], r[k])
        /\ \A k \in DOMAIN r :
              Ruby!ToSet(Ruby!Front(r[k].qualified)) =
                  {r[j].first : j \in {j \in DOMAIN r : r[j].type \in Ruby!Containers
                                                         /\ Contained(r[k], r[j])}}
    <2> DEFINE p == s.stack
               q == s.nodes
    <2>1. FramesSound(p, N) /\ NodesSound(q, p, N) /\ Covered(q, p, lines, N)
      BY <1>4 DEF RubySound
    <2>2. N \in Nat
      BY <1>n
    <2>3. r = q \o [k \in DOMAIN p |-> Ruby!Node(Ruby!Reverse(p)[k], N)]
      BY <1>5
    <2> HIDE DEF p, q, N
    <2>4. AllNested(r, lines, N)
      BY <2>1, <2>2, <2>3, FileCloses
    <2> QED
      BY <2>4 DEF AllNested
  <1> HIDE DEF N
  <1>7. Ruby!IsInjective([k \in DOMAIN r |-> r[k].first])
    BY <1>6 DEF Ruby!IsInjective
  <1>8. ASSUME NEW m \in Ruby!ToSet(r)
        PROVE  Ruby!ToSet(Ruby!Front(m.qualified)) =
                  {n.first : n \in {n \in Ruby!ToSet(r) : n.type \in Ruby!Containers /\ Contained(m, n)}}
    <2>1. PICK k \in DOMAIN r : m = r[k]
      BY DEF Ruby!ToSet
    <2>2. Ruby!ToSet(r) = {r[j] : j \in DOMAIN r}
      BY DEF Ruby!ToSet
    <2>3. {r[j].first : j \in {j \in DOMAIN r : r[j].type \in Ruby!Containers /\ Contained(m, r[j])}}
          = {n.first : n \in {n \in Ruby!ToSet(r) : n.type \in Ruby!Containers /\ Contained(m, n)}}
      BY <2>2
    <2> QED
      BY <1>6, <2>1, <2>3
  <1> QED
    BY <1>n, <1>6, <1>7, <1>8 DEF Ruby!NodesNest, Nested, Contained, r

-----------------------------------------------------------------------------
\* Ruby of regular lines: the depth is what is open, and a node ends where its
\* block does.

\* How many blocks are open after each line.
Counted(open, lines) ==
    /\ open \in [0 .. Len(lines) -> Int]
    /\ open[0] = 0
    /\ \A i \in 1 .. Len(lines) :
          /\ Ruby!OpensBlock(lines[i]) => open[i] = open[i - 1] + 1
          /\ lines[i] = "end" => open[i] = open[i - 1] - 1
          /\ ~Ruby!OpensBlock(lines[i]) /\ lines[i] # "end" => open[i] = open[i - 1]

LEMMA BlocksCounted == ASSUME NEW lines \in Seq(RubyLines) PROVE Counted(Ruby!Blocks(lines), lines)
  <1> DEFINE N == Len(lines)
             change == [i \in 1 .. N |-> IF Ruby!OpensBlock(lines[i]) THEN 1
                                         ELSE IF lines[i] = "end" THEN 0 - 1 ELSE 0]
             G == [i \in 1 .. N |-> [n \in Int |-> n + change[i]]]
             Round(f) == [i \in 0 .. N |->
                            IF i = 0 THEN 0
                            ELSE CASE Ruby!OpensBlock(lines[i]) -> f[i - 1] + 1
                                   [] lines[i] = "end" -> f[i - 1] - 1
                                   [] OTHER -> f[i - 1]]
             open == CHOOSE f : f = Round(f)
  <1>1. N \in Nat
    OBVIOUS
  <1>e. ~Ruby!OpensBlock("end")
    BY DEF Ruby!OpensBlock, Ruby!Containers
  <1>c. \A i \in 1 .. N : /\ Ruby!OpensBlock(lines[i]) => change[i] = 1
                          /\ lines[i] = "end" => change[i] = 0 - 1
                          /\ ~Ruby!OpensBlock(lines[i]) /\ lines[i] # "end" => change[i] = 0
    BY <1>e
  <1>2. \A i \in 1 .. N : change[i] \in Int
    OBVIOUS
  <1>o. Ruby!Blocks(lines) = open
    BY DEF Ruby!Blocks
  <1> HIDE DEF change
  <1>3. G \in [1 .. N -> [Int -> Int]]
    BY <1>2
  <1>4. PICK f : Run(f, Int, 0, N, G)
    <2>1. 0 \in Int
      OBVIOUS
    <2> HIDE DEF G, N
    <2> QED
      BY <1>1, <1>3, <2>1, LoopRuns
  <1>5. /\ f \in [0 .. N -> Int] /\ f[0] = 0 /\ \A i \in 1 .. N : f[i] = f[i - 1] + change[i]
    <2>1. f \in [0 .. N -> Int] /\ f[0] = 0 /\ \A i \in 1 .. N : f[i] = G[i][f[i - 1]]
      BY <1>4 DEF Run
    <2>2. \A i \in 1 .. N : i - 1 \in 0 .. N
      BY <1>1
    <2> QED
      BY <2>1, <2>2
  <1>6. \A i \in 0 .. N : i = 0 \/ i \in 1 .. N
    BY <1>1
  <1>7. f = Round(f)
    <2>1. ASSUME NEW i \in 1 .. N PROVE f[i] = Round(f)[i]
      <3>1. i \in 0 .. N /\ i # 0 /\ i - 1 \in 0 .. N
        BY <1>1
      <3>2. f[i - 1] \in Int /\ f[i] = f[i - 1] + change[i]
        BY <1>5, <3>1
      <3> QED
        BY <1>c, <1>e, <3>1, <3>2
    <2>2. f[0] = Round(f)[0]
      BY <1>1, <1>5
    <2>3. \A i \in 0 .. N : f[i] = Round(f)[i]
      BY <1>6, <2>1, <2>2
    <2>4. DOMAIN f = 0 .. N /\ f = [i \in DOMAIN f |-> f[i]]
      BY <1>5
    <2> QED
      BY <2>3, <2>4
  <1>8. open = Round(open)
    BY <1>7
  <1> HIDE DEF open
  <1>9. DOMAIN open = 0 .. N /\ open[0] = 0
    BY <1>1, <1>8
  <1>10. ASSUME NEW i \in 1 .. N
         PROVE  /\ Ruby!OpensBlock(lines[i]) => open[i] = open[i - 1] + 1
                /\ lines[i] = "end" => open[i] = open[i - 1] - 1
                /\ ~Ruby!OpensBlock(lines[i]) /\ lines[i] # "end" => open[i] = open[i - 1]
    <2>1. open[i] = Round(open)[i]
      BY <1>8
    <2>2. i \in 0 .. N /\ i # 0
      BY <1>1
    <2> HIDE <1>8
    <2> QED
      BY <1>e, <2>1, <2>2
  <1>11. open \in [0 .. N -> Int]
    <2> DEFINE A == {i \in 0 .. N : open[i] \in Int}
    <2>1. 0 \in A
      BY <1>1, <1>9
    <2>2. ASSUME NEW i \in 1 .. N, i - 1 \in A PROVE i \in A
      <3>1. open[i - 1] \in Int /\ i \in 0 .. N
        BY <1>1, <2>2
      <3> QED
        BY <1>10, <3>1
    <2> HIDE DEF A
    <2>3. 0 .. N \subseteq A
      BY <1>1, <2>1, <2>2, Induct
    <2>4. open = [i \in 0 .. N |-> open[i]]
      BY <1>8
    <2> QED
      BY <2>3, <2>4 DEF A
  <1> QED
    BY <1>o, <1>9, <1>10, <1>11 DEF Counted, N

Increasing(name) == \A j, k \in DOMAIN name : j < k => name[j] < name[k]

\* What a node of regular lines says of them.
Matches(n, lines) ==
    /\ n.type = IF lines[n.first] = "def" THEN "function" ELSE lines[n.first]
    /\ Ruby!EndsAt(lines, n.first, n.last)
    /\ Increasing(n.qualified)
    /\ Ruby!ToSet(n.qualified) = Ruby!ToSet(Ruby!Front(n.qualified)) \cup {n.first}

\* The frames of p are of blocks that are still open after line i.
FramesMatch(p, lines, i) ==
    LET open == Ruby!Blocks(lines)
    IN  /\ \A k \in DOMAIN p :
              /\ p[k].kind = IF lines[p[k].start] = "def" THEN "method" ELSE lines[p[k].start]
              /\ p[k].depth = open[p[k].start]
              /\ \A h \in p[k].start .. i : open[h] >= p[k].depth
              /\ Increasing(p[k].qualified)
        /\ \A j, k \in DOMAIN p : j < k => p[j].depth < p[k].depth

RubyMatches(s, lines, i) ==
    /\ s.depth = Ruby!Blocks(lines)[i]
    /\ FramesMatch(s.stack, lines, i)
    /\ \A k \in DOMAIN s.nodes : Matches(s.nodes[k], lines)

LEMMA NameGrows ==
    ASSUME NEW r \in Seq(Nat), Increasing(r), NEW i \in Nat, \A x \in Ruby!ToSet(r) : x < i
    PROVE  Increasing(Append(r, i))
  <1> DEFINE n == Len(r)
             a == Append(r, i)
  <1>1. n \in Nat /\ DOMAIN r = 1 .. n /\ DOMAIN a = 1 .. n + 1 /\ a[n + 1] = i /\ \A k \in 1 .. n : a[k] = r[k]
    OBVIOUS
  <1> HIDE DEF a, n
  <1>2. \A k \in 1 .. n : a[k] < i
    BY <1>1 DEF Ruby!ToSet
  <1>3. ASSUME NEW j \in 1 .. n + 1, NEW k \in 1 .. n + 1, j < k PROVE a[j] < a[k]
    <2>1. j \in 1 .. n
      BY <1>1, <1>3
    <2>2. k = n + 1 \/ k \in 1 .. n
      BY <1>1
    <2> QED
      BY <1>1, <1>2, <1>3, <2>1, <2>2 DEF Increasing
  <1> QED
    BY <1>1, <1>3 DEF Increasing, a

LEMMA InnermostIncreasing ==
    ASSUME NEW p \in Seq(RubyFrames), \A k \in DOMAIN p : Increasing(p[k].qualified)
    PROVE  Increasing(Ruby!CurrentClass(p))
  <1> DEFINE within == {k \in DOMAIN p : p[k].kind \in Ruby!Containers}
  <1>1. CASE within = {}
    <2>1. Ruby!CurrentClass(p) = <<>>
      BY <1>1 DEF Ruby!CurrentClass
    <2> QED
      BY <2>1 DEF Increasing
  <1>2. CASE within # {}
    <2>1. Len(p) \in Nat /\ within \subseteq 0 .. Len(p) /\ within \subseteq DOMAIN p
      OBVIOUS
    <2>2. Ruby!Max(within) = Max(within)
      BY DEF Max, Ruby!Max
    <2>3. Ruby!CurrentClass(p) = p[Max(within)].qualified
      BY <1>2, <2>2 DEF Ruby!CurrentClass
    <2> HIDE DEF within
    <2>4. Max(within) \in within
      BY <1>2, <2>1, GreatestOf
    <2> QED
      BY <2>1, <2>3, <2>4
  <1> QED
    BY <1>1, <1>2

\* Lines after which every prefix has as many blocks begun as ended.
Balanced(lines) ==
    /\ lines \in Seq(RubyLines)
    /\ \A i \in 1 .. Len(lines) : lines[i] \in Ruby!RegularLines /\ Ruby!Blocks(lines)[i] >= 0

\* A line that begins a frame.
LEMMA FrameOpensMatching ==
    ASSUME NEW lines, Balanced(lines), NEW i \in 1 .. Len(lines), NEW s \in RubyStates,
           RubySound(s, lines, i - 1), RubyMatches(s, lines, i - 1),
           lines[i] \in Ruby!Definers, NEW f, f = Ruby!Frame(s, lines[i], i)
    PROVE  s.depth + 1 = Ruby!Blocks(lines)[i] /\ FramesMatch(Append(s.stack, f), lines, i)
  <1> DEFINE p == s.stack
             n == Len(p)
             P == Append(p, f)
             open == Ruby!Blocks(lines)
             N == Len(lines)
  <1>1. /\ FramesSound(p, i - 1) /\ FramesMatch(p, lines, i - 1) /\ s.depth = open[i - 1]
        /\ p \in Seq(RubyFrames) /\ n \in Nat /\ DOMAIN p = 1 .. n
    BY DEF RubySound, RubyMatches, RubyStates
  <1>2. Counted(open, lines) /\ lines[i] \in Ruby!RegularLines /\ N \in Nat
    BY BlocksCounted DEF Balanced
  <1>i. i \in Nat \ {0} /\ i \in 0 .. N /\ i - 1 \in 0 .. N /\ i - 1 \in Nat
    BY <1>2
  <1>3. open[i - 1] \in Int /\ open[i] = open[i - 1] + 1
    <2>1. Ruby!OpensBlock(lines[i])
      BY <1>2 DEF Ruby!OpensBlock, Ruby!Definers, Ruby!Containers, Ruby!RegularLines
    <2> QED
      BY <1>2, <1>i, <2>1 DEF Counted
  <1>4. /\ f.start = i /\ f.depth = s.depth + 1
        /\ f.kind = IF lines[i] = "def" THEN "method" ELSE lines[i]
        /\ f.qualified = Append(Ruby!CurrentClass(p), i)
    BY <1>2 DEF Ruby!Frame, Ruby!Definers, Ruby!Containers, Ruby!RegularLines
  <1>5. Increasing(f.qualified)
    <2>1. /\ Ruby!CurrentClass(p) \in Seq(Nat)
          /\ Ruby!ToSet(Ruby!CurrentClass(p)) = Opened(p, n)
      BY <1>1, <1>i, InnermostNamed
    <2>2. \A k \in 1 .. n : p[k].start < i
      <3>1. \A k \in 1 .. n : p[k].start \in 1 .. i - 1
        BY <1>1 DEF FramesSound
      <3> QED
        BY <1>i, <3>1
    <2>3. \A x \in Opened(p, n) : x < i
      BY <2>2 DEF Opened
    <2>4. Increasing(Ruby!CurrentClass(p))
      BY <1>1, InnermostIncreasing DEF FramesMatch
    <2> QED
      BY <1>4, <1>i, <2>1, <2>3, <2>4, NameGrows
  <1> HIDE DEF p, N
  <1>6. /\ DOMAIN P = 1 .. n + 1 /\ P[n + 1] = f /\ \A k \in 1 .. n : P[k] = p[k]
    BY <1>1
  <1> HIDE DEF P, n, open
  <1>7. \A k \in 1 .. n + 1 : k = n + 1 \/ k \in 1 .. n
    BY <1>1
  <1>8. ASSUME NEW k \in 1 .. n
        PROVE  /\ P[k].kind = IF lines[P[k].start] = "def" THEN "method" ELSE lines[P[k].start]
               /\ P[k].depth = open[P[k].start]
               /\ \A h \in P[k].start .. i : open[h] >= P[k].depth
               /\ Increasing(P[k].qualified)
               /\ P[k].depth < f.depth
    <2>1. /\ p[k].kind = IF lines[p[k].start] = "def" THEN "method" ELSE lines[p[k].start]
          /\ p[k].depth = open[p[k].start]
          /\ \A h \in p[k].start .. i - 1 : open[h] >= p[k].depth
          /\ Increasing(p[k].qualified)
      BY <1>1 DEF FramesMatch, open
    <2>2. p[k].start \in 1 .. i - 1 /\ p[k].depth \in Nat
      <3>1. k \in DOMAIN p /\ p[k] \in RubyFrames
        BY <1>1
      <3>2. p[k].start \in 1 .. i - 1
        BY <1>1, <3>1 DEF FramesSound
      <3>3. p[k].depth \in Nat
        BY <3>1 DEF RubyFrames
      <3> QED
        BY <3>2, <3>3
    <2>3. i - 1 \in p[k].start .. i - 1 /\ \A h \in p[k].start .. i : h = i \/ h \in p[k].start .. i - 1
      BY <1>i, <2>2
    <2>4. open[i - 1] >= p[k].depth /\ open[i] >= p[k].depth /\ p[k].depth < f.depth
      <3>1. open[i - 1] >= p[k].depth
        BY <2>1, <2>3
      <3> QED
        BY <1>1, <1>3, <1>4, <2>2, <3>1
    <2> QED
      BY <1>6, <2>1, <2>3, <2>4
  <1>9. /\ f.kind = IF lines[f.start] = "def" THEN "method" ELSE lines[f.start]
        /\ f.depth = open[f.start]
        /\ \A h \in f.start .. i : open[h] >= f.depth
    <2>1. \A h \in f.start .. i : h = i
      BY <1>4, <1>i
    <2> QED
      BY <1>1, <1>3, <1>4, <2>1
  <1>10. \A j, k \in DOMAIN P : j < k => P[j].depth < P[k].depth
    <2>1. \A j, k \in 1 .. n : j < k => p[j].depth < p[k].depth
      BY <1>1 DEF FramesMatch
    <2>2. \A k \in 1 .. n : ~(n + 1 < k)
      BY <1>1
    <2>3. ~(n + 1 < n + 1)
      BY <1>1
    <2> QED
      BY <1>6, <1>7, <1>8, <2>1, <2>2, <2>3
  <1>11. \A k \in DOMAIN P :
            /\ P[k].kind = IF lines[P[k].start] = "def" THEN "method" ELSE lines[P[k].start]
            /\ P[k].depth = open[P[k].start]
            /\ \A h \in P[k].start .. i : open[h] >= P[k].depth
            /\ Increasing(P[k].qualified)
    BY <1>5, <1>6, <1>7, <1>8, <1>9
  <1>12. FramesMatch(P, lines, i)
    BY <1>10, <1>11 DEF FramesMatch, open
  <1> QED
    BY <1>1, <1>3, <1>12 DEF P, p, open

\* A line that neither begins a frame nor ends one; n frames are left by it.
LEMMA FramesStayMatching ==
    ASSUME NEW lines, Balanced(lines), NEW i \in 1 .. Len(lines), NEW p \in Seq(RubyFrames),
           FramesSound(p, i - 1), FramesMatch(p, lines, i - 1),
           NEW P, NEW n \in 0 .. Len(p), DOMAIN P = 1 .. n, \A k \in 1 .. n : P[k] = p[k],
           \A k \in 1 .. n : p[k].depth <= Ruby!Blocks(lines)[i]
    PROVE  FramesMatch(P, lines, i)
  <1> DEFINE open == Ruby!Blocks(lines)
             N == Len(lines)
  <1>1. Counted(open, lines) /\ N \in Nat /\ i \in Nat \ {0}
    BY BlocksCounted DEF Balanced
  <1>2. open[i] \in Int
    BY <1>1 DEF Counted
  <1>3. \A k \in 1 .. n : k \in DOMAIN p
    OBVIOUS
  <1> HIDE DEF open, N
  <1>4. ASSUME NEW k \in 1 .. n
        PROVE  /\ P[k].kind = IF lines[P[k].start] = "def" THEN "method" ELSE lines[P[k].start]
               /\ P[k].depth = open[P[k].start]
               /\ \A h \in P[k].start .. i : open[h] >= P[k].depth
               /\ Increasing(P[k].qualified)
    <2>1. /\ p[k].kind = IF lines[p[k].start] = "def" THEN "method" ELSE lines[p[k].start]
          /\ p[k].depth = open[p[k].start]
          /\ \A h \in p[k].start .. i - 1 : open[h] >= p[k].depth
          /\ Increasing(p[k].qualified)
      BY <1>3 DEF FramesMatch, open
    <2>2. p[k].start \in 1 .. i - 1
      BY <1>3 DEF FramesSound
    <2>3. \A h \in p[k].start .. i : h = i \/ h \in p[k].start .. i - 1
      BY <1>1, <2>2
    <2>4. p[k].depth \in Nat
      <3>1. p[k] \in RubyFrames
        BY <1>3
      <3> QED
        BY <3>1 DEF RubyFrames
    <2>5. open[i] >= p[k].depth
      BY <1>2, <2>4 DEF open
    <2> QED
      BY <2>1, <2>3, <2>5
  <1>5. \A j, k \in 1 .. n : j < k => P[j].depth < P[k].depth
    BY <1>3 DEF FramesMatch
  <1> QED
    BY <1>4, <1>5 DEF FramesMatch, open

LEMMA RubyMatchesRound ==
    ASSUME NEW lines, Balanced(lines), NEW i \in 1 .. Len(lines), NEW s \in RubyStates,
           RubySound(s, lines, i - 1), RubyMatches(s, lines, i - 1)
    PROVE  RubyMatches(Ruby!ScanLine(s, lines[i], i), lines, i)
  <1> DEFINE p == s.stack
             q == s.nodes
             n == Len(p)
             open == Ruby!Blocks(lines)
             N == Len(lines)
             t == Ruby!ScanLine(s, lines[i], i)
  <1>1. /\ FramesSound(p, i - 1) /\ FramesMatch(p, lines, i - 1) /\ s.depth = open[i - 1]
        /\ p \in Seq(RubyFrames) /\ n \in Nat /\ DOMAIN p = 1 .. n /\ s.depth \in Nat
        /\ q \in Seq(RubyNodes) /\ \A k \in DOMAIN q : Matches(q[k], lines)
    BY DEF RubySound, RubyMatches, RubyStates
  <1>2. Counted(open, lines) /\ lines[i] \in Ruby!RegularLines /\ open[i] >= 0 /\ N \in Nat
    BY BlocksCounted DEF Balanced
  <1>i. i \in Nat \ {0} /\ i \in 0 .. N /\ i - 1 \in 0 .. N /\ i - 1 \in Nat
    BY <1>2
  <1>3. /\ open[i - 1] \in Int /\ open[i] \in Int
        /\ Ruby!OpensBlock(lines[i]) => open[i] = open[i - 1] + 1
        /\ lines[i] = "end" => open[i] = open[i - 1] - 1
        /\ ~Ruby!OpensBlock(lines[i]) /\ lines[i] # "end" => open[i] = open[i - 1]
    BY <1>2, <1>i DEF Counted
  \* What the innermost frame says of the others.
  <1>4. ASSUME NEW k \in 1 .. n
        PROVE  /\ p[k].depth \in Nat /\ p[k].start \in 1 .. i - 1 /\ p[k].depth <= s.depth
               /\ k # n => p[k].depth < p[n].depth
    <2>1. p[k] \in RubyFrames /\ p[k].start \in 1 .. i - 1
      <3>1. k \in DOMAIN p /\ p[k] \in RubyFrames
        BY <1>1
      <3> QED
        BY <1>1, <3>1 DEF FramesSound
    <2>2. p[k].depth \in Nat
      BY <2>1 DEF RubyFrames
    <2>3. i - 1 \in p[k].start .. i - 1
      BY <1>i, <2>1
    <2>4. open[i - 1] >= p[k].depth
      BY <1>1, <2>3 DEF FramesMatch
    <2>5. k # n => k < n /\ n \in 1 .. n
      BY <1>1
    <2>6. k # n => p[k].depth < p[n].depth
      BY <1>1, <2>5 DEF FramesMatch
    <2> QED
      BY <1>1, <2>1, <2>2, <2>4, <2>6
  <1> HIDE DEF p, q, n, N
  <1>5. CASE lines[i] \in Ruby!Definers
    <2> DEFINE f == Ruby!Frame(s, lines[i], i)
    <2>1. s.depth + 1 = open[i] /\ FramesMatch(Append(p, f), lines, i)
      BY <1>5, FrameOpensMatching DEF p
    <2>2. t.depth = s.depth + 1 /\ t.stack = Append(p, f) /\ t.nodes = q
      BY <1>5 DEF Ruby!ScanLine, Ruby!Definers, Ruby!Containers, RubyStates, p, q
    <2> QED
      BY <1>1, <2>1, <2>2 DEF RubyMatches
  <1>6. CASE lines[i] \in {"open", "other"}
    <2>1. /\ lines[i] \notin Ruby!Definers /\ lines[i] # "end"
          /\ Ruby!OpensBlock(lines[i]) <=> lines[i] = "open"
          /\ Ruby!Opens(lines[i]) = IF lines[i] = "open" THEN 1 ELSE 0
      BY <1>6 DEF Ruby!Definers, Ruby!Containers, Ruby!OpensBlock, Ruby!Opens
    <2>2. t.depth = s.depth + Ruby!Opens(lines[i]) /\ t.stack = p /\ t.nodes = q
      BY <2>1 DEF Ruby!ScanLine, RubyStates, p, q
    <2>3. t.depth = open[i] /\ s.depth <= open[i]
      BY <1>1, <1>3, <1>6, <2>1, <2>2
    <2>4. \A k \in 1 .. n : p[k].depth <= open[i]
      BY <1>1, <1>3, <1>4, <2>3
    <2>5. FramesMatch(p, lines, i)
      <3>1. n \in 0 .. Len(p)
        BY <1>1 DEF n
      <3> HIDE DEF t
      <3> QED
        BY <1>1, <2>4, <3>1, FramesStayMatching
    <2> QED
      BY <1>1, <2>2, <2>3, <2>5 DEF RubyMatches
  <1>7. CASE lines[i] = "end"
    <2> DEFINE closes == p # <<>> /\ Ruby!Last(p).depth = s.depth
    <2>1. lines[i] \notin Ruby!Definers /\ t = Ruby!End(s, i)
      BY <1>7 DEF Ruby!ScanLine, Ruby!Definers, Ruby!Containers
    <2>2. s.depth > 0 /\ open[i] = s.depth - 1
      BY <1>1, <1>2, <1>3, <1>7
    <2>3. CASE closes
      <3> DEFINE P == Ruby!Front(p)
                 f == p[n]
                 node == Ruby!Node(f, i)
                 Q == Append(q, node)
      <3>1. n \in 1 .. n /\ n # 0 /\ f = Ruby!Last(p) /\ f \in RubyFrames
        <4>1. n # 0
          BY <1>1, <2>3 DEF n
        <4>2. f = Ruby!Last(p)
          BY DEF Ruby!Last, n
        <4> QED
          BY <1>1, <4>1, <4>2
      <3>2. t.depth = open[i] /\ t.stack = P /\ t.nodes = Q
        BY <2>1, <2>2, <2>3, <3>1 DEF Ruby!End, Ruby!CloseFrame, RubyStates, p, q
      <3>3. DOMAIN P = 1 .. n - 1 /\ \A k \in 1 .. n - 1 : P[k] = p[k]
        <4>1. P = SubSeq(p, 1, n - 1)
          BY DEF Ruby!Front, n
        <4> QED
          BY <1>1, <3>1, <4>1
      <3>4. f.depth = s.depth
        BY <2>3, <3>1
      <3> HIDE DEF t, P
      <3>5. FramesMatch(P, lines, i)
        <4>1. \A k \in 1 .. n - 1 : k \in 1 .. n /\ k # n
          BY <1>1
        <4>2. \A k \in 1 .. n - 1 : p[k].depth \in Nat /\ p[k].depth < s.depth
          BY <1>4, <3>4, <4>1
        <4>3. \A k \in 1 .. n - 1 : p[k].depth <= open[i]
          BY <1>1, <2>2, <4>2
        <4>4. n - 1 \in 0 .. Len(p)
          BY <1>1, <3>1 DEF n
        <4> QED
          BY <1>1, <3>3, <4>3, <4>4, FramesStayMatching
      <3>6. Matches(node, lines)
        <4>1. /\ node.first = f.start /\ node.last = i /\ node.qualified = f.qualified
              /\ node.type = IF f.kind = "method" THEN "function" ELSE f.kind
          BY DEF Ruby!Node
        <4>2. /\ f.kind = IF lines[f.start] = "def" THEN "method" ELSE lines[f.start]
              /\ f.depth = open[f.start] /\ Increasing(f.qualified)
              /\ \A h \in f.start .. i - 1 : open[h] >= f.depth
          BY <1>1, <3>1 DEF FramesMatch
        <4>3. f.start \in 1 .. i - 1
          BY <1>4, <3>1
        <4>4. lines[f.start] # "method"
          <5>1. f.start \in 1 .. Len(lines)
            BY <1>i, <1>2, <4>3 DEF N
          <5> QED
            BY <5>1 DEF Balanced, Ruby!RegularLines
        <4>5. node.type = IF lines[node.first] = "def" THEN "function" ELSE lines[node.first]
          BY <4>1, <4>2, <4>4
        <4>6. Ruby!EndsAt(lines, node.first, node.last)
          <5>1. f.start < i
            BY <1>i, <4>3
          <5>2. open[i] < open[f.start]
            BY <1>1, <2>2, <3>4, <4>2
          <5> QED
            BY <4>1, <4>2, <5>1, <5>2 DEF Ruby!EndsAt
        <4>7. /\ Qualifies(Opened(p, n - 1), f.qualified)
              /\ Ruby!ToSet(f.qualified) = Opened(p, n - 1) \cup {f.start}
          BY <1>1, <3>1 DEF FramesSound
        <4> QED
          BY <4>1, <4>2, <4>5, <4>6, <4>7 DEF Matches, Qualifies
      <3>7. \A k \in DOMAIN Q : Matches(Q[k], lines)
        <4>1. \A k \in DOMAIN Q : Q[k] = node \/ (k \in DOMAIN q /\ Q[k] = q[k])
          BY <1>1
        <4> QED
          BY <1>1, <3>6, <4>1
      <3> QED
        BY <3>2, <3>5, <3>7 DEF RubyMatches, t
    <2>4. CASE ~closes
      <3>1. t.depth = open[i] /\ t.stack = p /\ t.nodes = q
        BY <2>1, <2>2, <2>4 DEF Ruby!End, RubyStates, p, q
      <3>2. \A k \in 1 .. n : p[k].depth <= open[i]
        <4>1. CASE n = 0
          BY <4>1
        <4>2. CASE n # 0
          <5>1. n \in 1 .. n /\ p # <<>> /\ Ruby!Last(p) = p[n]
            BY <1>1, <4>2 DEF Ruby!Last, n
          <5>2. p[n].depth \in Nat /\ p[n].depth <= s.depth /\ p[n].depth # s.depth
            BY <1>4, <2>4, <5>1
          <5>3. \A k \in 1 .. n : p[k].depth \in Nat /\ p[k].depth <= p[n].depth
            BY <1>4, <5>2
          <5> QED
            BY <1>1, <2>2, <5>2, <5>3
        <4> QED
          BY <4>1, <4>2
      <3> HIDE DEF t
      <3>3. FramesMatch(p, lines, i)
        <4>1. n \in 0 .. Len(p)
          BY <1>1 DEF n
        <4> QED
          BY <1>1, <3>2, <4>1, FramesStayMatching
      <3> QED
        BY <1>1, <3>1, <3>3 DEF RubyMatches, t
    <2> QED
      BY <2>3, <2>4
  <1>8. lines[i] \in Ruby!Definers \/ lines[i] \in {"open", "other"} \/ lines[i] = "end"
    BY <1>2 DEF Ruby!RegularLines, Ruby!Definers, Ruby!Containers
  <1> QED
    BY <1>5, <1>6, <1>7, <1>8

\* The nodes of a well-formed program are its definitions.
LEMMA RubyFinds == ASSUME NEW lines \in Seq(RubyLines) PROVE Ruby!FindsDefinitions(lines)
  <1> SUFFICES ASSUME Ruby!WellFormed(lines) PROVE Ruby!FindsDefinitions(lines)
    BY DEF Ruby!FindsDefinitions
  <1> DEFINE N == Len(lines)
             open == Ruby!Blocks(lines)
  <1>n. N \in Nat /\ DOMAIN lines = 1 .. N /\ \A i \in 1 .. N : i - 1 \in 0 .. N /\ i \in 0 .. N
    OBVIOUS
  <1>b. Balanced(lines) /\ open[N] = 0
    BY <1>n DEF Balanced, Ruby!WellFormed
  <1>0. PICK after : RubyRun(after, lines)
    BY RubyRuns
  <1>1. /\ after \in [0 .. N -> RubyStates] /\ after[0] = Ruby!Scan
        /\ \A i \in 1 .. N : after[i] = Ruby!ScanLine(after[i - 1], lines[i], i)
        /\ Ruby!Scanned(lines) = after[N]
    BY <1>0 DEF RubyRun
  <1> DEFINE A == {i \in 0 .. N : RubySound(after[i], lines, i) /\ RubyMatches(after[i], lines, i)}
  <1>2. 0 \in A
    <2>1. RubySound(Ruby!Scan, lines, 0)
      BY ScanSound
    <2>2. RubyMatches(Ruby!Scan, lines, 0)
      <3>1. open[0] = 0
        BY BlocksCounted DEF Counted
      <3> QED
        BY <3>1 DEF RubyMatches, FramesMatch, Ruby!Scan
    <2> QED
      BY <1>1, <1>n, <2>1, <2>2
  <1>3. ASSUME NEW i \in 1 .. N, i - 1 \in A PROVE i \in A
    <2>1. /\ after[i - 1] \in RubyStates /\ RubySound(after[i - 1], lines, i - 1)
          /\ RubyMatches(after[i - 1], lines, i - 1)
      BY <1>1, <1>n, <1>3
    <2>2. RubySound(after[i], lines, i)
      BY <1>1, <1>n, <2>1, RubySoundRound
    <2>3. RubyMatches(after[i], lines, i)
      BY <1>1, <1>n, <1>b, <2>1, RubyMatchesRound
    <2> QED
      BY <1>n, <2>2, <2>3
  <1> DEFINE s == Ruby!Scanned(lines)
             r == Ruby!ParseRuby(lines)
  <1>4. s \in RubyStates /\ RubySound(s, lines, N) /\ RubyMatches(s, lines, N)
    <2>1. 0 .. N \subseteq A
      <3> HIDE DEF A, N
      <3> QED
        BY <1>n, <1>2, <1>3, Induct
    <2>2. N \in 0 .. N
      BY <1>n
    <2> QED
      BY <1>1, <2>1, <2>2
  <1>5. r = s.nodes \o [k \in DOMAIN s.stack |-> Ruby!Node(Ruby!Reverse(s.stack)[k], N)]
    BY DEF Ruby!ParseRuby
  <1> HIDE DEF s, r, A
  <1>6. s.stack = <<>>
    <2>1. s.stack \in Seq(RubyFrames)
      BY <1>4 DEF RubyStates
    <2>2. ASSUME NEW k \in DOMAIN s.stack PROVE FALSE
      <3>1. s.stack[k].start \in 1 .. N /\ N \in s.stack[k].start .. N
        BY <1>4, <1>n, <2>2 DEF RubySound, FramesSound
      <3>2. s.stack[k].depth = open[s.stack[k].start] /\ open[N] >= s.stack[k].depth
        BY <1>4, <3>1 DEF RubyMatches, FramesMatch
      <3>3. PICK h \in 1 .. N : h = s.stack[k].start
        BY <3>1
      <3>4. lines[h] \in Ruby!Definers
        BY <1>4, <3>3 DEF RubySound, Covered
      <3>5. Ruby!OpensBlock(lines[h])
        BY <1>b, <3>4 DEF Balanced, Ruby!OpensBlock, Ruby!Definers, Ruby!Containers, Ruby!RegularLines
      <3>6. open[h] = open[h - 1] + 1
        BY <3>5, BlocksCounted DEF Counted
      <3>7. open[h - 1] >= 0 /\ open[h - 1] \in Int
        <4>1. h = 1 \/ h - 1 \in 1 .. N
          BY <1>n
        <4>2. open[0] = 0 /\ open \in [0 .. N -> Int]
          BY BlocksCounted DEF Counted
        <4>3. h - 1 \in 0 .. N
          BY <1>n
        <4>4. h = 1 => h - 1 = 0
          OBVIOUS
        <4>5. \A i \in 1 .. N : open[i] >= 0
          BY <1>b DEF Balanced
        <4> QED
          BY <4>1, <4>2, <4>3, <4>4, <4>5
      <3> QED
        BY <1>b, <3>2, <3>3, <3>6, <3>7
    <2>3. DOMAIN s.stack = 1 .. Len(s.stack) /\ Len(s.stack) \in Nat
      BY <2>1
    <2>4. Len(s.stack) = 0
      <3>1. Len(s.stack) # 0 => 1 \in DOMAIN s.stack
        BY <2>3
      <3> QED
        BY <2>2, <3>1
    <2> QED
      BY <2>1, <2>4
  <1>7. r = s.nodes /\ s.nodes \in Seq(RubyNodes)
    <2>1. s.nodes \in Seq(RubyNodes)
      BY <1>4 DEF RubyStates
    <2>2. [k \in DOMAIN <<>> |-> Ruby!Node(Ruby!Reverse(<<>>)[k], N)] = <<>>
      OBVIOUS
    <2>3. r = s.nodes \o <<>>
      BY <1>5, <1>6, <2>2
    <2> QED
      BY <2>1, <2>3
  <1>8. AllNested(r, lines, N)
    <2> DEFINE p == s.stack
               q == s.nodes
    <2>1. FramesSound(p, N) /\ NodesSound(q, p, N) /\ Covered(q, p, lines, N)
      BY <1>4 DEF RubySound
    <2>2. N \in Nat
      BY <1>n
    <2>3. r = q \o [k \in DOMAIN p |-> Ruby!Node(Ruby!Reverse(p)[k], N)]
      BY <1>5
    <2> HIDE DEF p, q, N
    <2> QED
      BY <2>1, <2>2, <2>3, FileCloses
  <1>9. \A k \in DOMAIN r : Matches(r[k], lines)
    BY <1>4, <1>7 DEF RubyMatches
  <1> HIDE DEF N, open
  <1>10. /\ r \in Seq(RubyNodes)
         /\ {r[k].first : k \in DOMAIN r} = {h \in 1 .. N : lines[h] \in Ruby!Definers}
         /\ \A j, k \in DOMAIN r : j # k => r[j].first # r[k].first /\ Nested(r[j], r[k])
    BY <1>8 DEF AllNested
  <1>11. ASSUME NEW k \in DOMAIN r PROVE Ruby!IsDefinition(lines, r[k])
    <2> DEFINE i == r[k].first
               name == r[k].qualified
    <2>1. \A j \in DOMAIN r : /\ r[j].first \in 1 .. N /\ r[j].first < r[j].last /\ r[j].last \in Nat
                              /\ r[j].first \in Nat
                              /\ r[j].type \in Ruby!Containers <=> lines[r[j].first] \in Ruby!Containers
      <3>1. ASSUME NEW j \in DOMAIN r
            PROVE  /\ r[j].first \in 1 .. N /\ r[j].first < r[j].last /\ r[j].last \in Nat
                   /\ r[j].first \in Nat
                   /\ r[j].type \in Ruby!Containers <=> lines[r[j].first] \in Ruby!Containers
        <4>1. r[j] \in RubyNodes /\ r[j].first \in {h \in 1 .. N : lines[h] \in Ruby!Definers}
          BY <1>10
        <4>2. Matches(r[j], lines)
          BY <1>9
        <4>3. r[j].first < r[j].last
          BY <4>2 DEF Matches, Ruby!EndsAt
        <4>4. r[j].type = IF lines[r[j].first] = "def" THEN "function" ELSE lines[r[j].first]
          BY <4>2 DEF Matches
        <4>5. r[j].type \in Ruby!Containers <=> lines[r[j].first] \in Ruby!Containers
          BY <4>4 DEF Ruby!Containers
        <4>6. r[j].last \in Nat /\ r[j].first \in Nat /\ r[j].first \in 1 .. N
          BY <4>1 DEF RubyNodes
        <4> QED
          BY <4>3, <4>5, <4>6
      <3> QED
        BY <3>1
    <2>2. \A j \in DOMAIN r : \A e \in 1 .. i : Ruby!EndsAt(lines, r[j].first, e) => r[j].last <= e
      <3>1. ASSUME NEW j \in DOMAIN r, NEW e \in 1 .. i, Ruby!EndsAt(lines, r[j].first, e), ~(r[j].last <= e)
            PROVE  FALSE
        <4>1. e \in r[j].first .. r[j].last - 1
          BY <2>1, <3>1 DEF Ruby!EndsAt
        <4>2. open[e] >= open[r[j].first]
          BY <1>9, <4>1 DEF Matches, Ruby!EndsAt, open
        <4>3. open[e] < open[r[j].first]
          BY <3>1 DEF Ruby!EndsAt, open
        <4>4. e \in 0 .. N /\ r[j].first \in 0 .. N /\ open \in [0 .. N -> Int]
          <5>1. open \in [0 .. N -> Int]
            BY BlocksCounted DEF Counted, open, N
          <5>2. i \in 1 .. N /\ r[j].first \in 1 .. N
            BY <2>1
          <5>3. e \in 0 .. N /\ r[j].first \in 0 .. N
            BY <1>n, <5>2
          <5> QED
            BY <5>1, <5>3
        <4> QED
          BY <4>2, <4>3, <4>4
      <3>2. \A j \in DOMAIN r : r[j].last \in Nat
        BY <2>1
      <3> QED
        BY <3>1
    <2>3. \A j \in DOMAIN r : Ruby!EndsAt(lines, r[j].first, r[j].last)
      BY <1>9 DEF Matches
    <2>4. ASSUME NEW j \in DOMAIN r, r[j].first < i
          PROVE  Contained(r[k], r[j]) <=> \A e \in 1 .. i : ~Ruby!EndsAt(lines, r[j].first, e)
      <3>1. j # k
        BY <2>1, <2>4
      <3>2. Nested(r[j], r[k])
        BY <1>10, <3>1
      <3>3. Contained(r[k], r[j]) <=> r[j].last > i
        BY <2>1, <2>4, <3>2 DEF Nested, Contained
      <3>4. CASE r[j].last > i
        <4>1. \A e \in 1 .. i : ~(r[j].last <= e)
          BY <2>1, <3>4
        <4> QED
          BY <2>2, <3>3, <3>4, <4>1
      <3>5. CASE ~(r[j].last > i)
        <4>1. r[j].last \in 1 .. i
          BY <2>1, <3>5
        <4> QED
          BY <2>3, <3>3, <3>5, <4>1
      <3> QED
        BY <3>4, <3>5
    <2>5. Ruby!Enclosing(lines, i) = Ruby!ToSet(Ruby!Front(name))
      <3> DEFINE Names == {r[j].first : j \in {j \in DOMAIN r : r[j].type \in Ruby!Containers /\ Contained(r[k], r[j])}}
      <3>1. Ruby!ToSet(Ruby!Front(name)) = Names
        BY <1>8 DEF AllNested
      <3>2. ASSUME NEW x \in Ruby!Enclosing(lines, i) PROVE x \in Names
        <4>1. x \in 1 .. (i - 1) /\ lines[x] \in Ruby!Containers /\ \A e \in 1 .. i : ~Ruby!EndsAt(lines, x, e)
          BY <3>2 DEF Ruby!Enclosing
        <4>2. x \in 1 .. N /\ x < i
          BY <1>n, <2>1, <4>1
        <4>3. lines[x] \in Ruby!Definers
          BY <4>1 DEF Ruby!Definers
        <4>4. PICK j \in DOMAIN r : r[j].first = x
          BY <1>10, <4>2, <4>3
        <4>5. Contained(r[k], r[j]) /\ r[j].type \in Ruby!Containers
          BY <2>1, <2>4, <4>1, <4>2, <4>4
        <4> QED
          BY <4>4, <4>5
      <3>3. ASSUME NEW x \in Names PROVE x \in Ruby!Enclosing(lines, i)
        <4>1. PICK j \in DOMAIN r : r[j].type \in Ruby!Containers /\ Contained(r[k], r[j]) /\ x = r[j].first
          BY <3>3
        <4>2. x < i
          BY <4>1 DEF Contained
        <4>3. x \in 1 .. (i - 1)
          BY <2>1, <4>1, <4>2
        <4>4. lines[x] \in Ruby!Containers /\ \A e \in 1 .. i : ~Ruby!EndsAt(lines, x, e)
          BY <2>1, <2>4, <4>1, <4>2
        <4> QED
          BY <4>3, <4>4 DEF Ruby!Enclosing
      <3> QED
        BY <3>1, <3>2, <3>3
    <2>6. Matches(r[k], lines)
      BY <1>9
    <2>7. lines[i] \in Ruby!Containers => r[k].type = lines[i]
      BY <2>6 DEF Matches, Ruby!Containers
    <2> QED
      BY <2>5, <2>6, <2>7 DEF Matches, Increasing, Ruby!IsDefinition
  <1> DEFINE first == [k \in DOMAIN r |-> r[k].first]
  <1>12. Ruby!IsInjective(first)
    BY <1>10 DEF Ruby!IsInjective
  <1>13. Ruby!ToSet(first) = {i \in DOMAIN lines : lines[i] \in Ruby!Definers}
    BY <1>10, <1>n DEF Ruby!ToSet, N
  <1>14. \A n \in Ruby!ToSet(r) : Ruby!IsDefinition(lines, n)
    BY <1>11 DEF Ruby!ToSet
  <1> QED
    BY <1>12, <1>13, <1>14 DEF Ruby!FindsDefinitions, r

-----------------------------------------------------------------------------
\* The scanner of Clojure: what it carries from token to token.

ClojureForms == [first : Nat, last : Nat]
ClojureStates == [mode : Clojure!Modes, start : Nat, depth : Nat, forms : Seq(ClojureForms)]

LEMMA ClojureRound ==
    ASSUME NEW s \in ClojureStates, NEW t \in Clojure!Tokens, NEW i \in Nat
    PROVE  Clojure!ScanToken(s, t, i) \in ClojureStates
  <1>s. /\ s.mode \in Clojure!Modes /\ s.start \in Nat /\ s.depth \in Nat
        /\ s.forms \in Seq(ClojureForms)
    BY DEF ClojureStates
  <1>m. \A mode \in Clojure!Modes : Clojure!In(s, mode) \in ClojureStates
    BY DEF Clojure!In, ClojureStates
  <1>1. Clojure!AtTop(s, t, i) \in ClojureStates
    <2>1. [s EXCEPT !.mode = "code", !.start = i, !.depth = 1] \in ClojureStates
      BY DEF ClojureStates, Clojure!Modes
    <2> QED
      BY <1>m, <2>1 DEF Clojure!AtTop, Clojure!Modes
  <1>2. Clojure!InForm(s, t, i) \in ClojureStates
    <2>1. \A d \in Nat : [s EXCEPT !.depth = d] \in ClojureStates
      BY DEF ClojureStates
    <2>2. \A fs \in Seq(ClojureForms) :
              [s EXCEPT !.mode = "top", !.depth = 0, !.forms = fs] \in ClojureStates
      BY DEF ClojureStates, Clojure!Modes
    <2>3. Append(s.forms, Clojure!Form(s, i)) \in Seq(ClojureForms)
      BY <1>s DEF Clojure!Form, ClojureForms
    <2>4. s.depth + 1 \in Nat /\ (s.depth > 1 => s.depth - 1 \in Nat)
      BY <1>s
    <2>5. "string" \in Clojure!Modes /\ "comment" \in Clojure!Modes
      BY DEF Clojure!Modes
    <2> QED
      BY <1>m, <2>1, <2>2, <2>3, <2>4, <2>5 DEF Clojure!InForm
  <1>3. \A mode \in {"top", "skip", "code", "string", "escape", "comment"} :
            Clojure!In(s, mode) \in ClojureStates
    BY <1>m DEF Clojure!Modes
  <1>4. /\ Clojure!SkipLine(s, t) \in ClojureStates /\ Clojure!InString(s, t) \in ClojureStates
        /\ (IF t = "\n" THEN Clojure!In(s, "code") ELSE s) \in ClojureStates
    BY <1>3 DEF Clojure!SkipLine, Clojure!InString
  <1> QED
    BY <1>s, <1>1, <1>2, <1>3, <1>4 DEF Clojure!ScanToken, Clojure!Modes

\* after[i] is what the scanner has after i tokens.
ClojureRun(after, tokens) ==
    /\ after \in [0 .. Len(tokens) -> ClojureStates]
    /\ after[0] = Clojure!Scan
    /\ \A i \in 1 .. Len(tokens) : after[i] = Clojure!ScanToken(after[i - 1], tokens[i], i)
    /\ Clojure!Forms(tokens) =
           LET s == after[Len(tokens)]
           IN  IF s.depth > 0 THEN Append(s.forms, Clojure!Form(s, Len(tokens))) ELSE s.forms

LEMMA ClojureRuns ==
    ASSUME NEW tokens \in Seq(Clojure!Tokens) PROVE \E after : ClojureRun(after, tokens)
  <1> DEFINE N == Len(tokens)
             G == [i \in 1 .. N |-> [s \in ClojureStates |-> Clojure!ScanToken(s, tokens[i], i)]]
             Round(f) ==
                 [i \in 0 .. N |->
                     IF i = 0 THEN Clojure!Scan ELSE Clojure!ScanToken(f[i - 1], tokens[i], i)]
             after == CHOOSE f : f = Round(f)
  <1>1. N \in Nat /\ \A i \in 1 .. N : tokens[i] \in Clojure!Tokens /\ i \in Nat
    OBVIOUS
  <1>2. G \in [1 .. N -> [ClojureStates -> ClojureStates]]
    BY <1>1, ClojureRound
  <1>s. Clojure!Scan \in ClojureStates
    BY DEF Clojure!Scan, ClojureStates, Clojure!Modes
  <1>3. PICK f : Run(f, ClojureStates, Clojure!Scan, N, G)
    <2> HIDE DEF G, N
    <2> QED
      BY <1>1, <1>2, <1>s, LoopRuns
  <1>4. \A i \in 0 .. N : i = 0 \/ (i \in 1 .. N /\ i - 1 \in 0 .. N)
    BY <1>1
  <1>5. f = Round(f)
    BY <1>3, <1>4 DEF Run
  <1>6. after = Round(after)
    BY <1>5
  <1>7. Clojure!Forms(tokens) = LET s == after[N]
                                IN  IF s.depth > 0 THEN Append(s.forms, Clojure!Form(s, N)) ELSE s.forms
    BY DEF Clojure!Forms
  <1> HIDE DEF after
  <1>8. DOMAIN after = 0 .. N /\ after[0] = Clojure!Scan
    BY <1>6, <1>1
  <1>c. \A i \in 1 .. N : i - 1 \in 0 .. N /\ i \in 0 .. N /\ i # 0 /\ i \in Nat
    BY <1>1
  <1> HIDE DEF N
  <1>9. ASSUME NEW i \in 1 .. N PROVE after[i] = Clojure!ScanToken(after[i - 1], tokens[i], i)
    <2>1. after[i] = Round(after)[i]
      BY <1>6
    <2> HIDE <1>6
    <2> QED
      BY <2>1, <1>c
  <1>10. after \in [0 .. N -> ClojureStates]
    <2> DEFINE A == {i \in 0 .. N : after[i] \in ClojureStates}
    <2>1. 0 \in A
      BY <1>8, <1>1, <1>s
    <2>2. ASSUME NEW i \in 1 .. N, i - 1 \in A PROVE i \in A
      BY <1>1, <1>9, <1>c, <2>2, ClojureRound
    <2> HIDE DEF A
    <2>3. 0 .. N \subseteq A
      BY <1>1, <2>1, <2>2, Induct
    <2>4. after = [i \in 0 .. N |-> after[i]]
      BY <1>6
    <2> QED
      BY <2>3, <2>4 DEF A
  <1> QED
    BY <1>7, <1>8, <1>9, <1>10 DEF ClojureRun, N

LEMMA ClojurePieces ==
    ASSUME NEW tokens \in Seq(Clojure!Tokens)
    PROVE  /\ Clojure!Forms(tokens) \in Seq(ClojureForms)
           /\ Len(Clojure!ParseClojure(tokens)) \in Nat
  <1>1. PICK after : ClojureRun(after, tokens)
    BY ClojureRuns
  <1>n. Len(tokens) \in Nat
    OBVIOUS
  <1> DEFINE s == after[Len(tokens)]
  <1>2. s \in ClojureStates
    BY <1>1, <1>n DEF ClojureRun
  <1>3. Clojure!Forms(tokens) = IF s.depth > 0 THEN Append(s.forms, Clojure!Form(s, Len(tokens))) ELSE s.forms
    BY <1>1 DEF ClojureRun
  <1> HIDE DEF s
  <1>4. Clojure!Form(s, Len(tokens)) \in ClojureForms /\ s.forms \in Seq(ClojureForms)
    BY <1>2, <1>n DEF Clojure!Form, ClojureForms, ClojureStates
  <1>5. Clojure!Forms(tokens) \in Seq(ClojureForms)
    BY <1>3, <1>4
  <1>6. \A q : Clojure!Select(Clojure!Forms(tokens), q) = Select(Clojure!Forms(tokens), q)
    BY DEF Select, Clojure!Select
  <1>7. \A q : Select(Clojure!Forms(tokens), q) \in Seq(ClojureForms)
    BY <1>5, SelectKeeps
  <1> QED
    BY <1>5, <1>6, <1>7 DEF Clojure!ParseClojure

-----------------------------------------------------------------------------
\* The windows of a document.

LEMMA StepTyped == Step \in Nat \ {0} /\ ChunkSize \in Nat
  BY ChunksAssumption DEF Step

LEMMA WindowsTyped ==
    ASSUME NEW n \in Nat, n > ChunkSize
    PROVE  /\ Windows(n) \in Seq(Nat \X Nat)
           /\ Len(Windows(n)) \in Nat \ {0}
           /\ \A k \in 1 .. Len(Windows(n)) :
                  /\ Windows(n)[k][1] = (k - 1) * Step + 1
                  /\ Windows(n)[k][2] = IF (k - 1) * Step + ChunkSize < n
                                        THEN (k - 1) * Step + ChunkSize ELSE n
  <1> DEFINE rest == n - ChunkSize
             steps == rest \div Step + (IF rest % Step = 0 THEN 0 ELSE 1)
  <1>1. Step \in Nat \ {0} /\ ChunkSize \in Nat /\ rest \in Nat \ {0}
    BY StepTyped
  <1>2. steps \in Nat
    <2>1. rest \div Step \in Nat
      BY <1>1
    <2> QED
      BY <2>1
  <1>3. Windows(n) = [k \in 1 .. (steps + 1) |->
                         <<(k - 1) * Step + 1, Min({(k - 1) * Step + ChunkSize, n})>>]
    BY DEF Windows
  <1> HIDE DEF steps, rest
  <1>4. ASSUME NEW k \in 1 .. (steps + 1)
        PROVE  /\ (k - 1) * Step \in Nat
               /\ Min({(k - 1) * Step + ChunkSize, n}) =
                      IF (k - 1) * Step + ChunkSize < n THEN (k - 1) * Step + ChunkSize ELSE n
    <2>1. k - 1 \in Nat
      BY <1>2
    <2>2. (k - 1) * Step \in Nat
      BY <1>1, <2>1
    <2> DEFINE m == (k - 1) * Step + ChunkSize
    <2>3. m \in Nat
      BY <1>1, <2>2
    <2> HIDE DEF m
    <2>4. Min({m, n}) \in {m, n} /\ Min({m, n}) <= m /\ Min({m, n}) <= n
      BY <2>3, LeastOf
    <2>5. Min({m, n}) = IF m < n THEN m ELSE n
      BY <2>3, <2>4
    <2> QED
      BY <2>2, <2>5 DEF m
  <1> DEFINE W == Windows(n)
  <1>5. Len(W) = steps + 1 /\ DOMAIN W = 1 .. (steps + 1)
    BY <1>2, <1>3
  <1>6. ASSUME NEW k \in 1 .. (steps + 1)
        PROVE  /\ W[k] \in Nat \X Nat /\ W[k][1] = (k - 1) * Step + 1
               /\ W[k][2] = IF (k - 1) * Step + ChunkSize < n THEN (k - 1) * Step + ChunkSize ELSE n
    <2>1. W[k] = <<(k - 1) * Step + 1, Min({(k - 1) * Step + ChunkSize, n})>>
      BY <1>3
    <2>2. W[k][1] = (k - 1) * Step + 1 /\ W[k][2] = Min({(k - 1) * Step + ChunkSize, n})
      BY <2>1
    <2>3. W[k][1] \in Nat /\ W[k][2] \in Nat
      BY <1>1, <1>4, <2>2
    <2> QED
      BY <1>4, <2>1, <2>2, <2>3
  <1>7. W \in Seq(Nat \X Nat)
    BY <1>2, <1>3, <1>5, <1>6
  <1> HIDE DEF W
  <1>8. Len(W) \in Nat \ {0}
    BY <1>2, <1>5
  <1>9. ASSUME NEW k \in 1 .. Len(W)
        PROVE  /\ W[k][1] = (k - 1) * Step + 1
               /\ W[k][2] = IF (k - 1) * Step + ChunkSize < n THEN (k - 1) * Step + ChunkSize ELSE n
    <2>1. k \in 1 .. (steps + 1)
      BY <1>5
    <2> QED
      BY <1>6, <2>1, Zenon
  <1> QED
    BY <1>7, <1>8, <1>9, Zenon DEF W
-----------------------------------------------------------------------------
\* The forms of Clojure.

\* A definition begins a line at token j.
Defines(tokens, j) == tokens[j] = "(defn" /\ (j = 1 \/ tokens[j - 1] = "\n")

Holds(forms, j) == \E k \in DOMAIN forms : forms[k].first <= j /\ j <= forms[k].last

\* Forms that are apart, in order, and over by token i.
Apart(forms, i) ==
    /\ \A k \in 1 .. (Len(forms) - 1) : forms[k].last < forms[k + 1].first
    /\ \A k \in 1 .. Len(forms) : forms[k].last <= i

\* The scanner after i tokens: the form it is in, if any, is behind the others,
\* a line is never begun in the middle of passing over one, and no definition
\* was lost so far.
ClojureSound(s, tokens, i) ==
    /\ s.mode \in {"top", "skip"} <=> s.depth = 0
    /\ i = 0 \/ tokens[i] = "\n" => s.mode # "skip"
    /\ s.depth > 0 => s.start \in 1 .. i /\ \A k \in 1 .. Len(s.forms) : s.forms[k].last < s.start
    /\ Apart(s.forms, i)
    /\ \A j \in 1 .. i : Defines(tokens, j) => Holds(s.forms, j) \/ (s.depth > 0 /\ s.start <= j)

\* What a token does to the forms: it begins one, ends one, or neither.
Begins(s, u, i) ==
    s.mode = "top" /\ u.mode = "code" /\ u.start = i /\ u.depth = 1 /\ u.forms = s.forms

Ends(s, u, i) ==
    s.depth = 1 /\ u.mode = "top" /\ u.depth = 0 /\ u.forms = Append(s.forms, Clojure!Form(s, i))

GoesOn(s, u) ==
    /\ u.forms = s.forms /\ u.start = s.start
    /\ s.depth = 0 <=> u.depth = 0
    /\ u.mode \in {"top", "skip"} <=> u.depth = 0

LEMMA ClojureMoves ==
    ASSUME NEW s \in ClojureStates, NEW t \in Clojure!Tokens, NEW i \in Nat \ {0},
           s.mode \in {"top", "skip"} <=> s.depth = 0
    PROVE  LET u == Clojure!ScanToken(s, t, i)
           IN  /\ Begins(s, u, i) \/ Ends(s, u, i) \/ GoesOn(s, u)
               /\ t = "\n" => u.mode # "skip"
               /\ s.mode = "top" /\ t \in Clojure!Heads => Begins(s, u, i)
  <1> DEFINE u == Clojure!ScanToken(s, t, i)
  <1>s. /\ s.mode \in {"top", "skip", "code", "string", "escape", "comment"} /\ s.start \in Nat
        /\ s.depth \in Nat
    BY DEF ClojureStates, Clojure!Modes
  <1>h. Clojure!Heads = {"(defn", "(ns", "("}
    BY DEF Clojure!Heads
  <1>m. \A mode \in {"top", "skip", "code", "string", "escape", "comment"} :
            LET v == Clojure!In(s, mode)
            IN  v.mode = mode /\ v.start = s.start /\ v.depth = s.depth /\ v.forms = s.forms
    BY DEF Clojure!In, ClojureStates
  <1>f. u = Clojure!ScanToken(s, t, i)
    OBVIOUS
  <1> SUFFICES /\ Begins(s, u, i) \/ Ends(s, u, i) \/ GoesOn(s, u)
               /\ t = "\n" => u.mode # "skip"
               /\ s.mode = "top" /\ t \in Clojure!Heads => Begins(s, u, i)
    OBVIOUS
  <1> HIDE DEF u
  <1>1. CASE s.mode = "top" /\ t \in Clojure!Heads
    <2>1. u = [s EXCEPT !.mode = "code", !.start = i, !.depth = 1]
      BY <1>1, <1>f, <1>h DEF Clojure!ScanToken, Clojure!AtTop
    <2>2. u.mode = "code" /\ u.start = i /\ u.depth = 1 /\ u.forms = s.forms
      BY <2>1 DEF ClojureStates
    <2> QED
      BY <1>1, <1>h, <2>2 DEF Begins
  <1>2. CASE s.mode = "top" /\ t \notin Clojure!Heads
    <2>1. u = IF t = "\n" THEN s ELSE Clojure!In(s, "skip")
      BY <1>2, <1>f DEF Clojure!ScanToken, Clojure!AtTop
    <2> QED
      BY <1>m, <1>2, <2>1 DEF GoesOn
  <1>3. CASE s.mode = "skip"
    <2>1. u = IF t = "\n" THEN Clojure!In(s, "top") ELSE s
      BY <1>3, <1>f DEF Clojure!ScanToken, Clojure!SkipLine
    <2> QED
      BY <1>m, <1>3, <2>1 DEF GoesOn
  <1>4. CASE s.mode = "code"
    <2>1. s.depth > 0
      BY <1>s, <1>4
    <2>2. u = Clojure!InForm(s, t, i)
      BY <1>4, <1>f DEF Clojure!ScanToken
    <2>3. \A d \in Nat : LET v == [s EXCEPT !.depth = d]
                         IN  v.mode = s.mode /\ v.depth = d /\ v.start = s.start /\ v.forms = s.forms
      BY DEF ClojureStates
    <2>4. CASE t \in Clojure!Heads
      <3>1. u = [s EXCEPT !.depth = s.depth + 1]
        BY <1>h, <2>2, <2>4 DEF Clojure!InForm
      <3>2. s.depth + 1 \in Nat /\ s.depth + 1 # 0 /\ s.depth # 0
        BY <1>s, <2>1
      <3> QED
        BY <1>h, <1>4, <2>3, <2>4, <3>1, <3>2 DEF GoesOn
    <2>5. CASE t = ")" /\ s.depth > 1
      <3>1. u = [s EXCEPT !.depth = s.depth - 1]
        BY <1>h, <2>2, <2>5 DEF Clojure!InForm
      <3>2. s.depth - 1 \in Nat /\ s.depth - 1 # 0 /\ s.depth # 0
        BY <1>s, <2>5
      <3> QED
        BY <1>4, <2>3, <2>5, <3>1, <3>2 DEF GoesOn
    <2>6. CASE t = ")" /\ s.depth = 1
      <3>1. u = [s EXCEPT !.mode = "top", !.depth = 0, !.forms = Append(s.forms, Clojure!Form(s, i))]
        BY <1>h, <2>2, <2>6 DEF Clojure!InForm
      <3>2. u.mode = "top" /\ u.depth = 0 /\ u.forms = Append(s.forms, Clojure!Form(s, i))
        BY <3>1 DEF ClojureStates
      <3> QED
        BY <1>4, <2>6, <3>2 DEF Ends
    <2>7. CASE t \notin Clojure!Heads /\ t # ")"
      <3>1. u \in {s, Clojure!In(s, "string"), Clojure!In(s, "comment")}
        BY <2>2, <2>7 DEF Clojure!InForm
      <3> QED
        BY <1>m, <1>4, <3>1 DEF GoesOn
    <2> QED
      BY <1>s, <2>1, <2>4, <2>5, <2>6, <2>7
  <1>5. CASE s.mode \in {"string", "escape", "comment"}
    <2>1. u \in {s, Clojure!In(s, "code"), Clojure!In(s, "escape"), Clojure!In(s, "string")}
      BY <1>5, <1>f DEF Clojure!ScanToken, Clojure!InString
    <2> QED
      BY <1>m, <1>5, <2>1 DEF GoesOn
  <1> QED
    BY <1>s, <1>1, <1>2, <1>3, <1>4, <1>5

LEMMA AnotherForm ==
    ASSUME NEW forms \in Seq(ClojureForms), NEW i \in Nat, NEW f \in ClojureForms,
           Apart(forms, i), f.last = i, \A k \in 1 .. Len(forms) : forms[k].last < f.first
    PROVE  /\ Append(forms, f) \in Seq(ClojureForms) /\ Apart(Append(forms, f), i)
           /\ \A j : Holds(forms, j) => Holds(Append(forms, f), j)
           /\ \A j \in f.first .. i : Holds(Append(forms, f), j)
  <1> DEFINE q == Append(forms, f)
             n == Len(forms)
  <1>1. /\ n \in Nat /\ Len(q) = n + 1 /\ DOMAIN q = 1 .. n + 1 /\ DOMAIN forms = 1 .. n
        /\ q[n + 1] = f /\ \A k \in 1 .. n : q[k] = forms[k]
        /\ q \in Seq(ClojureForms)
    OBVIOUS
  <1>t. f.first \in Nat /\ f.last \in Nat
    BY DEF ClojureForms
  <1> HIDE DEF q, n
  <1>2. \A k \in 1 .. n + 1 : k \in 1 .. n \/ k = n + 1
    BY <1>1
  <1>3. Apart(q, i)
    <2>1. ASSUME NEW k \in 1 .. n PROVE q[k].last < q[k + 1].first
      <3>1. CASE k + 1 \in 1 .. n
        <4>1. k \in 1 .. n - 1
          BY <1>1, <3>1
        <4> QED
          BY <1>1, <3>1, <4>1 DEF Apart, n
      <3>2. CASE k + 1 \notin 1 .. n
        <4>1. k = n
          BY <1>1, <3>2
        <4>2. forms[n].last < f.first
          BY <4>1 DEF n
        <4> QED
          BY <1>1, <4>1, <4>2
      <3> QED
        BY <3>1, <3>2
    <2>2. ASSUME NEW k \in 1 .. n + 1 PROVE q[k].last <= i
      BY <1>1, <1>2 DEF Apart, n
    <2>3. Len(q) - 1 = n
      BY <1>1
    <2> QED
      BY <1>1, <2>1, <2>2, <2>3 DEF Apart
  <1>4. ASSUME NEW j, Holds(forms, j) PROVE Holds(q, j)
    <2>1. PICK k \in 1 .. n : forms[k].first <= j /\ j <= forms[k].last
      BY <1>1, <1>4 DEF Holds
    <2>2. k \in 1 .. n + 1
      BY <1>1
    <2> QED
      BY <1>1, <2>1, <2>2 DEF Holds
  <1>5. ASSUME NEW j \in f.first .. i PROVE Holds(q, j)
    <2>1. n + 1 \in 1 .. n + 1
      BY <1>1
    <2>2. f.first <= j /\ j <= f.last
      BY <1>t
    <2> QED
      BY <1>1, <2>1, <2>2 DEF Holds
  <1> QED
    BY <1>1, <1>3, <1>4, <1>5 DEF q

\* The rounds that find no form: its depth and mode are all that may change.
LEMMA ClojureGoesOn ==
    ASSUME NEW s \in ClojureStates, NEW u \in ClojureStates, NEW tokens \in Seq(Clojure!Tokens),
           NEW i \in 1 .. Len(tokens), ClojureSound(s, tokens, i - 1),
           u.forms = s.forms, u.start = s.start,
           s.depth = 0 <=> u.depth = 0, u.mode \in {"top", "skip"} <=> u.depth = 0,
           tokens[i] = "\n" => u.mode # "skip",
           Defines(tokens, i) => s.depth > 0
    PROVE  ClojureSound(u, tokens, i)
  <1>1. i \in Nat \ {0} /\ i - 1 \in Nat /\ s.depth \in Nat /\ u.depth \in Nat /\ s.start \in Nat
    BY DEF ClojureStates
  <1>2. \A k \in 1 .. Len(s.forms) : s.forms[k].last \in Nat
    <2>1. s.forms \in Seq(ClojureForms)
      BY DEF ClojureStates
    <2>2. \A k \in 1 .. Len(s.forms) : s.forms[k] \in ClojureForms
      BY <2>1
    <2> QED
      BY <2>2 DEF ClojureForms
  <1>3. Apart(u.forms, i)
    BY <1>1, <1>2 DEF ClojureSound, Apart
  <1>4. \A j \in 1 .. i : j \in 1 .. i - 1 \/ j = i
    BY <1>1
  <1>5. s.depth > 0 <=> u.depth > 0
    BY <1>1
  <1>6. u.depth > 0 => u.start \in 1 .. i /\ \A k \in 1 .. Len(u.forms) : u.forms[k].last < u.start
    BY <1>1, <1>5 DEF ClojureSound
  <1>7. ASSUME NEW j \in 1 .. i, Defines(tokens, j)
        PROVE  Holds(u.forms, j) \/ (u.depth > 0 /\ u.start <= j)
    <2>1. CASE j \in 1 .. i - 1
      BY <1>5, <1>7, <2>1 DEF ClojureSound
    <2>2. CASE j = i
      <3>1. s.depth > 0
        BY <1>7, <2>2
      <3>2. s.start \in 1 .. i - 1
        BY <3>1 DEF ClojureSound
      <3> QED
        BY <1>1, <1>5, <2>2, <3>1, <3>2
    <2> QED
      BY <1>4, <2>1, <2>2
  <1>8. i # 0
    BY <1>1
  <1> QED
    BY <1>3, <1>6, <1>7, <1>8 DEF ClojureSound

LEMMA ClojureSoundRound ==
    ASSUME NEW s \in ClojureStates, NEW tokens \in Seq(Clojure!Tokens), NEW i \in 1 .. Len(tokens),
           ClojureSound(s, tokens, i - 1)
    PROVE  ClojureSound(Clojure!ScanToken(s, tokens[i], i), tokens, i)
  <1> DEFINE u == Clojure!ScanToken(s, tokens[i], i)
  <1>1. tokens[i] \in Clojure!Tokens /\ i \in Nat \ {0} /\ i - 1 \in Nat /\ u \in ClojureStates
    <2>1. tokens[i] \in Clojure!Tokens /\ i \in Nat \ {0} /\ i - 1 \in Nat
      OBVIOUS
    <2> QED
      BY <2>1, ClojureRound
  <1>s. /\ s.mode \in {"top", "skip", "code", "string", "escape", "comment"} /\ s.start \in Nat
        /\ s.depth \in Nat /\ s.forms \in Seq(ClojureForms)
        /\ s.mode \in {"top", "skip"} <=> s.depth = 0
    BY DEF ClojureStates, Clojure!Modes, ClojureSound
  <1>m. /\ Begins(s, u, i) \/ Ends(s, u, i) \/ GoesOn(s, u)
        /\ tokens[i] = "\n" => u.mode # "skip"
        /\ s.mode = "top" /\ tokens[i] \in Clojure!Heads => Begins(s, u, i)
    BY <1>1, <1>s, ClojureMoves
  <1>d. Defines(tokens, i) => tokens[i] = "(defn" /\ s.mode # "skip"
    <2>1. ASSUME Defines(tokens, i) PROVE s.mode # "skip"
      <3>1. i - 1 = 0 \/ tokens[i - 1] = "\n"
        BY <1>1, <2>1 DEF Defines
      <3> QED
        BY <3>1 DEF ClojureSound
    <2> QED
      BY <2>1 DEF Defines
  <1>f. \A k \in 1 .. Len(s.forms) : s.forms[k].last \in Nat
    <2>1. \A k \in 1 .. Len(s.forms) : s.forms[k] \in ClojureForms
      BY <1>s
    <2> QED
      BY <2>1 DEF ClojureForms
  <1>a. Apart(s.forms, i - 1) /\ Apart(s.forms, i)
    <2>1. Apart(s.forms, i - 1)
      BY DEF ClojureSound
    <2>2. \A k \in 1 .. Len(s.forms) : s.forms[k].last <= i - 1
      BY <2>1 DEF Apart
    <2>3. \A k \in 1 .. Len(s.forms) : s.forms[k].last <= i
      BY <1>1, <1>f, <2>2
    <2> QED
      BY <2>1, <2>3 DEF Apart
  <1> SUFFICES ClojureSound(u, tokens, i)
    OBVIOUS
  <1> HIDE DEF u
  <1>2. CASE Begins(s, u, i)
    <2>1. s.depth = 0 /\ u.mode = "code" /\ u.start = i /\ u.depth = 1 /\ u.forms = s.forms
      BY <1>s, <1>2 DEF Begins
    <2>2. \A k \in 1 .. Len(u.forms) : u.forms[k].last < u.start
      BY <1>1, <1>a, <1>f, <2>1 DEF Apart
    <2>3. ASSUME NEW j \in 1 .. i, Defines(tokens, j)
          PROVE  Holds(u.forms, j) \/ (u.depth > 0 /\ u.start <= j)
      <3>1. CASE j = i
        BY <1>1, <2>1, <3>1
      <3>2. CASE j \in 1 .. i - 1
        <4>1. ~(s.depth > 0)
          BY <2>1
        <4> QED
          BY <2>1, <2>3, <3>2, <4>1 DEF ClojureSound
      <3> QED
        BY <1>1, <3>1, <3>2
    <2> QED
      BY <1>1, <1>a, <2>1, <2>2, <2>3 DEF ClojureSound
  <1>3. CASE Ends(s, u, i)
    <2> DEFINE f == Clojure!Form(s, i)
               q == Append(s.forms, f)
    <2>1. s.depth = 1 /\ u.mode = "top" /\ u.depth = 0 /\ u.forms = q
      BY <1>3 DEF Ends
    <2>2. f \in ClojureForms /\ f.first = s.start /\ f.last = i
      BY <1>1, <1>s DEF Clojure!Form, ClojureForms
    <2>3. s.start \in 1 .. i - 1 /\ \A k \in 1 .. Len(s.forms) : s.forms[k].last < f.first
      BY <2>1, <2>2 DEF ClojureSound
    <2> HIDE DEF f
    <2>4. /\ Apart(q, i) /\ \A j : Holds(s.forms, j) => Holds(q, j)
          /\ \A j \in f.first .. i : Holds(q, j)
      BY <1>1, <1>s, <1>a, <2>2, <2>3, AnotherForm
    <2> HIDE DEF q
    <2>5. ASSUME NEW j \in 1 .. i, Defines(tokens, j) PROVE Holds(u.forms, j)
      <3>1. CASE s.start <= j
        <4>1. j \in f.first .. i
          BY <1>1, <1>s, <2>2, <3>1
        <4> QED
          BY <2>1, <2>4, <4>1
      <3>2. CASE ~(s.start <= j)
        <4>1. j \in 1 .. i - 1
          BY <1>1, <1>s, <2>3, <3>2
        <4> QED
          BY <2>1, <2>4, <2>5, <3>2, <4>1 DEF ClojureSound
      <3> QED
        BY <3>1, <3>2
    <2>6. ~(u.depth > 0)
      BY <2>1
    <2> QED
      BY <1>1, <2>1, <2>4, <2>5, <2>6 DEF ClojureSound
  <1>4. CASE GoesOn(s, u)
    <2>1. /\ u.forms = s.forms /\ u.start = s.start
          /\ s.depth = 0 <=> u.depth = 0
          /\ u.mode \in {"top", "skip"} <=> u.depth = 0
      BY <1>4 DEF GoesOn
    \* A definition that begins a line would begin a form.
    <2>2. ASSUME Defines(tokens, i), ~(s.depth > 0) PROVE FALSE
      <3>1. s.depth = 0 /\ s.mode = "top" /\ tokens[i] \in Clojure!Heads
        BY <1>d, <1>s, <2>2 DEF Clojure!Heads
      <3>2. u.depth = 1
        BY <1>m, <3>1 DEF Begins
      <3> QED
        BY <2>1, <3>1, <3>2
    <2> QED
      BY <1>1, <1>m, <2>1, <2>2, ClojureGoesOn
  <1> QED
    BY <1>m, <1>2, <1>3, <1>4

\* Forms are apart, and no definition that begins a line is lost.
LEMMA FormsAreApart ==
    ASSUME NEW tokens \in Seq(Clojure!Tokens) PROVE Clojure!FormsApart(tokens)
  <1> DEFINE N == Len(tokens)
  <1>0. PICK after : ClojureRun(after, tokens)
    BY ClojureRuns
  <1>1. /\ after \in [0 .. N -> ClojureStates] /\ after[0] = Clojure!Scan
        /\ \A i \in 1 .. N : after[i] = Clojure!ScanToken(after[i - 1], tokens[i], i)
    BY <1>0 DEF ClojureRun
  <1>n. N \in Nat /\ \A i \in 1 .. N : i - 1 \in 0 .. N /\ i \in 0 .. N
    OBVIOUS
  <1> DEFINE A == {i \in 0 .. N : ClojureSound(after[i], tokens, i)}
  <1>2. 0 \in A
    <2>1. ClojureSound(Clojure!Scan, tokens, 0)
      BY DEF ClojureSound, Clojure!Scan, Apart
    <2> QED
      BY <1>1, <1>n, <2>1
  <1>3. ASSUME NEW i \in 1 .. N, i - 1 \in A PROVE i \in A
    <2>1. after[i - 1] \in ClojureStates /\ ClojureSound(after[i - 1], tokens, i - 1)
      BY <1>1, <1>n, <1>3
    <2> QED
      BY <1>1, <1>n, <2>1, ClojureSoundRound
  <1> DEFINE s == after[N]
             F == Clojure!Forms(tokens)
  <1>4. s \in ClojureStates /\ ClojureSound(s, tokens, N)
    <2>1. 0 .. N \subseteq A
      <3> HIDE DEF A, N
      <3> QED
        BY <1>n, <1>2, <1>3, Induct
    <2>2. N \in 0 .. N
      BY <1>n
    <2> QED
      BY <1>1, <2>1, <2>2
  <1>5. F = IF s.depth > 0 THEN Append(s.forms, Clojure!Form(s, N)) ELSE s.forms
    BY <1>0 DEF ClojureRun
  <1> HIDE DEF s, F
  <1>s. s.forms \in Seq(ClojureForms) /\ s.start \in Nat /\ s.depth \in Nat
    BY <1>4 DEF ClojureStates
  <1>6. Apart(F, N) /\ \A j \in 1 .. N : Defines(tokens, j) => Holds(F, j)
    <2>1. CASE s.depth > 0
      <3> DEFINE f == Clojure!Form(s, N)
      <3>1. f \in ClojureForms /\ f.first = s.start /\ f.last = N
        BY <1>n, <1>s DEF Clojure!Form, ClojureForms
      <3>2. Apart(s.forms, N) /\ \A k \in 1 .. Len(s.forms) : s.forms[k].last < f.first
        BY <1>4, <2>1, <3>1 DEF ClojureSound
      <3> HIDE DEF f
      <3>3. F = Append(s.forms, f)
        BY <1>5, <2>1 DEF f
      <3>4. /\ Apart(F, N) /\ \A j : Holds(s.forms, j) => Holds(F, j)
            /\ \A j \in f.first .. N : Holds(F, j)
        BY <1>n, <1>s, <3>1, <3>2, <3>3, AnotherForm
      <3>5. ASSUME NEW j \in 1 .. N, Defines(tokens, j) PROVE Holds(F, j)
        <4>1. Holds(s.forms, j) \/ s.start <= j
          BY <1>4, <3>5 DEF ClojureSound
        <4>2. s.start <= j => j \in f.first .. N
          BY <1>n, <1>s, <3>1
        <4> QED
          BY <3>4, <4>1, <4>2
      <3> QED
        BY <3>4, <3>5
    <2>2. CASE ~(s.depth > 0)
      BY <1>4, <1>5, <2>2 DEF ClojureSound
    <2> QED
      BY <2>1, <2>2
  <1>7. DOMAIN tokens = 1 .. N
    OBVIOUS
  <1> QED
    BY <1>6, <1>7 DEF Clojure!FormsApart, Apart, Holds, Defines, F

-----------------------------------------------------------------------------
\* Plain Clojure: the scanner keeps up with the reader.

Readers == [mode : {"code", "string", "escape", "comment", "char"}, depth : Nat]

LEMMA ReaderRound ==
    ASSUME NEW r \in Readers, NEW t PROVE Clojure!ReadToken(r, t) \in Readers
  <1>1. /\ r.mode \in {"code", "string", "escape", "comment", "char"} /\ r.depth \in Nat
    BY DEF Readers
  <1>2. \A m \in {"code", "string", "escape", "comment", "char"} : [r EXCEPT !.mode = m] \in Readers
    BY DEF Readers
  <1>3. \A d \in Nat : [r EXCEPT !.depth = d] \in Readers
    BY DEF Readers
  <1>4. r.depth + 1 \in Nat /\ (r.depth > 0 => r.depth - 1 \in Nat)
    BY <1>1
  <1> QED
    BY <1>1, <1>2, <1>3, <1>4 DEF Clojure!ReadToken

\* r[i] is the reader after i tokens.
Reads(r, tokens) ==
    /\ r \in [0 .. Len(tokens) -> Readers]
    /\ r[0] = Clojure!Reader
    /\ \A i \in 1 .. Len(tokens) : r[i] = Clojure!ReadToken(r[i - 1], tokens[i])

LEMMA ReaderReads == ASSUME NEW tokens \in Seq(Clojure!Tokens) PROVE Reads(Clojure!Read(tokens), tokens)
  <1> DEFINE N == Len(tokens)
             G == [i \in 1 .. N |-> [r \in Readers |-> Clojure!ReadToken(r, tokens[i])]]
             Round(f) ==
                 [i \in 0 .. N |->
                     IF i = 0 THEN Clojure!Reader ELSE Clojure!ReadToken(f[i - 1], tokens[i])]
             after == CHOOSE f : f = Round(f)
  <1>1. N \in Nat
    OBVIOUS
  <1>2. G \in [1 .. N -> [Readers -> Readers]]
    BY ReaderRound
  <1>s. Clojure!Reader \in Readers
    BY DEF Clojure!Reader, Readers
  <1>3. PICK f : Run(f, Readers, Clojure!Reader, N, G)
    <2> HIDE DEF G, N
    <2> QED
      BY <1>1, <1>2, <1>s, LoopRuns
  <1>4. \A i \in 0 .. N : i = 0 \/ (i \in 1 .. N /\ i - 1 \in 0 .. N)
    BY <1>1
  <1>5. f = Round(f)
    BY <1>3, <1>4 DEF Run
  <1>6. after = Round(after)
    BY <1>5
  <1>7. Clojure!Read(tokens) = after
    BY DEF Clojure!Read
  <1> HIDE DEF after
  <1>8. DOMAIN after = 0 .. N /\ after[0] = Clojure!Reader
    BY <1>6, <1>1
  <1>c. \A i \in 1 .. N : i - 1 \in 0 .. N /\ i \in 0 .. N /\ i # 0
    BY <1>1
  <1> HIDE DEF N
  <1>9. ASSUME NEW i \in 1 .. N PROVE after[i] = Clojure!ReadToken(after[i - 1], tokens[i])
    <2>1. after[i] = Round(after)[i]
      BY <1>6
    <2> HIDE <1>6
    <2> QED
      BY <2>1, <1>c
  <1>10. after \in [0 .. N -> Readers]
    <2> DEFINE A == {i \in 0 .. N : after[i] \in Readers}
    <2>1. 0 \in A
      BY <1>8, <1>1, <1>s
    <2>2. ASSUME NEW i \in 1 .. N, i - 1 \in A PROVE i \in A
      BY <1>9, <1>c, <2>2, ReaderRound
    <2> HIDE DEF A
    <2>3. 0 .. N \subseteq A
      BY <1>1, <2>1, <2>2, Induct
    <2>4. after = [i \in 0 .. N |-> after[i]]
      BY <1>6
    <2> QED
      BY <2>3, <2>4 DEF A
  <1> QED
    BY <1>7, <1>8, <1>9, <1>10 DEF Reads, N

\* Scanner and reader after the token t.  Of a line that the scanner passes
\* over, the reader has seen other characters, or it is in a comment.
Together(s, r, t) ==
    /\ s.mode = "top" => r.mode = "code" /\ r.depth = 0
    /\ s.mode = "skip" => r.depth = 0 /\ (r.mode = "comment" \/ (r.mode = "code" /\ t = "x"))
    /\ s.mode \notin {"top", "skip"} => r.mode = s.mode /\ r.depth = s.depth

\* What plain text lacks, at token i.
PlainAt(tokens, i) ==
    LET r == Clojure!Read(tokens)
        bare == r[i - 1].mode = "code" /\ r[i - 1].depth = 0
    IN  /\ r[i].mode # "char"
        /\ bare => tokens[i] \notin {")", "\""}
        /\ bare /\ i > 1 /\ tokens[i] \in Clojure!Heads => tokens[i - 1] # "x"

LEMMA ReaderKeepsUp ==
    ASSUME NEW s \in ClojureStates, NEW tokens \in Seq(Clojure!Tokens), NEW i \in 1 .. Len(tokens),
           PlainAt(tokens, i), ClojureSound(s, tokens, i - 1),
           Together(s, Clojure!Read(tokens)[i - 1], tokens[i - 1])
    PROVE  Together(Clojure!ScanToken(s, tokens[i], i), Clojure!Read(tokens)[i], tokens[i])
  <1> DEFINE t == tokens[i]
             u == Clojure!ScanToken(s, t, i)
             b == Clojure!Read(tokens)[i - 1]
             a == Clojure!Read(tokens)[i]
  <1>1. t \in Clojure!Tokens /\ i \in Nat \ {0} /\ i - 1 \in 0 .. Len(tokens) /\ i \in 0 .. Len(tokens)
    OBVIOUS
  <1>2. b \in Readers /\ a = Clojure!ReadToken(b, t)
    BY <1>1, ReaderReads DEF Reads
  <1>h. Clojure!Heads = {"(defn", "(ns", "("}
    BY DEF Clojure!Heads
  <1>t. t \in {"(defn", "(ns", "(", ")", "\"", "\\", ";", "\n", "x"}
    BY <1>1, <1>h DEF Clojure!Tokens
  <1>s. /\ s.mode \in {"top", "skip", "code", "string", "escape", "comment"}
        /\ s.depth \in Nat
        /\ s.mode \in {"top", "skip"} <=> s.depth = 0
        /\ i - 1 = 0 => s.mode # "skip"
    BY DEF ClojureStates, Clojure!Modes, ClojureSound
  <1>b. b.mode \in {"code", "string", "escape", "comment", "char"} /\ b.depth \in Nat
    BY <1>2 DEF Readers
  <1>p. /\ a.mode # "char"
        /\ b.mode = "code" /\ b.depth = 0 => t \notin {")", "\""}
        /\ b.mode = "code" /\ b.depth = 0 /\ i > 1 /\ t \in Clojure!Heads => tokens[i - 1] # "x"
    BY DEF PlainAt
  <1>k. Together(s, b, tokens[i - 1])
    OBVIOUS
  <1> SUFFICES Together(u, a, t)
    OBVIOUS
  <1>f. u = Clojure!ScanToken(s, t, i)
    OBVIOUS
  <1> HIDE DEF t, u, a, b
  <1>m. \A m : LET v == [b EXCEPT !.mode = m] IN v.mode = m /\ v.depth = b.depth
    BY <1>2 DEF Readers
  <1>d. \A d : LET v == [b EXCEPT !.depth = d] IN v.mode = b.mode /\ v.depth = d
    BY <1>2 DEF Readers
  <1>n. \A m \in {"top", "skip", "code", "string", "escape", "comment"} :
            Clojure!In(s, m).mode = m /\ Clojure!In(s, m).depth = s.depth
    BY DEF Clojure!In, ClojureStates
  <1>e. \A d : LET v == [s EXCEPT !.depth = d] IN v.mode = s.mode /\ v.depth = d
    BY DEF ClojureStates
  \* The reader in code.
  <1>c. b.mode = "code" =>
            /\ t = ";" => a.mode = "comment" /\ a.depth = b.depth
            /\ t = "\"" => a.mode = "string" /\ a.depth = b.depth
            /\ t # "\\"
            /\ t \in Clojure!Heads => a.mode = "code" /\ a.depth = b.depth + 1
            /\ t = ")" /\ b.depth > 0 => a.mode = "code" /\ a.depth = b.depth - 1
            /\ t \in {"\n", "x"} => a.mode = "code" /\ a.depth = b.depth
    <2>1. ASSUME b.mode = "code" PROVE a = CASE t = "\"" -> [b EXCEPT !.mode = "string"]
               [] t = ";" -> [b EXCEPT !.mode = "comment"]
               [] t = "\\" -> [b EXCEPT !.mode = "char"]
               [] t \in Clojure!Heads -> [b EXCEPT !.depth = b.depth + 1]
               [] t = ")" /\ b.depth > 0 -> [b EXCEPT !.depth = b.depth - 1]
               [] OTHER -> b
      BY <1>2, <2>1 DEF Clojure!ReadToken
    <2>2. b.mode = "code" => t # "\\"
      BY <1>h, <1>m, <1>p, <2>1
    <2> QED
      BY <1>h, <1>m, <1>d, <2>1, <2>2
  <1>3. CASE s.mode = "top"
    <2>1. b.mode = "code" /\ b.depth = 0
      BY <1>k, <1>3 DEF Together
    <2>2. CASE t \in Clojure!Heads
      <3>1. u = [s EXCEPT !.mode = "code", !.start = i, !.depth = 1]
        BY <1>3, <1>f, <1>h, <2>2 DEF Clojure!ScanToken, Clojure!AtTop
      <3>2. u.mode = "code" /\ u.depth = 1
        BY <3>1 DEF ClojureStates
      <3>3. a.mode = "code" /\ a.depth = b.depth + 1
        BY <1>c, <2>1, <2>2
      <3>4. a.depth = 1
        BY <2>1, <3>3
      <3> QED
        BY <3>2, <3>3, <3>4 DEF Together
    <2>3. CASE t = "\n"
      <3>1. u = s
        BY <1>3, <1>f, <1>h, <2>3 DEF Clojure!ScanToken, Clojure!AtTop
      <3> QED
        BY <1>3, <1>c, <2>1, <2>3, <3>1 DEF Together
    <2>4. CASE t \in {";", "x"}
      <3>1. u = Clojure!In(s, "skip")
        BY <1>3, <1>f, <1>h, <2>4 DEF Clojure!ScanToken, Clojure!AtTop
      <3>2. u.mode = "skip"
        BY <1>n, <3>1
      <3> QED
        BY <1>c, <2>1, <2>4, <3>2 DEF Together
    <2> QED
      BY <1>t, <1>h, <1>p, <1>c, <2>1, <2>2, <2>3, <2>4
  <1>4. CASE s.mode = "skip"
    <2>1. b.depth = 0 /\ (b.mode = "comment" \/ (b.mode = "code" /\ tokens[i - 1] = "x"))
      BY <1>k, <1>4 DEF Together
    <2>2. i > 1
      BY <1>1, <1>4, <1>s
    <2>3. u = IF t = "\n" THEN Clojure!In(s, "top") ELSE s
      BY <1>4, <1>f DEF Clojure!ScanToken, Clojure!SkipLine
    <2>4. u.mode = IF t = "\n" THEN "top" ELSE "skip"
      BY <1>4, <1>n, <2>3
    <2>5. CASE b.mode = "comment"
      <3>1. a = IF t = "\n" THEN [b EXCEPT !.mode = "code"] ELSE b
        BY <1>2, <2>5 DEF Clojure!ReadToken
      <3>2. a.depth = 0 /\ a.mode = IF t = "\n" THEN "code" ELSE "comment"
        BY <1>m, <2>1, <2>5, <3>1
      <3> QED
        BY <2>4, <3>2 DEF Together
    <2>6. CASE b.mode = "code"
      <3>1. t \in {";", "\n", "x"}
        BY <1>t, <1>h, <1>p, <1>c, <2>1, <2>2, <2>6
      <3>2. a.depth = 0 /\ a.mode = IF t = ";" THEN "comment" ELSE "code"
        BY <1>c, <2>1, <2>6, <3>1
      <3> QED
        BY <2>4, <3>1, <3>2 DEF Together
    <2> QED
      BY <2>1, <2>5, <2>6
  <1>5. CASE s.mode = "code"
    <2>1. b.mode = "code" /\ b.depth = s.depth /\ s.depth > 0
      BY <1>k, <1>s, <1>5 DEF Together
    <2>2. u = Clojure!InForm(s, t, i)
      BY <1>5, <1>f DEF Clojure!ScanToken
    <2>3. CASE t = "\"" \/ t = ";"
      <3>1. u = Clojure!In(s, IF t = "\"" THEN "string" ELSE "comment")
        BY <1>h, <2>2, <2>3 DEF Clojure!InForm
      <3>2. u.depth = s.depth /\ u.mode = IF t = "\"" THEN "string" ELSE "comment"
        BY <1>n, <3>1
      <3> QED
        BY <1>c, <2>1, <2>3, <3>2 DEF Together
    <2>4. CASE t \in Clojure!Heads
      <3>1. u = [s EXCEPT !.depth = s.depth + 1]
        BY <1>h, <2>2, <2>4 DEF Clojure!InForm
      <3> QED
        BY <1>5, <1>c, <1>e, <2>1, <2>4, <3>1 DEF Together
    <2>5. CASE t = ")"
      <3>1. CASE s.depth > 1
        <4>1. u = [s EXCEPT !.depth = s.depth - 1]
          BY <1>h, <2>2, <2>5, <3>1 DEF Clojure!InForm
        <4> QED
          BY <1>5, <1>c, <1>e, <2>1, <2>5, <4>1 DEF Together
      <3>2. CASE s.depth = 1
        <4>1. u = [s EXCEPT !.mode = "top", !.depth = 0, !.forms = Append(s.forms, Clojure!Form(s, i))]
          BY <1>h, <2>2, <2>5, <3>2 DEF Clojure!InForm
        <4>2. u.mode = "top"
          BY <4>1 DEF ClojureStates
        <4> QED
          BY <1>c, <2>1, <2>5, <3>2, <4>2 DEF Together
      <3> QED
        BY <1>s, <2>1, <3>1, <3>2
    <2>6. CASE t \in {"\n", "x"}
      <3>1. u = s
        BY <1>h, <2>2, <2>6 DEF Clojure!InForm
      <3> QED
        BY <1>5, <1>c, <2>1, <2>6, <3>1 DEF Together
    <2> QED
      BY <1>t, <1>h, <1>c, <2>1, <2>3, <2>4, <2>5, <2>6
  <1>6. CASE s.mode \in {"string", "escape", "comment"}
    <2>1. b.mode = s.mode /\ b.depth = s.depth
      BY <1>k, <1>6 DEF Together
    <2>2. /\ u \in {s, Clojure!In(s, "code"), Clojure!In(s, "escape"), Clojure!In(s, "string")}
          /\ u.mode = a.mode /\ a.depth = b.depth
      BY <1>6, <1>f, <1>2, <1>m, <1>n, <2>1 DEF Clojure!ScanToken, Clojure!InString, Clojure!ReadToken
    <2>3. u.depth = s.depth /\ u.mode \notin {"top", "skip"}
      BY <1>n, <1>6, <2>2
    <2> QED
      BY <2>1, <2>2, <2>3 DEF Together
  <1> QED
    BY <1>s, <1>3, <1>4, <1>5, <1>6

\* The form the scanner is in is one that the reader is in, and the forms it
\* has found are those that the reader has read.
FormsReal(s, tokens, i) ==
    LET r == Clojure!Read(tokens)
    IN  /\ s.depth > 0 => r[s.start - 1].depth = 0 /\ \A k \in s.start .. i : r[k].depth > 0
        /\ \A k \in DOMAIN s.forms : s.forms[k] \in Clojure!RealForms(tokens)
        /\ \A f \in Clojure!RealForms(tokens) : f.last <= i => \E k \in DOMAIN s.forms : s.forms[k] = f

LEMMA FormsRealRound ==
    ASSUME NEW s \in ClojureStates, NEW tokens \in Seq(Clojure!Tokens), NEW i \in 1 .. Len(tokens),
           NEW u \in ClojureStates, Begins(s, u, i) \/ Ends(s, u, i) \/ GoesOn(s, u),
           ClojureSound(s, tokens, i - 1), FormsReal(s, tokens, i - 1),
           Together(s, Clojure!Read(tokens)[i - 1], tokens[i - 1]),
           Together(u, Clojure!Read(tokens)[i], tokens[i])
    PROVE  FormsReal(u, tokens, i)
  <1> DEFINE r == Clojure!Read(tokens)
             N == Len(tokens)
             Real == Clojure!RealForms(tokens)
  <1>n. i \in Nat \ {0} /\ i - 1 \in 0 .. N /\ i \in 0 .. N /\ N \in Nat /\ DOMAIN tokens = 1 .. N
    OBVIOUS
  <1>1. \A k \in 0 .. N : r[k].depth \in Nat
    <2>1. \A k \in 0 .. N : r[k] \in Readers
      BY ReaderReads DEF Reads
    <2> QED
      BY <2>1 DEF Readers
  <1>2. \A f : f \in Real <=> /\ f \in [first : 1 .. N, last : 1 .. N]
                              /\ f.first < f.last
                              /\ r[f.first - 1].depth = 0 /\ r[f.last].depth = 0
                              /\ \A k \in f.first .. (f.last - 1) : r[k].depth > 0
    BY <1>n DEF Clojure!RealForms
  <1>s. /\ s.depth \in Nat /\ u.depth \in Nat /\ s.start \in Nat /\ s.forms \in Seq(ClojureForms)
        /\ s.mode \in {"top", "skip"} <=> s.depth = 0
    BY DEF ClojureStates, ClojureSound
  <1>3. r[i - 1].depth = s.depth
    BY <1>s DEF Together
  <1>4. u.mode \in {"top", "skip"} <=> u.depth = 0
    BY DEF Begins, Ends, GoesOn
  <1>5. r[i].depth = u.depth
    BY <1>4 DEF Together
  <1>6. /\ s.depth > 0 => r[s.start - 1].depth = 0 /\ \A k \in s.start .. i - 1 : r[k].depth > 0
        /\ \A k \in DOMAIN s.forms : s.forms[k] \in Real
        /\ \A f \in Real : f.last <= i - 1 => \E k \in DOMAIN s.forms : s.forms[k] = f
    BY DEF FormsReal
  <1>7. s.depth > 0 => s.start \in 1 .. i - 1
    BY DEF ClojureSound
  <1> HIDE DEF r, N, Real
  \* A form ends where the depth comes down to 0.
  <1>8. ASSUME NEW f \in Real, f.last = i PROVE s.depth > 0 /\ u.depth = 0 /\ f = Clojure!Form(s, i)
    <2>1. /\ f \in [first : 1 .. N, last : 1 .. N] /\ f.first < f.last
          /\ r[f.first - 1].depth = 0 /\ r[f.last].depth = 0
          /\ \A k \in f.first .. (f.last - 1) : r[k].depth > 0
      BY <1>2
    <2>2. f.first \in 1 .. N /\ f.first \in 1 .. i - 1
      BY <1>8, <2>1, <1>n
    <2>3. i - 1 \in f.first .. i - 1
      BY <1>n, <2>2
    <2>4. s.depth > 0 /\ u.depth = 0
      BY <1>3, <1>5, <1>8, <2>1, <2>3
    <2>5. s.start \in 1 .. i - 1 /\ r[s.start - 1].depth = 0 /\ \A k \in s.start .. i - 1 : r[k].depth > 0
      BY <1>6, <1>7, <2>4
    <2>6. ~(f.first < s.start)
      <3>1. ASSUME f.first < s.start PROVE FALSE
        <4>1. s.start - 1 \in f.first .. i - 1
          BY <1>n, <2>2, <2>5, <3>1
        <4> QED
          BY <1>8, <2>1, <2>5, <4>1
      <3> QED
        BY <3>1
    <2>7. ~(s.start < f.first)
      <3>1. ASSUME s.start < f.first PROVE FALSE
        <4>1. f.first - 1 \in s.start .. i - 1
          BY <1>n, <2>2, <2>5, <3>1
        <4> QED
          BY <2>1, <2>5, <4>1
      <3> QED
        BY <3>1
    <2>8. f.first = s.start
      BY <2>2, <2>5, <2>6, <2>7
    <2>9. f = [first |-> f.first, last |-> f.last]
      BY <2>1
    <2> QED
      BY <1>8, <2>4, <2>8, <2>9 DEF Clojure!Form
  <1>9. \A f \in Real : f.last <= i => f.last <= i - 1 \/ f.last = i
    <2>1. \A f \in Real : f.last \in Nat
      BY <1>n, <1>2
    <2> QED
      BY <1>n, <2>1
  <1> SUFFICES /\ u.depth > 0 => r[u.start - 1].depth = 0 /\ \A k \in u.start .. i : r[k].depth > 0
               /\ \A k \in DOMAIN u.forms : u.forms[k] \in Real
               /\ \A f \in Real : f.last <= i => \E k \in DOMAIN u.forms : u.forms[k] = f
    BY DEF FormsReal, r, Real
  <1>10. CASE Begins(s, u, i)
    <2>1. s.depth = 0 /\ u.depth = 1 /\ u.start = i /\ u.forms = s.forms
      BY <1>s, <1>10 DEF Begins
    <2>2. \A k \in i .. i : k = i
      BY <1>n
    <2> QED
      BY <1>3, <1>5, <1>6, <1>8, <1>9, <2>1, <2>2
  <1>11. CASE Ends(s, u, i)
    <2> DEFINE f == Clojure!Form(s, i)
               q == Append(s.forms, f)
    <2>1. s.depth = 1 /\ u.depth = 0 /\ u.forms = q
      BY <1>11 DEF Ends
    <2>2. f = [first |-> s.start, last |-> i]
      BY DEF Clojure!Form
    <2>3. s.start \in 1 .. N /\ i \in 1 .. N /\ s.start < i
      BY <1>n, <1>7, <2>1
    <2>4. f \in Real
      <3>1. f \in [first : 1 .. N, last : 1 .. N] /\ f.first = s.start /\ f.last = i
        BY <2>2, <2>3
      <3> QED
        BY <1>2, <1>5, <1>6, <2>1, <2>3, <3>1
    <2> HIDE DEF f
    <2> DEFINE n == Len(s.forms)
    <2>5. /\ n \in Nat /\ DOMAIN q = 1 .. n + 1 /\ DOMAIN s.forms = 1 .. n
          /\ q[n + 1] = f /\ \A k \in 1 .. n : q[k] = s.forms[k]
      BY <1>s
    <2> HIDE DEF q, n
    <2>6. n + 1 \in 1 .. n + 1 /\ \A k \in 1 .. n + 1 : k \in 1 .. n \/ k = n + 1
      BY <2>5
    <2>7. \A k \in DOMAIN q : q[k] \in Real
      BY <1>6, <2>4, <2>5, <2>6
    <2>8. ASSUME NEW g \in Real, g.last <= i PROVE \E k \in DOMAIN q : q[k] = g
      <3>1. CASE g.last = i
        <4>1. g = f
          BY <1>8, <3>1 DEF f
        <4> QED
          BY <2>5, <2>6, <4>1
      <3>2. CASE g.last <= i - 1
        <4>1. PICK k \in 1 .. n : s.forms[k] = g
          BY <1>6, <2>5, <3>2
        <4>2. k \in 1 .. n + 1
          BY <2>5
        <4> QED
          BY <2>5, <4>1, <4>2
      <3> QED
        BY <1>9, <2>8, <3>1, <3>2
    <2> QED
      BY <2>1, <2>7, <2>8
  <1>12. CASE GoesOn(s, u)
    <2>1. u.forms = s.forms /\ u.start = s.start /\ (s.depth = 0 <=> u.depth = 0)
      BY <1>12 DEF GoesOn
    <2>2. s.depth > 0 <=> u.depth > 0
      BY <1>s, <2>1
    <2>3. ASSUME u.depth > 0, NEW k \in u.start .. i PROVE r[k].depth > 0
      <3>1. CASE k = i
        BY <1>5, <2>3, <3>1
      <3>2. CASE k # i
        <4>1. k \in s.start .. i - 1
          BY <1>n, <1>s, <2>1, <2>3, <3>2
        <4> QED
          BY <1>6, <2>2, <2>3, <4>1
      <3> QED
        BY <3>1, <3>2
    <2>4. ASSUME NEW f \in Real, f.last = i PROVE FALSE
      <3>1. s.depth > 0 /\ u.depth = 0
        BY <1>8, <2>4
      <3> QED
        BY <2>2, <3>1
    <2> QED
      BY <1>6, <1>9, <2>1, <2>2, <2>3, <2>4
  <1> QED
    BY <1>10, <1>11, <1>12

\* The namespace the scanner finds is a form before any other.
NamesSpace(tokens, f) ==
    Clojure!NsName(tokens) =>
        \E g \in Clojure!RealForms(tokens) : g.last < f.first /\ tokens[g.first] = "(ns"

LEMMA NamespaceFirst ==
    ASSUME NEW tokens \in Seq(Clojure!Tokens), Clojure!Plain(tokens),
           NEW f \in Clojure!RealForms(tokens), tokens[f.first] = "(defn"
    PROVE  NamesSpace(tokens, f)
  <1> DEFINE r == Clojure!Read(tokens)
             N == Len(tokens)
             Real == Clojure!RealForms(tokens)
  <1>n. N \in Nat /\ DOMAIN tokens = 1 .. N
    OBVIOUS
  <1>1. /\ \A k \in 0 .. N : r[k] \in Readers
        /\ r[0] = Clojure!Reader
        /\ \A i \in 1 .. N : r[i] = Clojure!ReadToken(r[i - 1], tokens[i])
    BY ReaderReads DEF Reads
  <1>d. \A k \in 0 .. N : r[k].depth \in Nat
    BY <1>1 DEF Readers
  <1>2. \A g : g \in Real <=> /\ g \in [first : 1 .. N, last : 1 .. N]
                              /\ g.first < g.last
                              /\ r[g.first - 1].depth = 0 /\ r[g.last].depth = 0
                              /\ \A k \in g.first .. (g.last - 1) : r[k].depth > 0
    BY <1>n DEF Clojure!RealForms
  <1>3. r[N].depth = 0
    BY <1>n DEF Clojure!Plain
  <1>h. Clojure!Heads = {"(defn", "(ns", "("}
    BY DEF Clojure!Heads
  <1>f. f \in Real /\ tokens[f.first] = "(defn"
    OBVIOUS
  <1> HIDE DEF r, N, Real
  <1>4. /\ f.first \in 1 .. N /\ f.last \in 1 .. N /\ f.first < f.last /\ r[f.first - 1].depth = 0
    BY <1>2, <1>f
  <1>5. ASSUME Clojure!NsName(tokens)
        PROVE  \E g \in Real : g.last < f.first /\ tokens[g.first] = "(ns"
    <2>1. PICK i \in 1 .. N : tokens[i] = "(ns" /\ \A j \in 1 .. (i - 1) : tokens[j] = "\n"
      BY <1>n, <1>5 DEF Clojure!NsName
    <2>i. i \in Nat \ {0} /\ i - 1 \in 0 .. i - 1 /\ i - 1 \in Nat /\ i <= N
      BY <1>n
    \* Nothing but blank lines before it: the reader is where it began.
    <2>2. r[i - 1] = Clojure!Reader
      <3> DEFINE T == {k \in 0 .. i - 1 : r[k] = Clojure!Reader}
      <3>1. 0 \in T
        BY <1>1, <2>i
      <3>2. ASSUME NEW k \in 1 .. i - 1, k - 1 \in T PROVE k \in T
        <4>1. k \in 1 .. N /\ k \in 0 .. i - 1 /\ tokens[k] = "\n" /\ r[k - 1] = Clojure!Reader
          BY <1>n, <2>1, <2>i, <3>2
        <4>2. r[k] = Clojure!ReadToken(Clojure!Reader, "\n")
          BY <1>1, <4>1
        <4>3. Clojure!ReadToken(Clojure!Reader, "\n") = Clojure!Reader
          BY <1>h DEF Clojure!ReadToken, Clojure!Reader
        <4> QED
          BY <4>1, <4>2, <4>3
      <3> HIDE DEF T
      <3>3. 0 .. i - 1 \subseteq T
        BY <2>i, <3>1, <3>2, Induct
      <3> QED
        BY <2>i, <3>3 DEF T
    <2>3. r[i].depth = 1
      <3>1. r[i] = Clojure!ReadToken(Clojure!Reader, "(ns")
        BY <1>1, <2>1, <2>2
      <3>2. Clojure!ReadToken(Clojure!Reader, "(ns") = [Clojure!Reader EXCEPT !.depth = Clojure!Reader.depth + 1]
        BY <1>h DEF Clojure!ReadToken, Clojure!Reader
      <3>3. Clojure!Reader.depth = 0 /\ DOMAIN Clojure!Reader = {"mode", "depth"}
        BY DEF Clojure!Reader
      <3> QED
        BY <3>1, <3>2, <3>3
    <2> DEFINE C == {k \in i .. N : r[k].depth = 0}
    <2>4. C \subseteq Nat /\ N \in C
      BY <1>n, <1>3, <2>i
    <2>5. PICK m \in C : \A k \in C : m <= k
      <3> HIDE DEF C
      <3> QED
        BY <2>4, Least
    <2>6. m \in i .. N /\ r[m].depth = 0
      OBVIOUS
    <2>7. i < m
      BY <2>i, <2>3, <2>6, <1>n
    <2>8. ASSUME NEW k \in i .. m - 1 PROVE r[k].depth > 0
      <3>1. k \in i .. N /\ k \in 0 .. N /\ ~(m <= k)
        BY <1>n, <2>i, <2>6
      <3>2. k \notin C
        BY <2>5, <3>1
      <3>3. r[k].depth # 0
        BY <3>1, <3>2
      <3> QED
        BY <1>d, <3>1, <3>3
    <2> HIDE DEF C
    <2> DEFINE g == [first |-> i, last |-> m]
    <2>9. g \in Real /\ g.first = i /\ g.last = m
      <3>1. r[i - 1].depth = 0
        BY <2>2 DEF Clojure!Reader
      <3>2. g \in [first : 1 .. N, last : 1 .. N] /\ g.first = i /\ g.last = m
        BY <1>n, <2>i, <2>6
      <3> HIDE DEF g
      <3> QED
        BY <1>2, <2>6, <2>7, <2>8, <3>1, <3>2
    <2>10. m < f.first
      <3>1. f.first # i
        BY <1>f, <2>1
      <3>2. f.first \notin 1 .. (i - 1)
        BY <1>f, <2>1
      <3>3. f.first - 1 \notin i .. m - 1
        <4>1. ~(0 > 0)
          OBVIOUS
        <4> QED
          BY <1>4, <2>8, <4>1
      <3> QED
        BY <1>n, <1>4, <2>i, <2>6, <3>1, <3>2, <3>3
    <2> QED
      BY <2>1, <2>9, <2>10
  <1> QED
    BY <1>5 DEF NamesSpace, Real

\* Forms that are apart lie one behind the other.
LEMMA ApartInOrder ==
    ASSUME NEW F \in Seq(ClojureForms), NEW e, Apart(F, e),
           \A k \in 1 .. Len(F) : F[k].first < F[k].last
    PROVE  \A j, k \in 1 .. Len(F) : j < k => F[j].last < F[k].first
  <1> DEFINE n == Len(F)
             T == {i \in 0 .. n : \A j \in 1 .. i - 1 : F[j].last < F[i].first}
  <1>1. n \in Nat /\ \A k \in 1 .. n : F[k].first \in Nat /\ F[k].last \in Nat
    <2>1. n \in Nat /\ \A k \in 1 .. n : F[k] \in ClojureForms
      OBVIOUS
    <2> QED
      BY <2>1 DEF ClojureForms
  <1>2. /\ \A k \in 1 .. (n - 1) : F[k].last < F[k + 1].first
        /\ \A k \in 1 .. n : F[k].first < F[k].last
    BY DEF Apart
  <1> HIDE DEF n
  <1>3. 0 \in T
    BY <1>1
  <1>4. ASSUME NEW i \in 1 .. n, i - 1 \in T PROVE i \in T
    <2>1. ASSUME NEW j \in 1 .. i - 1 PROVE F[j].last < F[i].first
      <3>1. i - 1 \in 1 .. (n - 1) /\ i - 1 \in 1 .. n /\ j \in 1 .. n /\ (i - 1) + 1 = i
        BY <1>1, <2>1
      <3>2. F[i - 1].last < F[i].first /\ F[i - 1].first < F[i - 1].last
        BY <1>2, <3>1
      <3>3. CASE j = i - 1
        BY <3>2, <3>3
      <3>4. CASE j # i - 1
        <4>1. j \in 1 .. (i - 1) - 1
          BY <2>1, <3>1, <3>4
        <4>2. F[j].last < F[i - 1].first
          BY <1>4, <4>1
        <4> QED
          BY <1>1, <3>1, <3>2, <4>2
      <3> QED
        BY <3>3, <3>4
    <2> QED
      BY <1>1, <2>1
  <1> HIDE DEF T
  <1>5. 0 .. n \subseteq T
    BY <1>1, <1>3, <1>4, Induct
  <1>6. ASSUME NEW j \in 1 .. n, NEW k \in 1 .. n, j < k PROVE F[j].last < F[k].first
    <2>1. k \in 0 .. n /\ j \in 1 .. k - 1
      BY <1>1, <1>6
    <2> QED
      BY <1>5, <2>1 DEF T
  <1> QED
    BY <1>6 DEF n

\* What the scanner finds in plain text is what there is.
LEMMA ClojureFinds == ASSUME NEW tokens \in Seq(Clojure!Tokens) PROVE Clojure!FindsForms(tokens)
  <1> SUFFICES ASSUME Clojure!Plain(tokens)
               PROVE  /\ Clojure!ToSet(Clojure!ParseClojure(tokens)) =
                            {f \in Clojure!RealForms(tokens) : tokens[f.first] = "(defn"}
                      /\ Clojure!IsInjective(Clojure!ParseClojure(tokens))
                      /\ \A f \in Clojure!ToSet(Clojure!ParseClojure(tokens)) :
                            Clojure!NsName(tokens) =>
                                \E g \in Clojure!RealForms(tokens) : g.last < f.first /\ tokens[g.first] = "(ns"
    BY DEF Clojure!FindsForms
  <1> DEFINE N == Len(tokens)
             r == Clojure!Read(tokens)
             Real == Clojure!RealForms(tokens)
             F == Clojure!Forms(tokens)
  <1>0. PICK after : ClojureRun(after, tokens)
    BY ClojureRuns
  <1>1. /\ after \in [0 .. N -> ClojureStates] /\ after[0] = Clojure!Scan
        /\ \A i \in 1 .. N : after[i] = Clojure!ScanToken(after[i - 1], tokens[i], i)
    BY <1>0 DEF ClojureRun
  <1>n. N \in Nat /\ \A i \in 1 .. N : i - 1 \in 0 .. N /\ i \in 0 .. N /\ tokens[i] \in Clojure!Tokens /\ i \in Nat \ {0}
    OBVIOUS
  <1>p. r[N].depth = 0 /\ \A i \in 1 .. N : PlainAt(tokens, i)
    <2>1. DOMAIN tokens = 1 .. N
      OBVIOUS
    <2>2. \A i \in 1 .. N : i > 1 => i \in 2 .. N
      BY <1>n
    <2> QED
      BY <2>1, <2>2 DEF Clojure!Plain, PlainAt
  <1> DEFINE A == {i \in 0 .. N : /\ ClojureSound(after[i], tokens, i)
                                  /\ Together(after[i], Clojure!Read(tokens)[i], tokens[i])
                                  /\ FormsReal(after[i], tokens, i)}
  <1>2. 0 \in A
    <2>1. ClojureSound(Clojure!Scan, tokens, 0)
      BY DEF ClojureSound, Clojure!Scan, Apart
    <2>2. Together(Clojure!Scan, Clojure!Read(tokens)[0], tokens[0])
      <3>1. Clojure!Read(tokens)[0] = Clojure!Reader
        BY ReaderReads DEF Reads
      <3> QED
        BY <3>1 DEF Together, Clojure!Scan, Clojure!Reader
    <2>3. FormsReal(Clojure!Scan, tokens, 0)
      <3>1. \A f \in Real : f.last \in 1 .. N
        BY DEF Clojure!RealForms
      <3>2. \A f \in Real : ~(f.last <= 0)
        BY <1>n, <3>1
      <3> QED
        BY <3>2 DEF FormsReal, Clojure!Scan
    <2> QED
      BY <1>1, <1>n, <2>1, <2>2, <2>3
  <1>3. ASSUME NEW i \in 1 .. N, i - 1 \in A PROVE i \in A
    <2> DEFINE s == after[i - 1]
               u == after[i]
    <2>1. s \in ClojureStates /\ u \in ClojureStates /\ u = Clojure!ScanToken(s, tokens[i], i)
      BY <1>1, <1>n
    <2>2. /\ ClojureSound(s, tokens, i - 1) /\ FormsReal(s, tokens, i - 1)
          /\ Together(s, Clojure!Read(tokens)[i - 1], tokens[i - 1])
      BY <1>3
    <2> HIDE DEF s, u
    <2>3. ClojureSound(u, tokens, i)
      BY <2>1, <2>2, ClojureSoundRound
    <2>4. Together(u, Clojure!Read(tokens)[i], tokens[i])
      BY <1>p, <2>1, <2>2, ReaderKeepsUp
    <2>5. Begins(s, u, i) \/ Ends(s, u, i) \/ GoesOn(s, u)
      <3>1. s.mode \in {"top", "skip"} <=> s.depth = 0
        BY <2>2 DEF ClojureSound
      <3> QED
        BY <1>n, <2>1, <3>1, ClojureMoves
    <2>6. FormsReal(u, tokens, i)
      BY <2>1, <2>2, <2>4, <2>5, FormsRealRound
    <2> QED
      BY <1>n, <2>3, <2>4, <2>6 DEF u
  <1> DEFINE s == after[N]
  <1>4. /\ s \in ClojureStates /\ ClojureSound(s, tokens, N) /\ FormsReal(s, tokens, N)
        /\ Together(s, r[N], tokens[N])
    <2>1. 0 .. N \subseteq A
      <3> HIDE DEF A, N
      <3> QED
        BY <1>n, <1>2, <1>3, Induct
    <2>2. N \in 0 .. N
      BY <1>n
    <2> QED
      BY <1>1, <2>1, <2>2
  <1>5. F = IF s.depth > 0 THEN Append(s.forms, Clojure!Form(s, N)) ELSE s.forms
    BY <1>0 DEF ClojureRun
  <1> HIDE DEF s, F, A
  <1>6. s.depth = 0
    BY <1>4, <1>p DEF ClojureSound, Together
  <1>7. F = s.forms
    BY <1>5, <1>6
  <1>8. Clojure!ToSet(F) = Real
    <2>1. \A k \in DOMAIN F : F[k] \in Real
      BY <1>4, <1>7 DEF FormsReal
    <2>2. ASSUME NEW f \in Real PROVE \E k \in DOMAIN F : F[k] = f
      <3>1. f.last \in 1 .. N
        BY DEF Clojure!RealForms
      <3>2. f.last <= N
        BY <1>n, <3>1
      <3> QED
        BY <1>4, <1>7, <3>2 DEF FormsReal
    <2> QED
      BY <2>1, <2>2 DEF Clojure!ToSet
  <1> DEFINE D == {g \in [first : 1 .. N, last : 1 .. N] : tokens[g.first] = "(defn"}
             q == Select(F, D)
  <1>9. Clojure!ParseClojure(tokens) = q
    BY DEF Clojure!ParseClojure, Clojure!Select, Select, F
  <1>10. F \in Seq(ClojureForms)
    BY ClojurePieces DEF F
  <1>11. Real \subseteq [first : 1 .. N, last : 1 .. N] /\ \A f \in Real : f.first < f.last
    BY DEF Clojure!RealForms
  <1> HIDE DEF D, Real
  <1>12. q \in Seq(ClojureForms) /\ \E at : Kept(F, D, Len(F), q, at)
    BY <1>10, SelectKeeps
  <1>13. PICK at : Kept(F, D, Len(F), q, at)
    BY <1>12
  <1> HIDE DEF q
  <1>14. DOMAIN q = 1 .. Len(q) /\ DOMAIN F = 1 .. Len(F)
    BY <1>10, <1>12
  <1>15. /\ \A k \in DOMAIN q : at[k] \in DOMAIN F /\ q[k] = F[at[k]] /\ q[k] \in D
         /\ \A j, k \in DOMAIN q : j < k => at[j] < at[k]
         /\ \A h \in DOMAIN F : F[h] \in D => \E k \in DOMAIN q : at[k] = h
    BY <1>13, <1>14 DEF Kept
  <1>16. \A f \in Real : f \in D <=> tokens[f.first] = "(defn"
    BY <1>11 DEF D
  <1>17. Clojure!ToSet(q) = {f \in Real : tokens[f.first] = "(defn"}
    <2>1. ASSUME NEW f \in Clojure!ToSet(q) PROVE f \in Real /\ tokens[f.first] = "(defn"
      <3>1. PICK k \in DOMAIN q : f = q[k]
        BY DEF Clojure!ToSet
      <3>2. f \in Clojure!ToSet(F) /\ f \in D
        BY <1>15, <3>1 DEF Clojure!ToSet
      <3> QED
        BY <1>8, <1>16, <3>2
    <2>2. ASSUME NEW f \in Real, tokens[f.first] = "(defn" PROVE f \in Clojure!ToSet(q)
      <3>1. PICK h \in DOMAIN F : f = F[h]
        BY <1>8 DEF Clojure!ToSet
      <3>2. PICK k \in DOMAIN q : at[k] = h
        BY <1>15, <1>16, <2>2, <3>1
      <3> QED
        BY <1>15, <3>1, <3>2 DEF Clojure!ToSet
    <2> QED
      BY <2>1, <2>2
  <1>18. Clojure!IsInjective(q)
    <2>1. \A k \in 1 .. Len(F) : F[k].first < F[k].last /\ F[k] \in ClojureForms
      <3>1. \A k \in 1 .. Len(F) : F[k] \in Real
        BY <1>8, <1>14 DEF Clojure!ToSet
      <3> QED
        BY <1>10, <1>11, <3>1
    <2>2. Apart(F, N)
      BY <1>4, <1>7 DEF ClojureSound
    <2>3. \A j, k \in 1 .. Len(F) : j < k => F[j].last < F[k].first
      BY <1>10, <2>1, <2>2, ApartInOrder
    <2>4. ASSUME NEW j \in DOMAIN q, NEW k \in DOMAIN q, j < k PROVE q[j] # q[k]
      <3>1. /\ at[j] \in 1 .. Len(F) /\ at[k] \in 1 .. Len(F) /\ at[j] < at[k]
            /\ q[j] = F[at[j]] /\ q[k] = F[at[k]]
        BY <1>14, <1>15, <2>4
      <3>2. F[at[j]].first < F[at[j]].last /\ F[at[j]].last < F[at[k]].first
        BY <2>1, <2>3, <3>1
      <3>3. /\ F[at[j]].first \in Nat /\ F[at[j]].last \in Nat /\ F[at[k]].first \in Nat
        BY <2>1, <3>1 DEF ClojureForms
      <3>4. F[at[j]].first # F[at[k]].first
        BY <3>2, <3>3
      <3> QED
        BY <3>1, <3>4
    <2>5. \A j, k \in DOMAIN q : j # k => j < k \/ k < j
      BY <1>12, <1>14
    <2> QED
      BY <2>4, <2>5 DEF Clojure!IsInjective
  <1>19. ASSUME NEW f \in Clojure!ToSet(q)
         PROVE  Clojure!NsName(tokens) =>
                    \E g \in Clojure!RealForms(tokens) : g.last < f.first /\ tokens[g.first] = "(ns"
    <2>1. f \in Clojure!RealForms(tokens) /\ tokens[f.first] = "(defn"
      BY <1>17 DEF Real
    <2>2. NamesSpace(tokens, f)
      BY <2>1, NamespaceFirst
    <2> QED
      BY <2>2 DEF NamesSpace
  <1> QED
    BY <1>9, <1>17, <1>18, <1>19 DEF Real

-----------------------------------------------------------------------------
\* The last window reaches the end of the text.
LEMMA WindowsReach ==
    ASSUME NEW n \in Nat, n > ChunkSize
    PROVE  n <= (Len(Windows(n)) - 1) * Step + ChunkSize
  <1> DEFINE rest == n - ChunkSize
             d == rest \div Step
             r == rest % Step
             steps == d + (IF r = 0 THEN 0 ELSE 1)
  <1>1. Step \in Nat \ {0} /\ ChunkSize \in Nat /\ rest \in Nat \ {0}
    BY StepTyped
  <1>2. d \in Nat /\ r \in 0 .. Step - 1 /\ rest = Step * d + r
    BY <1>1
  <1>3. Len(Windows(n)) = steps + 1
    <2>1. steps + 1 \in Nat
      BY <1>2
    <2> HIDE DEF steps
    <2>2. Windows(n) = [k \in 1 .. (steps + 1) |->
                           <<(k - 1) * Step + 1, Min({(k - 1) * Step + ChunkSize, n})>>]
      BY DEF Windows, steps
    <2> QED
      BY <2>1, <2>2
  <1>4. rest <= steps * Step
    <2> HIDE DEF d, r, rest
    <2>1. CASE r = 0
      <3>1. steps = d
        BY <1>2, <2>1
      <3> QED
        BY <1>1, <1>2, <2>1, <3>1
    <2>2. CASE r # 0
      <3>1. steps = d + 1
        BY <1>2, <2>2
      <3>2. (d + 1) * Step = Step * d + Step
        BY <1>1, <1>2
      <3> QED
        BY <1>1, <1>2, <3>1, <3>2
    <2> QED
      BY <2>1, <2>2
  <1>5. steps \in Nat /\ steps * Step \in Nat
    BY <1>1, <1>2
  <1> HIDE DEF steps
  <1> QED
    BY <1>1, <1>3, <1>4, <1>5

\* A passage no longer than the overlap is within one of the windows: the
\* first that ends no earlier than it.
LEMMA WindowHolds ==
    ASSUME NEW n \in Nat, n > ChunkSize, NEW a \in 1 .. n, NEW b \in 1 .. n,
           b - a <= ChunkSize - Step
    PROVE  \E k \in 1 .. Len(Windows(n)) : Windows(n)[k][1] <= a /\ b <= Windows(n)[k][2]
  <1> DEFINE L == Len(Windows(n))
             T == {k \in 1 .. L : b <= (k - 1) * Step + ChunkSize}
  <1>1. L \in Nat \ {0} /\ n <= (L - 1) * Step + ChunkSize /\ Step \in Nat \ {0} /\ ChunkSize \in Nat
    BY WindowsTyped, WindowsReach, StepTyped
  <1>2. \A k \in 1 .. L :
            /\ Windows(n)[k][1] = (k - 1) * Step + 1
            /\ Windows(n)[k][2] = IF (k - 1) * Step + ChunkSize < n THEN (k - 1) * Step + ChunkSize ELSE n
    BY WindowsTyped
  <1> HIDE DEF L
  <1>3. L \in T /\ T \subseteq Nat
    <2>1. (L - 1) * Step \in Nat
      BY <1>1
    <2> QED
      BY <1>1, <2>1
  <1>4. PICK k \in T : \A m \in T : k <= m
    <2> HIDE DEF T
    <2> QED
      BY <1>3, Least
  <1>5. k \in 1 .. L /\ k \in Nat \ {0} /\ b <= (k - 1) * Step + ChunkSize /\ (k - 1) * Step \in Nat
    BY <1>1
  <1>6. b <= Windows(n)[k][2]
    BY <1>1, <1>2, <1>5
  <1>7. (k - 1) * Step + 1 <= a
    <2>1. CASE k = 1
      BY <1>1, <2>1
    <2>2. CASE k # 1
      <3>1. k - 1 \in 1 .. L /\ ~(k <= k - 1)
        BY <1>1, <1>5, <2>2
      <3>2. k - 1 \notin T
        BY <1>4, <3>1
      <3>3. ~(b <= (k - 1 - 1) * Step + ChunkSize)
        BY <3>1, <3>2
      <3>4. (k - 1 - 1) * Step = (k - 1) * Step - Step
        BY <1>1, <1>5
      <3> QED
        BY <1>1, <1>5, <3>3, <3>4
    <2> QED
      BY <2>1, <2>2
  <1>8. Windows(n)[k][1] = (k - 1) * Step + 1
    BY <1>2, <1>5
  <1>9. Windows(n)[k][1] <= a
    BY <1>7, <1>8
  <1> QED
    BY <1>5, <1>6, <1>9 DEF L

\* What is left of a window without the blanks around it.
LEMMA Trimming ==
    ASSUME NEW t, NEW w \in Nat \X Nat, Seen(t, w) # {}
    PROVE  /\ Trimmed(t, w)[1] \in Seen(t, w) /\ Trimmed(t, w)[2] \in Seen(t, w)
           /\ \A i \in Seen(t, w) : Trimmed(t, w)[1] <= i /\ i <= Trimmed(t, w)[2]
  <1>1. w[1] \in Nat /\ w[2] \in Nat
    OBVIOUS
  <1>2. Seen(t, w) \subseteq 0 .. w[2] /\ Seen(t, w) \subseteq Nat
    BY <1>1 DEF Seen
  <1>3. Trimmed(t, w)[1] = Min(Seen(t, w)) /\ Trimmed(t, w)[2] = Max(Seen(t, w))
    BY DEF Trimmed
  <1> QED
    BY <1>1, <1>2, <1>3, LeastOf, GreatestOf

\* The chunks of a text that does not fit in a window are the windows with
\* something in them, trimmed.
Trims(t, at) ==
    LET W == Windows(Len(t))
        C == Chunk(t)
    IN  /\ Len(C) \in Nat /\ DOMAIN C = 1 .. Len(C)
        /\ at \in [1 .. Len(C) -> 1 .. Len(W)]
        /\ \A k \in 1 .. Len(C) : C[k] = Trimmed(t, W[at[k]]) /\ Seen(t, W[at[k]]) # {}
        /\ \A j, k \in 1 .. Len(C) : j < k => at[j] < at[k]
        /\ \A h \in 1 .. Len(W) : Seen(t, W[h]) # {} => \E k \in 1 .. Len(C) : at[k] = h

LEMMA LongText ==
    ASSUME NEW t \in Seq(Runes), Len(t) > ChunkSize PROVE \E at : Trims(t, at)
  <1> DEFINE n == Len(t)
             W == Windows(n)
             visible == {w \in (1 .. n) \X (1 .. n) : Seen(t, w) # {}}
             cut == Select(W, visible)
  <1>n. n \in Nat /\ n > ChunkSize /\ ChunkSize \in Nat
    BY StepTyped
  <1>1. W \in Seq(Nat \X Nat) /\ Len(W) \in Nat
    BY <1>n, WindowsTyped
  <1>2. \A h \in 1 .. Len(W) : W[h] \in visible <=> Seen(t, W[h]) # {}
    <2> SUFFICES ASSUME NEW h \in 1 .. Len(W), Seen(t, W[h]) # {} PROVE W[h] \in (1 .. n) \X (1 .. n)
      OBVIOUS
    <2>1. W[h] \in Nat \X Nat
      BY <1>1
    <2>2. PICK i \in W[h][1] .. W[h][2] : TRUE
      BY DEF Seen
    <2>4. (h - 1) * Step \in Nat
      <3>1. h - 1 \in Nat
        BY <1>1
      <3> QED
        BY <3>1, StepTyped
    <2>3. W[h][1] = (h - 1) * Step + 1 /\ W[h][2] <= n
      <3> DEFINE m == (h - 1) * Step + ChunkSize
      <3>1. W[h][1] = (h - 1) * Step + 1 /\ W[h][2] = IF m < n THEN m ELSE n
        BY <1>n, WindowsTyped
      <3>2. m \in Nat
        BY <1>n, <2>4
      <3> HIDE DEF m, W, n
      <3> QED
        BY <1>n, <3>1, <3>2
    <2>5. W[h][1] \in 1 .. n /\ W[h][2] \in 1 .. n
      <3>1. W[h][1] \in Nat /\ W[h][2] \in Nat
        BY <2>1
      <3> HIDE DEF W, n
      <3> QED
        BY <1>n, <2>2, <2>3, <2>4, <3>1
    <2> HIDE DEF W
    <2>6. W[h] = <<W[h][1], W[h][2]>>
      BY <2>1
    <2> QED
      BY <2>5, <2>6
  <1>3. Chunk(t) = [k \in DOMAIN cut |-> Trimmed(t, cut[k])]
    BY <1>n DEF Chunk
  <1> HIDE DEF visible, W
  <1>4. cut \in Seq(Nat \X Nat) /\ \E at : Kept(W, visible, Len(W), cut, at)
    BY <1>1, SelectKeeps
  <1>5. PICK at : Kept(W, visible, Len(W), cut, at)
    BY <1>4
  <1> HIDE DEF cut
  <1>6. /\ Len(Chunk(t)) = Len(cut) /\ Len(cut) \in Nat /\ DOMAIN Chunk(t) = 1 .. Len(cut)
        /\ \A k \in 1 .. Len(cut) : Chunk(t)[k] = Trimmed(t, cut[k])
    BY <1>3, <1>4
  <1>7. /\ at \in [1 .. Len(cut) -> 1 .. Len(W)]
        /\ \A k \in 1 .. Len(cut) : cut[k] = W[at[k]] /\ W[at[k]] \in visible
        /\ \A j, k \in 1 .. Len(cut) : j < k => at[j] < at[k]
        /\ \A h \in 1 .. Len(W) : W[h] \in visible => \E k \in 1 .. Len(cut) : at[k] = h
    BY <1>5 DEF Kept
  <1>8. \A k \in 1 .. Len(cut) : Chunk(t)[k] = Trimmed(t, W[at[k]]) /\ Seen(t, W[at[k]]) # {}
    BY <1>2, <1>6, <1>7
  <1>9. \A h \in 1 .. Len(W) : Seen(t, W[h]) # {} => \E k \in 1 .. Len(cut) : at[k] = h
    BY <1>2, <1>7
  <1> DEFINE C == Chunk(t)
  <1>10. /\ Len(C) \in Nat /\ DOMAIN C = 1 .. Len(C) /\ Len(C) = Len(cut)
         /\ at \in [1 .. Len(C) -> 1 .. Len(W)]
         /\ \A k \in 1 .. Len(C) : C[k] = Trimmed(t, W[at[k]]) /\ Seen(t, W[at[k]]) # {}
         /\ \A j, k \in 1 .. Len(C) : j < k => at[j] < at[k]
    BY <1>6, <1>7, <1>8
  <1>11. \A h \in 1 .. Len(W) : Seen(t, W[h]) # {} => \E k \in 1 .. Len(C) : at[k] = h
    BY <1>9, <1>10
  <1> HIDE DEF C
  <1>12. Trims(t, at)
    BY <1>10, <1>11 DEF Trims, C, W
  <1> QED
    BY <1>12

\* No short passage of a text is torn apart, and the chunks follow the text.
LEMMA ChunksWhole == ASSUME NEW t \in Seq(Runes) PROVE Len(Chunk(t)) \in Nat /\ ChunksHold(t)
  <1> DEFINE n == Len(t)
             C == Chunk(t)
  <1>n. n \in Nat /\ ChunkSize \in Nat /\ Step \in Nat \ {0}
    BY StepTyped
  <1>1. CASE n <= ChunkSize
    <2>1. C = IF Seen(t, <<1, n>>) # {} THEN <<<<1, n>>>> ELSE <<>>
      <3>1. CASE Seen(t, <<1, n>>) # {}
        <4>1. 1 \in 1 .. n /\ n \in 1 .. n
          BY <1>n, <3>1 DEF Seen
        <4> QED
          BY <1>1, <3>1, <4>1 DEF Chunk
      <3>2. CASE Seen(t, <<1, n>>) = {}
        BY <1>1, <3>2 DEF Chunk
      <3> QED
        BY <3>1, <3>2
    <2>2. CASE Seen(t, <<1, n>>) = {}
      <3>1. C = <<>>
        BY <2>1, <2>2
      <3> QED
        BY <2>2, <3>1 DEF ChunksHold
    <2>3. CASE Seen(t, <<1, n>>) # {}
      <3>1. C = <<<<1, n>>>>
        BY <2>1, <2>3
      <3>2. DOMAIN C = {1} /\ Len(C) = 1 /\ C[1][1] = 1 /\ C[1][2] = n
        BY <3>1
      <3>3. \A i \in Seen(t, <<1, n>>) : 1 <= i /\ i <= n
        BY <1>n DEF Seen
      <3> HIDE DEF C
      <3> QED
        BY <1>1, <1>n, <3>2, <3>3 DEF ChunksHold, C
    <2> QED
      BY <2>2, <2>3
  <1>2. CASE n > ChunkSize
    <2> DEFINE W == Windows(n)
    <2>0. PICK at : Trims(t, at)
      BY <1>2, LongText
    <2>1. /\ Len(C) \in Nat /\ DOMAIN C = 1 .. Len(C)
          /\ at \in [1 .. Len(C) -> 1 .. Len(W)]
          /\ \A k \in 1 .. Len(C) : C[k] = Trimmed(t, W[at[k]]) /\ Seen(t, W[at[k]]) # {}
          /\ \A j, k \in 1 .. Len(C) : j < k => at[j] < at[k]
          /\ \A h \in 1 .. Len(W) : Seen(t, W[h]) # {} => \E k \in 1 .. Len(C) : at[k] = h
      BY <2>0 DEF Trims
    <2>2. /\ W \in Seq(Nat \X Nat) /\ Len(W) \in Nat
          /\ \A k \in 1 .. Len(W) :
                  /\ W[k][1] = (k - 1) * Step + 1
                  /\ W[k][2] = IF (k - 1) * Step + ChunkSize < n
                               THEN (k - 1) * Step + ChunkSize ELSE n
      BY <1>n, <1>2, WindowsTyped
    <2>h. \A a, b \in 1 .. n : b - a <= ChunkSize - Step =>
              \E k \in 1 .. Len(W) : W[k][1] <= a /\ b <= W[k][2]
      BY <1>n, <1>2, WindowHolds
    <2> HIDE DEF W, C
    <2>3. ASSUME NEW k \in 1 .. Len(C)
          PROVE  /\ at[k] \in 1 .. Len(W) /\ W[at[k]] \in Nat \X Nat
                 /\ C[k][1] \in Seen(t, W[at[k]]) /\ C[k][2] \in Seen(t, W[at[k]])
                 /\ \A i \in Seen(t, W[at[k]]) : C[k][1] <= i /\ i <= C[k][2]
      <3>1. at[k] \in 1 .. Len(W)
        BY <2>1
      <3>2. W[at[k]] \in Nat \X Nat
        BY <2>2, <3>1
      <3> QED
        BY <2>1, <3>1, <3>2, Trimming
    <2>4. ASSUME NEW a \in Seen(t, <<1, n>>), NEW b \in Seen(t, <<1, n>>), a <= b,
                 b - a <= ChunkSize - Step
          PROVE  \E k \in DOMAIN C : C[k][1] <= a /\ b <= C[k][2]
      <3>1. a \in 1 .. n /\ b \in 1 .. n
        BY DEF Seen
      <3>2. PICK h \in 1 .. Len(W) : W[h][1] <= a /\ b <= W[h][2]
        BY <2>h, <2>4, <3>1
      <3>3. W[h] \in Nat \X Nat
        BY <2>2
      <3>4. a \in Seen(t, W[h]) /\ b \in Seen(t, W[h])
        <4>1. W[h][1] \in Nat /\ W[h][2] \in Nat /\ a \in Nat /\ b \in Nat
          BY <3>1, <3>3
        <4> QED
          BY <2>4, <3>2, <4>1 DEF Seen
      <3>5. PICK k \in 1 .. Len(C) : at[k] = h
        BY <2>1, <3>4
      <3> QED
        BY <2>1, <2>3, <3>4, <3>5
    <2>5. ASSUME NEW k \in DOMAIN C PROVE C[k][2] - C[k][1] < ChunkSize
      <3>1. k \in 1 .. Len(C)
        BY <2>1
      <3> DEFINE w == W[at[k]]
      <3>2. w[2] - w[1] < ChunkSize /\ w[1] \in Nat /\ w[2] \in Nat
        <4>1. at[k] \in 1 .. Len(W) /\ at[k] - 1 \in Nat /\ w \in Nat \X Nat
          BY <2>2, <2>3, <3>1
        <4>2. (at[k] - 1) * Step \in Nat
          BY <1>n, <4>1
        <4> DEFINE m == (at[k] - 1) * Step + ChunkSize
        <4>5. w[1] = (at[k] - 1) * Step + 1 /\ w[2] = IF m < n THEN m ELSE n
          BY <2>2, <4>1
        <4>6. m \in Nat
          BY <1>n, <4>2
        <4>3. w[1] = (at[k] - 1) * Step + 1 /\ w[2] <= (at[k] - 1) * Step + ChunkSize
          <5>1. w[2] <= m
            <6> HIDE DEF m, w, n
            <6> QED
              BY <1>n, <4>5, <4>6
          <5> QED
            BY <4>5, <5>1
        <4>4. w[1] \in Nat /\ w[2] \in Nat
          BY <4>1
        <4> HIDE DEF w
        <4> QED
          BY <1>n, <4>2, <4>3, <4>4
      <3>3. C[k][1] \in w[1] .. w[2] /\ C[k][2] \in w[1] .. w[2]
        BY <2>3, <3>1 DEF Seen
      <3> HIDE DEF w
      <3> QED
        BY <1>n, <3>2, <3>3
    <2>6. ASSUME NEW k \in 1 .. (Len(C) - 1)
          PROVE  C[k][1] <= C[k + 1][1] /\ C[k][2] <= C[k + 1][2]
      <3>1. k \in 1 .. Len(C) /\ k + 1 \in 1 .. Len(C) /\ k < k + 1
        BY <2>1
      <3> DEFINE v == W[at[k]]
                 w == W[at[k + 1]]
      <3>2. v[1] <= w[1] /\ v[2] <= w[2]
        <4>1. at[k] < at[k + 1] /\ at[k] \in 1 .. Len(W) /\ at[k + 1] \in 1 .. Len(W)
          BY <2>1, <3>1
        <4> DEFINE x == at[k] - 1
                   y == at[k + 1] - 1
        <4>2. x \in Nat /\ y \in Nat /\ x <= y
          <5> DEFINE p == at[k]
                     q == at[k + 1]
          <5>1. p \in 1 .. Len(W) /\ q \in 1 .. Len(W) /\ p < q /\ Len(W) \in Nat
            BY <2>2, <4>1
          <5> HIDE DEF p, q
          <5>2. p - 1 \in Nat /\ q - 1 \in Nat /\ p - 1 <= q - 1
            BY <5>1
          <5> QED
            BY <5>2 DEF p, q
        <4>3. /\ v[1] = x * Step + 1
              /\ v[2] = IF x * Step + ChunkSize < n THEN x * Step + ChunkSize ELSE n
              /\ w[1] = y * Step + 1
              /\ w[2] = IF y * Step + ChunkSize < n THEN y * Step + ChunkSize ELSE n
          BY <2>2, <4>1
        <4> HIDE DEF x, y, v, w
        <4>4. x * Step <= y * Step /\ x * Step \in Nat /\ y * Step \in Nat
          <5>1. y - x \in Nat /\ y * Step = x * Step + (y - x) * Step
            BY <1>n, <4>2
          <5>2. (y - x) * Step \in Nat /\ x * Step \in Nat /\ y * Step \in Nat
            BY <1>n, <4>2, <5>1
          <5> QED
            BY <5>1, <5>2
        <4> QED
          BY <1>n, <4>3, <4>4
      <3>3. /\ v \in Nat \X Nat /\ w \in Nat \X Nat
            /\ C[k][1] \in Seen(t, v) /\ C[k][2] \in Seen(t, v)
            /\ C[k + 1][1] \in Seen(t, w) /\ C[k + 1][2] \in Seen(t, w)
            /\ \A i \in Seen(t, v) : C[k][1] <= i /\ i <= C[k][2]
            /\ \A i \in Seen(t, w) : C[k + 1][1] <= i /\ i <= C[k + 1][2]
        BY <2>3, <3>1
      <3> HIDE DEF v, w
      <3>4. v[1] \in Nat /\ v[2] \in Nat /\ w[1] \in Nat /\ w[2] \in Nat
        BY <3>3
      <3>5. \A i : i \in Seen(t, v) <=> i \in v[1] .. v[2] /\ t[i] = "visible"
        BY DEF Seen
      <3>6. \A i : i \in Seen(t, w) <=> i \in w[1] .. w[2] /\ t[i] = "visible"
        BY DEF Seen
      <3> DEFINE c1 == C[k][1]
                 c2 == C[k][2]
                 d1 == C[k + 1][1]
                 d2 == C[k + 1][2]
      <3>7. c1 <= d1
        <4>1. CASE d1 <= v[2]
          BY <3>2, <3>3, <3>4, <3>5, <3>6, <4>1
        <4>2. CASE ~(d1 <= v[2])
          BY <3>2, <3>3, <3>4, <3>5, <3>6, <4>2
        <4> QED
          BY <4>1, <4>2
      <3>8. c2 <= d2
        <4>1. CASE w[1] <= c2
          BY <3>2, <3>3, <3>4, <3>5, <3>6, <4>1
        <4>2. CASE ~(w[1] <= c2)
          BY <3>2, <3>3, <3>4, <3>5, <3>6, <4>2
        <4> QED
          BY <4>1, <4>2
      <3> QED
        BY <3>7, <3>8
    <2> QED
      BY <2>1, <2>4, <2>5, <2>6 DEF ChunksHold, C
  <1> QED
    BY <1>1, <1>2, <1>n

LEMMA SomePieces == ASSUME source \in TextSources, text \in Seq(Symbols) PROVE Pieces \in Nat
  <1>1. CASE source = "document"
    BY <1>1, ChunksWhole DEF Symbols, Pieces
  <1>2. CASE source = "ruby"
    BY <1>2, RubyPieces DEF Symbols, Pieces, RubyLines
  <1>3. CASE source = "clojure"
    BY <1>3, ClojurePieces DEF Symbols, Pieces
  <1>4. CASE source = "question"
    BY <1>4 DEF Pieces
  <1> QED
    BY <1>1, <1>2, <1>3, <1>4 DEF TextSources

-----------------------------------------------------------------------------
\* The steps of the service.

LEMMA InitInv == TextInit => Inv
  <1> SUFFICES ASSUME TextInit PROVE Inv
    OBVIOUS
  <1>u. /\ provider = "none" /\ count = 0 /\ embed = "idle" /\ from = 0 /\ attempt = 0
        /\ result = <<>> /\ cancelled = FALSE /\ late = 0 /\ lacking = {}
        /\ source \in TextSources /\ text = <<>> /\ stage = "written" /\ rows = <<>>
    BY DEF TextInit, EmbedInit
  <1>1. EmbedTypeOK
    <2>1. result \in [DOMAIN result -> 0 .. count] /\ DOMAIN result = {}
      BY <1>u
    <2>2. attempt \in 0 .. MaxRetries - 1
      BY <1>u, EmbedAssumption
    <2>3. /\ provider \in Providers \cup {"none"} /\ embed \in EmbedLocations
          /\ cancelled \in BOOLEAN /\ lacking \subseteq 1 .. count
      BY <1>u DEF EmbedLocations
    <2>4. count \in Nat /\ from \in 0 .. count /\ late \in Nat
      BY <1>u
    <2> QED
      BY <2>1, <2>2, <2>3, <2>4 DEF EmbedTypeOK
  <1>2. InBatch /\ Aligned /\ Stopping
    BY <1>u, EmbedAssumption DEF InBatch, Aligned, Answered, Stopping, Attempts, Asking
  <1>3. text \in Seq(Symbols) /\ stage \in Stages
    BY <1>u DEF Stages
  <1>4. RowsInOrder /\ InStep
    BY <1>u DEF RowsInOrder, InStep
  <1> QED
    BY <1>u, <1>1, <1>2, <1>3, <1>4 DEF Inv, EmbedInv

LEMMA WriteInv == ASSUME Inv, Write PROVE Inv'
  <1>1. PICK s \in Symbols : text' = Append(text, s)
    BY DEF Write
  <1>u. UNCHANGED <<embedVars, source, stage, rows>>
    BY DEF Write
  <1>2. EmbedInv'
    BY <1>u, SameEmbedInv DEF Inv
  <1>3. Symbols' = Symbols
    BY <1>u DEF Symbols
  <1>s. Append(text, s) \in Seq(Symbols)
    BY DEF Inv
  <1>4. RowsInOrder' /\ InStep'
    BY <1>u DEF Inv, RowsInOrder, InStep, embedVars
  <1> QED
    BY <1>u, <1>1, <1>2, <1>3, <1>s, <1>4 DEF Inv

LEMMA NothingWritten == text' = <<>> => text' \in Seq(Symbols')
  OBVIOUS

LEMMA ExtractInv == ASSUME Inv, Extract PROVE Inv'
  <1>u. stage = "written" /\ text' = <<>> /\ UNCHANGED <<source, rows>>
    BY DEF Extract
  <1>i. embed = "idle" /\ rows = <<>> /\ count = 0 /\ lacking = {}
    BY <1>u DEF Inv, InStep, RowsInOrder, EmbedInv, InBatch
  <1>1. CASE Pieces = 0
    <2>1. stage' = "done" /\ UNCHANGED embedVars
      BY <1>1 DEF Extract
    <2>2. EmbedInv'
      BY <2>1, SameEmbedInv DEF Inv
    <2>3. RowsInOrder' /\ InStep'
      BY <1>u, <1>i, <2>1 DEF RowsInOrder, InStep, embedVars
    <2> QED
      BY <1>u, <2>1, <2>2, <2>3, NothingWritten DEF Inv, Stages
  <1>2. CASE Pieces # 0
    <2>1. stage' = "embedding" /\ \E p \in Providers : Call(p, Pieces)
      BY <1>2 DEF Extract
    <2>2. PICK p \in Providers : Call(p, Pieces)
      BY <2>1
    <2>3. Pieces \in Nat \ {0}
      BY <1>2, SomePieces DEF Inv
    <2> HIDE DEF Pieces
    <2>4. EmbedInv' /\ embed' = "send" /\ count' \in Nat \ {0}
      BY <2>2, <2>3, CallInv DEF Inv
    <2>5. RowsInOrder' /\ InStep'
      BY <1>u, <1>i, <2>1, <2>4 DEF RowsInOrder, InStep
    <2> QED
      BY <1>u, <2>1, <2>4, <2>5, NothingWritten DEF Inv, Stages
  <1> QED
    BY <1>1, <1>2

LEMMA EmbedStepInv == ASSUME Inv, Embed PROVE Inv'
  <1>1. EmbedInv' /\ UNCHANGED <<provider, count, source, text, stage, rows>>
    BY ProgressInv DEF Embed, Inv
  <1>2. embed \in Asking /\ embed' # "idle"
    BY ProgressInv DEF Embed, Inv
  <1>3. rows = <<>> /\ stage \notin {"written", "pending"}
             /\ (stage = "done" => source = "question")
    <2>1. embed \notin {"idle", "done", "panicked"}
      BY <1>2 DEF Asking
    <2> QED
      BY <2>1 DEF Inv, RowsInOrder, InStep, Stages
  <1>4. RowsInOrder' /\ InStep'
    BY <1>1, <1>2, <1>3 DEF Inv, RowsInOrder, InStep
  <1>5. Symbols' = Symbols
    BY <1>1 DEF Symbols
  <1> QED
    BY <1>1, <1>4, <1>5 DEF Inv

LEMMA HangupInv == ASSUME Inv, Hangup PROVE Inv'
  <1>u. /\ UNCHANGED <<provider, count, embed, lacking, source, text, stage, rows>> /\ Cancel
    BY DEF Hangup, Cancel
  <1>1. EmbedInv'
    BY <1>u, CancelInv DEF Inv
  <1>2. Symbols' = Symbols
    BY <1>u DEF Symbols
  <1>3. RowsInOrder' /\ InStep'
    BY <1>u DEF Inv, RowsInOrder, InStep
  <1> QED
    BY <1>u, <1>1, <1>2, <1>3 DEF Inv

\* The steps that only end the work on a text.
LEMMA EndInv == ASSUME Inv, EmbedFailed \/ Panicked \/ Search PROVE Inv'
  <1>u. /\ UNCHANGED <<embedVars, source, text, rows>>
        /\ \/ stage' = "error"
           \/ stage' = "done" /\ source = "question"
           \/ stage' = "pending" /\ embed = "panicked" /\ source # "question"
    BY DEF EmbedFailed, Panicked, Search
  <1>1. EmbedInv'
    BY <1>u, SameEmbedInv DEF Inv
  <1>2. Symbols' = Symbols
    BY <1>u DEF Symbols
  <1>3. RowsInOrder' /\ InStep'
    BY <1>u DEF Inv, RowsInOrder, InStep, embedVars
  <1> QED
    BY <1>u, <1>1, <1>2, <1>3 DEF Inv, Stages

LEMMA StoreRowInv == ASSUME Inv, StoreRow PROVE Inv'
  <1> DEFINE i == Len(rows) + 1
  <1>u. /\ stage = "embedding" /\ embed = "done" /\ source # "question"
        /\ UNCHANGED <<embedVars, source, text>>
    BY DEF StoreRow
  <1>e. UNCHANGED <<provider, count, embed, lacking, result>>
    BY <1>u DEF embedVars
  <1>1. EmbedInv'
    BY <1>u, SameEmbedInv DEF Inv
  <1>2. Symbols' = Symbols
    BY <1>u DEF Symbols
  <1>r. /\ rows \in Seq(1 .. count) /\ DOMAIN rows = 1 .. Len(rows) /\ Len(rows) \in Nat
        /\ i \in 1 .. count /\ count \in Nat
    BY <1>u DEF Inv, EmbedInv, EmbedTypeOK, RowsInOrder, InStep
  <1>v. result[i] = IF i \in lacking THEN Nil ELSE i
    BY <1>u, <1>r DEF Inv, EmbedInv, Aligned, Answered
  <1>n. i # Nil
    BY <1>r DEF Nil
  <1>3. CASE result[i] = Nil
    <2>1. stage' = "pending" /\ rows' = rows
      BY <1>3 DEF StoreRow
    <2>2. i \in lacking
      BY <1>v, <1>n, <1>3
    <2>3. RowsInOrder' /\ InStep'
      BY <1>u, <1>e, <2>1, <2>2 DEF Inv, RowsInOrder, InStep
    <2> QED
      BY <1>u, <1>1, <1>2, <2>1, <2>3 DEF Inv, Stages
  <1>4. CASE result[i] # Nil
    <2>1. /\ rows' = Append(rows, result[i])
          /\ stage' = IF i = count THEN "done" ELSE stage
      BY <1>4 DEF StoreRow
    <2>2. i \notin lacking /\ result[i] = i
      BY <1>v, <1>4
    <2>3. /\ rows' \in Seq(1 .. count) /\ DOMAIN rows' = 1 .. i /\ Len(rows') = i
          /\ rows'[i] = i /\ \A k \in 1 .. Len(rows) : rows'[k] = rows[k]
      BY <1>r, <2>1, <2>2
    <2>4. \A k \in 1 .. i : k \in DOMAIN rows \/ k = i
      BY <1>r
    <2>5. RowsInOrder'
      BY <1>u, <1>e, <1>r, <2>2, <2>3, <2>4 DEF Inv, RowsInOrder
    <2>6. InStep'
      BY <1>u, <1>e, <1>r, <2>1, <2>3 DEF InStep
    <2> QED
      BY <1>u, <1>1, <1>2, <2>1, <2>5, <2>6 DEF Inv, Stages
  <1> QED
    BY <1>3, <1>4

LEMMA NextInv == Inv /\ [TextNext]_textVars => Inv'
  <1> SUFFICES ASSUME Inv, [TextNext]_textVars PROVE Inv'
    OBVIOUS
  <1>1. CASE TextNext
    BY <1>1, WriteInv, ExtractInv, EmbedStepInv, HangupInv, EndInv, StoreRowInv DEF TextNext
  <1>2. CASE UNCHANGED textVars
    <2>u. UNCHANGED <<embedVars, source, text, stage, rows>>
      BY <1>2 DEF textVars
    <2>1. EmbedInv'
      BY <2>u, SameEmbedInv DEF Inv
    <2>2. Symbols' = Symbols
      BY <2>u DEF Symbols
    <2>3. RowsInOrder' /\ InStep'
      BY <2>u DEF Inv, RowsInOrder, InStep, embedVars
    <2> QED
      BY <2>u, <2>1, <2>2, <2>3 DEF Inv
  <1> QED
    BY <1>1, <1>2

\* The service, with its calls of EmbedTexts, keeps its invariant.
THEOREM Invariance == TextSpec => []Inv
  BY InitInv, NextInv, PTL DEF TextSpec

\* The call and the service keep their types, for whatever number of pieces
\* the scanners find.
THEOREM TypeCorrect == TextSpec => []TextTypeOK
  <1>1. Inv => TextTypeOK
    BY DEF Inv, EmbedInv, RowsInOrder, TextTypeOK
  <1> QED
    BY <1>1, Invariance, PTL

\* EmbedTexts returns for each text its own vector or none, whatever the sizes
\* of the batches, the order of the vectors in an answer and the retries.
THEOREM Aligning == TextSpec => []VectorsAligned
  <1>1. Inv => VectorsAligned
    BY DEF Inv, EmbedInv, Aligned, Answered, VectorsAligned
  <1> QED
    BY <1>1, Invariance, PTL

\* At most one attempt begins after the context of the call was cancelled.
THEOREM Cancelling == TextSpec => []CancelStops
  <1>1. Inv => CancelStops
    BY DEF Inv, EmbedInv, Stopping, CancelStops
  <1> QED
    BY <1>1, Invariance, PTL

\* Every row has the vector of its own piece; "done" is written when each piece
\* has its row, and "pending" stays when an answer lacked a vector or ended the
\* process.
THEOREM RowsComplete == TextSpec => []DoneHasVectors
  <1>1. ASSUME Inv PROVE DoneHasVectors
    <2>1. /\ rows \in Seq(1 .. count) /\ DOMAIN rows = 1 .. Len(rows) /\ Len(rows) \in Nat
          /\ \A i \in DOMAIN rows : rows[i] = i /\ i \notin lacking
      BY <1>1 DEF Inv, RowsInOrder
    <2>2. rows = [i \in DOMAIN rows |-> i]
      <3>1. rows = [i \in DOMAIN rows |-> rows[i]]
        BY <2>1
      <3> QED
        BY <2>1, <3>1
    <2>3. lacking \subseteq 1 .. count /\ count \in Nat
      BY <1>1 DEF Inv, EmbedInv, EmbedTypeOK
    <2>4. stage = "done" /\ source # "question" => Len(rows) = count /\ lacking = {}
      BY <1>1, <2>1, <2>3 DEF Inv, InStep
    <2>5. ASSUME stage = "pending"
          PROVE  IF embed = "panicked" THEN rows = <<>>
                 ELSE lacking # {} /\ \A i \in lacking : Len(rows) < i
      <3>p. \/ embed = "done" /\ Len(rows) + 1 \in lacking
            \/ embed = "panicked" /\ rows = <<>>
        BY <1>1, <2>5 DEF Inv, InStep
      <3>1. CASE embed = "panicked"
        BY <3>p, <3>1
      <3>2. CASE embed # "panicked"
        BY <3>p, <3>2, <2>1, <2>3
      <3> QED
        BY <3>1, <3>2
    <2> QED
      BY <2>2, <2>4, <2>5 DEF DoneHasVectors
  <1> QED
    BY <1>1, Invariance, PTL

\* Chunking a document tears no passage apart that is at most as long as two
\* windows overlap, whatever the sizes of window and overlap.
THEOREM Passages == TextSpec => []PassagesWhole
  <1>1. ASSUME Inv PROVE PassagesWhole
    <2>1. source = "document" => text \in Seq(Runes)
      BY <1>1 DEF Inv, Symbols
    <2> QED
      BY <2>1, ChunksWhole DEF PassagesWhole
  <1> QED
    BY <1>1, Invariance, PTL

\* The forms that ParseClojure finds in any text, balanced or not, are apart
\* and in order, and each definition that begins a line is in one of them.
THEOREM FormsKept == TextSpec => []ClojureFormsApart
  <1>1. ASSUME Inv PROVE ClojureFormsApart
    <2>1. source = "clojure" => text \in Seq(Clojure!Tokens)
      BY <1>1 DEF Inv, Symbols
    <2> QED
      BY <2>1, FormsAreApart DEF ClojureFormsApart
  <1> QED
    BY <1>1, Invariance, PTL

\* The nodes of any Ruby file nest and are named by their nesting, whatever its
\* lines are.
THEOREM NodesNested == TextSpec => []RubyNodesNest
  <1>1. ASSUME Inv PROVE RubyNodesNest
    <2>1. source = "ruby" => text \in Seq(RubyLines)
      BY <1>1 DEF Inv, Symbols, RubyLines
    <2> QED
      BY <2>1, RubyNests DEF RubyNodesNest
  <1> QED
    BY <1>1, Invariance, PTL

\* A well-formed Ruby program of regular lines is found exactly: which lines
\* a definition has, and which classes and modules it lies in.
THEOREM DefinitionsFound == TextSpec => []RubyExact
  <1>1. ASSUME Inv PROVE RubyExact
    <2>1. source = "ruby" => text \in Seq(RubyLines)
      BY <1>1 DEF Inv, Symbols, RubyLines
    <2> QED
      BY <2>1, RubyFinds DEF RubyExact
  <1> QED
    BY <1>1, Invariance, PTL

\* In any text of plain Clojure, ParseClojure finds just the definitions among
\* the forms that Clojure's reader reads, each once and whole, and names them
\* after no namespace but one that is read before them.
THEOREM FormsFound == TextSpec => []ClojureExact
  <1>1. ASSUME Inv PROVE ClojureExact
    <2>1. source = "clojure" => text \in Seq(Clojure!Tokens)
      BY <1>1 DEF Inv, Symbols
    <2> QED
      BY <2>1, ClojureFinds DEF ClojureExact
  <1> QED
    BY <1>1, Invariance, PTL
=============================================================================
