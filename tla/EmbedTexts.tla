----------------------------- MODULE EmbedTexts -----------------------------
(***************************************************************************)
(* One call of EmbedTexts (internal/embed): texts are sent to the provider *)
(* batch by batch.  Voyage is asked up to three times for a batch and      *)
(* names the text each of its vectors belongs to; Ollama is asked once and *)
(* answers in order.  The context of the call may be cancelled at any time.*)
(*                                                                         *)
(* Texts are numbered from 1, and the vector of text i is i.  What a       *)
(* vector says is left out; that the provider computes the right one for   *)
(* an index is its contract.  Which model is asked is left out.            *)
(***************************************************************************)
EXTENDS Integers, Sequences, FiniteSets

CONSTANTS
    VoyageBatch,   \* texts in a request, by provider
    OllamaBatch,
    MaxRetries     \* how often Voyage is asked for a batch

Providers == {"voyage", "ollama"}

ASSUME EmbedAssumption ==
    /\ VoyageBatch \in Nat \ {0}
    /\ OllamaBatch \in Nat \ {0}
    /\ MaxRetries \in Nat \ {0}

VARIABLES
    provider,   \* which provider is asked, "none" before the call
    count,      \* how many texts were passed
    embed,      \* where the call is
    from,       \* how many texts the batches before this one hold
    attempt,    \* how often this batch has failed
    result,     \* result[i]: the vector in the slice for text i, or Nil
    cancelled   \* whether the context is

\* History variables: no guard reads them.
VARIABLES
    late,       \* attempts begun after the context was cancelled
    lacking     \* texts that an answer had no vector for

embedVars == <<provider, count, embed, from, attempt, result, cancelled, late, lacking>>

Nil == 0   \* a nil vector

-----------------------------------------------------------------------------

EmbedLocations ==
    {"idle", "send", "inflight", "doomed", "waiting", "stopping", "done", "failed", "panicked"}

Ended == {"done", "failed", "panicked"}

BatchSize == IF provider = "voyage" THEN VoyageBatch ELSE OllamaBatch
Attempts == IF provider = "voyage" THEN MaxRetries ELSE 1

\* The number of the last text of the batch.
BatchEnd == IF from + BatchSize < count THEN from + BatchSize ELSE count

\* EmbedTexts returns at once when there is nothing to embed.
Call(p, n) ==
    /\ embed = "idle"
    /\ provider' = p
    /\ count' = n
    /\ embed' = IF n = 0 THEN "done" ELSE "send"
    /\ result' = [i \in 1 .. n |-> Nil]
    /\ UNCHANGED <<from, attempt, cancelled, late, lacking>>

\* A request whose context is cancelled fails before it is sent.
Send ==
    /\ embed = "send"
    /\ embed' = IF cancelled THEN "doomed" ELSE "inflight"
    /\ late' = IF cancelled THEN late + 1 ELSE late
    /\ UNCHANGED <<provider, count, from, attempt, result, cancelled, lacking>>

\* copy(result[i:], vecs): the vector at position j of the batch.
Copy(vecs) == [i \in 1 .. count |-> IF i - from \in DOMAIN vecs THEN vecs[i - from] ELSE result[i]]

NextBatch ==
    IF BatchEnd = count
    THEN embed' = "done" /\ UNCHANGED <<from, attempt>>
    ELSE embed' = "send" /\ from' = BatchEnd /\ attempt' = 0

\* An answer of Voyage is a list of indexes, counted from 0, each with a
\* vector or with none (null).  A later entry for an index wins.
Given(answer, j) ==
    \E k \in DOMAIN answer :
        /\ answer[k] = [index |-> j - 1, vector |-> TRUE]
        /\ \A l \in DOMAIN answer : l > k => answer[l].index # j - 1

\* A variant that takes the vectors in the order of the answer.
ByPosition(answer) ==
    [j \in 1 .. (BatchEnd - from) |->
        IF j \in DOMAIN answer /\ answer[j].vector THEN from + answer[j].index + 1 ELSE Nil]

\* The vectors of a Voyage answer, put where their indexes say.
ByIndex(answer) ==
    [j \in 1 .. (BatchEnd - from) |-> IF Given(answer, j) THEN from + j ELSE Nil]

\* An index past the batch is passed over; a text without vector stays nil.
VoyageAnswers(answer) ==
    /\ embed = "inflight" /\ provider = "voyage"
    /\ \A k \in DOMAIN answer : answer[k].index >= 0
    /\ result' = Copy(ByIndex(answer))
    /\ lacking' = lacking \cup {i \in (from + 1) .. BatchEnd : ~Given(answer, i - from)}
    /\ NextBatch
    /\ UNCHANGED <<provider, count, cancelled, late>>

\* A negative index is not passed over: out[d.Index] panics.
VoyagePanics(answer) ==
    /\ embed = "inflight" /\ provider = "voyage"
    /\ \E k \in DOMAIN answer : answer[k].index < 0
    /\ embed' = "panicked"
    /\ result' = <<>>
    /\ UNCHANGED <<provider, count, from, attempt, cancelled, late, lacking>>

\* An answer of Ollama is a list of vectors, some perhaps null.  Their number
\* has to be that of the texts.
OllamaAnswers(answer) ==
    /\ embed = "inflight" /\ provider = "ollama"
    /\ IF Len(answer) = BatchEnd - from
       THEN /\ result' = Copy([j \in DOMAIN answer |-> IF answer[j] THEN from + j ELSE Nil])
            /\ lacking' = lacking \cup {i \in (from + 1) .. BatchEnd : ~answer[i - from]}
            /\ NextBatch
       ELSE /\ result' = <<>>
            /\ embed' = "failed"
            /\ UNCHANGED <<from, attempt, lacking>>
    /\ UNCHANGED <<provider, count, cancelled, late>>

\* A status that says the request is wrong, an answer that cannot be decoded
\* or one with an error message: EmbedTexts returns nil and an error.
Refused ==
    /\ embed = "inflight"
    /\ embed' = "failed"
    /\ result' = <<>>
    /\ UNCHANGED <<provider, count, from, attempt, cancelled, late, lacking>>

\* A variant that asks again without end.
FailsForever ==
    /\ embed \in {"inflight", "doomed"}
    /\ embed' = IF provider = "ollama" THEN "failed" ELSE IF cancelled THEN "stopping" ELSE "waiting"
    /\ result' = IF provider = "ollama" THEN <<>> ELSE result
    /\ UNCHANGED <<provider, count, from, attempt, cancelled, late, lacking>>

\* A variant that counts one attempt too many.
FailsOnceMore ==
    LET last == attempt = Attempts
    IN  /\ embed \in {"inflight", "doomed"}
        /\ embed' = IF last THEN "failed" ELSE IF cancelled THEN "stopping" ELSE "waiting"
        /\ result' = IF last THEN <<>> ELSE result
        /\ attempt' = IF last THEN attempt ELSE attempt + 1
        /\ UNCHANGED <<provider, count, from, cancelled, late, lacking>>

\* A variant that waits without looking at the context.
FailsAsleep ==
    LET last == attempt + 1 = Attempts
    IN  /\ embed \in {"inflight", "doomed"}
        /\ embed' = IF last THEN "failed" ELSE "waiting"
        /\ result' = IF last THEN <<>> ELSE result
        /\ attempt' = IF last THEN attempt ELSE attempt + 1
        /\ UNCHANGED <<provider, count, from, cancelled, late, lacking>>

\* No connection, no answer in time, a cancelled context, a body that ends
\* early; for Voyage also a status that says to try again (for Ollama that is
\* Refused, to the same effect).  After the last attempt the call fails.
\* Before another it waits, which ends at once if the context is cancelled.
Fails ==
    LET last == attempt + 1 = Attempts
    IN  /\ embed \in {"inflight", "doomed"}
        /\ embed' = IF last THEN "failed" ELSE IF cancelled THEN "stopping" ELSE "waiting"
        /\ result' = IF last THEN <<>> ELSE result
        /\ attempt' = IF last THEN attempt ELSE attempt + 1
        /\ UNCHANGED <<provider, count, from, cancelled, late, lacking>>

\* The timer.  It may win against a context cancelled while it ran.
Retry ==
    /\ embed = "waiting"
    /\ embed' = "send"
    /\ UNCHANGED <<provider, count, from, attempt, result, cancelled, late, lacking>>

\* The other case of the select.
Stop ==
    /\ \/ embed = "stopping"
       \/ embed = "waiting" /\ cancelled
    /\ embed' = "failed"
    /\ result' = <<>>
    /\ UNCHANGED <<provider, count, from, attempt, cancelled, late, lacking>>

\* The caller's context is cancelled.
Cancel ==
    /\ ~cancelled /\ embed \notin Ended
    /\ cancelled' = TRUE
    /\ UNCHANGED <<provider, count, embed, from, attempt, result, late, lacking>>

-----------------------------------------------------------------------------

EmbedInit ==
    /\ provider = "none"
    /\ count = 0
    /\ embed = "idle"
    /\ from = 0
    /\ attempt = 0
    /\ result = <<>>
    /\ cancelled = FALSE
    /\ late = 0
    /\ lacking = {}

\* What Voyage may answer a batch of k texts, up to k + 1 entries in any order:
\* indexes of the batch, one past it, a negative one, any of them twice.
Responses(k) ==
    UNION {[1 .. n -> [index : -1 .. k, vector : BOOLEAN]] : n \in 0 .. (k + 1)}

\* The steps of the call and of the provider.  The timeouts of the HTTP
\* clients see to it that Fails comes if nothing else does.
Progress ==
    \/ Send
    \/ /\ embed = "inflight" /\ provider = "voyage"
       /\ \E answer \in Responses(BatchEnd - from) : VoyageAnswers(answer) \/ VoyagePanics(answer)
    \/ \E n \in 0 .. (BatchEnd - from + 1) : \E answer \in [1 .. n -> BOOLEAN] : OllamaAnswers(answer)
    \/ Refused
    \/ Fails
    \/ Retry
    \/ Stop

-----------------------------------------------------------------------------
\* Properties.

\* Type invariant.
EmbedTypeOK ==
    /\ provider \in Providers \cup {"none"}
    /\ count \in Nat
    /\ embed \in EmbedLocations
    /\ from \in 0 .. count
    /\ attempt \in 0 .. (MaxRetries - 1)
    /\ result \in [DOMAIN result -> 0 .. count] /\ DOMAIN result \in {1 .. count, {}}
    /\ cancelled \in BOOLEAN
    /\ late \in Nat
    /\ lacking \subseteq 1 .. count

\* What EmbedTexts returns has for every text its own vector, through batches,
\* retries and answers in any order, or nil exactly where the answer lacked it
\* (voyage.go:113-118, the copy of voyage.go:45).  A call that fails returns
\* nothing.
VectorsAligned ==
    /\ embed = "done" =>
          \A i \in 1 .. count : result[i] = IF i \in lacking THEN Nil ELSE i
    /\ embed \in {"failed", "panicked"} => result = <<>>

\* "EmbedTexts returns one embedding per input string" (embed.go:17): it does
\* not where an answer names too few of the texts, which no one counts
\* (voyage.go:113-118), or has null for one of them.
OneEmbeddingPerText == embed = "done" => \A i \in 1 .. count : result[i] # Nil

\* Once the context is cancelled, at most one further attempt begins, that of
\* a timer that has just fired; it fails before anything is sent, and the call
\* stops instead of waiting for another.
CancelStops == late <= 1

\* Every call returns, after at most MaxRetries attempts for each batch.
EmbedReturns == embed = "send" ~> embed \in Ended
=============================================================================
