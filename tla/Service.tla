------------------------------ MODULE Service ------------------------------
(***************************************************************************)
(* A request from end to end: TextVectors, and for a question what comes   *)
(* after its vector, Retrieval and then QueryStream, in the order in which *)
(* handleQuery (internal/api/handlers.go) calls them.                      *)
(*                                                                         *)
(* EmbedTexts is run in full for the first search of a question; that a    *)
(* later search finds no vector is one of the failures of Retrieval.  When *)
(* a part has returned, its variables are reset: what the next part needs  *)
(* of it is whether the first search has a vector, whether the client has  *)
(* left, and, of the results, whether the line that lists them is long.    *)
(***************************************************************************)
EXTENDS TextVectors, Retrieval, QueryStream

VARIABLE phase   \* "text", "retrieve", "answer" or "stream"

vars == <<phase, textVars, retrievalVars, streamVars>>

-----------------------------------------------------------------------------
\* The parts.

Reading(A) == phase = "text" /\ A /\ UNCHANGED <<phase, retrievalVars, streamVars>>

\* Without its vector the first search finds nothing, and once the context is
\* cancelled no search does.
Retrieving ==
    /\ phase = "retrieve"
    /\ RetrievalNext
    /\ stage = "error" /\ step = (IF kind = "code" THEN "code" ELSE "dense") =>
          dense' = <<>> /\ entries' = <<>>
    /\ cancelled => dense' = <<>> /\ sparse' = <<>> /\ entries' = <<>>
    /\ UNCHANGED <<phase, textVars, streamVars>>

\* The request to the model fails once the context is cancelled.
Streaming(A) ==
    /\ phase = "stream" /\ A
    /\ cancelled /\ gen = "request" => gen' # "scan"
    /\ UNCHANGED <<phase, textVars, retrievalVars>>

-----------------------------------------------------------------------------
\* From part to part.

\* What the question asks for, and what there is to find.
AskWhat ==
    /\ kind' \in {"doc", "code", "both"}
    /\ step' = IF kind' = "code" THEN "code" ELSE "dense"
    /\ graph' \in Graphs
    /\ depth' \in Depths
    /\ UNCHANGED <<dense, sparse, docResults, entries, at, expanded, failed, merged, context>>

\* EmbedTexts has returned to the first search, with a vector or an error.
ToRetrieval ==
    /\ phase = "text" /\ source = "question"
    /\ embed \in {"done", "failed"} /\ stage \in {"done", "error"}
    /\ phase' = "retrieve"
    /\ provider' = "none" /\ count' = 0 /\ embed' = "idle" /\ from' = 0 /\ attempt' = 0
    /\ result' = <<>> /\ late' = 0 /\ lacking' = {}
    /\ AskWhat
    /\ UNCHANGED <<cancelled, source, text, stage, rows, streamVars>>

\* The query and its context are given to Generator.Stream.
ToStream ==
    /\ phase = "retrieve" /\ step = "done"
    /\ phase' = "answer"
    /\ kind' = "doc" /\ step' = "dense" /\ graph' = {} /\ depth' = 0
    /\ dense' = <<>> /\ sparse' = <<>> /\ docResults' = <<>> /\ entries' = <<>> /\ at' = 0
    /\ expanded' = <<>> /\ failed' = FALSE /\ merged' = <<>> /\ context' = <<>>
    /\ stage' = "done"
    /\ UNCHANGED <<embedVars, source, text, rows, streamVars>>

\* What the model is going to answer, and whether the line of sources is long.
TakeAnswer ==
    /\ phase = "answer"
    /\ phase' = "stream"
    /\ answer' \in Answers /\ longLine' \in BOOLEAN
    /\ connected' = ~cancelled
    /\ client' = IF cancelled THEN "failed" ELSE "read"
    /\ UNCHANGED <<textVars, retrievalVars, gen, seen, outbox, tokens, handler, wire, printed, listed>>

\* What a question asks for is open until the first search, and what the model
\* answers until it is asked.
Init ==
    /\ phase = "text"
    /\ TextInit
    /\ RetrievalInit
    /\ kind = "doc" /\ graph = {} /\ depth = 0
    /\ StreamInit
    /\ answer = <<>> /\ longLine = FALSE

Next ==
    \/ Reading(TextNext)
    \/ ToRetrieval
    \/ Retrieving
    \/ ToStream
    \/ TakeAnswer
    \/ Streaming(StreamNext)

\* The steps of handleQuery's goroutine outside EmbedTexts.
HandleQuery ==
    \/ Reading(EmbedFailed \/ Search)
    \/ ToRetrieval
    \/ Retrieving
    \/ ToStream
    \/ TakeAnswer
    \/ Streaming(Handle)

\* Calls return, handler and generator go on, and the connection of a request
\* ends: see TextVectors and QueryStream.
Fairness ==
    /\ WF_vars(Reading(Embed))
    /\ WF_vars(HandleQuery)
    /\ WF_vars(Streaming(Generate))
    /\ WF_vars(Streaming(Disconnect))

Spec == Init /\ [][Next]_vars /\ Fairness

-----------------------------------------------------------------------------
\* Properties.  Those of the parts hold in the whole: see TextVectors,
\* Retrieval and QueryStream.

\* However provider, searches, model and client behave, a question that has
\* come so far as to be embedded ends: the handler returns, nothing is left
\* blocked at a channel nobody reads, and only a panic on the way ends it
\* without an answer.
NothingLeftBlocked ==
    source = "question" /\ stage = "embedding" ~>
        embed = "panicked" \/ (handler = "returned" /\ gen = "gone")
=============================================================================
