---------------------------- MODULE TextVectors ----------------------------
(***************************************************************************)
(* The way of a text to its vectors: a document is cut into chunks, a Ruby *)
(* or Clojure file into nodes, the pieces are embedded together, and each  *)
(* is stored with its vector; a question is embedded alone and searched    *)
(* with.  DocIngest and CodeIngest show the same calls from the side of    *)
(* the store, with all that can disturb them there; here nothing does.     *)
(* Go files are parsed by the compiler's own parser and are left out.      *)
(*                                                                         *)
(* The text is written by its owner before the service reads it.           *)
(***************************************************************************)
EXTENDS EmbedTexts, Chunks

Ruby == INSTANCE RubyScanner
Clojure == INSTANCE ClojureScanner

CONSTANTS
    MaxText, MaxLines, MaxTokens,   \* bounds on the length of texts, by source
    MaxRare                          \* bound on the rare symbols of a text

TextSources == {"document", "ruby", "clojure", "question"}

VARIABLES
    source,   \* what kind of text it is
    text,     \* the text as far as it is written; not needed once it is read
    stage,    \* where the service is with it
    rows      \* the vectors of the rows stored, in their order

textVars == <<embedVars, source, text, stage, rows>>

Stages == {"written", "embedding", "done", "error", "pending"}

-----------------------------------------------------------------------------

\* What a text of each source consists of.
Symbols ==
    CASE source = "document" -> Runes
      [] source = "ruby" -> Ruby!RegularLines \cup Ruby!IrregularLines
      [] source = "clojure" -> Clojure!Tokens
      [] source = "question" -> {}

\* Symbols of which more than MaxRare in a text add nothing but states.  They
\* count double, so that texts without them can be longer.
Rare == Ruby!IrregularLines \cup {"(ns", "(", "x"}

WithinBounds(t) ==
    LET rare == Len(SelectSeq(t, LAMBDA s : s \in Rare))
        longest == CASE source = "document" -> MaxText
                     [] source = "ruby" -> MaxLines
                     [] source = "clojure" -> MaxTokens
    IN  rare <= MaxRare /\ Len(t) + rare <= longest

Write ==
    /\ stage = "written"
    /\ \E s \in Symbols :
          /\ WithinBounds(Append(text, s))
          /\ text' = Append(text, s)
    /\ UNCHANGED <<embedVars, source, stage, rows>>

\* How many pieces there are to embed.
Pieces ==
    CASE source = "document" -> Len(Chunk(text))
      [] source = "ruby" -> Len(Ruby!ParseRuby(text))
      [] source = "clojure" -> Len(Clojure!ParseClojure(text))
      [] source = "question" -> 1

\* A file without pieces is done at once.
Extract ==
    /\ stage = "written"
    /\ text' = <<>>
    /\ IF Pieces = 0
       THEN stage' = "done" /\ UNCHANGED embedVars
       ELSE stage' = "embedding" /\ \E p \in Providers : Call(p, Pieces)
    /\ UNCHANGED <<source, rows>>

Embed ==
    /\ Progress
    /\ UNCHANGED <<source, text, stage, rows>>

\* Ingests run with a background context; that of a question ends with its
\* request.
Hangup ==
    /\ source = "question" /\ stage = "embedding"
    /\ Cancel
    /\ UNCHANGED <<source, text, stage, rows>>

EmbedFailed ==
    /\ stage = "embedding" /\ embed = "failed"
    /\ stage' = "error"
    /\ UNCHANGED <<embedVars, source, text, rows>>

\* A panic in the handler of a question ends the request, whose connection the
\* HTTP server closes.  Anywhere else it ends the process, and the row of the
\* job stays at "pending".
Panicked ==
    /\ stage = "embedding" /\ embed = "panicked"
    /\ stage' = IF source = "question" THEN "error" ELSE "pending"
    /\ UNCHANGED <<embedVars, source, text, rows>>

\* A variant that stores a row without its vector.
StoreRowNull ==
    /\ stage = "embedding" /\ embed = "done" /\ source # "question"
    /\ rows' = Append(rows, result[Len(rows) + 1])
    /\ stage' = IF Len(rows) + 1 = count THEN "done" ELSE stage
    /\ UNCHANGED <<embedVars, source, text>>

\* One round of the loop over the pieces.  A nil vector is sent as one of
\* length zero, which pgvector refuses: the call returns and leaves the row
\* of its job at "pending".
StoreRow ==
    LET i == Len(rows) + 1
    IN  /\ stage = "embedding" /\ embed = "done" /\ source # "question"
        /\ IF result[i] = Nil
           THEN stage' = "pending" /\ UNCHANGED rows
           ELSE /\ rows' = Append(rows, result[i])
                /\ stage' = IF i = count THEN "done" ELSE stage
        /\ UNCHANGED <<embedVars, source, text>>

\* The search of a question without a vector is refused; the handler goes on
\* without its results.
Search ==
    /\ stage = "embedding" /\ embed = "done" /\ source = "question"
    /\ stage' = IF result[1] = Nil THEN "error" ELSE "done"
    /\ UNCHANGED <<embedVars, source, text, rows>>

TextInit ==
    /\ EmbedInit
    /\ source \in TextSources
    /\ text = <<>>
    /\ stage = "written"
    /\ rows = <<>>

TextNext == Write \/ Extract \/ Embed \/ Hangup \/ EmbedFailed \/ Panicked \/ StoreRow \/ Search

TextSpec == TextInit /\ [][TextNext]_textVars /\ WF_textVars(Embed)

-----------------------------------------------------------------------------
\* Properties.

\* Type invariant.
TextTypeOK ==
    /\ EmbedTypeOK
    /\ source \in TextSources
    /\ text \in Seq(Symbols)
    /\ stage \in Stages
    /\ rows \in Seq(1 .. count)

\* No short passage of a document is torn apart (doc.go:163): see ChunksHold.
PassagesWhole == source = "document" => ChunksHold(text)

\* Well-formed Ruby of regular lines is found exactly, by end-counting
\* (ruby.go:24-25): see FindsDefinitions.
RubyExact == source = "ruby" => Ruby!FindsDefinitions(text)

\* The nodes of any Ruby file nest, and are named by their nesting: see
\* NodesNest.
RubyNodesNest == source = "ruby" => Ruby!NodesNest(text)

\* The definitions of plain Clojure are found exactly, by bracket counting
\* (clojure.go:57): see FindsForms.
ClojureExact == source = "clojure" => Clojure!FindsForms(text)

\* The forms of any text are apart, and no definition that begins a line is
\* lost: see FormsApart.
ClojureFormsApart == source = "clojure" => Clojure!FormsApart(text)

\* Each row that is stored has the vector of its own piece, and a file is done
\* exactly when each of its pieces has one: an answer that lacks vectors leaves
\* the file pending, after the rows before the first that is lacking, and one
\* that panics leaves it pending without rows.
DoneHasVectors ==
    /\ rows = [i \in DOMAIN rows |-> i]
    /\ stage = "done" /\ source # "question" => Len(rows) = count /\ lacking = {}
    /\ stage = "pending" =>
          IF embed = "panicked"
          THEN rows = <<>>
          ELSE lacking # {} /\ \A i \in lacking : Len(rows) < i
=============================================================================
