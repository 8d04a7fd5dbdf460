--------------------------- MODULE ClojureScanner ---------------------------
(***************************************************************************)
(* ParseClojure and findFormEnd (internal/ingest/code/parser/clojure.go):  *)
(* the scanner that finds the top-level forms of a file by counting        *)
(* parentheses, and takes those that define something for nodes.           *)
(*                                                                         *)
(* A text is a sequence of the tokens the scanner tells apart: a           *)
(* parenthesis with a head that defines, with the head ns or with another  *)
(* one, and single characters, "x" being any that means nothing to it.     *)
(*                                                                         *)
(* The heads that define, "(defn" here, are those that clojureDefRe        *)
(* matches with a name behind them: defn, defmacro, defmulti, defprotocol, *)
(* defrecord and deftype.  To the scanner def, defn-, definterface and any *)
(* head whose name comes after metadata are other heads, "(".              *)
(***************************************************************************)
EXTENDS Naturals, Sequences, SequencesExt, Selection

Heads == {"(defn", "(ns", "("}
Tokens == Heads \cup {")", "\"", "\\", ";", "\n", "x"}

\* Between forms: "top", or "skip" up to the end of the line.  In a form:
\* "code", and what findFormEnd passes over.
Modes == {"top", "skip", "code", "string", "escape", "comment"}

-----------------------------------------------------------------------------

Scan == [mode |-> "top", start |-> 0, depth |-> 0, forms |-> <<>>]

In(s, mode) == [s EXCEPT !.mode = mode]

Form(s, i) == [first |-> s.start, last |-> i]

\* A line that does not begin with a form is passed over to its end.
AtTop(s, t, i) ==
    CASE t = "\n" -> s
      [] t \in Heads -> [s EXCEPT !.mode = "code", !.start = i, !.depth = 1]
      [] OTHER -> In(s, "skip")

\* A backslash means nothing outside of a string.
InForm(s, t, i) ==
    CASE t = "\"" -> In(s, "string")
      [] t = ";" -> In(s, "comment")
      [] t \in Heads -> [s EXCEPT !.depth = @ + 1]
      [] t = ")" /\ s.depth > 1 -> [s EXCEPT !.depth = @ - 1]
      [] t = ")" /\ s.depth = 1 ->
            [s EXCEPT !.mode = "top", !.depth = 0, !.forms = Append(@, Form(s, i))]
      [] OTHER -> s

\* A variant that knows no escapes.
InStringUnescaped(s, t) == IF t = "\"" THEN In(s, "code") ELSE s

InString(s, t) ==
    CASE t = "\"" -> In(s, "code")
      [] t = "\\" -> In(s, "escape")
      [] OTHER -> s

\* A variant that passes over the next line as well.
SkipLineTwice(s, t) == IF t = "x" THEN In(s, "top") ELSE s

SkipLine(s, t) == IF t = "\n" THEN In(s, "top") ELSE s

ScanToken(s, t, i) ==
    CASE s.mode = "top" -> AtTop(s, t, i)
      [] s.mode = "skip" -> SkipLine(s, t)
      [] s.mode = "code" -> InForm(s, t, i)
      [] s.mode = "string" -> InString(s, t)
      [] s.mode = "escape" -> In(s, "string")
      [] s.mode = "comment" -> IF t = "\n" THEN In(s, "code") ELSE s

\* A form that is not closed goes on to the end of the text.
Forms(text) ==
    LET after[i \in 0 .. Len(text)] ==
            IF i = 0 THEN Scan ELSE ScanToken(after[i - 1], text[i], i)
        s == after[Len(text)]
    IN  IF s.depth > 0 THEN Append(s.forms, Form(s, Len(text))) ELSE s.forms

\* The namespace that qualifies the names of all nodes is found only if
\* nothing but blank lines is before it; else it is "unknown", as it is when
\* a comment heads the file.
NsName(text) ==
    \E i \in DOMAIN text : text[i] = "(ns" /\ \A j \in 1 .. (i - 1) : text[j] = "\n"

\* The forms that define are the nodes; that of the namespace is none.
ParseClojure(text) ==
    LET places == 1 .. Len(text)
        definitions == {f \in [first : places, last : places] : text[f.first] = "(defn"}
    IN  Select(Forms(text), definitions)

-----------------------------------------------------------------------------
\* What Clojure makes of a text.  Its reader is the same within a form and
\* between forms, and a backslash outside of a string takes the next
\* character for itself.

Reader == [mode |-> "code", depth |-> 0]

ReadToken(r, t) ==
    CASE r.mode = "code" ->
            (CASE t = "\"" -> [r EXCEPT !.mode = "string"]
               [] t = ";" -> [r EXCEPT !.mode = "comment"]
               [] t = "\\" -> [r EXCEPT !.mode = "char"]
               [] t \in Heads -> [r EXCEPT !.depth = @ + 1]
               [] t = ")" /\ r.depth > 0 -> [r EXCEPT !.depth = @ - 1]
               [] OTHER -> r)
      [] r.mode = "string" ->
            (CASE t = "\"" -> [r EXCEPT !.mode = "code"]
               [] t = "\\" -> [r EXCEPT !.mode = "escape"]
               [] OTHER -> r)
      [] r.mode = "escape" -> [r EXCEPT !.mode = "string"]
      [] r.mode = "comment" -> IF t = "\n" THEN [r EXCEPT !.mode = "code"] ELSE r
      [] r.mode = "char" -> [r EXCEPT !.mode = "code"]

\* Read(text)[i]: the reader after the first i tokens.
Read(text) ==
    LET after[i \in 0 .. Len(text)] ==
            IF i = 0 THEN Reader ELSE ReadToken(after[i - 1], text[i])
    IN  after

RealForms(text) ==
    LET r == Read(text)
    IN  {f \in [first : DOMAIN text, last : DOMAIN text] :
            /\ f.first < f.last
            /\ r[f.first - 1].depth = 0 /\ r[f.last].depth = 0
            /\ \A k \in f.first .. (f.last - 1) : r[k].depth > 0}

\* Texts in which every form is closed, between forms there are only lines of
\* other characters and comments, and there is no character literal.
Plain(text) ==
    LET r == Read(text)
        bare(i) == r[i - 1].mode = "code" /\ r[i - 1].depth = 0
    IN  /\ r[Len(text)].depth = 0
        /\ \A i \in DOMAIN text : r[i].mode # "char"
        /\ \A i \in DOMAIN text : bare(i) => text[i] \notin {")", "\""}
        /\ \A i \in 2 .. Len(text) :
              bare(i) /\ text[i] \in Heads => text[i - 1] # "x"

\* In a plain text the nodes are just the definitions among the forms that
\* Clojure reads, from their first token to their last, and each is found
\* once.  A namespace they are named after is one that Clojure reads before
\* them (the converse fails for a file that begins with a comment).
FindsForms(text) ==
    Plain(text) =>
        LET nodes == ParseClojure(text)
        IN  /\ ToSet(nodes) = {f \in RealForms(text) : text[f.first] = "(defn"}
            /\ IsInjective(nodes)
            /\ \A f \in ToSet(nodes) :
                  NsName(text) => \E g \in RealForms(text) : g.last < f.first /\ text[g.first] = "(ns"

\* Whatever the text is, forms are apart and in order, and no definition that
\* begins a line is lost: it begins a form or lies in one.
FormsApart(text) ==
    LET forms == Forms(text)
    IN  /\ \A k \in 1 .. (Len(forms) - 1) : forms[k].last < forms[k + 1].first
        /\ \A i \in DOMAIN text :
              text[i] = "(defn" /\ (i = 1 \/ text[i - 1] = "\n") =>
                  \E k \in DOMAIN forms : forms[k].first <= i /\ i <= forms[k].last
=============================================================================
