---------------------------- MODULE RubyScanner ----------------------------
(***************************************************************************)
(* ParseRuby (internal/ingest/code/parser/ruby.go): the scanner of lines   *)
(* that finds classes, modules and methods by counting what opens a block  *)
(* and what ends one.                                                      *)
(*                                                                         *)
(* A program is a sequence of kinds of lines.  Names are left out: the     *)
(* number of the line that defines something stands for it, and a          *)
(* qualified name is the sequence of these numbers.                        *)
(***************************************************************************)
EXTENDS Integers, Sequences, SequencesExt, FiniteSetsExt

\* Lines the scanner takes for what they are: "open" opens another block (do,
\* begin, if, ...), "other" opens and ends nothing.
RegularLines == {"class", "module", "def", "open", "other", "end"}

\* Lines it takes for something else: a method on one line (def x; end), a
\* conditional that is assigned (x = if c), which looks like a modifier, a
\* loop with two keywords (while c do), and an end that goes on (end.size).
IrregularLines == {"oneline", "assign", "loop", "chain"}

Containers == {"class", "module"}
Definers == Containers \cup {"def", "oneline"}

\* How many keywords that open a block the scanner counts in a line.
Opens(line) == CASE line = "open" -> 1 [] line = "loop" -> 2 [] OTHER -> 0

-----------------------------------------------------------------------------

Scan == [stack |-> <<>>, depth |-> 0, nodes |-> <<>>]

\* A variant that takes the frame on top, be it a method.
CurrentClassTop(stack) == IF stack = <<>> THEN <<>> ELSE Last(stack).qualified

\* The qualified name of the innermost class or module.
CurrentClass(stack) ==
    LET within == {k \in DOMAIN stack : stack[k].kind \in Containers}
    IN  IF within = {} THEN <<>> ELSE stack[Max(within)].qualified

Frame(s, line, i) ==
    [kind |-> IF line \in Containers THEN line ELSE "method",
     qualified |-> Append(CurrentClass(s.stack), i),
     start |-> i,
     depth |-> s.depth + 1]

\* A def is a "function" to the index, in a class or module as well, although
\* README.md:213 calls it a "method" there: no property relies on either.
Node(f, i) ==
    [type |-> IF f.kind = "method" THEN "function" ELSE f.kind,
     qualified |-> f.qualified,
     first |-> f.start,
     last |-> i]

CloseFrame(s, i) ==
    [s EXCEPT !.stack = Front(@), !.nodes = Append(@, Node(Last(s.stack), i))]

\* A variant that does not look at the depth.
EndAny(s, i) ==
    LET closed == IF s.stack # <<>> THEN CloseFrame(s, i) ELSE s
    IN  [closed EXCEPT !.depth = IF @ > 0 THEN @ - 1 ELSE 0]

\* An end closes the frame on top if it was opened at this depth.
End(s, i) ==
    LET closes == s.stack # <<>> /\ Last(s.stack).depth = s.depth
        closed == IF closes THEN CloseFrame(s, i) ELSE s
    IN  [closed EXCEPT !.depth = IF @ > 0 THEN @ - 1 ELSE 0]

ScanLine(s, line, i) ==
    CASE line \in Definers -> [s EXCEPT !.stack = Append(@, Frame(s, line, i)), !.depth = @ + 1]
      [] line = "end" -> End(s, i)
      [] OTHER -> [s EXCEPT !.depth = @ + Opens(line)]

\* The frames that are open after i lines of the program, and the nodes found.
Scanned(lines) ==
    LET after[i \in 0 .. Len(lines)] ==
            IF i = 0 THEN Scan ELSE ScanLine(after[i - 1], lines[i], i)
    IN  after[Len(lines)]

\* What is open at the end of the file ends there.
ParseRuby(lines) ==
    LET s == Scanned(lines)
    IN  s.nodes \o [k \in DOMAIN s.stack |-> Node(Reverse(s.stack)[k], Len(lines))]

-----------------------------------------------------------------------------
\* What Ruby makes of a program of regular lines.

OpensBlock(line) == line \in Containers \cup {"def", "open"}

\* Blocks(lines)[i]: how many blocks are open after the first i lines.
Blocks(lines) ==
    LET open[i \in 0 .. Len(lines)] ==
            IF i = 0 THEN 0
            ELSE CASE OpensBlock(lines[i]) -> open[i - 1] + 1
                   [] lines[i] = "end" -> open[i - 1] - 1
                   [] OTHER -> open[i - 1]
    IN  open

WellFormed(lines) ==
    /\ \A i \in DOMAIN lines : lines[i] \in RegularLines /\ Blocks(lines)[i] >= 0
    /\ Blocks(lines)[Len(lines)] = 0

\* The block that line i opens ends at line j.
EndsAt(lines, i, j) ==
    LET open == Blocks(lines)
    IN  /\ i < j /\ open[j] < open[i]
        /\ \A k \in i .. (j - 1) : open[k] >= open[i]

\* The classes and modules that line i lies in.
Enclosing(lines, i) ==
    {k \in 1 .. (i - 1) : lines[k] \in Containers /\ \A j \in 1 .. i : ~EndsAt(lines, k, j)}

\* A node goes from a definition to its end and, for a class or module, says
\* which; its name lists the lines of those around it, from the outside in,
\* and its own.
IsDefinition(lines, n) ==
    LET i == n.first
        name == n.qualified
    IN  /\ lines[i] \in Containers => n.type = lines[i]
        /\ EndsAt(lines, i, n.last)
        /\ ToSet(name) = Enclosing(lines, i) \cup {i}
        /\ \A j, k \in DOMAIN name : j < k => name[j] < name[k]

\* In a well-formed program of regular lines the scanner finds each class,
\* module and method once, from its line to its end and under its full name.
FindsDefinitions(lines) ==
    WellFormed(lines) =>
        LET nodes == ParseRuby(lines)
            first == [k \in DOMAIN nodes |-> nodes[k].first]
        IN  /\ IsInjective(first)
            /\ ToSet(first) = {i \in DOMAIN lines : lines[i] \in Definers}
            /\ \A n \in ToSet(nodes) : IsDefinition(lines, n)

\* Whatever the program is, each line that defines something becomes one node,
\* two nodes lie one within the other or apart, and the name of a node is
\* qualified by just the classes and modules whose nodes it lies in.
NodesNest(lines) ==
    LET nodes == ParseRuby(lines)
        within(m, n) == n.first < m.first /\ m.last <= n.last
    IN  /\ {nodes[k].first : k \in DOMAIN nodes} = {i \in DOMAIN lines : lines[i] \in Definers}
        /\ IsInjective([k \in DOMAIN nodes |-> nodes[k].first])
        /\ \A j, k \in DOMAIN nodes :
              LET m == nodes[j]
                  n == nodes[k]
              IN  j # k =>
                    within(m, n) \/ within(n, m) \/ m.last < n.first \/ n.last < m.first
        /\ \A m \in ToSet(nodes) :
              ToSet(Front(m.qualified)) =
                  {n.first : n \in {n \in ToSet(nodes) : n.type \in Containers /\ within(m, n)}}
=============================================================================
