------------------------------- MODULE Chunks -------------------------------
(***************************************************************************)
(* chunk (internal/ingest/doc.go): how the text of a document is cut into  *)
(* overlapping windows.  A text is a sequence of runes, of which all that  *)
(* counts is whether they are blank; a chunk is the pair of the positions  *)
(* of its first and last rune.                                             *)
(***************************************************************************)
EXTENDS Naturals, Sequences, FiniteSetsExt, Selection

CONSTANTS
    ChunkSize,      \* runes in a window
    ChunkOverlap    \* runes that consecutive windows share

\* The code overlaps windows by half when the overlap is no less than the
\* size; it would not move at all if that half were zero.
Step == IF ChunkSize > ChunkOverlap THEN ChunkSize - ChunkOverlap ELSE ChunkSize \div 2

ASSUME ChunksAssumption ==
    /\ ChunkSize \in Nat
    /\ ChunkOverlap \in Nat
    /\ Step > 0

Runes == {"visible", "blank"}

\* The positions in a window, or in a whole text, that are not blank.
Seen(text, w) == {i \in w[1] .. w[2] : text[i] = "visible"}

\* strings.TrimSpace
Trimmed(text, w) == <<Min(Seen(text, w)), Max(Seen(text, w))>>

\* A variant without the last window where that is shorter than the others.
WindowsShort(n) ==
    [k \in 1 .. ((n - ChunkSize) \div Step + 1) |->
        <<(k - 1) * Step + 1, (k - 1) * Step + ChunkSize>>]

\* A window begins a step after the one before, until one reaches the end.
Windows(n) ==
    LET rest == n - ChunkSize
        steps == rest \div Step + (IF rest % Step = 0 THEN 0 ELSE 1)
    IN  [k \in 1 .. (steps + 1) |->
            <<(k - 1) * Step + 1, Min({(k - 1) * Step + ChunkSize, n})>>]

\* A text that fits in a window is one chunk as it is; blank chunks are left
\* out.
Chunk(text) ==
    LET n == Len(text)
        visible == {w \in (1 .. n) \X (1 .. n) : Seen(text, w) # {}}
        whole == <<1, n>>
        cut == Select(Windows(n), visible)
    IN  IF n <= ChunkSize
        THEN IF whole \in visible THEN <<whole>> ELSE <<>>
        ELSE [k \in DOMAIN cut |-> Trimmed(text, cut[k])]

-----------------------------------------------------------------------------

\* No passage is torn apart that is shorter than the overlap of two windows
\* allows, wherever in the text it stands: a chunk holds all of it.  Chunks
\* hold at most ChunkSize runes and follow the text.
ChunksHold(text) ==
    LET chunks == Chunk(text)
    IN  /\ \A a, b \in Seen(text, <<1, Len(text)>>) :
              a <= b /\ b - a <= ChunkSize - Step =>
                  \E k \in DOMAIN chunks : chunks[k][1] <= a /\ b <= chunks[k][2]
        /\ \A k \in DOMAIN chunks : chunks[k][2] - chunks[k][1] < ChunkSize
        /\ \A k \in 1 .. (Len(chunks) - 1) :
              chunks[k][1] <= chunks[k + 1][1] /\ chunks[k][2] <= chunks[k + 1][2]
=============================================================================
