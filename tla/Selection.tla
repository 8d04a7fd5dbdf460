----------------------------- MODULE Selection -----------------------------
(***************************************************************************)
(* A loop that keeps some elements of a sequence and passes over the rest: *)
(* SelectSeq with a set in place of the predicate, so that facts about it  *)
(* can be stated and proved for any set.                                   *)
(***************************************************************************)
EXTENDS Naturals, Sequences

\* The elements of s that are in S, in their order.
Select(s, S) ==
    LET kept[i \in 0 .. Len(s)] ==
            IF i = 0 THEN <<>>
            ELSE IF s[i] \in S THEN Append(kept[i - 1], s[i]) ELSE kept[i - 1]
    IN  kept[Len(s)]
=============================================================================
