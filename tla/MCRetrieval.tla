---------------------------- MODULE MCRetrieval ----------------------------
(***************************************************************************)
(* The instances of Retrieval for TLC: three chunks, three functions, and  *)
(* every call graph over three calls that form a chain and close it to a   *)
(* cycle.  The properties that hold are checked in MCService.              *)
(***************************************************************************)
EXTENDS Retrieval

CONSTANTS d1, d2, d3, f, g, h

MCGraphs == SUBSET {<<f, g>>, <<g, h>>, <<h, f>>}

\* Any two items can come in either order.
MCOrders ==
    LET line == <<d1, f, d2, g, d3, h>>
        place == [x \in Items |-> CHOOSE i \in DOMAIN line : line[i] = x]
    IN  {place, [x \in Items |-> Len(line) - place[x]]}

MCSize == [x \in Items |-> IF x \in {d2, g} THEN 2 ELSE 1]
=============================================================================
