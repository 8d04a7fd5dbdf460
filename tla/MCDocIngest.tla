---------------------------- MODULE MCDocIngest ----------------------------
(***************************************************************************)
(* Instances of DocIngest for TLC: versions with no chunk, one chunk and   *)
(* two, so that a version can follow a longer, a shorter and a blank one.  *)
(***************************************************************************)
EXTENDS DocIngest

CONSTANTS blank, short, long

MCVersions == {blank, short, long}
\* Two versions are enough for a file to be edited and edited back.
MCTwoVersions == {blank, short}

MCNumChunks == [v \in MCVersions |-> CASE v = blank -> 0 [] v = short -> 1 [] v = long -> 2]
MCTwoNumChunks == [v \in MCTwoVersions |-> MCNumChunks[v]]
=============================================================================
