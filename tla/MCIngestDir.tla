---------------------------- MODULE MCIngestDir ----------------------------
(***************************************************************************)
(* Instances of IngestDir for TLC: every tree of up to MaxEntries entries. *)
(***************************************************************************)
EXTENDS IngestDir

CONSTANT MaxEntries

MCTrees == UNION {[1 .. n -> Kinds] : n \in 0 .. MaxEntries}
=============================================================================
