--------------------------- MODULE MCTextVectors ---------------------------
(***************************************************************************)
(* The instance of TextVectors alone for TLC, see MCTextVectorsPartial.cfg *)
(* and MCService for the properties that hold.                             *)
(***************************************************************************)
EXTENDS TextVectors
=============================================================================
