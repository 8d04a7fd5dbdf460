----------------------------- MODULE MCService -----------------------------
(***************************************************************************)
(* The instance of Service for TLC, see MCService.cfg: texts of three      *)
(* windows, programs of six lines, six pieces in three batches, the rows   *)
(* and calls of MCRetrieval, and every answer of the model of up to        *)
(* MaxEvents events, those that go on after their end included.            *)
(***************************************************************************)
EXTENDS Service, MCRetrieval

CONSTANT MaxEvents

MCAnswers == UNION {[1 .. n -> Events] : n \in 0 .. MaxEvents}
=============================================================================
