------------------------------- MODULE MCRagd -------------------------------
(***************************************************************************)
(* The instance of Ragd for TLC, see MCRagd.cfg: two daemons on one        *)
(* database that is fresh or partly migrated, each started twice.          *)
(***************************************************************************)
EXTENDS Ragd
=============================================================================
