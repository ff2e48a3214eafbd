--------------------------- MODULE MCProgressCache ---------------------------
(***************************************************************************)
(* A small instance of ProgressCache for TLC.                              *)
(***************************************************************************)
EXTENDS ProgressCache, TLC

CONSTANTS k1, p1

\* Every step but the ones between the cache and the states it resolves to.
OutsideTheSave == Steps \ {"web", "save"}
=============================================================================
