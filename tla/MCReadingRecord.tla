-------------------------- MODULE MCReadingRecord --------------------------
(***************************************************************************)
(* A small instance of ReadingRecord for TLC: the days and the books of    *)
(* the configuration file, and history amounts 0 and 1.                    *)
(***************************************************************************)
EXTENDS ReadingRecord, TLC

CONSTANTS b1, b2

Symmetry == Permutations(Book)
=============================================================================
