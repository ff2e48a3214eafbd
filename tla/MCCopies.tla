------------------------------ MODULE MCCopies ------------------------------
(***************************************************************************)
(* A small instance of Copies for TLC: two books, interchangeable, up to   *)
(* two backups and two forgets.                                            *)
(***************************************************************************)
EXTENDS Copies, TLC

CONSTANTS b1, b2

Books == Permutations({b1, b2})
=============================================================================
