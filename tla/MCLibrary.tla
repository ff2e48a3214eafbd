------------------------------ MODULE MCLibrary ------------------------------
(***************************************************************************)
(* A small instance of Library for TLC: two titles, two books, one of them *)
(* known to KOReader as a file, and two users of Calibre-Web.              *)
(***************************************************************************)
EXTENDS Library, TLC

CONSTANTS d1, k1, k2

SmallKeyOf == [t \in 1..2 |-> IF t = 1 THEN k1 ELSE k2]
\* Two books of their own, or two copies of one.
SmallShelves == {[b \in {1, 2} |-> b], [b \in {1, 2} |-> 1]}
SmallTitleOf == [d \in {d1} |-> 1]
=============================================================================
