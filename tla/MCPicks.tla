------------------------------ MODULE MCPicks ------------------------------
(***************************************************************************)
(* A small instance of Picks for TLC: an owned book and four candidates.   *)
(* Candidate 1 shares its theme, 2 has another, 3 has none and is by its   *)
(* author, 4 is the same book.                                             *)
(***************************************************************************)
EXTENDS Picks, TLC

CONSTANTS own, t1, t2, lens, canon, mine, w1, w2

Labels == own :> {t1} @@ 1 :> {t1} @@ 2 :> {t2} @@ 3 :> {} @@ 4 :> {t1, t2}
Authors == own :> "a" @@ 1 :> "b" @@ 2 :> "b" @@ 3 :> "a" @@ 4 :> "a"
Keys == own :> 4 @@ [c \in 1..4 |-> c]
Canon == canon :> {2, 4}
Lenses == {lens :> s : s \in {{}, {t1, t2}}}
=============================================================================
