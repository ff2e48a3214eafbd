--------------------------- MODULE MCStacksClaims ---------------------------
(***************************************************************************)
(* Small instances of StacksClaims for TLC.                                *)
(***************************************************************************)
EXTENDS StacksClaims

CONSTANTS b1, demo, p1, p2

Plain == [demo |-> FALSE, horizon |-> 0, egress |-> FALSE]
PlainOnly == {Plain}
PublicOnly == {[Plain EXCEPT !.egress = TRUE]}
HorizonOnly == {[Plain EXCEPT !.horizon = 1]}
PlainOrHorizon == PlainOnly \cup HorizonOnly
PlainOrDemo == PlainOnly \cup {[Plain EXCEPT !.demo = TRUE]}
=============================================================================
