----------------------------- MODULE ViewStore -----------------------------
(***************************************************************************)
(* What the store promises to whoever renders a page from it: every change *)
(* of a view input takes the next revision, and the revision moves for no  *)
(* other reason than a write (store.py, _put_view_state and save).         *)
(*                                                                         *)
(* StacksCore implements this whatever commands run side by side, as long  *)
(* as no backup is restored over the file; ViewCache relies on it.         *)
(***************************************************************************)
EXTENDS Naturals

CONSTANT Content      \* the values the view inputs can take together

VARIABLES content, rev

Init == content \in Content /\ rev = 0

Write ==
    /\ content' \in Content
    /\ rev' = rev + 1

Spec == Init /\ [][Write]_<<content, rev>>
=============================================================================
