---------------------------- MODULE MCDisclosure ----------------------------
(***************************************************************************)
(* A small instance of Disclosure for TLC: two books and four descriptors, *)
(* one in the built-in floor, one the reader's lens file marks, one it     *)
(* leaves unmarked and one it declares harmless.                           *)
(***************************************************************************)
EXTENDS Disclosure, TLC

CONSTANTS floor, own, plain, harmless, Own, Bold

SmallTags == (1 :> {floor, own, harmless}) @@ (2 :> {plain, harmless})
BuiltinLenses == {[labels |-> {floor}, marked |-> "yes"],
                  [labels |-> {harmless}, marked |-> "no"]}
\* One file protects what the built-in grouping does not know; the other declares
\* even the floor harmless.
OwnLenses == {[labels |-> {own, harmless}, marked |-> "yes"],
              [labels |-> {plain}, marked |-> "unmarked"]}
BoldLenses == {[labels |-> {floor, own, plain, harmless}, marked |-> "no"]}
SmallGrouping == (Own :> OwnLenses) @@ (Bold :> BoldLenses)
=============================================================================
