---------------------------- MODULE MCCatalogPool ----------------------------
(***************************************************************************)
(* A small instance of CatalogPool for TLC: one source that may be         *)
(* fetched and one whose URL is that of a host nobody has allowed.         *)
(***************************************************************************)
EXTENDS CatalogPool, TLC

CONSTANTS subject, stray, builtin

OneOfEach == {subject, stray}
UrlsOfOneOfEach ==
    [s \in OneOfEach |-> [host |-> IF s = stray THEN "unknown" ELSE "allowlisted",
                          https |-> TRUE, bare |-> TRUE]]
AllSteps == Steps
=============================================================================
