---------------------------- MODULE MCStacksCore ----------------------------
(***************************************************************************)
(* Small instances of StacksCore for TLC.                                  *)
(***************************************************************************)
EXTENDS StacksCore, TLC

CONSTANTS b1, b2, demo, p1, p2

Plain == [demo |-> FALSE, horizon |-> 0, egress |-> FALSE]
Horizon == [Plain EXCEPT !.horizon = 1]
Public == [Plain EXCEPT !.egress = TRUE]
DemoMode == [Plain EXCEPT !.demo = TRUE]

WorldConfigs == {Plain, Public, DemoMode}
PublicOnly == {Public}
HorizonConfigs == {Plain, Horizon}
AllConfigs == WorldConfigs \cup HorizonConfigs

AllSteps == Steps
\* Every step but the ones between the two writes of the reading record, and those of
\* the index, which the record does not depend on.
OutsideTheRecord == Steps \ {"save", "retain", "drop", "create", "fill"}
=============================================================================
