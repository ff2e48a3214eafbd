---------------------------- MODULE RecordStore ----------------------------
(***************************************************************************)
(* What the two commands that write the reading record owe each other.     *)
(* The record is the stored states, the per-day activity, the retention    *)
(* policy and the day it was last applied.  The code writes it in two      *)
(* transactions, in one order for `stacks refresh` and in the other for    *)
(* `stacks forget`; here each command writes all of it at once, and        *)
(* nothing else writes any of it.                                          *)
(*                                                                         *)
(* What a refresh read from the sources is left open: any shelf, any days. *)
(***************************************************************************)
EXTENDS Retention

CONSTANT Horizons     \* the values of history_days a reader configures

VARIABLES states, activity, policy, enforcedOn

vars == <<states, activity, policy, enforcedOn>>

Init ==
    /\ states = <<>>
    /\ activity = {}
    /\ policy = DefaultPolicy
    /\ enforcedOn = {}

\* The horizon is configuration and replaces the stored one; what the reader
\* forgot is kept.  Of what was read, the record gets what that policy leaves:
\* states and days from which it removes nothing more.
Ingest(horizon, today) ==
    /\ policy' = [policy EXCEPT !.horizon = horizon]
    /\ states' \in Shelf /\ Prune(states', policy', today) = states'
    /\ activity' \subseteq Day /\ PruneActivity(activity', policy', today) = activity'

\* A forget names a book, a day or both, acts only when that would remove
\* something, and takes it from the record that was there.
Forget(book, line, today) ==
    LET candidate == WithForgottenBefore(WithForgottenBook(policy, book), line)
    IN  /\ <<book, line>> # <<{}, {}>>
        /\ policy' = candidate
        /\ CountsSomething(states, activity, candidate, today)
        /\ states' = Prune(states, candidate, today)
        /\ activity' = PruneActivity(activity, candidate, today)

Next ==
    \E today \in Day :
        /\ enforcedOn' = {today}
        /\ \/ \E horizon \in Horizons : Ingest(horizon, today)
           \/ \E book \in Optional(Book), line \in Optional(Day) : Forget(book, line, today)

Spec == Init /\ [][Next]_vars
=============================================================================
