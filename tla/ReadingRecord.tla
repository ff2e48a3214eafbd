--------------------------- MODULE ReadingRecord ---------------------------
(***************************************************************************)
(* What the reading record promises, with every command a single step: the *)
(* record a reader sees is the source libraries' record minus what the     *)
(* retention policy removes.                                               *)
(*                                                                         *)
(* `library` is what unify makes of the read-only sources.  `kept` and     *)
(* `keptDays` are the states and the per-day activity of the store,        *)
(* `policy` its retention record, and `enforcedOn` the day that record was *)
(* last applied (RetentionState.applied_at; empty before the first time).  *)
(* StacksCore gives the commands as the separate transactions they are.    *)
(***************************************************************************)
EXTENDS Retention

CONSTANT Horizons     \* the values of history_days a reader configures

ASSUME HorizonsAssumption == Horizons \subseteq Nat

VARIABLES today, library, libraryDays, kept, keptDays, policy, enforcedOn

vars == <<today, library, libraryDays, kept, keptDays, policy, enforcedOn>>
sources == <<library, libraryDays>>
record == <<kept, keptDays, policy, enforcedOn>>

TypeOK ==
    /\ today \in Day
    /\ library \in Shelf
    /\ libraryDays \subseteq Day
    /\ kept \in Shelf
    /\ keptDays \subseteq Day
    /\ policy \in Policy
    /\ enforcedOn \in Optional(Day)

\* A catalogue row with a book that was never opened.
Unread == [owned |-> TRUE, stat |-> {}, progress |-> {}]

Init ==
    /\ today = 1
    /\ library \in UNION {[D -> {Unread}] : D \in SUBSET Book}
    /\ libraryDays = {}
    /\ kept = <<>>
    /\ keptDays = {}
    /\ policy = DefaultPolicy
    /\ enforcedOn = {}

(***************************************************************************)
(* The sources, which this program never writes.                           *)
(***************************************************************************)
Midnight ==
    /\ today < MaxDay
    /\ today' = today + 1
    /\ UNCHANGED <<sources, record>>

Put(shelf, b, row) ==
    [c \in DOMAIN shelf \cup {b} |-> IF c = b THEN row ELSE shelf[c]]

\* A reading session on a device, and the device's progress when it syncs.
Read(b) ==
    /\ \E synced \in BOOLEAN, log \in 1..MaxLog :
         library' = Put(library, b,
            [owned |-> b \in DOMAIN library /\ library[b].owned,
             stat |-> {[day |-> today, log |-> log]},
             progress |-> IF synced THEN {today}
                          ELSE IF b \in DOMAIN library THEN library[b].progress ELSE {}])
    /\ libraryDays' = libraryDays \cup {today}
    /\ UNCHANGED <<today, record>>

\* A book is added to Calibre.
Acquire(b) ==
    /\ b \in DOMAIN library => ~library[b].owned
    /\ library' = IF b \in DOMAIN library
                  THEN [library EXCEPT ![b].owned = TRUE]
                  ELSE Put(library, b, Unread)
    /\ UNCHANGED <<today, libraryDays, record>>

\* A book is removed from Calibre; a device keeps what it recorded of it.
GiveAway(b) ==
    /\ b \in DOMAIN library /\ library[b].owned
    /\ library' = IF library[b].stat # {}
                  THEN [library EXCEPT ![b].owned = FALSE]
                  ELSE [c \in DOMAIN library \ {b} |-> library[c]]
    /\ UNCHANGED <<today, libraryDays, record>>

(***************************************************************************)
(* The commands.                                                           *)
(***************************************************************************)
\* Slip: the record is pruned under the policy it already had.
EnforceStored(shelf, days, p) ==
    /\ kept' = Prune(shelf, policy, today)
    /\ keptDays' = PruneActivity(days, policy, today)
    /\ policy' = p
    /\ enforcedOn' = {today}
    /\ UNCHANGED <<today, sources>>

Enforce(shelf, days, p) ==
    /\ kept' = Prune(shelf, p, today)
    /\ keptDays' = PruneActivity(days, p, today)
    /\ policy' = p
    /\ enforcedOn' = {today}
    /\ UNCHANGED <<today, sources>>

\* An ingesting refresh: the horizon is configuration, the forgets are not.
Refresh ==
    \E h \in Horizons : Enforce(library, libraryDays, [policy EXCEPT !.horizon = h])

\* A forget names a book, a day, or both, and acts only when applying the
\* candidate policy would count something.
Forget(book, line) ==
    LET candidate == WithForgottenBefore(WithForgottenBook(policy, book), line)
    IN  /\ <<book, line>> # <<{}, {}>>
        /\ CountsSomething(kept, keptDays, candidate, today)
        /\ Enforce(kept, keptDays, candidate)

Next ==
    \/ Midnight
    \/ \E b \in Book : Read(b) \/ Acquire(b) \/ GiveAway(b)
    \/ Refresh
    \/ \E book \in Optional(Book), line \in Optional(Day) : Forget(book, line)

Spec == Init /\ [][Next]_vars

(***************************************************************************)
(* Properties.                                                             *)
(***************************************************************************)

\* The record holds nothing its own retention record says is gone: applying
\* that policy again, as of the day it was enforced, changes nothing.  This is
\* what apply_policy owes both commands (retention.py:195).
RecordObeysPolicy ==
    \A day \in enforcedOn :
        /\ Prune(kept, policy, day) = kept
        /\ PruneActivity(keptDays, policy, day) = keptDays

\* No state of an owned book the reader forgot is in the record, however often
\* the libraries, which still hold it, are read again (refresh.py:538).
ForgottenAreGone ==
    \A b \in policy.forgotten \cap DOMAIN kept : ~kept[b].owned

\* A reading history that is kept is kept for a reason: the row still shows a
\* day that the policy in force retained (retention.py:247).
KeptHistoryHasEvidence ==
    \A day \in enforcedOn, b \in DOMAIN kept :
        \A s \in kept[b].stat :
            s.log > 0 /\ Cutoffs(policy, day) # {} =>
                \E d \in Evidence(kept[b]) : Retained(d, Cutoffs(policy, day))

\* What the reader destroyed stays destroyed in the policy: no command, and no
\* change of the configured horizon, forgets a forget or moves its line back.
ForgetsAreRemembered ==
    [][/\ policy.forgotten \subseteq policy'.forgotten
       /\ \A d \in policy.before : \E e \in policy'.before : e >= d]_vars

\* A horizon deletes history, never a book: enforcing a policy drops no state
\* but those of forgotten books (docs/DATA-RETENTION.md, "What it never prunes").
HorizonKeepsTheShelf ==
    [][policy'.forgotten = policy.forgotten /\ sources' = sources =>
        \A b \in DOMAIN kept \cap DOMAIN library :
            (b \in DOMAIN kept' \/ IsForgotten(library, b, policy))]_vars
=============================================================================
