----------------------------- MODULE Retention -----------------------------
(***************************************************************************)
(* The retention policy of ingest/retention.py: what a reader has asked    *)
(* the instance to keep and to forget, and the pure function apply_policy  *)
(* that both `stacks refresh` and `stacks forget` run over derived state.  *)
(*                                                                         *)
(* An optional value of the code (None or a value) is a set of at most one *)
(* element here.  A timestamp is represented by its day ordinal, and a     *)
(* timestamp that is not positive ("never") by day 0, which is also the    *)
(* ordinal day_ordinal gives it.  The amount of history a stat holds       *)
(* (read time, sessions, highlights) is the single number `log`.           *)
(***************************************************************************)
EXTENDS Integers, FiniteSets

CONSTANTS
    Book,      \* join keys of books (title and first author, normalised)
    MaxDay,    \* the last day ordinal considered
    MaxLog     \* bound on the amount of history of one stat

ASSUME MaxDayAssumption == MaxDay \in Nat \ {0}
ASSUME MaxLogAssumption == MaxLog \in Nat

\* None or a value of S.
Optional(S) == {s \in SUBSET S : \A x, y \in s : x = y}

Day == 1..MaxDay
Stamp == 0..MaxDay

(***************************************************************************)
(* A ReadingState, and a list of them keyed by join key (unify emits one   *)
(* state for a key).  `owned` says that state.book is not None.            *)
(***************************************************************************)
Stat == [day: Stamp, log: 0..MaxLog]
Row == [owned: BOOLEAN, stat: Optional(Stat), progress: SUBSET Stamp]
Shelf == UNION {[D -> Row] : D \in SUBSET Book}

Policy == [horizon: Nat, forgotten: SUBSET Book, before: Optional(Day)]
DefaultPolicy == [horizon |-> 0, forgotten |-> {}, before |-> {}]

\* `book` and `line` are optional: what a forget was not given changes nothing.
WithForgottenBook(policy, book) ==
    [policy EXCEPT !.forgotten = @ \cup book]

\* Slip: the last line given wins, even when it lies before the stored one.
WithLastForgottenBefore(policy, line) ==
    [policy EXCEPT !.before = IF line = {} THEN @ ELSE line]

\* The later of the two days survives: a forget never moves the line back.
WithForgottenBefore(policy, line) ==
    LET days == policy.before \cup line
    IN  [policy EXCEPT !.before = {e \in days : \A f \in days : e >= f}]

(***************************************************************************)
(* The cut-offs in force: the rolling horizon, when history_days is        *)
(* positive, and the day of an explicit `forget --before`.  A day is       *)
(* retained when no cut-off lies after it, that is when it is not before   *)
(* the stricter of the two.                                                *)
(***************************************************************************)
Cutoffs(policy, today) ==
    (IF policy.horizon > 0 THEN {today - policy.horizon} ELSE {})
        \cup policy.before

Retained(day, cuts) == \A c \in cuts : day >= c

EarliestRetained(policy, today) ==
    LET cuts == Cutoffs(policy, today)
    IN  {c \in cuts : Retained(c, cuts)}

(***************************************************************************)
(* apply_policy on one state.  The evidence of a book is every positive    *)
(* timestamp it carries; its stat loses its history when the latest of     *)
(* them is before the cut-off, or when there is none.                      *)
(***************************************************************************)
Evidence(row) == ({s.day : s \in row.stat} \cup row.progress) \ {0}

\* Slip: the day before the cut-off counts as retained.
StatIsStaleByADay(row, cuts) ==
    \A d \in Evidence(row) : \E c \in cuts : d < c - 1

StatIsStale(row, cuts) == \A d \in Evidence(row) : ~Retained(d, cuts)

StripHistory(stat) == [stat EXCEPT !.day = 0, !.log = 0]

PruneRow(row, cuts) ==
    IF cuts = {} THEN row
    ELSE [row EXCEPT
            !.stat = IF StatIsStale(row, cuts) THEN {StripHistory(s) : s \in @} ELSE @,
            !.progress = {d \in @ : Retained(d, cuts)}]

\* Only a state with a book can be named by a forget.
IsForgotten(shelf, b, policy) == shelf[b].owned /\ b \in policy.forgotten

\* Slip: without a cut-off there is nothing to do, not even a forgotten book.
PruneOnlyBeforeACutoff(shelf, policy, today) ==
    IF Cutoffs(policy, today) = {} THEN shelf
    ELSE [b \in {c \in DOMAIN shelf : ~IsForgotten(shelf, c, policy)} |->
             PruneRow(shelf[b], Cutoffs(policy, today))]

\* Slip: a state whose history is stale goes as a whole.
PruneDroppingStale(shelf, policy, today) ==
    LET cuts == Cutoffs(policy, today)
    IN  [b \in {c \in DOMAIN shelf : /\ ~IsForgotten(shelf, c, policy)
                                    /\ cuts # {} => ~StatIsStale(shelf[c], cuts)} |->
             PruneRow(shelf[b], cuts)]

Prune(shelf, policy, today) ==
    [b \in {c \in DOMAIN shelf : ~IsForgotten(shelf, c, policy)} |->
        PruneRow(shelf[b], Cutoffs(policy, today))]

PruneActivity(days, policy, today) ==
    {d \in days : Retained(d, Cutoffs(policy, today))}

(***************************************************************************)
(* PruneCounts.total > 0, the test both forget and _apply_to_store make:   *)
(* some state was dropped, some stat counted as cleared (a stat that is    *)
(* already stripped counts again), some progress entry or activity day     *)
(* removed.                                                                *)
(***************************************************************************)
ClearsHistory(row, cuts) == cuts # {} /\ row.stat # {} /\ StatIsStale(row, cuts)

DropsProgress(row, cuts) == \E d \in row.progress : ~Retained(d, cuts)

CountsSomething(shelf, days, policy, today) ==
    LET cuts == Cutoffs(policy, today)
    IN  \/ \E b \in DOMAIN shelf :
              \/ IsForgotten(shelf, b, policy)
              \/ ClearsHistory(shelf[b], cuts)
              \/ DropsProgress(shelf[b], cuts)
        \/ PruneActivity(days, policy, today) # days
=============================================================================
