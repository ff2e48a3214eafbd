---------------------------- MODULE StacksClaims ----------------------------
(***************************************************************************)
(* Statements the documentation, the comments and the messages of the code *)
(* make about the commands of StacksCore and the code does not keep in     *)
(* every behaviour.  A configuration beside the runs finds the             *)
(* counterexample to each; README.md says what each counterexample shows.  *)
(***************************************************************************)
EXTENDS StacksCore

\* refresh.py:557 builds the index after the save so that it does not "read as
\* permanently stale": the rest of the refresh leaves a usable index usable.
RefreshLeavesIndexUsable ==
    [][\A p \in Proc :
         At(p, "pool") /\ job'[p].at = "idle" /\ IndexUsable => IndexUsable']_vars

\* docs/DATA-RETENTION.md:28: a horizon "is enforced on every `stacks refresh`",
\* one that finds the sources unchanged included.
EveryRefreshEnforcesTheHorizon ==
    [][\A p \in Proc :
         LET j == job[p]
             policy == [store'.policy EXCEPT !.horizon = j.cfg.horizon]
         IN  j.cmd = "refresh" /\ job'[p].at = "idle" =>
               /\ Prune(store'.states, policy, j.now) = store'.states
               /\ PruneActivity(store'.activity, policy, j.now) = store'.activity]_vars

\* store.py:226: "a forget must SURVIVE", or the next refresh re-imports what it
\* removed: what it took out of the states, the policy names.
RemovedIsRemembered ==
    Idle /\ store.populated /\ store.origin = "real" /\ store.mtimes = {mtime} =>
        \A b \in calibre : b \in DOMAIN store.states \/ b \in store.policy.forgotten

\* retention.py:224: "An explicitly forgotten book leaves no reading record at all".
ForgottenLeaveNoRecord == receipts \cap DOMAIN store.states = {}

\* docs/DATA-RETENTION.md:75: "An id that matches nothing is a no-op": a forget
\* that names only a book goes past its probe only if the store has that book.
OnlyMatchesAreRemembered ==
    [][\A p \in Proc :
         LET j == job[p]
         IN  /\ At(p, "probe") /\ job'[p].at = "reread"
             /\ j.plan = WithForgottenBook(store.policy, j.target)
             => \A b \in j.target : b \in DOMAIN store.states]_vars

\* docs/DATA-RETENTION.md:87: a window shown as `not retained` was deleted; no
\* command leaves a boundary recorded with history before it still stored.
BoundaryIsTrue ==
    Idle => \A day \in store.enforcedOn :
        /\ Prune(store.states, store.policy, day) = store.states
        /\ PruneActivity(store.activity, store.policy, day) = store.activity
=============================================================================
