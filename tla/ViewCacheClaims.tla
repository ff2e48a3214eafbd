-------------------------- MODULE ViewCacheClaims --------------------------
(***************************************************************************)
(* Statements the comments of the code make about a page and its cached    *)
(* view that do not hold in every behaviour.                               *)
(***************************************************************************)
EXTENDS ViewCache

\* A page shows the states and the refresh time of one and the same save: a
\* concurrent reader "can never observe new states paired with a stale
\* refreshed_at", nor the reverse (store.py:157).
AnswersAreWhole ==
    \A t \in Thread, written \in Writes : Answering(t) /\ Stamp \in written =>
        \A row \in written : request[t].view[row] = request[t].view[Stamp]

\* The key of a cached view is "every input that can change" the view
\* (server.py:86), so a page whose refresh time was already long past when the
\* request arrived says so.
BannerIsTrue ==
    \A t \in Thread : Answering(t) =>
        (request[t].view[Stamp] \in request[t].late => request[t].stale)
=============================================================================
