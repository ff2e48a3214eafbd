----------------------------- MODULE ViewCache -----------------------------
(***************************************************************************)
(* The dashboard server's view cache (app/server.py, _load_view).  Request *)
(* handlers run in a thread pool; each reads a key from the store, reuses  *)
(* the one cached view when it was filed under the same key, and otherwise *)
(* builds a view with one SELECT for each row and files it.  Nothing holds *)
(* a lock, and commands write the store meanwhile.                         *)
(*                                                                         *)
(* A value of a row is the serial number of the write that made it, so two *)
(* values are equal exactly when they are the same value, and the later of *)
(* two is the greater.                                                     *)
(***************************************************************************)
EXTENDS Naturals, Sequences

CONSTANTS
    Row,        \* the rows a view is built from
    Stamp,      \* the row of refreshed_at, which is also part of the key
    ReadOrder,  \* the order in which view_from_store reads them
    Writes,     \* the sets of rows one transaction writes
    Thread,     \* server threads
    Restores,   \* with the server "running" or "stopped" meanwhile, or "never"
    MaxSerial   \* bound on the number of writes

ASSUME StampAssumption == Stamp \in Row
ASSUME ReadOrderAssumption ==
    /\ ReadOrder \in Seq(Row)
    /\ \A row \in Row : \E i \in 1..Len(ReadOrder) : ReadOrder[i] = row
ASSUME WritesAssumption == Writes \subseteq SUBSET Row
ASSUME BoundAssumption == MaxSerial \in Nat /\ Restores \in {"never", "stopped", "running"}

VARIABLES
    content,  \* the store's rows
    rev,      \* the store's view revision
    serial,   \* the serial number of the last write
    aged,     \* the refresh times that now lie STALE_AFTER_SECONDS back
    backup,   \* the last backup, if any
    cache,    \* the one cached view and its key, if any
    request   \* what each thread is doing

vars == <<content, rev, serial, aged, backup, cache, request>>

Serial == 0..MaxSerial
Key == [stamp: Serial, rev: Nat]
Rows == [Row -> Serial]

\* A view under construction holds the rows read so far.
PartialView == UNION {[D -> Serial] : D \in SUBSET Row}

\* `since` and `late` are the store and the aged refresh times as the request
\* found them on arrival, `base` the store when the request read the revision:
\* ghosts, for the properties only.
Request == [at: {"idle", "stamp", "revision", "lookup", "build", "answer"},
            key: Key, read: 0..Len(ReadOrder), view: PartialView, stale: BOOLEAN,
            since: Rows, late: SUBSET Serial, base: Rows]

Nothing == [row \in Row |-> 0]

IdleRequest == [at |-> "idle", key |-> [stamp |-> 0, rev |-> 0], read |-> 0,
                view |-> <<>>, stale |-> FALSE,
                since |-> Nothing, late |-> {}, base |-> Nothing]

TypeOK ==
    /\ content \in Rows
    /\ rev \in Nat
    /\ serial \in Serial
    /\ aged \subseteq Serial
    /\ backup \subseteq [content: Rows, rev: Nat]
    /\ cache \subseteq [key: Key, view: Rows, stale: BOOLEAN, base: Rows]
    /\ request \in [Thread -> Request]

Init ==
    /\ content = Nothing
    /\ rev = 0
    /\ serial = 0
    /\ aged = {}
    /\ backup = {}
    /\ cache = {}
    /\ request = [t \in Thread |-> IdleRequest]

(***************************************************************************)
(* The store, as ViewStore promises it, and backups of it.                 *)
(***************************************************************************)
Write ==
    /\ serial < MaxSerial
    /\ serial' = serial + 1
    /\ rev' = rev + 1
    /\ \E written \in Writes :
         content' = [row \in Row |-> IF row \in written THEN serial' ELSE content[row]]
    /\ UNCHANGED <<aged, backup, cache, request>>

Backup ==
    /\ Restores # "never"
    /\ backup' = {[content |-> content, rev |-> rev]}
    /\ UNCHANGED <<content, rev, serial, aged, cache, request>>

\* A server that starts has no cached view (create_app).
ServerStarts ==
    /\ cache' = {}
    /\ request' = [t \in Thread |-> IdleRequest]

Restart ==
    /\ ServerStarts
    /\ UNCHANGED <<content, rev, serial, aged, backup>>

Restore ==
    /\ \E file \in backup : content' = file.content /\ rev' = file.rev
    /\ IF Restores = "stopped" THEN ServerStarts ELSE UNCHANGED <<cache, request>>
    /\ UNCHANGED <<serial, aged, backup>>

\* Time passes: every refresh made so far is now long ago.
Age ==
    /\ aged' = 1..serial
    /\ UNCHANGED <<content, rev, serial, backup, cache, request>>

(***************************************************************************)
(* A request.                                                              *)
(***************************************************************************)
Step(t, from, r) ==
    /\ request[t].at = from
    /\ request' = [request EXCEPT ![t] = r]

UnchangedButRequest == UNCHANGED <<content, rev, serial, aged, backup, cache>>

Arrive(t) ==
    /\ Step(t, "idle", [IdleRequest EXCEPT !.at = "stamp", !.since = content,
                                           !.late = aged])
    /\ UnchangedButRequest

\* refreshed_at, read first: an unpopulated store answers 503.
ReadStamp(t) ==
    /\ Step(t, "stamp", IF content[Stamp] = 0 THEN IdleRequest
                        ELSE [request[t] EXCEPT !.at = "revision",
                                                !.key.stamp = content[Stamp]])
    /\ UnchangedButRequest

\* Slip: the key leaves the revision out.
ReadNoRevision(t) ==
    /\ Step(t, "revision", [request[t] EXCEPT !.at = "lookup", !.base = content])
    /\ UnchangedButRequest

ReadRevision(t) ==
    /\ Step(t, "revision", [request[t] EXCEPT !.at = "lookup",
                                              !.key.rev = rev, !.base = content])
    /\ UnchangedButRequest

Lookup(t) ==
    LET found == {entry \in cache : entry.key = request[t].key}
    IN  /\ \/ \E entry \in found :
                Step(t, "lookup", [request[t] EXCEPT !.at = "answer", !.view = entry.view,
                                                     !.stale = entry.stale])
           \/ found = {} /\ Step(t, "lookup", [request[t] EXCEPT !.at = "build"])
        /\ UnchangedButRequest

\* view_from_store reads the rows one SELECT at a time.
ReadRow(t) ==
    LET i == request[t].read + 1
        row == ReadOrder[i]
        view == request[t].view
    IN  /\ i <= Len(ReadOrder)
        /\ Step(t, "build",
                [request[t] EXCEPT
                   !.read = i,
                   !.view = [r \in DOMAIN view \cup {row} |->
                               IF r = row THEN content[row] ELSE view[r]]])
        /\ UnchangedButRequest

\* Slip: the revision is read again after the view is built, and filed.
FileViewUnderLatest(t) ==
    LET r == request[t]
        stale == r.view[Stamp] \in aged
    IN  /\ r.read = Len(ReadOrder)
        /\ Step(t, "build", [r EXCEPT !.at = "answer", !.stale = stale])
        /\ cache' = {[key |-> [r.key EXCEPT !.rev = rev], view |-> r.view,
                      stale |-> stale, base |-> r.base]}
        /\ UNCHANGED <<content, rev, serial, aged, backup>>

\* build_view compares the refresh time with the clock; the view then goes into
\* the one slot, whatever another thread left there.
FileView(t) ==
    LET r == request[t]
        stale == r.view[Stamp] \in aged
    IN  /\ r.read = Len(ReadOrder)
        /\ Step(t, "build", [r EXCEPT !.at = "answer", !.stale = stale])
        /\ cache' = {[key |-> r.key, view |-> r.view, stale |-> stale, base |-> r.base]}
        /\ UNCHANGED <<content, rev, serial, aged, backup>>

Answer(t) ==
    /\ Step(t, "answer", IdleRequest)
    /\ UnchangedButRequest

Serve(t) ==
    \/ Arrive(t) \/ ReadStamp(t) \/ ReadRevision(t) \/ Lookup(t)
    \/ ReadRow(t) \/ FileView(t) \/ Answer(t)

Next == Write \/ Backup \/ Restore \/ Restart \/ Age \/ \E t \in Thread : Serve(t)

Spec == Init /\ [][Next]_vars

(***************************************************************************)
(* Properties.                                                             *)
(***************************************************************************)
Answering(t) == request[t].at = "answer"

\* A page never shows a row as it was before its request arrived, whether the
\* view was built for it or by another thread, for another request, while the
\* store was being written (server.py:216).
NoStaleAnswer ==
    \A t \in Thread : Answering(t) =>
        \A row \in Row : request[t].view[row] >= request[t].since[row]

\* A cached view that a request would now be given, because its key is the one
\* the request would compute, shows the store as it is (server.py:196,
\* store.py:199).
CurrentKey == [stamp |-> content[Stamp], rev |-> rev]

CacheIsFresh == \A entry \in cache : entry.key = CurrentKey => entry.view = content
=============================================================================
