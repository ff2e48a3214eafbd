----------------------------- MODULE StacksCore -----------------------------
(***************************************************************************)
(* The app-state store and the commands that write it, one transaction or  *)
(* one read of shared state a step: `stacks refresh` (ingest/refresh.py),  *)
(* `stacks forget` (ingest/forget.py), `stacks backup` and `stacks         *)
(* restore` (ingest/backup.py), and the taste form of the dashboard, which *)
(* writes the same file from a server thread.                              *)
(*                                                                         *)
(* Each command is a process of its own and nothing locks one against      *)
(* another, so they interleave freely unless Alone is set.  Alone is the   *)
(* deployment the code describes, one reader at one terminal: a command    *)
(* starts only when no other runs, while the server still writes at any    *)
(* moment and a command may still die between two of its steps.            *)
(***************************************************************************)
EXTENDS Retention

CONSTANTS
    DemoBook,   \* the books of the built-in demo library
    Proc,       \* identities of running commands
    Configs,    \* configurations a command may be started under
    Commands,   \* the kinds of command started: refresh, forget, backup, restore
    Alone,      \* whether a command starts only when no other runs
    MortalAt,   \* the steps at which a command may die, or a rebuild of the index fail
    SameSecond, \* whether a source can change without changing its mtime
    MaxMtime,   \* bound on source changes: none happens at this mtime
    MaxRev,     \* bound on the view revision: no command starts at it
    MaxTaste    \* bound on the view revision: no taste form is sent at it

ASSUME DemoBookAssumption == DemoBook \subseteq Book
ASSUME SwitchesAssumption == {Alone, SameSecond} \subseteq BOOLEAN
ASSUME BoundsAssumption == MaxLog >= 1 /\ {MaxMtime, MaxRev, MaxTaste} \subseteq Nat
ASSUME ConfigsAssumption ==
    Configs \subseteq [demo: BOOLEAN, horizon: Nat, egress: BOOLEAN]
ASSUME CommandsAssumption ==
    Commands \subseteq {"refresh", "forget", "backup", "restore"}

VARIABLES
    today,    \* the day
    calibre,  \* the books Calibre lists
    device,   \* KOReader: the day each book it knows was last read
    log,      \* KOReader: the days on which anything was read
    mtime,    \* the mtimes of the source files, as one value
    store,    \* the app-state file, search index included
    backup,   \* the last backup file, if any
    job,      \* the running commands
    receipts  \* books a `forget --book` has reported as forgotten

vars == <<today, calibre, device, log, mtime, store, backup, job, receipts>>
sources == <<calibre, device, log, mtime>>

RealBook == Book \ DemoBook

(***************************************************************************)
(* The store.  `catalog` is the candidate pool's row: the recorded mode,   *)
(* which source ids it lists, and when a fetch was last attempted.  `table`*)
(* is the FTS5 table (empty when there is none) and `built` the revision   *)
(* its meta row claims.                                                    *)
(***************************************************************************)
Catalog == [mode: {"absent", "off", "public"},
            ids: {"none", "demo", "configured"},
            attempted: Optional(Day)]
Titles == UNION {[D -> BOOLEAN] : D \in SUBSET Book}
Origin == {"unrecorded", "real", "demo"}

Store == [populated: BOOLEAN, states: Shelf, activity: SUBSET Day,
          mtimes: Optional(Nat), origin: Origin,
          policy: Policy, earliest: SUBSET Int, enforcedOn: Optional(Day),
          catalog: Catalog, taste: BOOLEAN, rev: Nat,
          table: SUBSET Titles, built: Optional(Nat)]

EmptyStore ==
    [populated |-> FALSE, states |-> <<>>, activity |-> {},
     mtimes |-> {}, origin |-> "unrecorded",
     policy |-> DefaultPolicy, earliest |-> {}, enforcedOn |-> {},
     catalog |-> [mode |-> "absent", ids |-> "none", attempted |-> {}],
     taste |-> FALSE, rev |-> 0, table |-> {}, built |-> {}]

(***************************************************************************)
(* A running command: the step it takes next and what it holds in memory.  *)
(***************************************************************************)
Steps == {"idle", "mode", "decide", "books", "stats", "log", "prune", "probe",
          "reread", "keep", "retain", "save", "drop", "create", "fill",
          "pool", "copyOut", "copyIn"}

Job == [at: Steps, cmd: {"none", "refresh", "forget", "backup", "restore"},
        cfg: [demo: BOOLEAN, horizon: Nat, egress: BOOLEAN], force: BOOLEAN,
        due: BOOLEAN, counted: BOOLEAN, seen: Nat, now: Day, owned: SUBSET Book,
        rows: Shelf, days: SUBSET Day, plan: Policy, target: SUBSET Book]

IdleJob ==
    [at |-> "idle", cmd |-> "none",
     cfg |-> [demo |-> FALSE, horizon |-> 0, egress |-> FALSE], force |-> FALSE,
     due |-> FALSE, counted |-> FALSE, seen |-> 0, now |-> 1, owned |-> {},
     rows |-> <<>>, days |-> {}, plan |-> DefaultPolicy, target |-> {}]

TypeOK ==
    /\ today \in Day
    /\ calibre \subseteq RealBook
    /\ device \in UNION {[D -> Day] : D \in SUBSET RealBook}
    /\ log \subseteq Day
    /\ mtime \in Nat
    /\ store \in Store
    /\ backup \subseteq Store
    /\ job \in [Proc -> Job]
    /\ receipts \subseteq Book

Init ==
    /\ today = 1
    /\ calibre \in SUBSET RealBook
    /\ device = <<>>
    /\ log = {}
    /\ mtime = 0
    /\ store = EmptyStore
    /\ backup = {}
    /\ job = [p \in Proc |-> IdleJob]
    /\ receipts = {}

(***************************************************************************)
(* The world outside: time, the sources, and the taste form.               *)
(***************************************************************************)
Midnight ==
    /\ today < MaxDay
    /\ today' = today + 1
    /\ UNCHANGED <<sources, store, backup, job, receipts>>

\* mtimes are kept in whole seconds, and a write that is still in a WAL does
\* not touch the main file's at all.
Touch ==
    /\ mtime < MaxMtime
    /\ mtime' \in {mtime + 1} \cup (IF SameSecond THEN {mtime} ELSE {})

ReadOnDevice(b) ==
    /\ Touch
    /\ device' = [c \in DOMAIN device \cup {b} |->
                    IF c = b THEN today ELSE device[c]]
    /\ log' = log \cup {today}
    /\ UNCHANGED <<today, calibre, store, backup, job, receipts>>

EditCalibre(b) ==
    /\ Touch
    /\ calibre' = IF b \in calibre THEN calibre \ {b} ELSE calibre \cup {b}
    /\ UNCHANGED <<today, device, log, store, backup, job, receipts>>

Bumped(s) == [s EXCEPT !.rev = @ + 1]

SaveTaste ==
    /\ store.rev < MaxTaste
    /\ \E t \in BOOLEAN : store' = Bumped([store EXCEPT !.taste = t])
    /\ UNCHANGED <<today, sources, backup, job, receipts>>

(***************************************************************************)
(* How a command moves.  Start and End keep every other command where it   *)
(* is; Go(p, j) makes j the memory of p.                                   *)
(***************************************************************************)
Go(p, j) == job' = [job EXCEPT ![p] = j]

Start(p, cmd, at, j) ==
    /\ job[p].at = "idle"
    /\ Alone => \A q \in Proc : job[q].at = "idle"
    /\ cmd \in Commands
    /\ store.rev < MaxRev
    /\ Go(p, [j EXCEPT !.cmd = cmd, !.at = at, !.now = today])

At(p, step) == job[p].at = step

Continue(p, at) == Go(p, [job[p] EXCEPT !.at = at])

End(p) == Go(p, IdleJob)

UnchangedButStore == UNCHANGED <<today, sources, backup, receipts>>
UnchangedButJob == UNCHANGED <<today, sources, store, backup, receipts>>

(***************************************************************************)
(* stacks refresh.                                                         *)
(***************************************************************************)
\* Read the configuration and the mtimes of the sources.
BeginRefresh(p) ==
    /\ \E cfg \in Configs, force \in BOOLEAN :
         Start(p, "refresh", "mode",
               [IdleJob EXCEPT !.cfg = cfg, !.force = force, !.seen = mtime])
    /\ UnchangedButJob

\* save_catalog_mode: sources no longer configured are dropped, and the row is
\* written, and the revision bumped, only when it changes.
CatalogMode(catalog, cfg) ==
    [catalog EXCEPT !.mode = IF cfg.egress THEN "public" ELSE "off",
                    !.ids = IF @ = "demo" THEN "none" ELSE @]

SaveCatalogMode(p) ==
    LET catalog == CatalogMode(store.catalog, job[p].cfg)
    IN  /\ At(p, "mode")
        /\ store' = IF catalog = store.catalog THEN store
                    ELSE Bumped([store EXCEPT !.catalog = catalog])
        /\ Continue(p, "decide")
        /\ UnchangedButStore

\* A pool is attempted again after its TTL, which is a day, or when the set of
\* sources it lists is not the configured one.
CatalogDue(j) ==
    /\ j.cfg.egress
    /\ \/ store.catalog.ids # "configured"
       \/ \A day \in store.catalog.attempted : day < j.now

\* The stored states stand when they came from the real sources, as they are.
Unchanged(j, due) ==
    /\ ~j.force /\ ~j.cfg.demo
    /\ store.populated
    /\ store.origin = "real"
    /\ store.mtimes = {j.seen}
    /\ ~due

\* Skip or ingest.  Whether some kosync answer is due is left open.  A refresh that
\* goes on has the catalog to fetch if that is due, or forced.
DecideRefresh(p) ==
    LET due == CatalogDue(job[p])
        fetch == job[p].cfg.egress /\ (job[p].force \/ due)
    IN  /\ At(p, "decide")
        /\ \/ Unchanged(job[p], due) /\ End(p)
           \/ Go(p, [job[p] EXCEPT !.at = "books", !.due = fetch, !.force = FALSE])
        /\ UnchangedButJob

IngestBooks(p) ==
    /\ At(p, "books")
    /\ Go(p, [job[p] EXCEPT !.at = "stats",
                            !.owned = IF job[p].cfg.demo THEN DemoBook ELSE calibre])
    /\ UnchangedButJob

\* unify: one state for each book of the catalogue, with its stat if a device
\* has one, and one for each stat that no book matches.
Unify(owned, stats) ==
    [b \in owned \cup DOMAIN stats |->
        [owned |-> b \in owned,
         stat |-> IF b \in DOMAIN stats THEN {[day |-> stats[b], log |-> 1]} ELSE {},
         progress |-> {}]]

DemoStats == [b \in DemoBook |-> 1]

IngestStats(p) ==
    /\ At(p, "stats")
    /\ Go(p, [job[p] EXCEPT
                !.at = "log",
                !.rows = Unify(job[p].owned, IF job[p].cfg.demo THEN DemoStats ELSE device)])
    /\ UnchangedButJob

\* load_daily_activity takes a snapshot of its own, after that of the stats.
IngestActivity(p) ==
    /\ At(p, "log")
    /\ Go(p, [job[p] EXCEPT !.at = "prune", !.days = IF job[p].cfg.demo THEN {1} ELSE log])
    /\ UnchangedButJob

\* Slip: what was ingested is pruned by the configured horizon alone.
PruneByHorizonOnly(p) ==
    LET plan == [DefaultPolicy EXCEPT !.horizon = job[p].cfg.horizon]
    IN  /\ At(p, "prune")
        /\ Go(p, [job[p] EXCEPT !.at = "retain",
                                !.plan = [store.policy EXCEPT !.horizon = plan.horizon],
                                !.rows = Prune(@, plan, job[p].now),
                                !.days = PruneActivity(@, plan, job[p].now)])
        /\ UnchangedButJob

\* The first half of _apply_retention: read the stored policy, put the
\* configured horizon in it, prune what was ingested.
PruneIngested(p) ==
    LET plan == [store.policy EXCEPT !.horizon = job[p].cfg.horizon]
    IN  /\ At(p, "prune")
        /\ Go(p, [job[p] EXCEPT !.at = "retain", !.plan = plan,
                                !.rows = Prune(@, plan, job[p].now),
                                !.days = PruneActivity(@, plan, job[p].now)])
        /\ UnchangedButJob

\* save_retention, for refresh (before its save) and forget (after it).
AfterRetain(j) ==
    CASE j.cmd = "refresh" -> "save"
      [] j.cmd = "forget" /\ j.counted -> "drop"
      [] OTHER -> "idle"

\* Slip: the retention record is put without a new view revision.
SaveRetentionSilently(p) ==
    LET j == job[p]
    IN  /\ At(p, "retain")
        /\ store' = [store EXCEPT !.policy = j.plan,
                                  !.earliest = EarliestRetained(j.plan, j.now),
                                  !.enforcedOn = {j.now}]
        /\ IF AfterRetain(j) = "idle" THEN End(p) ELSE Continue(p, AfterRetain(j))
        /\ receipts' = IF AfterRetain(j) = "idle" THEN receipts \cup j.target ELSE receipts
        /\ UNCHANGED <<today, sources, backup>>

SaveRetention(p) ==
    LET j == job[p]
    IN  /\ At(p, "retain")
        /\ store' = Bumped([store EXCEPT !.policy = j.plan,
                                         !.earliest = EarliestRetained(j.plan, j.now),
                                         !.enforcedOn = {j.now}])
        /\ IF AfterRetain(j) = "idle" THEN End(p) ELSE Continue(p, AfterRetain(j))
        /\ receipts' = IF AfterRetain(j) = "idle" THEN receipts \cup j.target ELSE receipts
        /\ UNCHANGED <<today, sources, backup>>

\* Slip: the mtimes are read when the states are saved, after the sources were.
SaveStatesWithLateMtimes(p) ==
    LET j == job[p]
    IN  /\ At(p, "save")
        /\ store' = Bumped([store EXCEPT !.populated = TRUE,
                                         !.states = j.rows,
                                         !.activity = j.days,
                                         !.mtimes = IF j.cfg.demo THEN {} ELSE {mtime},
                                         !.origin = IF j.cfg.demo THEN "demo" ELSE "real"])
        /\ Continue(p, "drop")
        /\ UnchangedButStore

SaveStates(p) ==
    LET j == job[p]
    IN  /\ At(p, "save")
        /\ store' = Bumped([store EXCEPT !.populated = TRUE,
                                         !.states = j.rows,
                                         !.activity = j.days,
                                         !.mtimes = IF j.cfg.demo THEN {} ELSE {j.seen},
                                         !.origin = IF j.cfg.demo THEN "demo" ELSE "real"])
        /\ Continue(p, "drop")
        /\ UnchangedButStore

\* The last step of a refresh: the demo pool, or a fetch that is due.
SaveCatalogPool(p) ==
    LET j == job[p]
        wanted == j.cfg.demo \/ j.due
        pool == [mode |-> IF j.cfg.demo THEN "off" ELSE "public",
                 ids |-> IF j.cfg.demo THEN "demo" ELSE "configured",
                 attempted |-> {j.now}]
    IN  /\ At(p, "pool")
        /\ store' = IF wanted THEN Bumped([store EXCEPT !.catalog = pool]) ELSE store
        /\ End(p)
        /\ UnchangedButStore

(***************************************************************************)
(* The search index.  DROP and CREATE are DDL, which the sqlite3 module    *)
(* commits at once; the rows and the meta row share one transaction, which *)
(* reads the revision it records.  A sqlite3.Error ends the rebuild, and   *)
(* only the rebuild.                                                       *)
(***************************************************************************)
\* What the index holds of a list of states: their titles, whether there is a
\* book behind each, and with both their order.
Searchable(rows) == [b \in DOMAIN rows |-> rows[b].owned]

AfterIndex(j) == IF j.cmd = "refresh" THEN "pool" ELSE "idle"

LeaveIndex(p) ==
    LET j == job[p]
    IN  /\ IF AfterIndex(j) = "idle" THEN End(p) ELSE Continue(p, AfterIndex(j))
        /\ receipts' = IF AfterIndex(j) = "idle" THEN receipts \cup j.target ELSE receipts
        /\ UNCHANGED <<today, sources, backup>>

DropIndex(p) ==
    /\ At(p, "drop")
    /\ store' = [store EXCEPT !.table = {}]
    /\ Continue(p, "create")
    /\ UnchangedButStore

\* Slip: the new table is recorded as built before it has any rows.
CreateIndexAsBuilt(p) ==
    /\ At(p, "create")
    /\ store.table = {}
    /\ store' = [store EXCEPT !.table = {<<>>}, !.built = {store.rev}]
    /\ Continue(p, "fill")
    /\ UnchangedButStore

CreateIndex(p) ==
    /\ At(p, "create")
    /\ store.table = {}
    /\ store' = [store EXCEPT !.table = {<<>>}]
    /\ Continue(p, "fill")
    /\ UnchangedButStore

\* Slip: the meta row is added to, not replaced.
FillIndexAddingMeta(p) ==
    LET entries == Searchable(job[p].rows)
    IN  /\ At(p, "fill")
        /\ entries # <<>> => store.table = {<<>>}
        /\ store' = [store EXCEPT !.table = IF entries = <<>> THEN @ ELSE {entries},
                                  !.built = @ \cup {store.rev}]
        /\ LeaveIndex(p)

\* Row positions are primary keys: where another command has filled or dropped
\* the table the insert fails, unless there is nothing to insert.
FillIndex(p) ==
    LET entries == Searchable(job[p].rows)
    IN  /\ At(p, "fill")
        /\ entries # <<>> => store.table = {<<>>}
        /\ store' = [store EXCEPT !.table = IF entries = <<>> THEN @ ELSE {entries},
                                  !.built = {store.rev}]
        /\ LeaveIndex(p)

\* A rebuild that is alone fails where a command may die; beside another command it
\* may fail anywhere, and must where it meets the other's table.
IndexFails(p) ==
    /\ job[p].at \in {"drop", "create", "fill"}
    /\ Alone => job[p].at \in MortalAt
    /\ UNCHANGED store
    /\ LeaveIndex(p)

(***************************************************************************)
(* stacks forget.                                                          *)
(***************************************************************************)
\* Read the stored policy and add what the reader names to it.
BeginForget(p) ==
    /\ \E book \in Optional(Book), line \in Optional(Day) :
         /\ <<book, line>> # <<{}, {}>>
         /\ Start(p, "forget", "probe",
                  [IdleJob EXCEPT
                     !.plan = WithForgottenBefore(WithForgottenBook(store.policy, book), line),
                     !.target = book])
    /\ UnchangedButJob

Counts(j) == CountsSomething(store.states, store.activity, j.plan, j.now)

\* Slip: the plan is applied without asking whether it matches anything.
ProbeUnmeasured(p) ==
    /\ At(p, "probe")
    /\ Continue(p, "reread")
    /\ UnchangedButJob

\* Measure against the live state: what matches nothing is not remembered.
ProbeForget(p) ==
    /\ At(p, "probe")
    /\ IF Counts(job[p]) THEN Continue(p, "reread") ELSE End(p)
    /\ UnchangedButJob

\* _apply_to_store loads the states again and prunes those.
RereadStates(p) ==
    LET j == job[p]
    IN  /\ At(p, "reread")
        /\ Go(p, [j EXCEPT !.at = IF Counts(j) THEN "keep" ELSE "retain",
                           !.counted = Counts(j),
                           !.rows = Prune(store.states, j.plan, j.now),
                           !.days = PruneActivity(store.activity, j.plan, j.now)])
        /\ UnchangedButJob

\* Slip: the survivors are saved under save's default origin.
SaveSurvivorsAsReal(p) ==
    LET j == job[p]
    IN  /\ At(p, "keep")
        /\ store' = Bumped([store EXCEPT !.populated = TRUE, !.states = j.rows,
                                         !.activity = j.days, !.origin = "real"])
        /\ Continue(p, "retain")
        /\ UnchangedButStore

\* save, with the mtimes and the origin the store shows at that moment.
SaveSurvivors(p) ==
    LET j == job[p]
    IN  /\ At(p, "keep")
        /\ store' = Bumped([store EXCEPT
                        !.populated = TRUE,
                        !.states = j.rows,
                        !.activity = j.days,
                        !.origin = IF @ = "unrecorded" THEN "real" ELSE @])
        /\ Continue(p, "retain")
        /\ UnchangedButStore

(***************************************************************************)
(* stacks backup and stacks restore: the whole file, its index included.   *)
(***************************************************************************)
BeginBackup(p) == Start(p, "backup", "copyOut", IdleJob) /\ UnchangedButJob

CopyOut(p) ==
    /\ At(p, "copyOut")
    /\ backup' = {store}
    /\ End(p)
    /\ UNCHANGED <<today, sources, store, receipts>>

BeginRestore(p) ==
    backup # {} /\ Start(p, "restore", "copyIn", IdleJob) /\ UnchangedButJob

CopyIn(p) ==
    /\ At(p, "copyIn")
    /\ store' \in backup
    /\ End(p)
    /\ UnchangedButStore

(***************************************************************************)
(* A command can die between two steps: what it held is gone, what it      *)
(* committed stays.                                                        *)
(***************************************************************************)
Die(p) ==
    /\ job[p].at \in MortalAt \ {"idle"}
    /\ End(p)
    /\ UnchangedButJob

RefreshStep(p) ==
    \/ SaveCatalogMode(p) \/ DecideRefresh(p) \/ IngestBooks(p) \/ IngestStats(p)
    \/ IngestActivity(p)
    \/ PruneIngested(p) \/ SaveStates(p) \/ SaveCatalogPool(p)

ForgetStep(p) == ProbeForget(p) \/ RereadStates(p) \/ SaveSurvivors(p)

IndexStep(p) == DropIndex(p) \/ CreateIndex(p) \/ FillIndex(p) \/ IndexFails(p)

Begin(p) == BeginRefresh(p) \/ BeginForget(p) \/ BeginBackup(p) \/ BeginRestore(p)

Work(p) ==
    \/ RefreshStep(p) \/ ForgetStep(p) \/ SaveRetention(p) \/ IndexStep(p)
    \/ CopyOut(p) \/ CopyIn(p)

World ==
    \/ Midnight
    \/ \E b \in RealBook : ReadOnDevice(b) \/ EditCalibre(b)
    \/ SaveTaste

Next == World \/ \E p \in Proc : Begin(p) \/ Work(p) \/ Die(p)

Spec == Init /\ [][Next]_vars

(***************************************************************************)
(* Properties.                                                             *)
(***************************************************************************)
Idle == \A p \in Proc : job[p].at = "idle"

\* search answers from the index only when its recorded revision is the
\* store's (index_status, search_index.py:315).
IndexUsable == store.built = {store.rev}

\* An index that is usable holds exactly the persisted states, in their order:
\* a search neither misses a book, nor names one that is gone, nor reads a
\* half-built table as an empty library (search_index.py:261).
IndexFaithful == IndexUsable => store.table = {Searchable(store.states)}

\* A book a forget has reported as forgotten is still named by the policy, and
\* no state of it as an owned book is stored (forget.py:21).
ForgottenStayGone ==
    \A b \in receipts :
        /\ b \in store.policy.forgotten
        /\ b \in DOMAIN store.states => ~store.states[b].owned

\* Between commands, when a refresh would find the sources unchanged, the store
\* differs from what ingesting them again would give by nothing but what its
\* own policy has come to remove since (refresh.py:516).
SkipIsSound ==
    Idle /\ store.populated /\ store.origin = "real" /\ store.mtimes = {mtime} =>
        /\ Prune(store.states, store.policy, today)
             = Prune(Unify(calibre, device), store.policy, today)
        /\ PruneActivity(store.activity, store.policy, today)
             = PruneActivity(log, store.policy, today)

\* States and the origin recorded for them are of the same world: demo books are
\* never stored as the reader's own, nor the reader's as the demo's (store.py:162).
OriginIsTruthful ==
    /\ store.origin = "real" => DOMAIN store.states \cap DemoBook = {}
    /\ store.origin = "demo" => DOMAIN store.states \subseteq DemoBook

\* Nothing takes back a forget: its book stays in the policy, its line stays or
\* moves forward (retention.py:83).
ForgetsAreRemembered ==
    [][/\ store.policy.forgotten \subseteq store'.policy.forgotten
       /\ \A d \in store.policy.before : \E e \in store'.policy.before : e >= d]_vars

(***************************************************************************)
(* The rows a page is rendered from, and the promise of ViewStore about    *)
(* them: whatever commands run side by side, none of those rows changes    *)
(* without taking the next revision, and no revision is used twice         *)
(* (store.py:198).                                                         *)
(***************************************************************************)
ViewInputs == [populated: BOOLEAN, states: Shelf, activity: SUBSET Day, origin: Origin,
               policy: Policy, earliest: SUBSET Int, catalog: Catalog, taste: BOOLEAN]

Rendered ==
    [populated |-> store.populated, states |-> store.states, activity |-> store.activity,
     origin |-> store.origin, policy |-> store.policy, earliest |-> store.earliest,
     catalog |-> store.catalog, taste |-> store.taste]

Promise == INSTANCE ViewStore WITH
    Content <- ViewInputs, content <- Rendered, rev <- store.rev

RevisionCoversView == Promise!Spec
(***************************************************************************)
(* The reading record as its two transactions leave it.  A refresh that    *)
(* has put the policy is about to save what it pruned, and a forget that   *)
(* has saved its survivors is about to put the policy: the record is taken *)
(* with that second write made.  Seen so, whatever a server thread writes  *)
(* in between, a command that lives through both transactions is one step  *)
(* of RecordStore (refresh.py:544, forget.py:100).                         *)
(***************************************************************************)
ToSave == {p \in Proc : job[p].at = "save"}
ToRetain == {p \in Proc : job[p].at = "retain" /\ job[p].cmd = "forget"}

WholeStates ==
    IF ToSave = {} THEN store.states ELSE job[CHOOSE p \in ToSave : TRUE].rows
WholeActivity ==
    IF ToSave = {} THEN store.activity ELSE job[CHOOSE p \in ToSave : TRUE].days
WholePolicy ==
    IF ToRetain = {} THEN store.policy ELSE job[CHOOSE p \in ToRetain : TRUE].plan
WholeEnforcedOn ==
    IF ToRetain = {} THEN store.enforcedOn ELSE {job[CHOOSE p \in ToRetain : TRUE].now}

Record == INSTANCE RecordStore WITH
    Horizons <- {cfg.horizon : cfg \in Configs},
    states <- WholeStates, activity <- WholeActivity,
    policy <- WholePolicy, enforcedOn <- WholeEnforcedOn

CommandsAreAtomic == Record!Spec

\* Between commands the stored record holds nothing the stored policy removes:
\* applying it again, as of the day it was applied, changes nothing.  Policy and
\* record are written apart, by two commands and by a restore (retention.py:195).
RecordObeysPolicy ==
    Idle => \A day \in store.enforcedOn :
                /\ Prune(store.states, store.policy, day) = store.states
                /\ PruneActivity(store.activity, store.policy, day) = store.activity
=============================================================================
