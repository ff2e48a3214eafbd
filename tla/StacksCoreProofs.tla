-------------------------- MODULE StacksCoreProofs --------------------------
(***************************************************************************)
(* What StacksCore promises, for any books, days, commands and bounds: its *)
(* types; that a search never answers from an index that does not match    *)
(* the stored states; that states and their origin are of one world; that  *)
(* a changed page takes the next revision (ViewStore); that what a forget  *)
(* has reported stays gone; and that a refresh may skip when it does.      *)
(***************************************************************************)
EXTENDS StacksCore, RetentionProofs

Config == [demo: BOOLEAN, horizon: Nat, egress: BOOLEAN]

(***************************************************************************)
(* The parts of a state.                                                   *)
(***************************************************************************)

\* No states are a shelf.
LEMMA EmptyShelf == <<>> \in Shelf
<1>1. DOMAIN <<>> = {} /\ <<>> = [b \in DOMAIN <<>> |-> <<>>[b]]
  OBVIOUS
<1> QED
  BY <1>1, ShelfIntro

\* unify makes a shelf of a catalogue and the stats of a device.
LEMMA UnifyType ==
    ASSUME NEW owned \in SUBSET Book, NEW stats, DOMAIN stats \subseteq Book,
           \A b \in DOMAIN stats : stats[b] \in Day
    PROVE  Unify(owned, stats) \in Shelf
<1> DEFINE row(b) == [owned |-> b \in owned,
                      stat |-> IF b \in DOMAIN stats THEN {[day |-> stats[b], log |-> 1]} ELSE {},
                      progress |-> {}]
<1>1. \A b \in owned \cup DOMAIN stats : row(b) \in Row
  <2> SUFFICES ASSUME NEW b \in owned \cup DOMAIN stats PROVE row(b) \in Row
    OBVIOUS
  <2>1. 1 \in 0..MaxLog
    BY BoundsAssumption, MaxLogAssumption
  <2>2. b \in DOMAIN stats => [day |-> stats[b], log |-> 1] \in Stat
    BY <2>1 DEF Stat, Stamp, Day
  <2>3. row(b).stat \in Optional(Stat)
    BY <2>2 DEF Optional
  <2> QED
    BY <2>3 DEF Row
<1> HIDE DEF row
<1>2. Unify(owned, stats) = [b \in owned \cup DOMAIN stats |-> row(b)]
  BY DEF Unify, row
<1>3. Unify(owned, stats) \in [owned \cup DOMAIN stats -> Row]
  BY <1>1, <1>2
<1>4. owned \cup DOMAIN stats \in SUBSET Book
  OBVIOUS
<1> QED
  BY <1>3, <1>4 DEF Shelf

\* What the index holds of a shelf is a set of titles.
LEMMA SearchableType ==
    ASSUME NEW rows \in Shelf
    PROVE  Searchable(rows) \in Titles
<1>1. DOMAIN rows \in SUBSET Book /\ \A b \in DOMAIN rows : rows[b].owned \in BOOLEAN
  BY ShelfElim DEF Row
<1>2. Searchable(rows) \in [DOMAIN rows -> BOOLEAN]
  BY <1>1 DEF Searchable
<1> QED
  BY <1>1, <1>2 DEF Titles

\* The recorded boundary is a cut-off, hence a day number.
LEMMA EarliestType ==
    ASSUME NEW policy \in Policy, NEW now \in Day
    PROVE  EarliestRetained(policy, now) \in SUBSET Int
BY DEF EarliestRetained, Cutoffs, Policy, Optional, Day

\* An idle process holds nothing.
LEMMA IdleJobType == IdleJob \in Job
<1>1. 1 \in Day /\ DefaultPolicy \in Policy /\ 0 \in Nat
  BY MaxDayAssumption DEF Day, DefaultPolicy, Policy, Optional
<1> QED
  BY <1>1, EmptyShelf DEF IdleJob, Job, Steps

\* A command's memory is replaced as a whole.
LEMMA GoType ==
    ASSUME TypeOK, NEW p \in Proc, NEW j \in Job, Go(p, j)
    PROVE  job' \in [Proc -> Job]
BY DEF TypeOK, Go

\* A command goes on to a step.
LEMMA ContinueType ==
    ASSUME TypeOK, NEW p \in Proc, NEW at \in Steps, Continue(p, at)
    PROVE  job' \in [Proc -> Job]
<1>1. [job[p] EXCEPT !.at = at] \in Job
  BY DEF TypeOK, Job
<1> QED
  BY <1>1, GoType DEF Continue

\* A command ends, or dies.
LEMMA EndType ==
    ASSUME TypeOK, NEW p \in Proc, End(p)
    PROVE  job' \in [Proc -> Job]
BY IdleJobType, GoType DEF End

\* A command starts.
LEMMA StartType ==
    ASSUME TypeOK, NEW p \in Proc, NEW cmd, NEW at \in Steps, NEW j \in Job,
           Start(p, cmd, at, j)
    PROVE  job' \in [Proc -> Job]
<1>1. today \in Day /\ cmd \in {"refresh", "forget", "backup", "restore"}
  BY CommandsAssumption DEF TypeOK, Start
<1>2. [j EXCEPT !.cmd = cmd, !.at = at, !.now = today] \in Job
  BY <1>1 DEF Job
<1> QED
  BY <1>2, GoType DEF Start

\* A store with a new revision is a store.
LEMMA BumpedType ==
    ASSUME NEW s \in Store
    PROVE  /\ Bumped(s) \in Store
           /\ Bumped(s).rev = s.rev + 1 /\ Bumped(s).built = s.built
           /\ Bumped(s).table = s.table /\ Bumped(s).states = s.states
BY DEF Bumped, Store

\* A step of a command that leaves the world and the backups alone is well typed
\* when what it writes is.
LEMMA Framed ==
    ASSUME TypeOK, UNCHANGED <<today, sources, backup>>,
           store' \in Store, job' \in [Proc -> Job], receipts' \subseteq Book
    PROVE  TypeOK'
BY DEF TypeOK, sources

(***************************************************************************)
(* Types: one lemma for each group of actions.                             *)
(***************************************************************************)

\* Time, the sources and the taste form.
LEMMA WorldType == TypeOK /\ World => TypeOK'
<1> SUFFICES ASSUME TypeOK, World PROVE TypeOK'
  OBVIOUS
<1>1. CASE Midnight
  BY <1>1, MaxDayAssumption DEF Midnight, TypeOK, sources, Day
<1>2. ASSUME NEW b \in RealBook, ReadOnDevice(b) PROVE TypeOK'
  <2>1. PICK D \in SUBSET RealBook : device \in [D -> Day]
    BY DEF TypeOK
  <2>2. device' \in [D \cup {b} -> Day]
    BY <1>2, <2>1 DEF ReadOnDevice, TypeOK
  <2>3. device' \in UNION {[E -> Day] : E \in SUBSET RealBook}
    BY <2>2
  <2>4. mtime' \in Nat
    BY <1>2 DEF ReadOnDevice, Touch, TypeOK
  <2>5. log' \subseteq Day
    BY <1>2 DEF ReadOnDevice, TypeOK
  <2> QED
    BY <1>2, <2>3, <2>4, <2>5 DEF ReadOnDevice, TypeOK
<1>3. ASSUME NEW b \in RealBook, EditCalibre(b) PROVE TypeOK'
  <2>1. mtime' \in Nat
    BY <1>3 DEF EditCalibre, Touch, TypeOK
  <2> QED
    BY <1>3, <2>1 DEF EditCalibre, TypeOK
<1>4. CASE SaveTaste
  <2>1. PICK t \in BOOLEAN : store' = Bumped([store EXCEPT !.taste = t])
    BY <1>4 DEF SaveTaste
  <2>2. [store EXCEPT !.taste = t] \in Store
    BY DEF TypeOK, Store
  <2>3. store' \in Store
    BY <2>1, <2>2, BumpedType
  <2> QED
    BY <1>4, <2>3 DEF SaveTaste, TypeOK, sources
<1> QED
  BY <1>1, <1>2, <1>3, <1>4 DEF World

\* A command starts.
LEMMA BeginType == \A p \in Proc : TypeOK /\ Begin(p) => TypeOK'
<1> SUFFICES ASSUME NEW p \in Proc, TypeOK, Begin(p) PROVE TypeOK'
  OBVIOUS
<1>1. CASE BeginRefresh(p)
  <2>1. PICK cfg \in Configs, force \in BOOLEAN :
          Start(p, "refresh", "mode",
                [IdleJob EXCEPT !.cfg = cfg, !.force = force, !.seen = mtime])
    BY <1>1 DEF BeginRefresh
  <2>2. [IdleJob EXCEPT !.cfg = cfg, !.force = force, !.seen = mtime] \in Job
    BY IdleJobType, ConfigsAssumption DEF Job, TypeOK
  <2>3. job' \in [Proc -> Job]
    BY <2>1, <2>2, StartType DEF Steps
  <2> QED
    BY <1>1, <2>3, Framed DEF BeginRefresh, UnchangedButJob, TypeOK
<1>2. CASE BeginForget(p)
  <2>1. PICK book \in Optional(Book), line \in Optional(Day) :
          Start(p, "forget", "probe",
                [IdleJob EXCEPT
                   !.plan = WithForgottenBefore(WithForgottenBook(store.policy, book), line),
                   !.target = book])
    BY <1>2 DEF BeginForget
  <2>2. store.policy \in Policy /\ book \subseteq Book
    BY DEF TypeOK, Store, Optional
  <2>3. WithForgottenBefore(WithForgottenBook(store.policy, book), line) \in Policy
    BY <2>2, ForgetRemembers
  <2>4. [IdleJob EXCEPT
           !.plan = WithForgottenBefore(WithForgottenBook(store.policy, book), line),
           !.target = book] \in Job
    BY <2>2, <2>3, IdleJobType DEF Job
  <2>5. job' \in [Proc -> Job]
    BY <2>1, <2>4, StartType DEF Steps
  <2> QED
    BY <1>2, <2>5, Framed DEF BeginForget, UnchangedButJob, TypeOK
<1>3. CASE BeginBackup(p)
  BY <1>3, IdleJobType, StartType, Framed DEF BeginBackup, UnchangedButJob, TypeOK, Steps
<1>4. CASE BeginRestore(p)
  BY <1>4, IdleJobType, StartType, Framed DEF BeginRestore, UnchangedButJob, TypeOK, Steps
<1> QED
  BY <1>1, <1>2, <1>3, <1>4 DEF Begin

\* A command dies.
LEMMA DieType == \A p \in Proc : TypeOK /\ Die(p) => TypeOK'
BY EndType, Framed DEF Die, UnchangedButJob, TypeOK

\* The steps of a refresh.
LEMMA RefreshStepType == \A p \in Proc : TypeOK /\ RefreshStep(p) => TypeOK'
<1> SUFFICES ASSUME NEW p \in Proc, TypeOK, RefreshStep(p) PROVE TypeOK'
  OBVIOUS
<1>a. job[p] \in Job /\ store \in Store
  BY DEF TypeOK
<1>1. CASE SaveCatalogMode(p)
  <2> DEFINE catalog == CatalogMode(store.catalog, job[p].cfg)
  <2>1. catalog \in Catalog
    BY <1>a DEF Store, Catalog, CatalogMode
  <2>2. [store EXCEPT !.catalog = catalog] \in Store
    BY <1>a, <2>1 DEF Store
  <2>3. Bumped([store EXCEPT !.catalog = catalog]) \in Store
    BY <2>2, BumpedType
  <2>4. store' \in Store
    BY <1>1, <1>a, <2>3 DEF SaveCatalogMode
  <2>5. job' \in [Proc -> Job]
    BY <1>1, ContinueType DEF SaveCatalogMode, Steps
  <2> QED
    BY <1>1, <2>4, <2>5, Framed DEF SaveCatalogMode, UnchangedButStore, TypeOK
<1>2. CASE DecideRefresh(p)
  <2> DEFINE fetch == job[p].cfg.egress /\ (job[p].force \/ CatalogDue(job[p]))
  <2>1. fetch \in BOOLEAN
    OBVIOUS
  <2> HIDE DEF fetch
  <2>2. [job[p] EXCEPT !.at = "books", !.due = fetch, !.force = FALSE] \in Job
    BY <1>a, <2>1 DEF Job, Steps
  <2>3. job' \in [Proc -> Job]
    BY <1>2, <2>2, EndType, GoType DEF DecideRefresh, fetch
  <2> QED
    BY <1>2, <2>3, Framed DEF DecideRefresh, UnchangedButJob, TypeOK
<1>3. CASE IngestBooks(p)
  <2>1. (IF job[p].cfg.demo THEN DemoBook ELSE calibre) \in SUBSET Book
    BY DemoBookAssumption DEF TypeOK, RealBook
  <2>2. [job[p] EXCEPT !.at = "stats",
                       !.owned = IF job[p].cfg.demo THEN DemoBook ELSE calibre] \in Job
    BY <1>a, <2>1 DEF Job, Steps
  <2>3. job' \in [Proc -> Job]
    BY <1>3, <2>2, GoType DEF IngestBooks
  <2> QED
    BY <1>3, <2>3, Framed DEF IngestBooks, UnchangedButJob, TypeOK
<1>4. CASE IngestStats(p)
  <2> DEFINE stats == IF job[p].cfg.demo THEN DemoStats ELSE device
             rows == Unify(job[p].owned, stats)
  <2>1. 1 \in Day
    BY MaxDayAssumption DEF Day
  <2>2. DOMAIN stats \subseteq Book /\ \A b \in DOMAIN stats : stats[b] \in Day
    BY <2>1, DemoBookAssumption DEF TypeOK, DemoStats, RealBook
  <2>3. job[p].owned \in SUBSET Book
    BY <1>a DEF Job
  <2>4. rows \in Shelf
    <3> HIDE DEF stats
    <3> QED
      BY <2>2, <2>3, UnifyType
  <2> HIDE DEF rows
  <2>5. [job[p] EXCEPT !.at = "log", !.rows = rows] \in Job
    BY <1>a, <2>4 DEF Job, Steps
  <2>6. job' \in [Proc -> Job]
    BY <1>4, <2>5, GoType DEF IngestStats, rows
  <2> QED
    BY <1>4, <2>6, Framed DEF IngestStats, UnchangedButJob, TypeOK
<1>5. CASE PruneIngested(p)
  <2> DEFINE plan == [store.policy EXCEPT !.horizon = job[p].cfg.horizon]
             rows == Prune(job[p].rows, plan, job[p].now)
             days == PruneActivity(job[p].days, plan, job[p].now)
  <2>1. plan \in Policy
    BY <1>a DEF Store, Policy, Job
  <2>2. rows \in Shelf /\ days \in SUBSET Day
    BY <1>a, PruneType, PruneActivityType DEF Job
  <2> HIDE DEF plan, rows, days
  <2>3. [job[p] EXCEPT !.at = "retain", !.plan = plan, !.rows = rows, !.days = days] \in Job
    BY <1>a, <2>1, <2>2 DEF Job, Steps
  <2>4. job' \in [Proc -> Job]
    BY <1>5, <2>3, GoType DEF PruneIngested, plan, rows, days
  <2> QED
    BY <1>5, <2>4, Framed DEF PruneIngested, UnchangedButJob, TypeOK
<1>6. CASE SaveStates(p)
  <2> DEFINE j == job[p]
             saved == [store EXCEPT !.populated = TRUE,
                                    !.states = j.rows,
                                    !.activity = j.days,
                                    !.mtimes = IF j.cfg.demo THEN {} ELSE {j.seen},
                                    !.origin = IF j.cfg.demo THEN "demo" ELSE "real"]
  <2>1. j.rows \in Shelf /\ j.days \in SUBSET Day
        /\ (IF j.cfg.demo THEN {} ELSE {j.seen}) \in Optional(Nat)
        /\ (IF j.cfg.demo THEN "demo" ELSE "real") \in Origin
    BY <1>a DEF Job, Optional, Origin
  <2>2. saved \in Store
    BY <1>a, <2>1 DEF Store
  <2>3. store' \in Store
    BY <1>6, <2>2, BumpedType DEF SaveStates
  <2>4. job' \in [Proc -> Job]
    BY <1>6, ContinueType DEF SaveStates, Steps
  <2> QED
    BY <1>6, <2>3, <2>4, Framed DEF SaveStates, UnchangedButStore, TypeOK
<1>7. CASE SaveCatalogPool(p)
  <2> DEFINE pool == [mode |-> IF job[p].cfg.demo THEN "off" ELSE "public",
                      ids |-> IF job[p].cfg.demo THEN "demo" ELSE "configured",
                      attempted |-> {job[p].now}]
  <2>1. pool \in Catalog
    BY <1>a DEF Catalog, Job, Optional
  <2> HIDE DEF pool
  <2>2. [store EXCEPT !.catalog = pool] \in Store
    BY <1>a, <2>1 DEF Store
  <2>3. Bumped([store EXCEPT !.catalog = pool]) \in Store
    BY <2>2, BumpedType
  <2>4. store' = Bumped([store EXCEPT !.catalog = pool]) \/ store' = store
    BY <1>7 DEF SaveCatalogPool, pool
  <2>5. job' \in [Proc -> Job]
    BY <1>7, EndType DEF SaveCatalogPool
  <2> QED
    BY <1>7, <1>a, <2>3, <2>4, <2>5, Framed DEF SaveCatalogPool, UnchangedButStore, TypeOK
<1>8. CASE IngestActivity(p)
  <2> DEFINE days == IF job[p].cfg.demo THEN {1} ELSE log
  <2>1. days \in SUBSET Day
    BY MaxDayAssumption DEF Day, TypeOK
  <2> HIDE DEF days
  <2>2. [job[p] EXCEPT !.at = "prune", !.days = days] \in Job
    BY <1>a, <2>1 DEF Job, Steps
  <2>3. job' \in [Proc -> Job]
    BY <1>8, <2>2, GoType DEF IngestActivity, days
  <2> QED
    BY <1>8, <2>3, Framed DEF IngestActivity, UnchangedButJob, TypeOK
<1> QED
  BY <1>1, <1>2, <1>3, <1>4, <1>5, <1>6, <1>7, <1>8 DEF RefreshStep

\* The steps of a forget, and the retention record both commands put.
LEMMA ForgetStepType ==
    \A p \in Proc : TypeOK /\ (ForgetStep(p) \/ SaveRetention(p)) => TypeOK'
<1> SUFFICES ASSUME NEW p \in Proc, TypeOK, ForgetStep(p) \/ SaveRetention(p) PROVE TypeOK'
  OBVIOUS
<1>a. job[p] \in Job /\ store \in Store
  BY DEF TypeOK
<1>1. CASE ProbeForget(p)
  <2>1. job' \in [Proc -> Job]
    BY <1>1, ContinueType, EndType DEF ProbeForget, Steps
  <2> QED
    BY <1>1, <2>1, Framed DEF ProbeForget, UnchangedButJob, TypeOK
<1>2. CASE RereadStates(p)
  <2> DEFINE j == job[p]
             rows == Prune(store.states, j.plan, j.now)
             days == PruneActivity(store.activity, j.plan, j.now)
  <2>1. rows \in Shelf /\ days \in SUBSET Day
    BY <1>a, PruneType, PruneActivityType DEF Store
  <2>2. Counts(j) \in BOOLEAN
    BY DEF Counts, CountsSomething
  <2> HIDE DEF rows, days
  <2>3. [job[p] EXCEPT !.at = IF Counts(job[p]) THEN "keep" ELSE "retain",
                       !.counted = Counts(job[p]), !.rows = rows, !.days = days] \in Job
    BY <1>a, <2>1, <2>2 DEF Job, Steps
  <2>4. job' \in [Proc -> Job]
    BY <1>2, <2>3, GoType DEF RereadStates, rows, days
  <2> QED
    BY <1>2, <2>4, Framed DEF RereadStates, UnchangedButJob, TypeOK
<1>3. CASE SaveSurvivors(p)
  <2> DEFINE origin == IF store.origin = "unrecorded" THEN "real" ELSE store.origin
  <2>1. job[p].rows \in Shelf /\ job[p].days \in SUBSET Day /\ origin \in Origin
    BY <1>a DEF Job, Store, Origin
  <2> HIDE DEF origin
  <2>2. [store EXCEPT !.populated = TRUE, !.states = job[p].rows,
                      !.activity = job[p].days, !.origin = origin] \in Store
    BY <1>a, <2>1 DEF Store
  <2>3. store' = Bumped([store EXCEPT !.populated = TRUE, !.states = job[p].rows,
                                      !.activity = job[p].days, !.origin = origin])
    BY <1>3, <1>a DEF SaveSurvivors, Store, origin
  <2>4. store' \in Store
    BY <2>2, <2>3, BumpedType
  <2>5. job' \in [Proc -> Job]
    BY <1>3, ContinueType DEF SaveSurvivors, Steps
  <2> QED
    BY <1>3, <2>4, <2>5, Framed DEF SaveSurvivors, UnchangedButStore, TypeOK
<1>4. CASE SaveRetention(p)
  <2> DEFINE j == job[p]
  <2>1. j.plan \in Policy /\ j.now \in Day /\ {j.now} \in Optional(Day)
        /\ j.target \subseteq Book
    BY <1>a DEF Job, Optional
  <2>2. EarliestRetained(j.plan, j.now) \in SUBSET Int
    BY <2>1, EarliestType
  <2>3. [store EXCEPT !.policy = j.plan, !.earliest = EarliestRetained(j.plan, j.now),
                      !.enforcedOn = {j.now}] \in Store
    BY <1>a, <2>1, <2>2 DEF Store
  <2>4. store' \in Store
    BY <1>4, <2>3, BumpedType DEF SaveRetention
  <2>5. AfterRetain(j) \in Steps
    BY DEF AfterRetain, Steps
  <2>6. job' \in [Proc -> Job]
    BY <1>4, <2>5, ContinueType, EndType DEF SaveRetention
  <2>7. receipts' \subseteq Book
    BY <1>4, <2>1 DEF SaveRetention, TypeOK
  <2> QED
    BY <1>4, <2>4, <2>6, <2>7, Framed DEF SaveRetention
<1> QED
  BY <1>1, <1>2, <1>3, <1>4 DEF ForgetStep

\* The index.
LEMMA IndexStepType == \A p \in Proc : TypeOK /\ IndexStep(p) => TypeOK'
<1> SUFFICES ASSUME NEW p \in Proc, TypeOK, IndexStep(p) PROVE TypeOK'
  OBVIOUS
<1>a. job[p] \in Job /\ store \in Store
  BY DEF TypeOK
<1>b. ASSUME LeaveIndex(p) PROVE job' \in [Proc -> Job] /\ receipts' \subseteq Book
  <2>1. AfterIndex(job[p]) \in Steps
    BY DEF AfterIndex, Steps
  <2>2. job' \in [Proc -> Job]
    BY <1>b, <2>1, ContinueType, EndType DEF LeaveIndex
  <2>3. receipts' \subseteq Book
    BY <1>a, <1>b DEF LeaveIndex, TypeOK, Job
  <2> QED
    BY <2>2, <2>3
<1>1. CASE DropIndex(p)
  <2>1. store' \in Store
    BY <1>1, <1>a DEF DropIndex, Store
  <2>2. job' \in [Proc -> Job]
    BY <1>1, ContinueType DEF DropIndex, Steps
  <2> QED
    BY <1>1, <2>1, <2>2, Framed DEF DropIndex, UnchangedButStore, TypeOK
<1>2. CASE CreateIndex(p)
  <2>1. <<>> \in Titles
    <3>1. <<>> \in [{} -> BOOLEAN] /\ {} \in SUBSET Book
      OBVIOUS
    <3> QED
      BY <3>1 DEF Titles
  <2>2. store' \in Store
    BY <1>2, <1>a, <2>1 DEF CreateIndex, Store
  <2>3. job' \in [Proc -> Job]
    BY <1>2, ContinueType DEF CreateIndex, Steps
  <2> QED
    BY <1>2, <2>2, <2>3, Framed DEF CreateIndex, UnchangedButStore, TypeOK
<1>3. CASE FillIndex(p)
  <2> DEFINE entries == Searchable(job[p].rows)
             table == IF entries = <<>> THEN store.table ELSE {entries}
  <2>1. entries \in Titles
    BY <1>a, SearchableType DEF Job
  <2>2. table \in SUBSET Titles /\ {store.rev} \in Optional(Nat)
    BY <1>a, <2>1 DEF Store, Optional
  <2> HIDE DEF entries, table
  <2>3. [store EXCEPT !.table = table, !.built = {store.rev}] \in Store
    BY <1>a, <2>2 DEF Store
  <2>4. store' = [store EXCEPT !.table = table, !.built = {store.rev}]
    BY <1>3, <1>a DEF FillIndex, Store, entries, table
  <2> QED
    BY <1>3, <1>b, <2>3, <2>4, Framed DEF FillIndex, LeaveIndex
<1>4. CASE IndexFails(p)
  BY <1>4, <1>a, <1>b, Framed DEF IndexFails, LeaveIndex
<1> QED
  BY <1>1, <1>2, <1>3, <1>4 DEF IndexStep

\* Backups.
LEMMA CopyType == \A p \in Proc : TypeOK /\ (CopyOut(p) \/ CopyIn(p)) => TypeOK'
<1> SUFFICES ASSUME NEW p \in Proc, TypeOK, CopyOut(p) \/ CopyIn(p) PROVE TypeOK'
  OBVIOUS
<1>1. CASE CopyOut(p)
  <2>1. job' \in [Proc -> Job]
    BY <1>1, EndType DEF CopyOut
  <2> QED
    BY <1>1, <2>1 DEF CopyOut, TypeOK, sources
<1>2. CASE CopyIn(p)
  <2>1. job' \in [Proc -> Job] /\ store' \in Store
    BY <1>2, EndType DEF CopyIn, TypeOK
  <2> QED
    BY <1>2, <2>1, Framed DEF CopyIn, UnchangedButStore, TypeOK
<1> QED
  BY <1>1, <1>2

\* A step of the program keeps the types.
LEMMA NextType == TypeOK /\ [Next]_vars => TypeOK'
<1>1. TypeOK /\ UNCHANGED vars => TypeOK'
  BY DEF vars, TypeOK
<1>2. \A p \in Proc : TypeOK /\ Work(p) => TypeOK'
  BY RefreshStepType, ForgetStepType, IndexStepType, CopyType DEF Work
<1> QED
  BY <1>1, <1>2, WorldType, BeginType, DieType DEF Next

\* And the program starts with them.
LEMMA InitType == Init => TypeOK
<1> SUFFICES ASSUME Init PROVE TypeOK
  OBVIOUS
<1>1. 1 \in Day /\ device \in [{} -> Day]
  BY MaxDayAssumption DEF Init, Day
<1>2. DefaultPolicy \in Policy
  BY DEF DefaultPolicy, Policy, Optional
<1>3. EmptyStore \in Store
  BY <1>2, EmptyShelf DEF EmptyStore, Store, Catalog, Optional, Origin
<1> QED
  BY <1>1, <1>3, IdleJobType DEF Init, TypeOK

\* Types are kept whatever commands run side by side.
THEOREM TypeCorrect == Spec => []TypeOK
BY InitType, NextType, PTL DEF Spec

(***************************************************************************)
(* The search index, with one command at a time.                           *)
(*                                                                         *)
(* IndexFaithful is not inductive: a restore may bring back any file, and  *)
(* filling the table makes it usable.  FaithfulFile says of a file, the    *)
(* live one or a backup, that it never claims a revision it has not        *)
(* reached and holds its own states' index if it claims the present one;   *)
(* Rebuilding says what the command that is about to fill the table knows. *)
(***************************************************************************)
FaithfulFile(s) ==
    /\ \A r \in s.built : r <= s.rev
    /\ s.built = {s.rev} => s.table = {Searchable(s.states)}

\* It holds the states the store holds, and the index claims no revision yet.
Rebuilding(p) ==
    /\ \/ job[p].at \in {"drop", "create", "fill"}
       \/ job[p].at = "retain" /\ AfterRetain(job[p]) = "drop"
       => job[p].rows = store.states
    /\ job[p].at \in {"drop", "create", "fill"} => store.rev \notin store.built
    /\ job[p].at = "fill" => store.table = {<<>>}
    /\ job[p].at \in {"mode", "decide", "books", "stats", "log", "prune"} => job[p].cmd = "refresh"

OneAtATime ==
    \A p, q \in Proc : job[p].at # "idle" /\ job[q].at # "idle" => p = q

IndexInv ==
    /\ OneAtATime
    /\ FaithfulFile(store)
    /\ \A s \in backup : FaithfulFile(s)
    /\ \A p \in Proc : Rebuilding(p)

\* A write that takes the next revision leaves the index unusable.
LEMMA BumpUnusable ==
    ASSUME NEW s \in Store, NEW t \in Store, FaithfulFile(s),
           t.built = s.built, t.rev = s.rev + 1
    PROVE  FaithfulFile(t) /\ t.rev \notin t.built
<1>1. s.rev \in Nat /\ t.rev \in Nat /\ s.built \subseteq Nat
  BY DEF Store, Optional
<1>2. \A r \in t.built : r <= s.rev
  BY DEF FaithfulFile
<1>3. t.rev \notin t.built
  BY <1>1, <1>2
<1>4. t.built # {t.rev}
  BY <1>3
<1>5. \A r \in t.built : r <= t.rev
  BY <1>1, <1>2
<1> QED
  BY <1>3, <1>4, <1>5 DEF FaithfulFile

\* A command that works or dies has started, and moves nobody else.
LEMMA OwnStep ==
    ASSUME NEW p \in Proc, Work(p) \/ Die(p)
    PROVE  job[p].at # "idle" /\ \E j : Go(p, j)
<1>1. ASSUME NEW at, Continue(p, at) PROVE \E j : Go(p, j)
  BY <1>1 DEF Continue
<1>2. ASSUME End(p) PROVE \E j : Go(p, j)
  BY <1>2 DEF End
<1>3. CASE RefreshStep(p)
  BY <1>1, <1>2, <1>3
  DEF RefreshStep, At, SaveCatalogMode, DecideRefresh, IngestBooks, IngestStats,
      IngestActivity, PruneIngested, SaveStates, SaveCatalogPool
<1>4. CASE ForgetStep(p)
  BY <1>1, <1>2, <1>4 DEF ForgetStep, At, ProbeForget, RereadStates, SaveSurvivors
<1>5. CASE SaveRetention(p)
  BY <1>1, <1>2, <1>5 DEF At, SaveRetention
<1>6. CASE IndexStep(p)
  BY <1>1, <1>2, <1>6
  DEF IndexStep, At, DropIndex, CreateIndex, FillIndex, IndexFails, LeaveIndex
<1>7. CASE CopyOut(p) \/ CopyIn(p) \/ Die(p)
  BY <1>2, <1>7 DEF At, CopyOut, CopyIn, Die
<1> QED
  BY <1>3, <1>4, <1>5, <1>6, <1>7 DEF Work

\* Where a command starts only when no other runs, one runs at a time.
LEMMA StaysAlone ==
    ASSUME Alone, TypeOK, OneAtATime, [Next]_vars
    PROVE  OneAtATime'
<1>1. CASE World \/ UNCHANGED vars
  <2>1. UNCHANGED job
    BY <1>1 DEF World, Midnight, ReadOnDevice, EditCalibre, SaveTaste, vars
  <2> QED
    BY <2>1 DEF OneAtATime
<1>2. ASSUME NEW p \in Proc, Begin(p) \/ Work(p) \/ Die(p) PROVE OneAtATime'
  <2>1. (\E j : Go(p, j)) /\ \A q \in Proc \ {p} : job[q].at = "idle"
    <3>1. CASE Begin(p)
      BY <3>1 DEF Begin, BeginRefresh, BeginForget, BeginBackup, BeginRestore, Start
    <3>2. CASE Work(p) \/ Die(p)
      BY <3>2, OwnStep DEF OneAtATime
    <3> QED
      BY <1>2, <3>1, <3>2
  <2>2. \A q \in Proc \ {p} : job'[q] = job[q]
    BY <2>1 DEF Go, TypeOK
  <2> QED
    BY <2>1, <2>2 DEF OneAtATime
<1> QED
  BY <1>1, <1>2 DEF Next

\* While a command moves, every other one is idle.
LEMMA OthersIdle ==
    ASSUME TypeOK, OneAtATime, OneAtATime', NEW p \in Proc, NEW j, Go(p, j),
           job[p].at # "idle" \/ j.at # "idle"
    PROVE  \A q \in Proc \ {p} : job'[q].at = "idle" /\ Rebuilding(q)'
<1> SUFFICES ASSUME NEW q \in Proc \ {p} PROVE job'[q].at = "idle" /\ Rebuilding(q)'
  OBVIOUS
<1>1. job'[q] = job[q] /\ job'[p] = j
  BY DEF TypeOK, Go
<1>2. job'[q].at = "idle"
  BY <1>1 DEF OneAtATime
<1> QED
  BY <1>2 DEF Rebuilding

\* What is left to show of a command's step: the file it leaves, and itself.
LEMMA Settled ==
    ASSUME TypeOK, IndexInv, OneAtATime', NEW p \in Proc, NEW j, Go(p, j),
           job[p].at # "idle" \/ j.at # "idle",
           FaithfulFile(store'), \A s \in backup' : FaithfulFile(s), Rebuilding(p)'
    PROVE  IndexInv'
BY OthersIdle DEF IndexInv

\* A command that leaves the file alone, or only takes a revision, and is not
\* about to rebuild the index.
LEMMA Passed ==
    ASSUME TypeOK, TypeOK', IndexInv, OneAtATime', NEW p \in Proc, NEW j, Go(p, j),
           job[p].at # "idle" \/ j.at # "idle", backup' = backup,
           store' = store \/ (store'.built = store.built /\ store'.rev = store.rev + 1),
           j.at \notin {"drop", "create", "fill"},
           j.at = "retain" => AfterRetain(j) # "drop",
           j.at \in {"mode", "decide", "books", "stats", "log", "prune"} => j.cmd = "refresh"
    PROVE  IndexInv'
<1>1. job'[p] = j
  BY DEF TypeOK, Go
<1>2. Rebuilding(p)'
  BY <1>1 DEF Rebuilding
<1>3. FaithfulFile(store')
  BY BumpUnusable DEF IndexInv, TypeOK
<1> QED
  BY <1>2, <1>3, Settled DEF IndexInv

\* The world: only the taste form writes the file, and it takes a revision.
LEMMA WorldIndex == TypeOK /\ TypeOK' /\ IndexInv /\ World => IndexInv'
<1> SUFFICES ASSUME TypeOK, TypeOK', IndexInv, World PROVE IndexInv'
  OBVIOUS
<1>1. CASE UNCHANGED <<store, backup, job>>
  BY <1>1 DEF IndexInv, OneAtATime, Rebuilding, FaithfulFile
<1>2. CASE SaveTaste
  <2>1. PICK t \in BOOLEAN : store' = Bumped([store EXCEPT !.taste = t])
    BY <1>2 DEF SaveTaste
  <2>2. [store EXCEPT !.taste = t] \in Store
        /\ [store EXCEPT !.taste = t].rev = store.rev
        /\ [store EXCEPT !.taste = t].built = store.built
        /\ [store EXCEPT !.taste = t].table = store.table
        /\ [store EXCEPT !.taste = t].states = store.states
    BY DEF TypeOK, Store
  <2>3. store'.built = store.built /\ store'.rev = store.rev + 1
        /\ store'.table = store.table /\ store'.states = store.states
    BY <2>1, <2>2, BumpedType
  <2>4. FaithfulFile(store') /\ store'.rev \notin store'.built
    BY <2>3, BumpUnusable DEF TypeOK, IndexInv
  <2> QED
    BY <1>2, <2>3, <2>4 DEF IndexInv, OneAtATime, Rebuilding, SaveTaste, TypeOK
<1> QED
  BY <1>1, <1>2 DEF World, Midnight, ReadOnDevice, EditCalibre

\* Commands start and die without writing the file.
LEMMA BeginIndex ==
    \A p \in Proc : TypeOK /\ TypeOK' /\ IndexInv /\ OneAtATime' /\ (Begin(p) \/ Die(p))
                    => IndexInv'
<1> SUFFICES ASSUME NEW p \in Proc, TypeOK, TypeOK', IndexInv, OneAtATime', Begin(p) \/ Die(p)
             PROVE  IndexInv'
  OBVIOUS
<1>1. ASSUME NEW cmd, NEW at, NEW j \in Job, Start(p, cmd, at, j), UnchangedButJob,
             at \in {"mode", "probe", "copyOut", "copyIn"}, at = "mode" => cmd = "refresh"
      PROVE  IndexInv'
  <2> DEFINE k == [j EXCEPT !.cmd = cmd, !.at = at, !.now = today]
  <2>1. Go(p, k) /\ k.at = at /\ k.cmd = cmd
    BY <1>1 DEF Start, Job
  <2> HIDE DEF k
  <2> QED
    BY <1>1, <2>1, Passed DEF UnchangedButJob
<1>2. CASE BeginRefresh(p)
  <2>1. PICK cfg \in Configs, force \in BOOLEAN :
          Start(p, "refresh", "mode",
                [IdleJob EXCEPT !.cfg = cfg, !.force = force, !.seen = mtime])
    BY <1>2 DEF BeginRefresh
  <2>2. [IdleJob EXCEPT !.cfg = cfg, !.force = force, !.seen = mtime] \in Job
    BY IdleJobType, ConfigsAssumption DEF Job, TypeOK
  <2> QED
    BY <1>1, <1>2, <2>1, <2>2 DEF BeginRefresh
<1>3. CASE BeginForget(p)
  <2>1. PICK book \in Optional(Book), line \in Optional(Day) :
          Start(p, "forget", "probe",
                [IdleJob EXCEPT
                   !.plan = WithForgottenBefore(WithForgottenBook(store.policy, book), line),
                   !.target = book])
    BY <1>3 DEF BeginForget
  <2>2. store.policy \in Policy /\ book \subseteq Book
    BY DEF TypeOK, Store, Optional
  <2>3. WithForgottenBefore(WithForgottenBook(store.policy, book), line) \in Policy
    BY <2>2, ForgetRemembers
  <2>4. [IdleJob EXCEPT
           !.plan = WithForgottenBefore(WithForgottenBook(store.policy, book), line),
           !.target = book] \in Job
    BY <2>2, <2>3, IdleJobType DEF Job
  <2> QED
    BY <1>1, <1>3, <2>1, <2>4 DEF BeginForget
<1>4. CASE BeginBackup(p)
  BY <1>1, <1>4, IdleJobType DEF BeginBackup
<1>5. CASE BeginRestore(p)
  BY <1>1, <1>5, IdleJobType DEF BeginRestore
<1>6. CASE Die(p)
  BY <1>6, Passed DEF Die, End, UnchangedButJob, IdleJob
<1> QED
  BY <1>2, <1>3, <1>4, <1>5, <1>6 DEF Begin

\* The steps of a refresh: each write of the file takes a revision, and the
\* states it saves are the ones it goes on to index.
LEMMA RefreshIndex ==
    \A p \in Proc : TypeOK /\ TypeOK' /\ IndexInv /\ OneAtATime' /\ RefreshStep(p) => IndexInv'
<1> SUFFICES ASSUME NEW p \in Proc, TypeOK, TypeOK', IndexInv, OneAtATime', RefreshStep(p)
             PROVE  IndexInv'
  OBVIOUS
<1>a. job[p] \in Job /\ store \in Store /\ store' \in Store /\ Rebuilding(p)
  BY DEF TypeOK, IndexInv
<1>1. CASE SaveCatalogMode(p)
  <2> DEFINE catalog == CatalogMode(store.catalog, job[p].cfg)
  <2>1. job[p].at = "mode" /\ job[p].cmd = "refresh"
    BY <1>1, <1>a DEF SaveCatalogMode, At, Rebuilding
  <2>2. store' = store \/ store' = Bumped([store EXCEPT !.catalog = catalog])
    BY <1>1 DEF SaveCatalogMode
  <2> HIDE DEF catalog
  <2>3. store' = store \/ (store'.built = store.built /\ store'.rev = store.rev + 1)
    BY <1>a, <2>2 DEF Bumped, Store
  <2>4. Go(p, [job[p] EXCEPT !.at = "decide"])
    BY <1>1 DEF SaveCatalogMode, Continue
  <2>5. [job[p] EXCEPT !.at = "decide"].at = "decide"
        /\ [job[p] EXCEPT !.at = "decide"].cmd = "refresh"
    BY <1>a, <2>1 DEF Job
  <2> QED
    BY <1>1, <2>1, <2>3, <2>4, <2>5, Passed DEF SaveCatalogMode, UnchangedButStore
<1>2. CASE DecideRefresh(p)
  <2>1. job[p].at = "decide" /\ job[p].cmd = "refresh"
    BY <1>2, <1>a DEF DecideRefresh, At, Rebuilding
  <2>2. PICK due, j :
          /\ Go(p, j)
          /\ \/ j = IdleJob
             \/ j = [job[p] EXCEPT !.at = "books", !.due = due, !.force = FALSE]
    BY <1>2 DEF DecideRefresh, End
  <2>3. j.at \in {"idle", "books"} /\ (j.at = "books" => j.cmd = "refresh")
    <3>1. IdleJob.at = "idle"
      BY DEF IdleJob
    <3>2. ASSUME j = [job[p] EXCEPT !.at = "books", !.due = due, !.force = FALSE]
          PROVE  j.at = "books" /\ j.cmd = "refresh"
      BY <1>a, <2>1, <3>2 DEF Job
    <3> QED
      BY <2>2, <3>1, <3>2
  <2>4. store' = store /\ backup' = backup
    BY <1>2 DEF DecideRefresh, UnchangedButJob
  <2>5. Go(p, j) /\ job[p].at # "idle"
    BY <2>1, <2>2
  <2>6. j.at \notin {"drop", "create", "fill"} /\ j.at # "retain"
        /\ (j.at \in {"mode", "decide", "books", "stats", "log", "prune"} => j.cmd = "refresh")
    BY <2>3
  <2> QED
    BY <2>4, <2>5, <2>6, Passed
<1>3. CASE IngestBooks(p)
  <2>1. job[p].at = "books" /\ job[p].cmd = "refresh"
    BY <1>3, <1>a DEF IngestBooks, At, Rebuilding
  <2>2. PICK j : Go(p, j) /\ j = [job[p] EXCEPT !.at = "stats",
                            !.owned = IF job[p].cfg.demo THEN DemoBook ELSE calibre]
    BY <1>3 DEF IngestBooks
  <2>3. j.at = "stats" /\ j.cmd = "refresh"
    BY <1>a, <2>1, <2>2 DEF Job
  <2> QED
    BY <1>3, <2>1, <2>2, <2>3, Passed DEF IngestBooks, UnchangedButJob
<1>4. CASE IngestStats(p)
  <2>1. job[p].at = "stats" /\ job[p].cmd = "refresh"
    BY <1>4, <1>a DEF IngestStats, At, Rebuilding
  <2>2. PICK rows : Go(p, [job[p] EXCEPT !.at = "log", !.rows = rows])
    BY <1>4 DEF IngestStats
  <2>3. PICK j : Go(p, j) /\ j = [job[p] EXCEPT !.at = "log", !.rows = rows]
    BY <2>2
  <2>4. j.at = "log" /\ j.cmd = "refresh"
    BY <1>a, <2>1, <2>3 DEF Job
  <2> QED
    BY <1>4, <2>1, <2>3, <2>4, Passed DEF IngestStats, UnchangedButJob
<1>5. CASE PruneIngested(p)
  <2>1. job[p].at = "prune" /\ job[p].cmd = "refresh"
    BY <1>5, <1>a DEF PruneIngested, At, Rebuilding
  <2>2. PICK plan, rows, days :
          Go(p, [job[p] EXCEPT !.at = "retain", !.plan = plan, !.rows = rows, !.days = days])
    BY <1>5 DEF PruneIngested
  <2>3. PICK j : Go(p, j) /\ j = [job[p] EXCEPT !.at = "retain", !.plan = plan,
                                               !.rows = rows, !.days = days]
    BY <2>2
  <2>4. j.at = "retain" /\ j.cmd = "refresh"
    BY <1>a, <2>1, <2>3 DEF Job
  <2>5. AfterRetain(j) = "save"
    BY <2>4 DEF AfterRetain
  <2> QED
    BY <1>5, <2>1, <2>3, <2>4, <2>5, Passed DEF PruneIngested, UnchangedButJob
<1>6. CASE SaveStates(p)
  <2> DEFINE j == [job[p] EXCEPT !.at = "drop"]
  <2>1. job[p].at = "save" /\ Go(p, j) /\ backup' = backup
    BY <1>6 DEF SaveStates, At, Continue, UnchangedButStore
  <2>2. j.at = "drop" /\ j.rows = job[p].rows /\ job'[p] = j
    BY <1>a, <2>1 DEF Job, Go, TypeOK
  <2>3. store'.built = store.built /\ store'.rev = store.rev + 1 /\ store'.states = job[p].rows
    BY <1>6, <1>a DEF SaveStates, Bumped, Store
  <2> HIDE DEF j
  <2>4. FaithfulFile(store') /\ store'.rev \notin store'.built
    BY <1>a, <2>3, BumpUnusable DEF IndexInv
  <2>5. Rebuilding(p)'
    BY <2>2, <2>3, <2>4 DEF Rebuilding
  <2> QED
    BY <2>1, <2>4, <2>5, Settled DEF IndexInv
<1>7. CASE SaveCatalogPool(p)
  <2>1. job[p].at = "pool" /\ Go(p, IdleJob) /\ backup' = backup /\ IdleJob.at = "idle"
    BY <1>7 DEF SaveCatalogPool, At, End, UnchangedButStore, IdleJob
  <2>2. PICK pool : store' = store \/ store' = Bumped([store EXCEPT !.catalog = pool])
    BY <1>7 DEF SaveCatalogPool
  <2>3. store' = store \/ (store'.built = store.built /\ store'.rev = store.rev + 1)
    BY <1>a, <2>2 DEF Bumped, Store
  <2> QED
    BY <2>1, <2>3, Passed
<1>8. CASE IngestActivity(p)
  <2>1. job[p].at = "log" /\ job[p].cmd = "refresh"
    BY <1>8, <1>a DEF IngestActivity, At, Rebuilding
  <2>2. PICK days : Go(p, [job[p] EXCEPT !.at = "prune", !.days = days])
    BY <1>8 DEF IngestActivity
  <2>3. PICK j : Go(p, j) /\ j = [job[p] EXCEPT !.at = "prune", !.days = days]
    BY <2>2
  <2>4. j.at = "prune" /\ j.cmd = "refresh"
    BY <1>a, <2>1, <2>3 DEF Job
  <2> QED
    BY <1>8, <2>1, <2>3, <2>4, Passed DEF IngestActivity, UnchangedButJob
<1> QED
  BY <1>1, <1>2, <1>3, <1>4, <1>5, <1>6, <1>7, <1>8 DEF RefreshStep

\* The steps of a forget: like a refresh it saves states and then indexes them,
\* and it indexes only when it has saved.
LEMMA ForgetIndex ==
    \A p \in Proc : TypeOK /\ TypeOK' /\ IndexInv /\ OneAtATime'
                     /\ (ForgetStep(p) \/ SaveRetention(p)) => IndexInv'
<1> SUFFICES ASSUME NEW p \in Proc, TypeOK, TypeOK', IndexInv, OneAtATime',
                    ForgetStep(p) \/ SaveRetention(p)
             PROVE  IndexInv'
  OBVIOUS
<1>a. job[p] \in Job /\ store \in Store /\ store' \in Store /\ Rebuilding(p)
  BY DEF TypeOK, IndexInv
<1>1. CASE ProbeForget(p)
  <2>1. PICK j : Go(p, j) /\ (j = IdleJob \/ j = [job[p] EXCEPT !.at = "reread"])
    BY <1>1 DEF ProbeForget, End, Continue
  <2>2. j.at \in {"idle", "reread"} /\ job[p].at = "probe"
    BY <1>a, <1>1, <2>1 DEF Job, IdleJob, ProbeForget, At
  <2> QED
    BY <1>1, <2>1, <2>2, Passed DEF ProbeForget, UnchangedButJob
<1>2. CASE RereadStates(p)
  <2>1. PICK rows, days :
          Go(p, [job[p] EXCEPT !.at = IF Counts(job[p]) THEN "keep" ELSE "retain",
                               !.counted = Counts(job[p]), !.rows = rows, !.days = days])
    BY <1>2 DEF RereadStates
  <2>2. PICK j : Go(p, j) /\ j = [job[p] EXCEPT !.at = IF Counts(job[p]) THEN "keep" ELSE "retain",
                               !.counted = Counts(job[p]), !.rows = rows, !.days = days]
    BY <2>1
  <2>3. j.at = "keep" \/ (j.at = "retain" /\ ~j.counted)
    BY <1>a, <2>2 DEF Job
  <2>4. j.at = "retain" => AfterRetain(j) # "drop"
    BY <2>3 DEF AfterRetain
  <2>5. job[p].at = "reread"
    BY <1>2 DEF RereadStates, At
  <2> QED
    BY <1>2, <2>2, <2>3, <2>4, <2>5, Passed DEF RereadStates, UnchangedButJob
<1>3. CASE SaveSurvivors(p)
  <2> DEFINE j == [job[p] EXCEPT !.at = "retain"]
  <2>1. job[p].at = "keep" /\ Go(p, j) /\ backup' = backup
    BY <1>3 DEF SaveSurvivors, At, Continue, UnchangedButStore
  <2>2. j.at = "retain" /\ j.rows = job[p].rows /\ job'[p] = j
    BY <1>a, <2>1 DEF Job, Go, TypeOK
  <2>3. store'.built = store.built /\ store'.rev = store.rev + 1 /\ store'.states = job[p].rows
    BY <1>3, <1>a DEF SaveSurvivors, Bumped, Store
  <2> HIDE DEF j
  <2>4. FaithfulFile(store')
    BY <1>a, <2>3, BumpUnusable DEF IndexInv
  <2>5. Rebuilding(p)'
    BY <2>2, <2>3 DEF Rebuilding
  <2> QED
    BY <2>1, <2>4, <2>5, Settled DEF IndexInv
<1>4. CASE SaveRetention(p)
  <2>1. job[p].at = "retain" /\ backup' = backup
    BY <1>4 DEF SaveRetention, At
  <2>2. store'.built = store.built /\ store'.rev = store.rev + 1 /\ store'.states = store.states
    BY <1>4, <1>a DEF SaveRetention, Bumped, Store
  <2>3. FaithfulFile(store') /\ store'.rev \notin store'.built
    BY <1>a, <2>2, BumpUnusable DEF IndexInv
  <2>4. PICK j : /\ Go(p, j)
                 /\ \/ j = IdleJob
                    \/ j = [job[p] EXCEPT !.at = AfterRetain(job[p])]
    BY <1>4 DEF SaveRetention, End, Continue
  <2>5. AfterRetain(job[p]) \in {"save", "drop", "idle"}
    BY DEF AfterRetain
  <2>6. \/ j.at \in {"idle", "save"}
        \/ j.at = "drop" /\ AfterRetain(job[p]) = "drop" /\ j.rows = job[p].rows
    BY <1>a, <2>4, <2>5 DEF Job, IdleJob
  <2>7. job'[p] = j
    BY <2>4 DEF Go, TypeOK
  <2>8. Rebuilding(p)'
    BY <1>a, <2>1, <2>2, <2>3, <2>6, <2>7 DEF Rebuilding
  <2> QED
    BY <2>1, <2>3, <2>4, <2>8, Settled DEF IndexInv
<1> QED
  BY <1>1, <1>2, <1>3, <1>4 DEF ForgetStep

\* The rebuild: until it is filled the table's revision is not claimed, and it
\* is filled with the stored states.
LEMMA RebuildIndex ==
    \A p \in Proc : TypeOK /\ TypeOK' /\ IndexInv /\ OneAtATime' /\ IndexStep(p) => IndexInv'
<1> SUFFICES ASSUME NEW p \in Proc, TypeOK, TypeOK', IndexInv, OneAtATime', IndexStep(p)
             PROVE  IndexInv'
  OBVIOUS
<1>a. job[p] \in Job /\ store \in Store /\ Rebuilding(p)
      /\ store.built \subseteq Nat /\ store.rev \in Nat
      /\ \A r \in store.built : r <= store.rev
  BY DEF TypeOK, IndexInv, Store, Optional, FaithfulFile
<1>b. ASSUME LeaveIndex(p), job[p].at # "idle", FaithfulFile(store') PROVE IndexInv'
  <2>1. PICK j : /\ Go(p, j)
                 /\ j = IdleJob \/ j = [job[p] EXCEPT !.at = AfterIndex(job[p])]
    BY <1>b DEF LeaveIndex, End, Continue
  <2>2. AfterIndex(job[p]) \in {"pool", "idle"}
    BY DEF AfterIndex
  <2>3. j.at \in {"pool", "idle"} /\ job'[p] = j
    BY <1>a, <2>1, <2>2 DEF Job, IdleJob, Go, TypeOK
  <2>4. Rebuilding(p)'
    BY <2>3 DEF Rebuilding
  <2>5. backup' = backup
    BY <1>b DEF LeaveIndex
  <2> QED
    BY <1>b, <2>1, <2>4, <2>5, Settled DEF IndexInv
<1>1. CASE DropIndex(p)
  <2> DEFINE j == [job[p] EXCEPT !.at = "create"]
  <2>1. job[p].at = "drop" /\ Go(p, j) /\ backup' = backup
    BY <1>1 DEF DropIndex, At, Continue, UnchangedButStore
  <2>2. j.at = "create" /\ j.rows = job[p].rows /\ job'[p] = j
    BY <1>a, <2>1 DEF Job, Go, TypeOK
  <2>3. store'.built = store.built /\ store'.rev = store.rev /\ store'.states = store.states
    BY <1>1, <1>a DEF DropIndex, Store
  <2> HIDE DEF j
  <2>4. store.rev \notin store.built /\ job[p].rows = store.states
    BY <1>a, <2>1 DEF Rebuilding
  <2>5. FaithfulFile(store')
    BY <1>a, <2>3, <2>4 DEF FaithfulFile
  <2>6. Rebuilding(p)'
    BY <2>2, <2>3, <2>4 DEF Rebuilding
  <2> QED
    BY <2>1, <2>5, <2>6, Settled DEF IndexInv
<1>2. CASE CreateIndex(p)
  <2> DEFINE j == [job[p] EXCEPT !.at = "fill"]
  <2>1. job[p].at = "create" /\ Go(p, j) /\ backup' = backup
    BY <1>2 DEF CreateIndex, At, Continue, UnchangedButStore
  <2>2. j.at = "fill" /\ j.rows = job[p].rows /\ job'[p] = j
    BY <1>a, <2>1 DEF Job, Go, TypeOK
  <2>3. store'.built = store.built /\ store'.rev = store.rev /\ store'.states = store.states
        /\ store'.table = {<<>>}
    BY <1>2, <1>a DEF CreateIndex, Store
  <2> HIDE DEF j
  <2>4. store.rev \notin store.built /\ job[p].rows = store.states
    BY <1>a, <2>1 DEF Rebuilding
  <2>5. FaithfulFile(store')
    BY <1>a, <2>3, <2>4 DEF FaithfulFile
  <2>6. Rebuilding(p)'
    BY <2>2, <2>3, <2>4 DEF Rebuilding
  <2> QED
    BY <2>1, <2>5, <2>6, Settled DEF IndexInv
<1>3. CASE FillIndex(p)
  <2> DEFINE entries == Searchable(job[p].rows)
  <2>1. job[p].at = "fill" /\ LeaveIndex(p)
    BY <1>3 DEF FillIndex, At
  <2>2. store.table = {<<>>} /\ entries = Searchable(store.states)
    BY <1>a, <2>1 DEF Rebuilding
  <2>3. store' = [store EXCEPT !.table = IF entries = <<>> THEN @ ELSE {entries},
                               !.built = {store.rev}]
    BY <1>3 DEF FillIndex
  <2> HIDE DEF entries
  <2>4. store'.table = {entries} /\ store'.built = {store.rev} /\ store'.rev = store.rev
        /\ store'.states = store.states
    BY <1>a, <2>2, <2>3 DEF Store
  <2>5. FaithfulFile(store')
    BY <1>a, <2>2, <2>4 DEF FaithfulFile
  <2> QED
    BY <1>b, <2>1, <2>5
<1>4. CASE IndexFails(p)
  BY <1>b, <1>4 DEF IndexFails, IndexInv
<1> QED
  BY <1>1, <1>2, <1>3, <1>4 DEF IndexStep

\* Backups: a copy of a faithful file is one.
LEMMA CopyIndex ==
    \A p \in Proc : TypeOK /\ TypeOK' /\ IndexInv /\ OneAtATime'
                     /\ (CopyOut(p) \/ CopyIn(p)) => IndexInv'
<1> SUFFICES ASSUME NEW p \in Proc, TypeOK, TypeOK', IndexInv, OneAtATime', CopyOut(p) \/ CopyIn(p)
             PROVE  IndexInv'
  OBVIOUS
<1>1. Go(p, IdleJob) /\ job[p].at # "idle" /\ job'[p] = IdleJob
  BY DEF CopyOut, CopyIn, At, End, Go, TypeOK
<1>2. Rebuilding(p)'
  BY <1>1 DEF Rebuilding, IdleJob
<1>3. FaithfulFile(store') /\ \A s \in backup' : FaithfulFile(s)
  BY DEF CopyOut, CopyIn, IndexInv, UnchangedButStore
<1> QED
  BY <1>1, <1>2, <1>3, Settled

\* Until a refresh or a forget changes the states, the index that claims their
\* revision holds them and nothing else: with one command at a time, whatever
\* step it dies at, whatever the taste form writes meanwhile and whatever backup
\* is restored, a search never answers from a half-built or an outdated index.
THEOREM IndexFaithfulHolds ==
    ASSUME Alone
    PROVE  Spec => []IndexFaithful
<1>1. Init => TypeOK /\ IndexInv
  <2> SUFFICES ASSUME Init PROVE IndexInv
    BY InitType
  <2>1. \A p \in Proc : job[p] = IdleJob /\ IdleJob.at = "idle"
    BY DEF Init, IdleJob
  <2>2. store.built = {} /\ backup = {}
    BY DEF Init, EmptyStore
  <2> QED
    BY <2>1, <2>2 DEF IndexInv, OneAtATime, FaithfulFile, Rebuilding
<1>2. TypeOK /\ IndexInv /\ [Next]_vars => TypeOK' /\ IndexInv'
  <2> SUFFICES ASSUME TypeOK, IndexInv, [Next]_vars PROVE TypeOK' /\ IndexInv'
    OBVIOUS
  <2>1. TypeOK'
    BY NextType
  <2>2. ASSUME UNCHANGED vars PROVE IndexInv'
    <3>1. UNCHANGED <<store, backup, job>>
      BY <2>2 DEF vars
    <3> QED
      BY <3>1 DEF IndexInv, OneAtATime, FaithfulFile, Rebuilding
  <2>3. CASE World
    BY <2>1, <2>3, WorldIndex
  <2>4. OneAtATime'
    BY StaysAlone DEF IndexInv
  <2>5. ASSUME NEW p \in Proc, Begin(p) \/ Work(p) \/ Die(p) PROVE IndexInv'
    BY <2>1, <2>4, <2>5, BeginIndex, RefreshIndex, ForgetIndex, RebuildIndex, CopyIndex DEF Work
  <2> QED
    BY <2>1, <2>2, <2>3, <2>5 DEF Next
<1>3. IndexInv => IndexFaithful
  BY DEF IndexInv, FaithfulFile, IndexFaithful, IndexUsable
<1> QED
  BY <1>1, <1>2, <1>3, PTL DEF Spec

(***************************************************************************)
(* What each step of a command leaves: of its memory, the parts that no    *)
(* step changes (Kept) or this one does not (Held), and of the file, the   *)
(* record of reading (SameRecord), which all but four steps leave alone.   *)
(***************************************************************************)
Kept(j, k) ==
    /\ k.cmd = j.cmd /\ k.cfg = j.cfg
    /\ k.seen = j.seen /\ k.now = j.now /\ k.target = j.target

Held(j, k) ==
    /\ Kept(j, k)
    /\ k.owned = j.owned /\ k.rows = j.rows /\ k.days = j.days /\ k.plan = j.plan
    /\ k.counted = j.counted

SameRecord(s, t) ==
    /\ t.populated = s.populated /\ t.states = s.states /\ t.activity = s.activity
    /\ t.mtimes = s.mtimes /\ t.origin = s.origin
    /\ t.policy = s.policy /\ t.enforcedOn = s.enforcedOn

\* A command that goes on to a step holds what it held.
LEMMA GoesOn ==
    ASSUME TypeOK, NEW p \in Proc, NEW at \in Steps, Continue(p, at)
    PROVE  job'[p].at = at /\ Held(job[p], job'[p])
<1>1. job[p] \in Job
  BY DEF TypeOK
<1>2. job'[p] = [job[p] EXCEPT !.at = at]
  BY DEF Continue, Go, TypeOK
<1> QED
  BY <1>1, <1>2 DEF Held, Kept, Job

\* A command that ends is idle.
LEMMA Ends ==
    ASSUME TypeOK, NEW p \in Proc, End(p)
    PROVE  job'[p] = IdleJob /\ job'[p].at = "idle"
BY DEF TypeOK, End, Go, IdleJob

\* A command starts with nothing but its configuration, or with what it is told
\* to forget.
LEMMA BeginStep ==
    ASSUME TypeOK, NEW p \in Proc, Begin(p)
    PROVE  /\ job'[p].now = today /\ job'[p].cmd \in Commands
           /\ \/ /\ job'[p].at = "mode" /\ job'[p].cmd = "refresh"
                 /\ job'[p].cfg \in Configs /\ job'[p].seen = mtime /\ job'[p].target = {}
              \/ /\ job'[p].at = "probe" /\ job'[p].cmd = "forget"
                 /\ \E book \in Optional(Book), line \in Optional(Day) :
                      /\ <<book, line>> # <<{}, {}>>
                      /\ job'[p].target = book
                      /\ job'[p].plan =
                           WithForgottenBefore(WithForgottenBook(store.policy, book), line)
              \/ job'[p].at = "copyOut" /\ job'[p].cmd = "backup"
              \/ job'[p].at = "copyIn" /\ job'[p].cmd = "restore"
<1>1. IdleJob \in Job /\ IdleJob.target = {}
  BY IdleJobType DEF IdleJob
<1>2. ASSUME NEW cmd, NEW at, NEW j \in Job, Start(p, cmd, at, j)
      PROVE  /\ job'[p].at = at /\ job'[p].cmd = cmd /\ cmd \in Commands
             /\ job'[p].now = today /\ job'[p].cfg = j.cfg
             /\ job'[p].seen = j.seen /\ job'[p].target = j.target /\ job'[p].plan = j.plan
  <2>1. job'[p] = [j EXCEPT !.cmd = cmd, !.at = at, !.now = today]
    BY <1>2 DEF Start, Go, TypeOK
  <2>2. cmd \in Commands
    BY <1>2 DEF Start
  <2> QED
    BY <2>1, <2>2 DEF Job
<1>3. CASE BeginRefresh(p)
  <2>1. PICK cfg \in Configs, force \in BOOLEAN :
          Start(p, "refresh", "mode",
                [IdleJob EXCEPT !.cfg = cfg, !.force = force, !.seen = mtime])
    BY <1>3 DEF BeginRefresh
  <2> DEFINE j == [IdleJob EXCEPT !.cfg = cfg, !.force = force, !.seen = mtime]
  <2>2. j \in Job /\ j.cfg = cfg /\ j.seen = mtime /\ j.target = {}
    BY <1>1, ConfigsAssumption DEF Job, TypeOK
  <2> HIDE DEF j
  <2> QED
    BY <1>2, <2>1, <2>2 DEF j
<1>4. CASE BeginForget(p)
  <2>1. PICK book \in Optional(Book), line \in Optional(Day) :
          /\ <<book, line>> # <<{}, {}>>
          /\ Start(p, "forget", "probe",
                [IdleJob EXCEPT
                   !.plan = WithForgottenBefore(WithForgottenBook(store.policy, book), line),
                   !.target = book])
    BY <1>4 DEF BeginForget
  <2> DEFINE plan == WithForgottenBefore(WithForgottenBook(store.policy, book), line)
             j == [IdleJob EXCEPT !.plan = plan, !.target = book]
  <2>2. store.policy \in Policy /\ book \subseteq Book
    BY DEF TypeOK, Store, Optional
  <2>3. plan \in Policy
    BY <2>2, ForgetRemembers
  <2>4. Start(p, "forget", "probe", j)
    BY <2>1
  <2>5. j \in Job /\ j.plan = plan /\ j.target = book
    <3> HIDE DEF plan
    <3> QED
      BY <1>1, <2>2, <2>3 DEF Job
  <2> HIDE DEF j
  <2>6. /\ job'[p].at = "probe" /\ job'[p].cmd = "forget" /\ "forget" \in Commands
        /\ job'[p].now = today /\ job'[p].target = book /\ job'[p].plan = plan
    BY <1>2, <2>4, <2>5
  <2> HIDE DEF plan
  <2>7. \E b \in Optional(Book), l \in Optional(Day) :
          /\ <<b, l>> # <<{}, {}>>
          /\ job'[p].target = b
          /\ job'[p].plan = WithForgottenBefore(WithForgottenBook(store.policy, b), l)
    BY <2>1, <2>6 DEF plan
  <2> QED
    BY <2>6, <2>7
<1>5. CASE BeginBackup(p) \/ BeginRestore(p)
  BY <1>1, <1>2, <1>5 DEF BeginBackup, BeginRestore
<1> QED
  BY <1>3, <1>4, <1>5 DEF Begin

\* What no working or dying command does: change the time or the sources, or
\* another command's memory.
LEMMA CommandFrame ==
    ASSUME TypeOK, NEW p \in Proc, Begin(p) \/ Work(p) \/ Die(p)
    PROVE  /\ UNCHANGED <<today, calibre, device, log, mtime>>
           /\ \A q \in Proc \ {p} : job'[q] = job[q]
           /\ Begin(p) \/ Die(p) => UNCHANGED <<store, backup, receipts>>
<1>1. \E j : Go(p, j)
  BY OwnStep DEF Begin, BeginRefresh, BeginForget, BeginBackup, BeginRestore, Start
<1>2. \A q \in Proc \ {p} : job'[q] = job[q]
  BY <1>1 DEF Go, TypeOK
<1>3. Begin(p) \/ Die(p) => UnchangedButJob
  BY DEF Begin, Die, BeginRefresh, BeginForget, BeginBackup, BeginRestore
<1>4. Work(p) => UNCHANGED <<today, sources>>
  BY DEF Work, RefreshStep, ForgetStep, IndexStep, SaveCatalogMode, DecideRefresh, IngestBooks,
         IngestStats, IngestActivity, PruneIngested, SaveStates, SaveCatalogPool, ProbeForget,
         RereadStates, SaveSurvivors, SaveRetention, DropIndex, CreateIndex, FillIndex,
         IndexFails, LeaveIndex, CopyOut, CopyIn, UnchangedButJob, UnchangedButStore
<1> QED
  BY <1>2, <1>3, <1>4 DEF UnchangedButJob, sources

\* The catalog mode and the catalog pool are no part of the record.
LEMMA CatalogStep ==
    ASSUME TypeOK, NEW p \in Proc, SaveCatalogMode(p) \/ SaveCatalogPool(p)
    PROVE  /\ SameRecord(store, store') /\ UNCHANGED <<backup, receipts>>
           /\ \/ job[p].at = "mode" /\ job'[p].at = "decide" /\ Held(job[p], job'[p])
              \/ job[p].at = "pool" /\ job'[p].at = "idle"
<1>1. PICK catalog : store' = store \/ store' = Bumped([store EXCEPT !.catalog = catalog])
  BY DEF SaveCatalogMode, SaveCatalogPool
<1>2. SameRecord(store, store')
  BY <1>1 DEF SameRecord, Bumped, Store, TypeOK
<1>3. SaveCatalogMode(p) => job'[p].at = "decide" /\ Held(job[p], job'[p])
  BY GoesOn DEF SaveCatalogMode, Steps
<1>4. SaveCatalogPool(p) => job'[p].at = "idle"
  BY Ends DEF SaveCatalogPool
<1> QED
  BY <1>2, <1>3, <1>4 DEF SaveCatalogMode, SaveCatalogPool, At, UnchangedButStore

\* A refresh skips, or goes on to ingest.
LEMMA DecideStep ==
    ASSUME TypeOK, NEW p \in Proc, DecideRefresh(p)
    PROVE  /\ UNCHANGED <<store, backup, receipts>> /\ job[p].at = "decide"
           /\ \/ job'[p].at = "idle"
              \/ job'[p].at = "books" /\ Held(job[p], job'[p])
<1>1. PICK due : End(p) \/ Go(p, [job[p] EXCEPT !.at = "books", !.due = due, !.force = FALSE])
  BY DEF DecideRefresh
<1>2. End(p) => job'[p].at = "idle"
  BY Ends
<1>3. Go(p, [job[p] EXCEPT !.at = "books", !.due = due, !.force = FALSE])
        => job'[p].at = "books" /\ Held(job[p], job'[p])
  <2> SUFFICES ASSUME Go(p, [job[p] EXCEPT !.at = "books", !.due = due, !.force = FALSE])
               PROVE  job'[p].at = "books" /\ Held(job[p], job'[p])
    OBVIOUS
  <2>1. job[p] \in Job /\ job'[p] = [job[p] EXCEPT !.at = "books", !.due = due, !.force = FALSE]
    BY DEF TypeOK, Go
  <2> QED
    BY <2>1 DEF Held, Kept, Job
<1> QED
  BY <1>1, <1>2, <1>3 DEF DecideRefresh, At, UnchangedButJob

\* What is ingested is the library's, or the demo's.
LEMMA IngestStep ==
    ASSUME TypeOK, NEW p \in Proc, IngestBooks(p) \/ IngestStats(p) \/ IngestActivity(p)
    PROVE  /\ UNCHANGED <<store, backup, receipts>> /\ Kept(job[p], job'[p])
           /\ \/ /\ job[p].at = "books" /\ job'[p].at = "stats"
                 /\ job'[p].owned = IF job[p].cfg.demo THEN DemoBook ELSE calibre
              \/ /\ job[p].at = "stats" /\ job'[p].at = "log"
                 /\ job'[p].rows = Unify(job[p].owned,
                                         IF job[p].cfg.demo THEN DemoStats ELSE device)
              \/ /\ job[p].at = "log" /\ job'[p].at = "prune" /\ job'[p].rows = job[p].rows
                 /\ job'[p].days = IF job[p].cfg.demo THEN {1} ELSE log
<1>1. CASE IngestBooks(p)
  <2> DEFINE owned == IF job[p].cfg.demo THEN DemoBook ELSE calibre
  <2>1. job[p] \in Job /\ job'[p] = [job[p] EXCEPT !.at = "stats", !.owned = owned]
    BY <1>1 DEF TypeOK, Go, IngestBooks
  <2> HIDE DEF owned
  <2>2. job'[p].at = "stats" /\ job'[p].owned = owned /\ Kept(job[p], job'[p])
    BY <2>1 DEF Kept, Job
  <2> QED
    BY <1>1, <2>2 DEF IngestBooks, At, UnchangedButJob, owned
<1>2. CASE IngestStats(p)
  <2> DEFINE rows == Unify(job[p].owned, IF job[p].cfg.demo THEN DemoStats ELSE device)
  <2>1. job[p] \in Job /\ job'[p] = [job[p] EXCEPT !.at = "log", !.rows = rows]
    BY <1>2 DEF TypeOK, Go, IngestStats
  <2> HIDE DEF rows
  <2>2. job'[p].at = "log" /\ job'[p].rows = rows /\ Kept(job[p], job'[p])
    BY <2>1 DEF Kept, Job
  <2> QED
    BY <1>2, <2>2 DEF IngestStats, At, UnchangedButJob, rows
<1>3. CASE IngestActivity(p)
  <2> DEFINE days == IF job[p].cfg.demo THEN {1} ELSE log
  <2>1. job[p] \in Job /\ job'[p] = [job[p] EXCEPT !.at = "prune", !.days = days]
    BY <1>3 DEF TypeOK, Go, IngestActivity
  <2> HIDE DEF days
  <2>2. /\ job'[p].at = "prune" /\ job'[p].days = days /\ job'[p].rows = job[p].rows
        /\ Kept(job[p], job'[p])
    BY <2>1 DEF Kept, Job
  <2> QED
    BY <1>3, <2>2 DEF IngestActivity, At, UnchangedButJob, days
<1> QED
  BY <1>1, <1>2, <1>3

\* What was ingested is pruned by the stored policy and the configured horizon.
LEMMA PruneStep ==
    ASSUME TypeOK, NEW p \in Proc, PruneIngested(p)
    PROVE  /\ UNCHANGED <<store, backup, receipts>> /\ Kept(job[p], job'[p])
           /\ job[p].at = "prune" /\ job'[p].at = "retain"
           /\ job'[p].plan = [store.policy EXCEPT !.horizon = job[p].cfg.horizon]
           /\ job'[p].rows = Prune(job[p].rows, job'[p].plan, job[p].now)
           /\ job'[p].days = PruneActivity(job[p].days, job'[p].plan, job[p].now)
<1> DEFINE plan == [store.policy EXCEPT !.horizon = job[p].cfg.horizon]
           rows == Prune(job[p].rows, plan, job[p].now)
           days == PruneActivity(job[p].days, plan, job[p].now)
<1>1. job[p] \in Job
      /\ job'[p] = [job[p] EXCEPT !.at = "retain", !.plan = plan, !.rows = rows, !.days = days]
  BY DEF TypeOK, Go, PruneIngested
<1>2. /\ job'[p].at = "retain" /\ job'[p].plan = plan /\ job'[p].rows = rows
      /\ job'[p].days = days /\ Kept(job[p], job'[p])
  <2> HIDE DEF plan, rows, days
  <2> QED
    BY <1>1 DEF Kept, Job
<1> HIDE DEF plan
<1> QED
  BY <1>2 DEF PruneIngested, At, UnchangedButJob, plan

\* The ingested states are saved with the mtimes of the start and their origin.
LEMMA SaveStep ==
    ASSUME TypeOK, NEW p \in Proc, SaveStates(p)
    PROVE  /\ UNCHANGED <<backup, receipts>>
           /\ job[p].at = "save" /\ job'[p].at = "drop" /\ Held(job[p], job'[p])
           /\ store'.populated /\ store'.states = job[p].rows /\ store'.activity = job[p].days
           /\ store'.mtimes = (IF job[p].cfg.demo THEN {} ELSE {job[p].seen})
           /\ store'.origin = (IF job[p].cfg.demo THEN "demo" ELSE "real")
           /\ store'.policy = store.policy /\ store'.enforcedOn = store.enforcedOn
<1>1. job'[p].at = "drop" /\ Held(job[p], job'[p])
  BY GoesOn DEF SaveStates, Steps
<1>2. store \in Store
  BY DEF TypeOK
<1> QED
  BY <1>1, <1>2 DEF SaveStates, At, UnchangedButStore, Bumped, Store

\* A forget that matches nothing ends at its probe.
LEMMA ProbeStep ==
    ASSUME TypeOK, NEW p \in Proc, ProbeForget(p)
    PROVE  /\ UNCHANGED <<store, backup, receipts>> /\ job[p].at = "probe"
           /\ \/ job'[p].at = "idle"
              \/ job'[p].at = "reread" /\ Held(job[p], job'[p])
BY GoesOn, Ends DEF ProbeForget, At, UnchangedButJob, Steps

\* The states are loaded again and pruned.
LEMMA RereadStep ==
    ASSUME TypeOK, NEW p \in Proc, RereadStates(p)
    PROVE  /\ UNCHANGED <<store, backup, receipts>> /\ Kept(job[p], job'[p])
           /\ job[p].at = "reread" /\ job'[p].plan = job[p].plan
           /\ job'[p].counted = Counts(job[p])
           /\ job'[p].at = IF Counts(job[p]) THEN "keep" ELSE "retain"
           /\ job'[p].rows = Prune(store.states, job[p].plan, job[p].now)
           /\ job'[p].days = PruneActivity(store.activity, job[p].plan, job[p].now)
<1> DEFINE at == IF Counts(job[p]) THEN "keep" ELSE "retain"
           counted == Counts(job[p])
           rows == Prune(store.states, job[p].plan, job[p].now)
           days == PruneActivity(store.activity, job[p].plan, job[p].now)
<1>1. job[p] \in Job
      /\ job'[p] = [job[p] EXCEPT !.at = at, !.counted = counted, !.rows = rows, !.days = days]
  BY DEF TypeOK, Go, RereadStates
<1>2. /\ job'[p].at = at /\ job'[p].counted = counted /\ job'[p].rows = rows
      /\ job'[p].days = days /\ job'[p].plan = job[p].plan /\ Kept(job[p], job'[p])
  <2> HIDE DEF at, counted, rows, days
  <2> QED
    BY <1>1 DEF Kept, Job
<1> QED
  BY <1>2 DEF RereadStates, At, UnchangedButJob

\* The survivors are saved with the mtimes and the origin that are there.
LEMMA KeepStep ==
    ASSUME TypeOK, NEW p \in Proc, SaveSurvivors(p)
    PROVE  /\ UNCHANGED <<backup, receipts>>
           /\ job[p].at = "keep" /\ job'[p].at = "retain" /\ Held(job[p], job'[p])
           /\ store'.populated /\ store'.states = job[p].rows /\ store'.activity = job[p].days
           /\ store'.mtimes = store.mtimes
           /\ store'.policy = store.policy /\ store'.enforcedOn = store.enforcedOn
           /\ store'.origin = IF store.origin = "unrecorded" THEN "real" ELSE store.origin
<1>1. job'[p].at = "retain" /\ Held(job[p], job'[p])
  BY GoesOn DEF SaveSurvivors, Steps
<1>2. store \in Store
  BY DEF TypeOK
<1> QED
  BY <1>1, <1>2 DEF SaveSurvivors, At, UnchangedButStore, Bumped, Store

\* The policy is saved, and the states are left.
LEMMA RetainStep ==
    ASSUME TypeOK, NEW p \in Proc, SaveRetention(p)
    PROVE  /\ UNCHANGED backup /\ job[p].at = "retain"
           /\ store'.policy = job[p].plan /\ store'.enforcedOn = {job[p].now}
           /\ store'.populated = store.populated /\ store'.states = store.states
           /\ store'.activity = store.activity /\ store'.mtimes = store.mtimes
           /\ store'.origin = store.origin
           /\ \/ /\ job'[p].at = "idle" /\ AfterRetain(job[p]) = "idle"
                 /\ receipts' = receipts \cup job[p].target
              \/ /\ job'[p].at \in {"save", "drop"} /\ job'[p].at = AfterRetain(job[p])
                 /\ Held(job[p], job'[p]) /\ receipts' = receipts
<1>1. AfterRetain(job[p]) \in {"idle", "save", "drop"}
  BY DEF AfterRetain
<1>2. AfterRetain(job[p]) # "idle"
        => job'[p].at = AfterRetain(job[p]) /\ Held(job[p], job'[p])
  BY <1>1, GoesOn DEF SaveRetention, Steps
<1>3. AfterRetain(job[p]) = "idle" => job'[p].at = "idle"
  BY Ends DEF SaveRetention
<1>4. store \in Store
  BY DEF TypeOK
<1>5. /\ store'.policy = job[p].plan /\ store'.enforcedOn = {job[p].now}
      /\ store'.populated = store.populated /\ store'.states = store.states
      /\ store'.activity = store.activity /\ store'.mtimes = store.mtimes
      /\ store'.origin = store.origin
  BY <1>4 DEF SaveRetention, Bumped, Store
<1> QED
  BY <1>1, <1>2, <1>3, <1>5 DEF SaveRetention, At

\* The index is no part of the record; a refresh goes on to the pool, and a forget
\* reports what it was told to forget.
LEMMA RebuildStep ==
    ASSUME TypeOK, NEW p \in Proc, IndexStep(p)
    PROVE  /\ SameRecord(store, store') /\ UNCHANGED backup
           /\ job[p].at \in {"drop", "create", "fill"}
           /\ \/ /\ job'[p].at \in {"create", "fill"}
                 /\ Held(job[p], job'[p]) /\ receipts' = receipts
              \/ /\ job'[p].at = "pool" /\ job[p].cmd = "refresh"
                 /\ Held(job[p], job'[p]) /\ receipts' = receipts
              \/ /\ job'[p].at = "idle" /\ job[p].cmd # "refresh"
                 /\ receipts' = receipts \cup job[p].target
<1>1. store \in Store
  BY DEF TypeOK
<1>2. SameRecord(store, store')
  <2>1. PICK table, built : store' = [store EXCEPT !.table = table, !.built = built]
    <3>1. CASE IndexFails(p)
      <4>1. store' = [store EXCEPT !.table = store.table, !.built = store.built]
        BY <1>1, <3>1 DEF IndexFails, Store
      <4> QED
        BY <4>1
    <3>2. CASE DropIndex(p) \/ CreateIndex(p)
      <4>1. PICK table : store' = [store EXCEPT !.table = table]
        BY <3>2 DEF DropIndex, CreateIndex
      <4>2. store' = [store EXCEPT !.table = table, !.built = store.built]
        BY <1>1, <4>1 DEF Store
      <4> QED
        BY <4>2
    <3>3. CASE FillIndex(p)
      BY <3>3 DEF FillIndex
    <3> QED
      BY <3>1, <3>2, <3>3 DEF IndexStep
  <2> QED
    BY <1>1, <2>1 DEF SameRecord, Store
<1>3. ASSUME LeaveIndex(p)
      PROVE  /\ UNCHANGED backup
             /\ \/ /\ job'[p].at = "pool" /\ job[p].cmd = "refresh"
                   /\ Held(job[p], job'[p]) /\ receipts' = receipts
                \/ /\ job'[p].at = "idle" /\ job[p].cmd # "refresh"
                   /\ receipts' = receipts \cup job[p].target
  BY <1>3, GoesOn, Ends DEF LeaveIndex, AfterIndex, Steps
<1>4. ASSUME DropIndex(p) \/ CreateIndex(p)
      PROVE  /\ UNCHANGED <<backup, receipts>>
             /\ job'[p].at \in {"create", "fill"} /\ Held(job[p], job'[p])
  BY <1>4, GoesOn DEF DropIndex, CreateIndex, UnchangedButStore, Steps
<1> QED
  BY <1>2, <1>3, <1>4 DEF IndexStep, DropIndex, CreateIndex, FillIndex, IndexFails, At

(***************************************************************************)
(* One command at a time: what is left to show of an invariant that speaks *)
(* of a running command is what its own step makes of it.                  *)
(***************************************************************************)

\* While a command moves, every other one is idle and stays so.
LEMMA OthersAreIdle ==
    ASSUME Alone, TypeOK, OneAtATime, NEW p \in Proc, Begin(p) \/ Work(p) \/ Die(p)
    PROVE  \A q \in Proc \ {p} : job[q].at = "idle" /\ job'[q].at = "idle"
<1>1. \A q \in Proc \ {p} : job[q].at = "idle"
  <2>1. CASE Begin(p)
    BY <2>1 DEF Begin, BeginRefresh, BeginForget, BeginBackup, BeginRestore, Start
  <2>2. CASE Work(p) \/ Die(p)
    BY <2>2, OwnStep DEF OneAtATime
  <2> QED
    BY <2>1, <2>2
<1> QED
  BY <1>1, CommandFrame

\* The world moves no command, and of the file only the taste.
LEMMA WorldStep ==
    ASSUME TypeOK, World
    PROVE  UNCHANGED <<job, backup, receipts>> /\ SameRecord(store, store')
<1>1. CASE SaveTaste
  <2>1. PICK t : store' = Bumped([store EXCEPT !.taste = t])
    BY <1>1 DEF SaveTaste
  <2>2. SameRecord(store, store')
    BY <2>1 DEF SameRecord, Bumped, Store, TypeOK
  <2> QED
    BY <1>1, <2>2 DEF SaveTaste
<1> QED
  BY <1>1 DEF World, Midnight, ReadOnDevice, EditCalibre, SameRecord

(***************************************************************************)
(* The origin of the stored states.                                        *)
(*                                                                         *)
(* OwnWorld says of a file, the live one or a backup, that its states are  *)
(* of the world it records, and that a file without a record of it has     *)
(* none.  Carries says what the command that is about to save holds: a     *)
(* refresh, states of the one world it was configured for from its first   *)
(* read on; a forget, no state that the store does not hold.               *)
(***************************************************************************)
OwnWorld(s) ==
    /\ s.origin = "real" => DOMAIN s.states \cap DemoBook = {}
    /\ s.origin = "demo" => DOMAIN s.states \subseteq DemoBook
    /\ s.origin = "unrecorded" => DOMAIN s.states = {}

InWorld(books, isDemo) ==
    IF isDemo THEN books \subseteq DemoBook ELSE books \cap DemoBook = {}

Carries(p) ==
    LET j == job[p]
    IN  /\ j.at = "stats" => InWorld(j.owned, j.cfg.demo)
        /\ \/ j.at \in {"log", "prune", "save"}
           \/ j.at = "retain" /\ j.cmd = "refresh"
           => InWorld(DOMAIN j.rows, j.cfg.demo)
        /\ j.at \in {"probe", "reread", "keep"} => j.cmd = "forget"
        /\ j.at = "keep" => DOMAIN j.rows \subseteq DOMAIN store.states

OriginInv ==
    /\ OneAtATime
    /\ OwnWorld(store)
    /\ \A s \in backup : OwnWorld(s)
    /\ \A p \in Proc : Carries(p)

\* Ingesting for one world gives states of that world.
LEMMA UnifyInWorld ==
    ASSUME TypeOK, NEW isDemo \in BOOLEAN, NEW owned, InWorld(owned, isDemo)
    PROVE  InWorld(DOMAIN Unify(owned, IF isDemo THEN DemoStats ELSE device), isDemo)
<1>1. DOMAIN device \subseteq RealBook /\ DOMAIN DemoStats = DemoBook
  BY DEF TypeOK, DemoStats
<1> QED
  BY <1>1 DEF InWorld, Unify, RealBook

\* A step of a command that leaves the record alone, or only moves to a step at
\* which it carries nothing new.
LEMMA CommandOrigin ==
    ASSUME TypeOK, TypeOK', OriginInv, NEW p \in Proc, Begin(p) \/ Work(p) \/ Die(p)
    PROVE  /\ OwnWorld(store') /\ \A s \in backup' : OwnWorld(s)
           /\ Carries(p)'
<1>a. /\ job[p] \in Job /\ store \in Store /\ OwnWorld(store) /\ Carries(p)
      /\ \A s \in backup : OwnWorld(s)
  BY DEF TypeOK, OriginInv
<1>b. ASSUME SameRecord(store, store'), backup' = backup
      PROVE  OwnWorld(store') /\ \A s \in backup' : OwnWorld(s)
  BY <1>a, <1>b DEF SameRecord, OwnWorld
<1>1. CASE Begin(p)
  <2>1. \/ job'[p].at \in {"mode", "copyOut", "copyIn"}
        \/ job'[p].at = "probe" /\ job'[p].cmd = "forget"
    BY <1>1, BeginStep
  <2> QED
    BY <1>1, <1>a, <2>1, CommandFrame DEF Carries
<1>2. CASE Die(p)
  BY <1>2, <1>a, Ends, CommandFrame DEF Die, Carries
<1>3. CASE SaveCatalogMode(p) \/ SaveCatalogPool(p)
  BY <1>3, <1>b, CatalogStep DEF Carries
<1>4. CASE DecideRefresh(p)
  BY <1>4, <1>a, DecideStep DEF Carries
<1>5. CASE IngestBooks(p) \/ IngestStats(p) \/ IngestActivity(p)
  <2>1. job[p].cfg.demo \in BOOLEAN
    BY <1>a DEF Job
  <2>2. CASE job[p].at = "books"
    <3>1. job'[p].at = "stats" /\ job'[p].cfg = job[p].cfg
          /\ job'[p].owned = IF job[p].cfg.demo THEN DemoBook ELSE calibre
      BY <1>5, <2>2, IngestStep DEF Kept
    <3>2. InWorld(job'[p].owned, job'[p].cfg.demo)
      BY <3>1 DEF InWorld, TypeOK, RealBook
    <3> QED
      BY <1>5, <1>a, <3>1, <3>2, IngestStep DEF Carries
  <2>3. CASE job[p].at = "stats"
    <3>1. job'[p].at = "log" /\ job'[p].cfg = job[p].cfg
          /\ job'[p].rows = Unify(job[p].owned,
                                  IF job[p].cfg.demo THEN DemoStats ELSE device)
      BY <1>5, <2>3, IngestStep DEF Kept
    <3>2. InWorld(job[p].owned, job[p].cfg.demo)
      BY <1>a, <2>3 DEF Carries
    <3>3. InWorld(DOMAIN job'[p].rows, job'[p].cfg.demo)
      BY <2>1, <3>1, <3>2, UnifyInWorld
    <3> QED
      BY <1>5, <1>a, <3>1, <3>3, IngestStep DEF Carries
  <2>4. CASE job[p].at = "log"
    <3>1. job'[p].at = "prune" /\ job'[p].cfg = job[p].cfg /\ job'[p].rows = job[p].rows
      BY <1>5, <2>4, IngestStep DEF Kept
    <3> QED
      BY <1>5, <1>a, <2>4, <3>1, IngestStep DEF Carries
  <2> QED
    BY <1>5, <2>2, <2>3, <2>4, IngestStep
<1>6. CASE PruneIngested(p)
  <2>1. /\ job[p].at = "prune" /\ job'[p].at = "retain" /\ job'[p].cfg = job[p].cfg
        /\ job'[p].rows = Prune(job[p].rows, job'[p].plan, job[p].now)
    BY <1>6, PruneStep DEF Kept
  <2>2. DOMAIN job'[p].rows \subseteq DOMAIN job[p].rows
    BY <1>a, <2>1, PruneType DEF Job
  <2>3. InWorld(DOMAIN job'[p].rows, job'[p].cfg.demo)
    BY <1>a, <2>1, <2>2 DEF Carries, InWorld
  <2> QED
    BY <1>6, <1>a, <2>1, <2>3, PruneStep DEF Carries
<1>7. CASE SaveStates(p)
  <2>1. InWorld(DOMAIN job[p].rows, job[p].cfg.demo)
    BY <1>7, <1>a, SaveStep DEF Carries
  <2>2. OwnWorld(store')
    BY <1>7, <2>1, SaveStep DEF OwnWorld, InWorld
  <2> QED
    BY <1>7, <1>a, <2>2, SaveStep DEF Carries
<1>8. CASE ProbeForget(p)
  BY <1>8, <1>a, ProbeStep DEF Carries, Held, Kept
<1>9. CASE RereadStates(p)
  <2>1. /\ job'[p].at \in {"keep", "retain"} /\ job'[p].cmd = "forget"
        /\ job'[p].rows = Prune(store.states, job[p].plan, job[p].now)
    BY <1>9, <1>a, RereadStep DEF Kept, Carries
  <2>2. DOMAIN job'[p].rows \subseteq DOMAIN store.states
    BY <1>a, <2>1, PruneType DEF Store
  <2> QED
    BY <1>9, <1>a, <2>1, <2>2, RereadStep DEF Carries
<1>10. CASE SaveSurvivors(p)
  <2>1. DOMAIN job[p].rows \subseteq DOMAIN store.states /\ job[p].cmd = "forget"
    BY <1>10, <1>a, KeepStep DEF Carries
  <2>2. OwnWorld(store')
    BY <1>10, <1>a, <2>1, KeepStep DEF OwnWorld
  <2> QED
    BY <1>10, <1>a, <2>1, <2>2, KeepStep DEF Carries, Held, Kept
<1>11. CASE SaveRetention(p)
  <2>1. OwnWorld(store')
    BY <1>11, <1>a, RetainStep DEF OwnWorld
  <2>2. AfterRetain(job[p]) = "save" => job[p].cmd = "refresh"
    BY DEF AfterRetain
  <2>3. job'[p].at \in {"idle", "drop"}
        \/ /\ job'[p].at = "save" /\ job[p].cmd = "refresh"
           /\ job'[p].rows = job[p].rows /\ job'[p].cfg = job[p].cfg
    BY <1>11, <2>2, RetainStep DEF Held, Kept
  <2> QED
    BY <1>11, <1>a, <2>1, <2>3, RetainStep DEF Carries
<1>12. CASE IndexStep(p)
  BY <1>12, <1>b, RebuildStep DEF Carries
<1>13. CASE CopyOut(p) \/ CopyIn(p)
  <2>1. job'[p].at = "idle"
    BY <1>13, Ends DEF CopyOut, CopyIn
  <2> QED
    BY <1>13, <1>a, <2>1 DEF CopyOut, CopyIn, UnchangedButStore, Carries
<1> QED
  BY <1>1, <1>2, <1>3, <1>4, <1>5, <1>6, <1>7, <1>8, <1>9, <1>10, <1>11, <1>12, <1>13
  DEF Work, RefreshStep, ForgetStep

\* Whatever one command at a time does to the store, under whatever configurations
\* in turn, wherever it dies and whatever backup it restores, demo books are never
\* stored under a real origin nor the reader's under the demo's.
THEOREM OriginIsTruthfulHolds ==
    ASSUME Alone
    PROVE  Spec => []OriginIsTruthful
<1>1. Init => OriginInv
  <2> SUFFICES ASSUME Init PROVE OriginInv
    OBVIOUS
  <2>1. \A p \in Proc : job[p].at = "idle"
    BY DEF Init, IdleJob
  <2>2. store.origin = "unrecorded" /\ DOMAIN store.states = {} /\ backup = {}
    BY DEF Init, EmptyStore
  <2> QED
    BY <2>1, <2>2 DEF OriginInv, OneAtATime, OwnWorld, Carries
<1>2. TypeOK /\ TypeOK' /\ OriginInv /\ [Next]_vars => OriginInv'
  <2> SUFFICES ASSUME TypeOK, TypeOK', OriginInv, [Next]_vars PROVE OriginInv'
    OBVIOUS
  <2>1. OneAtATime'
    BY StaysAlone DEF OriginInv
  <2>2. ASSUME UNCHANGED <<job, backup>>, SameRecord(store, store') PROVE OriginInv'
    BY <2>1, <2>2 DEF OriginInv, SameRecord, OwnWorld, Carries
  <2>3. CASE World \/ UNCHANGED vars
    BY <2>2, <2>3, WorldStep DEF vars, SameRecord
  <2>4. ASSUME NEW p \in Proc, Begin(p) \/ Work(p) \/ Die(p) PROVE OriginInv'
    <3>1. \A q \in Proc \ {p} : job'[q].at = "idle"
      BY <2>4, OthersAreIdle DEF OriginInv
    <3>2. \A q \in Proc \ {p} : Carries(q)'
      BY <3>1 DEF Carries
    <3> QED
      BY <2>1, <2>4, <3>2, CommandOrigin DEF OriginInv
  <2> QED
    BY <2>3, <2>4 DEF Next
<1>3. OriginInv => OriginIsTruthful
  BY DEF OriginInv, OwnWorld, OriginIsTruthful
<1> QED
  BY <1>1, <1>2, <1>3, TypeCorrect, PTL DEF Spec

\* No command is about to copy a backup over the store.
NoRestore == \A p \in Proc : job[p].at # "copyIn"

\* Nothing goes there but a restore.
LEMMA NoRestoreStep ==
    ASSUME "restore" \notin Commands, TypeOK, NoRestore, [Next]_vars
    PROVE  NoRestore'
<1>1. CASE World \/ UNCHANGED vars
  <2>1. UNCHANGED job
    BY <1>1, WorldStep DEF vars
  <2> QED
    BY <2>1 DEF NoRestore
<1>2. ASSUME NEW p \in Proc, Begin(p) \/ Work(p) \/ Die(p) PROVE NoRestore'
  <2> SUFFICES job'[p].at # "copyIn"
    BY <1>2, CommandFrame DEF NoRestore
  <2>1. CASE Begin(p)
    BY <2>1, BeginStep
  <2>2. CASE Die(p) \/ CopyOut(p) \/ CopyIn(p)
    BY <2>2, Ends DEF Die, CopyOut, CopyIn
  <2>3. CASE RefreshStep(p)
    BY <2>3, CatalogStep, DecideStep, IngestStep, PruneStep, SaveStep DEF RefreshStep
  <2>4. CASE ForgetStep(p)
    BY <2>4, ProbeStep, RereadStep, KeepStep DEF ForgetStep
  <2>5. CASE SaveRetention(p) \/ IndexStep(p)
    BY <2>5, RetainStep, RebuildStep
  <2> QED
    BY <1>2, <2>1, <2>2, <2>3, <2>4, <2>5 DEF Work
<1> QED
  BY <1>1, <1>2 DEF Next

\* What a step does to the file: nothing, something to the index, a write that
\* takes the next revision, or a restore.
LEMMA FileCases ==
    ASSUME TypeOK, [Next]_vars
    PROVE  \/ store' = store
           \/ \E table, built : store' = [store EXCEPT !.table = table, !.built = built]
           \/ store'.rev = store.rev + 1
           \/ \E p \in Proc : CopyIn(p)
<1>a. store \in Store
  BY DEF TypeOK
<1>b. ASSUME NEW s, s \in Store, s.rev = store.rev, store' = Bumped(s)
      PROVE  store'.rev = store.rev + 1
  BY <1>b, BumpedType
<1>1. CASE UNCHANGED vars
  BY <1>1 DEF vars
<1>2. CASE World
  <2>1. CASE SaveTaste
    <3>1. PICK t : store' = Bumped([store EXCEPT !.taste = t])
      BY <2>1 DEF SaveTaste
    <3> QED
      BY <1>a, <3>1 DEF Bumped, Store
  <2> QED
    BY <1>2, <2>1 DEF World, Midnight, ReadOnDevice, EditCalibre
<1>3. ASSUME NEW p \in Proc, Begin(p) \/ Die(p) PROVE store' = store
  BY <1>3 DEF Begin, Die, BeginRefresh, BeginForget, BeginBackup, BeginRestore, UnchangedButJob
<1>4. ASSUME NEW p \in Proc, RefreshStep(p)
      PROVE  store' = store \/ store'.rev = store.rev + 1
  <2>1. CASE SaveCatalogMode(p)
    <3>1. PICK catalog : store' = store \/ store' = Bumped([store EXCEPT !.catalog = catalog])
      BY <2>1 DEF SaveCatalogMode
    <3> QED
      BY <1>a, <3>1 DEF Bumped, Store
  <2>2. CASE SaveCatalogPool(p)
    <3>1. PICK pool : store' = store \/ store' = Bumped([store EXCEPT !.catalog = pool])
      BY <2>2 DEF SaveCatalogPool
    <3> QED
      BY <1>a, <3>1 DEF Bumped, Store
  <2>3. CASE SaveStates(p)
    BY <1>a, <2>3 DEF SaveStates, Bumped, Store
  <2> QED
    BY <1>4, <2>1, <2>2, <2>3
    DEF RefreshStep, DecideRefresh, IngestBooks, IngestStats, IngestActivity, PruneIngested,
        UnchangedButJob
<1>5. ASSUME NEW p \in Proc, ForgetStep(p) \/ SaveRetention(p) \/ CopyOut(p)
      PROVE  store' = store \/ store'.rev = store.rev + 1
  <2>1. CASE SaveSurvivors(p) \/ SaveRetention(p)
    BY <1>a, <2>1 DEF SaveSurvivors, SaveRetention, Bumped, Store
  <2> QED
    BY <1>5, <2>1 DEF ForgetStep, ProbeForget, RereadStates, CopyOut, UnchangedButJob
<1>6. ASSUME NEW p \in Proc, IndexStep(p)
      PROVE  \E table, built : store' = [store EXCEPT !.table = table, !.built = built]
  <2>1. store = [store EXCEPT !.table = store.table, !.built = store.built]
    BY <1>a DEF Store
  <2>2. CASE IndexFails(p)
    BY <2>1, <2>2 DEF IndexFails
  <2>3. CASE DropIndex(p) \/ CreateIndex(p)
    <3>1. PICK table : store' = [store EXCEPT !.table = table]
      BY <2>3 DEF DropIndex, CreateIndex
    <3>2. [store EXCEPT !.table = table] = [store EXCEPT !.table = table, !.built = store.built]
      BY <1>a DEF Store
    <3> QED
      BY <3>1, <3>2
  <2>4. CASE FillIndex(p)
    BY <2>4 DEF FillIndex
  <2> QED
    BY <1>6, <2>2, <2>3, <2>4 DEF IndexStep
<1> QED
  BY <1>1, <1>2, <1>3, <1>4, <1>5, <1>6 DEF Next, Work

\* Every change of a row that a page is rendered from takes the next revision,
\* and no revision is used for two contents, whatever commands interleave and
\* wherever they die, as long as no backup is restored over the store.
THEOREM RevisionCoversViewHolds ==
    ASSUME "restore" \notin Commands
    PROVE  Spec => RevisionCoversView
<1>a. ASSUME TypeOK PROVE Rendered \in ViewInputs
  BY <1>a DEF TypeOK, Store, Rendered, ViewInputs
<1>1. Init => Promise!Init
  <2> SUFFICES ASSUME Init PROVE Promise!Init
    OBVIOUS
  <2>1. store.rev = 0
    BY DEF Init, EmptyStore
  <2> QED
    BY <2>1, <1>a, InitType DEF Promise!Init
<1>2. Init => NoRestore
  BY DEF Init, NoRestore, IdleJob
<1>3. TypeOK /\ NoRestore /\ [Next]_vars => NoRestore'
  BY NoRestoreStep
<1>4. TypeOK /\ TypeOK' /\ NoRestore /\ [Next]_vars
        => [Promise!Write]_<<Rendered, store.rev>>
  <2> SUFFICES ASSUME TypeOK, TypeOK', NoRestore, [Next]_vars,
                      ~UNCHANGED <<Rendered, store.rev>>
               PROVE  Promise!Write
    OBVIOUS
  <2>1. Rendered' \in ViewInputs
    BY DEF TypeOK, Store, Rendered, ViewInputs
  <2>2. ~\E p \in Proc : CopyIn(p)
    BY DEF NoRestore, CopyIn, At
  <2>3. ASSUME NEW table, NEW built, store' = [store EXCEPT !.table = table, !.built = built]
        PROVE  FALSE
    BY <2>3 DEF TypeOK, Store, Rendered
  <2>4. store' # store
    BY DEF Rendered
  <2>5. store'.rev = store.rev + 1
    BY <2>2, <2>3, <2>4, FileCases
  <2> QED
    BY <2>1, <2>5 DEF Promise!Write
<1> QED
  BY <1>1, <1>2, <1>3, <1>4, TypeCorrect, PTL DEF Spec, RevisionCoversView, Promise!Spec

(***************************************************************************)
(* What a forget has reported.                                             *)
(*                                                                         *)
(* ForgottenStayGone is not inductive: what keeps a forgotten book away is *)
(* in the memory of a command when it saves.  Remembers says of a refresh, *)
(* that the plan it has pruned by is the stored policy up to the horizon;  *)
(* of a forget, that its plan names all the policy names and its target,   *)
(* and that once it has pruned the stored states, or has found nothing in  *)
(* them to prune, they hold no book of the plan.                           *)
(***************************************************************************)
Clear(shelf, books) == \A b \in books \cap DOMAIN shelf : ~shelf[b].owned

Remembers(p) ==
    LET j == job[p]
        policy == store.policy
    IN  /\ j.at \in {"probe", "reread", "keep"} => j.cmd = "forget"
        /\ j.at \in {"mode", "decide", "books", "stats", "log", "prune"} => j.cmd = "refresh"
        /\ j.at = "retain" => j.cmd \in {"refresh", "forget"}
        /\ j.at = "retain" /\ j.cmd = "refresh" =>
             j.plan.forgotten = policy.forgotten /\ Clear(j.rows, policy.forgotten)
        /\ j.at = "save" => j.cmd = "refresh" /\ Clear(j.rows, policy.forgotten)
        /\ j.cmd = "forget" /\ j.at \in {"probe", "reread", "keep", "retain"} =>
             policy.forgotten \cup j.target \subseteq j.plan.forgotten
        /\ j.at = "keep" => Clear(j.rows, j.plan.forgotten)
        /\ j.at = "retain" /\ j.cmd = "forget" => Clear(store.states, j.plan.forgotten)
        /\ j.at \in {"drop", "create", "fill"} /\ j.cmd # "refresh" =>
             j.target \subseteq policy.forgotten /\ Clear(store.states, j.target)

ForgetInv ==
    /\ OneAtATime
    /\ NoRestore
    /\ receipts \subseteq store.policy.forgotten
    /\ Clear(store.states, receipts)
    /\ \A p \in Proc : Remembers(p)

\* A forget that counts nothing in the stored states finds no book it names.
LEMMA NothingCounted ==
    ASSUME NEW j, ~Counts(j)
    PROVE  Clear(store.states, j.plan.forgotten)
BY DEF Counts, CountsSomething, Clear, IsForgotten

\* What a step of a command makes of the reported books, and of what it knows.
LEMMA CommandRemembers ==
    ASSUME TypeOK, ForgetInv, NEW p \in Proc, Begin(p) \/ Work(p) \/ Die(p)
    PROVE  /\ receipts' \subseteq store'.policy.forgotten
           /\ Clear(store'.states, receipts')
           /\ Remembers(p)'
<1>a. /\ job[p] \in Job /\ store \in Store /\ Remembers(p) /\ job[p].at # "copyIn"
      /\ receipts \subseteq store.policy.forgotten /\ Clear(store.states, receipts)
  BY DEF TypeOK, ForgetInv, NoRestore
<1>b. ASSUME SameRecord(store, store'), receipts' = receipts
      PROVE  receipts' \subseteq store'.policy.forgotten /\ Clear(store'.states, receipts')
  BY <1>a, <1>b DEF SameRecord
<1>c. ASSUME job'[p].at = "idle" PROVE Remembers(p)'
  BY <1>c DEF Remembers
<1>1. CASE Begin(p)
  <2>1. CASE job'[p].at = "probe"
    <3>1. PICK book \in Optional(Book), line \in Optional(Day) :
            /\ job'[p].target = book
            /\ job'[p].plan = WithForgottenBefore(WithForgottenBook(store.policy, book), line)
      BY <1>1, <2>1, BeginStep
    <3>2. job'[p].plan.forgotten = store.policy.forgotten \cup book
      BY <1>a, <3>1, ForgetRemembers DEF Store
    <3>3. job'[p].cmd = "forget" /\ UNCHANGED <<store, receipts>>
      BY <1>1, <2>1, BeginStep, CommandFrame
    <3> QED
      BY <1>a, <2>1, <3>1, <3>2, <3>3 DEF Remembers
  <2>2. CASE job'[p].at # "probe"
    BY <1>1, <1>a, <2>2, BeginStep, CommandFrame DEF Remembers
  <2> QED
    BY <2>1, <2>2
<1>2. CASE Die(p)
  BY <1>2, <1>a, <1>c, Ends, CommandFrame DEF Die
<1>3. CASE SaveCatalogMode(p) \/ SaveCatalogPool(p)
  <2>1. Remembers(p)'
    BY <1>3, <1>a, <1>c, CatalogStep DEF Remembers, Held, Kept
  <2> QED
    BY <1>3, <1>b, <2>1, CatalogStep
<1>4. CASE DecideRefresh(p)
  <2>1. Remembers(p)'
    BY <1>4, <1>a, <1>c, DecideStep DEF Remembers, Held, Kept
  <2> QED
    BY <1>4, <1>a, <2>1, DecideStep
<1>5. CASE IngestBooks(p) \/ IngestStats(p) \/ IngestActivity(p)
  <2>1. Remembers(p)'
    BY <1>5, <1>a, IngestStep DEF Remembers, Kept
  <2> QED
    BY <1>5, <1>a, <2>1, IngestStep
<1>6. CASE PruneIngested(p)
  <2> DEFINE plan == [store.policy EXCEPT !.horizon = job[p].cfg.horizon]
  <2>1. /\ job[p].at = "prune" /\ job'[p].at = "retain" /\ job'[p].cmd = job[p].cmd
        /\ job'[p].plan = plan
        /\ job'[p].rows = Prune(job[p].rows, plan, job[p].now)
    BY <1>6, PruneStep DEF Kept
  <2>2. plan.forgotten = store.policy.forgotten
    BY <1>a DEF Store, Policy
  <2> HIDE DEF plan
  <2>3. Clear(job'[p].rows, store.policy.forgotten)
    BY <1>a, <2>1, <2>2, PruneForgets DEF Clear, Job
  <2>4. job[p].cmd = "refresh"
    BY <1>a, <2>1 DEF Remembers
  <2>5. Remembers(p)'
    BY <1>6, <2>1, <2>2, <2>3, <2>4, PruneStep DEF Remembers
  <2> QED
    BY <1>6, <1>a, <2>5, PruneStep
<1>7. CASE SaveStates(p)
  <2>1. job[p].cmd = "refresh" /\ Clear(job[p].rows, store.policy.forgotten)
    BY <1>7, <1>a, SaveStep DEF Remembers
  <2>2. Remembers(p)'
    BY <1>7, <2>1, SaveStep DEF Remembers, Held, Kept
  <2>3. Clear(store'.states, receipts')
    BY <1>7, <1>a, <2>1, SaveStep DEF Clear
  <2> QED
    BY <1>7, <1>a, <2>2, <2>3, SaveStep
<1>8. CASE ProbeForget(p)
  <2>1. Remembers(p)'
    BY <1>8, <1>a, <1>c, ProbeStep DEF Remembers, Held, Kept
  <2> QED
    BY <1>8, <1>a, <2>1, ProbeStep
<1>9. CASE RereadStates(p)
  <2>1. /\ job[p].at = "reread" /\ job'[p].cmd = job[p].cmd /\ store' = store
        /\ job'[p].plan = job[p].plan /\ job'[p].target = job[p].target
        /\ job'[p].rows = Prune(store.states, job[p].plan, job[p].now)
        /\ job'[p].at = IF Counts(job[p]) THEN "keep" ELSE "retain"
    BY <1>9, RereadStep DEF Kept
  <2>2. job[p].cmd = "forget"
        /\ store.policy.forgotten \cup job[p].target \subseteq job[p].plan.forgotten
    BY <1>a, <2>1 DEF Remembers
  <2>3. Clear(job'[p].rows, job[p].plan.forgotten)
    BY <1>a, <2>1, PruneForgets DEF Clear, Store
  <2>4. ~Counts(job[p]) => Clear(store.states, job[p].plan.forgotten)
    BY NothingCounted
  <2>5. Remembers(p)'
    BY <2>1, <2>2, <2>3, <2>4 DEF Remembers
  <2> QED
    BY <1>9, <1>a, <2>5, RereadStep
<1>10. CASE SaveSurvivors(p)
  <2>1. /\ job[p].cmd = "forget" /\ Clear(job[p].rows, job[p].plan.forgotten)
        /\ store.policy.forgotten \cup job[p].target \subseteq job[p].plan.forgotten
    BY <1>10, <1>a, KeepStep DEF Remembers
  <2>2. Remembers(p)'
    BY <1>10, <2>1, KeepStep DEF Remembers, Held, Kept
  <2>3. Clear(store'.states, receipts')
    BY <1>10, <1>a, <2>1, KeepStep DEF Clear
  <2> QED
    BY <1>10, <1>a, <2>2, <2>3, KeepStep
<1>11. CASE SaveRetention(p)
  <2>1. /\ job[p].at = "retain" /\ store'.policy = job[p].plan
        /\ store'.states = store.states
    BY <1>11, RetainStep
  <2>2. CASE job[p].cmd = "refresh"
    <3>1. job[p].plan.forgotten = store.policy.forgotten
          /\ Clear(job[p].rows, store.policy.forgotten)
      BY <1>a, <2>1, <2>2 DEF Remembers
    <3>2. AfterRetain(job[p]) = "save"
      BY <2>2 DEF AfterRetain
    <3>3. job'[p].at = "save" /\ Held(job[p], job'[p]) /\ receipts' = receipts
      BY <1>11, <3>2, RetainStep
    <3>4. Remembers(p)'
      BY <2>1, <2>2, <3>1, <3>3 DEF Remembers, Held, Kept
    <3> QED
      BY <1>a, <2>1, <3>1, <3>3, <3>4
  <2>3. CASE job[p].cmd = "forget"
    <3>1. /\ store.policy.forgotten \cup job[p].target \subseteq job[p].plan.forgotten
          /\ Clear(store.states, job[p].plan.forgotten)
      BY <1>a, <2>1, <2>3 DEF Remembers
    <3>2. AfterRetain(job[p]) \in {"drop", "idle"}
      BY <2>3 DEF AfterRetain
    <3>3. /\ receipts' \subseteq receipts \cup job[p].target
          /\ \/ job'[p].at = "idle"
             \/ job'[p].at = "drop" /\ Held(job[p], job'[p])
      BY <1>11, <3>2, RetainStep
    <3>4. Remembers(p)'
      BY <1>c, <2>1, <3>1, <3>3 DEF Remembers, Held, Kept, Clear
    <3>5. receipts' \subseteq job[p].plan.forgotten
      BY <1>a, <3>1, <3>3
    <3>6. Clear(store'.states, receipts')
      BY <2>1, <3>1, <3>5 DEF Clear
    <3> QED
      BY <2>1, <3>4, <3>5, <3>6
  <2> QED
    BY <1>a, <2>1, <2>2, <2>3 DEF Remembers
<1>12. CASE IndexStep(p)
  <2>1. /\ job[p].at \in {"drop", "create", "fill"}
        /\ store'.policy = store.policy /\ store'.states = store.states
    BY <1>12, RebuildStep DEF SameRecord
  <2>2. CASE job'[p].at \in {"create", "fill", "pool"}
    <3>1. Held(job[p], job'[p]) /\ receipts' = receipts
      BY <1>12, <2>2, RebuildStep
    <3>2. Remembers(p)'
      BY <1>a, <2>1, <2>2, <3>1 DEF Remembers, Held, Kept
    <3> QED
      BY <1>a, <2>1, <3>1, <3>2
  <2>3. CASE job'[p].at = "idle"
    <3>1. job[p].cmd # "refresh" /\ receipts' = receipts \cup job[p].target
      BY <1>12, <2>3, RebuildStep
    <3>2. job[p].target \subseteq store.policy.forgotten /\ Clear(store.states, job[p].target)
      BY <1>a, <2>1, <3>1 DEF Remembers
    <3>3. Clear(store'.states, receipts')
      BY <1>a, <2>1, <3>1, <3>2 DEF Clear
    <3> QED
      BY <1>a, <1>c, <2>1, <2>3, <3>1, <3>2, <3>3
  <2> QED
    BY <1>12, <2>2, <2>3, RebuildStep
<1>13. CASE CopyOut(p)
  BY <1>13, <1>a, <1>c, Ends DEF CopyOut
<1> QED
  BY <1>1, <1>2, <1>3, <1>4, <1>5, <1>6, <1>7, <1>8, <1>9, <1>10, <1>11, <1>12, <1>13, <1>a
  DEF Work, RefreshStep, ForgetStep, CopyIn, At

\* A book that a forget has reported as forgotten stays in the policy and out of the
\* stored states, whatever is refreshed or forgotten afterwards and at whatever
\* step a command dies, one command at a time and as long as no backup from before
\* it is restored.
THEOREM ForgottenStayGoneHolds ==
    ASSUME Alone, "restore" \notin Commands
    PROVE  Spec => []ForgottenStayGone
<1>1. Init => ForgetInv
  <2> SUFFICES ASSUME Init PROVE ForgetInv
    OBVIOUS
  <2>1. \A p \in Proc : job[p].at = "idle"
    BY DEF Init, IdleJob
  <2>2. receipts = {}
    BY DEF Init
  <2> QED
    BY <2>1, <2>2 DEF ForgetInv, OneAtATime, NoRestore, Clear, Remembers
<1>2. TypeOK /\ ForgetInv /\ [Next]_vars => ForgetInv'
  <2> SUFFICES ASSUME TypeOK, ForgetInv, [Next]_vars PROVE ForgetInv'
    OBVIOUS
  <2>1. OneAtATime' /\ NoRestore'
    BY StaysAlone, NoRestoreStep DEF ForgetInv
  <2>2. ASSUME UNCHANGED <<job, receipts>>, SameRecord(store, store') PROVE ForgetInv'
    BY <2>1, <2>2 DEF ForgetInv, SameRecord, Remembers
  <2>3. CASE World \/ UNCHANGED vars
    BY <2>2, <2>3, WorldStep DEF vars, SameRecord
  <2>4. ASSUME NEW p \in Proc, Begin(p) \/ Work(p) \/ Die(p) PROVE ForgetInv'
    <3>1. \A q \in Proc \ {p} : job'[q].at = "idle"
      BY <2>4, OthersAreIdle DEF ForgetInv
    <3>2. \A q \in Proc \ {p} : Remembers(q)'
      BY <3>1 DEF Remembers
    <3> QED
      BY <2>1, <2>4, <3>2, CommandRemembers DEF ForgetInv
  <2> QED
    BY <2>3, <2>4 DEF Next
<1>3. ForgetInv => ForgottenStayGone
  BY DEF ForgetInv, Clear, ForgottenStayGone
<1> QED
  BY <1>1, <1>2, <1>3, TypeCorrect, PTL DEF Spec

(***************************************************************************)
(* What a skipped refresh leaves.                                          *)
(*                                                                         *)
(* Two records are alike under a policy when it makes the same of both,    *)
(* and then every later and tighter policy does (PruneTwice).  A file is   *)
(* current when the mtimes it records are the sources', and then its       *)
(* record is alike to what the sources hold.  Between the two writes of a  *)
(* command this is suspended: a forget has saved states pruned by a policy *)
(* it has yet to save, a refresh a horizon its states have yet to follow.  *)
(* Gathers says that what such a command holds makes up for it.            *)
(***************************************************************************)
Alike(shelf, days, fresh, read, policy, now) ==
    /\ Prune(shelf, policy, now) = Prune(fresh, policy, now)
    /\ PruneActivity(days, policy, now) = PruneActivity(read, policy, now)

AsIngested(shelf, days, policy) ==
    Alike(shelf, days, Unify(calibre, device), log, policy, today)

Current(s) == s.mtimes = {mtime} => AsIngested(s.states, s.activity, s.policy)

Between(j) == j.at = "save" \/ (j.at = "retain" /\ j.cmd = "forget")

Gathers(p) ==
    LET j == job[p]
        sound == j.seen = mtime /\ ~j.cfg.demo
    IN  /\ j.at \in {"mode", "decide", "books", "stats", "log", "prune", "save"} => j.cmd = "refresh"
        /\ j.at \in {"probe", "reread", "keep"} => j.cmd = "forget"
        /\ j.at = "retain" => j.cmd \in {"refresh", "forget"}
        /\ j.at # "idle" => j.now <= today
        /\ j.cmd = "refresh" => j.seen <= mtime
        /\ j.at = "stats" /\ sound => j.owned = calibre
        /\ j.at \in {"log", "prune"} /\ sound => j.rows = Unify(calibre, device)
        /\ j.at = "prune" /\ sound => j.days = log
        /\ j.at = "retain" /\ j.cmd = "refresh" /\ sound => AsIngested(j.rows, j.days, j.plan)
        /\ j.at = "save" /\ sound => AsIngested(j.rows, j.days, store.policy)
        /\ j.cmd = "forget" /\ j.at \in {"probe", "reread", "keep", "retain"} =>
             Tightens(store.policy, j.plan)
        /\ j.at = "keep" /\ store.mtimes = {mtime} => AsIngested(j.rows, j.days, j.plan)
        /\ j.at = "retain" /\ j.cmd = "forget" /\ store.mtimes = {mtime} =>
             AsIngested(store.states, store.activity, j.plan)

SkipInv ==
    /\ OneAtATime
    /\ \A s \in {store} \cup backup : \A m \in s.mtimes : m <= mtime
    /\ \A s \in backup : Current(s)
    /\ (\A p \in Proc : ~Between(job[p])) => Current(store)
    /\ \A p \in Proc : Gathers(p)

\* What is alike stays alike as time passes and as forgets tighten the policy.
LEMMA StaysAlike ==
    ASSUME NEW shelf \in Shelf, NEW fresh \in Shelf,
           NEW days \in SUBSET Day, NEW read \in SUBSET Day,
           NEW policy \in Policy, NEW next \in Policy, Tightens(policy, next),
           NEW day \in Day, NEW now \in Day, day <= now,
           Alike(shelf, days, fresh, read, policy, day)
    PROVE  Alike(shelf, days, fresh, read, next, now)
<1>1. Stricter(Cutoffs(policy, day), Cutoffs(next, now)) /\ policy.forgotten \subseteq next.forgotten
  BY TimeTightens DEF Tightens
<1>2. /\ Prune(Prune(shelf, policy, day), next, now) = Prune(shelf, next, now)
      /\ Prune(Prune(fresh, policy, day), next, now) = Prune(fresh, next, now)
  BY <1>1, PruneTwice
<1>3. /\ PruneActivity(PruneActivity(days, policy, day), next, now) = PruneActivity(days, next, now)
      /\ PruneActivity(PruneActivity(read, policy, day), next, now) = PruneActivity(read, next, now)
  BY <1>1, PruneActivityTwice
<1> QED
  BY <1>2, <1>3 DEF Alike

\* What is left of a record is alike to it.
LEMMA PrunedIsAlike ==
    ASSUME NEW shelf \in Shelf, NEW days \in SUBSET Day, NEW policy \in Policy,
           NEW day \in Day, NEW now \in Day, day <= now
    PROVE  Alike(Prune(shelf, policy, day), PruneActivity(days, policy, day),
                 shelf, days, policy, now)
<1>1. Tightens(policy, policy)
  BY DEF Tightens, Policy, Optional, Day
<1>2. Stricter(Cutoffs(policy, day), Cutoffs(policy, now))
  BY <1>1, TimeTightens
<1> QED
  BY <1>2, PruneTwice, PruneActivityTwice DEF Alike

\* What the sources hold is a record.
LEMMA LibraryType ==
    ASSUME TypeOK
    PROVE  Unify(calibre, device) \in Shelf /\ log \in SUBSET Day
<1>1. DOMAIN device \subseteq Book /\ \A b \in DOMAIN device : device[b] \in Day
  BY DEF TypeOK, RealBook
<1>2. calibre \in SUBSET Book /\ log \in SUBSET Day
  BY DEF TypeOK, RealBook
<1> QED
  BY <1>1, <1>2, UnifyType

\* A day later, or after a forget, what was as ingested still is.
LEMMA StaysIngested ==
    ASSUME TypeOK, NEW shelf \in Shelf, NEW days \in SUBSET Day,
           NEW policy \in Policy, NEW next \in Policy, Tightens(policy, next),
           NEW now \in Day, today <= now, AsIngested(shelf, days, policy)
    PROVE  Alike(shelf, days, Unify(calibre, device), log, next, now)
BY LibraryType, StaysAlike DEF AsIngested, TypeOK

\* A policy is as tight as itself.
LEMMA TightensItself == ASSUME NEW policy \in Policy PROVE Tightens(policy, policy)
BY DEF Tightens, Policy, Optional, Day

\* The world: a day that passes leaves what is alike alike; a source that changes
\* takes a new mtime, and no file or command claims to have seen that.
LEMMA WorldSkip ==
    ASSUME ~SameSecond, TypeOK, TypeOK', SkipInv, World
    PROVE  SkipInv'
<1>a. UNCHANGED <<job, backup>> /\ SameRecord(store, store')
  BY WorldStep
<1>b. OneAtATime' /\ \A s \in {store'} \cup backup' : \A m \in s.mtimes : m <= mtime
  BY <1>a DEF SkipInv, OneAtATime, SameRecord
<1>c. /\ mtime \in Nat /\ store \in Store /\ backup \subseteq Store
      /\ \A p \in Proc : job[p] \in Job
  BY DEF TypeOK
<1>1. CASE mtime' = mtime + 1 /\ UNCHANGED today
  <2>1. /\ \A s \in {store'} \cup backup' : s.mtimes # {mtime'}
        /\ \A s \in {store'} \cup backup' : \A m \in s.mtimes : m <= mtime'
    BY <1>1, <1>a, <1>b, <1>c DEF Store, Optional, SameRecord
  <2>2. ASSUME NEW p \in Proc PROVE Gathers(p)'
    <3>1. Gathers(p) /\ job[p].seen \in Nat
      BY <1>c DEF SkipInv, Job
    <3>2. job[p].cmd = "refresh" => job[p].seen <= mtime' /\ job[p].seen # mtime'
      BY <1>1, <1>c, <3>1 DEF Gathers
    <3> QED
      BY <1>1, <1>a, <2>1, <3>1, <3>2 DEF Gathers, SameRecord
  <2> QED
    BY <1>b, <2>1, <2>2 DEF SkipInv, Current
<1>2. CASE UNCHANGED <<mtime, calibre, device, log>> /\ (UNCHANGED today \/ today' = today + 1)
  <2>1. today \in Day /\ today' \in Day /\ today <= today'
    BY <1>2 DEF TypeOK, Day
  <2>2. ASSUME NEW shelf \in Shelf, NEW days \in SUBSET Day, NEW policy \in Policy,
               AsIngested(shelf, days, policy)
        PROVE  Alike(shelf, days, Unify(calibre', device'), log', policy, today')
    BY <1>2, <2>1, <2>2, StaysIngested, TightensItself
  <2>3. ASSUME NEW s \in Store, Current(s)
        PROVE  s.mtimes = {mtime'} =>
                 Alike(s.states, s.activity, Unify(calibre', device'), log', s.policy, today')
    BY <1>2, <2>2, <2>3 DEF Current, Store
  <2>4. \A s \in backup' : Current(s)'
    BY <1>a, <1>c, <2>3 DEF SkipInv, Current, AsIngested
  <2>5. (\A p \in Proc : ~Between(job'[p])) => Current(store)'
    BY <1>a, <1>c, <2>3 DEF SkipInv, Current, AsIngested, SameRecord
  <2>6. ASSUME NEW p \in Proc PROVE Gathers(p)'
    <3>1. /\ Gathers(p) /\ job[p].rows \in Shelf /\ job[p].days \in SUBSET Day
          /\ job[p].plan \in Policy /\ job[p].now \in Day
          /\ store.states \in Shelf /\ store.activity \in SUBSET Day /\ store.policy \in Policy
      BY <1>c DEF SkipInv, Job, Store
    <3>2. job[p].now <= today => job[p].now <= today'
      BY <2>1, <3>1 DEF Day
    <3>3. /\ AsIngested(job[p].rows, job[p].days, job[p].plan)
               => AsIngested(job[p].rows, job[p].days, job[p].plan)'
          /\ AsIngested(job[p].rows, job[p].days, store.policy)
               => AsIngested(job[p].rows, job[p].days, store.policy)'
          /\ AsIngested(store.states, store.activity, job[p].plan)
               => AsIngested(store.states, store.activity, job[p].plan)'
      BY <1>a, <2>2, <3>1 DEF AsIngested, SameRecord
    <3> QED
      BY <1>2, <1>a, <3>1, <3>2, <3>3 DEF Gathers, SameRecord
  <2> QED
    BY <1>2, <1>b, <2>4, <2>5, <2>6 DEF SkipInv
<1> QED
  BY <1>1, <1>2 DEF World, Midnight, ReadOnDevice, EditCalibre, SaveTaste, Touch, sources

\* A step of a command, when no other runs.
LEMMA CommandSkip ==
    ASSUME MortalAt \cap {"save", "retain"} = {},
           TypeOK, TypeOK', SkipInv, NEW p \in Proc, Begin(p) \/ Work(p) \/ Die(p),
           \A q \in Proc \ {p} : job[q].at = "idle" /\ job'[q].at = "idle"
    PROVE  /\ \A s \in {store'} \cup backup' : \A m \in s.mtimes : m <= mtime
           /\ \A s \in backup' : Current(s)'
           /\ ~Between(job'[p]) => Current(store)'
           /\ Gathers(p)'
<1>a. /\ job[p] \in Job /\ store \in Store /\ backup \subseteq Store /\ Gathers(p)
      /\ job'[p] \in Job /\ store' \in Store /\ today \in Day /\ mtime \in Nat
  BY DEF TypeOK, SkipInv
<1>u. UNCHANGED <<today, calibre, device, log, mtime>>
  BY CommandFrame
<1>m. \A s \in {store} \cup backup : \A m \in s.mtimes : m <= mtime
  BY DEF SkipInv
<1>b. backup' = backup => \A s \in backup' : Current(s)'
  BY <1>u DEF SkipInv, Current, AsIngested
<1>s. ~Between(job[p]) => Current(store)
  BY DEF SkipInv, Between
<1>r. ASSUME SameRecord(store, store'), ~Between(job[p]) PROVE Current(store)'
  BY <1>r, <1>s, <1>u DEF SameRecord, Current, AsIngested
<1>d. ASSUME backup' = backup, store'.mtimes = store.mtimes
      PROVE  \A s \in {store'} \cup backup' : \A m \in s.mtimes : m <= mtime
  BY <1>d, <1>m
<1>i. ASSUME job'[p].at = "idle", job'[p].cmd # "refresh" PROVE Gathers(p)'
  BY <1>i DEF Gathers
<1>e. ASSUME End(p) PROVE job'[p].at = "idle" /\ Gathers(p)'
  BY <1>e, <1>i, Ends DEF IdleJob
<1>l. Unify(calibre, device) \in Shelf /\ log \in SUBSET Day
  BY LibraryType
<1>1. CASE Begin(p)
  <2>1. UNCHANGED <<store, backup>> /\ job[p].at = "idle"
    BY <1>1, CommandFrame DEF Begin, BeginRefresh, BeginForget, BeginBackup, BeginRestore, Start
  <2>2. ~Between(job[p])
    BY <2>1 DEF Between
  <2>3. Gathers(p)'
    <3>1. CASE job'[p].at = "probe"
      <4>1. PICK book \in Optional(Book), line \in Optional(Day) :
              job'[p].plan = WithForgottenBefore(WithForgottenBook(store.policy, book), line)
        BY <1>1, <3>1, BeginStep
      <4>2. Tightens(store'.policy, job'[p].plan)
        BY <1>a, <2>1, <4>1, ForgetTightens DEF Store
      <4>3. job'[p].cmd = "forget" /\ job'[p].now <= today'
        BY <1>1, <1>a, <1>u, <3>1, BeginStep DEF Day
      <4> QED
        BY <3>1, <4>2, <4>3 DEF Gathers
    <3>2. CASE job'[p].at # "probe"
      <4>1. job'[p].now <= today' /\ (job'[p].cmd = "refresh" => job'[p].seen <= mtime')
        BY <1>1, <1>a, <1>u, <3>2, BeginStep DEF Day
      <4> QED
        BY <1>1, <3>2, <4>1, BeginStep DEF Gathers
    <3> QED
      BY <3>1, <3>2
  <2> QED
    BY <1>b, <1>d, <1>r, <2>1, <2>2, <2>3 DEF SameRecord
<1>2. CASE Die(p)
  <2>1. UNCHANGED <<store, backup>> /\ End(p)
    BY <1>2, CommandFrame DEF Die
  <2>2. ~Between(job[p])
    BY <1>2 DEF Die, Between
  <2> QED
    BY <1>b, <1>d, <1>e, <1>r, <2>1, <2>2 DEF SameRecord
<1>3. CASE SaveCatalogMode(p) \/ SaveCatalogPool(p)
  <2>1. /\ SameRecord(store, store') /\ backup' = backup /\ job[p].at \in {"mode", "pool"}
    BY <1>3, CatalogStep
  <2>2. ~Between(job[p]) /\ store'.mtimes = store.mtimes
    BY <2>1 DEF Between, SameRecord
  <2>3. CASE SaveCatalogMode(p)
    <3>1. job[p].at = "mode" /\ job'[p].at = "decide" /\ Held(job[p], job'[p])
      BY <2>3, CatalogStep DEF SaveCatalogMode, At
    <3>2. Gathers(p)'
      BY <1>a, <1>u, <3>1 DEF Gathers, Held, Kept
    <3> QED
      BY <1>b, <1>d, <1>r, <2>1, <2>2, <3>2
  <2>4. CASE SaveCatalogPool(p)
    BY <1>b, <1>d, <1>e, <1>r, <2>1, <2>2, <2>4 DEF SaveCatalogPool
  <2> QED
    BY <1>3, <2>3, <2>4
<1>4. CASE DecideRefresh(p)
  <2>1. UNCHANGED <<store, backup>> /\ job[p].at = "decide"
    BY <1>4, DecideStep
  <2>2. ~Between(job[p])
    BY <2>1 DEF Between
  <2>3. Gathers(p)'
    <3>1. CASE End(p)
      BY <1>e, <3>1
    <3>2. CASE ~End(p)
      <4>1. PICK due : Go(p, [job[p] EXCEPT !.at = "books", !.due = due, !.force = FALSE])
        BY <1>4, <3>2 DEF DecideRefresh
      <4>2. job'[p] = [job[p] EXCEPT !.at = "books", !.due = due, !.force = FALSE]
        BY <4>1 DEF Go, TypeOK
      <4>3. job'[p].at = "books"
        BY <1>a, <4>2 DEF Job
      <4>4. Held(job[p], job'[p])
        BY <1>4, <4>3, DecideStep
      <4> QED
        BY <1>a, <1>u, <2>1, <4>3, <4>4 DEF Gathers, Held, Kept
    <3> QED
      BY <3>1, <3>2
  <2> QED
    BY <1>b, <1>d, <1>r, <2>1, <2>2, <2>3 DEF SameRecord
<1>5. CASE IngestBooks(p) \/ IngestStats(p) \/ IngestActivity(p)
  <2>1. /\ UNCHANGED <<store, backup>> /\ Kept(job[p], job'[p])
        /\ job[p].at \in {"books", "stats", "log"} /\ job'[p].at \in {"stats", "log", "prune"}
    BY <1>5, IngestStep
  <2>2. ~Between(job[p])
    BY <2>1 DEF Between
  <2>3. CASE job'[p].at = "stats"
    <3>1. job'[p].owned = IF job[p].cfg.demo THEN DemoBook ELSE calibre
      BY <1>5, <2>3, IngestStep
    <3>2. Gathers(p)'
      BY <1>a, <1>u, <2>1, <2>3, <3>1 DEF Gathers, Kept
    <3> QED
      BY <1>b, <1>d, <1>r, <2>1, <2>2, <3>2 DEF SameRecord
  <2>4. CASE job'[p].at = "log"
    <3>1. /\ job[p].at = "stats"
          /\ job'[p].rows = Unify(job[p].owned, IF job[p].cfg.demo THEN DemoStats ELSE device)
      BY <1>5, <2>4, IngestStep
    <3>2. job[p].seen = mtime /\ ~job[p].cfg.demo => job'[p].rows = Unify(calibre, device)
      BY <1>a, <3>1 DEF Gathers
    <3>3. Gathers(p)'
      BY <1>a, <1>u, <2>1, <2>4, <3>1, <3>2 DEF Gathers, Kept
    <3> QED
      BY <1>b, <1>d, <1>r, <2>1, <2>2, <3>3 DEF SameRecord
  <2>5. CASE job'[p].at = "prune"
    <3>1. /\ job[p].at = "log" /\ job'[p].rows = job[p].rows
          /\ job'[p].days = IF job[p].cfg.demo THEN {1} ELSE log
      BY <1>5, <2>5, IngestStep
    <3>2. job[p].seen = mtime /\ ~job[p].cfg.demo =>
            job'[p].rows = Unify(calibre, device) /\ job'[p].days = log
      BY <1>a, <3>1 DEF Gathers
    <3>3. Gathers(p)'
      BY <1>a, <1>u, <2>1, <2>5, <3>1, <3>2 DEF Gathers, Kept
    <3> QED
      BY <1>b, <1>d, <1>r, <2>1, <2>2, <3>3 DEF SameRecord
  <2> QED
    BY <2>1, <2>3, <2>4, <2>5
<1>6. CASE PruneIngested(p)
  <2>1. /\ UNCHANGED <<store, backup>> /\ Kept(job[p], job'[p])
        /\ job[p].at = "prune" /\ job'[p].at = "retain"
        /\ job'[p].rows = Prune(job[p].rows, job'[p].plan, job[p].now)
        /\ job'[p].days = PruneActivity(job[p].days, job'[p].plan, job[p].now)
    BY <1>6, PruneStep
  <2>2. ~Between(job[p]) /\ job[p].cmd = "refresh" /\ job[p].now <= today
    BY <1>a, <2>1 DEF Between, Gathers
  <2>3. job'[p].plan \in Policy /\ job[p].now \in Day
    BY <1>a DEF Job
  <2>4. job[p].seen = mtime /\ ~job[p].cfg.demo =>
          Alike(job'[p].rows, job'[p].days, Unify(calibre, device), log, job'[p].plan, today)
    BY <1>a, <1>l, <2>1, <2>2, <2>3, PrunedIsAlike DEF Gathers
  <2>5. Gathers(p)'
    BY <1>a, <1>u, <2>1, <2>2, <2>4 DEF Gathers, Kept, AsIngested
  <2> QED
    BY <1>b, <1>d, <1>r, <2>1, <2>2, <2>5 DEF SameRecord
<1>7. CASE SaveStates(p)
  <2>1. /\ backup' = backup /\ job[p].at = "save" /\ job'[p].at = "drop"
        /\ Held(job[p], job'[p]) /\ store'.states = job[p].rows /\ store'.activity = job[p].days
        /\ store'.mtimes = (IF job[p].cfg.demo THEN {} ELSE {job[p].seen})
        /\ store'.policy = store.policy
    BY <1>7, SaveStep
  <2>2. job[p].seen <= mtime /\ job[p].cmd = "refresh"
    BY <1>a, <2>1 DEF Gathers
  <2>3. \A s \in {store'} \cup backup' : \A m \in s.mtimes : m <= mtime
    BY <1>m, <2>1, <2>2
  <2>4. Current(store)'
    BY <1>a, <1>u, <2>1 DEF Gathers, Current, AsIngested
  <2>5. Gathers(p)'
    BY <1>a, <1>u, <2>1, <2>2 DEF Gathers, Held, Kept
  <2> QED
    BY <1>b, <2>1, <2>3, <2>4, <2>5
<1>8. CASE ProbeForget(p)
  <2>1. UNCHANGED <<store, backup>> /\ job[p].at = "probe"
    BY <1>8, ProbeStep
  <2>2. ~Between(job[p])
    BY <2>1 DEF Between
  <2>3. Gathers(p)'
    <3>1. CASE End(p)
      BY <1>e, <3>1
    <3>2. CASE Continue(p, "reread")
      <4>1. job'[p].at = "reread" /\ Held(job[p], job'[p])
        BY <3>2, GoesOn DEF Steps
      <4> QED
        BY <1>a, <1>u, <2>1, <4>1 DEF Gathers, Held, Kept
    <3> QED
      BY <1>8, <3>1, <3>2 DEF ProbeForget
  <2> QED
    BY <1>b, <1>d, <1>r, <2>1, <2>2, <2>3 DEF SameRecord
<1>9. CASE RereadStates(p)
  <2>1. /\ UNCHANGED <<store, backup>> /\ Kept(job[p], job'[p])
        /\ job[p].at = "reread" /\ job'[p].at \in {"keep", "retain"}
        /\ job'[p].plan = job[p].plan
        /\ job'[p].rows = Prune(store.states, job[p].plan, job[p].now)
        /\ job'[p].days = PruneActivity(store.activity, job[p].plan, job[p].now)
    BY <1>9, RereadStep
  <2>2. /\ ~Between(job[p]) /\ job[p].cmd = "forget" /\ job[p].now <= today
        /\ Tightens(store.policy, job[p].plan)
    BY <1>a, <2>1 DEF Between, Gathers
  <2>3. /\ job[p].plan \in Policy /\ job[p].now \in Day /\ store.policy \in Policy
        /\ store.states \in Shelf /\ store.activity \in SUBSET Day
    BY <1>a DEF Job, Store
  <2>4. ASSUME store.mtimes = {mtime}
        PROVE  Alike(store.states, store.activity, Unify(calibre, device), log, job[p].plan, today)
    <3>1. AsIngested(store.states, store.activity, store.policy)
      BY <1>s, <2>2, <2>4 DEF Current
    <3>2. today <= today
      BY <1>a DEF Day
    <3> QED
      BY <1>a, <2>2, <2>3, <3>1, <3>2, StaysIngested
  <2>5. Alike(job'[p].rows, job'[p].days, store.states, store.activity, job[p].plan, today)
    BY <1>a, <2>1, <2>2, <2>3, PrunedIsAlike
  <2>6. store.mtimes = {mtime} =>
          Alike(job'[p].rows, job'[p].days, Unify(calibre, device), log, job[p].plan, today)
    BY <2>4, <2>5 DEF Alike
  <2>7. Gathers(p)'
    BY <1>a, <1>u, <2>1, <2>2, <2>4, <2>6 DEF Gathers, Kept, AsIngested
  <2> QED
    BY <1>b, <1>d, <1>r, <2>1, <2>2, <2>7 DEF SameRecord
<1>10. CASE SaveSurvivors(p)
  <2>1. /\ backup' = backup /\ job[p].at = "keep" /\ job'[p].at = "retain"
        /\ Held(job[p], job'[p]) /\ store'.states = job[p].rows /\ store'.activity = job[p].days
        /\ store'.mtimes = store.mtimes /\ store'.policy = store.policy
    BY <1>10, KeepStep
  <2>2. job[p].cmd = "forget" /\ Between(job'[p])
    BY <1>a, <2>1 DEF Gathers, Between, Held, Kept
  <2>3. Gathers(p)'
    BY <1>a, <1>u, <2>1, <2>2 DEF Gathers, Held, Kept, AsIngested
  <2> QED
    BY <1>b, <1>d, <2>1, <2>2, <2>3
<1>11. CASE SaveRetention(p)
  <2>1. /\ backup' = backup /\ job[p].at = "retain" /\ store'.policy = job[p].plan
        /\ store'.states = store.states /\ store'.activity = store.activity
        /\ store'.mtimes = store.mtimes
    BY <1>11, RetainStep
  <2>2. CASE job[p].cmd = "refresh"
    <3>1. AfterRetain(job[p]) = "save"
      BY <2>2 DEF AfterRetain
    <3>2. job'[p].at = "save" /\ Held(job[p], job'[p])
      BY <1>11, <3>1, RetainStep
    <3>3. Between(job'[p])
      BY <3>2 DEF Between
    <3>4. Gathers(p)'
      BY <1>a, <1>u, <2>1, <2>2, <3>2 DEF Gathers, Held, Kept, AsIngested
    <3> QED
      BY <1>b, <1>d, <2>1, <3>3, <3>4
  <2>3. CASE job[p].cmd = "forget"
    <3>1. Current(store)'
      BY <1>a, <1>u, <2>1, <2>3 DEF Gathers, Current, AsIngested
    <3>2. AfterRetain(job[p]) \in {"drop", "idle"}
      BY <2>3 DEF AfterRetain
    <3>3. Gathers(p)'
      <4>1. CASE AfterRetain(job[p]) = "idle"
        BY <1>11, <1>e, <4>1 DEF SaveRetention
      <4>2. CASE AfterRetain(job[p]) = "drop"
        <5>1. job'[p].at = "drop" /\ Held(job[p], job'[p])
          BY <1>11, <4>2, RetainStep
        <5> QED
          BY <1>a, <1>u, <2>1, <2>3, <5>1 DEF Gathers, Held, Kept
      <4> QED
        BY <3>2, <4>1, <4>2
    <3> QED
      BY <1>b, <1>d, <2>1, <3>1, <3>3
  <2> QED
    BY <1>a, <2>1, <2>2, <2>3 DEF Gathers
<1>12. CASE IndexStep(p)
  <2>1. /\ SameRecord(store, store') /\ backup' = backup
        /\ job[p].at \in {"drop", "create", "fill"}
    BY <1>12, RebuildStep
  <2>2. ~Between(job[p]) /\ store'.mtimes = store.mtimes
    BY <2>1 DEF Between, SameRecord
  <2>3. Gathers(p)'
    <3>1. CASE job'[p].at = "idle"
      <4>1. End(p) \/ \E at \in Steps \ {"idle"} : Continue(p, at)
        BY <1>12 DEF IndexStep, DropIndex, CreateIndex, FillIndex, IndexFails, LeaveIndex,
                     AfterIndex, Steps
      <4>2. End(p)
        BY <3>1, <4>1, GoesOn
      <4> QED
        BY <1>e, <4>2
    <3>2. CASE job'[p].at # "idle"
      <4>1. job'[p].at \in {"create", "fill", "pool"} /\ Held(job[p], job'[p])
        BY <1>12, <3>2, RebuildStep
      <4> QED
        BY <1>a, <1>u, <2>1, <4>1 DEF Gathers, Held, Kept
    <3> QED
      BY <3>1, <3>2
  <2> QED
    BY <1>b, <1>d, <1>r, <2>1, <2>2, <2>3
<1>13. CASE CopyOut(p) \/ CopyIn(p)
  <2>1. ~Between(job[p]) /\ End(p)
    BY <1>13 DEF CopyOut, CopyIn, At, Between
  <2>2. Current(store) /\ \A s \in backup : Current(s)
    BY <1>s, <2>1 DEF SkipInv
  <2>3. store' \in {store} \cup backup /\ backup' \subseteq {store} \cup backup
    BY <1>13 DEF CopyOut, CopyIn, UnchangedButStore
  <2>4. /\ \A s \in {store'} \cup backup' : \A m \in s.mtimes : m <= mtime
        /\ \A s \in {store'} \cup backup' : Current(s)
    BY <1>m, <2>2, <2>3
  <2>5. Current(store)' /\ \A s \in backup' : Current(s)'
    BY <1>u, <2>4 DEF Current, AsIngested
  <2> QED
    BY <1>e, <2>1, <2>4, <2>5
<1> QED
  BY <1>1, <1>2, <1>3, <1>4, <1>5, <1>6, <1>7, <1>8, <1>9, <1>10, <1>11, <1>12, <1>13
  DEF Work, RefreshStep, ForgetStep

\* A refresh that skips because the sources are unchanged leaves what ingesting them
\* again would leave, but for what the policy has come to remove since: one command
\* at a time, where a source that changes takes a new mtime and no command dies
\* between the two writes of the record.
THEOREM SkipIsSoundHolds ==
    ASSUME Alone, ~SameSecond, MortalAt \cap {"save", "retain"} = {}
    PROVE  Spec => []SkipIsSound
<1>1. Init => SkipInv
  <2> SUFFICES ASSUME Init PROVE SkipInv
    OBVIOUS
  <2>1. \A p \in Proc : job[p].at = "idle" /\ job[p].cmd = "none"
    BY DEF Init, IdleJob
  <2>2. store.mtimes = {} /\ backup = {}
    BY DEF Init, EmptyStore
  <2> QED
    BY <2>1, <2>2 DEF SkipInv, OneAtATime, Current, Gathers
<1>2. TypeOK /\ TypeOK' /\ SkipInv /\ [Next]_vars => SkipInv'
  <2> SUFFICES ASSUME TypeOK, TypeOK', SkipInv, [Next]_vars PROVE SkipInv'
    OBVIOUS
  <2>1. CASE UNCHANGED vars
    BY <2>1 DEF vars, SkipInv, OneAtATime, Current, Between, Gathers, AsIngested
  <2>2. CASE World
    BY <2>2, WorldSkip
  <2>3. ASSUME NEW p \in Proc, Begin(p) \/ Work(p) \/ Die(p) PROVE SkipInv'
    <3>1. \A q \in Proc \ {p} : job[q].at = "idle" /\ job'[q] = job[q]
      BY <2>3, OthersAreIdle, CommandFrame DEF SkipInv
    <3>2. \A q \in Proc \ {p} : Gathers(q) /\ UNCHANGED mtime
      BY <2>3, CommandFrame DEF SkipInv
    <3>3. \A q \in Proc \ {p} : Gathers(q)'
      BY <3>1, <3>2 DEF Gathers
    <3>4. OneAtATime'
      BY StaysAlone DEF SkipInv
    <3>5. /\ \A s \in {store'} \cup backup' : \A m \in s.mtimes : m <= mtime'
          /\ \A s \in backup' : Current(s)'
          /\ ~Between(job'[p]) => Current(store)'
          /\ Gathers(p)'
      BY <2>3, <3>1, CommandSkip, CommandFrame
    <3> QED
      BY <3>3, <3>4, <3>5 DEF SkipInv
  <2> QED
    BY <2>1, <2>2, <2>3 DEF Next
<1>3. SkipInv => SkipIsSound
  BY DEF SkipInv, Between, Idle, Current, AsIngested, Alike, SkipIsSound
<1> QED
  BY <1>1, <1>2, <1>3, TypeCorrect, PTL DEF Spec

(***************************************************************************)
(* What a command is about to make of the policy.                          *)
(*                                                                         *)
(* While one command runs at a time the stored policy is the one it began  *)
(* from: a refresh has put the configured horizon in it, a forget what the *)
(* reader named, and nothing else.                                         *)
(***************************************************************************)
Named(policy, plan) ==
    \E book \in Optional(Book), line \in Optional(Day) :
        /\ <<book, line>> # <<{}, {}>>
        /\ plan = WithForgottenBefore(WithForgottenBook(policy, book), line)

Plans(p) ==
    LET j == job[p]
    IN  /\ j.at \in {"mode", "decide", "books", "stats", "log", "prune", "save"} => j.cmd = "refresh"
        /\ j.at \in {"probe", "reread", "keep"} => j.cmd = "forget"
        /\ j.at = "retain" => j.cmd \in {"refresh", "forget"}
        /\ j.at # "idle" /\ j.cmd = "refresh" => j.cfg \in Configs
        /\ j.at = "retain" /\ j.cmd = "refresh" =>
             j.plan = [store.policy EXCEPT !.horizon = j.cfg.horizon]
        /\ j.cmd = "forget" /\ j.at \in {"probe", "reread", "keep", "retain"} =>
             Named(store.policy, j.plan)

PlanInv == OneAtATime /\ \A p \in Proc : Plans(p)

\* A working or dying command leaves its own plan in order.
LEMMA CommandPlans ==
    ASSUME TypeOK, PlanInv, NEW p \in Proc, Begin(p) \/ Work(p) \/ Die(p)
    PROVE  Plans(p)'
<1>a. job[p] \in Job /\ store \in Store /\ Plans(p)
  BY DEF TypeOK, PlanInv
<1>i. job'[p].at = "idle" => Plans(p)'
  BY DEF Plans
<1>1. CASE Begin(p)
  <2>1. UNCHANGED store
    BY <1>1, CommandFrame
  <2> QED
    BY <1>1, <2>1, BeginStep DEF Plans, Named
<1>2. CASE Die(p) \/ CopyOut(p) \/ CopyIn(p)
  BY <1>2, <1>i, Ends DEF Die, CopyOut, CopyIn
<1>3. CASE SaveCatalogMode(p) \/ SaveCatalogPool(p)
  <2>1. store'.policy = store.policy
    BY <1>3, CatalogStep DEF SameRecord
  <2>2. CASE job'[p].at # "idle"
    <3>1. job[p].at = "mode" /\ job'[p].at = "decide" /\ Held(job[p], job'[p])
      BY <1>3, <2>2, CatalogStep
    <3> QED
      BY <1>a, <3>1 DEF Plans, Held, Kept
  <2> QED
    BY <1>i, <2>2
<1>4. CASE DecideRefresh(p)
  BY <1>4, <1>a, <1>i, DecideStep DEF Plans, Held, Kept
<1>5. CASE IngestBooks(p) \/ IngestStats(p) \/ IngestActivity(p)
  BY <1>5, <1>a, IngestStep DEF Plans, Kept
<1>6. CASE PruneIngested(p)
  BY <1>6, <1>a, PruneStep DEF Plans, Kept
<1>7. CASE SaveStates(p)
  BY <1>7, <1>a, SaveStep DEF Plans, Held, Kept
<1>8. CASE ProbeForget(p)
  BY <1>8, <1>a, <1>i, ProbeStep DEF Plans, Held, Kept
<1>9. CASE RereadStates(p)
  BY <1>9, <1>a, RereadStep DEF Plans, Kept
<1>10. CASE SaveSurvivors(p)
  BY <1>10, <1>a, KeepStep DEF Plans, Held, Kept
<1>11. CASE SaveRetention(p)
  <2>1. CASE job'[p].at # "idle"
    <3>1. /\ job[p].at = "retain" /\ job'[p].at \in {"save", "drop"} /\ Held(job[p], job'[p])
          /\ job'[p].at = AfterRetain(job[p])
      BY <1>11, <2>1, RetainStep
    <3>2. job'[p].at = "save" => job[p].cmd = "refresh"
      BY <3>1 DEF AfterRetain
    <3> QED
      BY <1>a, <3>1, <3>2 DEF Plans, Held, Kept
  <2> QED
    BY <1>i, <2>1
<1>12. CASE IndexStep(p)
  BY <1>12, <1>a, <1>i, RebuildStep DEF Plans, Held, Kept
<1> QED
  BY <1>1, <1>2, <1>3, <1>4, <1>5, <1>6, <1>7, <1>8, <1>9, <1>10, <1>11, <1>12
  DEF Work, RefreshStep, ForgetStep

\* Nothing between its reading of the policy and its writing of it changes what a
\* command plans, while it is the only one.
LEMMA PlanInvariant ==
    ASSUME Alone
    PROVE  Spec => []PlanInv
<1>1. Init => PlanInv
  <2> SUFFICES ASSUME Init PROVE PlanInv
    OBVIOUS
  <2>1. \A p \in Proc : job[p].at = "idle" /\ job[p].cmd = "none"
    BY DEF Init, IdleJob
  <2> QED
    BY <2>1 DEF PlanInv, OneAtATime, Plans
<1>2. TypeOK /\ PlanInv /\ [Next]_vars => PlanInv'
  <2> SUFFICES ASSUME TypeOK, PlanInv, [Next]_vars PROVE PlanInv'
    OBVIOUS
  <2>1. OneAtATime'
    BY StaysAlone DEF PlanInv
  <2>2. CASE World \/ UNCHANGED vars
    <3>1. UNCHANGED job /\ store'.policy = store.policy
      BY <2>2, WorldStep DEF vars, SameRecord
    <3> QED
      BY <2>1, <3>1 DEF PlanInv, Plans
  <2>3. ASSUME NEW p \in Proc, Begin(p) \/ Work(p) \/ Die(p) PROVE PlanInv'
    <3>1. \A q \in Proc \ {p} : job'[q].at = "idle" /\ job'[q] = job[q]
      BY <2>3, OthersAreIdle, CommandFrame DEF PlanInv
    <3>2. \A q \in Proc \ {p} : Plans(q)'
      BY <3>1 DEF Plans
    <3>3. Plans(p)'
      BY <2>3, CommandPlans
    <3> QED
      BY <2>1, <3>2, <3>3 DEF PlanInv
  <2> QED
    BY <2>2, <2>3 DEF Next
<1> QED
  BY <1>1, <1>2, TypeCorrect, PTL DEF Spec

\* The policy is put by save_retention alone, and by a restore.
LEMMA PolicyCases ==
    ASSUME TypeOK, [Next]_vars
    PROVE  \/ store'.policy = store.policy
           \/ \E p \in Proc : SaveRetention(p) \/ CopyIn(p)
<1>1. CASE World \/ UNCHANGED vars
  BY <1>1, WorldStep DEF vars, SameRecord
<1>2. ASSUME NEW p \in Proc, Begin(p) \/ Work(p) \/ Die(p)
      PROVE  store'.policy = store.policy \/ SaveRetention(p) \/ CopyIn(p)
  <2>1. CASE Begin(p) \/ Die(p) \/ CopyOut(p)
    BY <2>1, CommandFrame DEF CopyOut
  <2>2. CASE RefreshStep(p)
    BY <2>2, CatalogStep, DecideStep, IngestStep, PruneStep, SaveStep DEF RefreshStep, SameRecord
  <2>3. CASE ForgetStep(p)
    BY <2>3, ProbeStep, RereadStep, KeepStep DEF ForgetStep
  <2>4. CASE IndexStep(p)
    BY <2>4, RebuildStep DEF SameRecord
  <2> QED
    BY <1>2, <2>1, <2>2, <2>3, <2>4 DEF Work
<1> QED
  BY <1>1, <1>2 DEF Next

\* No command takes back a forget, wherever commands die: what the policy names it
\* goes on naming, and its line stays or moves forward, while one command runs at a
\* time and no backup is restored.
THEOREM ForgetsAreRememberedHolds ==
    ASSUME Alone, "restore" \notin Commands
    PROVE  Spec => ForgetsAreRemembered
<1> DEFINE Remembered ==
        /\ store.policy.forgotten \subseteq store'.policy.forgotten
        /\ \A d \in store.policy.before : \E e \in store'.policy.before : e >= d
<1>1. Init => NoRestore
  BY DEF Init, NoRestore, IdleJob
<1>2. TypeOK /\ NoRestore /\ [Next]_vars => NoRestore'
  BY NoRestoreStep
<1>3. TypeOK /\ PlanInv /\ NoRestore /\ [Next]_vars => Remembered
  <2> SUFFICES ASSUME TypeOK, PlanInv, NoRestore, [Next]_vars PROVE Remembered
    OBVIOUS
  <2>1. store.policy \in Policy /\ Tightens(store.policy, store.policy)
    BY TightensItself DEF TypeOK, Store
  <2>2. CASE store'.policy = store.policy
    BY <2>1, <2>2 DEF Tightens
  <2>3. ASSUME NEW p \in Proc, SaveRetention(p) PROVE Remembered
    <3>1. job[p].at = "retain" /\ store'.policy = job[p].plan
      BY <2>3, RetainStep
    <3>2. CASE job[p].cmd = "refresh"
      <4>1. store'.policy = [store.policy EXCEPT !.horizon = job[p].cfg.horizon]
        BY <3>1, <3>2 DEF PlanInv, Plans
      <4>2. /\ store'.policy.forgotten = store.policy.forgotten
            /\ store'.policy.before = store.policy.before
        BY <2>1, <4>1 DEF Policy
      <4> QED
        BY <2>1, <4>2 DEF Tightens
    <3>3. CASE job[p].cmd = "forget"
      <4>1. Named(store.policy, store'.policy)
        BY <3>1, <3>3 DEF PlanInv, Plans
      <4>2. Tightens(store.policy, store'.policy)
        BY <2>1, <4>1, ForgetTightens DEF Named
      <4> QED
        BY <4>2 DEF Tightens
    <3> QED
      BY <3>1, <3>2, <3>3 DEF PlanInv, Plans
  <2>4. \A p \in Proc : ~CopyIn(p)
    BY DEF NoRestore, CopyIn, At
  <2> QED
    BY <2>2, <2>3, <2>4, PolicyCases
<1> QED
  BY <1>1, <1>2, <1>3, TypeCorrect, PlanInvariant, PTL DEF Spec, ForgetsAreRemembered

(***************************************************************************)
(* The stored record and the stored policy.                                *)
(*                                                                         *)
(* ObeysItself says of a file, the live one or a backup, that its record   *)
(* obeys its policy.  Between the two writes of a command the live file    *)
(* need not: Obedient says that then the command holds the other half, and *)
(* that what a forget is about to store is what it measured.               *)
(***************************************************************************)
ObeysItself(s) == \A day \in s.enforcedOn : Obeys(s.states, s.activity, s.policy, day)

Obedient(p) ==
    LET j == job[p]
    IN  /\ j.at = "retain" /\ j.cmd = "refresh" => Obeys(j.rows, j.days, j.plan, j.now)
        /\ j.at = "save" =>
             store.enforcedOn = {j.now} /\ Obeys(j.rows, j.days, store.policy, j.now)
        /\ j.at \in {"reread", "keep"} => Counts(j)
        /\ j.at = "keep" =>
             /\ j.rows = Prune(store.states, j.plan, j.now)
             /\ j.days = PruneActivity(store.activity, j.plan, j.now)
        /\ j.at = "retain" /\ j.cmd = "forget" =>
             Obeys(store.states, store.activity, j.plan, j.now)

RecordInv ==
    /\ \A s \in backup : ObeysItself(s)
    /\ (\A p \in Proc : ~Between(job[p])) => ObeysItself(store)
    /\ \A p \in Proc : Obedient(p)

\* A command that holds what it held, over a record that is what it was.
LEMMA StaysObedient ==
    ASSUME NEW p \in Proc, Obedient(p), SameRecord(store, store'), Held(job[p], job'[p]),
           job'[p].at \in {"save", "retain", "reread", "keep"} => job'[p].at = job[p].at
    PROVE  Obedient(p)'
BY DEF Obedient, SameRecord, Held, Kept, Counts

\* A step of a command, when no other runs.
LEMMA CommandObeys ==
    ASSUME MortalAt \cap {"save", "retain"} = {},
           TypeOK, PlanInv, RecordInv, NEW p \in Proc, Begin(p) \/ Work(p) \/ Die(p),
           \A q \in Proc \ {p} : job[q].at = "idle" /\ job'[q].at = "idle"
    PROVE  /\ \A s \in backup' : ObeysItself(s)
           /\ ~Between(job'[p]) => ObeysItself(store')
           /\ Obedient(p)'
<1>a. /\ job[p] \in Job /\ store \in Store
      /\ Plans(p) /\ Obedient(p) /\ \A s \in backup : ObeysItself(s)
  BY DEF TypeOK, PlanInv, RecordInv
<1>t. /\ job[p].rows \in Shelf /\ job[p].days \in SUBSET Day
      /\ store.states \in Shelf /\ store.activity \in SUBSET Day
  BY <1>a DEF Job, Store
<1>s. ~Between(job[p]) => ObeysItself(store)
  BY DEF RecordInv, Between
<1>r. SameRecord(store, store') /\ ~Between(job[p]) => ObeysItself(store')
  BY <1>s DEF SameRecord, ObeysItself
<1>q. store' = store => SameRecord(store, store')
  BY DEF SameRecord
<1>i. job'[p].at \notin {"save", "retain", "reread", "keep"} => Obedient(p)'
  BY DEF Obedient
<1>1. CASE Begin(p)
  <2>1. UNCHANGED <<store, backup>> /\ job[p].at = "idle"
    BY <1>1, CommandFrame DEF Begin, BeginRefresh, BeginForget, BeginBackup, BeginRestore, Start
  <2>2. job'[p].at \in {"mode", "probe", "copyOut", "copyIn"}
    BY <1>1, BeginStep
  <2> QED
    BY <1>a, <1>r, <1>q, <1>i, <2>1, <2>2 DEF Between
<1>2. CASE Die(p)
  <2>1. UNCHANGED <<store, backup>> /\ job'[p].at = "idle"
    BY <1>2, CommandFrame, Ends DEF Die
  <2>2. ~Between(job[p])
    BY <1>2 DEF Die, Between
  <2> QED
    BY <1>a, <1>r, <1>q, <1>i, <2>1, <2>2
<1>3. CASE SaveCatalogMode(p) \/ SaveCatalogPool(p)
  <2>1. /\ SameRecord(store, store') /\ backup' = backup
        /\ job[p].at \in {"mode", "pool"} /\ job'[p].at \in {"decide", "idle"}
    BY <1>3, CatalogStep
  <2> QED
    BY <1>a, <1>r, <1>i, <2>1 DEF Between
<1>4. CASE DecideRefresh(p) \/ IngestBooks(p) \/ IngestStats(p) \/ IngestActivity(p)
  <2>1. /\ UNCHANGED <<store, backup>> /\ job[p].at \in {"decide", "books", "stats", "log"}
        /\ job'[p].at \in {"idle", "books", "stats", "log", "prune"}
    BY <1>4, DecideStep, IngestStep
  <2> QED
    BY <1>a, <1>r, <1>q, <1>i, <2>1 DEF Between
<1>5. CASE PruneIngested(p)
  <2>1. /\ UNCHANGED <<store, backup>> /\ Kept(job[p], job'[p])
        /\ job[p].at = "prune" /\ job'[p].at = "retain"
        /\ job'[p].rows = Prune(job[p].rows, job'[p].plan, job[p].now)
        /\ job'[p].days = PruneActivity(job[p].days, job'[p].plan, job[p].now)
    BY <1>5, PruneStep
  <2>2. Obeys(job'[p].rows, job'[p].days, job'[p].plan, job[p].now)
    BY <1>t, <2>1, PrunedObeys
  <2>3. job[p].cmd = "refresh"
    BY <1>a, <2>1 DEF Plans
  <2>4. Obedient(p)'
    BY <2>1, <2>2, <2>3 DEF Obedient, Kept
  <2> QED
    BY <1>a, <1>r, <1>q, <2>1, <2>4 DEF Between
<1>6. CASE SaveStates(p)
  <2>1. /\ backup' = backup /\ job[p].at = "save" /\ job'[p].at = "drop"
        /\ store'.states = job[p].rows /\ store'.activity = job[p].days
        /\ store'.policy = store.policy /\ store'.enforcedOn = store.enforcedOn
    BY <1>6, SaveStep
  <2>2. ObeysItself(store')
    BY <1>a, <2>1 DEF Obedient, ObeysItself
  <2> QED
    BY <1>a, <1>i, <2>1, <2>2
<1>7. CASE ProbeForget(p)
  <2>1. UNCHANGED <<store, backup>> /\ job[p].at = "probe"
    BY <1>7, ProbeStep
  <2>2. Obedient(p)'
    <3>1. CASE job'[p].at = "idle"
      BY <1>i, <3>1
    <3>2. CASE job'[p].at # "idle"
      <4>1. job'[p].at = "reread" /\ Held(job[p], job'[p])
        BY <1>7, <3>2, ProbeStep
      <4>2. Counts(job[p])
        BY <1>7, <3>2, Ends DEF ProbeForget
      <4>3. Counts(job[p])'
        BY <2>1, <4>1, <4>2 DEF Counts, Held, Kept
      <4> QED
        BY <4>1, <4>3 DEF Obedient
    <3> QED
      BY <3>1, <3>2
  <2>3. ~Between(job'[p]) => ObeysItself(store')
    BY <1>r, <1>q, <2>1 DEF Between
  <2> QED
    BY <1>a, <2>1, <2>2, <2>3
<1>8. CASE RereadStates(p)
  <2>1. /\ UNCHANGED <<store, backup>> /\ Kept(job[p], job'[p])
        /\ job[p].at = "reread" /\ job'[p].plan = job[p].plan
        /\ job'[p].rows = Prune(store.states, job[p].plan, job[p].now)
        /\ job'[p].days = PruneActivity(store.activity, job[p].plan, job[p].now)
    BY <1>8, RereadStep
  <2>2. Counts(job[p])
    BY <1>a, <2>1 DEF Obedient
  <2>3. job'[p].at = "keep"
    BY <1>8, <2>2, RereadStep
  <2>4. Counts(job[p])'
    BY <2>1, <2>2 DEF Counts, Kept
  <2>5. Obedient(p)'
    BY <2>1, <2>3, <2>4 DEF Obedient, Kept
  <2> QED
    BY <1>a, <1>r, <1>q, <2>1, <2>3, <2>5 DEF Between
<1>9. CASE SaveSurvivors(p)
  <2>1. /\ backup' = backup /\ job[p].at = "keep" /\ job'[p].at = "retain"
        /\ Held(job[p], job'[p])
        /\ store'.states = job[p].rows /\ store'.activity = job[p].days
    BY <1>9, KeepStep
  <2>2. job[p].cmd = "forget"
    BY <1>a, <2>1 DEF Plans
  <2>3. Obeys(store'.states, store'.activity, job[p].plan, job[p].now)
    BY <1>a, <1>t, <2>1, PrunedObeys DEF Obedient
  <2>4. Obedient(p)' /\ Between(job'[p])
    BY <2>1, <2>2, <2>3 DEF Obedient, Between, Held, Kept
  <2> QED
    BY <1>a, <2>1, <2>4
<1>10. CASE SaveRetention(p)
  <2>1. /\ backup' = backup /\ job[p].at = "retain"
        /\ store'.policy = job[p].plan /\ store'.enforcedOn = {job[p].now}
        /\ store'.states = store.states /\ store'.activity = store.activity
    BY <1>10, RetainStep
  <2>2. CASE job[p].cmd = "refresh"
    <3>1. AfterRetain(job[p]) = "save"
      BY <2>2 DEF AfterRetain
    <3>2. job'[p].at = "save" /\ Held(job[p], job'[p])
      BY <1>10, <3>1, RetainStep
    <3>3. Obedient(p)' /\ Between(job'[p])
      BY <1>a, <2>1, <2>2, <3>2 DEF Obedient, Between, Held, Kept
    <3> QED
      BY <1>a, <2>1, <3>3
  <2>3. CASE job[p].cmd = "forget"
    <3>1. AfterRetain(job[p]) \in {"idle", "drop"}
      BY <2>3 DEF AfterRetain
    <3>2. job'[p].at \in {"idle", "drop"}
      BY <1>10, <3>1, RetainStep
    <3>3. ObeysItself(store')
      BY <1>a, <2>1, <2>3 DEF Obedient, ObeysItself
    <3> QED
      BY <1>a, <1>i, <2>1, <3>2, <3>3
  <2> QED
    BY <1>a, <2>1, <2>2, <2>3 DEF Plans
<1>11. CASE IndexStep(p)
  <2>1. /\ SameRecord(store, store') /\ backup' = backup
        /\ job[p].at \in {"drop", "create", "fill"}
        /\ job'[p].at \in {"create", "fill", "pool", "idle"}
    BY <1>11, RebuildStep
  <2> QED
    BY <1>a, <1>r, <1>i, <2>1 DEF Between
<1>12. CASE CopyOut(p) \/ CopyIn(p)
  <2>1. ~Between(job[p]) /\ job'[p].at = "idle"
    BY <1>12, Ends DEF CopyOut, CopyIn, At, Between
  <2>2. store' \in {store} \cup backup /\ backup' \subseteq {store} \cup backup
    BY <1>12 DEF CopyOut, CopyIn, UnchangedButStore
  <2> QED
    BY <1>a, <1>s, <1>i, <2>1, <2>2
<1> QED
  BY <1>1, <1>2, <1>3, <1>4, <1>5, <1>6, <1>7, <1>8, <1>9, <1>10, <1>11, <1>12
  DEF Work, RefreshStep, ForgetStep

\* The record and the policy agree whenever no command is between its two writes.
LEMMA RecordInvariant ==
    ASSUME Alone, MortalAt \cap {"save", "retain"} = {}
    PROVE  Spec => []RecordInv
<1>1. Init => RecordInv
  <2> SUFFICES ASSUME Init PROVE RecordInv
    OBVIOUS
  <2>1. \A p \in Proc : job[p].at = "idle" /\ job[p].cmd = "none"
    BY DEF Init, IdleJob
  <2>2. store.enforcedOn = {} /\ backup = {}
    BY DEF Init, EmptyStore
  <2> QED
    BY <2>1, <2>2 DEF RecordInv, Obedient, ObeysItself
<1>2. TypeOK /\ PlanInv /\ RecordInv /\ [Next]_vars => RecordInv'
  <2> SUFFICES ASSUME TypeOK, PlanInv, RecordInv, [Next]_vars PROVE RecordInv'
    OBVIOUS
  <2>1. CASE World \/ UNCHANGED vars
    <3>1. UNCHANGED <<job, backup>> /\ SameRecord(store, store')
      BY <2>1, WorldStep DEF vars, SameRecord
    <3>2. \A p \in Proc : Obedient(p)'
      BY <3>1, StaysObedient DEF RecordInv, Held, Kept
    <3>3. ObeysItself(store) => ObeysItself(store')
      BY <3>1 DEF SameRecord, ObeysItself
    <3> QED
      BY <3>1, <3>2, <3>3 DEF RecordInv, Between
  <2>2. ASSUME NEW p \in Proc, Begin(p) \/ Work(p) \/ Die(p) PROVE RecordInv'
    <3>1. \A q \in Proc \ {p} : job[q].at = "idle" /\ job'[q].at = "idle"
      BY <2>2, OthersAreIdle DEF PlanInv
    <3>2. \A q \in Proc \ {p} : Obedient(q)'
      BY <3>1 DEF Obedient
    <3>3. /\ \A s \in backup' : ObeysItself(s)
          /\ ~Between(job'[p]) => ObeysItself(store')
          /\ Obedient(p)'
      BY <2>2, <3>1, CommandObeys
    <3> QED
      BY <3>2, <3>3 DEF RecordInv
  <2> QED
    BY <2>1, <2>2 DEF Next
<1> QED
  BY <1>1, <1>2, TypeCorrect, PlanInvariant, PTL DEF Spec

\* Between commands the stored record holds nothing the stored policy removes, with
\* two orders of writing the two and backups restored over both: one command at a
\* time, and none dies between the two.
THEOREM RecordObeysPolicyHolds ==
    ASSUME Alone, MortalAt \cap {"save", "retain"} = {}
    PROVE  Spec => []RecordObeysPolicy
<1>1. RecordInv => RecordObeysPolicy
  BY DEF RecordInv, Between, Idle, ObeysItself, Obeys, RecordObeysPolicy
<1> QED
  BY <1>1, RecordInvariant, PTL

\* What the stored record shows of a reader's past.
ShowsWhatIsRetained ==
    \A day \in store.enforcedOn :
        LET cuts == Cutoffs(store.policy, day)
        IN  /\ \A b \in store.policy.forgotten \cap DOMAIN store.states :
                 ~store.states[b].owned
            /\ \A d \in store.activity : Retained(d, cuts)
            /\ \A b \in DOMAIN store.states : \A s \in store.states[b].stat :
                 s.log > 0 /\ cuts # {} =>
                   \E d \in Evidence(store.states[b]) : Retained(d, cuts)

\* Between commands nothing the reader forgot or let age out is stored: no owned book
\* that the policy names, no day before its cut-off, no history of a book without a
\* day that it retains.
THEOREM StoreShowsWhatIsRetained ==
    ASSUME Alone, MortalAt \cap {"save", "retain"} = {}
    PROVE  Spec => [](Idle => ShowsWhatIsRetained)
<1>1. TypeOK /\ RecordObeysPolicy => (Idle => ShowsWhatIsRetained)
  <2> SUFFICES ASSUME TypeOK, RecordObeysPolicy, Idle PROVE ShowsWhatIsRetained
    OBVIOUS
  <2>1. store.states \in Shelf
    BY DEF TypeOK, Store
  <2>2. \A day \in store.enforcedOn : Obeys(store.states, store.activity, store.policy, day)
    BY DEF RecordObeysPolicy, Obeys
  <2> QED
    BY <2>1, <2>2, ObeyingRecord DEF ShowsWhatIsRetained
<1> QED
  BY <1>1, TypeCorrect, RecordObeysPolicyHolds, PTL

(***************************************************************************)
(* The commands implement RecordStore.                                     *)
(*                                                                         *)
(* The record of RecordStore is the stored one with the second write of    *)
(* the running command made.  So a refresh is the step of RecordStore when *)
(* it puts the policy, for it then holds the states it will save, and a    *)
(* forget when it saves its survivors, for it then holds the policy it     *)
(* will put; the other write of each, and every other step, is a stutter.  *)
(***************************************************************************)

\* RecordStore says what it says with the operators of Retention.
LEMMA SamePrune ==
    ASSUME NEW shelf, NEW days, NEW policy, NEW now
    PROVE  /\ Record!Prune(shelf, policy, now) = Prune(shelf, policy, now)
           /\ Record!PruneActivity(days, policy, now) = PruneActivity(days, policy, now)
           /\ Record!CountsSomething(shelf, days, policy, now)
                <=> CountsSomething(shelf, days, policy, now)
<1>1. /\ \A cuts, day : Record!Retained(day, cuts) <=> Retained(day, cuts)
      /\ Record!Cutoffs(policy, now) = Cutoffs(policy, now)
      /\ \A row : Record!Evidence(row) = Evidence(row)
      /\ \A b : Record!IsForgotten(shelf, b, policy) <=> IsForgotten(shelf, b, policy)
  BY DEF Record!Retained, Retained, Record!Cutoffs, Cutoffs, Record!Evidence, Evidence,
         Record!IsForgotten, IsForgotten
<1>2. \A row, cuts : Record!StatIsStale(row, cuts) <=> StatIsStale(row, cuts)
  BY <1>1 DEF Record!StatIsStale, StatIsStale
<1>3. \A row, cuts : Record!PruneRow(row, cuts) = PruneRow(row, cuts)
  BY DEF Record!PruneRow, PruneRow, Record!StatIsStale, StatIsStale, Record!StripHistory,
         StripHistory, Record!Retained, Retained, Record!Evidence, Evidence
<1>4. Record!Prune(shelf, policy, now) = Prune(shelf, policy, now)
  BY <1>1, <1>3 DEF Record!Prune, Prune
<1>5. Record!PruneActivity(days, policy, now) = PruneActivity(days, policy, now)
  BY <1>1 DEF Record!PruneActivity, PruneActivity
<1>6. \A row, cuts : /\ Record!ClearsHistory(row, cuts) <=> ClearsHistory(row, cuts)
                     /\ Record!DropsProgress(row, cuts) <=> DropsProgress(row, cuts)
  BY <1>1, <1>2 DEF Record!ClearsHistory, ClearsHistory, Record!DropsProgress, DropsProgress
<1>7. Record!CountsSomething(shelf, days, policy, now)
        <=> CountsSomething(shelf, days, policy, now)
  BY <1>1, <1>5, <1>6 DEF Record!CountsSomething, CountsSomething
<1> QED
  BY <1>4, <1>5, <1>7

\* And with its sets, and the candidate policy of a forget.
LEMMA SameSets ==
    /\ Record!Day = Day /\ Record!Shelf = Shelf /\ Record!DefaultPolicy = DefaultPolicy
    /\ Record!Optional(Book) = Optional(Book) /\ Record!Optional(Day) = Optional(Day)
    /\ \A policy, book, line :
         Record!WithForgottenBefore(Record!WithForgottenBook(policy, book), line)
           = WithForgottenBefore(WithForgottenBook(policy, book), line)
BY DEF Record!Day, Day, Record!Shelf, Shelf, Record!Row, Row, Record!Stat, Stat,
       Record!Stamp, Stamp, Record!Optional, Optional, Record!DefaultPolicy, DefaultPolicy,
       Record!WithForgottenBefore, WithForgottenBefore,
       Record!WithForgottenBook, WithForgottenBook

\* The whole record, when one command runs: its own half, or what is stored.
LEMMA WholeOfOne ==
    ASSUME NEW p \in Proc, \A q \in Proc \ {p} : job[q].at = "idle" /\ job'[q].at = "idle"
    PROVE  /\ job[p].at = "save" => WholeStates = job[p].rows /\ WholeActivity = job[p].days
           /\ job[p].at # "save" => WholeStates = store.states /\ WholeActivity = store.activity
           /\ job[p].at = "retain" /\ job[p].cmd = "forget" =>
                WholePolicy = job[p].plan /\ WholeEnforcedOn = {job[p].now}
           /\ ~(job[p].at = "retain" /\ job[p].cmd = "forget") =>
                WholePolicy = store.policy /\ WholeEnforcedOn = store.enforcedOn
           /\ job'[p].at = "save" => WholeStates' = job'[p].rows /\ WholeActivity' = job'[p].days
           /\ job'[p].at # "save" =>
                WholeStates' = store'.states /\ WholeActivity' = store'.activity
           /\ job'[p].at = "retain" /\ job'[p].cmd = "forget" =>
                WholePolicy' = job'[p].plan /\ WholeEnforcedOn' = {job'[p].now}
           /\ ~(job'[p].at = "retain" /\ job'[p].cmd = "forget") =>
                WholePolicy' = store'.policy /\ WholeEnforcedOn' = store'.enforcedOn
<1>1. /\ ToSave = IF job[p].at = "save" THEN {p} ELSE {}
      /\ ToRetain = IF job[p].at = "retain" /\ job[p].cmd = "forget" THEN {p} ELSE {}
  BY DEF ToSave, ToRetain
<1>2. /\ ToSave' = IF job'[p].at = "save" THEN {p} ELSE {}
      /\ ToRetain' = IF job'[p].at = "retain" /\ job'[p].cmd = "forget" THEN {p} ELSE {}
  BY DEF ToSave, ToRetain
<1>3. (CHOOSE q \in {p} : TRUE) = p
  OBVIOUS
<1> QED
  BY <1>1, <1>2, <1>3 DEF WholeStates, WholeActivity, WholePolicy, WholeEnforcedOn

\* A step that is neither of a command's two writes is a stutter.
LEMMA RecordStutters ==
    ASSUME NEW p \in Proc, \A q \in Proc \ {p} : job[q].at = "idle" /\ job'[q].at = "idle",
           SameRecord(store, store'), ~Between(job[p]), ~Between(job'[p])
    PROVE  UNCHANGED Record!vars
BY WholeOfOne DEF Between, SameRecord, Record!vars

\* A refresh puts the policy.
LEMMA RefreshIsIngest ==
    ASSUME TypeOK, PlanInv, RecordInv, NEW p \in Proc, SaveRetention(p),
           \A q \in Proc \ {p} : job[q].at = "idle" /\ job'[q].at = "idle",
           job[p].cmd = "refresh"
    PROVE  Record!Next
<1>1. job[p] \in Job /\ store \in Store /\ Plans(p) /\ Obedient(p)
  BY DEF TypeOK, PlanInv, RecordInv
<1>2. /\ job[p].rows \in Shelf /\ job[p].days \in SUBSET Day /\ job[p].now \in Day
  BY <1>1 DEF Job
<1>3. /\ job[p].at = "retain"
      /\ store'.policy = job[p].plan /\ store'.enforcedOn = {job[p].now}
  BY RetainStep
<1>4. job'[p].at = "save" /\ Held(job[p], job'[p])
  <2>1. AfterRetain(job[p]) = "save"
    BY DEF AfterRetain
  <2> QED
    BY <2>1, RetainStep
<1>5. /\ job[p].cfg.horizon \in {cfg.horizon : cfg \in Configs}
      /\ job[p].plan = [store.policy EXCEPT !.horizon = job[p].cfg.horizon]
      /\ Obeys(job[p].rows, job[p].days, job[p].plan, job[p].now)
  BY <1>1, <1>3 DEF Plans, Obedient
<1>6. /\ WholePolicy = store.policy /\ WholePolicy' = job[p].plan
      /\ WholeEnforcedOn' = {job[p].now}
      /\ WholeStates' = job[p].rows /\ WholeActivity' = job[p].days
  BY <1>3, <1>4, WholeOfOne DEF Held
<1>7. Record!Ingest(job[p].cfg.horizon, job[p].now)
  BY <1>2, <1>5, <1>6, SamePrune, SameSets DEF Record!Ingest, Obeys
<1> QED
  BY <1>2, <1>5, <1>6, <1>7, SameSets DEF Record!Next

\* A forget saves its survivors.
LEMMA KeepIsForget ==
    ASSUME TypeOK, PlanInv, RecordInv, NEW p \in Proc, SaveSurvivors(p),
           \A q \in Proc \ {p} : job[q].at = "idle" /\ job'[q].at = "idle"
    PROVE  Record!Next
<1>1. job[p] \in Job /\ Plans(p) /\ Obedient(p)
  BY DEF TypeOK, PlanInv, RecordInv
<1>2. job[p].now \in Day
  BY <1>1 DEF Job
<1>3. /\ job[p].at = "keep" /\ job'[p].at = "retain" /\ Held(job[p], job'[p])
      /\ store'.states = job[p].rows /\ store'.activity = job[p].days
  BY KeepStep
<1>4. /\ job[p].cmd = "forget" /\ Named(store.policy, job[p].plan)
      /\ CountsSomething(store.states, store.activity, job[p].plan, job[p].now)
      /\ job[p].rows = Prune(store.states, job[p].plan, job[p].now)
      /\ job[p].days = PruneActivity(store.activity, job[p].plan, job[p].now)
  BY <1>1, <1>3 DEF Plans, Obedient, Counts
<1>5. /\ WholeStates = store.states /\ WholeActivity = store.activity
      /\ WholePolicy = store.policy
      /\ WholeStates' = job[p].rows /\ WholeActivity' = job[p].days
      /\ WholePolicy' = job[p].plan /\ WholeEnforcedOn' = {job[p].now}
  BY <1>3, <1>4, WholeOfOne DEF Held, Kept
<1>6. PICK book \in Optional(Book), line \in Optional(Day) :
        /\ <<book, line>> # <<{}, {}>>
        /\ job[p].plan = WithForgottenBefore(WithForgottenBook(store.policy, book), line)
  BY <1>4 DEF Named
<1>7. Record!Forget(book, line, job[p].now)
  BY <1>4, <1>5, <1>6, SamePrune, SameSets DEF Record!Forget
<1> QED
  BY <1>2, <1>5, <1>7, SameSets DEF Record!Next

\* What each step of a command is to RecordStore.
LEMMA CommandIsAtomic ==
    ASSUME MortalAt \cap {"save", "retain"} = {}, NoRestore,
           TypeOK, PlanInv, RecordInv, NEW p \in Proc, Begin(p) \/ Work(p) \/ Die(p),
           \A q \in Proc \ {p} : job[q].at = "idle" /\ job'[q].at = "idle"
    PROVE  Record!Next \/ UNCHANGED Record!vars
<1>a. Plans(p) /\ Obedient(p)
  BY DEF PlanInv, RecordInv
<1>q. store' = store => SameRecord(store, store')
  BY DEF SameRecord
<1>1. CASE Begin(p)
  <2>1. store' = store /\ ~Between(job[p])
    BY <1>1, CommandFrame
    DEF Begin, BeginRefresh, BeginForget, BeginBackup, BeginRestore, Start, Between
  <2>2. ~Between(job'[p])
    BY <1>1, BeginStep DEF Between
  <2> QED
    BY <1>q, <2>1, <2>2, RecordStutters
<1>2. CASE Die(p) \/ CopyOut(p)
  <2>1. store' = store /\ job'[p].at = "idle" /\ ~Between(job[p])
    BY <1>2, CommandFrame, Ends DEF Die, CopyOut, At, Between
  <2> QED
    BY <1>q, <2>1, RecordStutters DEF Between
<1>3. CASE SaveCatalogMode(p) \/ SaveCatalogPool(p)
  <2>1. /\ SameRecord(store, store')
        /\ job[p].at \in {"mode", "pool"} /\ job'[p].at \in {"decide", "idle"}
    BY <1>3, CatalogStep
  <2> QED
    BY <2>1, RecordStutters DEF Between
<1>4. CASE DecideRefresh(p) \/ IngestBooks(p) \/ IngestStats(p) \/ IngestActivity(p)
  <2>1. /\ store' = store /\ job[p].at \in {"decide", "books", "stats", "log"}
        /\ job'[p].at \in {"idle", "books", "stats", "log", "prune"}
    BY <1>4, DecideStep, IngestStep
  <2> QED
    BY <1>q, <2>1, RecordStutters DEF Between
<1>5. CASE PruneIngested(p)
  <2>1. /\ store' = store /\ Kept(job[p], job'[p])
        /\ job[p].at = "prune" /\ job'[p].at = "retain"
    BY <1>5, PruneStep
  <2>2. job'[p].cmd = "refresh"
    BY <1>a, <2>1 DEF Plans, Kept
  <2> QED
    BY <1>q, <2>1, <2>2, RecordStutters DEF Between
<1>6. CASE SaveStates(p)
  <2>1. /\ job[p].at = "save" /\ job'[p].at = "drop"
        /\ store'.states = job[p].rows /\ store'.activity = job[p].days
        /\ store'.policy = store.policy /\ store'.enforcedOn = store.enforcedOn
    BY <1>6, SaveStep
  <2>2. /\ WholeStates' = WholeStates /\ WholeActivity' = WholeActivity
        /\ WholePolicy' = WholePolicy /\ WholeEnforcedOn' = WholeEnforcedOn
    BY <2>1, WholeOfOne
  <2> QED
    BY <2>2 DEF Record!vars
<1>7. CASE ProbeForget(p) \/ RereadStates(p)
  <2>1. store' = store /\ job[p].at \in {"probe", "reread"}
    BY <1>7, ProbeStep, RereadStep
  <2>2. job'[p].at \in {"idle", "reread", "keep"}
    BY <1>7, <1>a, ProbeStep, RereadStep DEF Obedient
  <2> QED
    BY <1>q, <2>1, <2>2, RecordStutters DEF Between
<1>8. CASE SaveSurvivors(p)
  BY <1>8, KeepIsForget
<1>9. CASE SaveRetention(p)
  <2>1. /\ job[p].at = "retain"
        /\ store'.policy = job[p].plan /\ store'.enforcedOn = {job[p].now}
        /\ store'.states = store.states /\ store'.activity = store.activity
    BY <1>9, RetainStep
  <2>2. CASE job[p].cmd = "refresh"
    BY <1>9, <2>2, RefreshIsIngest
  <2>3. CASE job[p].cmd = "forget"
    <3>1. AfterRetain(job[p]) \in {"idle", "drop"}
      BY <2>3 DEF AfterRetain
    <3>2. job'[p].at \in {"idle", "drop"}
      BY <1>9, <3>1, RetainStep
    <3>3. /\ WholeStates' = WholeStates /\ WholeActivity' = WholeActivity
          /\ WholePolicy' = WholePolicy /\ WholeEnforcedOn' = WholeEnforcedOn
      BY <2>1, <2>3, <3>2, WholeOfOne
    <3> QED
      BY <3>3 DEF Record!vars
  <2> QED
    BY <1>a, <2>1, <2>2, <2>3 DEF Plans
<1>10. CASE IndexStep(p)
  <2>1. /\ SameRecord(store, store') /\ job[p].at \in {"drop", "create", "fill"}
        /\ job'[p].at \in {"create", "fill", "pool", "idle"}
    BY <1>10, RebuildStep
  <2> QED
    BY <2>1, RecordStutters DEF Between
<1>11. ~CopyIn(p)
  BY DEF NoRestore, CopyIn, At
<1> QED
  BY <1>1, <1>2, <1>3, <1>4, <1>5, <1>6, <1>7, <1>8, <1>9, <1>10, <1>11
  DEF Work, RefreshStep, ForgetStep

\* Each command that writes the reading record writes all of it at once, as far as
\* any other command can tell: one at a time, none dying between its two writes, and
\* no backup restored over the store.
THEOREM CommandsAreAtomicHolds ==
    ASSUME Alone, MortalAt \cap {"save", "retain"} = {}, "restore" \notin Commands
    PROVE  Spec => CommandsAreAtomic
<1>1. Init => Record!Init
  <2> SUFFICES ASSUME Init PROVE Record!Init
    OBVIOUS
  <2>1. ToSave = {} /\ ToRetain = {}
    BY DEF Init, IdleJob, ToSave, ToRetain
  <2>2. /\ store.states = <<>> /\ store.activity = {}
        /\ store.policy = DefaultPolicy /\ store.enforcedOn = {}
    BY DEF Init, EmptyStore
  <2> QED
    BY <2>1, <2>2, SameSets
    DEF Record!Init, WholeStates, WholeActivity, WholePolicy, WholeEnforcedOn
<1>2. Init => NoRestore
  BY DEF Init, NoRestore, IdleJob
<1>3. TypeOK /\ NoRestore /\ [Next]_vars => NoRestore'
  BY NoRestoreStep
<1>4. TypeOK /\ PlanInv /\ RecordInv /\ NoRestore /\ [Next]_vars => [Record!Next]_Record!vars
  <2> SUFFICES ASSUME TypeOK, PlanInv, RecordInv, NoRestore, [Next]_vars
               PROVE  Record!Next \/ UNCHANGED Record!vars
    OBVIOUS
  <2>1. CASE World \/ UNCHANGED vars
    <3>1. UNCHANGED job /\ SameRecord(store, store')
      BY <2>1, WorldStep DEF vars, SameRecord
    <3>2. /\ WholeStates' = WholeStates /\ WholeActivity' = WholeActivity
          /\ WholePolicy' = WholePolicy /\ WholeEnforcedOn' = WholeEnforcedOn
      BY <3>1 DEF SameRecord, ToSave, ToRetain, WholeStates, WholeActivity, WholePolicy,
                  WholeEnforcedOn
    <3> QED
      BY <3>2 DEF Record!vars
  <2>2. ASSUME NEW p \in Proc, Begin(p) \/ Work(p) \/ Die(p)
        PROVE  Record!Next \/ UNCHANGED Record!vars
    <3>1. \A q \in Proc \ {p} : job[q].at = "idle" /\ job'[q].at = "idle"
      BY <2>2, OthersAreIdle DEF PlanInv
    <3> QED
      BY <2>2, <3>1, CommandIsAtomic
  <2> QED
    BY <2>1, <2>2 DEF Next
<1> QED
  BY <1>1, <1>2, <1>3, <1>4, TypeCorrect, PlanInvariant, RecordInvariant, PTL
  DEF Spec, CommandsAreAtomic, Record!Spec
=============================================================================
