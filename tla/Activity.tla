------------------------------ MODULE Activity ------------------------------
(***************************************************************************)
(* What a page says of the reading record: the streaks (app/stats.py), the *)
(* year in review (app/wrapped.py) and, where there is no figure, why not  *)
(* (app/render.py), while the devices go on recording and refreshes and    *)
(* forgets prune the store under the retention policy.                     *)
(*                                                                         *)
(* Only KOReader keeps a log of days; a Kobo keeps a total per book.  Each *)
(* command is one step here: StacksCore takes them apart.  The figures of  *)
(* a year are its pages and its finished books; hours and days read follow *)
(* the pages.                                                              *)
(***************************************************************************)
EXTENDS Retention, SequencesExt

CONSTANTS
    OnKOReader,  \* the books read on KOReader; the others are read on a Kobo
    YearOf(_),   \* the year of a day
    Horizons,    \* the values of history_days a reader configures
    MaxPages     \* bound on the pages turned in a day

ASSUME OnKOReaderAssumption == OnKOReader \subseteq Book
ASSUME ActivityAssumption ==
    Horizons \subseteq Nat /\ MaxPages \in Nat \ {0} /\ MaxLog # 0
ASSUME YearAssumption == \A d, e \in Day : d <= e => YearOf(d) <= YearOf(e)

VARIABLES
    today,
    log,        \* KOReader's page_stat_data: pages turned on each day read
    library,    \* the books and their stats, as the devices hold them
    done,       \* the books read to the end
    connected,  \* whether the statistics of KOReader are configured
    unseen,     \* whether a source has changed since the last refresh
    kept, activity, finished,   \* the store: states, per-day activity, status
    retention,  \* the store's retention record
    ingested,   \* ghost: what the last refresh read, before it pruned
    masked      \* ghost: a forget has found the activity already gone

activityVars == <<today, log, library, done, connected, unseen,
          kept, activity, finished, retention, ingested, masked>>
devices == <<log, library, done, connected>>
store == <<kept, activity, finished, retention, ingested, masked>>

Log == UNION {[D -> 1..MaxPages] : D \in SUBSET Day}
Record == [log: Log, library: Shelf, done: SUBSET Book]

ActivityTypeOK ==
    /\ today \in Day
    /\ log \in Log
    /\ library \in Shelf
    /\ done \subseteq Book
    /\ connected \in BOOLEAN /\ unseen \in BOOLEAN /\ masked \in BOOLEAN
    /\ kept \in Shelf
    /\ activity \in Log
    /\ finished \subseteq Book
    /\ retention \in [policy: Policy, earliest: Optional(Int), deleted: BOOLEAN]
    /\ ingested \in Record

Unopened == [owned |-> TRUE, stat |-> {}, progress |-> {}]
NothingRead == [log |-> <<>>, library |-> <<>>, done |-> {}]

ActivityInit ==
    /\ today = 1
    /\ log = <<>>
    /\ library = [b \in Book |-> Unopened]
    /\ done = {}
    /\ connected = TRUE
    /\ unseen = TRUE
    /\ kept = <<>>
    /\ activity = <<>>
    /\ finished = {}
    /\ retention = [policy |-> DefaultPolicy, earliest |-> {}, deleted |-> FALSE]
    /\ ingested = NothingRead
    /\ masked = FALSE

(***************************************************************************)
(* The reader and the devices.                                             *)
(***************************************************************************)
Midnight ==
    /\ today < MaxDay
    /\ today' = today + 1
    /\ UNCHANGED <<devices, unseen, store>>

PagesOn(pages, d) == IF d \in DOMAIN pages THEN pages[d] ELSE 0

Read(b) ==
    /\ b \in OnKOReader => PagesOn(log, today) < MaxPages
    /\ log' = IF b \notin OnKOReader THEN log
              ELSE [d \in DOMAIN log \cup {today} |->
                       PagesOn(log, d) + (IF d = today THEN 1 ELSE 0)]
    /\ library' = [library EXCEPT ![b].stat = {[day |-> today, log |-> 1]}]
    /\ done' \in {done, done \cup {b}}
    /\ unseen' = TRUE
    /\ UNCHANGED <<today, connected, store>>

\* KOReader's path leaves the configuration, or comes back.
Reconfigure ==
    /\ connected' = ~connected
    /\ unseen' = TRUE
    /\ UNCHANGED <<today, log, library, done, store>>

(***************************************************************************)
(* The commands.                                                           *)
(***************************************************************************)
SourcesRead ==
    IF connected THEN [log |-> log, library |-> library, done |-> done]
    ELSE [log |-> <<>>,
          library |-> [b \in Book |-> IF b \in OnKOReader THEN Unopened ELSE library[b]],
          done |-> done \ OnKOReader]

\* apply_policy, saved with its retention record.
Enforce(record, policy) ==
    LET days == PruneActivity(DOMAIN record.log, policy, today)
        shelf == Prune(record.library, policy, today)
    IN  /\ activity' = [d \in days |-> record.log[d]]
        /\ kept' = shelf
        /\ finished' = record.done \cap DOMAIN shelf
        /\ retention' = [policy |-> policy, earliest |-> EarliestRetained(policy, today),
                         deleted |-> days # DOMAIN record.log]
        /\ UNCHANGED <<today, devices>>

\* A refresh ingests only what has changed; the horizon is configuration.
Refresh(h) ==
    /\ unseen
    /\ Enforce(SourcesRead, [retention.policy EXCEPT !.horizon = h])
    /\ unseen' = FALSE
    /\ ingested' = SourcesRead
    /\ masked' = FALSE

\* A forget prunes what the store holds, if that counts something.
Forget(book, line) ==
    LET policy == WithForgottenBefore(WithForgottenBook(retention.policy, book), line)
    IN  /\ <<book, line>> # <<{}, {}>>
        /\ CountsSomething(kept, DOMAIN activity, policy, today)
        /\ Enforce([log |-> activity, library |-> kept, done |-> finished], policy)
        /\ masked' = (masked \/ activity = <<>>)
        /\ UNCHANGED <<unseen, ingested>>

ActivityNext ==
    \/ Midnight
    \/ \E b \in Book : Read(b)
    \/ Reconfigure
    \/ \E h \in Horizons : Refresh(h)
    \/ \E book \in Optional(Book), line \in Optional(Day) : Forget(book, line)

ActivitySpec == ActivityInit /\ [][ActivityNext]_activityVars

(***************************************************************************)
(* Streaks.                                                                *)
(***************************************************************************)
\* Slip: a gap resets nothing.
RunsAcrossGaps(days) == [i \in 1..Len(days) |-> i]

\* The length of the run each active day, in order, ends.
Runs(days) ==
    LET run[i \in 1..Len(days)] ==
            IF i > 1 /\ days[i] = days[i - 1] + 1 THEN run[i - 1] + 1 ELSE 1
    IN  run

Ascending(days) ==
    CHOOSE s \in SetToSeqs(days) : \A i, j \in DOMAIN s : i < j => s[i] < s[j]

LongestStreak(days) ==
    LET runs == Runs(Ascending(days))
    IN  IF days = {} THEN 0 ELSE Max({runs[i] : i \in DOMAIN runs})

\* Back from today, or from yesterday while today is not yet a day of reading.
CurrentStreak(days, now) ==
    LET back[d \in -1..MaxDay] == IF d \in days THEN back[d - 1] + 1 ELSE 0
    IN  back[IF now \in days THEN now ELSE now - 1]

(***************************************************************************)
(* The year in review.                                                     *)
(***************************************************************************)
\* _infer_today_and_year: the last day of the record is today, its year the year.
InferredToday == IF activity = <<>> THEN 0 ELSE Max(DOMAIN activity)
InferredYear == IF activity = <<>> THEN {} ELSE {YearOf(InferredToday)}

DaysOf(year) == {d \in Day : YearOf(d) = year}

\* Slip: a year that ends after the boundary is whole.
CoverageByItsEnd(year) ==
    IF \A c \in retention.earliest : Max(DaysOf(year)) >= c THEN "full" ELSE "none"

Coverage(year) ==
    CASE \A d \in DaysOf(year), c \in retention.earliest : d >= c -> "full"
      [] \A d \in DaysOf(year) : \E c \in retention.earliest : d < c -> "none"
      [] OTHER -> "partial"

SumOver(pages, days) ==
    LET total[n \in 0..MaxDay] ==
            IF n = 0 THEN 0
            ELSE total[n - 1] + (IF n \in days THEN PagesOn(pages, n) ELSE 0)
    IN  total[MaxDay]

\* Books finished, dated by when they were last read.
FinishedIn(year, shelf, ended) ==
    {b \in ended \cap DOMAIN shelf : \E s \in shelf[b].stat : s.day \in DaysOf(year)}

Wrapped(year) == [pages |-> SumOver(activity, DaysOf(year)),
                  books |-> FinishedIn(year, kept, finished)]

(***************************************************************************)
(* Why there is no figure.                                                 *)
(***************************************************************************)
\* Slip: any retention policy explains an empty record.
DeletedUnderAPolicy == activity = <<>> /\ retention.policy # DefaultPolicy

ActivityDeleted == activity = <<>> /\ retention.deleted

\* ReadingStat.measured: what a horizon leaves of a stat still shows its pages.
StatsMeasured == \E b \in DOMAIN kept : kept[b].stat # {}

Says ==
    CASE activity # <<>> -> "measured"
      [] ActivityDeleted -> "not retained"
      [] activity = <<>> /\ ~ActivityDeleted /\ StatsMeasured -> "no log of days"
      [] OTHER -> "no source"

(***************************************************************************)
(* Properties.                                                             *)
(***************************************************************************)
\* The streaks of a page are the longest run of consecutive days in what is kept,
\* and the one that ends today or yesterday (stats.py, _streaks).
StreaksAreRuns ==
    LET days == DOMAIN activity
        Run(first, n) == first..(first + n - 1) \subseteq days
        lengths == 0..Cardinality(days)
    IN  /\ LongestStreak(days) = Max({n \in lengths : \E d \in Day : Run(d, n)})
        /\ \A now \in Day :
              LET last == IF now \in days THEN now ELSE now - 1
              IN  CurrentStreak(days, now) = Max({n \in lengths : Run(last - n + 1, n)})

\* A year reported without the note that part of it is gone is the whole year: its
\* figures are those of all that was read in it, forgotten books apart, and it is
\* the last year anything was read in (wrapped.py, compute_wrapped).
FullYearsAreWhole ==
    \A year \in InferredYear :
        Coverage(year) = "full" =>
            /\ Wrapped(year).pages = SumOver(ingested.log, DaysOf(year))
            /\ Wrapped(year).books =
                  FinishedIn(year, ingested.library, ingested.done)
                      \ retention.policy.forgotten
            /\ \A d \in DOMAIN ingested.log : YearOf(d) <= year

\* Where there is no day of reading the page says why, and it is true: the reader's
\* own policy is named exactly if the sources did record days.  A second forget on
\* an empty record replaces the count this rests on (stats.py, activity_deleted).
AbsenceIsAttributed ==
    (activity = <<>> /\ ~masked) =>
        (Says = "not retained" <=> ingested.log # <<>>)
=============================================================================
