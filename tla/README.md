# Queer the Stacks: a TLA+ verification project

Queer the Stacks is a self-hosted reading dashboard. It reads a reader's own
libraries (Calibre, KOReader, Kobo, Calibre-Web) strictly read-only, keeps the
state it derives from them in one SQLite file, and renders pages from that
file. This directory models the part of it in which correctness depends on the
order of steps or on several sources that disagree: the store and the commands
that write it, the retention policy and its deletions, backups, the search
index, the server's view cache, the caches of two remote services, the merge of
the sources, and what pages disclose, report and recommend.

Source paths are given from the repository's root (`ingest/store.py` is
`src/ingest/store.py` in `PROJECT.json`).

## 1. Inventory

| Component | State | Operations | What makes it correct |
| --- | --- | --- | --- |
| App-state store (`ingest/store.py`, `serde.py`) | rows of `app_state`: states, activity, refreshed_at, mtimes, origin, retention, taste, catalog pool, kosync cache, view revision | `save`, `save_retention`, `save_taste_adjustments`, `save_catalog_mode`, `save_catalog_refresh`, `save_progress` and their readers | each write of a row a page shows takes the next view revision, in the same transaction |
| Refresh (`ingest/refresh.py`) | none of its own; reads the sources and the store | mode, skip test, ingest, retention, save, index, pool | skipping is sound; what a forget or a horizon removed does not come back; origin and mtimes describe the states saved with them |
| Retention (`ingest/retention.py`) | the policy: horizon, forgotten ids, forgotten-before day; the boundary last enforced | `apply_policy`, `with_forgotten_*`, `coverage_of` | pure, idempotent; deletes history and never a shelf row that is not forgotten; never takes a forget back |
| Forget (`ingest/forget.py`) | none of its own | probe, prune the store, rewrite backups, receipt | what the receipt reports is gone stays gone |
| Search index (`ingest/search_index.py`) | an FTS5 table and a meta row in the store's file | `build_index`, `index_status`, `search` | an index that is used describes the stored states, all of them and in their order |
| Backup (`ingest/backup.py`) | copies of the store's file | `backup_store`, `restore_store` | whole files only |
| Server (`app/server.py`) | one cached view and its key; a lockout table; sessions in cookies | `_load_view`, `_search`, `_taste_submit`, login | a page is never older than its request; a cached view is served only when it is what would be built |
| Views (`app/view.py`, `render.py`, `browse.py`, `opds.py`, `share.py`, ...) | none | `view_from_store`, `build_view`, rendering | one page, one state of the store |
| Statistics (`app/stats.py`, `goals.py`, `forecast.py`, `wrapped.py`) | none | folds over activity and states | day boundaries, absence is not zero, a year called full is whole |
| Diversity report, privacy toggle (`app/diversity.py`) | the lens file, edited by hand | load, resolve what is sensitive, mask | what is to be hidden is nowhere to be seen |
| Sources (`ingest/calibre.py`, `koreader.py`, `kobo.py`, `calibre_web.py`, `snapshot.py`) | snapshot files | copy, verify, parse | no torn copy passes |
| kosync (`ingest/kosync.py`, `refresh._resolve_progress`) | the progress cache row | fetch, cache, last good | an error retries at once and never replaces a good answer |
| Unify (`ingest/unify.py`) | none | join books, stats, progress | one state a book, none lost |
| Catalog pool (`recommender/catalog_pool.py`, `catalogs.py`, `sources.py`) | a row of the store | fetch, merge | a failing source keeps its last good books |
| Taste (`ingest/taste.py`) | a row of the store | add, undo, clear | no adjustment is lost |
| Lists (`recommender/lists.py`, `lists_store.py`) | `lists.json` | new, add | no list is lost or half written |
| Archive (`ingest/archive.py`) | an export file | export, import | round trip |
| Recommender (`recommender/*`) | none | ranking, near misses, explanation, evaluation | a pick can cite a source; lenses only raise |
| Command line, configuration, demo library | none | start the above | |

**Interactions.** `stacks refresh`, `forget`, `backup`, `restore`, `taste`,
`import` are processes of their own that open the same SQLite file; the server
opens it again for every request, in a thread pool, and writes it from the
taste form. There is no lock beyond SQLite's own transactions, and most
commands read a row, work, and write a row in different transactions. The only
coordination is by value: the view revision (every rendered row), the recorded
mtimes and origin (the skip test), and the revision in the index's meta row.

**Hard behaviours.** A command dying between two transactions; two commands
side by side; sources that change while they are read; a policy that is read
and written back; an index that must be built after everything that moves the
revision; DDL that commits by itself; the clock moving a horizon or a
freshness banner while nothing is written; a restore moving the revision back.
`PROJECT.json` lists each at its line, with the property that is about it.

## 2. Modules

| Module | Models | State |
| --- | --- | --- |
| `Retention` | `ingest/retention.py`: policy, cut-offs, `apply_policy` as pure operators | - |
| `ReadingRecord` | what the reading record promises: every command one step | libraries, kept states and days, policy, the day it was enforced |
| `RecordStore` | what refresh and forget owe each other: each writes the whole record at once, a refresh what its policy leaves of anything read, a forget what it leaves of the record that was there | states, activity, policy, the day it was enforced |
| `StacksCore` | refresh, forget, backup, restore and the taste form, one transaction or read a step | sources and their mtimes, the store's rows with the index, a backup, the running commands, forgets reported done |
| `StacksClaims` | statements of comments and documents that the code does not always keep | (as `StacksCore`) |
| `ViewStore` | the store's promise to whoever caches a page: a change takes the next revision | the rendered rows together, the revision |
| `ViewCache` | `_load_view`: the server threads, the one-slot cache, writers, restarts, restores | the store's rows as write numbers, the revision, the cache, the requests |
| `ViewCacheClaims` | statements about pages that the code does not always keep | (as `ViewCache`) |
| `ProgressCache` | kosync: which keys a refresh asks about, requests that fail key by key, the row that caches the answers, the states that show them | the sources, the sync server, the row, the saved states, the running refreshes |
| `CatalogPool` | the public catalogues: configuration, allowlist, fetches source by source, the pool row and its status | configuration, what each source serves, the row, the running refresh, the hosts contacted |
| `Library` | what Calibre, KOReader, a Kobo, kosync and Calibre-Web say, and the states `_ingest_real` and `unify` make of it | the rows of each source; the ingest is a function of them |
| `Disclosure` | what the privacy toggle hides, from the lens file through cached page and index to what is shown | lens file, toggle, states, index, cache, request, answer |
| `Activity` | streaks, year in review, coverage, and the reason given where there is no figure, under pruning | KOReader's log, the devices' stats, the store's rows, the retention record |
| `Copies` | backups, restores, archives, and `stacks forget --include-backups` over all of them | the live store, the backup files, an archive, the forget that runs, its receipt |
| `Picks` | the taste adjustments, the profile, three rankings and the near misses, what each can cite | reading status, lens vocabulary, authored lists, adjustments, the forms being answered |
| `MC*` | small instances for TLC | |
| `*Proofs` | theorems (section 5) | |

How they fit together. `StacksCore` extends `Retention` and is shown to
implement `ViewStore` by the refinement mapping `Rendered` (the rows
`view_from_store` reads) and `store.rev`, and `RecordStore` by the mapping
`WholeStates` to `WholeEnforcedOn`: the record with the second of a command's two
transactions already made, for a refresh that has put the policy and has not
saved what it pruned, and for a forget that has saved its survivors and has not
put the policy. `ReadingRecord` implements `RecordStore` too, so that the detailed
and the atomic account of the record meet there. `ViewCache` starts from that promise:
its `Write` and `Restore` are all it assumes of the store. `ReadingRecord`
states with atomic commands what `apply_policy` owes them, and `Activity`
extends `Retention` in the same way to say what pages make of a pruned record.
`ProgressCache`, `CatalogPool`, `Library` and `Copies` each take apart a step of
`StacksCore`: the progress a refresh ingests, the pool it saves, the rows it
unifies, the backups it copies to.

### How definitions correspond to the code

`PROJECT.json` maps each definition to its lines. The conventions of the store
and its commands:

* **Time** is a day; a timestamp is its day ordinal, and one that is not
  positive is day 0, which is what "never" is in the code.
* **None or a value** is a set of at most one element (`Optional`).
* **A book** is its join key (title and first author). A book id and its key
  are one value: a book removed from Calibre and added again has the same id,
  and an edited title is a book removed and another one added. `Library` tells
  ids, titles and keys apart.
* **A stat** is the day of its last reading and one amount of history (`log`)
  for read time, sessions and highlights, which `_strip_history` clears
  together. Pages and totals are never pruned and are left out.
* **A list of states** is a function from keys to rows: `unify` emits one state
  a key, and its order is a function of the set of rows and of which are owned,
  which is what `Searchable` keeps of it.
* **The sources of an ingest** are read at three moments: the library (`books`),
  the devices' stats (`stats`), KOReader's log of days (`log`), each from a
  snapshot of its own (`refresh.py:325-332`). What a refresh will fetch is held
  in `due`, a forced one included.
* **A command** is a process with a step label and the values it holds in
  memory. Each transaction on the store is one step, and so is each reading of
  it whose result is used after a later write. Consecutive SELECTs with no
  write of the command between them (the skip test, a forget's probe, the
  mtimes and the origin `_apply_to_store` saves again), and the read and write
  of `save_catalog_mode`, are one step. The taste form's read and write are one
  step in `StacksCore` and two in `Picks`.
* **Dying** (`Die`) drops what a command holds. `MortalAt` says at which steps, and
  at which a rebuild of the index may fail.
* **The index**: `table` is what the FTS5 table holds, if it exists; `built`
  is the revision of the meta row. `DROP` and `CREATE` are steps of their own
  because Python's `sqlite3` opens a transaction for DML only, so that
  `with conn:` around them commits each at once; the inserts and the meta row
  are one transaction. A failing rebuild (`IndexFails`) is swallowed by its
  caller and the command goes on.
* **A view** under construction in `ViewCache` is the rows read so far, each
  the number of the write that made it. `since`, `late` and `base` are ghosts.

Those of the other modules:

* **Ages** (`ProgressCache`, `CatalogPool`) count clock ticks since the refresh
  that wrote a stamp began, because the code takes `now` once per refresh; they
  are capped where being older makes no difference, and `Never` is a missing
  stamp. A refresh that has run for `elapsed` ticks sees an age less by that.
* **Progress** is its timestamp in `ProgressCache` (0 is no progress): what it
  says follows from when it was made. In `Library` it is a place and a time.
* **The contents of a catalogue** are a version number, 0 being a collection
  without a book, which is an answer like any other. A failed update is `Failed`;
  a redirect stands for every answer that fails.
* **Ghosts** say how old a thing really is, apart from the stamps the code keeps:
  `heard`, the age of each value a refresh holds, whether a server gave it or the
  cache; `answered` in `ProgressCache`, that of the value now in the row, and
  `served` in `CatalogPool`, that of what the pool now keeps of each source.
* **A URL** is what `assert_allowed` tells apart: its host's class, whether it is
  HTTPS, and whether it is bare of credentials, fragment and port.
* **A page** in `Disclosure` is kept as what it was rendered from, the states,
  the toggle and the file, and what it shows follows. A lens without a mark is
  sensitive; a file that cannot be used leaves the built-in grouping.
* **A file** in `Copies` is the books it holds and the forgets in its retention
  record; a `copy2` that dies leaves a torn file. `told` (ghost) is what a file,
  or one it was copied from, was made to forget, and `replaced` records that a
  rewrite has put a smaller policy in the place of a backup's own.
* **Scores** in `Picks` are in units of 0.05, and the cosine is replaced by the
  dot product, which has its sign; what is cited and what is admitted depend on
  signs and on order.
* **Figures** in `Activity` are pages and finished books; hours and days read
  follow the pages.

## 3. Runs

| Run | Question | States |
| --- | --- | --- |
| `record` | does the record always obey its own policy? | 484 k |
| `core_index` | may search trust an index whose revision matches, and the origin? | 461 k |
| `core_skip` | may a refresh skip, do forgotten books stay gone, does the record obey its policy, and is a command of two transactions one step of `RecordStore`? | 1.49 M |
| `core_concurrent` | does the revision cover every rendered row? | 1.11 M |
| `view_cache` | is a page ever older than its request, or a cached view wrong? | 249 k |
| `progress` | does a failing sync server lose an answer or postpone one, and does progress arrive? | 581 k |
| `catalog` | whom does a refresh contact, what does a failure cost, and does the pool catch up? | 447 k |
| `library` | one reader, the freshest place, every book once, nothing measured that was not? | 488 k |
| `disclosure` | is what is to be hidden hidden on every page, and does `/search` confirm none of it? | 360 k |
| `activity` | are streaks, full years and the reasons for absence true? | 240 k |
| `picks` | can every pick and near miss cite a source, and do lenses only raise? | 24 k |
| `copies` | is a receipt true, and does a forget travel with its file? | 43 k |

Bounds, and why they are enough to meet the cases:

* `record`: two books, three days, horizons 0 and 1. Three days separate the
  day before the cut-off, the day of it and the one after; two books, one
  forgotten and one not.
* `core_index`: one real and two demo books, one process at a time, real,
  public and demo configurations, `MaxRev` 5: two whole refreshes, or a refresh
  and a forget, or a refresh, a backup, more writes and a restore; dying at
  every step; `MaxTaste` 4 lets the server write at all of them.
* `core_skip`: one book, three days, so that a horizon of one day passes over a
  day that was read; up to three changes of the sources, some of which fall inside
  an ingest. `MaxRev` bounds only the start of a command: one that has started
  runs to its end, and six make room for three. A rebuild of the index neither
  fails nor dies here, since the record does not depend on it; `core_index` has
  both. `ForgottenStayGone` is proved with deaths at every step and either
  `SameSecond` (section 5).
* `core_concurrent`: two processes, so every pair of steps of refresh and
  forget interleaves.
* `view_cache`: two threads and two writes; three rows, of which a save writes
  the first and the refresh time together and a single put the third. Two
  threads are what it takes to fill the slot under one key while the other
  looks it up.
* `progress`: one key, since keys meet only in the row that a save writes whole,
  two timestamps, a TTL of one tick in a refresh of at most one, and three
  changes: an answer, its loss, and a newer one.
* `catalog`: a source that may be fetched and one whose host nobody has allowed,
  a version with books and one without, and two changes, so that a reconfiguration
  to demo or off and back falls between the steps of a refresh.
* `library`: two books that have titles of their own or are two copies of one, a
  document KOReader knows by its file and one it does not, two users of
  Calibre-Web and rows that name none, two times, and three changes: two
  sources that disagree and a third that decides.
* `disclosure`: four descriptors, of the floor, marked, unmarked and declared
  harmless; a file that protects more than the floor and one that declares even
  the floor harmless, and neither; three changes.
* `activity`: three days in two years, a book on KOReader and one on a Kobo,
  horizons of none, one and two days.
* `picks`: an owned book and four candidates: of its theme, of another, of no
  theme but its author, and the book itself; two themes, one lens, two
  magnitudes, a shelf of two. The instance is finite without a bound.
* `copies`: two books, two backups and two forgets: one forget before a backup
  and one after it, or while a backup is made.

Which assumptions the runs carry:

* `core_index` and `core_skip` set `Alone`, the deployment the code describes:
  one reader at a terminal, so one command at a time, while the sources, the
  clock and the server's form move at any step. `ClaimSideBySide.cfg` drops it.
* `core_skip` lets no command die between the two writes of the record (`save`
  and `retain`): `ClaimForgetSurvives.cfg` and `ClaimBoundary.cfg` show what
  happens there, and `SkipIsSound`, `RecordObeysPolicy` and `CommandsAreAtomic`
  fail with them. It also assumes that a
  source that changes moves its mtime (`SameSecond = FALSE`): a whole-second
  mtime cannot tell otherwise.
* `progress` lets no refresh die between `PutProgress` and `SaveStates`: there an
  answer is in the cache and not in the states, and a skip hides it until the
  TTL (`SkipShowsTheCache` fails with a death at `"web"`). One refresh runs at a
  time: two side by side write back rows they read before, and
  `ValuesOutliveErrors` and `FreshnessIsHonest` fail, the latter because
  `save_progress` puts the stamp now in the row beside a value read before it
  (`store.py:366`).
* `view_cache` restores only while the server is stopped;
  `ClaimMonotonicKey.cfg` is the other case.
* Some properties name in their own statement where they stop: `LensIsHonoured`
  at an edit between the two reads of one request (`overlap`), `LineageRemembers`
  at a rewrite that puts the live policy over a larger one (`replaced`),
  `AbsenceIsAttributed` at a forget that found the record already empty
  (`masked`), `FreshestWins` at a key the catalogue has twice. Section 4 says
  what happens there.

**Fairness.** Two runs check liveness, under `FairSpec`. `SF_vars(Tick)`: physical
time goes on, though a tick is disabled while a refresh stands at its longest.
`WF_vars(RefreshStep)`: somebody keeps running `stacks refresh` (a timer, in the
deployment), and one that is not killed runs to its end, since every request of
the two clients has a timeout. Nothing is assumed of the remote services: the
properties say what follows if one goes on answering. `ProgressArrives` and
`PoolCatchesUp` have the form `<>[]P => <>[]Q`, deaths, failures and changes of
the world being bounded or unfair. No other run needs fairness.

`CHECK_DEADLOCK FALSE` is set where counters are bounded, or because a reader
may stop using the program. Every property has a mutant: a plausible slip in the
code (comments "Slip:" in the modules) under which TLC finds it violated. The
type invariants of `ReadingRecord`, `ViewCache`, `CatalogPool`, `Library`,
`Disclosure`, `Activity`, `Picks` and `Copies` hold on the same instances and are
not listed with the runs; section 5 proves each of them (that of `Picks` as
`TasteCorrect`).

## 4. Statements the code does not always keep

Each configuration here checks one statement of the repository (quoted in the
comment of the property) and TLC finds a behaviour that breaks it. They are kept
beside the runs for whoever works on the code they are about.

| Configuration | Module | What TLC shows |
| --- | --- | --- |
| `ClaimIndexUsable.cfg` | `MCStacksClaims` | an ingesting refresh that fetches the catalog rebuilds the index and then saves the pool, which moves the revision: `/search` refuses until another refresh ingests |
| `ClaimHorizon.cfg` | `MCStacksClaims` | a refresh that skips does not apply the horizon, although a day has passed, or it has just been configured |
| `ClaimForgetSurvives.cfg` | `MCStacksClaims` | the survivors are saved before the policy; a death between leaves the book gone and the forget unknown to the next ingest |
| `ClaimUnmatched.cfg` | `MCStacksClaims` | under a cut-off, a stat already stripped counts as cleared again, so a forget of an id that matches nothing is recorded |
| `ClaimBoundary.cfg` | `MCStacksClaims` | the boundary is recorded before the pruned states; a death between leaves history that pages call deleted |
| `ClaimNoRecord.cfg` | `MCStacksClaims` | a forgotten book that leaves Calibre returns as a stat without a book, which the policy does not name |
| `ClaimSideBySide.cfg` | `MCStacksClaims` | three properties, each refuted by two commands side by side (check one at a time): the index of one refresh is stamped with the revision of another's states; a forget that loaded demo states saves them under the origin of a real refresh; a refresh writes back the policy it read before a forget |
| `ClaimViews.cfg` | `MCViewCache` | two properties (check one at a time): a view cached fresh is served without the stale banner after its refresh time has aged; a page built across a save shows states and refresh time of different saves (filed under a key no longer current, so only that request sees it) |
| `ClaimBrowse.cfg` | `MCDisclosure` | the search form of the page leads to `/browse`, which filters by the descriptors as stored, with the configured toggle on, and so confirms what the toggle hides |
| `ClaimMonotonicKey.cfg` | `MCViewCache` | a restore under a running server brings a revision back, and with it an old cached view |
| `ClaimTasteKept.cfg` | `MCPicks` | two writers of the taste row: the second writes back what it read, without the answer of the first |
| `ClaimCommandAgrees.cfg` | `MCPicks` | an adjustment of a lens moves a book on the dashboard and not in `stacks recommend`, which resolves without a vocabulary, though `cli.py:115` says that the two never disagree |

Observed while modelling, at the edges the properties name or outside them:

* Disclosure. A lens file that cannot be parsed falls back to the built-in
  grouping, and a request reads the file twice, for its key and for its view.
  Switching the toggle on without a refresh leaves an index that still confirms
  what is to be hidden. `SearchConfirmsNothing` is about `/search`, its index and
  its scan; the page's form with `role="search"` (`render.py:1543`) submits to
  `/browse`, where `q` and `theme` are matched against unmasked tags
  (`browse.py:55`), which `ClaimBrowse.cfg` shows. The reasons for a
  recommendation or a near miss on the same page (`render.py:493`, `render.py:599`)
  and in OPDS (`opds.py:133`) are not masked, though `docs/audits/reading-privacy.md:94`
  says that no sensitive descriptor survives into any section of the rendered page;
  the pages of `Disclosure` do not have them. `?hide_sensitive=1` reaches `/` only.
* Forgets. A backup in which a forget matches nothing never learns of it, so
  restoring it and refreshing brings the book back; a rewrite replaces a backup's
  own policy by the live one; it is a copy over the original in place, which a
  death leaves torn, though the comment at `forget.py:163` says that a crash
  leaves the original intact. `import-archive` saves what the archive holds
  unpruned. A forgotten book leaves the owned keys and may be recommended.
* Activity. A forget on an already empty record replaces the counts from which
  the page tells that the reader deleted it. Today is inferred as the last active
  day (`view.py:94`), so a current streak never breaks. Finished books are dated
  by their last reading.
* Sources. Where Calibre has one title twice, a later Calibre-Web row may replace
  a fresher one; a second stat of one join key is ignored; an unopened copy on a
  Kobo shadows Calibre-Web's minutes.
* Taste. An undo of an adjustment that replaced another does not bring that one
  back. A positive adjustment alone admits a book that carries its tag, though
  the docstring of `adjustment_delta` says that none can be the sole reason.
  `normalize_target` folds inner whitespace and `ThemeTag.normalized` does not.
* Search. A hit's position counts the states in stored order, and the page uses
  it on the library sorted by title and authors; the two orders agree unless two
  books share a title.

## 5. Theorems

All are proved for every value of the constants under the modules' named
assumptions, down to the last leaf.

| Module | Theorems | Argument |
| --- | --- | --- |
| `RetentionProofs` | lemmas on `Prune`, ending in `PruneTwice`, `PruneIdempotent` and `ObeyingRecord`; the lemmas on finite sets and on listings that other modules share | by cases on a row: no cut-off, stripped, kept |
| `ReadingRecordProofs` | `TypeCorrect`, `RecordObeysPolicyHolds`, `ForgottenAreGoneHolds`, `KeptHistoryHasEvidenceHolds`, `ForgetsAreRememberedHolds`, `HorizonKeepsTheShelfHolds`, `ImplementsRecordStore`; of `Library`: `LibraryTypeCorrect`, `OneReaderHolds`, `EveryBookOnceHolds`, `MeterIsMeasuredHolds`, `FreshestWinsHolds` | every command stores `Prune` of something; idempotence makes that a fixed point, and `ObeyingRecord` says what a fixed point shows; for `Library`, the inductive invariant `SourcesInv` and what follows from it about the ingest, a function of the sources |
| `StacksCoreProofs` | `TypeCorrect`, `IndexFaithfulHolds`, `OriginIsTruthfulHolds`, `ForgottenStayGoneHolds`, `SkipIsSoundHolds`, `ForgetsAreRememberedHolds`, `RecordObeysPolicyHolds`, `StoreShowsWhatIsRetained`, `RevisionCoversViewHolds`, `CommandsAreAtomicHolds` | the inductive invariants `IndexInv`, `OriginInv`, `ForgetInv`, `SkipInv`, `PlanInv`, `RecordInv`; for the last two, step refinement |
| `ViewCacheProofs` | `TypeCorrect`, `NoStaleAnswerHolds`, `CacheIsFreshHolds` | the inductive invariants `ReadInOrder` (for the types, restores included) and `CacheInv` (no restore under a running server) |
| `DisclosureProofs` | `TypeCorrect`, `PagesCorrect`, `FloorHoldsAlways`, `LensIsHonouredAlways`, `SearchConfirmsNothingAlways` | the inductive invariants `RevisionInv`, `PagesInv` and `IndexInv` |
| `CopiesProofs` | `TypeCorrect`, `ReceiptIsTrueHolds`, `LineageRemembersHolds` | the inductive invariants `VisitInv` and `LineageInv` |
| `DashboardProofs` | of `CatalogPool`: `TypeCorrect`, `OnlyAllowlistedHostsHolds`, `LastGoodBooksStayHolds`, `PoolAgeIsHonestHolds`, `WorldsDoNotMixHolds`, `FreshIsTrueHolds`; of `Picks`: `TasteCorrect`, `LensesOnlyRaiseHolds`, `EveryPickIsCitedHolds`; of `Activity`: `ActivityTypeCorrect`, `AbsenceIsAttributedHolds`, `FullYearsAreWholeHolds`, `StreaksAreRunsHolds` | the inductive invariants `JobInv` and `PoolInv`; for `Picks`, `TasteInv` and lemmas on sums; for `Activity`, `Devices` and `ActivityInv`, and what the recursions of the streaks compute |
| `ProgressCacheProofs` | `TypeCorrect`, `FreshnessIsHonestHolds`, `ValuesOutliveErrorsHolds`, `SkipShowsTheCacheHolds` | the inductive invariants `HeardInv`, `AskInv`, `ShowInv` |

What each theorem assumes beyond that is in its statement:

| Theorem | Assumes | Why |
| --- | --- | --- |
| `IndexFaithfulHolds`, `OriginIsTruthfulHolds` | `Alone` | one reader at a terminal; deaths at every step, restores and any sequence of configurations are included. `ClaimSideBySide.cfg` refutes both without it |
| `ForgottenStayGoneHolds` | `Alone`, no `restore` | a backup from before a forget holds what it removed (`LineageRemembers` says what follows a restore) |
| `SkipIsSoundHolds` | `Alone`, `~SameSecond`, no death at `save` or `retain` | section 3; restores and deaths elsewhere are included |
| `ForgetsAreRememberedHolds` | `Alone`, no `restore` | a backup from before a forget holds an earlier policy; deaths at every step are included |
| `RecordObeysPolicyHolds`, `StoreShowsWhatIsRetained` | `Alone`, no death at `save` or `retain` | the two writes apart do not obey one policy (`ClaimForgetSurvives.cfg`, `ClaimBoundary.cfg`); restores and deaths elsewhere are included |
| `CommandsAreAtomicHolds` | `Alone`, no death at `save` or `retain`, no `restore` | a death there leaves half a command, and a restore is a third writer, which `RecordStore` does not have |
| `RevisionCoversViewHolds` | no `restore` | a restore brings a revision back; commands side by side and deaths at every step are included |
| `FreshnessIsHonestHolds`, `ValuesOutliveErrorsHolds` | one refresh at a time (`OneRefresh`) | section 3 |
| `SkipShowsTheCacheHolds` | `OneRefresh`, no death at `web` or `save` | section 3 |
| those of `ViewCacheProofs` but the types | no restore under a running server | `ClaimMonotonicKey.cfg` |

The others assume what their modules assume of their constants, no more; TLC
evaluates each of these on its run:

| Module | Assumes | Why |
| --- | --- | --- |
| `Library` | no join key is spelled like an md5; every catalogue to begin with is finite | a join key is the words of a title and a first author (`unify.py:36`): left out is a book whose title is 32 hexadecimal digits and that has no author, whose key could be the md5 of another book's file; Calibre's catalogue is a table |
| `Activity` | years follow the days; a horizon is a number of days; a day of reading may have a page and an amount of history | the calendar; `config.py:245` parses it so, and clamps it; the last rules out an instance in which nothing is ever read |
| `Picks` | what is owned, named, authored and labelled is finite, and a candidate is not owned | the totals are sums over these; a row of the catalogue pool and a row of the library are two records, be they of one book (`KeyOf` tells that) |

`ActivityInv` says that the store of `Activity` is what pruning leaves, as of some
day up to today, of what the last refresh read, however often a reader forgot
since: a forget prunes what an earlier prune left, and by `PruneTwice` that is what
pruning once, now, would leave. An empty record is then one the policy emptied or
one that was read empty (`AbsenceIsAttributed`). If nothing cuts into a year,
nothing of it was pruned, so its figures are those of what was read (`UncutYear`);
that the year is the last one read in (`LastDay`) needs that a finite set of days has
a last one. These theorems stand in `DashboardProofs`.

The streaks are folds and recursions over days, and both are counted from `Gap`, the
last day without reading up to a day: the run a day is in has as many days as there
are since (`BackIs` for the current streak, `RunsAre` for the longest). Induction over
data being out of reach, a function that a recursion over an interval of days defines
is given explicitly instead, as that difference, and shown to be the only one by
looking at the smallest day on which another solution would differ (`SmallestOf`).

The same two moves stand in for induction wherever a theorem needs it: a recursive
definition has a solution because one is written down, and only one because a
smallest counterexample (of a set of numbers, or, by `SmallestSet` in
`RetentionProofs`, a finite set with no other counterexample within it) would have a
smaller one. `LargestOf`, `ListedInOrder` (a finite set in a total order can be listed
in it) and `SumsAgree` are of this kind.

The states of `Library` are a function of the sources, so `SourcesInv` is all that is
inductive there: each source keeps its rows typed and finite, a user has one row for
a book (`OneEach`), and what is placed on a Kobo was opened. The rest follows the
ingest from end to end. Books and emitted rows are listed in their order, once each
(`BooksListed`, `RowsListed`, `ListingIsBijective`); `DeviceStatsAre`, `WebIs` and
`StatsAre` say that the list of stats has those of the devices, then those of the
reader's rows, and no other, which gives `OneReader`. A stat is filed under the join
key that its own key tells (`KeyTells`, where `DocAssumption` is needed), so
`StatesAre` has one state for each book and one for each key that no book has
(`EveryBookOnce`). The hard one is `FreshestWins`, since progress of a book may come
under the file KOReader knows it by, or under the key of its web row: device stats
come first, so the winning stat's key is where web progress is re-keyed to
(`TargetIs`); two join keys have two targets, so nothing is mixed up (`RekeyedIs`);
and of a book the catalogue has once, a single row of the reader's asserts a place
(`OneRow`, `WebSays`), so that the merge compares two answers and no third.
`MeterIsMeasured` traces each status or progress back through the same lemmas to a
row that was opened, or placed.

The proofs about `StacksCore` share a lemma for each step of a command
(`BeginStep` to `RebuildStep`): which parts of the command's memory it sets,
which it keeps, and whether it leaves the record. An invariant about a running
command is then one short step for each.

`IndexInv` adds to `IndexFaithful`: one
command at a time; that no file, live or
backup, has an index claiming a revision the file has not reached (so the next
write makes the index unusable and a restore brings back nothing worse than it
saved); and, of the command that is about to fill the table, that it still
holds the stored states, that the table is empty, and that the meta row does
not claim the present revision.

`OriginInv` carries the world through a refresh: the books it has read, then the
states it made of them, are all of the demo library or none is, as its
configuration says, when it saves them under that origin; what a forget saves is
part of what is stored; and every backup is as truthful as the live store, since
a restore may bring any of them back.

`ForgetInv` says what is in memory when a command saves. A refresh has pruned by a
plan that names what the stored policy forgets, so its states hold none of it; a
forget's plan names all of the policy and its target, and from the moment it
retains that plan the stored states hold no book of it. The order of its two
writes, survivors first, is what makes the report true wherever it dies: the policy
names a book only once the states have lost it.

`SkipInv` calls two records alike under a policy when it makes the same of both.
A file is current when, if the mtimes it records are the sources', its record is
alike to what the sources hold. A forget's states are pruned before its policy is
saved and a refresh's policy is saved before its states, so currency is suspended
between their two writes (`Between`), and `Gathers` says that what the command
holds makes up for it. That a current file stays current as days pass and forgets
tighten the policy is `PruneTwice`: pruning first by an earlier, weaker policy
does not change what a stricter one makes of a record. For arbitrary policies that
is false: what an earlier one stripped, a laxer one would have kept. `Stricter`
(in force whenever the other is, and retaining no day that the other does not) is
what makes it hold, and passing days and forgets only tighten a policy; what may
relax its horizon is a refresh, which makes the record anew from the sources.

`PlanInv` is what makes a read, changed and written back policy safe with no lock:
the plan a command holds names what the policy it is to replace names, at every
step from where it read that policy to where it puts its own, because nothing else
writes it meanwhile. `PolicyCases` says which steps write the policy at all, a
restore among them, and `ForgetsAreRememberedHolds` follows step by step, wherever
commands die: a death leaves the old policy or the new one, never a third.

`RecordInv` says that between the two writes of a command what it still has to
write obeys the plan it writes it under, and that at any other moment the stored
record obeys the stored policy (`ObeysItself`); that what a forget measured is
still there when it reads the record again, and is what it saves; and that every
backup obeys itself, since a restore may bring any of them back. A refresh puts
its policy before the states it pruned by it, a forget saves the survivors before
the policy they were pruned by: in both orders the record at rest was pruned by
the policy beside it, and `PrunedObeys` (idempotence again) closes the step.
`ObeyingRecord` then turns the fixed point into what a reader cares about
(`StoreShowsWhatIsRetained`).

For `CommandsAreAtomicHolds` each step of a command is a step of `RecordStore` or
leaves the mapped record as it is (`RecordStutters`). The step that counts is the
first write: with the rest of the command's work already added by the mapping, a
refresh that puts its policy is `Ingest` (`RefreshIsIngest`) and a forget that
saves its survivors is `Forget` (`KeepIsForget`); the second write then changes
nothing that the mapping shows. That holds because the policy and the record a
forget measured are still the stored ones when it saves, which `PlanInv` and
`RecordInv` say, and because what `Ingest` allows is exactly what obeys the new
policy.

In `DashboardProofs`, `TasteInv` of `Picks` says that the stored answers, and those
any form may hold, are finite sets of valid ones, whatever two writers do to each
other. Each total is a sum over such a set (`WeightsAdd`, `BooksAdd`, `ThemesAdd`
put them in one form, `SumOf`); that a sum exists, and does not depend on the order
it is taken in (`SumsAgree`), is shown by looking at a smallest finite set for which
it would (`SmallestSet`, from the well-foundedness of strict inclusion), which takes
the place of an induction over sets. Adding terms that are not negative lowers no
sum (`SumGrows`), a valid answer about a lens is such a term, and clamping keeps the
order (`LensesRaiseDelta`). `EveryPickIsCitedHolds` needs no invariant: what is
ranked or nearly missed is citable, and each way to be citable leaves a source to
cite.

In `ProgressCacheProofs`, `HeardInv` carries the age of a value from where it was
heard to where it is put: an answer is no older than the refresh that got it, and
what a refresh is about to save of the keys it has no answer for is what the cache
holds, at the age it has there. The second half is where a second refresh would do
harm: it would put an older value under the younger stamp that the row has got
meanwhile. `AskInv` says that a refresh that asks has an answer or a failure for
exactly the stale keys when it resolves, so that a key without either keeps its
cached value, and that what it saves is still what it would resolve; a second
refresh would move the cache in between here too. `ShowInv` says that what is
resolved is what the cache holds once it is saved (`PutCached`), and that states
about to be saved show it with the sources they were read from, unless those have
moved their mtimes, which the next refresh notices.

`CacheInv` adds to the cache's properties: every request's rows are no earlier
than the store was when it read the revision; as long as the revision it read
is the store's, the store's content is what it was then; and one revision means
one content, across requests and the cached view. The last is what a restore
under a running server breaks.

In `DisclosureProofs`, that a page shows nothing it hides follows from its parts
(`ShownIsNotHidden`); what needs an invariant is which toggle and file it was
rendered under. `PagesInv` carries the toggle from the request's key to the
cached page and to the answer, and the file too until an edit overlaps a request.
`IndexInv` there says that an index of the present revision was built under the
settings the last refresh found, which a failed build cannot claim, since that
refresh moved the revision.

In `CopiesProofs`, `VisitInv` says of a running forget: the live store has
forgotten all it is told to, so that backups made meanwhile hold none of it; and
every backup that does is still to be visited, being written, or named. Neither
theorem nor invariant looks at deaths specially: a death leaves no receipt.
`LineageInv` strengthens `LineageRemembers` with the policy: what a file was told
is in its own retention record, which is what a refresh of the file prunes by.
The type of a rewritten backup rests on `VisitInv`, so the two are proved
together.

In `DashboardProofs`, `JobInv` of `CatalogPool` says that a refresh has updates of
one world only, exactly the configured ones when it saves, and that no answer among
them is older than the refresh; `PoolInv` adds to the invariants of the run that an
entry that is ok holds what its source has served since the last attempt began
(`OkIsCurrent`), be it a collection without a book.

TLC finds all these invariants true on the runs' instances as well.

Only model-checked: the two liveness properties `ProgressArrives` and
`PoolCatchesUp`, which are out of the prover's reach. Every invariant and every
action property of a run is stated by a theorem.

## 6. Not modelled, and the plan

Not modelled, and why:

* `doctor`, printing, argument parsing, logging, headers, layout, SVG, OPDS and
  browse filters: they report or format, and change no state. What `/browse` finds by
  a descriptor is in `Disclosure`; its other filters are not modelled.
* Tokenizing, snippets and the order of hits: FTS5's, and a matter of text.
* `snapshot.py`: what a copy of a live SQLite file holds is decided by SQLite's
  page and WAL protocol, outside the repository.
* Sessions and lockout (`auth.py`): a signed cookie, and one list per address in
  one process's memory, whose promise is a rate.
* The JSON forms of the rows (`serde.py`): round trips that unit tests reach.
* Goals and forecasts: quotients of figures `Activity` has.
* Embeddings, the offline evaluation and the adapter battery: numerical, and
  without state that persists.
* Parsing of the source databases and the HTTP clients: I/O; what their failures
  do is in `Library`, `ProgressCache` and `CatalogPool`.
* Build, CI and audit scripts.

What is left, in this order:

1. Refinement: `StacksCore` with `Alone` and no deaths implements `ReadingRecord`
   itself, sources included, for refreshes that no change of the sources overlaps.
   `RecordStore` is what the two have in common.
2. `SearchRoute`: the view and the index read through two connections, with the
   positions of hits.
