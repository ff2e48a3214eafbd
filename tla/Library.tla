------------------------------- MODULE Library -------------------------------
(***************************************************************************)
(* What the reader's libraries say and what `stacks refresh` makes of it:  *)
(* Calibre's catalogue, KOReader's and a Kobo's statistics, the kosync     *)
(* server's progress and Calibre-Web's read-state of several users are     *)
(* read (ingest/calibre.py, koreader.py, kobo.py, calibre_web.py), merged  *)
(* (ingest/refresh.py, _ingest_real) and unified into one state for each   *)
(* book (ingest/unify.py).                                                 *)
(*                                                                         *)
(* Each action changes one of the sources; the ingest is a function of     *)
(* them.  A place is how far a copy has been read, Finished at the end; a  *)
(* time is that of an assertion about a place, 0 being none.  Devices have *)
(* clocks of their own: stamps are not in the order of the actions.        *)
(***************************************************************************)
EXTENDS Integers, FiniteSets, Sequences, SequencesExt

CONSTANTS
    Title,       \* titles with their authors, as integers in sorting order
    KeyOf,       \* the join key of each title: case and punctuation dropped
    Bid,         \* Calibre's book ids
    Doc,         \* KOReader's md5s
    NoDoc,       \* a row without one
    TitleOf,     \* the title each md5 is a copy of
    Me, Other,   \* users of Calibre-Web
    Nobody,      \* the user of a row that names none
    Shelves,     \* the catalogues to begin with
    MaxTime,     \* bound on timestamps
    MaxChanges   \* bound on changes of the sources

Partial(D, S) == UNION {[E -> S] : E \in SUBSET D}

ASSUME TitleAssumption == Title \subseteq Int /\ Bid \subseteq Nat
\* No join key is spelled like an md5.
ASSUME DocAssumption ==
    /\ NoDoc \notin Doc /\ TitleOf \in [Doc -> Title]
    /\ \A t \in Title : KeyOf[t] \notin Doc
ASSUME UserAssumption == Cardinality({Me, Other, Nobody}) = 3
ASSUME ShelvesAssumption ==
    Shelves \subseteq Partial(Bid, Title) /\ \A shelf \in Shelves : IsFiniteSet(DOMAIN shelf)
ASSUME BoundsAssumption == MaxTime \in Nat \ {0} /\ MaxChanges \in Nat

VARIABLES
    catalog,    \* Calibre: the title of each book
    koreader,   \* KOReader: its rows in the order of their ids
    kobo,       \* the Kobo: its row for each title it holds
    remote,     \* kosync: progress for each document
    links,      \* Calibre-Web: book_read_link
    syncs,      \* Calibre-Web: kobo_reading_state with what hangs off it
    accounts,   \* Calibre-Web: its users
    named,      \* whether [calibre_web] user is configured, as Me
    changes     \* how many changes have been made

libraryVars == <<catalog, koreader, kobo, remote, links, syncs, accounts, named, changes>>

Finished == 2
Place == 0..Finished
None == -1      \* no position recorded
Time == 1..MaxTime
User == {Me, Other}
Key == {KeyOf[t] : t \in Title}

SourcesOK ==
    /\ catalog \in Partial(Bid, Title)
    /\ koreader \in Seq([doc: Doc \cup {NoDoc}, title: Title, place: Place])
    /\ kobo \in Partial(Title, [place: Place, opened: BOOLEAN])
    /\ remote \in Partial(Doc, [place: Place, at: Time])
    /\ links \subseteq [user: User \cup {Nobody}, book: Bid, started: Time \cup {0},
                        status: {"unread", "reading", "finished"}, modified: Time]
    /\ syncs \subseteq [user: User \cup {Nobody}, book: Bid, percent: Place \cup {None},
                        spent: BOOLEAN, modified: Time]
    /\ accounts \subseteq User
    /\ named \in BOOLEAN
    /\ changes \in 0..MaxChanges

LibraryInit ==
    /\ catalog \in Shelves
    /\ koreader = <<>>
    /\ kobo = <<>>
    /\ remote = <<>>
    /\ links = {}
    /\ syncs = {}
    /\ accounts = User
    /\ named \in BOOLEAN
    /\ changes = 0

(***************************************************************************)
(* The sources.                                                            *)
(***************************************************************************)
Change == changes < MaxChanges /\ changes' = changes + 1
Without(f, x) == [y \in DOMAIN f \ {x} |-> f[y]]
With(f, x, v) == [y \in DOMAIN f \cup {x} |-> IF y = x THEN v ELSE f[y]]

EditCatalog(b) ==
    /\ Change
    /\ catalog' \in {Without(catalog, b)} \cup {With(catalog, b, t) : t \in Title}
    /\ UNCHANGED <<koreader, kobo, remote, links, syncs, accounts, named>>

\* KOReader has one row for each file it has opened.
ReadOnKOReader(d, t) ==
    /\ Change
    /\ d # NoDoc => t = TitleOf[d]
    /\ \E p \in Place :
         LET row == [doc |-> d, title |-> t, place |-> p]
             at == {i \in DOMAIN koreader : koreader[i].doc = d /\ koreader[i].title = t}
         IN  koreader' = IF at = {} THEN Append(koreader, row)
                         ELSE [i \in DOMAIN koreader |-> IF i \in at THEN row ELSE koreader[i]]
    /\ UNCHANGED <<catalog, kobo, remote, links, syncs, accounts, named>>

\* The Kobo has a row for every book on it, opened or not.
CopyToKobo(t) ==
    /\ Change
    /\ t \notin DOMAIN kobo
    /\ kobo' = With(kobo, t, [place |-> 0, opened |-> FALSE])
    /\ UNCHANGED <<catalog, koreader, remote, links, syncs, accounts, named>>

ReadOnKobo(t) ==
    /\ Change
    /\ t \in DOMAIN kobo
    /\ \E p \in Place : kobo' = [kobo EXCEPT ![t] = [place |-> p, opened |-> TRUE]]
    /\ UNCHANGED <<catalog, koreader, remote, links, syncs, accounts, named>>

SyncKOReader(d) ==
    /\ Change
    /\ \E p \in Place, w \in Time : remote' = With(remote, d, [place |-> p, at |-> w])
    /\ UNCHANGED <<catalog, koreader, kobo, links, syncs, accounts, named>>

Others(rows, u, b) == {r \in rows : r.user # u \/ r.book # b}
Started(u, b) ==
    LET r == {l \in links : l.user = u /\ l.book = b}
    IN  IF r = {} THEN 0 ELSE (CHOOSE l \in r : TRUE).started

MarkRead(u, b, status, w) ==
    /\ Change
    /\ links' = Others(links, u, b) \cup
                {[user |-> u, book |-> b, status |-> status, modified |-> w,
                  started |-> IF status = "reading" THEN w ELSE Started(u, b)]}
    /\ UNCHANGED <<catalog, koreader, kobo, remote, syncs, accounts, named>>

\* A Kobo syncing through Calibre-Web writes both of its tables.
SyncKobo(u, b, p, spent, w) ==
    LET status == IF p = Finished THEN "finished" ELSE "reading"
        started == IF status = "reading" THEN w ELSE Started(u, b)
    IN  /\ Change
        /\ syncs' = Others(syncs, u, b) \cup
                    {[user |-> u, book |-> b, percent |-> p, spent |-> spent, modified |-> w]}
        /\ links' = Others(links, u, b) \cup
                    {[user |-> u, book |-> b, status |-> status, modified |-> w,
                      started |-> started]}
        /\ UNCHANGED <<catalog, koreader, kobo, remote, accounts, named>>

\* Calibre-Web 0.6.13 leaves the kobo_reading_state rows of a deleted user.
DeleteUser(u) ==
    /\ Change
    /\ u \in accounts
    /\ accounts' = accounts \ {u}
    /\ links' = {l \in links : l.user # u}
    /\ syncs' \in {syncs, {s \in syncs : s.user # u}}
    /\ UNCHANGED <<catalog, koreader, kobo, remote, named>>

NameReader ==
    /\ Change
    /\ named' = ~named
    /\ UNCHANGED <<catalog, koreader, kobo, remote, links, syncs, accounts>>

LibraryNext ==
    \/ \E b \in Bid : EditCatalog(b)
    \/ \E t \in Title : CopyToKobo(t) \/ ReadOnKobo(t)
    \/ \E d \in Doc \cup {NoDoc}, t \in Title : ReadOnKOReader(d, t)
    \/ \E d \in Doc : SyncKOReader(d)
    \/ \E u \in accounts \cup {Nobody}, b \in Bid, w \in Time :
         \/ \E status \in {"reading", "finished"} : MarkRead(u, b, status, w)
         \/ \E spent \in BOOLEAN : SyncKobo(u, b, None, spent, w)
         \/ \E p \in {1, Finished} : SyncKobo(u, b, p, TRUE, w)
    \/ \E u \in User : DeleteUser(u)
    \/ NameReader

LibrarySpec == LibraryInit /\ [][LibraryNext]_libraryVars

(***************************************************************************)
(* Reading them.  A stat has a key, which kosync is asked with, and a join *)
(* key, which finds the book; `sized` is whether its pages are counted.    *)
(***************************************************************************)
ReadStats(row) ==
    [key |-> IF row.doc # NoDoc THEN row.doc ELSE KeyOf[row.title],
     title |-> row.title, place |-> row.place, sized |-> TRUE,
     spent |-> row.place > 0, opened |-> TRUE]

\* A set as a sequence, in an order.
Sorted(S, before(_, _)) ==
    CHOOSE s \in SetToSeqs(S) : \A i, j \in DOMAIN s : i < j => before(s[i], s[j])

Ascending(S) == Sorted(S, <)

\* The volume rows, opened or not; of a book never opened nothing is known.
KoboStat(t) ==
    [key |-> KeyOf[t], title |-> t, place |-> kobo[t].place, sized |-> TRUE,
     spent |-> kobo[t].place > 0, opened |-> kobo[t].opened]
KoboStats ==
    LET titles == Ascending(DOMAIN kobo) IN [i \in DOMAIN titles |-> KoboStat(titles[i])]

DeviceStats == [i \in DOMAIN koreader |-> ReadStats(koreader[i])] \o KoboStats

\* Everyone with a row in either of the per-user tables.
UsersWithReadState(L, S) == ({r.user : r \in L} \cup {r.user : r \in S}) \ {Nobody}

\* resolve_user_id: whose rows to import, if that can be told.
Refused == <<"CalibreWebUserError">>
ResolveUser(L, S) ==
    LET users == UsersWithReadState(L, S)
    IN  CASE named /\ Me \in accounts -> Me
          [] named /\ Me \notin accounts -> Refused
          [] ~named /\ users = {} -> Nobody
          [] ~named /\ Cardinality(users) = 1 -> CHOOSE u \in users : TRUE
          [] OTHER -> Refused

\* Slip: rows of nobody in particular are taken for everybody's reader.
ScopedOrNobodys(rows, u) == {r \in rows : r.user \in {u, Nobody}}

Scoped(rows, u) == {r \in rows : r.user = u}

NoSync == [percent |-> None, spent |-> FALSE, modified |-> 0]
SyncByBook(S, u, b) ==
    LET r == {s \in Scoped(S, u) : s.book = b}
    IN  IF r = {} THEN NoSync ELSE CHOOSE s \in r : TRUE

\* Slip: an in-progress flag is emitted whatever was measured.
AnyRow(percent, spent) == TRUE

\* Whether a row of book_read_link says anything that was measured.
Emitted(percent, spent) == percent # None \/ spent

Latest(S) == CHOOSE n \in S : \A m \in S : m <= n

\* What a row of the reader's says, with what its Kobo synced.
WebRow(S, u, l) ==
    LET sync == SyncByBook(S, u, l.book)
    IN  [book |-> l.book, title |-> catalog[l.book],
         percent |-> IF l.status = "finished" THEN Finished ELSE sync.percent,
         spent |-> sync.spent, started |-> l.started,
         at |-> Latest({sync.modified, l.started, l.modified})]

\* read_state: for each of the reader's rows, in the order of their books, a
\* stat and, if there is a position, progress.
WebRows(L, S, u) ==
    LET rows == {WebRow(S, u, l) : l \in {m \in Scoped(L, u) : m.book \in DOMAIN catalog}}
    IN  Sorted({r \in rows : Emitted(r.percent, r.spent)}, LAMBDA r, s : r.book <= s.book)

WebStat(r) ==
    [key |-> KeyOf[r.title], title |-> r.title, place |-> 0, sized |-> FALSE,
     spent |-> r.spent, opened |-> r.started > 0]
WebStats(rows) == [i \in DOMAIN rows |-> WebStat(rows[i])]

\* The last row filed under a join key is the one that stays.
WebProgress(rows) ==
    LET filed == {i \in DOMAIN rows : rows[i].percent # None}
        under(k) == {i \in filed : KeyOf[rows[i].title] = k}
    IN  [k \in {KeyOf[rows[i].title] : i \in filed} |->
            LET r == rows[Latest(under(k))]
            IN  [place |-> r.percent, at |-> r.at, device |-> "Calibre-Web"]]

(***************************************************************************)
(* Merging and unifying them.                                              *)
(***************************************************************************)
First(S) == CHOOSE n \in S : \A m \in S : n <= m
WithKey(stats, k) == {i \in DOMAIN stats : KeyOf[stats[i].title] = k}

\* Slip: the progress stays under the title's key.
NotRekeyed(progress, stats) == progress

\* _rekey_onto_winning_stats: under the key of the first device stat of the book.
Target(stats, k) == IF WithKey(stats, k) = {} THEN k ELSE stats[First(WithKey(stats, k))].key
RekeyOntoWinningStats(progress, stats) ==
    [t \in {Target(stats, k) : k \in DOMAIN progress} |->
        progress[CHOOSE k \in DOMAIN progress : Target(stats, k) = t]]

\* _merge_progress: the freshest, the sync server's on a tie.
MergeProgress(primary, secondary) ==
    [k \in DOMAIN primary \cup DOMAIN secondary |->
        IF k \in DOMAIN secondary /\ (k \in DOMAIN primary => secondary[k].at > primary[k].at)
        THEN secondary[k] ELSE primary[k]]

\* What the sync server answers about these stats.
Kosync(stats) ==
    [d \in DOMAIN remote \cap {stats[i].key : i \in DOMAIN stats} |->
        [place |-> remote[d].place, at |-> remote[d].at, device |-> "kosync"]]

Nothing == [unread |-> TRUE]     \* no stat, or no progress

ProgressFor(stat, progress) ==
    IF stat # Nothing /\ stat.key \in DOMAIN progress THEN progress[stat.key] ELSE Nothing

PercentComplete(stat, dp) ==
    CASE dp # Nothing -> dp.place
      [] dp = Nothing /\ stat # Nothing /\ stat.sized -> stat.place
      [] OTHER -> 0

Status(stat, dp) ==
    CASE \/ stat # Nothing /\ stat.sized /\ stat.place = Finished
         \/ PercentComplete(stat, dp) = Finished -> "finished"
      [] OTHER -> IF PercentComplete(stat, dp) > 0 \/ (stat # Nothing /\ stat.spent)
                  THEN "reading" ELSE "unread"

State(key, stat, progress, owned) ==
    LET dp == ProgressFor(stat, progress)
    IN  [key |-> key, books |-> owned, stat |-> stat, progress |-> dp,
         status |-> Status(stat, dp)]

\* Slip: every stat comes with a state of its own.
UnownedEver(stats, owned) == {KeyOf[stats[i].title] : i \in DOMAIN stats}

\* The stats no book of the catalogue has used.
Unowned(stats, owned) == {KeyOf[stats[i].title] : i \in DOMAIN stats} \ owned

\* The first stat filed under a join key is the one that stays.
Winner(stats, k) ==
    IF WithKey(stats, k) = {} THEN Nothing ELSE stats[First(WithKey(stats, k))]

Books == Sorted(DOMAIN catalog,
                LAMBDA b, c : \/ catalog[b] < catalog[c]
                              \/ catalog[b] = catalog[c] /\ b < c)

\* unify: a state for each book, by title and id, then one for each key of the
\* stats no book has.
Unify(stats, progress) ==
    LET books == Books
        order == SetToSeq(Unowned(stats, {KeyOf[catalog[b]] : b \in DOMAIN catalog}))
    IN  [i \in DOMAIN books |->
            LET k == KeyOf[catalog[books[i]]]
            IN  State(k, Winner(stats, k), progress, {books[i]})]
        \o [i \in DOMAIN order |-> State(order[i], Winner(stats, order[i]), progress, {})]

\* _ingest_real, for a reader whose rows are among these.
Ingest(L, S, u) ==
    LET rows == WebRows(L, S, u)
        web == RekeyOntoWinningStats(WebProgress(rows), DeviceStats)
    IN  Unify(DeviceStats \o WebStats(rows), MergeProgress(Kosync(DeviceStats), web))

Reader == ResolveUser(links, syncs)
States == Ingest(links, syncs, Reader)

\* ReadingStat.measured and ReadingState.progress_recorded.
Measured(stat) == stat.place > 0 \/ stat.spent \/ stat.opened
ProgressRecorded(s) == s.progress # Nothing \/ (s.stat # Nothing /\ Measured(s.stat))

(***************************************************************************)
(* Properties.                                                             *)
(***************************************************************************)
\* The sources, and what is made of them: progress is at a place, which a
\* DeviceProgress insists on (models.py:219), and so is every stat.
ReadingStat == [key: Doc \cup Key, title: Title, place: Place, sized: BOOLEAN,
                spent: BOOLEAN, opened: BOOLEAN]
DeviceProgress == [place: Place, at: 0..MaxTime, device: {"kosync", "Calibre-Web"}]

LibraryTypeOK ==
    /\ SourcesOK
    /\ Reader # Refused =>
         \A s \in Range(States) :
            /\ s.stat = Nothing \/ s.stat \in ReadingStat
            /\ s.progress = Nothing \/ s.progress \in DeviceProgress

\* The dashboard shows one reader's Calibre-Web: if a refresh is not refused,
\* its states are what they would be had nobody else ever used it, whoever was
\* deleted and whatever deletion left behind (calibre_web.py:48).
OneReader ==
    Reader # Refused =>
        /\ named => Reader = Me
        /\ States = Ingest({l \in links : l.user = Reader}, {s \in syncs : s.user = Reader},
                           Reader)

\* What anyone asserts of the place in a book: the sync server about the file
\* whose stat the book goes by, and the reader's own rows in Calibre-Web.
Copies(k) == {b \in DOMAIN catalog : KeyOf[catalog[b]] = k}
Mine(rows, k) == {r \in rows : r.user = Reader /\ r.book \in Copies(k)}
PlaceOnTheWeb(l) ==
    IF l.status = "finished" THEN Finished
    ELSE IF \E s \in syncs : s.user = l.user /\ s.book = l.book
    THEN (CHOOSE s \in syncs : s.user = l.user /\ s.book = l.book).percent
    ELSE None
TimeOnTheWeb(l) ==
    Latest({l.modified, l.started} \cup
           {s.modified : s \in {r \in syncs : r.user = l.user /\ r.book = l.book}})
Asserted(s) ==
    {[place |-> remote[d].place, at |-> remote[d].at] :
        d \in {e \in DOMAIN remote : s.stat # Nothing /\ s.stat.key = e}}
    \cup {[place |-> PlaceOnTheWeb(l), at |-> TimeOnTheWeb(l)] :
            l \in {m \in Mine(links, s.key) : PlaceOnTheWeb(m) # None}}

\* The progress shown for a book the catalogue has once is the freshest that is
\* asserted of it, under whichever key it was filed (refresh.py:298).
FreshestWins ==
    Reader # Refused =>
        \A s \in Range(States) :
            LET shown == [place |-> s.progress.place, at |-> s.progress.at]
            IN  Cardinality(Copies(s.key)) = 1 =>
                    IF Asserted(s) = {} THEN s.progress = Nothing
                    ELSE /\ s.progress # Nothing
                         /\ shown \in Asserted(s)
                         /\ \A a \in Asserted(s) : a.at <= shown.at

\* Every book of the catalogue has exactly one state, and so has every book only
\* a device knows: none is lost and none is counted twice (unify.py:102).
EveryBookOnce ==
    Reader # Refused =>
        LET seen == {KeyOf[koreader[i].title] : i \in DOMAIN koreader} \cup
                    {KeyOf[t] : t \in DOMAIN kobo}
            states == States
            of(owned) == {i \in DOMAIN states : states[i].books = owned}
        IN  /\ \A b \in DOMAIN catalog : Cardinality(of({b})) = 1
            /\ \A k \in seen : Copies(k) = {} =>
                   Cardinality({i \in of({}) : states[i].key = k}) = 1
            /\ \A i \in of({}) : Copies(states[i].key) = {}

\* A book is shown with a progress meter or a reading status only if a source
\* measured something of it: a row that exists is no measurement, a Kobo has one
\* for each unopened book, Calibre-Web a flag (models.py:256).
MeasuredSomewhere(k) ==
    \/ \E i \in DOMAIN koreader : KeyOf[koreader[i].title] = k
    \/ \E t \in DOMAIN kobo : KeyOf[t] = k /\ kobo[t].opened
    \/ \E l \in Mine(links, k) : l.status = "finished"
    \/ \E s \in Mine(syncs, k) : s.percent # None \/ s.spent

MeterIsMeasured ==
    Reader # Refused =>
        \A s \in Range(States) :
            ProgressRecorded(s) \/ s.status # "unread" => MeasuredSomewhere(s.key)
=============================================================================
