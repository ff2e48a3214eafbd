---------------------------- MODULE ProgressCache ----------------------------
(***************************************************************************)
(* Cross-device progress: how `stacks refresh` asks the reader's kosync    *)
(* server about each stat (ingest/refresh.py, fetch_progress and           *)
(* _resolve_progress), what it keeps of the answers in the store           *)
(* (ingest/store.py, the kosync progress cache), when that makes the next  *)
(* refresh due, and what the dashboard comes to show of it, Calibre-Web's  *)
(* own progress included.                                                  *)
(*                                                                         *)
(* Time is kept as ages: fetched_at is the number of ticks since the       *)
(* refresh that fetched began, as far as it matters, and `elapsed` the     *)
(* number of ticks a running refresh has taken.  An age is capped where    *)
(* being older makes no difference.  Progress is its timestamp, 0 being    *)
(* none.                                                                   *)
(***************************************************************************)
EXTENDS Integers, FiniteSets

CONSTANTS
    Key,         \* stat keys
    Proc,        \* identities of running refreshes
    Ttl,         \* kosync_progress_ttl_seconds, in ticks
    MaxElapsed,  \* bound on the ticks one refresh takes
    MaxStamp,    \* bound on progress timestamps
    MaxChanges,  \* bound on changes of the world, deaths and forced refreshes
    MortalAt     \* the steps at which a refresh may die

ASSUME TtlAssumption == Ttl \in Nat \ {0} /\ MaxElapsed \in Nat \ {0}
ASSUME BoundsAssumption == MaxStamp \in Nat \ {0} /\ MaxChanges \in Nat

VARIABLES
    stats,       \* the devices' stats: a signature for each key they know
    web,         \* Calibre-Web's progress for each key
    version,     \* the sources' mtimes, as one value
    remote,      \* the sync server's progress for each key
    down,        \* the keys for which the sync server fails at the moment
    configured,  \* whether kosync is configured
    row,         \* the store's kosync_progress row
    saved,       \* what the last saved states show, and of which sources
    job,         \* the running refreshes
    answered,    \* ghost: ticks since the answer each key's cached value comes from
    changes      \* how many changes have been made

vars == <<stats, web, version, remote, down, configured, row, saved, job,
          answered, changes>>
world == <<stats, web, version, remote, down, configured>>

Stamp == 0..MaxStamp
Signature == {0, 1}
AgeCap == Ttl + MaxElapsed
Age == 0..AgeCap
Never == AgeCap + 1     \* no fetched_at: never answered
Partial(S) == UNION {[D -> S] : D \in SUBSET Key}

\* One entry of the row: error is True when the last fetch failed.
Entry == [sig: Signature, age: Age \cup {Never}, val: Stamp, error: BOOLEAN]
Row == [written: BOOLEAN, entries: Partial(Entry)]

Steps == {"idle", "ingest", "fetch", "resolve", "put", "web", "save"}
Failed == MaxStamp + 1  \* the answer of a fetch that raised

\* heard is a ghost: ticks since the answers that a refresh is about to save.
Job == [at: Steps, elapsed: 0..MaxElapsed, asks: BOOLEAN, seen: 0..MaxChanges,
        sigs: Partial(Signature), stale: SUBSET Key,
        answers: Partial(Stamp \cup {Failed}), progress: Partial(Stamp),
        shown: Partial(Stamp), heard: [Key -> Age]]

IdleJob == [at |-> "idle", elapsed |-> 0, asks |-> FALSE, seen |-> 0, sigs |-> <<>>,
            stale |-> {}, answers |-> <<>>, progress |-> <<>>, shown |-> <<>>,
            heard |-> [k \in Key |-> AgeCap]]

TypeOK ==
    /\ stats \in Partial(Signature)
    /\ web \in [Key -> Stamp]
    /\ version \in 0..MaxChanges
    /\ remote \in [Key -> Stamp]
    /\ down \subseteq Key
    /\ configured \in BOOLEAN
    /\ row \in Row
    /\ saved \in [populated: BOOLEAN, version: 0..MaxChanges, shown: Partial(Stamp)]
    /\ job \in [Proc -> Job]
    /\ answered \in [Key -> Age]
    /\ changes \in 0..MaxChanges

Init ==
    /\ stats \in Partial({0})
    /\ web = [k \in Key |-> 0]
    /\ version = 0
    /\ remote = [k \in Key |-> 0]
    /\ down = {}
    /\ configured \in BOOLEAN
    /\ row = [written |-> FALSE, entries |-> <<>>]
    /\ saved = [populated |-> FALSE, version |-> 0, shown |-> <<>>]
    /\ job = [p \in Proc |-> IdleJob]
    /\ answered = [k \in Key |-> AgeCap]
    /\ changes = 0

(***************************************************************************)
(* The world: a device reads or forgets a book, Calibre-Web and the sync   *)
(* server learn of progress elsewhere, the server fails and recovers, the  *)
(* operator configures kosync.                                             *)
(***************************************************************************)
Change == changes < MaxChanges /\ changes' = changes + 1

ReadLocally(k) ==
    /\ Change
    /\ version' = version + 1
    /\ stats' \in {[l \in DOMAIN stats \ {k} |-> stats[l]]} \cup
                  {[l \in DOMAIN stats \cup {k} |-> IF l = k THEN s ELSE stats[l]] :
                      s \in Signature}
    /\ UNCHANGED <<web, remote, down, configured, row, saved, job, answered>>

ReadOnTheWeb(k) ==
    /\ Change
    /\ version' = version + 1
    /\ \E t \in Stamp : web' = [web EXCEPT ![k] = t]
    /\ UNCHANGED <<stats, remote, down, configured, row, saved, job, answered>>

ReadElsewhere(k) ==
    /\ Change
    /\ \E t \in Stamp : remote' = [remote EXCEPT ![k] = t]
    /\ UNCHANGED <<stats, web, version, down, configured, row, saved, job, answered>>

ServerFails(k) ==
    /\ down' = down \cup {k}
    /\ UNCHANGED <<stats, web, version, remote, configured, row, saved, job, answered, changes>>

ServerRecovers(k) ==
    /\ down' = down \ {k}
    /\ UNCHANGED <<stats, web, version, remote, configured, row, saved, job, answered, changes>>

Configure ==
    /\ Change
    /\ configured' = ~configured
    /\ UNCHANGED <<stats, web, version, remote, down, row, saved, job, answered>>

Older(age) == IF age >= AgeCap THEN age ELSE age + 1

\* A tick; no refresh takes more than MaxElapsed of them.
Tick ==
    /\ \A p \in Proc : job[p].elapsed < MaxElapsed
    /\ LET entries == row.entries
       IN  row' = [row EXCEPT !.entries =
                     [k \in DOMAIN entries |-> [entries[k] EXCEPT !.age = Older(entries[k].age)]]]
    /\ answered' = [k \in Key |-> Older(answered[k])]
    /\ job' = [p \in Proc |-> IF job[p].at = "idle" THEN job[p]
                              ELSE [job[p] EXCEPT
                                      !.elapsed = @ + 1,
                                      !.heard = [k \in Key |-> Older(job[p].heard[k])]]]
    /\ UNCHANGED <<world, saved, changes>>

(***************************************************************************)
(* The cache row.                                                          *)
(***************************************************************************)
\* progress_refresh_due, at the moment a refresh begins.
ProgressDue ==
    \/ ~row.written
    \/ \E k \in DOMAIN row.entries : row.entries[k].error \/ row.entries[k].age >= Ttl

\* Slip: a key is asked about until the server has answered for its signature.
StaleKeysOnce(sigs, elapsed) ==
    {k \in DOMAIN sigs :
        \/ k \notin DOMAIN row.entries
        \/ row.entries[k].sig # sigs[k]
        \/ row.entries[k].error}

\* stale_progress_keys, for a refresh that began `elapsed` ticks ago.
StaleKeys(sigs, elapsed) ==
    {k \in DOMAIN sigs :
        \/ k \notin DOMAIN row.entries
        \/ row.entries[k].sig # sigs[k]
        \/ row.entries[k].error
        \/ row.entries[k].age - elapsed >= Ttl}

\* cached_progress: the entries that resolved to progress.
Cached == [k \in {l \in DOMAIN row.entries : row.entries[l].val # 0} |-> row.entries[k].val]

\* Slip: whatever came back is an answer.
FoundEvenIfFailed(answers) == {k \in DOMAIN answers : answers[k] # 0}

Errored(answers) == {k \in DOMAIN answers : answers[k] = Failed}
Found(answers) == {k \in DOMAIN answers : answers[k] \in Stamp \ {0}}

\* What a refresh goes on with: answers first, then the last good value of a
\* key that failed, then the cached values of the keys it did not ask about.
Resolved(j) ==
    LET kept == DOMAIN Cached \cap (Errored(j.answers) \cup (DOMAIN j.sigs \ j.stale))
    IN  [k \in Found(j.answers) \cup kept |->
            IF k \in Found(j.answers) THEN j.answers[k] ELSE Cached[k]]

\* Slip: every entry is stamped with the time of this refresh.
SavedEntriesAllFresh(j) ==
    [k \in DOMAIN j.sigs |->
        [sig |-> j.sigs[k],
         age |-> j.elapsed,
         val |-> IF k \in DOMAIN j.progress THEN j.progress[k] ELSE 0,
         error |-> k \in Errored(j.answers)]]

\* save_progress: one entry for each signature, its clock reset only when the
\* key has just been answered.
SavedEntries(j) ==
    [k \in DOMAIN j.sigs |->
        [sig |-> j.sigs[k],
         age |-> IF k \in DOMAIN j.answers \ Errored(j.answers) THEN j.elapsed
                 ELSE IF k \in DOMAIN row.entries THEN row.entries[k].age ELSE Never,
         val |-> IF k \in DOMAIN j.progress THEN j.progress[k] ELSE 0,
         error |-> k \in Errored(j.answers)]]

(***************************************************************************)
(* stacks refresh.                                                         *)
(***************************************************************************)
Go(p, j) == job' = [job EXCEPT ![p] = j]
At(p, step) == job[p].at = step

\* Whether the states stand: the sources are as they were, and no answer is due.
Unchanged ==
    /\ saved.populated
    /\ saved.version = version
    /\ ~(configured /\ ProgressDue)

Begins(p) ==
    /\ At(p, "idle")
    /\ Go(p, [IdleJob EXCEPT !.at = "ingest", !.asks = configured, !.seen = version])
    /\ UNCHANGED <<world, row, saved, answered>>

\* A refresh of unchanged sources returns at once and is no step here.
BeginRefresh(p) == ~Unchanged /\ Begins(p) /\ UNCHANGED changes

ForceRefresh(p) == Change /\ Begins(p)

\* The stats, and which of their keys to ask about; a source that is not
\* configured is asked nothing.
IngestStats(p) ==
    LET stale == StaleKeys(stats, job[p].elapsed)
    IN  /\ At(p, "ingest")
        /\ Go(p, [job[p] EXCEPT !.at = IF job[p].asks /\ stale # {} THEN "fetch" ELSE "resolve",
                                !.sigs = stats, !.stale = stale])
        /\ UNCHANGED <<world, row, saved, answered, changes>>

\* One request, of up to eight at a time: the answer is the server's progress
\* at that moment, and the failure of one key is no other key's.
FetchKey(p) ==
    /\ At(p, "fetch")
    /\ \E k \in job[p].stale \ DOMAIN job[p].answers :
         LET answers == [l \in DOMAIN job[p].answers \cup {k} |->
                           IF l # k THEN job[p].answers[l]
                           ELSE IF k \in down THEN Failed ELSE remote[k]]
             heard == IF k \in down THEN job[p].heard ELSE [job[p].heard EXCEPT ![k] = 0]
         IN  Go(p, [job[p] EXCEPT
                      !.answers = answers, !.heard = heard,
                      !.at = IF DOMAIN answers = job[p].stale THEN "resolve" ELSE @])
    /\ UNCHANGED <<world, row, saved, answered, changes>>

\* When what a refresh resolves to was answered: just now, or when the value was
\* that it found in the cache.
ResolvedHeard(j) ==
    [k \in Key |-> IF k \in DOMAIN j.answers \ Errored(j.answers) THEN j.heard[k] ELSE answered[k]]

\* Slip: a key that failed has no progress.
ResolveWithoutFallback(p) ==
    /\ At(p, "resolve")
    /\ Go(p, [job[p] EXCEPT !.at = "put", !.heard = ResolvedHeard(job[p]),
                            !.progress = [k \in DOMAIN Resolved(job[p])
                                            \ Errored(job[p].answers) |-> Resolved(job[p])[k]]])
    /\ UNCHANGED <<world, row, saved, answered, changes>>

Resolve(p) ==
    /\ At(p, "resolve")
    /\ Go(p, [job[p] EXCEPT !.at = "put", !.heard = ResolvedHeard(job[p]),
                            !.progress = Resolved(job[p])])
    /\ UNCHANGED <<world, row, saved, answered, changes>>

PutProgress(p) ==
    /\ At(p, "put")
    /\ row' = [written |-> TRUE, entries |-> SavedEntries(job[p])]
    /\ answered' = job[p].heard
    /\ Go(p, [job[p] EXCEPT !.at = "web", !.heard = IdleJob.heard])
    /\ UNCHANGED <<world, saved, changes>>

\* _merge_progress: the fresher of the two, the sync server's on a tie.
Freshest(primary, secondary) == IF secondary > primary THEN secondary ELSE primary

\* What the states of these stats show of this progress and Calibre-Web's.
Show(sigs, progress) ==
    [k \in DOMAIN sigs |->
        Freshest(IF k \in DOMAIN progress THEN progress[k] ELSE 0, web[k])]

ReadWeb(p) ==
    /\ At(p, "web")
    /\ Go(p, [job[p] EXCEPT !.at = "save", !.shown = Show(job[p].sigs, job[p].progress)])
    /\ UNCHANGED <<world, row, saved, answered, changes>>

\* Slip: the mtimes are those of the moment of the save.
SaveStatesWithLateMtimes(p) ==
    /\ At(p, "save")
    /\ saved' = [populated |-> TRUE, version |-> version, shown |-> job[p].shown]
    /\ Go(p, IdleJob)
    /\ UNCHANGED <<world, row, answered, changes>>

SaveStates(p) ==
    /\ At(p, "save")
    /\ saved' = [populated |-> TRUE, version |-> job[p].seen, shown |-> job[p].shown]
    /\ Go(p, IdleJob)
    /\ UNCHANGED <<world, row, answered, changes>>

Die(p) ==
    /\ job[p].at \in MortalAt \ {"idle"}
    /\ Change
    /\ Go(p, IdleJob)
    /\ UNCHANGED <<world, row, saved, answered>>

RefreshStep(p) ==
    \/ BeginRefresh(p) \/ IngestStats(p) \/ FetchKey(p) \/ Resolve(p)
    \/ PutProgress(p) \/ ReadWeb(p) \/ SaveStates(p)

Next ==
    \/ \E k \in Key : \/ ReadLocally(k) \/ ReadOnTheWeb(k) \/ ReadElsewhere(k)
                      \/ ServerFails(k) \/ ServerRecovers(k)
    \/ Configure
    \/ Tick
    \/ \E p \in Proc : RefreshStep(p) \/ ForceRefresh(p) \/ Die(p)

Spec == Init /\ [][Next]_vars

\* Time goes on, whatever runs; someone keeps refreshing, and a refresh that is
\* not killed runs to its end (each request has a timeout).
FairSpec ==
    /\ Spec
    /\ SF_vars(Tick)
    /\ \A p \in Proc : WF_vars(RefreshStep(p))

(***************************************************************************)
(* Properties.                                                             *)
(***************************************************************************)
Idle == \A p \in Proc : job[p].at = "idle"

\* An entry never claims to be younger than the answer its value comes from:
\* reusing a value, or failing to replace it, does not reset the clock of the TTL,
\* or frequent refreshes would postpone it forever (store.py:367).  Two refreshes
\* side by side break it: the second writes back the value it found, under the
\* stamp the first has put since.
FreshnessIsHonest ==
    \A k \in DOMAIN row.entries :
        row.entries[k].age # Never => row.entries[k].age >= answered[k]

\* Only an answer replaces a value: while kosync is configured and the devices
\* know the book, no failure changes what is cached (refresh.py:156).
ValuesOutliveErrors ==
    [][\A k \in DOMAIN row.entries \cap DOMAIN row'.entries :
          row'.entries[k].val # row.entries[k].val =>
              \E p \in Proc :
                  \/ k \in DOMAIN job[p].answers /\ job[p].answers[k] # Failed
                  \/ ~job[p].asks]_vars

\* When the next refresh would skip, the states show what the cache holds and
\* the sources say: the skip never hides an answer already fetched
\* (refresh.py:494).
SkipShowsTheCache ==
    Idle /\ Unchanged /\ configured =>
        saved.shown = Show(stats, Cached)

\* Progress made elsewhere arrives: if the sync server goes on answering for a
\* book on a device, and nothing else about the book changes, refreshing comes
\* to show it, after any failures and deaths before (store.py:287).
Steady(k, t) ==
    configured /\ k \in DOMAIN stats /\ k \notin down /\ Freshest(remote[k], web[k]) = t
Arrived(k, t) == k \in DOMAIN saved.shown /\ saved.shown[k] = t

ProgressArrives ==
    \A k \in Key, t \in Stamp : <>[]Steady(k, t) => <>[]Arrived(k, t)
=============================================================================
