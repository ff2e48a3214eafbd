----------------------------- MODULE CatalogPool -----------------------------
(***************************************************************************)
(* The pool of candidate books from public catalogues: what the operator   *)
(* configures, how `stacks refresh` fetches it source by source            *)
(* (recommender/catalog_pool.py) through the host allowlist                *)
(* (recommender/catalogs.py), and what the store keeps of it               *)
(* (ingest/store.py, the catalog pool row).                                *)
(*                                                                         *)
(* Ages count ticks since the refresh that wrote a stamp began, capped     *)
(* where being older makes no difference.  The books of a source are the   *)
(* version of its contents that was served.  Version 0 is a collection     *)
(* without a book, which is an answer like any other.                      *)
(***************************************************************************)
EXTENDS Integers, FiniteSets

CONSTANTS
    Source,      \* the ids a configuration may name
    UrlOf,       \* the URL each of them is fetched from
    Demo,        \* the id of the built-in demo pool
    Ttl,         \* catalog_refresh_ttl_seconds, in ticks
    MaxElapsed,  \* bound on the ticks one refresh takes
    MaxVersion,  \* bound on the versions of a source's contents
    MaxChanges,  \* bound on changes of the world, deaths and forced refreshes
    MortalAt     \* the steps at which a refresh may die

Host == {"allowlisted", "blocked", "unknown"}
Url == [host: Host, https: BOOLEAN, bare: BOOLEAN]

ASSUME SourceAssumption == Demo \notin Source /\ UrlOf \in [Source -> Url]
ASSUME TtlAssumption == Ttl \in Nat \ {0} /\ MaxElapsed \in Nat \ {0}
ASSUME BoundsAssumption == MaxVersion \in Nat \ {0} /\ MaxChanges \in Nat

VARIABLES
    config,     \* the configuration
    content,    \* the version each source serves
    serving,    \* how each source answers at the moment
    pool,       \* the store's catalog_pool row
    job,        \* the running refresh
    contacted,  \* ghost: the hosts a request has been sent to
    served,     \* ghost: ticks since each source served what the row keeps of it
    changes     \* how many changes have been made

vars == <<config, content, serving, pool, job, contacted, served, changes>>
world == <<config, content, serving>>

Id == Source \cup {Demo}
Version == 0..MaxVersion
AgeCap == Ttl + MaxElapsed
Age == 0..AgeCap
Never == AgeCap + 1   \* no stamp

Config == [demo: BOOLEAN, egress: BOOLEAN, sources: SUBSET Source]
Entry == [ok: BOOLEAN, fetched: Age \cup {Never}, books: Version]
Sources(S) == UNION {[D -> S] : D \in SUBSET Id}
Pool == [written: BOOLEAN, mode: {"off", "public-metadata"},
         attempted: Age \cup {Never}, sources: Sources(Entry)]

Failed == MaxVersion + 1   \* an update that is not ok
Steps == {"idle", "mode", "decide", "fetch", "pool"}

\* heard is a ghost: ticks since each source answered this refresh.
Job == [at: Steps, elapsed: 0..MaxElapsed, cfg: Config, force: BOOLEAN,
        updates: Sources(Version \cup {Failed}), heard: [Source -> Age]]

IdleJob == [at |-> "idle", elapsed |-> 0, force |-> FALSE, updates |-> <<>>,
            heard |-> [s \in Source |-> AgeCap],
            cfg |-> [demo |-> FALSE, egress |-> FALSE, sources |-> {}]]

TypeOK ==
    /\ config \in Config
    /\ content \in [Source -> Version]
    /\ serving \in [Source -> {"content", "redirect"}]
    /\ pool \in Pool
    /\ job \in Job
    /\ contacted \subseteq Host
    /\ served \in [Source -> Age]
    /\ changes \in 0..MaxChanges

Init ==
    /\ config \in [demo: {FALSE}, egress: BOOLEAN, sources: SUBSET Source]
    /\ content = [s \in Source |-> 1]
    /\ serving = [s \in Source |-> "content"]
    /\ pool = [written |-> FALSE, mode |-> "off", attempted |-> Never, sources |-> <<>>]
    /\ job = IdleJob
    /\ contacted = {}
    /\ served = [s \in Source |-> AgeCap]
    /\ changes = 0

(***************************************************************************)
(* The world: the operator, the sources and the clock.                     *)
(***************************************************************************)
Change == changes < MaxChanges /\ changes' = changes + 1

Configure ==
    /\ Change
    /\ config' \in Config
    /\ UNCHANGED <<content, serving, pool, job, contacted, served>>

\* A collection changes, is emptied or filled again.
Publish(s) ==
    /\ Change
    /\ \E v \in Version \ {content[s]} : content' = [content EXCEPT ![s] = v]
    /\ UNCHANGED <<config, serving, pool, job, contacted, served>>

\* A redirect stands for every answer that fails: none is followed, and each is
\* kept as an update that is not ok.
Falter(s) ==
    /\ serving' = [serving EXCEPT ![s] = "redirect"]
    /\ UNCHANGED <<config, content, pool, job, contacted, served, changes>>

Recover(s) ==
    /\ serving' = [serving EXCEPT ![s] = "content"]
    /\ UNCHANGED <<config, content, pool, job, contacted, served, changes>>

Older(age) == IF age >= AgeCap THEN age ELSE age + 1

Tick ==
    /\ job.elapsed < MaxElapsed
    /\ LET aged == [i \in DOMAIN pool.sources |->
                      [pool.sources[i] EXCEPT !.fetched = Older(@)]]
       IN  pool' = [pool EXCEPT !.attempted = Older(@), !.sources = aged]
    /\ served' = [s \in Source |-> Older(served[s])]
    /\ job' = IF job.at = "idle" THEN job
              ELSE [job EXCEPT !.elapsed = @ + 1,
                               !.heard = [s \in Source |-> Older(@[s])]]
    /\ UNCHANGED <<world, contacted, changes>>

(***************************************************************************)
(* The row.                                                                *)
(***************************************************************************)
Restricted(f, S) == [i \in DOMAIN f \cap S |-> f[i]]

\* save_catalog_mode: consent and configuration, without an attempt.
WithMode(row, cfg) ==
    [row EXCEPT !.written = TRUE,
                !.mode = IF cfg.egress THEN "public-metadata" ELSE "off",
                !.sources = Restricted(@, cfg.sources)]

\* The books a source has in the row, and when they were fetched.
BooksIn(row, i) == IF i \in DOMAIN row.sources THEN row.sources[i].books ELSE 0
FetchedIn(row, i) == IF i \in DOMAIN row.sources THEN row.sources[i].fetched ELSE Never

\* Slip: a failed source is stored as it came, without its last good books.
WithRefreshForgetting(row, updates, age, mode) ==
    [written |-> TRUE, mode |-> mode, attempted |-> age,
     sources |-> [i \in DOMAIN updates |->
        IF updates[i] = Failed
        THEN [ok |-> FALSE, fetched |-> FetchedIn(row, i), books |-> 0]
        ELSE [ok |-> TRUE, fetched |-> age, books |-> updates[i]]]]

\* Slip: an attempt counts as a fetch.
WithRefreshStampingAll(row, updates, age, mode) ==
    [written |-> TRUE, mode |-> mode, attempted |-> age,
     sources |-> [i \in DOMAIN updates |->
        IF updates[i] = Failed
        THEN [ok |-> FALSE, fetched |-> age, books |-> BooksIn(row, i)]
        ELSE [ok |-> TRUE, fetched |-> age, books |-> updates[i]]]]

\* Slip: the sources of the row that were not fetched stay in it.
WithRefreshKeepingAll(row, updates, age, mode) ==
    [written |-> TRUE, mode |-> mode, attempted |-> age,
     sources |-> [i \in DOMAIN updates \cup DOMAIN row.sources |->
        IF i \notin DOMAIN updates THEN row.sources[i]
        ELSE IF updates[i] = Failed
        THEN [ok |-> FALSE, fetched |-> FetchedIn(row, i), books |-> BooksIn(row, i)]
        ELSE [ok |-> TRUE, fetched |-> age, books |-> updates[i]]]]

\* Slip: a source that has books is ok, whenever they were fetched.
WithRefreshCallingAllOk(row, updates, age, mode) ==
    [written |-> TRUE, mode |-> mode, attempted |-> age,
     sources |-> [i \in DOMAIN updates |->
        IF updates[i] = Failed
        THEN [ok |-> BooksIn(row, i) # 0, fetched |-> FetchedIn(row, i), books |-> BooksIn(row, i)]
        ELSE [ok |-> TRUE, fetched |-> age, books |-> updates[i]]]]

\* save_catalog_refresh: exactly the fetched sources, a failed one with the
\* books and the stamp it had.
WithRefresh(row, updates, age, mode) ==
    [written |-> TRUE, mode |-> mode, attempted |-> age,
     sources |-> [i \in DOMAIN updates |->
        IF updates[i] = Failed
        THEN [ok |-> FALSE, fetched |-> FetchedIn(row, i), books |-> BooksIn(row, i)]
        ELSE [ok |-> TRUE, fetched |-> age, books |-> updates[i]]]]

(***************************************************************************)
(* stacks refresh, as far as the pool is concerned.                        *)
(***************************************************************************)
Begin(force) ==
    /\ job.at = "idle"
    /\ job' = [IdleJob EXCEPT !.at = "mode", !.cfg = config, !.force = force]
    /\ UNCHANGED <<world, pool, contacted, served>>

BeginRefresh == Begin(FALSE) /\ UNCHANGED changes
ForceRefresh == Begin(TRUE) /\ Change

\* The row is written only if it changes, which its content does not tell.
SaveCatalogMode ==
    /\ job.at = "mode"
    /\ pool' = WithMode(pool, job.cfg)
    /\ job' = [job EXCEPT !.at = "decide"]
    /\ UNCHANGED <<world, contacted, served, changes>>

\* Slip: due only for what is not in the row yet.
CatalogDueOnce ==
    /\ job.cfg.egress
    /\ job.cfg.sources # {}
    /\ job.cfg.sources # DOMAIN pool.sources \/ pool.attempted = Never

CatalogDue ==
    /\ job.cfg.egress
    /\ job.cfg.sources # {}
    /\ \/ job.cfg.sources # DOMAIN pool.sources
       \/ pool.attempted = Never \/ pool.attempted - job.elapsed >= Ttl

\* Only a refresh that ingests comes to the pool; what else makes it ingest is
\* left open.
Decide ==
    LET demo == job.cfg.demo
        fetches == /\ ~demo /\ job.cfg.egress /\ job.cfg.sources # {}
                   /\ job.force \/ CatalogDue
    IN  /\ job.at = "decide"
        /\ job' = IF demo THEN [job EXCEPT !.at = "pool",
                                           !.updates = [i \in {Demo} |-> MaxVersion]]
                  ELSE IF fetches THEN [job EXCEPT !.at = "fetch"] ELSE IdleJob
        /\ UNCHANGED <<world, pool, contacted, served, changes>>

\* Slip: everything that is not blocked by name is allowed.
AllowedByDefault(url) == url.https /\ url.bare /\ url.host # "blocked"

\* assert_allowed: a bare (no credentials, no fragment, no port of its own)
\* HTTPS URL on the allowlist.
Allowed(url) == url.https /\ url.bare /\ url.host = "allowlisted"

\* What a client makes of a source: no request at all for a URL that is not allowed,
\* no second one for an answer that redirects; whatever fails is an update that is
\* not ok.  A collection that is served is ok, be it empty.
Fetched(s) ==
    IF Allowed(UrlOf[s]) /\ serving[s] = "content" THEN content[s] ELSE Failed

Contacts(s) == IF Allowed(UrlOf[s]) THEN {UrlOf[s].host} ELSE {}

\* One source, in any order: the failure of one is no other's.
FetchSource ==
    /\ job.at = "fetch"
    /\ \E s \in job.cfg.sources \ DOMAIN job.updates :
         LET updates == [i \in DOMAIN job.updates \cup {s} |->
                           IF i = s THEN Fetched(s) ELSE job.updates[i]]
             heard == IF Fetched(s) = Failed THEN job.heard ELSE [job.heard EXCEPT ![s] = 0]
         IN  /\ contacted' = contacted \cup Contacts(s)
             /\ job' = [job EXCEPT !.updates = updates, !.heard = heard,
                                   !.at = IF DOMAIN updates = job.cfg.sources
                                          THEN "pool" ELSE @]
    /\ UNCHANGED <<world, pool, served, changes>>

SaveCatalogRefresh ==
    /\ job.at = "pool"
    /\ pool' = WithRefresh(pool, job.updates, job.elapsed,
                           IF job.cfg.egress /\ ~job.cfg.demo
                           THEN "public-metadata" ELSE "off")
    /\ served' = [s \in Source |->
                    IF s \in DOMAIN job.updates /\ job.updates[s] # Failed
                    THEN job.heard[s] ELSE served[s]]
    /\ job' = IdleJob
    /\ UNCHANGED <<world, contacted, changes>>

Die ==
    /\ job.at \in MortalAt \ {"idle"}
    /\ Change
    /\ job' = IdleJob
    /\ UNCHANGED <<world, pool, contacted, served>>

RefreshStep ==
    \/ BeginRefresh \/ SaveCatalogMode \/ Decide \/ FetchSource \/ SaveCatalogRefresh

Next ==
    \/ Configure
    \/ \E s \in Source : Publish(s) \/ Falter(s) \/ Recover(s)
    \/ Tick
    \/ RefreshStep
    \/ ForceRefresh
    \/ Die

Spec == Init /\ [][Next]_vars

\* Time goes on, someone keeps refreshing, and a refresh runs to its end.
FairSpec == Spec /\ SF_vars(Tick) /\ WF_vars(RefreshStep)

(***************************************************************************)
(* Properties.                                                             *)
(***************************************************************************)
\* No request has gone to a host that is not on the allowlist, whatever is
\* configured and wherever a source redirects (catalogs.py:1).
OnlyAllowlistedHosts == contacted \subseteq {"allowlisted"}

\* A source that stays in the row loses its books only to what it has served
\* since, which may be an empty collection: failures, changes of consent and
\* deaths keep the last good ones (store.py:490).
LastGoodBooksStay ==
    [][\A s \in DOMAIN pool.sources \cap DOMAIN pool'.sources :
          pool'.sources[s].books # pool.sources[s].books =>
              /\ s \in DOMAIN job.updates
              /\ job.updates[s] = pool'.sources[s].books]_vars

\* fetched_at never claims younger books than the row holds (store.py:521).
PoolAgeIsHonest ==
    \A s \in DOMAIN pool.sources \cap Source :
        pool.sources[s].fetched # Never => pool.sources[s].fetched >= served[s]

\* The demo's candidates and those of configured sources are never in one pool,
\* and the demo's are there only with egress off (refresh.py:570).
WorldsDoNotMix ==
    Demo \in DOMAIN pool.sources =>
        DOMAIN pool.sources = {Demo} /\ pool.mode = "off"

\* The dashboard calls a pool fresh only if its every source has answered since
\* the last attempt began, and is stamped with that attempt: what the row keeps
\* of it, books or none, is no older (store.py:457).
PoolState ==
    CASE pool.mode = "off" -> "off"
      [] pool.mode # "off" /\ DOMAIN pool.sources = {} -> "unconfigured"
      [] pool.mode # "off" /\ \E i \in DOMAIN pool.sources : ~pool.sources[i].ok -> "degraded"
      [] OTHER -> "fresh"

FreshIsTrue ==
    PoolState = "fresh" =>
        \A i \in DOMAIN pool.sources :
            /\ pool.sources[i].fetched = pool.attempted
            /\ i \in Source => served[i] <= pool.attempted

\* A source that stays configured and goes on serving one version, be it without
\* a book, has it in the pool in the end, whatever failed, died or was unconfigured
\* before (store.py:479).
Steady(s, v) ==
    /\ ~config.demo /\ config.egress /\ s \in config.sources
    /\ Allowed(UrlOf[s]) /\ serving[s] = "content" /\ content[s] = v
InPool(s, v) == s \in DOMAIN pool.sources /\ pool.sources[s].books = v

PoolCatchesUp ==
    \A s \in Source, v \in Version : <>[]Steady(s, v) => <>[]InPool(s, v)
=============================================================================
