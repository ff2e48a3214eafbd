-------------------------- MODULE DashboardProofs --------------------------
(***************************************************************************)
(* What the dashboard shows besides the library itself: the candidates,    *)
(* the picks among them, and figures of what was read.                     *)
(*                                                                         *)
(* CatalogPool: what the pool promises, for any sources, URLs, ages and    *)
(* versions, under reconfigurations, failures and deaths in any order.     *)
(* JobInv says what a running refresh has in hand: updates that come from  *)
(* one world, and from answers no older than the refresh.  PoolInv says    *)
(* what the row then is: entries that are ok hold what was served since    *)
(* the last attempt began, stamped no younger than that.                   *)
(*                                                                         *)
(* Picks: TasteInv says that the answers stored or being written are       *)
(* finitely many and valid; the totals of the rankings are sums over them. *)
(*                                                                         *)
(* Activity: ActivityInv says that the store is what pruning leaves of     *)
(* what the last refresh read, however often a reader forgot since.        *)
(***************************************************************************)
EXTENDS CatalogPool, Picks, Activity, RetentionProofs

(***************************************************************************)
(* Functions on some of the ids.                                           *)
(***************************************************************************)
LEMMA SourcesIntro ==
    ASSUME NEW S, NEW D \in SUBSET Id, NEW f \in [D -> S]
    PROVE  f \in Sources(S)
BY DEF Sources

LEMMA SourcesElim ==
    ASSUME NEW S, NEW f \in Sources(S)
    PROVE  /\ DOMAIN f \in SUBSET Id
           /\ f \in [DOMAIN f -> S]
           /\ \A i \in DOMAIN f : f[i] \in S
<1>1. PICK D \in SUBSET Id : f \in [D -> S]
  BY DEF Sources
<1> QED
  BY <1>1

LEMMA NoSources == ASSUME NEW S PROVE <<>> \in Sources(S) /\ DOMAIN <<>> = {}
<1>1. DOMAIN <<>> = {} /\ <<>> = [i \in DOMAIN <<>> |-> <<>>[i]]
  OBVIOUS
<1>2. <<>> \in [{} -> S]
  BY <1>1
<1> QED
  BY <1>1, <1>2, SourcesIntro

LEMMA Bounds ==
    /\ AgeCap \in Nat /\ Ttl <= AgeCap /\ MaxElapsed <= AgeCap
    /\ Never = AgeCap + 1 /\ Never \notin Age
    /\ Failed \notin Version
BY TtlAssumption, BoundsAssumption DEF AgeCap, Never, Age, Failed, Version

(***************************************************************************)
(* What each operation does to the row.                                    *)
(***************************************************************************)
LEMMA OlderAge ==
    ASSUME NEW age \in Age \cup {Never}
    PROVE  /\ Older(age) \in Age \cup {Never}
           /\ age \in Age => Older(age) \in Age
           /\ Older(age) = Never <=> age = Never
BY Bounds DEF Older, Age

LEMMA OlderMonotone ==
    ASSUME NEW a \in Age \cup {Never}, NEW b \in Age, a >= b
    PROVE  Older(a) >= Older(b)
BY Bounds DEF Older, Age

\* An entry, and the defaults of a source that has none.
LEMMA EntryIn ==
    ASSUME NEW row \in Pool, NEW i
    PROVE  BooksIn(row, i) \in Version /\ FetchedIn(row, i) \in Age \cup {Never}
<1>1. i \in DOMAIN row.sources => row.sources[i] \in Entry
  BY SourcesElim DEF Pool
<1>2. 0 \in Version
  BY BoundsAssumption DEF Version
<1> QED
  BY <1>1, <1>2 DEF BooksIn, FetchedIn, Entry

\* save_catalog_mode drops entries, and changes none.
LEMMA ModeRow ==
    ASSUME NEW row \in Pool, NEW cfg \in Config
    PROVE  LET r == WithMode(row, cfg)
           IN  /\ r \in Pool
               /\ r.attempted = row.attempted
               /\ DOMAIN r.sources = DOMAIN row.sources \cap cfg.sources
               /\ \A i \in DOMAIN r.sources : r.sources[i] = row.sources[i]
<1> DEFINE r == WithMode(row, cfg)
           sources == Restricted(row.sources, cfg.sources)
           mode == IF cfg.egress THEN "public-metadata" ELSE "off"
<1>1. /\ DOMAIN sources = DOMAIN row.sources \cap cfg.sources
      /\ \A i \in DOMAIN sources : sources[i] = row.sources[i]
  BY DEF Restricted
<1>2. row.sources \in Sources(Entry)
  BY DEF Pool
<1>3. sources \in [DOMAIN row.sources \cap cfg.sources -> Entry]
  BY <1>2, SourcesElim DEF Restricted
<1>4. sources \in Sources(Entry)
  BY <1>2, <1>3, SourcesElim, SourcesIntro
<1>5. r = [row EXCEPT !.written = TRUE, !.mode = mode, !.sources = sources]
  BY DEF WithMode
<1>6. mode \in {"off", "public-metadata"}
  OBVIOUS
<1> HIDE DEF r, sources, mode
<1>7. r \in Pool /\ r.attempted = row.attempted /\ r.sources = sources
  BY <1>4, <1>5, <1>6 DEF Pool
<1> QED
  BY <1>1, <1>7 DEF r

\* save_catalog_refresh writes an entry for each update, and no other.
LEMMA RefreshRow ==
    ASSUME NEW row \in Pool, NEW updates \in Sources(Version \cup {Failed}),
           NEW age \in Age, NEW mode \in {"off", "public-metadata"}
    PROVE  LET r == WithRefresh(row, updates, age, mode)
           IN  /\ r \in Pool
               /\ r.attempted = age /\ r.mode = mode
               /\ DOMAIN r.sources = DOMAIN updates
               /\ \A i \in DOMAIN updates :
                     /\ updates[i] = Failed =>
                          r.sources[i] = [ok |-> FALSE, fetched |-> FetchedIn(row, i),
                                          books |-> BooksIn(row, i)]
                     /\ updates[i] # Failed =>
                          /\ updates[i] \in Version
                          /\ r.sources[i] = [ok |-> TRUE, fetched |-> age, books |-> updates[i]]
<1> DEFINE r == WithRefresh(row, updates, age, mode)
           entry(i) == IF updates[i] = Failed
                       THEN [ok |-> FALSE, fetched |-> FetchedIn(row, i), books |-> BooksIn(row, i)]
                       ELSE [ok |-> TRUE, fetched |-> age, books |-> updates[i]]
           sources == [i \in DOMAIN updates |-> entry(i)]
<1>1. r = [written |-> TRUE, mode |-> mode, attempted |-> age, sources |-> sources]
  BY DEF WithRefresh
<1>2. \A i \in DOMAIN updates : updates[i] # Failed => updates[i] \in Version
  BY SourcesElim
<1>3. \A i \in DOMAIN updates : entry(i) \in Entry
  BY <1>2, EntryIn DEF Entry
<1>4. sources \in Sources(Entry)
  BY <1>3, SourcesElim, SourcesIntro
<1>5. r \in Pool
  BY <1>1, <1>4 DEF Pool
<1> QED
  BY <1>1, <1>2, <1>5

(***************************************************************************)
(* Types.                                                                  *)
(***************************************************************************)
LEMMA IdleJobType == IdleJob \in Job
<1>1. <<>> \in Sources(Version \cup {Failed}) /\ 0 \in 0..MaxElapsed
  BY NoSources, TtlAssumption
<1>2. [demo |-> FALSE, egress |-> FALSE, sources |-> {}] \in Config
  BY DEF Config
<1>3. [s \in Source |-> AgeCap] \in [Source -> Age]
  BY Bounds DEF Age
<1> QED
  BY <1>1, <1>2, <1>3 DEF IdleJob, Job, Steps

\* A refresh has asked s: what came back, and when.
Requested(s) ==
    LET updates == [i \in DOMAIN job.updates \cup {s} |->
                      IF i = s THEN Fetched(s) ELSE job.updates[i]]
        heard == IF Fetched(s) = Failed THEN job.heard ELSE [job.heard EXCEPT ![s] = 0]
        at == IF DOMAIN updates = job.cfg.sources THEN "pool" ELSE job.at
    IN  job' = [job EXCEPT !.updates = updates, !.heard = heard, !.at = at]

LEMMA FetchIs ==
    ASSUME TypeOK, FetchSource
    PROVE  \E s \in job.cfg.sources : Requested(s) /\ contacted' = contacted \cup Contacts(s)
<1>1. job \in Job
  BY DEF TypeOK
<1>2. PICK s \in job.cfg.sources :
        LET updates == [i \in DOMAIN job.updates \cup {s} |->
                          IF i = s THEN Fetched(s) ELSE job.updates[i]]
            heard == IF Fetched(s) = Failed THEN job.heard ELSE [job.heard EXCEPT ![s] = 0]
        IN  /\ contacted' = contacted \cup Contacts(s)
            /\ job' = [job EXCEPT !.updates = updates, !.heard = heard,
                                  !.at = IF DOMAIN updates = job.cfg.sources
                                         THEN "pool" ELSE @]
  BY Zenon DEF FetchSource
<1>3. Requested(s)
  BY <1>2 DEF Requested
<1> QED
  BY <1>2, <1>3

LEMMA RequestedType ==
    ASSUME TypeOK, NEW s \in job.cfg.sources, Requested(s)
    PROVE  /\ job' \in Job
           /\ job'.cfg = job.cfg /\ job'.elapsed = job.elapsed
           /\ DOMAIN job'.updates = DOMAIN job.updates \cup {s}
           /\ job'.at = IF DOMAIN job'.updates = job.cfg.sources THEN "pool" ELSE job.at
           /\ job'.updates[s] # Failed => job'.heard[s] = 0
           /\ \A i \in DOMAIN job.updates \ {s} :
                 /\ job'.updates[i] = job.updates[i]
                 /\ i \in Source => job'.heard[i] = job.heard[i]
<1> DEFINE updates == [i \in DOMAIN job.updates \cup {s} |->
                         IF i = s THEN Fetched(s) ELSE job.updates[i]]
           heard == IF Fetched(s) = Failed THEN job.heard ELSE [job.heard EXCEPT ![s] = 0]
           at == IF DOMAIN updates = job.cfg.sources THEN "pool" ELSE job.at
<1>1. /\ s \in Source /\ job.updates \in Sources(Version \cup {Failed}) /\ job.at \in Steps
      /\ job.heard \in [Source -> Age]
  BY DEF TypeOK, Job, Config
<1>2. Fetched(s) \in Version \cup {Failed}
  BY <1>1 DEF Fetched, TypeOK
<1>3. DOMAIN job.updates \cup {s} \in SUBSET Id
  BY <1>1, SourcesElim DEF Id
<1>4. updates \in [DOMAIN job.updates \cup {s} -> Version \cup {Failed}]
  BY <1>1, <1>2, SourcesElim
<1>5. updates \in Sources(Version \cup {Failed})
  BY <1>3, <1>4, SourcesIntro
<1>6. at \in Steps
  BY <1>1 DEF Steps
<1>7. 0 \in Age
  BY Bounds DEF Age
<1>8. heard \in [Source -> Age]
  BY <1>1, <1>7
<1>9. /\ updates[s] # Failed => heard[s] = 0
      /\ \A i \in DOMAIN job.updates \ {s} :
            updates[i] = job.updates[i] /\ (i \in Source => heard[i] = job.heard[i])
      /\ DOMAIN updates = DOMAIN job.updates \cup {s}
  BY <1>1
<1>10. job' = [job EXCEPT !.updates = updates, !.heard = heard, !.at = at]
  BY DEF Requested
<1> HIDE DEF updates, heard
<1>11. /\ job' \in Job /\ job'.cfg = job.cfg /\ job'.elapsed = job.elapsed
       /\ job'.updates = updates /\ job'.heard = heard /\ job'.at = at
  BY <1>5, <1>6, <1>8, <1>10 DEF TypeOK, Job
<1> QED
  BY <1>9, <1>11

LEMMA TypeInit == Init => TypeOK
<1> SUFFICES ASSUME Init PROVE TypeOK
  OBVIOUS
<1>1. pool \in Pool
  BY NoSources DEF Init, Pool
<1>2. AgeCap \in Age /\ 1 \in Version
  BY Bounds, BoundsAssumption DEF Age, Version
<1> QED
  <2>1. config \in Config
    <3>1. config \in [demo: {FALSE}, egress: BOOLEAN, sources: SUBSET Source]
      BY DEF Init
    <3> QED
      BY <3>1 DEF Config
  <2>4. contacted \subseteq Host /\ changes \in 0..MaxChanges
    BY BoundsAssumption DEF Init
  <2>2. content \in [Source -> Version] /\ served \in [Source -> Age]
    BY <1>2 DEF Init
  <2>3. serving \in [Source -> {"content", "redirect"}]
    BY DEF Init
  <2> QED
    BY <1>1, <2>1, <2>2, <2>3, <2>4, IdleJobType DEF Init, TypeOK

LEMMA TypeStep == TypeOK /\ [Next]_vars => TypeOK'
<1> SUFFICES ASSUME TypeOK, [Next]_vars PROVE TypeOK'
  OBVIOUS
<1>c. ASSUME Change PROVE changes' \in 0..MaxChanges
  BY <1>c, BoundsAssumption DEF Change, TypeOK
<1>1. CASE Configure
  BY <1>1, <1>c DEF Configure, TypeOK, Change
<1>2. ASSUME NEW s \in Source, Publish(s) PROVE TypeOK'
  <2>1. content' \in [Source -> Version]
    BY <1>2 DEF Publish, TypeOK
  <2> QED
    BY <1>2, <1>c, <2>1 DEF Publish, TypeOK
<1>3. ASSUME NEW s \in Source, Falter(s) \/ Recover(s) PROVE TypeOK'
  BY <1>3 DEF Falter, Recover, TypeOK, world
<1>4. CASE Tick
  <2> DEFINE sources == [i \in DOMAIN pool.sources |->
                           [pool.sources[i] EXCEPT !.fetched = Older(@)]]
             attempted == Older(pool.attempted)
  <2>1. pool.sources \in Sources(Entry) /\ pool.attempted \in Age \cup {Never}
    BY DEF TypeOK, Pool
  <2>2. \A i \in DOMAIN pool.sources :
           [pool.sources[i] EXCEPT !.fetched = Older(@)] \in Entry
    <3>1. TAKE i \in DOMAIN pool.sources
    <3>2. pool.sources[i] \in Entry
      BY <2>1, SourcesElim
    <3>3. Older(pool.sources[i].fetched) \in Age \cup {Never}
      BY <3>2, OlderAge DEF Entry
    <3> QED
      BY <3>2, <3>3 DEF Entry
  <2>3. sources \in Sources(Entry)
    BY <2>1, <2>2, SourcesElim, SourcesIntro
  <2>4. attempted \in Age \cup {Never}
    BY <2>1, OlderAge
  <2>5. pool' = [pool EXCEPT !.attempted = attempted, !.sources = sources]
    BY <1>4 DEF Tick
  <2> HIDE DEF sources, attempted
  <2>6. pool' \in Pool
    BY <2>3, <2>4, <2>5 DEF TypeOK, Pool
  <2>7. served' \in [Source -> Age]
    BY <1>4, OlderAge DEF Tick, TypeOK
  <2>8. job' \in Job
    <3>1. job.at # "idle" => job' = [job EXCEPT !.elapsed = job.elapsed + 1,
                                                !.heard = [s \in Source |-> Older(job.heard[s])]]
      BY <1>4 DEF Tick, TypeOK, Job
    <3>2. [s \in Source |-> Older(job.heard[s])] \in [Source -> Age]
      BY OlderAge DEF TypeOK, Job
    <3>3. job.elapsed + 1 \in 0..MaxElapsed
      BY <1>4, TtlAssumption DEF Tick, TypeOK, Job
    <3>4. CASE job.at = "idle"
      BY <1>4, <3>4 DEF Tick, TypeOK
    <3>5. CASE job.at # "idle"
      <4> DEFINE heard == [s \in Source |-> Older(job.heard[s])]
      <4> HIDE DEF heard
      <4>1. heard \in [Source -> Age] /\ job' = [job EXCEPT !.elapsed = job.elapsed + 1, !.heard = heard]
        BY <3>1, <3>2, <3>5 DEF heard
      <4> QED
        BY <3>3, <4>1 DEF TypeOK, Job
    <3> QED
      BY <3>4, <3>5
  <2> QED
    BY <1>4, <2>6, <2>7, <2>8 DEF Tick, world, TypeOK
<1>5. ASSUME NEW force \in BOOLEAN, Begin(force), changes' \in 0..MaxChanges PROVE TypeOK'
  <2>1. job' \in Job
    BY <1>5, IdleJobType DEF Begin, TypeOK, Job, Steps
  <2> QED
    BY <1>5, <2>1 DEF Begin, TypeOK, world
<1>6. CASE SaveCatalogMode
  <2>1. job \in Job /\ job.cfg \in Config
    BY DEF TypeOK, Job
  <2>2. pool' \in Pool
    BY <1>6, <2>1, ModeRow DEF SaveCatalogMode, TypeOK
  <2>3. job' \in Job
    BY <1>6, <2>1 DEF SaveCatalogMode, Job, Steps
  <2> QED
    BY <1>6, <2>2, <2>3 DEF SaveCatalogMode, TypeOK, world
<1>7. CASE Decide
  <2>1. [i \in {Demo} |-> MaxVersion] \in Sources(Version \cup {Failed})
    <3>1. MaxVersion \in Version /\ {Demo} \in SUBSET Id
      BY BoundsAssumption DEF Version, Id
    <3>2. [i \in {Demo} |-> MaxVersion] \in [{Demo} -> Version \cup {Failed}]
      BY <3>1
    <3> QED
      BY <3>1, <3>2, SourcesIntro
  <2> DEFINE updates == [i \in {Demo} |-> MaxVersion]
  <2> HIDE DEF updates
  <2>2. \/ job' = [job EXCEPT !.at = "pool", !.updates = updates]
        \/ job' = [job EXCEPT !.at = "fetch"]
        \/ job' = IdleJob
    BY <1>7 DEF Decide, updates
  <2>3. job' \in Job
    BY <2>1, <2>2, IdleJobType DEF TypeOK, Job, Steps, updates
  <2> QED
    BY <1>7, <2>3 DEF Decide, TypeOK, world
<1>8. CASE FetchSource
  <2>1. PICK s \in job.cfg.sources : Requested(s) /\ contacted' = contacted \cup Contacts(s)
    BY <1>8, FetchIs
  <2>2. s \in Source
    BY DEF TypeOK, Job, Config
  <2>3. Contacts(s) \subseteq Host
    BY <2>2, SourceAssumption DEF Contacts, Url
  <2>4. job' \in Job
    BY <1>8, <2>1, RequestedType
  <2> QED
    BY <1>8, <2>1, <2>3, <2>4 DEF FetchSource, TypeOK, world
<1>9. CASE SaveCatalogRefresh
  <2>1. job.updates \in Sources(Version \cup {Failed}) /\ job.elapsed \in Age
    BY Bounds, TtlAssumption DEF TypeOK, Job, Age
  <2>2. pool' \in Pool
    BY <1>9, <2>1, RefreshRow DEF SaveCatalogRefresh, TypeOK
  <2>3. served' \in [Source -> Age]
    <3>1. job.heard \in [Source -> Age]
      BY DEF TypeOK, Job
    <3> QED
      BY <1>9, <3>1 DEF SaveCatalogRefresh, TypeOK
  <2> QED
    BY <1>9, <2>2, <2>3, IdleJobType DEF SaveCatalogRefresh, TypeOK, world
<1>10. CASE Die
  BY <1>10, <1>c, IdleJobType DEF Die, TypeOK, world
<1>11. CASE UNCHANGED vars
  BY <1>11 DEF vars, TypeOK
<1>12. CASE BeginRefresh
  BY <1>12, <1>5 DEF BeginRefresh, TypeOK
<1>13. CASE ForceRefresh
  BY <1>13, <1>5, <1>c DEF ForceRefresh
<1> QED
  BY <1>1, <1>2, <1>3, <1>4, <1>6, <1>7, <1>8, <1>9, <1>10, <1>11, <1>12, <1>13
  DEF Next, RefreshStep

\* The types of the row and of the running refresh.
THEOREM TypeCorrect == Spec => []TypeOK
BY TypeInit, TypeStep, PTL DEF Spec

(***************************************************************************)
(* Where requests go, and what a row loses.                                *)
(***************************************************************************)
\* No request has gone to a host that is not on the allowlist, whatever is
\* configured and wherever a source redirects (catalogs.py:1).
THEOREM OnlyAllowlistedHostsHolds == Spec => []OnlyAllowlistedHosts
<1>1. Init => OnlyAllowlistedHosts
  BY DEF Init, OnlyAllowlistedHosts
<1>2. OnlyAllowlistedHosts /\ [Next]_vars => OnlyAllowlistedHosts'
  <2> SUFFICES ASSUME OnlyAllowlistedHosts, [Next]_vars PROVE OnlyAllowlistedHosts'
    OBVIOUS
  <2>1. CASE FetchSource
    <3>1. PICK s : contacted' = contacted \cup Contacts(s)
      BY <2>1 DEF FetchSource
    <3>2. Contacts(s) \subseteq {"allowlisted"}
      BY DEF Contacts, Allowed
    <3> QED
      BY <3>1, <3>2 DEF OnlyAllowlistedHosts
  <2>2. CASE ~FetchSource
    <3>1. contacted' = contacted
      BY <2>2 DEF Next, RefreshStep, vars, Configure, Publish, Falter, Recover, Tick, BeginRefresh,
         ForceRefresh, Begin, SaveCatalogMode, Decide, SaveCatalogRefresh, Die
    <3> QED
      BY <3>1 DEF OnlyAllowlistedHosts
  <2> QED
    BY <2>1, <2>2
<1> QED
  BY <1>1, <1>2, PTL DEF Spec

\* Steps other than the clock's and the two that save leave the row alone.
LEMMA RowFrame ==
    ASSUME [Next]_vars, ~Tick, ~SaveCatalogMode, ~SaveCatalogRefresh
    PROVE  pool' = pool /\ served' = served
<1>1. FetchSource => pool' = pool /\ served' = served
  <2>1. FetchSource => UNCHANGED <<world, pool, served, changes>>
    BY Zenon DEF FetchSource
  <2> QED
    BY <2>1
<1> QED
  BY <1>1 DEF Next, RefreshStep, vars, Configure, Publish, Falter, Recover, BeginRefresh,
     ForceRefresh, Begin, Decide, Die

\* The clock ages the row and changes nothing else of it.
LEMMA TickRow ==
    ASSUME TypeOK, Tick
    PROVE  /\ pool'.attempted = Older(pool.attempted) /\ pool'.mode = pool.mode
           /\ DOMAIN pool'.sources = DOMAIN pool.sources
           /\ \A i \in DOMAIN pool.sources :
                 /\ pool.sources[i] \in Entry
                 /\ pool'.sources[i] = [pool.sources[i] EXCEPT !.fetched = Older(@)]
<1> DEFINE aged == [i \in DOMAIN pool.sources |-> [pool.sources[i] EXCEPT !.fetched = Older(@)]]
<1>1. pool' = [pool EXCEPT !.attempted = Older(@), !.sources = aged]
  BY DEF Tick
<1>2. /\ DOMAIN aged = DOMAIN pool.sources
      /\ \A i \in DOMAIN pool.sources :
            aged[i] = [pool.sources[i] EXCEPT !.fetched = Older(@)]
  OBVIOUS
<1>3. \A i \in DOMAIN pool.sources : pool.sources[i] \in Entry
  BY SourcesElim DEF TypeOK, Pool
<1> HIDE DEF aged
<1>4. /\ pool'.attempted = Older(pool.attempted) /\ pool'.mode = pool.mode
      /\ pool'.sources = aged
  BY <1>1 DEF TypeOK, Pool
<1> QED
  BY <1>2, <1>3, <1>4

\* The refresh that saves writes the entries of its updates.
LEMMA SavedRow ==
    ASSUME TypeOK, SaveCatalogRefresh
    PROVE  /\ pool'.attempted = job.elapsed
           /\ job.cfg.demo => pool'.mode = "off"
           /\ DOMAIN pool'.sources = DOMAIN job.updates
           /\ \A i \in DOMAIN job.updates :
                 /\ job.updates[i] = Failed =>
                      /\ pool'.sources[i].ok = FALSE
                      /\ pool'.sources[i].books = BooksIn(pool, i)
                      /\ pool'.sources[i].fetched = FetchedIn(pool, i)
                 /\ job.updates[i] # Failed =>
                      /\ pool'.sources[i].ok = TRUE
                      /\ pool'.sources[i].books = job.updates[i]
                      /\ pool'.sources[i].fetched = job.elapsed
<1> DEFINE entry(i) == IF job.updates[i] = Failed
                       THEN [ok |-> FALSE, fetched |-> FetchedIn(pool, i), books |-> BooksIn(pool, i)]
                       ELSE [ok |-> TRUE, fetched |-> job.elapsed, books |-> job.updates[i]]
           sources == [i \in DOMAIN job.updates |-> entry(i)]
           mode == IF job.cfg.egress /\ ~job.cfg.demo THEN "public-metadata" ELSE "off"
<1>1. pool' = [written |-> TRUE, mode |-> mode, attempted |-> job.elapsed, sources |-> sources]
  BY DEF SaveCatalogRefresh, WithRefresh
<1>2. DOMAIN sources = DOMAIN job.updates /\ \A i \in DOMAIN job.updates : sources[i] = entry(i)
  OBVIOUS
<1>3. job.cfg.demo => mode = "off"
  OBVIOUS
<1> HIDE DEF sources, mode
<1>4. pool'.attempted = job.elapsed /\ pool'.mode = mode /\ pool'.sources = sources
  BY <1>1
<1>5. \A i \in DOMAIN job.updates : pool'.sources[i] = entry(i)
  BY <1>2, <1>4
<1>6. DOMAIN pool'.sources = DOMAIN job.updates
  BY <1>2, <1>4
<1>7. ASSUME NEW i \in DOMAIN job.updates, job.updates[i] = Failed
      PROVE  /\ pool'.sources[i].ok = FALSE
             /\ pool'.sources[i].books = BooksIn(pool, i)
             /\ pool'.sources[i].fetched = FetchedIn(pool, i)
  <2>1. pool'.sources[i] = [ok |-> FALSE, fetched |-> FetchedIn(pool, i),
                            books |-> BooksIn(pool, i)]
    BY <1>5, <1>7
  <2> QED
    BY <2>1
<1>8. ASSUME NEW i \in DOMAIN job.updates, job.updates[i] # Failed
      PROVE  /\ pool'.sources[i].ok = TRUE
             /\ pool'.sources[i].books = job.updates[i]
             /\ pool'.sources[i].fetched = job.elapsed
  <2>1. pool'.sources[i] = [ok |-> TRUE, fetched |-> job.elapsed, books |-> job.updates[i]]
    BY <1>5, <1>8
  <2> QED
    BY <2>1
<1> HIDE DEF entry
<1> QED
  BY <1>3, <1>4, <1>6, <1>7, <1>8

\* A source that stays in the row loses its books only to what it has served since,
\* which may be an empty collection: failures, changes of consent and deaths keep
\* the last good ones (store.py:490).
THEOREM LastGoodBooksStayHolds == Spec => LastGoodBooksStay
<1> DEFINE Kept == \A s \in DOMAIN pool.sources \cap DOMAIN pool'.sources :
                     pool'.sources[s].books # pool.sources[s].books =>
                         /\ s \in DOMAIN job.updates
                         /\ job.updates[s] = pool'.sources[s].books
<1>1. ASSUME TypeOK, [Next]_vars PROVE [Kept]_vars
  <2> USE <1>1
  <2>1. CASE Tick
    <3>1. \A i \in DOMAIN pool.sources : pool'.sources[i].books = pool.sources[i].books
      BY <2>1, TickRow DEF Entry
    <3> QED
      BY <3>1
  <2>2. CASE SaveCatalogMode
    <3>1. job.cfg \in Config /\ pool \in Pool /\ pool' = WithMode(pool, job.cfg)
      BY <2>2 DEF SaveCatalogMode, TypeOK, Job
    <3>2. \A i \in DOMAIN pool'.sources : pool'.sources[i] = pool.sources[i]
      BY <3>1, ModeRow
    <3> QED
      BY <3>2
  <2>3. CASE SaveCatalogRefresh
    <3>2. ASSUME NEW s \in DOMAIN pool.sources \cap DOMAIN pool'.sources,
                 pool'.sources[s].books # pool.sources[s].books
          PROVE  s \in DOMAIN job.updates /\ job.updates[s] = pool'.sources[s].books
      <4>1. s \in DOMAIN job.updates
        BY <2>3, <3>2, SavedRow
      <4>2. CASE job.updates[s] = Failed
        <5>1. pool'.sources[s].books = BooksIn(pool, s)
          BY <2>3, <4>1, <4>2, SavedRow
        <5> QED
          BY <3>2, <5>1 DEF BooksIn
      <4>3. CASE job.updates[s] # Failed
        BY <2>3, <4>1, <4>3, SavedRow
      <4> QED
        BY <4>1, <4>2, <4>3
    <3> QED
      BY <3>2
  <2>4. CASE ~Tick /\ ~SaveCatalogMode /\ ~SaveCatalogRefresh
    BY <2>4, RowFrame
  <2> QED
    BY <2>1, <2>2, <2>3, <2>4
<1> QED
  BY <1>1, TypeInit, TypeStep, PTL DEF Spec, LastGoodBooksStay

(***************************************************************************)
(* What a running refresh has in hand.                                     *)
(***************************************************************************)
JobInv ==
    /\ job.at \notin {"fetch", "pool"} => DOMAIN job.updates = {}
    /\ job.at = "fetch" => ~job.cfg.demo /\ DOMAIN job.updates \subseteq job.cfg.sources
    /\ job.at = "pool" =>
         DOMAIN job.updates = IF job.cfg.demo THEN {Demo} ELSE job.cfg.sources
    /\ \A s \in DOMAIN job.updates \cap Source :
         job.updates[s] # Failed => job.heard[s] <= job.elapsed

LEMMA IdleJobInv == IdleJob.at = "idle" /\ DOMAIN IdleJob.updates = {}
BY NoSources DEF IdleJob

LEMMA JobInit == Init => JobInv
BY IdleJobInv DEF Init, JobInv

LEMMA JobStep ==
    ASSUME TypeOK, JobInv, [Next]_vars
    PROVE  JobInv'
<1>0. ASSUME job' = IdleJob PROVE JobInv'
  BY <1>0, IdleJobInv DEF JobInv
<1>1. ASSUME NEW force \in BOOLEAN, Begin(force) PROVE JobInv'
  <2>1. job' = [IdleJob EXCEPT !.at = "mode", !.cfg = config, !.force = force]
    BY <1>1 DEF Begin
  <2>2. job'.at = "mode" /\ job'.updates = IdleJob.updates
    BY <2>1 DEF IdleJob
  <2> QED
    BY <2>2, IdleJobInv DEF JobInv
<1>2. CASE SaveCatalogMode
  BY <1>2 DEF SaveCatalogMode, JobInv, TypeOK, Job
<1>3. CASE Decide
  <2> DEFINE demos == [i \in {Demo} |-> MaxVersion]
  <2>1. \/ job' = IdleJob
        \/ job.cfg.demo /\ job' = [job EXCEPT !.at = "pool", !.updates = demos]
        \/ ~job.cfg.demo /\ job' = [job EXCEPT !.at = "fetch"]
    BY <1>3 DEF Decide
  <2>2. DOMAIN demos = {Demo} /\ Demo \notin Source
    BY SourceAssumption
  <2>3. job.at = "decide"
    BY <1>3 DEF Decide
  <2> HIDE DEF demos
  <2>4. CASE job.cfg.demo /\ job' = [job EXCEPT !.at = "pool", !.updates = demos]
    <3>1. job'.at = "pool" /\ job'.updates = demos /\ job'.cfg.demo
      BY <2>4 DEF TypeOK, Job
    <3> QED
      BY <2>2, <3>1 DEF JobInv
  <2>5. CASE ~job.cfg.demo /\ job' = [job EXCEPT !.at = "fetch"]
    BY <2>3, <2>5 DEF TypeOK, Job, JobInv
  <2> QED
    BY <1>0, <2>1, <2>4, <2>5
<1>4. CASE FetchSource
  <2>1. PICK s \in job.cfg.sources : Requested(s)
    BY <1>4, FetchIs
  <2>2. job.at = "fetch" /\ ~job.cfg.demo /\ DOMAIN job.updates \subseteq job.cfg.sources
    BY <1>4 DEF FetchSource, JobInv
  <2>3. /\ job'.at \in {"fetch", "pool"} /\ job'.cfg = job.cfg
        /\ DOMAIN job'.updates \subseteq job.cfg.sources
        /\ job'.at = "pool" => DOMAIN job'.updates = job.cfg.sources
    BY <2>1, <2>2, RequestedType
  <2>4. ASSUME NEW i \in DOMAIN job'.updates \cap Source, job'.updates[i] # Failed
        PROVE  job'.heard[i] <= job'.elapsed
    <3>1. job.elapsed \in Nat /\ job'.elapsed = job.elapsed
      BY <2>1, RequestedType, TtlAssumption DEF TypeOK, Job
    <3>2. CASE i = s
      BY <2>1, <2>4, <3>1, <3>2, RequestedType
    <3>3. CASE i # s
      <4>1. /\ i \in DOMAIN job.updates \ {s}
            /\ job'.updates[i] = job.updates[i] /\ job'.heard[i] = job.heard[i]
        BY <2>1, <2>4, <3>3, RequestedType
      <4> QED
        BY <2>4, <3>1, <4>1 DEF JobInv
    <3> QED
      BY <3>2, <3>3
  <2> QED
    BY <2>2, <2>3, <2>4 DEF JobInv
<1>5. CASE SaveCatalogRefresh
  BY <1>0, <1>5 DEF SaveCatalogRefresh
<1>6. CASE Die
  BY <1>0, <1>6 DEF Die
<1>7. CASE Tick
  <2>1. job \in Job
    BY DEF TypeOK
  <2>2. CASE job.at = "idle"
    BY <1>7, <2>2 DEF Tick, JobInv
  <2>3. CASE job.at # "idle"
    <3>1. job' = [job EXCEPT !.elapsed = job.elapsed + 1,
                             !.heard = [s \in Source |-> Older(job.heard[s])]]
      BY <1>7, <2>1, <2>3 DEF Tick, Job
    <3>2. /\ job'.at = job.at /\ job'.updates = job.updates /\ job'.cfg = job.cfg
          /\ job'.elapsed = job.elapsed + 1
          /\ \A s \in Source : job'.heard[s] = Older(job.heard[s])
      BY <2>1, <3>1 DEF Job
    <3>3. \A s \in Source : job.heard[s] <= job.elapsed => job'.heard[s] <= job'.elapsed
      BY <2>1, <3>2, Bounds DEF Older, Job, Age
    <3> QED
      BY <3>2, <3>3 DEF JobInv
  <2> QED
    BY <2>2, <2>3
<1>8. CASE job' = job
  BY <1>8 DEF JobInv
<1> QED
  BY <1>1, <1>2, <1>3, <1>4, <1>5, <1>6, <1>7, <1>8
  DEF Next, RefreshStep, BeginRefresh, ForceRefresh, Configure, Publish, Falter, Recover, vars

(***************************************************************************)
(* What the row is.                                                        *)
(***************************************************************************)
\* An entry that is ok holds what was served since the last attempt began.
OkIsCurrent ==
    \A i \in DOMAIN pool.sources :
        pool.sources[i].ok =>
            /\ pool.sources[i].fetched = pool.attempted
            /\ i \in Source => served[i] <= pool.attempted

PoolInv == WorldsDoNotMix /\ PoolAgeIsHonest /\ OkIsCurrent

LEMMA PoolInit == Init => PoolInv
BY NoSources DEF Init, PoolInv, WorldsDoNotMix, PoolAgeIsHonest, OkIsCurrent

LEMMA TickPool ==
    ASSUME TypeOK, PoolInv, Tick
    PROVE  PoolInv'
<1>1. WorldsDoNotMix'
  BY TickRow DEF PoolInv, WorldsDoNotMix
<1>2. ASSUME NEW s \in DOMAIN pool.sources \cap Source,
             pool'.sources[s].fetched # Never
      PROVE  pool'.sources[s].fetched >= served'[s]
  <2>1. /\ pool.sources[s].fetched \in Age \cup {Never} /\ served[s] \in Age
        /\ pool'.sources[s].fetched = Older(pool.sources[s].fetched)
        /\ served'[s] = Older(served[s])
    <3>1. pool.sources[s] \in Entry /\ pool'.sources[s] = [pool.sources[s] EXCEPT !.fetched = Older(@)]
      BY TickRow
    <3>2. pool.sources[s].fetched \in Age \cup {Never}
      BY <3>1 DEF Entry
    <3>3. pool'.sources[s].fetched = Older(pool.sources[s].fetched)
      BY <3>1 DEF Entry
    <3>4. served[s] \in Age /\ served'[s] = Older(served[s])
      BY DEF TypeOK, Tick
    <3> QED
      BY <3>2, <3>3, <3>4
  <2>2. pool.sources[s].fetched # Never /\ pool.sources[s].fetched \in Age
    BY <1>2, <2>1, OlderAge
  <2>3. pool.sources[s].fetched >= served[s]
    BY <2>2 DEF PoolInv, PoolAgeIsHonest
  <2> QED
    BY <2>1, <2>2, <2>3, OlderMonotone
<1>3. ASSUME NEW i \in DOMAIN pool.sources, pool'.sources[i].ok
      PROVE  /\ pool'.sources[i].fetched = pool'.attempted
             /\ i \in Source => served'[i] <= pool'.attempted
  <2>1. /\ pool'.sources[i].ok = pool.sources[i].ok
        /\ pool'.sources[i].fetched = Older(pool.sources[i].fetched)
        /\ pool'.attempted = Older(pool.attempted)
    BY TickRow DEF Entry
  <2>2. /\ pool.sources[i].fetched = pool.attempted
        /\ i \in Source => served[i] <= pool.attempted
    BY <1>3, <2>1 DEF PoolInv, OkIsCurrent
  <2>3. ASSUME i \in Source PROVE served'[i] <= pool'.attempted
    <3>1. served[i] \in Age /\ pool.attempted \in Age \cup {Never} /\ served'[i] = Older(served[i])
      BY <2>3 DEF TypeOK, Pool, Tick
    <3>2. Older(pool.attempted) >= Older(served[i])
      <4>1. pool.attempted >= served[i]
        BY <2>2, <2>3, <3>1, Bounds DEF Age
      <4> QED
        BY <3>1, <4>1, OlderMonotone
    <3> QED
      BY <2>1, <3>1, <3>2, OlderAge, Bounds DEF Age
  <2> QED
    BY <2>1, <2>2, <2>3
<1>4. DOMAIN pool'.sources = DOMAIN pool.sources
  BY TickRow
<1> QED
  BY <1>1, <1>2, <1>3, <1>4 DEF PoolInv, PoolAgeIsHonest, OkIsCurrent

LEMMA ModePool ==
    ASSUME TypeOK, PoolInv, SaveCatalogMode
    PROVE  PoolInv'
<1>1. /\ job.cfg \in Config /\ pool \in Pool /\ pool' = WithMode(pool, job.cfg)
      /\ served' = served
  BY DEF SaveCatalogMode, TypeOK, Job
<1>2. /\ pool'.attempted = pool.attempted
      /\ DOMAIN pool'.sources = DOMAIN pool.sources \cap job.cfg.sources
      /\ \A i \in DOMAIN pool'.sources : pool'.sources[i] = pool.sources[i]
  BY <1>1, ModeRow
<1>3. Demo \notin DOMAIN pool'.sources
  BY <1>1, <1>2, SourceAssumption DEF Config
<1> QED
  BY <1>1, <1>2, <1>3 DEF PoolInv, WorldsDoNotMix, PoolAgeIsHonest, OkIsCurrent

LEMMA RefreshPool ==
    ASSUME TypeOK, JobInv, PoolInv, SaveCatalogRefresh
    PROVE  PoolInv'
<1>1. job.elapsed \in Age /\ job.at = "pool"
  BY Bounds, TtlAssumption DEF SaveCatalogRefresh, TypeOK, Job, Age
<1>2. job.cfg.demo => pool'.mode = "off"
  BY SavedRow
<1>3. served' = [s \in Source |-> IF s \in DOMAIN job.updates /\ job.updates[s] # Failed
                                  THEN job.heard[s] ELSE served[s]]
  BY DEF SaveCatalogRefresh
<1>4. DOMAIN pool'.sources = DOMAIN job.updates /\ pool'.attempted = job.elapsed
  BY SavedRow
<1>5. WorldsDoNotMix'
  <2>1. DOMAIN job.updates = IF job.cfg.demo THEN {Demo} ELSE job.cfg.sources
    BY <1>1 DEF JobInv
  <2>2. Demo \notin job.cfg.sources
    BY SourceAssumption DEF TypeOK, Job, Config
  <2> QED
    BY <1>2, <1>4, <2>1, <2>2 DEF WorldsDoNotMix
<1>6. ASSUME NEW i \in DOMAIN job.updates, job.updates[i] = Failed
      PROVE  pool'.sources[i].ok = FALSE /\ pool'.sources[i].fetched = FetchedIn(pool, i)
  BY <1>6, SavedRow
<1>7. ASSUME NEW i \in DOMAIN job.updates, job.updates[i] # Failed
      PROVE  /\ pool'.sources[i].fetched = job.elapsed
             /\ i \in Source => served'[i] = job.heard[i] /\ served'[i] <= job.elapsed
  BY <1>3, <1>7, SavedRow DEF JobInv
<1>8. OkIsCurrent'
  BY <1>4, <1>6, <1>7 DEF OkIsCurrent
<1>9. ASSUME NEW s \in DOMAIN pool'.sources \cap Source, pool'.sources[s].fetched # Never
      PROVE  pool'.sources[s].fetched >= served'[s]
  <2>1. CASE job.updates[s] = Failed
    <3>1. served'[s] = served[s] /\ pool'.sources[s].fetched = FetchedIn(pool, s)
      BY <1>3, <1>4, <1>6, <1>9, <2>1
    <3> QED
      BY <1>9, <3>1 DEF FetchedIn, PoolInv, PoolAgeIsHonest
  <2>2. CASE job.updates[s] # Failed
    <3>1. pool'.sources[s].fetched = job.elapsed /\ served'[s] <= job.elapsed
      BY <1>4, <1>7, <1>9, <2>2
    <3>2. served'[s] \in Age
      <4>1. job.heard \in [Source -> Age] /\ served'[s] = job.heard[s]
        BY <1>4, <1>7, <1>9, <2>2 DEF TypeOK, Job
      <4> QED
        BY <1>9, <4>1
    <3> QED
      BY <1>1, <3>1, <3>2, Bounds DEF Age
  <2> QED
    BY <2>1, <2>2
<1> QED
  BY <1>5, <1>8, <1>9 DEF PoolInv, PoolAgeIsHonest

LEMMA PoolStep ==
    ASSUME TypeOK, JobInv, PoolInv, [Next]_vars
    PROVE  PoolInv'
<1>1. ASSUME pool' = pool, served' = served PROVE PoolInv'
  BY <1>1 DEF PoolInv, WorldsDoNotMix, PoolAgeIsHonest, OkIsCurrent
<1> QED
  BY <1>1, RowFrame, TickPool, ModePool, RefreshPool

LEMMA PoolHolds == Spec => [](TypeOK /\ JobInv /\ PoolInv)
<1>1. Init => TypeOK /\ JobInv /\ PoolInv
  BY TypeInit, JobInit, PoolInit
<1>2. TypeOK /\ JobInv /\ PoolInv /\ [Next]_vars => (TypeOK /\ JobInv /\ PoolInv)'
  BY TypeStep, JobStep, PoolStep
<1> QED
  BY <1>1, <1>2, PTL DEF Spec

\* fetched_at never claims younger books than the row holds (store.py:521).
THEOREM PoolAgeIsHonestHolds == Spec => []PoolAgeIsHonest
<1>1. PoolInv => PoolAgeIsHonest
  BY DEF PoolInv
<1> QED
  BY <1>1, PoolHolds, PTL

\* The demo's candidates and those of configured sources are never in one pool, and
\* the demo's are there only with egress off (refresh.py:570).
THEOREM WorldsDoNotMixHolds == Spec => []WorldsDoNotMix
<1>1. PoolInv => WorldsDoNotMix
  BY DEF PoolInv
<1> QED
  BY <1>1, PoolHolds, PTL

\* The dashboard calls a pool fresh only if its every source has answered since the
\* last attempt began, and is stamped with that attempt: what the row keeps of it,
\* books or none, is no older (store.py:457).
THEOREM FreshIsTrueHolds == Spec => []FreshIsTrue
<1>1. TypeOK /\ PoolInv => FreshIsTrue
  <2> SUFFICES ASSUME TypeOK, PoolInv, PoolState = "fresh"
               PROVE  \A i \in DOMAIN pool.sources :
                         /\ pool.sources[i].fetched = pool.attempted
                         /\ i \in Source => served[i] <= pool.attempted
    BY DEF FreshIsTrue
  <2>1. \A i \in DOMAIN pool.sources : pool.sources[i].ok
    BY DEF PoolState
  <2> QED
    BY <2>1 DEF PoolInv, OkIsCurrent
<1> QED
  BY <1>1, PoolHolds, PTL

(***************************************************************************)
(* What is ranked out of the pool (Picks).  Its rankings are instantiated  *)
(* here; they share nothing with the pool's refresh but the candidates.    *)
(***************************************************************************)
(***************************************************************************)
(* Sums over finite sets.  That a fold exists and does not depend on the   *)
(* order of its terms is shown by taking a smallest set for which it is    *)
(* not so.                                                                 *)
(***************************************************************************)
Pick(s) == CHOOSE x \in s : TRUE

\* F adds up what f gives for the members of each subset of S.
Adds(F, f, S) ==
    F = [s \in SUBSET S |-> IF s = {} THEN 0 ELSE f[Pick(s)] + F[s \ {Pick(s)}]]

SumOf(f, S) == (CHOOSE F : Adds(F, f, S))[S]

\* Two such functions agree wherever both are defined.
LEMMA AddsOnce ==
    ASSUME NEW f, NEW S, NEW T, NEW F, NEW G, Adds(F, f, S), Adds(G, f, T), 
           IsFiniteSet(S), NEW s, s \subseteq S, s \subseteq T
    PROVE  F[s] = G[s]
<1> DEFINE Bad == {t \in SUBSET (S \cap T) : F[t] # G[t]}
<1>1. ASSUME Bad # {} PROVE FALSE
  <2>1. \A t \in Bad : IsFiniteSet(t)
    BY FS_Subset
  <2>2. PICK t \in Bad : \A u \in Bad : ~(u \subseteq t /\ u # t)
    <3> HIDE DEF Bad
    <3> QED
      BY <1>1, <2>1, SmallestSet
  <2>3. t \in SUBSET S /\ t \in SUBSET T
    BY <2>2
  <2>4. t # {}
    BY <2>2, <2>3 DEF Adds
  <2>5. Pick(t) \in t
    BY <2>4 DEF Pick
  <2> DEFINE u == t \ {Pick(t)}
  <2>6. u \subseteq t /\ u # t /\ u \in SUBSET S /\ u \in SUBSET T
    BY <2>3, <2>5
  <2>7. F[u] = G[u]
    BY <2>2, <2>6
  <2>8. F[t] = f[Pick(t)] + F[u] /\ G[t] = f[Pick(t)] + G[u]
    BY <2>3, <2>4 DEF Adds
  <2> QED
    BY <2>2, <2>7, <2>8
<1> QED
  BY <1>1

\* There is such a function for every finite set.
LEMMA AddsSome ==
    ASSUME NEW f, NEW S, IsFiniteSet(S)
    PROVE  \E F : Adds(F, f, S)
<1> DEFINE Bad == {t \in SUBSET S : ~\E F : Adds(F, f, t)}
<1>1. ASSUME Bad # {} PROVE FALSE
  <2>1. \A t \in Bad : IsFiniteSet(t)
    BY FS_Subset
  <2>2. PICK t \in Bad : \A u \in Bad : ~(u \subseteq t /\ u # t)
    <3> HIDE DEF Bad
    <3> QED
      BY <1>1, <2>1, SmallestSet
  <2>3. \A u \in SUBSET t : u # t => \E F : Adds(F, f, u)
    BY <2>2
  <2> DEFINE G == [s \in SUBSET t |-> IF s = {} THEN 0
                     ELSE f[Pick(s)] + SumOf(f, s \ {Pick(s)})]
  <2>4. ASSUME NEW s \in SUBSET t, s # t
        PROVE  /\ Adds(CHOOSE F : Adds(F, f, s), f, s) /\ IsFiniteSet(s)
    BY <2>1, <2>2, <2>3, <2>4, FS_Subset
  <2>5. ASSUME NEW s \in SUBSET t, s # t PROVE G[s] = SumOf(f, s)
    <3> DEFINE H == CHOOSE F : Adds(F, f, s)
    <3>1. Adds(H, f, s) /\ IsFiniteSet(s) /\ SumOf(f, s) = H[s]
      BY <2>4, <2>5 DEF SumOf
    <3>2. CASE s = {}
      <4> HIDE DEF H
      <4> QED
        BY <3>1, <3>2 DEF Adds
    <3>3. CASE s # {}
      <4> DEFINE u == s \ {Pick(s)}
                 K == CHOOSE F : Adds(F, f, u)
      <4>1. Pick(s) \in s
        BY <3>3 DEF Pick
      <4>2. u \in SUBSET t /\ u # t /\ u \subseteq s
        BY <4>1
      <4>3. Adds(K, f, u) /\ IsFiniteSet(u) /\ SumOf(f, u) = K[u]
        BY <2>4, <4>2 DEF SumOf
      <4> HIDE DEF H, K
      <4>4. H[u] = K[u]
        BY <3>1, <4>2, <4>3, AddsOnce
      <4>5. H[s] = f[Pick(s)] + H[u]
        BY <3>1, <3>3 DEF Adds
      <4>6. G[s] = f[Pick(s)] + SumOf(f, u)
        BY <3>3
      <4> QED
        BY <3>1, <4>3, <4>4, <4>5, <4>6
    <3> QED
      BY <3>2, <3>3
  <2>6. \A s \in SUBSET t : s # {} => s \ {Pick(s)} \in SUBSET t /\ s \ {Pick(s)} # t
    BY DEF Pick
  <2>7. Adds(G, f, t)
    <3>1. \A s \in SUBSET t : s # {} => G[s \ {Pick(s)}] = SumOf(f, s \ {Pick(s)})
      BY <2>5, <2>6
    <3>2. G = [s \in SUBSET t |-> IF s = {} THEN 0 ELSE f[Pick(s)] + G[s \ {Pick(s)}]]
      BY <3>1
    <3> QED
      BY <3>2 DEF Adds
  <2> QED
    BY <2>2, <2>7
<1> QED
  BY <1>1

\* Functions that agree on a set have the same sum over it.
LEMMA SumsAgree ==
    ASSUME NEW f, NEW g, NEW S, \A x \in S : f[x] = g[x]
    PROVE  SumOf(f, S) = SumOf(g, S)
<1> DEFINE sf(F) == [r \in SUBSET S |-> IF r = {} THEN 0 ELSE f[Pick(r)] + F[r \ {Pick(r)}]]
           sg(F) == [r \in SUBSET S |-> IF r = {} THEN 0 ELSE g[Pick(r)] + F[r \ {Pick(r)}]]
<1>1. SumOf(f, S) = (CHOOSE F : F = sf(F))[S] /\ SumOf(g, S) = (CHOOSE F : F = sg(F))[S]
  BY DEF SumOf, Adds
<1>2. \A r \in SUBSET S : r # {} => f[Pick(r)] = g[Pick(r)]
  BY DEF Pick
<1>3. \A F : sf(F) = sg(F)
  BY <1>2
<1> HIDE DEF sf, sg
<1>4. (CHOOSE F : F = sf(F)) = (CHOOSE F : F = sg(F))
  BY <1>3
<1> QED
  BY <1>1, <1>4

\* A sum is its first term and the sum of the others.
LEMMA SumStep ==
    ASSUME NEW f, NEW S, IsFiniteSet(S)
    PROVE  SumOf(f, S) = IF S = {} THEN 0 ELSE f[Pick(S)] + SumOf(f, S \ {Pick(S)})
<1> DEFINE F == CHOOSE F : Adds(F, f, S)
           T == S \ {Pick(S)}
           G == CHOOSE G : Adds(G, f, T)
<1>1. IsFiniteSet(T) /\ T \subseteq S
  BY FS_Subset
<1>2. Adds(F, f, S) /\ Adds(G, f, T) /\ SumOf(f, S) = F[S] /\ SumOf(f, T) = G[T]
  BY <1>1, AddsSome DEF SumOf
<1> HIDE DEF F, G
<1>3. F[T] = G[T]
  BY <1>1, <1>2, AddsOnce
<1>4. F[S] = IF S = {} THEN 0 ELSE f[Pick(S)] + F[T]
  BY <1>2 DEF Adds
<1> QED
  BY <1>2, <1>3, <1>4

\* The terms may be added in any order.
LEMMA SumTypeAndOrder ==
    ASSUME NEW f, NEW S, IsFiniteSet(S), \A x \in S : f[x] \in Int
    PROVE  /\ SumOf(f, S) \in Int
           /\ \A y \in S : SumOf(f, S) = f[y] + SumOf(f, S \ {y})
<1> DEFINE Fine(t) == /\ SumOf(f, t) \in Int
                      /\ \A y \in t : SumOf(f, t) = f[y] + SumOf(f, t \ {y})
           Bad == {t \in SUBSET S : ~Fine(t)}
<1>1. ASSUME Bad # {} PROVE FALSE
  <2>1. \A t \in Bad : IsFiniteSet(t)
    BY FS_Subset
  <2>2. PICK t \in Bad : \A u \in Bad : ~(u \subseteq t /\ u # t)
    <3> HIDE DEF Bad
    <3> QED
      BY <1>1, <2>1, SmallestSet
  <2>3. t \subseteq S /\ ~Fine(t) /\ IsFiniteSet(t)
    BY <2>1, <2>2
  <2>4. ASSUME NEW u, u \subseteq t, u # t PROVE Fine(u)
    BY <2>2, <2>3, <2>4
  <2> HIDE DEF Fine
  <2>5. CASE t = {}
    <3>1. SumOf(f, t) = 0
      BY <2>3, <2>5, SumStep
    <3> QED
      BY <2>3, <2>5, <3>1 DEF Fine
  <2>6. CASE t # {}
    <3> DEFINE x == Pick(t)
    <3>1. x \in t /\ f[x] \in Int
      BY <2>3, <2>6 DEF Pick
    <3> HIDE DEF x
    <3>2. SumOf(f, t) = f[x] + SumOf(f, t \ {x})
      <4>1. SumOf(f, t) = f[Pick(t)] + SumOf(f, t \ {Pick(t)})
        BY <2>3, <2>6, SumStep
      <4> QED
        BY <4>1 DEF x
    <3>3. SumOf(f, t \ {x}) \in Int
      BY <2>4, <3>1 DEF Fine
    <3>4. ASSUME NEW y \in t PROVE SumOf(f, t) = f[y] + SumOf(f, t \ {y})
      <4>1. CASE y = x
        BY <3>2, <4>1
      <4>2. CASE y # x
        <5> DEFINE u == t \ {x}
                   v == t \ {y}
                   w == t \ {x, y}
        <5>1. /\ u \subseteq t /\ u # t /\ y \in u /\ u \ {y} = w
              /\ v \subseteq t /\ v # t /\ x \in v /\ v \ {x} = w
              /\ w \subseteq t /\ w # t
          BY <3>1, <4>2
        <5>2. Fine(u) /\ Fine(v) /\ Fine(w)
          BY <2>4, <5>1
        <5> HIDE DEF u, v, w
        <5>3. SumOf(f, u) = f[y] + SumOf(f, w) /\ SumOf(f, v) = f[x] + SumOf(f, w)
          BY <5>1, <5>2 DEF Fine
        <5>4. SumOf(f, w) \in Int /\ f[y] \in Int /\ f[x] \in Int
          BY <2>3, <3>1, <5>2 DEF Fine
        <5> QED
          BY <3>2, <5>3, <5>4 DEF u, v
      <4> QED
        BY <4>1, <4>2
    <3>5. SumOf(f, t) \in Int
      BY <3>1, <3>2, <3>3
    <3> QED
      BY <2>3, <3>4, <3>5 DEF Fine
  <2> QED
    BY <2>5, <2>6
<1> QED
  BY <1>1

\* More terms that are not negative add up to no less.
LEMMA SumGrows ==
    ASSUME NEW f, NEW S, NEW T, IsFiniteSet(T), S \subseteq T,
           \A x \in T : f[x] \in Int, \A x \in T \ S : f[x] >= 0
    PROVE  SumOf(f, S) <= SumOf(f, T)
<1> DEFINE Bad == {t \in SUBSET T : S \subseteq t /\ ~(SumOf(f, S) <= SumOf(f, t))}
<1>0. \A t \in SUBSET T : IsFiniteSet(t) /\ SumOf(f, t) \in Int
  BY FS_Subset, SumTypeAndOrder
<1>1. ASSUME Bad # {} PROVE FALSE
  <2>1. PICK t \in Bad : \A u \in Bad : ~(u \subseteq t /\ u # t)
    <3>1. \A t \in Bad : IsFiniteSet(t)
      BY <1>0
    <3> HIDE DEF Bad
    <3> QED
      BY <1>1, <3>1, SmallestSet
  <2>2. t # S
    BY <1>0, <2>1
  <2>3. PICK x \in t : x \notin S
    BY <2>1, <2>2
  <2> DEFINE u == t \ {x}
  <2>4. u \subseteq t /\ u # t /\ u \in SUBSET T /\ S \subseteq u
    BY <2>1, <2>3
  <2>5. SumOf(f, S) <= SumOf(f, u)
    BY <2>1, <2>4
  <2>6. SumOf(f, t) = f[x] + SumOf(f, u)
    <3>1. IsFiniteSet(t) /\ \A y \in t : f[y] \in Int
      BY <1>0, <2>1
    <3> QED
      BY <2>3, <3>1, SumTypeAndOrder
  <2>7. f[x] \in Int /\ f[x] >= 0 /\ SumOf(f, u) \in Int /\ SumOf(f, S) \in Int
    BY <1>0, <2>1, <2>3, <2>4
  <2> HIDE DEF u
  <2>8. SumOf(f, S) <= SumOf(f, t)
    BY <2>5, <2>6, <2>7
  <2> QED
    BY <2>1, <2>8
<1> QED
  BY <1>1

(***************************************************************************)
(* The sums of Picks.                                                      *)
(***************************************************************************)
\* The weights of adjustments add up like those of a function.
LEMMA WeightsAdd ==
    ASSUME NEW S
    PROVE  MapThenSumSet(SignedWeight, S)
             = SumOf([a \in S |-> SignedWeight(a)], S)
<1> DEFINE f == [a \in S |-> SignedWeight(a)]
           next(F) == [s \in SUBSET S |-> IF s = {} THEN 0
                         ELSE SignedWeight(CHOOSE x \in s : TRUE)
                                + F[s \ {CHOOSE x \in s : TRUE}]]
           sums(F) == [s \in SUBSET S |-> IF s = {} THEN 0
                         ELSE f[Pick(s)] + F[s \ {Pick(s)}]]
<1>1. MapThenSumSet(SignedWeight, S) = (CHOOSE F : F = next(F))[S]
  BY DEF MapThenSumSet, MapThenFoldSet
<1>2. SumOf(f, S) = (CHOOSE F : F = sums(F))[S]
  BY DEF SumOf, Adds
<1>3. \A s \in SUBSET S : s # {} => f[Pick(s)] = SignedWeight(Pick(s))
  BY DEF Pick
<1>4. \A F : next(F) = sums(F)
  BY <1>3 DEF Pick
<1> HIDE DEF next, sums, f
<1>5. (CHOOSE F : F = next(F)) = (CHOOSE F : F = sums(F))
  BY <1>4
<1> QED
  BY <1>1, <1>2, <1>5 DEF f

\* So do the weights of books.
LEMMA BooksAdd ==
    ASSUME NEW dnf, NEW S
    PROVE  MapThenSumSet(LAMBDA b : Weight(b, dnf), S)
             = SumOf([b \in S |-> Weight(b, dnf)], S)
<1> DEFINE f == [a \in S |-> Weight(a, dnf)]
           next(F) == [s \in SUBSET S |-> IF s = {} THEN 0
                         ELSE Weight(CHOOSE x \in s : TRUE, dnf)
                                + F[s \ {CHOOSE x \in s : TRUE}]]
           sums(F) == [s \in SUBSET S |-> IF s = {} THEN 0
                         ELSE f[Pick(s)] + F[s \ {Pick(s)}]]
<1>1. MapThenSumSet(LAMBDA b : Weight(b, dnf), S) = (CHOOSE F : F = next(F))[S]
  BY DEF MapThenSumSet, MapThenFoldSet
<1>2. SumOf(f, S) = (CHOOSE F : F = sums(F))[S]
  BY DEF SumOf, Adds
<1>3. \A s \in SUBSET S : s # {} => f[Pick(s)] = Weight(Pick(s), dnf)
  BY DEF Pick
<1>4. \A F : next(F) = sums(F)
  BY <1>3 DEF Pick
<1> HIDE DEF next, sums, f
<1>5. (CHOOSE F : F = next(F)) = (CHOOSE F : F = sums(F))
  BY <1>4
<1> QED
  BY <1>1, <1>2, <1>5 DEF f

\* And those of themes.
LEMMA ThemesAdd ==
    ASSUME NEW dnf, NEW S
    PROVE  MapThenSumSet(LAMBDA l : ThemeWeight(l, dnf), S)
             = SumOf([l \in S |-> ThemeWeight(l, dnf)], S)
<1> DEFINE f == [l \in S |-> ThemeWeight(l, dnf)]
           next(F) == [s \in SUBSET S |-> IF s = {} THEN 0
                         ELSE ThemeWeight(CHOOSE x \in s : TRUE, dnf)
                                + F[s \ {CHOOSE x \in s : TRUE}]]
           sums(F) == [s \in SUBSET S |-> IF s = {} THEN 0
                         ELSE f[Pick(s)] + F[s \ {Pick(s)}]]
<1>1. MapThenSumSet(LAMBDA l : ThemeWeight(l, dnf), S) = (CHOOSE F : F = next(F))[S]
  BY DEF MapThenSumSet, MapThenFoldSet
<1>2. SumOf(f, S) = (CHOOSE F : F = sums(F))[S]
  BY DEF SumOf, Adds
<1>3. \A s \in SUBSET S : s # {} => f[Pick(s)] = ThemeWeight(Pick(s), dnf)
  BY DEF Pick
<1>4. \A F : next(F) = sums(F)
  BY <1>3 DEF Pick
<1> HIDE DEF next, sums, f
<1>5. (CHOOSE F : F = next(F)) = (CHOOSE F : F = sums(F))
  BY <1>4
<1> QED
  BY <1>1, <1>2, <1>5 DEF f

(***************************************************************************)
(* Types, and what is behind the scores.                                   *)
(***************************************************************************)
\* Sets a reader can store: finitely many answers, each of them valid.
Answers == {set \in SUBSET Adjustment : IsFiniteSet(set) /\ \A a \in set : Valid(a)}

\* The types of Picks, and that whatever is stored or in a form is such a set.
TasteInv ==
    /\ status \in [Owned -> Status]
    /\ lenses \in Vocabulary
    /\ lists \in [Name -> SUBSET Candidate]
    /\ taste \in Answers
    /\ form \in [Writer -> SUBSET Answers]

\* A subset of stored answers is one, and so are they with a valid one more.
LEMMA AnswersChange ==
    ASSUME NEW set \in Answers
    PROVE  /\ \A some \in SUBSET set : some \in Answers
           /\ \A a \in Adjustment : Valid(a) => WithAdded(set, a) \in Answers
<1>1. ASSUME NEW some \in SUBSET set PROVE some \in Answers
  BY FS_Subset DEF Answers
<1>2. ASSUME NEW a \in Adjustment, Valid(a) PROVE WithAdded(set, a) \in Answers
  <2> DEFINE rest == {b \in set : ~SameTarget(a, b)}
  <2>1. rest \in Answers /\ rest \subseteq set
    BY <1>1
  <2> HIDE DEF rest
  <2>2. IsFiniteSet(rest \cup {a})
    BY <2>1, FS_AddElement DEF Answers
  <2>3. WithAdded(set, a) = rest \cup {a}
    BY DEF WithAdded, rest
  <2> QED
    BY <1>2, <2>1, <2>2, <2>3 DEF Answers
<1> QED
  BY <1>1, <1>2

\* What is stored is what a form may hold, whatever two writers do to each other.
THEOREM TasteCorrect == PicksSpec => []TasteInv
<1>1. PicksInit => TasteInv
  <2> SUFFICES ASSUME PicksInit PROVE TasteInv
    OBVIOUS
  <2>1. {} \in Answers
    BY FS_EmptySet DEF Answers
  <2>2. status \in [Owned -> Status] /\ lists \in [Name -> SUBSET Candidate]
    BY DEF PicksInit, Status
  <2> QED
    BY <2>1, <2>2 DEF PicksInit, TasteInv
<1>2. TasteInv /\ [PicksNext]_picksVars => TasteInv'
  <2> SUFFICES ASSUME TasteInv, [PicksNext]_picksVars PROVE TasteInv'
    OBVIOUS
  <2> USE DEF TasteInv
  <2>1. ASSUME NEW b \in Owned, NEW s \in Status, StatusChanges(b, s)
        PROVE  TasteInv'
    BY <2>1 DEF StatusChanges
  <2>2. ASSUME NEW v \in Vocabulary, EditLenses(v) PROVE TasteInv'
    BY <2>2 DEF EditLenses
  <2>3. ASSUME NEW n \in Name, NEW c \in Candidate, AddToList(n, c) PROVE TasteInv'
    BY <2>3 DEF AddToList
  <2>4. ASSUME NEW w \in Writer, ReadTaste(w) PROVE TasteInv'
    BY <2>4 DEF ReadTaste
  <2>5. ASSUME NEW w \in Writer, NEW set \in Answers, Submit(w, set) PROVE TasteInv'
    BY <2>5 DEF Submit
  <2>6. ASSUME NEW w \in Writer, NEW a \in Adjustment, Add(w, a)
        PROVE  TasteInv'
    <3>1. PICK set \in form[w] : Submit(w, WithAdded(set, a)) /\ Valid(a)
      BY <2>6 DEF Add
    <3>2. set \in Answers
      OBVIOUS
    <3> QED
      BY <2>5, <3>1, <3>2, AnswersChange
  <2>7. ASSUME NEW w \in Writer, NEW a \in Adjustment, Undo(w, a)
        PROVE  TasteInv'
    <3>1. PICK set \in form[w] : Submit(w, {b \in set : ~SameTarget(a, b)})
      BY <2>7 DEF Undo
    <3>2. set \in Answers /\ {b \in set : ~SameTarget(a, b)} \in SUBSET set
      OBVIOUS
    <3> QED
      BY <2>5, <3>1, <3>2, AnswersChange
  <2>8. ASSUME NEW w \in Writer, Clear(w) PROVE TasteInv'
    <3>1. Submit(w, {})
      BY <2>8 DEF Clear
    <3>2. {} \in Answers
      BY FS_EmptySet DEF Answers
    <3> QED
      BY <2>5, <3>1, <3>2
  <2>9. ASSUME NEW w \in Writer, Refuse(w) PROVE TasteInv'
    BY <2>9 DEF Refuse
  <2>10. CASE UNCHANGED picksVars
    BY <2>10 DEF picksVars
  <2> QED
    BY <2>1, <2>2, <2>3, <2>4, <2>6, <2>7, <2>8, <2>9, <2>10 DEF PicksNext
<1> QED
  BY <1>1, <1>2, PTL DEF PicksSpec

\* A score is a number.
LEMMA ScoreType ==
    ASSUME TasteInv,
           NEW s \in Surface, NEW c \in Candidate, NEW dnf \in BOOLEAN
    PROVE  ScoreCandidate(s, c, dnf) \in Int
<1>1. ASSUME NEW l PROVE ThemeWeight(l, dnf) \in Int
  <2> DEFINE S == {b \in Begun : l \in LabelsOf[b]}
             f == [b \in S |-> Weight(b, dnf)]
  <2>1. IsFiniteSet(S)
    BY PicksAssumption, FS_Subset DEF Begun, InStore
  <2>2. \A b \in S : f[b] \in Int
    BY DEF Weight
  <2>3. ThemeWeight(l, dnf) = SumOf(f, S)
    BY BooksAdd DEF ThemeWeight
  <2> HIDE DEF f, S
  <2> QED
    BY <2>1, <2>2, <2>3, SumTypeAndOrder
<1>2. Similarity(c, dnf) \in Int
  <2> DEFINE S == Overlap(c)
             f == [l \in S |-> ThemeWeight(l, dnf)]
  <2>1. IsFiniteSet(S)
    BY PicksAssumption, FS_Subset DEF Overlap
  <2>2. \A l \in S : f[l] \in Int
    BY <1>1
  <2>3. Similarity(c, dnf) = SumOf(f, S)
    BY ThemesAdd DEF Similarity
  <2> HIDE DEF f, S
  <2> QED
    BY <2>1, <2>2, <2>3, SumTypeAndOrder
<1>3. Cardinality(ListsFor(s, c)) \in Int
  <2>1. IsFiniteSet(DOMAIN ListsOf(s))
    <3>1. CASE s = "dashboard"
      <4>1. DOMAIN ListsOf(s) = {}
        BY <3>1 DEF ListsOf
      <4> QED
        BY <4>1, FS_EmptySet
    <3>2. CASE s = "demo"
      BY <3>2, PicksAssumption DEF ListsOf
    <3>3. CASE s = "command"
      <4>1. DOMAIN ListsOf(s) = Name
        BY <3>3 DEF ListsOf, TasteInv
      <4> QED
        BY <4>1, PicksAssumption
    <3> QED
      BY <3>1, <3>2, <3>3 DEF Surface
  <2>2. ListsFor(s, c) \in SUBSET DOMAIN ListsOf(s)
    BY DEF ListsFor
  <2> QED
    BY <2>1, <2>2, FS_Subset, FS_CardinalityType, PicksAssumption
<1> QED
  BY <1>2, <1>3 DEF ScoreCandidate

\* Answers move a total by their delta alone.
LEMMA TotalSplits ==
    ASSUME TasteInv, NEW s \in Surface, NEW c \in Candidate
    PROVE  \E base \in Int : \A set : Total(s, c, set) = base + Delta(s, set, c)
<1>1. CASE s = "command"
  <2>1. ScoreCandidate(s, c, FALSE) \in Int
    BY ScoreType
  <2>2. \A set : Total(s, c, set) = ScoreCandidate(s, c, FALSE) + Delta(s, set, c)
    BY <1>1 DEF Total
  <2> QED
    BY <2>1, <2>2
<1>2. CASE s # "command"
  <2> DEFINE score == ScoreCandidate(s, c, DnfSignals)
             anchors == IF Anchors(s, c) # {} THEN 4 ELSE 0
             boost == ApertureBoost(c)
  <2>1. score \in Int
    BY ScoreType, PicksAssumption
  <2>2. boost \in Int
    <3> DEFINE n == Cardinality(LabelsOf[c] \ Themes)
    <3>1. IsFiniteSet(LabelsOf[c])
      BY PicksAssumption
    <3>2. n \in Nat
      BY <3>1, FS_Difference, FS_CardinalityType, PicksAssumption
    <3> HIDE DEF n
    <3>3. Min({3, n}) \in {3, n}
      <4>1. \E x \in {3, n} : \A y \in {3, n} : x <= y
        BY <3>2
      <4> QED
        BY <4>1 DEF Min
    <3>4. Min({3, n}) \in Int /\ Aperture \in Int
      BY <3>2, <3>3, PicksAssumption
    <3>5. boost = Aperture * Min({3, n})
      BY DEF ApertureBoost, n
    <3> QED
      BY <3>4, <3>5
  <2>3. \A set : Total(s, c, set) = score + anchors + boost + Delta(s, set, c)
    BY <1>2 DEF Total
  <2> HIDE DEF score, boost
  <2>4. score + anchors + boost \in Int
    BY <2>1, <2>2
  <2> QED
    BY <2>3, <2>4
<1> QED
  BY <1>1, <1>2

\* The reader's answers about lenses add to a delta, or leave it.
LEMMA LensesRaiseDelta ==
    ASSUME TasteInv, NEW s \in Surface, NEW c
    PROVE  LET without == {a \in taste : a.kind # "lens"}
           IN  /\ Delta(s, without, c) \in Int /\ Delta(s, taste, c) \in Int
               /\ Delta(s, without, c) <= Delta(s, taste, c)
<1> DEFINE without == {a \in taste : a.kind # "lens"}
           S == Touching(s, without, c)
           T == Touching(s, taste, c)
           f == [a \in T |-> SignedWeight(a)]
           g == [a \in S |-> SignedWeight(a)]
<1>1. S \subseteq T /\ T \subseteq taste /\ \A a \in T \ S : a.kind = "lens"
  BY DEF Touching
<1>2. IsFiniteSet(T) /\ IsFiniteSet(S)
  BY <1>1, FS_Subset DEF TasteInv, Answers
<1>3. ASSUME NEW a \in T
      PROVE  f[a] \in Int /\ (a \notin S => f[a] >= 0)
  <2>1. a \in Adjustment /\ Valid(a)
    BY <1>1 DEF TasteInv, Answers
  <2>2. a.magnitude \in {"slight", "moderate", "strong"} /\ a.direction \in {"more", "less"}
    BY <2>1, PicksAssumption DEF Adjustment
  <2>3. Units[a.magnitude] \in {1, 2, 4}
    BY <2>2 DEF Units
  <2>4. f[a] = IF a.direction = "more" THEN Units[a.magnitude] ELSE -Units[a.magnitude]
    BY DEF SignedWeight
  <2>5. a \notin S => a.direction = "more"
    BY <1>1, <2>1, <2>2 DEF Valid
  <2> QED
    BY <2>3, <2>4, <2>5
<1>4. SumOf(g, S) = SumOf(f, S)
  <2>1. \A a \in S : g[a] = f[a]
    BY <1>1
  <2> HIDE DEF S, f, g
  <2> QED
    BY <2>1, SumsAgree
<1>5. /\ Delta(s, without, c) = Clamped(SumOf(g, S))
      /\ Delta(s, taste, c) = Clamped(SumOf(f, T))
  BY WeightsAdd DEF Delta
<1> HIDE DEF S, T, f, g, without
<1>6. SumOf(f, S) \in Int /\ SumOf(f, T) \in Int /\ SumOf(f, S) <= SumOf(f, T)
  <2>1. \A a \in S : f[a] \in Int
    BY <1>1, <1>3
  <2>2. \A a \in T : f[a] \in Int
    BY <1>3
  <2>3. \A a \in T \ S : f[a] >= 0
    BY <1>3
  <2> QED
    BY <1>1, <1>2, <2>1, <2>2, <2>3, SumTypeAndOrder, SumGrows
<1> QED
  BY <1>4, <1>5, <1>6 DEF Clamped, MaxTotalDelta, without

\* Lenses are boost-only, for any vocabulary and any answers beside them: taking the
\* answers about lenses away raises no total and lets no book in.
THEOREM LensesOnlyRaiseHolds ==
    PicksSpec => []LensesOnlyRaise
<1>1. TasteInv => LensesOnlyRaise
  <2> DEFINE without == {a \in taste : a.kind # "lens"}
  <2> SUFFICES ASSUME TasteInv, NEW s \in Surface
               PROVE  /\ \A c \in Unowned :
                           Total(s, c, without) <= Total(s, c, taste)
                      /\ Eligible(s, without) \subseteq Eligible(s, taste)
    BY DEF LensesOnlyRaise
  <2>1. ASSUME NEW c \in Unowned
        PROVE  /\ Total(s, c, without) \in Int /\ Total(s, c, taste) \in Int
               /\ Total(s, c, without) <= Total(s, c, taste)
    <3>1. c \in Candidate
      BY DEF Unowned
    <3>2. PICK base \in Int : \A set : Total(s, c, set) = base + Delta(s, set, c)
      BY <3>1, TotalSplits
    <3>3. /\ Delta(s, without, c) \in Int /\ Delta(s, taste, c) \in Int
          /\ Delta(s, without, c) <= Delta(s, taste, c)
      BY LensesRaiseDelta
    <3> HIDE DEF without
    <3> QED
      BY <3>2, <3>3
  <2> HIDE DEF without
  <2>2. Eligible(s, without) \subseteq Eligible(s, taste)
    BY <2>1 DEF Eligible
  <2> QED
    BY <2>1, <2>2
<1> QED
  BY <1>1, TasteCorrect, PTL

\* Whatever is picked or nearly missed has a source to cite, on every surface.
THEOREM EveryPickIsCitedHolds == PicksSpec => []EveryPickIsCited
<1>1. EveryPickIsCited
  <2> SUFFICES ASSUME NEW s \in Surface
               PROVE  /\ \A c \in Picks(s) : PickSources(s, c) # {}
                      /\ \A c \in NearMisses(s) : MissSources(s, c) # {}
    BY DEF EveryPickIsCited
  <2>1. ASSUME NEW c, Citable(s, c)
        PROVE  PickSources(s, c) # {} /\ MissSources(s, c) # {}
    BY <2>1 DEF Citable, PickSources, MissSources, OrItsTags
  <2>2. \A c \in Picks(s) : Citable(s, c)
    BY DEF Picks, Top, Eligible
  <2>3. \A c \in NearMisses(s) : Citable(s, c)
    BY DEF NearMisses, Top
  <2> QED
    BY <2>1, <2>2, <2>3
<1> QED
  BY <1>1, PTL

(***************************************************************************)
(* What a page says of the reading record (Activity).                      *)
(***************************************************************************)
\* The days of a log are days, each with its pages.
LEMMA LogElim ==
    ASSUME NEW pages \in Log
    PROVE  /\ pages = [d \in DOMAIN pages |-> pages[d]]
           /\ DOMAIN pages \in SUBSET Day
           /\ \A d \in DOMAIN pages : pages[d] \in 1..MaxPages
<1>1. PICK D \in SUBSET Day : pages \in [D -> 1..MaxPages]
  BY DEF Log
<1> QED
  BY <1>1

\* And a function of days to pages is a log.
LEMMA LogIntro ==
    ASSUME NEW pages, pages = [d \in DOMAIN pages |-> pages[d]],
           DOMAIN pages \in SUBSET Day, \A d \in DOMAIN pages : pages[d] \in 1..MaxPages
    PROVE  pages \in Log
<1>1. pages \in [DOMAIN pages -> 1..MaxPages]
  OBVIOUS
<1> QED
  BY <1>1 DEF Log

\* The earliest retained day is a day or none, and it is the line that decides.
LEMMA OneEarliest ==
    ASSUME NEW p \in Policy, NEW now \in Day
    PROVE  /\ EarliestRetained(p, now) \in Optional(Int)
           /\ \A d \in Int : Retained(d, Cutoffs(p, now))
                <=> \A c \in EarliestRetained(p, now) : d >= c
<1>1. p.horizon \in Nat /\ p.before \subseteq Int /\ \A x, y \in p.before : x = y
  BY DEF Policy, Optional, Day
<1>2. now \in Int
  BY DEF Day
<1>3. \A c \in Cutoffs(p, now) : c \in Int
  BY <1>1, <1>2 DEF Cutoffs
<1>4. EarliestRetained(p, now) \in Optional(Int)
  BY <1>3 DEF EarliestRetained, Retained, Optional
<1>5. ASSUME NEW d \in Int, \A c \in EarliestRetained(p, now) : d >= c,
             NEW c \in Cutoffs(p, now)
      PROVE  d >= c
  <2>1. CASE \A e \in Cutoffs(p, now) : c >= e
    BY <1>5, <2>1 DEF EarliestRetained, Retained
  <2>2. ASSUME NEW e \in Cutoffs(p, now), ~(c >= e) PROVE d >= c
    <3>1. \A f \in Cutoffs(p, now) : f = c \/ f = e
      BY <1>1, <1>2, <2>2 DEF Cutoffs
    <3>2. e \in EarliestRetained(p, now)
      BY <1>3, <2>2, <3>1 DEF EarliestRetained, Retained
    <3> QED
      BY <1>3, <1>5, <2>2, <3>2
  <2> QED
    BY <2>1, <2>2
<1>6. ASSUME NEW d \in Int, Retained(d, Cutoffs(p, now)) 
      PROVE  \A c \in EarliestRetained(p, now) : d >= c
  BY <1>6 DEF EarliestRetained, Retained
<1> QED
  BY <1>4, <1>5, <1>6 DEF Retained

\* The devices hold only books the reader owns.
OwnedShelf(shelf) == shelf \in Shelf /\ \A b \in DOMAIN shelf : shelf[b].owned

\* The types of what the devices hold.
Devices ==
    /\ today \in Day
    /\ log \in Log
    /\ OwnedShelf(library) /\ DOMAIN library = Book
    /\ done \in SUBSET Book

\* Books that no configured device tells of read as unopened: that is a shelf too.
LEMMA UnopenedShelf ==
    ASSUME NEW B, NEW lib, OwnedShelf(lib), DOMAIN lib = Book
    PROVE  OwnedShelf([b \in Book |-> IF b \in B THEN Unopened ELSE lib[b]])
<1> DEFINE shelf == [b \in Book |-> IF b \in B THEN Unopened ELSE lib[b]]
<1>1. Unopened \in Row /\ Unopened.owned
  BY DEF Unopened, Row, Optional
<1>2. \A b \in Book : lib[b] \in Row /\ lib[b].owned
  BY ShelfElim DEF OwnedShelf
<1>3. \A b \in Book : shelf[b] \in Row /\ shelf[b].owned
  BY <1>1, <1>2
<1>4. DOMAIN shelf = Book /\ shelf = [b \in DOMAIN shelf |-> shelf[b]]
  OBVIOUS
<1> HIDE DEF shelf
<1>5. OwnedShelf(shelf)
  BY <1>3, <1>4, ShelfIntro DEF OwnedShelf
<1> QED
  BY <1>5 DEF shelf

\* The devices keep their types.
LEMMA DevicesType ==
    ActivitySpec => []Devices
<1>1. ActivityInit => Devices
  <2> SUFFICES ASSUME ActivityInit PROVE Devices
    OBVIOUS
  <2>1. log \in Log
    <3>1. log = <<>> /\ DOMAIN log = {} /\ log = [d \in DOMAIN log |-> log[d]]
      BY DEF ActivityInit
    <3> QED
      BY <3>1, LogIntro
  <2>2. library = [b \in Book |-> Unopened]
    BY DEF ActivityInit
  <2>3. Unopened \in Row /\ Unopened.owned
    BY DEF Unopened, Row, Optional
  <2>4. library \in Shelf
    BY <2>2, <2>3, ShelfIntro
  <2> QED
    BY <2>1, <2>2, <2>3, <2>4, MaxDayAssumption DEF ActivityInit, Devices, Day, OwnedShelf
<1>2. Devices /\ [ActivityNext]_activityVars => Devices'
  <2> SUFFICES ASSUME Devices, [ActivityNext]_activityVars PROVE Devices'
    OBVIOUS
  <2>1. CASE Midnight
    BY <2>1, MaxDayAssumption DEF Midnight, Devices, Day, devices, OwnedShelf
  <2>2. ASSUME NEW b \in Book, Read(b) PROVE Devices'
    <3> DEFINE row == [library[b] EXCEPT !.stat = {[day |-> today, log |-> 1]}]
    <3>1. today' = today /\ done' \in SUBSET Book
      BY <2>2 DEF Read, Devices
    <3>2. /\ DOMAIN library = Book /\ library \in Shelf
          /\ \A c \in Book : library[c] \in Row /\ library[c].owned
      BY ShelfElim DEF Devices, OwnedShelf
    <3>3. row \in Row /\ row.owned
      <4>1. [day |-> today, log |-> 1] \in Stat
        BY MaxLogAssumption, ActivityAssumption DEF Devices, Stat, Stamp, Day
      <4> QED
        BY <3>2, <4>1 DEF Row, Optional
    <3>4. library' = [library EXCEPT ![b] = row]
      BY <2>2 DEF Read
    <3>5. OwnedShelf(library') /\ DOMAIN library' = Book
      <4> HIDE DEF row
      <4>1. DOMAIN library' = Book /\ library' = [c \in DOMAIN library' |-> library'[c]]
        BY <3>2, <3>4
      <4>2. \A c \in Book : library'[c] \in Row /\ library'[c].owned
        BY <3>2, <3>3, <3>4
      <4> QED
        BY <4>1, <4>2, ShelfIntro DEF OwnedShelf
    <3>6. log' \in Log
      <4>1. CASE b \notin OnKOReader
        BY <2>2, <4>1 DEF Read, Devices
      <4>2. CASE b \in OnKOReader
        <5>1. /\ PagesOn(log, today) < MaxPages
              /\ log' = [d \in DOMAIN log \cup {today} |->
                           PagesOn(log, d) + (IF d = today THEN 1 ELSE 0)]
          BY <2>2, <4>2 DEF Read
        <5>2. DOMAIN log \in SUBSET Day /\ \A d \in DOMAIN log : log[d] \in 1..MaxPages
          BY LogElim DEF Devices
        <5>3. \A d \in DOMAIN log \cup {today} : log'[d] \in 1..MaxPages
          BY <5>1, <5>2, ActivityAssumption DEF PagesOn
        <5>4. DOMAIN log' \in SUBSET Day /\ log' = [d \in DOMAIN log' |-> log'[d]]
          BY <5>1, <5>2 DEF Devices
        <5> QED
          BY <5>1, <5>3, <5>4, LogIntro
      <4> QED
        BY <4>1, <4>2
    <3> QED
      BY <3>1, <3>5, <3>6 DEF Devices
  <2>3. CASE Reconfigure
    BY <2>3 DEF Reconfigure, Devices, OwnedShelf
  <2>4. ASSUME NEW r, NEW p, Enforce(r, p) PROVE Devices'
    BY <2>4 DEF Enforce, devices, Devices, OwnedShelf
  <2>5. CASE UNCHANGED activityVars
    BY <2>5 DEF activityVars, Devices, OwnedShelf
  <2> QED
    BY <2>1, <2>2, <2>3, <2>4, <2>5 DEF ActivityNext, Refresh, Forget
<1> QED
  BY <1>1, <1>2, PTL DEF ActivitySpec

\* What is ingested, from devices that are there or not.
LEMMA SourcesType ==
    ASSUME Devices, NEW s, s = SourcesRead
    PROVE  s.log \in Log /\ OwnedShelf(s.library) /\ s.done \in SUBSET Book
<1>1. CASE connected
  BY <1>1 DEF SourcesRead, Devices
<1>2. CASE ~connected
  <2>1. /\ s.log = <<>> /\ s.done = done \ OnKOReader
        /\ s.library = [b \in Book |-> IF b \in OnKOReader THEN Unopened ELSE library[b]]
    BY <1>2 DEF SourcesRead
  <2>2. s.log \in Log
    <3>1. DOMAIN s.log = {} /\ s.log = [d \in DOMAIN s.log |-> s.log[d]]
      BY <2>1
    <3> QED
      BY <3>1, LogIntro
  <2>3. OwnedShelf(library) /\ DOMAIN library = Book
    BY DEF Devices
  <2>4. OwnedShelf(s.library)
    <3> DEFINE shelf(B, lib) == [b \in Book |-> IF b \in B THEN Unopened ELSE lib[b]]
    <3>1. \A B, lib : OwnedShelf(lib) /\ DOMAIN lib = Book => OwnedShelf(shelf(B, lib))
      BY UnopenedShelf
    <3>2. s.library = shelf(OnKOReader, library)
      BY <2>1
    <3> HIDE DEF shelf
    <3> QED
      BY <2>3, <3>1, <3>2
  <2> QED
    BY <2>1, <2>2, <2>4 DEF Devices
<1> QED
  BY <1>1, <1>2

\* The store is what pruning leaves of what the last refresh read, at the day given.
PrunedAsOf(day) ==
    /\ retention.earliest = EarliestRetained(retention.policy, day)
    /\ kept = Prune(ingested.library, retention.policy, day)
    /\ finished = ingested.done \cap DOMAIN kept
    /\ activity = [d \in PruneActivity(DOMAIN ingested.log, retention.policy, day) |->
                      ingested.log[d]]

\* It is so as of some day up to today, whatever was forgotten since; and an empty
\* record is called deleted exactly if something was read, unless a forget found it
\* empty already.
ActivityInv ==
    /\ retention.policy \in Policy
    /\ ingested.log \in Log
    /\ OwnedShelf(ingested.library)
    /\ ingested.done \in SUBSET Book
    /\ \E day \in Day : day <= today /\ PrunedAsOf(day)
    /\ activity = <<>> /\ ~masked => (retention.deleted <=> ingested.log # <<>>)

\* A log is empty if it has no day.
LEMMA EmptyLog ==
    ASSUME NEW pages, pages = [d \in DOMAIN pages |-> pages[d]]
    PROVE  pages = <<>> <=> DOMAIN pages = {}
<1>1. pages = <<>> => DOMAIN pages = {}
  OBVIOUS
<1>2. ASSUME DOMAIN pages = {} PROVE pages = <<>>
  <2>1. <<>> = [d \in DOMAIN <<>> |-> <<>>[d]] /\ DOMAIN <<>> = {}
    OBVIOUS
  <2> QED
    BY <1>2, <2>1
<1> QED
  BY <1>1, <1>2

\* A policy with another horizon is a policy, and remembers the same forgets.
LEMMA HorizonType ==
    ASSUME NEW p \in Policy, NEW h \in Horizons
    PROVE  LET next == [p EXCEPT !.horizon = h]
           IN  next \in Policy /\ next.forgotten = p.forgotten /\ next.before = p.before
BY ActivityAssumption DEF Policy

\* A refresh prunes what it read.
LEMMA RefreshPrunes ==
    ASSUME Devices, ActivityInv, NEW h \in Horizons, Refresh(h)
    PROVE  ActivityInv'
<1> DEFINE s == SourcesRead
           p == [retention.policy EXCEPT !.horizon = h]
<1>1. p \in Policy
  BY HorizonType DEF ActivityInv
<1>2. s.log \in Log /\ OwnedShelf(s.library) /\ s.done \in SUBSET Book
  BY SourcesType
<1>3. /\ Enforce(s, p) /\ ingested' = s /\ masked' = FALSE
  BY DEF Refresh
<1> HIDE DEF s, p
<1> DEFINE days == PruneActivity(DOMAIN s.log, p, today)
<1>4. /\ activity' = [d \in days |-> s.log[d]]
      /\ kept' = Prune(s.library, p, today)
      /\ finished' = s.done \cap DOMAIN kept'
      /\ retention' = [policy |-> p, earliest |-> EarliestRetained(p, today),
                       deleted |-> days # DOMAIN s.log]
      /\ today' = today
  BY <1>3 DEF Enforce
<1>5. \E day \in Day : day <= today' /\ PrunedAsOf(day)'
  <2>1. today \in Day /\ today <= today'
    BY <1>4 DEF Devices, Day
  <2>2. PrunedAsOf(today)'
    BY <1>3, <1>4 DEF PrunedAsOf
  <2> QED
    BY <1>4, <2>1, <2>2 DEF PrunedAsOf
<1>6. activity' = <<>> => (retention'.deleted <=> ingested'.log # <<>>)
  <2> SUFFICES ASSUME activity' = <<>> PROVE retention'.deleted <=> s.log # <<>>
    BY <1>3
  <2>1. DOMAIN activity' = days /\ DOMAIN <<>> = {}
    BY <1>4
  <2>2. s.log = <<>> <=> DOMAIN s.log = {}
    BY <1>2, LogElim, EmptyLog
  <2> QED
    BY <1>4, <2>1, <2>2
<1> QED
  BY <1>1, <1>2, <1>3, <1>4, <1>5, <1>6 DEF ActivityInv, OwnedShelf

\* A forget prunes what is left of it, and that is what pruning it at once leaves.
LEMMA ForgetPrunes ==
    ASSUME Devices, ActivityInv,
           NEW book \in Optional(Book), NEW line \in Optional(Day), Forget(book, line)
    PROVE  ActivityInv'
<1> DEFINE s == [log |-> activity, library |-> kept, done |-> finished]
           q == retention.policy
           p == WithForgottenBefore(WithForgottenBook(q, book), line)
<1>1. q \in Policy /\ p \in Policy /\ q.forgotten \subseteq p.forgotten /\ Tightens(q, p)
  BY ForgetRemembers, ForgetTightens DEF ActivityInv
<1>2. Enforce(s, p) /\ ingested' = ingested /\ masked' = (masked \/ activity = <<>>)
  BY DEF Forget
<1>3. PICK day \in Day : day <= today /\ PrunedAsOf(day)
  BY DEF ActivityInv
<1>4. today \in Day /\ Stricter(Cutoffs(q, day), Cutoffs(p, today))
  BY <1>1, <1>3, TimeTightens DEF Devices
<1> HIDE DEF p, q
<1> DEFINE once == PruneActivity(DOMAIN ingested.log, q, day)
           days == PruneActivity(DOMAIN activity, p, today)
<1>5. /\ activity' = [d \in days |-> activity[d]]
      /\ kept' = Prune(kept, p, today)
      /\ finished' = finished \cap DOMAIN kept'
      /\ retention' = [policy |-> p, earliest |-> EarliestRetained(p, today),
                       deleted |-> days # DOMAIN activity]
      /\ today' = today
  BY <1>2 DEF Enforce
<1>6. /\ kept = Prune(ingested.library, q, day)
      /\ finished = ingested.done \cap DOMAIN kept
      /\ activity = [d \in once |-> ingested.log[d]]
  BY <1>3 DEF PrunedAsOf, q
<1>7. /\ ingested.library \in Shelf /\ DOMAIN ingested.log \in SUBSET Day
      /\ ingested.log = [d \in DOMAIN ingested.log |-> ingested.log[d]]
  BY LogElim DEF ActivityInv, OwnedShelf
<1>8. kept' = Prune(ingested.library, p, today)
  BY <1>1, <1>4, <1>5, <1>6, <1>7, PruneTwice
<1>9. finished' = ingested.done \cap DOMAIN kept'
  <2>1. kept \in Shelf
    BY <1>6, <1>7, PruneType
  <2>2. DOMAIN kept' \subseteq DOMAIN kept
    BY <1>5, <2>1, PruneType
  <2> QED
    BY <1>5, <1>6, <2>2
<1>10. DOMAIN activity = once /\ once \subseteq DOMAIN ingested.log /\ days \subseteq once
  BY <1>6 DEF PruneActivity
<1>11. activity' = [d \in PruneActivity(DOMAIN ingested.log, p, today) |-> ingested.log[d]]
  <2>1. days = PruneActivity(DOMAIN ingested.log, p, today)
    BY <1>4, <1>7, <1>10, PruneActivityTwice
  <2> HIDE DEF days, once
  <2> QED
    BY <1>5, <1>6, <1>10, <2>1
<1>12. \E d \in Day : d <= today' /\ PrunedAsOf(d)'
  <2>1. today \in Day /\ today <= today'
    BY <1>5 DEF Devices, Day
  <2>2. PrunedAsOf(today)'
    BY <1>2, <1>5, <1>8, <1>9, <1>11 DEF PrunedAsOf
  <2> QED
    BY <1>5, <2>1, <2>2 DEF PrunedAsOf
<1>13. activity' = <<>> /\ ~masked' => (retention'.deleted <=> ingested'.log # <<>>)
  <2> SUFFICES ASSUME activity' = <<>>, ~masked'
               PROVE  retention'.deleted <=> ingested.log # <<>>
    BY <1>2
  <2>1. activity # <<>> /\ activity = [d \in DOMAIN activity |-> activity[d]]
    BY <1>2, <1>6
  <2>2. DOMAIN activity # {} /\ DOMAIN ingested.log # {}
    BY <1>10, <2>1, EmptyLog
  <2>3. days = {}
    <3>1. DOMAIN activity' = days /\ DOMAIN <<>> = {}
      BY <1>5
    <3> QED
      BY <3>1
  <2>4. ingested.log # <<>>
    BY <1>7, <2>2, EmptyLog
  <2> QED
    BY <1>5, <2>2, <2>3, <2>4
<1> QED
  BY <1>1, <1>2, <1>5, <1>12, <1>13 DEF ActivityInv, OwnedShelf

\* The store stays pruned of what was ingested.
LEMMA PagesInvariant ==
    ActivitySpec => []ActivityInv
<1>1. ActivityInit => ActivityInv
  <2> SUFFICES ASSUME ActivityInit PROVE ActivityInv
    OBVIOUS
  <2>1. /\ retention = [policy |-> DefaultPolicy, earliest |-> {}, deleted |-> FALSE]
        /\ ingested = NothingRead /\ today = 1
        /\ kept = <<>> /\ activity = <<>> /\ finished = {}
    BY DEF ActivityInit
  <2>2. ingested.log = <<>> /\ ingested.library = <<>> /\ ingested.done = {}
    BY <2>1 DEF NothingRead
  <2>3. DOMAIN <<>> = {} /\ <<>> = [d \in DOMAIN <<>> |-> <<>>[d]]
    OBVIOUS
  <2>4. <<>> \in Shelf /\ <<>> \in Log
    BY <2>3, ShelfIntro, LogIntro
  <2>5. DefaultPolicy \in Policy /\ Cutoffs(DefaultPolicy, 1) = {}
    BY DEF DefaultPolicy, Policy, Optional, Cutoffs
  <2>6. EarliestRetained(DefaultPolicy, 1) = {}
    BY <2>5 DEF EarliestRetained
  <2>7. Prune(<<>>, DefaultPolicy, 1) = <<>>
    <3>1. DOMAIN Prune(<<>>, DefaultPolicy, 1) = {}
      BY <2>3 DEF Prune
    <3>2. Prune(<<>>, DefaultPolicy, 1) \in Shelf
      BY <2>4, PruneType
    <3> QED
      BY <2>3, <3>1, <3>2, ShelfElim
  <2>8. <<>> = [d \in PruneActivity({}, DefaultPolicy, 1) |-> <<>>[d]]
    BY <2>3 DEF PruneActivity
  <2>9. PrunedAsOf(1)
    BY <2>1, <2>2, <2>3, <2>6, <2>7, <2>8 DEF PrunedAsOf
  <2>10. 1 \in Day /\ 1 <= today
    BY <2>1, MaxDayAssumption DEF Day
  <2> QED
    BY <2>1, <2>2, <2>3, <2>4, <2>5, <2>9, <2>10 DEF ActivityInv, OwnedShelf
<1>2. Devices /\ ActivityInv /\ [ActivityNext]_activityVars => ActivityInv'
  <2> SUFFICES ASSUME Devices, ActivityInv, [ActivityNext]_activityVars PROVE ActivityInv'
    OBVIOUS
  <2>1. ASSUME UNCHANGED store, today' \in Int, today' >= today PROVE ActivityInv'
    <3>1. UNCHANGED <<kept, activity, finished, retention, ingested, masked>>
      BY <2>1 DEF store
    <3>2. PICK day \in Day : day <= today /\ PrunedAsOf(day)
      BY DEF ActivityInv
    <3>3. day <= today' /\ PrunedAsOf(day)'
      BY <2>1, <3>1, <3>2 DEF PrunedAsOf, Day, Devices
    <3> QED
      BY <3>1, <3>3 DEF ActivityInv, OwnedShelf
  <2>2. CASE Midnight
    BY <2>1, <2>2 DEF Midnight, Devices, Day
  <2>3. ASSUME NEW b \in Book, Read(b) PROVE ActivityInv'
    BY <2>1, <2>3 DEF Read, Devices, Day
  <2>4. CASE Reconfigure
    BY <2>1, <2>4 DEF Reconfigure, Devices, Day
  <2>5. CASE UNCHANGED activityVars
    BY <2>1, <2>5 DEF activityVars, store, Devices, Day
  <2> QED
    BY <2>2, <2>3, <2>4, <2>5, RefreshPrunes, ForgetPrunes DEF ActivityNext
<1> QED
  BY <1>1, <1>2, DevicesType, PTL DEF ActivitySpec

\* Where the devices recorded no day the page names no policy, and where it names one
\* they did: what a reader is told of an empty record is true.
THEOREM AbsenceIsAttributedHolds ==
    ActivitySpec => []AbsenceIsAttributed
<1>1. ActivityInv => AbsenceIsAttributed
  BY DEF ActivityInv, AbsenceIsAttributed, Says, ActivityDeleted
<1> QED
  BY <1>1, PagesInvariant, PTL

\* The pages of some days are summed alike from logs that agree on them.
LEMMA PagesAgree ==
    ASSUME NEW p, NEW q, NEW days,
           \A n \in days : PagesOn(p, n) = PagesOn(q, n)
    PROVE  SumOver(p, days) = SumOver(q, days)
<1> DEFINE up(f) == [n \in 0..MaxDay |-> IF n = 0 THEN 0 ELSE f[n - 1] +
                        (IF n \in days THEN PagesOn(p, n) ELSE 0)]
           uq(f) == [n \in 0..MaxDay |-> IF n = 0 THEN 0 ELSE f[n - 1] +
                        (IF n \in days THEN PagesOn(q, n) ELSE 0)]
<1>1. \A f : up(f) = uq(f)
  OBVIOUS
<1>2. /\ SumOver(p, days) = (CHOOSE f : f = up(f))[MaxDay]
      /\ SumOver(q, days) = (CHOOSE f : f = uq(f))[MaxDay]
  BY DEF SumOver
<1> HIDE DEF up, uq
<1>3. (CHOOSE f : f = up(f)) = (CHOOSE f : f = uq(f))
  BY <1>1
<1> QED
  BY <1>2, <1>3

\* There are finitely many days.
LEMMA FiniteDays ==
    ASSUME NEW T \in SUBSET Day
    PROVE  IsFiniteSet(T) /\ T \in SUBSET Int
<1>1. MaxDay \in Nat
  BY MaxDayAssumption
<1>2. IsFiniteSet(Day)
  BY <1>1, FS_Interval DEF Day
<1>3. Day \subseteq Int
  BY DEF Day
<1> QED
  BY <1>2, <1>3, FS_Subset

\* A set of days that is not empty has a last one.
LEMMA LastDay ==
    ASSUME NEW T \in SUBSET Day, T # {}
    PROVE  Max(T) \in T /\ \A d \in T : d <= Max(T)
<1>1. PICK m \in T : \A d \in T : d <= m
  BY FiniteDays, LargestOf
<1>2. \A d \in T : m >= d
  BY <1>1, FiniteDays
<1>3. Max(T) \in T /\ \A d \in T : Max(T) >= d
  BY <1>2 DEF Max
<1> QED
  BY <1>3, FiniteDays

\* In a year that nothing was cut off, the pages and the books are those that were
\* read in, but for forgotten books.
LEMMA UncutYear ==
    ASSUME Devices, ActivityInv, NEW days \in SUBSET Day,
           \A d \in days, c \in retention.earliest : d >= c
    PROVE  /\ \A d \in days : PagesOn(activity, d) = PagesOn(ingested.log, d)
           /\ \A b \in Book :
                /\ b \in finished \cap DOMAIN kept
                /\ \E s \in kept[b].stat : s.day \in days
                <=>
                /\ b \in ingested.done \cap DOMAIN ingested.library
                /\ b \notin retention.policy.forgotten
                /\ \E s \in ingested.library[b].stat : s.day \in days
<1>1. PICK day \in Day : PrunedAsOf(day)
  BY DEF ActivityInv
<1> DEFINE p == retention.policy
           cuts == Cutoffs(p, day)
           shelf == ingested.library
<1>2. p \in Policy /\ shelf \in Shelf /\ \A b \in DOMAIN shelf : shelf[b] \in Row /\ shelf[b].owned
  BY ShelfElim DEF ActivityInv, OwnedShelf
<1>3. \A d \in days : Retained(d, cuts)
  <2>1. \A d \in days : d \in Int
    BY DEF Day
  <2> QED
    BY <1>1, <1>2, <2>1, OneEarliest DEF PrunedAsOf
<1> HIDE DEF p, cuts
<1>4. \A d \in days : PagesOn(activity, d) = PagesOn(ingested.log, d)
  <2>1. activity = [d \in PruneActivity(DOMAIN ingested.log, p, day) |-> ingested.log[d]]
    BY <1>1 DEF PrunedAsOf, p
  <2>2. \A d \in days : d \in DOMAIN activity <=> d \in DOMAIN ingested.log
    BY <1>3, <2>1 DEF PruneActivity, cuts
  <2> QED
    BY <2>1, <2>2 DEF PagesOn
<1>5. /\ kept = [b \in {c \in DOMAIN shelf : ~IsForgotten(shelf, c, p)} |->
                    PruneRow(shelf[b], cuts)]
      /\ finished = ingested.done \cap DOMAIN kept
  BY <1>1 DEF PrunedAsOf, Prune, p, cuts
<1>6. DOMAIN kept = DOMAIN shelf \ p.forgotten
  BY <1>2, <1>5 DEF IsForgotten
<1>7. ASSUME NEW b \in DOMAIN kept
      PROVE  (\E s \in kept[b].stat : s.day \in days) <=> (\E s \in shelf[b].stat : s.day \in days)
  <2>1. b \in DOMAIN shelf /\ kept[b] = PruneRow(shelf[b], cuts)
    BY <1>5, <1>6, <1>7
  <2>2. \A s \in shelf[b].stat : s \in Stat
    BY <1>2, <2>1 DEF Row, Optional
  <2>3. CASE cuts = {}
    BY <2>1, <2>3 DEF PruneRow
  <2>4. CASE cuts # {} /\ ~StatIsStale(shelf[b], cuts)
    BY <1>2, <2>1, <2>4, PruneRowCases
  <2>5. CASE cuts # {} /\ StatIsStale(shelf[b], cuts)
    <3>1. kept[b].stat = {StripHistory(s) : s \in shelf[b].stat}
      BY <1>2, <2>1, <2>5, PruneRowCases
    <3>2. ASSUME NEW s \in kept[b].stat PROVE s.day \notin days
      <4>1. PICK r \in shelf[b].stat : s = StripHistory(r)
        BY <3>1
      <4>2. s.day = 0
        BY <2>2, <4>1 DEF StripHistory, Stat
      <4> QED
        BY <4>2 DEF Day
    <3>3. ASSUME NEW s \in shelf[b].stat, s.day \in days PROVE FALSE
      <4>1. s.day \in Evidence(shelf[b])
        BY <3>3 DEF Evidence, Day
      <4> QED
        BY <1>3, <2>5, <3>3, <4>1 DEF StatIsStale
    <3> QED
      BY <3>2, <3>3
  <2> QED
    BY <2>3, <2>4, <2>5
<1>8. ASSUME NEW b \in Book
      PROVE  /\ b \in finished \cap DOMAIN kept
             /\ \E s \in kept[b].stat : s.day \in days
             <=>
             /\ b \in ingested.done \cap DOMAIN shelf
             /\ b \notin p.forgotten
             /\ \E s \in shelf[b].stat : s.day \in days
  <2>1. b \in finished \cap DOMAIN kept <=> b \in ingested.done \cap DOMAIN shelf /\ b \notin p.forgotten
    BY <1>5, <1>6
  <2> QED
    BY <1>7, <2>1
<1> QED
  BY <1>4, <1>8 DEF p

\* A year that a page calls full is whole: its pages and its books are all that was
\* read in it, forgotten books apart, and nothing was read later.
THEOREM FullYearsAreWholeHolds ==
    ActivitySpec => []FullYearsAreWhole
<1>1. Devices /\ ActivityInv => FullYearsAreWhole
  <2> SUFFICES ASSUME Devices, ActivityInv, NEW year \in InferredYear,
                      Coverage(year) = "full"
               PROVE  /\ Wrapped(year).pages
                            = SumOver(ingested.log, DaysOf(year))
                      /\ Wrapped(year).books
                            = FinishedIn(year, ingested.library, ingested.done)
                                 \ retention.policy.forgotten
                      /\ \A d \in DOMAIN ingested.log : YearOf(d) <= year
    BY DEF FullYearsAreWhole
  <2> DEFINE days == DaysOf(year)
             last == Max(DOMAIN activity)
  <2>1. activity # <<>> /\ year = YearOf(last)
    BY DEF InferredYear, InferredToday
  <2>2. PICK day \in Day : PrunedAsOf(day)
    BY DEF ActivityInv
  <2> DEFINE cuts == Cutoffs(retention.policy, day)
  <2>3. /\ DOMAIN activity = {d \in DOMAIN ingested.log : Retained(d, cuts)}
        /\ activity = [d \in DOMAIN activity |-> activity[d]]
    BY <2>2 DEF PrunedAsOf, PruneActivity
  <2>4. DOMAIN ingested.log \in SUBSET Day
    BY LogElim DEF ActivityInv
  <2>5. DOMAIN activity \in SUBSET Day /\ DOMAIN activity # {}
    BY <2>1, <2>3, <2>4, EmptyLog
  <2>6. last \in DOMAIN activity /\ \A d \in DOMAIN activity : d <= last
    BY <2>5, LastDay
  <2>7. days \in SUBSET Day /\ last \in days
    BY <2>1, <2>5, <2>6 DEF DaysOf
  <2>8. \A d \in days, c \in retention.earliest : d >= c
    <3>1. \A d \in days : d \in Int
      BY <2>7 DEF Day
    <3>2. \A c \in retention.earliest : c \in Int
      BY <2>2, OneEarliest DEF ActivityInv, PrunedAsOf, Optional
    <3> QED
      BY <2>7, <3>1, <3>2 DEF Coverage
  <2> HIDE DEF last, days
  <2>9. Wrapped(year).pages = SumOver(ingested.log, days)
    BY <2>7, <2>8, UncutYear, PagesAgree DEF Wrapped, days
  <2>10. Wrapped(year).books
           = FinishedIn(year, ingested.library, ingested.done) \ retention.policy.forgotten
    <3>1. finished \subseteq Book /\ ingested.done \subseteq Book
      BY <2>2 DEF ActivityInv, PrunedAsOf
    <3> QED
      BY <2>7, <2>8, <3>1, UncutYear DEF Wrapped, FinishedIn, days
  <2>11. ASSUME NEW d \in DOMAIN ingested.log PROVE YearOf(d) <= year
    <3>1. d \in Day /\ last \in Day
      BY <2>4, <2>5, <2>6
    <3>2. d <= last
      <4>1. CASE Retained(d, cuts)
        BY <2>3, <2>6, <4>1
      <4>2. CASE ~Retained(d, cuts)
        <5>1. PICK c \in cuts : ~(d >= c)
          BY <4>2 DEF Retained
        <5>2. last >= c
          BY <2>3, <2>6, <5>1 DEF Retained
        <5>3. c \in Int /\ d \in Int /\ last \in Int
          BY <3>1, <5>1 DEF Cutoffs, ActivityInv, Policy, Optional, Day
        <5> QED
          BY <5>1, <5>2, <5>3
      <4> QED
        BY <4>1, <4>2
    <3> QED
      BY <2>1, <3>1, <3>2, YearAssumption
  <2> QED
    BY <2>9, <2>10, <2>11 DEF days
<1> QED
  BY <1>1, DevicesType, PagesInvariant, PTL

(***************************************************************************)
(* Streaks: both are counted from the last day without reading.            *)
(***************************************************************************)
\* The last day up to d that is none of these; there is one before the first.
Gap(days, d) == CHOOSE g \in -1..d : g \notin days /\ \A x \in (g + 1)..d : x \in days

\* There is one.
LEMMA GapIs ==
    ASSUME NEW days \in SUBSET Day, NEW d \in -1..MaxDay
    PROVE  /\ Gap(days, d) \in -1..d /\ Gap(days, d) \notin days
           /\ \A x \in (Gap(days, d) + 1)..d : x \in days
<1> DEFINE S == {x \in -1..d : x \notin days}
<1>1. MaxDay \in Nat /\ days \subseteq 1..MaxDay /\ d \in Int /\ -1 <= d
  BY MaxDayAssumption DEF Day
<1>2. IsFiniteSet(S) /\ S \in SUBSET Int /\ -1 \in S
  <2>1. IsFiniteSet(-1..d)
    BY <1>1, FS_Interval
  <2> QED
    BY <1>1, <2>1, FS_Subset
<1>3. PICK g \in S : \A x \in S : x <= g
  BY <1>2, LargestOf
<1>4. g \in -1..d /\ g \notin days /\ \A x \in (g + 1)..d : x \in days
  BY <1>1, <1>3
<1> QED
  BY <1>4 DEF Gap

\* And only one.
LEMMA OneGap ==
    ASSUME NEW days \in SUBSET Day, NEW d \in -1..MaxDay, NEW g \in -1..d,
           g \notin days, \A x \in (g + 1)..d : x \in days
    PROVE  Gap(days, d) = g
<1>1. /\ Gap(days, d) \in -1..d /\ Gap(days, d) \notin days
      /\ \A x \in (Gap(days, d) + 1)..d : x \in days
  BY GapIs
<1>2. d \in Int /\ g \in Int /\ Gap(days, d) \in Int
  BY <1>1, MaxDayAssumption
<1> QED
  BY <1>1, <1>2

\* A day without reading is its own, and a day of reading has that of the day before.
LEMMA GapSteps ==
    ASSUME NEW days \in SUBSET Day, NEW d \in -1..MaxDay
    PROVE  /\ d \notin days => Gap(days, d) = d
           /\ d \in days => d - 1 \in -1..MaxDay /\ Gap(days, d) = Gap(days, d - 1)
<1>1. MaxDay \in Nat /\ d \in Int /\ -1 <= d /\ d <= MaxDay /\ days \subseteq 1..MaxDay
  BY MaxDayAssumption DEF Day
<1>2. CASE d \notin days
  BY <1>1, <1>2, OneGap
<1>3. CASE d \in days
  <2> DEFINE g == Gap(days, d - 1)
  <2>1. d - 1 \in -1..MaxDay
    BY <1>1, <1>3
  <2>2. g \in -1..(d - 1) /\ g \notin days /\ \A x \in (g + 1)..(d - 1) : x \in days
    BY <2>1, GapIs
  <2> HIDE DEF g
  <2>3. g \in -1..d /\ \A x \in (g + 1)..d : x \in days
    BY <1>1, <1>3, <2>2
  <2>4. Gap(days, d) = g
    BY <2>2, <2>3, OneGap
  <2> QED
    BY <1>3, <2>1, <2>4 DEF g
<1> QED
  BY <1>2, <1>3

\* A day's streak has as many days as there are since.
LEMMA StreakFits ==
    ASSUME NEW days \in SUBSET Day, NEW d \in -1..MaxDay
    PROVE  /\ d - Gap(days, d) \in 0..Cardinality(days)
           /\ \A n \in Nat : (d - n + 1)..d \subseteq days => n <= d - Gap(days, d)
<1> DEFINE g == Gap(days, d)
<1>1. /\ g \in -1..d /\ g \notin days /\ \A x \in (g + 1)..d : x \in days
      /\ d \in Int /\ MaxDay \in Nat
  BY GapIs, MaxDayAssumption
<1> HIDE DEF g
<1>2. (g + 1)..d \subseteq days /\ g \in Int /\ g <= d
  BY <1>1
<1>3. Cardinality((g + 1)..d) = d - g
  <2>1. g + 1 \in Int /\ d \in Int
    BY <1>1
  <2>2. Cardinality((g + 1)..d) = IF g + 1 > d THEN 0 ELSE d - (g + 1) + 1
    BY <2>1, FS_Interval
  <2> QED
    BY <1>1, <1>2, <2>2
<1>4. Cardinality((g + 1)..d) <= Cardinality(days) /\ Cardinality(days) \in Nat
  BY <1>2, FiniteDays, FS_Subset, FS_CardinalityType
<1>5. d - g \in 0..Cardinality(days)
  BY <1>1, <1>2, <1>3, <1>4
<1>6. ASSUME NEW n \in Nat, (d - n + 1)..d \subseteq days PROVE n <= d - g
  <2> SUFFICES ASSUME ~(n <= d - g) PROVE FALSE
    OBVIOUS
  <2>1. g \in (d - n + 1)..d
    BY <1>1, <1>2
  <2> QED
    BY <1>1, <1>6, <2>1
<1> QED
  BY <1>5, <1>6 DEF g

\* The largest member is the maximum.
LEMMA MaxIs ==
    ASSUME NEW S \in SUBSET Int, NEW m \in S, \A x \in S : x <= m
    PROVE  Max(S) = m
<1>1. \A x \in S : m >= x
  OBVIOUS
<1>2. Max(S) \in S /\ \A x \in S : Max(S) >= x
  BY <1>1 DEF Max
<1>3. Max(S) >= m /\ Max(S) <= m /\ Max(S) \in Int /\ m \in Int
  BY <1>2
<1> QED
  BY <1>3

(***************************************************************************)
(* The code counts them by recursion.  A recursion over an interval has    *)
(* one solution: of two there would be a first number they differ at.      *)
(***************************************************************************)
\* Back from a day.
LEMMA BackIs ==
    ASSUME NEW days \in SUBSET Day, NEW now \in Day
    PROVE  LET last == IF now \in days THEN now ELSE now - 1
           IN  CurrentStreak(days, now) = last - Gap(days, last)
<1> DEFINE last == IF now \in days THEN now ELSE now - 1
           next(f) == [d \in -1..MaxDay |-> IF d \in days THEN f[d - 1] + 1 ELSE 0]
           back == CHOOSE f : f = next(f)
           count == [d \in -1..MaxDay |-> d - Gap(days, d)]
<1>1. MaxDay \in Nat /\ days \subseteq 1..MaxDay
  BY MaxDayAssumption DEF Day
<1>2. \A d \in -1..MaxDay : d \in Int /\ Gap(days, d) \in Int
  BY <1>1, GapIs
<1>3. \A d \in -1..MaxDay : count[d] = IF d \in days THEN count[d - 1] + 1 ELSE 0
  <2> SUFFICES ASSUME NEW d \in -1..MaxDay
               PROVE  count[d] = IF d \in days THEN count[d - 1] + 1 ELSE 0
    OBVIOUS
  <2>1. CASE d \in days
    <3>1. d - 1 \in -1..MaxDay /\ Gap(days, d) = Gap(days, d - 1)
      BY <2>1, GapSteps
    <3>2. count[d] = d - Gap(days, d) /\ count[d - 1] = (d - 1) - Gap(days, d - 1)
      BY <3>1
    <3> QED
      BY <1>2, <2>1, <3>1, <3>2
  <2>2. CASE d \notin days
    BY <1>2, <2>2, GapSteps
  <2> QED
    BY <2>1, <2>2
<1>4. count = next(count)
  <2>1. count = [d \in -1..MaxDay |-> count[d]]
    OBVIOUS
  <2> HIDE DEF count
  <2> QED
    BY <1>3, <2>1
<1>5. CurrentStreak(days, now) = back[last]
  BY DEF CurrentStreak
<1>6. back = next(back)
  <2> HIDE DEF next, count
  <2> QED
    BY <1>4
<1> HIDE DEF back, count
<1>7. ASSUME NEW d \in -1..MaxDay, back[d] # count[d] PROVE FALSE
  <2> DEFINE Bad == {e \in -1..MaxDay : back[e] # count[e]}
  <2>1. IsFiniteSet(Bad) /\ Bad \in SUBSET Int /\ Bad # {}
    <3>1. IsFiniteSet(-1..MaxDay)
      BY <1>1, FS_Interval
    <3>2. Bad \subseteq -1..MaxDay /\ Bad # {} /\ -1..MaxDay \subseteq Int
      BY <1>7
    <3> HIDE DEF Bad
    <3> QED
      BY <3>1, <3>2, FS_Subset
  <2>2. PICK e \in Bad : \A x \in Bad : e <= x
    <3> HIDE DEF Bad
    <3> QED
      BY <2>1, SmallestOf
  <2>3. e \in -1..MaxDay /\ back[e] # count[e]
    BY <2>2
  <2>4. back[e] = IF e \in days THEN back[e - 1] + 1 ELSE 0
    BY <1>6, <2>3
  <2>5. CASE e \in days
    <3>1. e - 1 \in -1..MaxDay /\ ~(e <= e - 1)
      BY <1>1, <2>5
    <3>2. back[e - 1] = count[e - 1]
      BY <2>2, <3>1
    <3> QED
      BY <1>3, <2>3, <2>4, <2>5, <3>2
  <2>6. CASE e \notin days
    BY <1>3, <2>3, <2>4, <2>6
  <2> QED
    BY <2>5, <2>6
<1>8. last \in -1..MaxDay
  BY <1>1 DEF Day
<1>9. back[last] = last - Gap(days, last)
  <2> HIDE DEF last
  <2> QED
    BY <1>7, <1>8 DEF count
<1> QED
  BY <1>5, <1>9

\* Up the listed days.
LEMMA RunsAre ==
    ASSUME NEW days \in SUBSET Day
    PROVE  LET s == Ascending(days)
           IN  /\ DOMAIN Runs(s) = 1..Len(s)
               /\ \A i \in 1..Len(s) : s[i] \in days /\ Runs(s)[i] = s[i] - Gap(days, s[i])
               /\ \A d \in days : \E i \in 1..Len(s) : s[i] = d
<1> DEFINE s == Ascending(days)
           n == Len(s)
<1>1. IsFiniteSet(days) /\ days \in SUBSET Int
  BY FiniteDays
<1>2. s \in SetToSeqs(days) /\ \A i, j \in DOMAIN s : i < j => s[i] < s[j]
  BY <1>1, Increasing DEF Ascending
<1> HIDE DEF s
<1>3. /\ DOMAIN s = 1..n /\ n \in Nat
      /\ \A i \in 1..n : s[i] \in days
      /\ \A d \in days : \E i \in 1..n : s[i] = d
  BY <1>1, <1>2, ListingIsBijective
<1> HIDE DEF n
<1> DEFINE next(f) == [i \in 1..n |-> IF i > 1 /\ s[i] = s[i - 1] + 1 THEN f[i - 1] + 1 ELSE 1]
           run == CHOOSE f : f = next(f)
           count == [i \in 1..n |-> s[i] - Gap(days, s[i])]
<1>4. MaxDay \in Nat /\ days \subseteq 1..MaxDay
  BY MaxDayAssumption DEF Day
<1>5. \A d \in -1..MaxDay : d \in Int /\ Gap(days, d) \in Int
  BY <1>4, GapIs
<1>6. \A i \in 1..n : count[i] = IF i > 1 /\ s[i] = s[i - 1] + 1 THEN count[i - 1] + 1 ELSE 1
  <2> SUFFICES ASSUME NEW i \in 1..n
               PROVE  count[i] = IF i > 1 /\ s[i] = s[i - 1] + 1 THEN count[i - 1] + 1 ELSE 1
    OBVIOUS
  <2>1. s[i] \in days /\ s[i] \in 1..MaxDay
    BY <1>3, <1>4
  <2>2. /\ s[i] - 1 \in -1..MaxDay /\ Gap(days, s[i]) = Gap(days, s[i] - 1)
        /\ s[i] \in Int /\ Gap(days, s[i]) \in Int /\ count[i] = s[i] - Gap(days, s[i])
    <3>1. s[i] \in -1..MaxDay
      BY <2>1
    <3> QED
      BY <1>5, <2>1, <3>1, GapSteps
  <2>3. CASE i > 1 /\ s[i] = s[i - 1] + 1
    <3>1. i - 1 \in 1..n /\ s[i - 1] \in Int
      <4>1. i - 1 \in 1..n
        BY <1>3, <2>3
      <4>2. s[i - 1] \in days
        BY <1>3, <4>1
      <4> QED
        BY <1>1, <4>1, <4>2
    <3>2. s[i] - 1 = s[i - 1]
      BY <2>3, <3>1
    <3>3. count[i - 1] = s[i - 1] - Gap(days, s[i - 1])
      BY <3>1
    <3> HIDE DEF count
    <3> QED
      BY <2>2, <2>3, <3>1, <3>2, <3>3
  <2>4. CASE ~(i > 1 /\ s[i] = s[i - 1] + 1)
    <3>1. ASSUME s[i] - 1 \in days PROVE FALSE
      <4>1. PICK j \in 1..n : s[j] = s[i] - 1
        BY <1>3, <3>1
      <4>2. \A x, y \in 1..n : s[x] \in Int /\ (x < y => s[x] < s[y])
        BY <1>1, <1>2, <1>3
      <4>3. j < i
        BY <1>3, <2>2, <4>1, <4>2
      <4>4. i - 1 \in 1..n /\ i > 1 /\ (j < i - 1 \/ j = i - 1) /\ i - 1 < i
        BY <1>3, <4>3
      <4>5. s[i - 1] \in Int /\ s[j] <= s[i - 1] /\ s[i - 1] < s[i]
        BY <4>2, <4>4
      <4> QED
        BY <2>2, <2>4, <4>1, <4>4, <4>5
    <3>2. Gap(days, s[i] - 1) = s[i] - 1
      BY <2>2, <3>1, GapSteps
    <3> HIDE DEF count
    <3> QED
      BY <2>2, <2>4, <3>2
  <2> QED
    BY <2>3, <2>4
<1>7. count = next(count)
  <2>1. count = [i \in 1..n |-> count[i]]
    OBVIOUS
  <2> HIDE DEF count
  <2> QED
    BY <1>6, <2>1
<1>8. Runs(s) = run
  BY DEF Runs, n
<1>9. run = next(run)
  <2> HIDE DEF next, count
  <2> QED
    BY <1>7
<1> HIDE DEF run, count
<1>10. ASSUME NEW i \in 1..n, run[i] # count[i] PROVE FALSE
  <2> DEFINE Bad == {e \in 1..n : run[e] # count[e]}
  <2>1. IsFiniteSet(Bad) /\ Bad \in SUBSET Int /\ Bad # {}
    <3>1. IsFiniteSet(1..n)
      BY <1>3, FS_Interval
    <3>2. Bad \subseteq 1..n /\ Bad # {} /\ 1..n \subseteq Int
      BY <1>10
    <3> HIDE DEF Bad
    <3> QED
      BY <3>1, <3>2, FS_Subset
  <2>2. PICK e \in Bad : \A x \in Bad : e <= x
    <3> HIDE DEF Bad
    <3> QED
      BY <2>1, SmallestOf
  <2>3. e \in 1..n /\ run[e] # count[e]
    BY <2>2
  <2>4. run[e] = IF e > 1 /\ s[e] = s[e - 1] + 1 THEN run[e - 1] + 1 ELSE 1
    BY <1>9, <2>3
  <2>5. CASE e > 1
    <3>1. e - 1 \in 1..n /\ ~(e <= e - 1)
      BY <1>3, <2>3, <2>5
    <3>2. run[e - 1] = count[e - 1]
      BY <2>2, <3>1
    <3> QED
      BY <1>6, <2>3, <2>4, <3>2
  <2>6. CASE ~(e > 1)
    BY <1>6, <2>3, <2>4, <2>6
  <2> QED
    BY <2>5, <2>6
<1>11. DOMAIN run = 1..n
  BY <1>9
<1>12. \A i \in 1..n : Runs(s)[i] = s[i] - Gap(days, s[i])
  BY <1>8, <1>10 DEF count
<1> QED
  BY <1>3, <1>8, <1>11, <1>12 DEF s, n

\* The streaks a page shows are runs of days, and the longest there are.
LEMMA StreaksAre ==
    ASSUME NEW days \in SUBSET Day
    PROVE  LET Run(first, n) == first..(first + n - 1) \subseteq days
               lengths == 0..Cardinality(days)
           IN  /\ LongestStreak(days) = Max({n \in lengths : \E d \in Day : Run(d, n)})
               /\ \A now \in Day :
                     LET last == IF now \in days THEN now ELSE now - 1
                     IN  CurrentStreak(days, now)
                           = Max({n \in lengths : Run(last - n + 1, n)})
<1> DEFINE Run(first, n) == first..(first + n - 1) \subseteq days
           lengths == 0..Cardinality(days)
           some == {n \in lengths : \E d \in Day : Run(d, n)}
<1>1. /\ MaxDay \in Nat /\ 1 \in Day /\ days \subseteq 1..MaxDay /\ Day = 1..MaxDay
      /\ IsFiniteSet(days) /\ Cardinality(days) \in Nat
  BY MaxDayAssumption, FiniteDays, FS_CardinalityType DEF Day
<1>2. some \in SUBSET Int /\ lengths \in SUBSET Nat
  BY <1>1
<1>3. ASSUME days = {} PROVE LongestStreak(days) = Max(some)
  <2>1. Cardinality(days) = 0
    BY <1>3, FS_EmptySet
  <2>2. 0 \in some /\ \A n \in some : n <= 0
    <3>1. Run(1, 0) /\ 0 \in lengths
      BY <1>1
    <3> QED
      BY <1>1, <2>1, <3>1
  <2> HIDE DEF some
  <2>3. Max(some) = 0
    BY <1>2, <2>2, MaxIs
  <2> QED
    BY <1>3, <2>3 DEF LongestStreak
<1>4. ASSUME days # {} PROVE LongestStreak(days) = Max(some)
  <2> DEFINE s == Ascending(days)
             n == Len(s)
             runs == Runs(s)
             R == {runs[i] : i \in DOMAIN runs}
  <2>1. /\ DOMAIN runs = 1..n
        /\ \A i \in 1..n : s[i] \in days /\ runs[i] = s[i] - Gap(days, s[i])
        /\ \A d \in days : \E i \in 1..n : s[i] = d
    BY RunsAre
  <2> HIDE DEF s, n, runs
  <2>2. \A d \in days : d - Gap(days, d) \in R
    BY <2>1
  <2>3. \A m \in R : \E d \in days : m = d - Gap(days, d)
    BY <2>1
  <2> HIDE DEF R
  <2>4. \A d \in days : d \in -1..MaxDay /\ d \in Int
    BY <1>1
  <2>5. R \subseteq some
    <3> SUFFICES ASSUME NEW d \in days PROVE d - Gap(days, d) \in some
      BY <2>3
    <3> DEFINE g == Gap(days, d)
    <3>1. /\ g \in -1..d /\ g \notin days /\ \A x \in (g + 1)..d : x \in days
          /\ d - g \in lengths
      BY <2>4, GapIs, StreakFits
    <3>2. Gap(days, d) = Gap(days, d - 1) /\ d - 1 \in -1..MaxDay
      BY <2>4, GapSteps
    <3>3. Gap(days, d - 1) \in -1..(d - 1)
      BY <3>2, GapIs
    <3> HIDE DEF g
    <3>4. g \in -1..(d - 1)
      BY <3>2, <3>3 DEF g
    <3>5. CASE g = -1
      <4>1. 0 \in (g + 1)..d
        BY <1>1, <2>4, <3>5
      <4> QED
        BY <1>1, <3>1, <4>1
    <3>6. CASE g # -1
      <4>1. g + 1 \in Day /\ Run(g + 1, d - g)
        BY <1>1, <2>4, <3>1, <3>4, <3>6
      <4> QED
        BY <3>1, <4>1 DEF g
    <3> QED
      BY <3>5, <3>6
  <2>6. ASSUME NEW m \in some PROVE \E x \in R : m <= x
    <3>1. PICK d \in Day : Run(d, m)
      OBVIOUS
    <3>2. CASE m = 0
      <4>1. PICK e \in days : TRUE
        BY <1>4
      <4>2. e - Gap(days, e) \in R /\ e - Gap(days, e) \in 0..Cardinality(days)
        BY <2>2, <2>4, StreakFits
      <4> QED
        BY <3>2, <4>2
    <3>3. CASE m # 0
      <4> DEFINE last == d + m - 1
      <4>1. m \in Nat /\ d \in Int
        BY <1>1
      <4>2. last \in days /\ (last - m + 1)..last \subseteq days
        BY <3>1, <3>3, <4>1
      <4> HIDE DEF last
      <4>3. m <= last - Gap(days, last)
        BY <2>4, <4>1, <4>2, StreakFits
      <4> QED
        BY <2>2, <4>2, <4>3
    <3> QED
      BY <3>2, <3>3
  <2> HIDE DEF some
  <2>7. R # {}
    BY <1>4, <2>2
  <2>8. IsFiniteSet(R)
    <3>1. IsFiniteSet(lengths)
      BY <1>1, FS_Interval
    <3> QED
      BY <2>5, <3>1, FS_Subset DEF some
  <2>9. R \in SUBSET Int
    BY <1>2, <2>5
  <2>10. PICK m \in R : \A x \in R : x <= m
    BY <2>7, <2>8, <2>9, LargestOf
  <2>11. Max(R) = m
    BY <2>9, <2>10, MaxIs
  <2>12. m \in some /\ \A x \in some : x <= m
    <3> SUFFICES ASSUME NEW x \in some PROVE x <= m
      BY <2>5
    <3>1. PICK y \in R : x <= y
      BY <2>6
    <3>2. x \in Int /\ y \in Int /\ m \in Int /\ y <= m
      BY <1>2, <2>9, <2>10, <3>1
    <3> QED
      BY <3>1, <3>2
  <2>13. Max(some) = m
    BY <1>2, <2>12, MaxIs
  <2>14. LongestStreak(days) = Max(R)
    BY <1>4 DEF LongestStreak, R, runs, s
  <2> QED
    BY <2>11, <2>13, <2>14
<1>5. ASSUME NEW now \in Day
      PROVE  LET last == IF now \in days THEN now ELSE now - 1
             IN  CurrentStreak(days, now) = Max({n \in lengths : Run(last - n + 1, n)})
  <2> DEFINE last == IF now \in days THEN now ELSE now - 1
             up == {n \in lengths : Run(last - n + 1, n)}
             m == last - Gap(days, last)
  <2>1. last \in -1..MaxDay /\ last \in Int
    BY <1>1
  <2>2. CurrentStreak(days, now) = m
    BY BackIs
  <2> HIDE DEF last
  <2>3. \A n \in lengths : Run(last - n + 1, n) <=> (last - n + 1)..last \subseteq days
    <3> SUFFICES ASSUME NEW n \in lengths PROVE (last - n + 1) + n - 1 = last
      OBVIOUS
    <3> QED
      BY <1>2, <2>1
  <2>4. m \in lengths /\ \A n \in Nat : (last - n + 1)..last \subseteq days => n <= m
    BY <2>1, StreakFits
  <2>5. (last - m + 1)..last \subseteq days
    BY <2>1, GapIs
  <2> HIDE DEF m
  <2>6. m \in up /\ \A n \in up : n <= m
    BY <1>2, <2>3, <2>4, <2>5
  <2>7. up \in SUBSET Int
    BY <1>2
  <2> HIDE DEF up
  <2>8. Max(up) = m
    BY <2>6, <2>7, MaxIs
  <2> QED
    BY <2>2, <2>8 DEF up, last
<1> QED
  BY <1>3, <1>4, <1>5 DEF some

\* What pruning leaves of a record is one.
LEMMA StoreTypes ==
    ASSUME ActivityInv
    PROVE  kept \in Shelf /\ activity \in Log /\ finished \subseteq Book
<1>1. PICK day \in Day : PrunedAsOf(day)
  BY DEF ActivityInv
<1>2. ingested.library \in Shelf /\ ingested.log \in Log
  BY DEF ActivityInv, OwnedShelf
<1>3. kept \in Shelf
  BY <1>1, <1>2, PruneType DEF PrunedAsOf
<1>4. finished \subseteq Book
  BY <1>1 DEF PrunedAsOf, ActivityInv
<1> DEFINE days == PruneActivity(DOMAIN ingested.log, retention.policy, day)
<1>5. days \subseteq DOMAIN ingested.log
  BY DEF PruneActivity
<1>6. activity = [d \in days |-> ingested.log[d]]
  BY <1>1 DEF PrunedAsOf
<1> HIDE DEF days
<1>7. activity \in Log
  BY <1>2, <1>5, <1>6, LogElim, LogIntro
<1> QED
  BY <1>3, <1>4, <1>7

\* The streaks of a page are the longest run of consecutive days in what is kept, and
\* the one that ends today or yesterday, whatever was pruned (stats.py, _streaks).
THEOREM StreaksAreRunsHolds == ActivitySpec => []StreaksAreRuns
<1>1. ActivityInv => StreaksAreRuns
  <2> SUFFICES ASSUME ActivityInv PROVE StreaksAreRuns
    OBVIOUS
  <2>1. DOMAIN activity \in SUBSET Day
    BY StoreTypes, LogElim
  <2> QED
    BY <2>1, StreaksAre DEF StreaksAreRuns
<1> QED
  BY <1>1, PagesInvariant, PTL

\* The types of the devices, of the store and of what the last refresh read.
THEOREM ActivityTypeCorrect == ActivitySpec => []ActivityTypeOK
<1> DEFINE Rows == /\ retention \in [policy: Policy, earliest: Optional(Int), deleted: BOOLEAN]
                   /\ ingested \in Record
                   /\ connected \in BOOLEAN /\ unseen \in BOOLEAN /\ masked \in BOOLEAN
<1>1. ActivityInit => Rows
  <2> SUFFICES ASSUME ActivityInit PROVE Rows
    OBVIOUS
  <2>1. <<>> \in Log
    <3>1. <<>> = [d \in DOMAIN <<>> |-> <<>>[d]] /\ DOMAIN <<>> = {}
      OBVIOUS
    <3> QED
      BY <3>1, LogIntro
  <2>2. <<>> \in Shelf
    <3>1. <<>> = [b \in DOMAIN <<>> |-> <<>>[b]] /\ DOMAIN <<>> = {}
      OBVIOUS
    <3> QED
      BY <3>1, ShelfIntro
  <2>3. DefaultPolicy \in Policy
    BY DEF DefaultPolicy, Policy, Optional
  <2> QED
    BY <2>1, <2>2, <2>3 DEF ActivityInit, NothingRead, Record, Optional
<1>2. Devices /\ ActivityInv /\ Rows /\ [ActivityNext]_activityVars => Rows'
  <2> SUFFICES ASSUME Devices, ActivityInv, Rows, [ActivityNext]_activityVars PROVE Rows'
    OBVIOUS
  <2>1. ASSUME NEW r, NEW p \in Policy, Enforce(r, p)
        PROVE  /\ retention' \in [policy: Policy, earliest: Optional(Int), deleted: BOOLEAN]
               /\ connected' \in BOOLEAN
    <3>1. EarliestRetained(p, today) \in Optional(Int)
      BY OneEarliest DEF Devices
    <3> QED
      BY <2>1, <3>1 DEF Enforce, devices
  <2>2. ASSUME NEW h \in Horizons, Refresh(h) PROVE Rows'
    <3>1. [retention.policy EXCEPT !.horizon = h] \in Policy
      BY HorizonType DEF ActivityInv
    <3>2. ingested' \in Record
      <4>1. /\ SourcesRead.log \in Log /\ OwnedShelf(SourcesRead.library)
            /\ SourcesRead.done \in SUBSET Book
        BY SourcesType
      <4>2. ingested' = [log |-> SourcesRead.log, library |-> SourcesRead.library,
                         done |-> SourcesRead.done]
        BY <2>2 DEF Refresh, SourcesRead
      <4> QED
        BY <4>1, <4>2 DEF Record, OwnedShelf
    <3> QED
      BY <2>1, <2>2, <3>1, <3>2 DEF Refresh
  <2>3. ASSUME NEW book \in Optional(Book), NEW line \in Optional(Day), Forget(book, line)
        PROVE  Rows'
    <3>1. WithForgottenBefore(WithForgottenBook(retention.policy, book), line) \in Policy
      BY ForgetRemembers DEF ActivityInv
    <3> QED
      BY <2>1, <2>3, <3>1 DEF Forget
  <2>4. CASE Midnight
    BY <2>4 DEF Midnight, devices, store
  <2>5. ASSUME NEW b \in Book, Read(b) PROVE Rows'
    BY <2>5 DEF Read, store
  <2>6. CASE Reconfigure
    BY <2>6 DEF Reconfigure, store
  <2>7. CASE UNCHANGED activityVars
    BY <2>7 DEF activityVars
  <2> QED
    BY <2>2, <2>3, <2>4, <2>5, <2>6, <2>7 DEF ActivityNext
<1>3. Devices /\ ActivityInv /\ Rows => ActivityTypeOK
  BY StoreTypes DEF Devices, OwnedShelf, ActivityTypeOK
<1> QED
  BY <1>1, <1>2, <1>3, DevicesType, PagesInvariant, PTL DEF ActivitySpec
==============================================================================
