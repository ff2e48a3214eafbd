------------------------- MODULE ProgressCacheProofs -------------------------
(***************************************************************************)
(* What ProgressCache promises of cross-device progress, for one refresh   *)
(* at a time: the TTL of a cached answer is never postponed, no failure    *)
(* replaces a value, and a skipped refresh leaves the states showing what  *)
(* the cache holds.  The types hold for any refreshes side by side.        *)
(***************************************************************************)
EXTENDS ProgressCache, TLAPS

(***************************************************************************)
(* Types.                                                                  *)
(***************************************************************************)

\* A function on some keys is partial.
LEMMA PartialIntro ==
    ASSUME NEW S, NEW f, DOMAIN f \subseteq Key, f = [k \in DOMAIN f |-> f[k]],
           \A k \in DOMAIN f : f[k] \in S
    PROVE  f \in Partial(S)
<1>1. f \in [DOMAIN f -> S]
  OBVIOUS
<1> QED
  BY <1>1 DEF Partial

\* What a partial function is.
LEMMA PartialElim ==
    ASSUME NEW S, NEW f \in Partial(S)
    PROVE  DOMAIN f \subseteq Key /\ f = [k \in DOMAIN f |-> f[k]] /\ \A k \in DOMAIN f : f[k] \in S
<1>1. PICK D \in SUBSET Key : f \in [D -> S]
  BY DEF Partial
<1> QED
  BY <1>1

\* Nothing is a partial function.
LEMMA EmptyPartial == \A S : <<>> \in Partial(S)
<1> SUFFICES ASSUME NEW S PROVE <<>> \in Partial(S)
  OBVIOUS
<1>1. DOMAIN <<>> = {} /\ <<>> = [k \in DOMAIN <<>> |-> <<>>[k]]
  OBVIOUS
<1> QED
  BY <1>1, PartialIntro

\* The bounds are numbers.
LEMMA Bounds ==
    /\ Ttl \in Nat /\ MaxElapsed \in Nat /\ MaxStamp \in Nat /\ MaxChanges \in Nat
    /\ AgeCap \in Nat /\ MaxElapsed <= AgeCap /\ 0 \in Stamp
  BY TtlAssumption, BoundsAssumption DEF AgeCap, Stamp

\* An idle refresh is a refresh.
LEMMA IdleJobType == IdleJob \in Job /\ IdleJob.heard \in [Key -> Age]
<1>1. [k \in Key |-> AgeCap] \in [Key -> Age]
  BY Bounds DEF Age
<1> DEFINE none == [k \in Key |-> AgeCap]
<1> HIDE DEF none
<1>2. none \in [Key -> Age] => IdleJob \in Job /\ IdleJob.heard \in [Key -> Age]
  BY Bounds, EmptyPartial DEF IdleJob, Job, Steps, none
<1> QED
  BY <1>1, <1>2 DEF none

\* An age stays one, grows, and stays unknown when it is.
LEMMA OlderAge ==
    /\ \A a \in Age : Older(a) \in Age /\ a <= Older(a)
    /\ \A a, b \in Age : a <= b => Older(a) <= Older(b)
    /\ \A a \in Age : Older(a) # Never /\ a # Never
    /\ Older(Never) = Never /\ Never \notin Age
  BY Bounds DEF Age, Older, Never

\* A step of a refresh changes its own job and no other.
LEMMA GoType ==
    ASSUME TypeOK, NEW p \in Proc, NEW j \in Job, Go(p, j)
    PROVE  job' \in [Proc -> Job] /\ job'[p] = j /\ \A q \in Proc \ {p} : job'[q] = job[q]
  BY DEF Go, TypeOK

\* What is cached is progress, and never none.
LEMMA CachedType ==
    ASSUME row \in Row
    PROVE  /\ Cached \in Partial(Stamp)
           /\ DOMAIN Cached = {k \in DOMAIN row.entries : row.entries[k].val # 0}
           /\ \A k \in DOMAIN Cached : Cached[k] = row.entries[k].val /\ Cached[k] # 0
<1>1. DOMAIN row.entries \subseteq Key /\ \A k \in DOMAIN row.entries : row.entries[k] \in Entry
  BY PartialElim DEF Row
<1> DEFINE c == Cached
<1>2. c = [k \in {l \in DOMAIN row.entries : row.entries[l].val # 0} |-> row.entries[k].val]
  BY DEF Cached
<1> HIDE DEF c
<1>3. /\ DOMAIN c = {k \in DOMAIN row.entries : row.entries[k].val # 0}
      /\ c = [k \in DOMAIN c |-> c[k]]
      /\ \A k \in DOMAIN c : c[k] = row.entries[k].val /\ c[k] # 0
  BY <1>2
<1>4. \A k \in DOMAIN c : k \in Key /\ c[k] \in Stamp
  BY <1>1, <1>3 DEF Entry
<1>5. c \in Partial(Stamp)
  BY <1>3, <1>4, PartialIntro
<1> QED
  BY <1>3, <1>5 DEF c

\* So is what a refresh goes on with.
LEMMA ResolvedType ==
    ASSUME row \in Row, NEW j \in Job
    PROVE  /\ Resolved(j) \in Partial(Stamp)
           /\ \A k \in DOMAIN Resolved(j) : Resolved(j)[k] # 0
           /\ DOMAIN Resolved(j) = Found(j.answers)
                \cup (DOMAIN Cached \cap (Errored(j.answers) \cup (DOMAIN j.sigs \ j.stale)))
           /\ \A k \in DOMAIN Resolved(j) :
                Resolved(j)[k] = IF k \in Found(j.answers) THEN j.answers[k] ELSE Cached[k]
<1> DEFINE D == Found(j.answers)
                \cup (DOMAIN Cached \cap (Errored(j.answers) \cup (DOMAIN j.sigs \ j.stale)))
           r == Resolved(j)
<1>1. /\ r = [k \in D |-> IF k \in Found(j.answers) THEN j.answers[k] ELSE Cached[k]]
      /\ DOMAIN r = D
  BY DEF Resolved
<1>2. Found(j.answers) \subseteq Key /\ \A k \in Found(j.answers) : j.answers[k] \in Stamp \ {0}
  <2>1. DOMAIN j.answers \subseteq Key
    BY PartialElim DEF Job
  <2> QED
    BY <2>1 DEF Found
<1>3. DOMAIN Cached \subseteq Key /\ \A k \in DOMAIN Cached : Cached[k] \in Stamp \ {0}
  BY CachedType, PartialElim
<1> HIDE DEF r
<1>4. r = [k \in DOMAIN r |-> r[k]] /\ DOMAIN r \subseteq Key
  BY <1>1, <1>2, <1>3
<1>5. \A k \in DOMAIN r : r[k] \in Stamp \ {0}
  BY <1>1, <1>2, <1>3
<1>6. r \in Partial(Stamp)
  BY <1>4, <1>5, PartialIntro
<1> QED
  BY <1>1, <1>5, <1>6 DEF r

\* What is written of a refresh is a row: an entry for each stat, stamped with
\* the refresh's own time only where the server has just answered.
LEMMA SavedEntriesType ==
    ASSUME row \in Row, NEW j \in Job
    PROVE  /\ [written |-> TRUE, entries |-> SavedEntries(j)] \in Row
           /\ DOMAIN SavedEntries(j) = DOMAIN j.sigs
           /\ \A k \in DOMAIN j.sigs :
                /\ SavedEntries(j)[k].val = IF k \in DOMAIN j.progress THEN j.progress[k] ELSE 0
                /\ SavedEntries(j)[k].age = IF k \in DOMAIN j.answers \ Errored(j.answers)
                                            THEN j.elapsed
                                            ELSE IF k \in DOMAIN row.entries
                                                 THEN row.entries[k].age ELSE Never
<1> DEFINE new(k) == [sig |-> j.sigs[k],
                      age |-> IF k \in DOMAIN j.answers \ Errored(j.answers) THEN j.elapsed
                              ELSE IF k \in DOMAIN row.entries THEN row.entries[k].age ELSE Never,
                      val |-> IF k \in DOMAIN j.progress THEN j.progress[k] ELSE 0,
                      error |-> k \in Errored(j.answers)]
           s == SavedEntries(j)
<1>1. s = [k \in DOMAIN j.sigs |-> new(k)]
  BY DEF SavedEntries
<1>2. /\ DOMAIN j.sigs \subseteq Key /\ \A k \in DOMAIN j.sigs : j.sigs[k] \in Signature
      /\ \A k \in DOMAIN j.progress : j.progress[k] \in Stamp
      /\ \A k \in DOMAIN row.entries : row.entries[k] \in Entry
      /\ j.elapsed \in 0..MaxElapsed
  BY PartialElim DEF Job, Row
<1>3. ASSUME NEW k \in DOMAIN j.sigs PROVE new(k) \in Entry
  <2>1. new(k).age \in Age \cup {Never}
    BY <1>2, Bounds DEF Entry, Age
  <2>2. new(k).val \in Stamp
    BY <1>2, Bounds
  <2>3. new(k).error \in BOOLEAN /\ new(k).sig \in Signature
    BY <1>2
  <2> QED
    BY <2>1, <2>2, <2>3 DEF Entry
<1>a. \A k : new(k).val = IF k \in DOMAIN j.progress THEN j.progress[k] ELSE 0
  OBVIOUS
<1>b. \A k : new(k).age = IF k \in DOMAIN j.answers \ Errored(j.answers) THEN j.elapsed
                         ELSE IF k \in DOMAIN row.entries THEN row.entries[k].age ELSE Never
  OBVIOUS
<1> HIDE DEF new, s
<1>4. DOMAIN s = DOMAIN j.sigs /\ s = [k \in DOMAIN s |-> s[k]] /\ \A k \in DOMAIN s : s[k] = new(k)
  BY <1>1
<1>5. s \in Partial(Entry)
  BY <1>2, <1>3, <1>4, PartialIntro
<1>6. [written |-> TRUE, entries |-> s] \in Row
  BY <1>5 DEF Row
<1>7. \A k \in DOMAIN j.sigs :
        /\ s[k].val = IF k \in DOMAIN j.progress THEN j.progress[k] ELSE 0
        /\ s[k].age = IF k \in DOMAIN j.answers \ Errored(j.answers) THEN j.elapsed
                      ELSE IF k \in DOMAIN row.entries THEN row.entries[k].age ELSE Never
  BY <1>4, <1>a, <1>b
<1> USE DEF s
<1>8. [written |-> TRUE, entries |-> SavedEntries(j)] \in Row
  BY <1>6
<1>9. DOMAIN SavedEntries(j) = DOMAIN j.sigs
  BY <1>4
<1> QED
  BY <1>7, <1>8, <1>9

(***************************************************************************)
(* What each step of a refresh leaves of its job.                          *)
(***************************************************************************)

\* What no step but the first changes, and what the world leaves too.
Same(j, k) == k.seen = j.seen /\ k.asks = j.asks /\ k.elapsed = j.elapsed

\* A refresh begins at the sources as they are, with nothing asked.
LEMMA BeginsStep ==
    ASSUME TypeOK, version <= changes, NEW p \in Proc, Begins(p)
    PROVE  /\ job' \in [Proc -> Job] /\ \A q \in Proc \ {p} : job'[q] = job[q]
           /\ job'[p].at = "ingest" /\ job'[p].seen = version /\ job'[p].answers = <<>>
<1> DEFINE j == [IdleJob EXCEPT !.at = "ingest", !.asks = configured, !.seen = version]
<1>1. version \in 0..MaxChanges /\ configured \in BOOLEAN
  BY DEF TypeOK
<1>2. j \in Job /\ j.at = "ingest" /\ j.seen = version /\ j.answers = <<>>
  BY <1>1, IdleJobType DEF Job, Steps, IdleJob
<1> HIDE DEF j
<1> QED
  BY <1>2, GoType DEF Begins, j

\* It reads the stats, and asks about some of their keys if there are any.
LEMMA IngestStep ==
    ASSUME TypeOK, NEW p \in Proc, IngestStats(p)
    PROVE  /\ job' \in [Proc -> Job] /\ \A q \in Proc \ {p} : job'[q] = job[q]
           /\ job[p].at = "ingest" /\ Same(job[p], job'[p]) /\ job'[p].answers = job[p].answers
           /\ job'[p].heard = job[p].heard
           /\ job'[p].at \in {"fetch", "resolve"}
           /\ job'[p].asks /\ job'[p].stale # {} => job'[p].at = "fetch"
           /\ job'[p].sigs = stats /\ job'[p].stale \subseteq DOMAIN stats
<1> DEFINE stale == StaleKeys(stats, job[p].elapsed)
           at == IF job[p].asks /\ stale # {} THEN "fetch" ELSE "resolve"
           j == [job[p] EXCEPT !.at = at, !.sigs = stats, !.stale = stale]
<1>1. job[p] \in Job /\ stats \in Partial(Signature) /\ DOMAIN stats \subseteq Key
  BY PartialElim DEF TypeOK
<1>2. stale \subseteq DOMAIN stats
  BY DEF StaleKeys
<1>3. at \in {"fetch", "resolve"} /\ (job[p].asks /\ stale # {} => at = "fetch")
  OBVIOUS
<1>4. Go(p, j) /\ job[p].at = "ingest"
  BY DEF IngestStats, At
<1> HIDE DEF stale, at
<1>5. j \in Job /\ Same(job[p], j) /\ j.answers = job[p].answers /\ j.at = at
      /\ j.heard = job[p].heard
      /\ j.sigs = stats /\ j.stale = stale /\ j.asks = job[p].asks
  BY <1>1, <1>2, <1>3 DEF Job, Steps, Same
<1> HIDE DEF j
<1> QED
  BY <1>2, <1>3, <1>4, <1>5, GoType

\* It asks about a key it has not asked about, and goes on when none is left.
LEMMA FetchStep ==
    ASSUME TypeOK, NEW p \in Proc, FetchKey(p)
    PROVE  /\ job' \in [Proc -> Job] /\ \A q \in Proc \ {p} : job'[q] = job[q]
           /\ job[p].at = "fetch" /\ Same(job[p], job'[p])
           /\ job'[p].sigs = job[p].sigs /\ job'[p].stale = job[p].stale
           /\ DOMAIN job[p].answers \subseteq job[p].stale
                => DOMAIN job'[p].answers \subseteq job'[p].stale
           /\ \/ job'[p].at = "fetch"
              \/ job'[p].at = "resolve" /\ DOMAIN job'[p].answers = job'[p].stale
           /\ \A l \in DOMAIN job'[p].answers \ Errored(job'[p].answers) :
                \/ job'[p].heard[l] = 0
                \/ /\ l \in DOMAIN job[p].answers \ Errored(job[p].answers)
                   /\ job'[p].heard[l] = job[p].heard[l]
<1>1. PICK k \in job[p].stale \ DOMAIN job[p].answers :
        LET answers == [l \in DOMAIN job[p].answers \cup {k} |->
                          IF l # k THEN job[p].answers[l]
                          ELSE IF k \in down THEN Failed ELSE remote[k]]
            heard == IF k \in down THEN job[p].heard ELSE [job[p].heard EXCEPT ![k] = 0]
        IN  Go(p, [job[p] EXCEPT
                     !.answers = answers, !.heard = heard,
                     !.at = IF DOMAIN answers = job[p].stale THEN "resolve" ELSE @])
  BY DEF FetchKey
<1> DEFINE answers == [l \in DOMAIN job[p].answers \cup {k} |->
                         IF l # k THEN job[p].answers[l]
                         ELSE IF k \in down THEN Failed ELSE remote[k]]
           heard == IF k \in down THEN job[p].heard ELSE [job[p].heard EXCEPT ![k] = 0]
           at == IF DOMAIN answers = job[p].stale THEN "resolve" ELSE job[p].at
           j == [job[p] EXCEPT !.answers = answers, !.heard = heard, !.at = at]
<1>2. job[p] \in Job /\ job[p].at = "fetch" /\ k \in Key
  BY DEF TypeOK, FetchKey, At, Job
<1>3. DOMAIN job[p].answers \subseteq Key
      /\ \A l \in DOMAIN job[p].answers : job[p].answers[l] \in Stamp \cup {Failed}
  BY <1>2, PartialElim DEF Job
<1>4. DOMAIN answers = DOMAIN job[p].answers \cup {k} /\ DOMAIN answers \subseteq Key
  BY <1>2, <1>3
<1>5. \A l \in DOMAIN answers : answers[l] \in Stamp \cup {Failed}
  BY <1>2, <1>3 DEF TypeOK
<1>6. Go(p, j)
  BY <1>1
<1>7. \/ at = "fetch"
      \/ at = "resolve" /\ DOMAIN answers = job[p].stale
  BY <1>2
<1>8. answers = [l \in DOMAIN answers |-> answers[l]]
  OBVIOUS
<1>11. heard \in [Key -> Age]
  <2>1. job[p].heard \in [Key -> Age] /\ 0 \in Age
    BY <1>2, Bounds DEF Job, Age
  <2> QED
    BY <2>1
<1>12. ASSUME NEW l \in DOMAIN answers \ Errored(answers)
       PROVE  \/ heard[l] = 0
              \/ /\ l \in DOMAIN job[p].answers \ Errored(job[p].answers)
                 /\ heard[l] = job[p].heard[l]
  <2>1. l \in DOMAIN answers /\ answers[l] # Failed
    BY <1>12 DEF Errored
  <2>2. CASE l = k
    <3>1. k \notin down
      BY <2>1, <2>2
    <3>2. job[p].heard \in [Key -> Age] /\ heard = [job[p].heard EXCEPT ![k] = 0]
      BY <1>2, <3>1 DEF Job
    <3> QED
      BY <1>2, <2>2, <3>2
  <2>3. CASE l # k
    <3>1. l \in DOMAIN job[p].answers /\ answers[l] = job[p].answers[l] /\ l \in Key
      BY <1>3, <2>1, <2>3
    <3>2. heard[l] = job[p].heard[l]
      <4>1. job[p].heard \in [Key -> Age]
        BY <1>2 DEF Job
      <4> QED
        BY <2>3, <3>1, <4>1
    <3> QED
      BY <2>1, <3>1, <3>2 DEF Errored
  <2> QED
    BY <2>2, <2>3
<1> HIDE DEF answers, at, heard
<1>9. answers \in Partial(Stamp \cup {Failed})
  BY <1>4, <1>5, <1>8, PartialIntro
<1>10. j \in Job /\ Same(job[p], j) /\ j.sigs = job[p].sigs /\ j.stale = job[p].stale
       /\ j.answers = answers /\ j.at = at /\ j.heard = heard
  BY <1>2, <1>7, <1>9, <1>11 DEF Job, Steps, Same
<1> HIDE DEF j
<1>13. job' \in [Proc -> Job] /\ job'[p] = j /\ \A q \in Proc \ {p} : job'[q] = job[q]
  BY <1>6, <1>10, GoType
<1>14. \A l \in DOMAIN answers \ Errored(answers) :
         \/ heard[l] = 0
         \/ /\ l \in DOMAIN job[p].answers \ Errored(job[p].answers)
            /\ heard[l] = job[p].heard[l]
  BY <1>12
<1>15. DOMAIN job[p].answers \subseteq job[p].stale => DOMAIN answers \subseteq job[p].stale
  BY <1>4
<1> QED
  BY <1>2, <1>7, <1>10, <1>13, <1>14, <1>15

\* It resolves what it goes on with.
LEMMA ResolveStep ==
    ASSUME TypeOK, NEW p \in Proc, Resolve(p)
    PROVE  /\ job' \in [Proc -> Job] /\ \A q \in Proc \ {p} : job'[q] = job[q]
           /\ job[p].at = "resolve" /\ Same(job[p], job'[p]) /\ job'[p].at = "put"
           /\ job'[p].sigs = job[p].sigs /\ job'[p].stale = job[p].stale
           /\ job'[p].answers = job[p].answers /\ job'[p].progress = Resolved(job[p])
           /\ job'[p].heard = ResolvedHeard(job[p])
<1> DEFINE progress == Resolved(job[p])
           heard == ResolvedHeard(job[p])
           j == [job[p] EXCEPT !.at = "put", !.heard = heard, !.progress = progress]
<1>1. job[p] \in Job /\ progress \in Partial(Stamp)
  BY ResolvedType DEF TypeOK
<1>4. heard \in [Key -> Age]
  BY <1>1 DEF ResolvedHeard, TypeOK, Job
<1>2. Go(p, j) /\ job[p].at = "resolve"
  BY DEF Resolve, At
<1> HIDE DEF progress, heard
<1>3. /\ j \in Job /\ Same(job[p], j) /\ j.at = "put" /\ j.sigs = job[p].sigs
      /\ j.stale = job[p].stale /\ j.answers = job[p].answers /\ j.progress = progress
      /\ j.heard = heard
  BY <1>1, <1>4 DEF Job, Steps, Same
<1> HIDE DEF j
<1> QED
  BY <1>2, <1>3, GoType DEF progress, heard

\* It saves it in the cache.
LEMMA PutStep ==
    ASSUME TypeOK, NEW p \in Proc, PutProgress(p)
    PROVE  /\ job' \in [Proc -> Job] /\ \A q \in Proc \ {p} : job'[q] = job[q]
           /\ job[p].at = "put" /\ Same(job[p], job'[p]) /\ job'[p].at = "web"
           /\ job'[p].sigs = job[p].sigs /\ job'[p].progress = job[p].progress
<1> DEFINE heard == IdleJob.heard
           j == [job[p] EXCEPT !.at = "web", !.heard = heard]
<1>1. job[p] \in Job /\ heard \in [Key -> Age]
  BY IdleJobType DEF TypeOK
<1>3. Go(p, j) /\ job[p].at = "put"
  BY DEF PutProgress, At
<1> HIDE DEF heard
<1>2. /\ j \in Job /\ Same(job[p], j) /\ j.at = "web" /\ j.sigs = job[p].sigs
      /\ j.progress = job[p].progress
  BY <1>1 DEF Job, Steps, Same
<1> HIDE DEF j
<1> QED
  BY <1>2, <1>3, GoType

\* What a refresh shows of its stats is progress.
LEMMA ShowType ==
    ASSUME web \in [Key -> Stamp], NEW sigs \in Partial(Signature), NEW progress \in Partial(Stamp)
    PROVE  Show(sigs, progress) \in Partial(Stamp)
<1> DEFINE s == Show(sigs, progress)
<1>1. /\ DOMAIN sigs \subseteq Key
      /\ \A k \in DOMAIN progress : progress[k] \in Stamp
  BY PartialElim
<1>2. s = [k \in DOMAIN sigs |->
             Freshest(IF k \in DOMAIN progress THEN progress[k] ELSE 0, web[k])]
  BY DEF Show
<1>3. \A k \in DOMAIN sigs :
        Freshest(IF k \in DOMAIN progress THEN progress[k] ELSE 0, web[k]) \in Stamp
  BY <1>1, Bounds DEF Freshest
<1> HIDE DEF s
<1>4. DOMAIN s \subseteq Key /\ s = [k \in DOMAIN s |-> s[k]] /\ \A k \in DOMAIN s : s[k] \in Stamp
  BY <1>1, <1>2, <1>3
<1>5. s \in Partial(Stamp)
  BY <1>4, PartialIntro
<1> QED
  BY <1>5 DEF s

\* It adds Calibre-Web's.
LEMMA WebStep ==
    ASSUME TypeOK, NEW p \in Proc, ReadWeb(p)
    PROVE  /\ job' \in [Proc -> Job] /\ \A q \in Proc \ {p} : job'[q] = job[q]
           /\ job[p].at = "web" /\ Same(job[p], job'[p]) /\ job'[p].at = "save"
           /\ job'[p].sigs = job[p].sigs
           /\ job'[p].shown = Show(job[p].sigs, job[p].progress)
<1> DEFINE shown == Show(job[p].sigs, job[p].progress)
           j == [job[p] EXCEPT !.at = "save", !.shown = shown]
<1>1. job[p] \in Job /\ web \in [Key -> Stamp]
  BY DEF TypeOK
<1>2. shown \in Partial(Stamp)
  BY <1>1, ShowType DEF Job
<1>3. Go(p, j) /\ job[p].at = "web"
  BY DEF ReadWeb, At
<1> HIDE DEF shown
<1>4. /\ j \in Job /\ Same(job[p], j) /\ j.at = "save" /\ j.sigs = job[p].sigs
      /\ j.shown = shown
  BY <1>1, <1>2 DEF Job, Steps, Same
<1> HIDE DEF j
<1> QED
  BY <1>3, <1>4, GoType DEF shown

\* It ends when it has saved the states, or dies.
LEMMA EndStep ==
    ASSUME TypeOK, NEW p \in Proc, SaveStates(p) \/ Die(p)
    PROVE  /\ job' \in [Proc -> Job] /\ \A q \in Proc \ {p} : job'[q] = job[q]
           /\ job'[p].at = "idle"
<1>1. Go(p, IdleJob) /\ IdleJob.at = "idle"
  BY DEF SaveStates, Die, IdleJob
<1> QED
  BY <1>1, GoType, IdleJobType

\* A refresh that has gone on for e ticks, and heard its answers h ago.
Aged(j, e, h) == [j EXCEPT !.elapsed = e, !.heard = h]

LEMMA AgedJob ==
    ASSUME NEW j \in Job, NEW e \in 0..MaxElapsed, NEW h \in [Key -> Age]
    PROVE  /\ Aged(j, e, h) \in Job
           /\ Aged(j, e, h).elapsed = e /\ Aged(j, e, h).heard = h
           /\ Aged(j, e, h).at = j.at /\ Aged(j, e, h).asks = j.asks
           /\ Aged(j, e, h).seen = j.seen /\ Aged(j, e, h).sigs = j.sigs
           /\ Aged(j, e, h).stale = j.stale /\ Aged(j, e, h).answers = j.answers
           /\ Aged(j, e, h).progress = j.progress /\ Aged(j, e, h).shown = j.shown
BY DEF Aged, Job

\* A tick makes every entry older, and every running refresh longer.
LEMMA TickStep ==
    ASSUME TypeOK, Tick
    PROVE  /\ row' \in Row /\ DOMAIN row'.entries = DOMAIN row.entries
           /\ \A k \in DOMAIN row.entries :
                /\ row'.entries[k].val = row.entries[k].val
                /\ row'.entries[k].age = Older(row.entries[k].age)
           /\ answered' \in [Key -> Age] /\ \A k \in Key : answered'[k] = Older(answered[k])
           /\ job' \in [Proc -> Job]
           /\ \A p \in Proc :
                \/ job'[p] = job[p]
                \/ \E e \in 0..MaxElapsed, h \in [Key -> Age] : job'[p] = Aged(job[p], e, h)
           /\ \A p \in Proc : job[p].at # "idle" =>
                /\ job'[p].elapsed = job[p].elapsed + 1
                /\ \A k \in Key : job'[p].heard[k] = Older(job[p].heard[k])
<1> DEFINE old == row.entries
           new == [k \in DOMAIN old |-> [old[k] EXCEPT !.age = Older(old[k].age)]]
<1>1. row' = [row EXCEPT !.entries = new]
  BY DEF Tick
<1>2. row \in Row /\ DOMAIN old \subseteq Key /\ \A k \in DOMAIN old : old[k] \in Entry
  BY PartialElim DEF TypeOK, Row
<1>3. \A k \in DOMAIN old : Older(old[k].age) \in Age \cup {Never}
  BY <1>2, OlderAge DEF Entry
<1>4. \A k \in DOMAIN old :
        new[k] \in Entry /\ new[k].val = old[k].val /\ new[k].age = Older(old[k].age)
  BY <1>2, <1>3 DEF Entry
<1>5. DOMAIN new = DOMAIN old /\ new = [k \in DOMAIN new |-> new[k]]
  OBVIOUS
<1> HIDE DEF new
<1>6. new \in Partial(Entry)
  BY <1>2, <1>4, <1>5, PartialIntro
<1>7. row' \in Row /\ row'.entries = new
  BY <1>1, <1>2, <1>6 DEF Row
<1>8. answered' \in [Key -> Age] /\ \A k \in Key : answered'[k] = Older(answered[k])
  <2>1. answered' = [k \in Key |-> Older(answered[k])] /\ answered \in [Key -> Age]
    BY DEF Tick, TypeOK
  <2> QED
    BY <2>1, OlderAge
<1>9. ASSUME NEW p \in Proc, job[p].at # "idle"
      PROVE  LET h == [k \in Key |-> Older(job[p].heard[k])]
             IN  /\ h \in [Key -> Age] /\ job[p].elapsed + 1 \in 0..MaxElapsed
                 /\ job'[p] = Aged(job[p], job[p].elapsed + 1, h)
  <2>1. job[p] \in Job /\ job[p].elapsed \in 0..MaxElapsed /\ job[p].elapsed < MaxElapsed
    BY DEF Tick, TypeOK, Job
  <2>2. job'[p] = [job[p] EXCEPT !.elapsed = job[p].elapsed + 1,
                                 !.heard = [k \in Key |-> Older(job[p].heard[k])]]
    BY <1>9 DEF Tick
  <2>3. [k \in Key |-> Older(job[p].heard[k])] \in [Key -> Age]
    BY <2>1, OlderAge DEF Job
  <2> QED
    BY <2>1, <2>2, <2>3, Bounds DEF Aged
<1>10. ASSUME NEW p \in Proc PROVE job[p].at = "idle" => job'[p] = job[p]
  BY DEF Tick
<1>11. \A p \in Proc : job'[p] \in Job
  <2> SUFFICES ASSUME NEW p \in Proc PROVE job'[p] \in Job
    OBVIOUS
  <2>1. job[p] \in Job
    BY DEF TypeOK
  <2>2. CASE job[p].at = "idle"
    BY <1>10, <2>1, <2>2
  <2>3. CASE job[p].at # "idle"
    <3> DEFINE h == [k \in Key |-> Older(job[p].heard[k])]
               e == job[p].elapsed + 1
    <3>1. h \in [Key -> Age] /\ e \in 0..MaxElapsed /\ job'[p] = Aged(job[p], e, h)
      BY <1>9, <2>3
    <3> HIDE DEF h, e
    <3> QED
      BY <2>1, <3>1, AgedJob
  <2> QED
    BY <2>2, <2>3
<1>12. job' \in [Proc -> Job]
  <2>1. DOMAIN job' = Proc /\ job' = [p \in Proc |-> job'[p]]
    BY DEF Tick
  <2> QED
    BY <1>11, <2>1
<1>13. ASSUME NEW p \in Proc, job[p].at # "idle"
       PROVE  /\ job'[p].elapsed = job[p].elapsed + 1
              /\ \A k \in Key : job'[p].heard[k] = Older(job[p].heard[k])
  <2> DEFINE h == [k \in Key |-> Older(job[p].heard[k])]
  <2>1. job[p] \in Job
    BY DEF TypeOK
  <2>2. job'[p].elapsed = job[p].elapsed + 1 /\ job'[p].heard = h
    <3> HIDE DEF h
    <3>1. h \in [Key -> Age] /\ job[p].elapsed + 1 \in 0..MaxElapsed
          /\ job'[p] = Aged(job[p], job[p].elapsed + 1, h)
      BY <1>9, <1>13 DEF h
    <3> QED
      BY <2>1, <3>1, AgedJob
  <2> QED
    BY <2>2
<1>14. \A p \in Proc :
         \/ job'[p] = job[p]
         \/ \E e \in 0..MaxElapsed, h \in [Key -> Age] : job'[p] = Aged(job[p], e, h)
  BY <1>9, <1>10
<1> QED
  BY <1>4, <1>5, <1>7, <1>8, <1>12, <1>13, <1>14

\* The world leaves the refreshes, the cache and what was saved; only reading
\* moves the sources' mtimes.
LEMMA WorldStep ==
    ASSUME TypeOK, version <= changes, NEW k \in Key,
           \/ ReadLocally(k) \/ ReadOnTheWeb(k) \/ ReadElsewhere(k)
           \/ ServerFails(k) \/ ServerRecovers(k) \/ Configure
    PROVE  /\ TypeOK' /\ version' <= changes'
           /\ UNCHANGED <<job, row, saved, answered>>
           /\ \/ version' = version + 1
              \/ UNCHANGED <<version, stats, web>>
<1>0. version \in Nat /\ changes \in Nat /\ version \in 0..MaxChanges /\ changes \in 0..MaxChanges
  BY DEF TypeOK
<1>1. CASE ReadLocally(k)
  <2>1. version' \in 0..MaxChanges /\ changes' \in 0..MaxChanges /\ version' <= changes'
    BY <1>0, <1>1, Bounds DEF ReadLocally, Change
  <2>2. stats' \in Partial(Signature)
    <3>1. DOMAIN stats \subseteq Key /\ \A l \in DOMAIN stats : stats[l] \in Signature
      BY PartialElim DEF TypeOK
    <3>2. CASE stats' = [l \in DOMAIN stats \ {k} |-> stats[l]]
      <4>1. /\ DOMAIN stats' \subseteq Key /\ stats' = [l \in DOMAIN stats' |-> stats'[l]]
            /\ \A l \in DOMAIN stats' : stats'[l] \in Signature
        BY <3>1, <3>2
      <4> QED
        BY <4>1, PartialIntro
    <3>3. ASSUME NEW s \in Signature,
                 stats' = [l \in DOMAIN stats \cup {k} |-> IF l = k THEN s ELSE stats[l]]
          PROVE  stats' \in Partial(Signature)
      <4>1. /\ DOMAIN stats' \subseteq Key /\ stats' = [l \in DOMAIN stats' |-> stats'[l]]
            /\ \A l \in DOMAIN stats' : stats'[l] \in Signature
        BY <3>1, <3>3
      <4> QED
        BY <4>1, PartialIntro
    <3> QED
      BY <1>1, <3>2, <3>3 DEF ReadLocally
  <2> QED
    BY <1>1, <2>1, <2>2 DEF ReadLocally, TypeOK
<1>2. CASE ReadOnTheWeb(k)
  <2>1. version' \in 0..MaxChanges /\ changes' \in 0..MaxChanges /\ version' <= changes'
    BY <1>0, <1>2, Bounds DEF ReadOnTheWeb, Change
  <2>2. web' \in [Key -> Stamp]
    BY <1>2 DEF ReadOnTheWeb, TypeOK
  <2> QED
    BY <1>2, <2>1, <2>2 DEF ReadOnTheWeb, TypeOK
<1>3. CASE ReadElsewhere(k)
  <2>1. changes' \in 0..MaxChanges /\ version' <= changes'
    BY <1>0, <1>3, Bounds DEF ReadElsewhere, Change
  <2>2. remote' \in [Key -> Stamp]
    BY <1>3 DEF ReadElsewhere, TypeOK
  <2> QED
    BY <1>3, <2>1, <2>2 DEF ReadElsewhere, TypeOK
<1>4. CASE ServerFails(k) \/ ServerRecovers(k)
  BY <1>0, <1>4 DEF ServerFails, ServerRecovers, TypeOK
<1>5. CASE Configure
  <2>1. changes' \in 0..MaxChanges /\ version' <= changes'
    BY <1>0, <1>5, Bounds DEF Configure, Change
  <2> QED
    BY <1>5, <2>1 DEF Configure, TypeOK
<1> QED
  BY <1>1, <1>2, <1>3, <1>4, <1>5

(***************************************************************************)
(* Any refreshes side by side.                                             *)
(***************************************************************************)

\* A refresh keeps the types of the state.
LEMMA RefreshType ==
    ASSUME TypeOK, version <= changes, NEW p \in Proc, RefreshStep(p) \/ ForceRefresh(p) \/ Die(p)
    PROVE  TypeOK' /\ version' <= changes'
<1>0. /\ version \in 0..MaxChanges /\ changes \in 0..MaxChanges
      /\ job[p] \in Job /\ row \in Row /\ answered \in [Key -> Age]
  BY DEF TypeOK
<1>1. CASE BeginRefresh(p) \/ ForceRefresh(p)
  <2>1. job' \in [Proc -> Job]
    BY <1>1, BeginsStep DEF BeginRefresh, ForceRefresh
  <2>2. changes' \in 0..MaxChanges /\ version <= changes'
    BY <1>0, <1>1, Bounds DEF BeginRefresh, ForceRefresh, Change
  <2> QED
    BY <1>1, <2>1, <2>2 DEF BeginRefresh, ForceRefresh, Begins, TypeOK, world
<1>2. CASE IngestStats(p)
  BY <1>2, IngestStep DEF IngestStats, TypeOK, world
<1>3. CASE FetchKey(p)
  BY <1>3, FetchStep DEF FetchKey, TypeOK, world
<1>4. CASE Resolve(p)
  BY <1>4, ResolveStep DEF Resolve, TypeOK, world
<1>5. CASE PutProgress(p)
  <2>1. row' \in Row
    BY <1>0, <1>5, SavedEntriesType DEF PutProgress
  <2>2. answered' \in [Key -> Age]
    BY <1>0, <1>5 DEF PutProgress, Job
  <2> QED
    BY <1>5, <2>1, <2>2, PutStep DEF PutProgress, TypeOK, world
<1>6. CASE ReadWeb(p)
  BY <1>6, WebStep DEF ReadWeb, TypeOK, world
<1>7. CASE SaveStates(p)
  <2>1. saved' \in [populated: BOOLEAN, version: 0..MaxChanges, shown: Partial(Stamp)]
    BY <1>0, <1>7 DEF SaveStates, Job
  <2> QED
    BY <1>7, <2>1, EndStep DEF SaveStates, TypeOK, world
<1>8. CASE Die(p)
  <2>1. changes' \in 0..MaxChanges /\ version <= changes'
    BY <1>0, <1>8, Bounds DEF Die, Change
  <2> QED
    BY <1>8, <2>1, EndStep DEF Die, TypeOK, world
<1> QED
  BY <1>1, <1>2, <1>3, <1>4, <1>5, <1>6, <1>7, <1>8 DEF RefreshStep

\* So does every step; the sources' mtimes move no more often than the world.
LEMMA NextType ==
    ASSUME TypeOK, version <= changes, [Next]_vars
    PROVE  TypeOK' /\ version' <= changes'
<1>1. CASE UNCHANGED vars
  BY <1>1 DEF vars, TypeOK
<1>2. ASSUME NEW k \in Key,
             \/ ReadLocally(k) \/ ReadOnTheWeb(k) \/ ReadElsewhere(k)
             \/ ServerFails(k) \/ ServerRecovers(k)
      PROVE  TypeOK' /\ version' <= changes'
  BY <1>2, WorldStep
<1>3. CASE Configure
  <2>1. changes' \in 0..MaxChanges /\ version <= changes'
    BY <1>3, Bounds DEF Configure, Change, TypeOK
  <2> QED
    BY <1>3, <2>1 DEF Configure, TypeOK
<1>4. CASE Tick
  BY <1>4, TickStep DEF Tick, TypeOK, world
<1>5. ASSUME NEW p \in Proc, RefreshStep(p) \/ ForceRefresh(p) \/ Die(p)
      PROVE  TypeOK' /\ version' <= changes'
  BY <1>5, RefreshType
<1> QED
  BY <1>1, <1>2, <1>3, <1>4, <1>5 DEF Next

\* What TypeOK asks holds at first.
LEMMA InitType == Init => TypeOK /\ version <= changes
<1> SUFFICES ASSUME Init PROVE TypeOK /\ version <= changes
  OBVIOUS
<1>1. stats \in Partial(Signature)
  <2>1. /\ DOMAIN stats \subseteq Key /\ stats = [k \in DOMAIN stats |-> stats[k]]
        /\ \A k \in DOMAIN stats : stats[k] \in {0}
    BY PartialElim DEF Init
  <2>2. \A k \in DOMAIN stats : stats[k] \in Signature
    BY <2>1 DEF Signature
  <2> QED
    BY <2>1, <2>2, PartialIntro
<1>2. row \in Row
  BY EmptyPartial DEF Init, Row
<1>3. saved \in [populated: BOOLEAN, version: 0..MaxChanges, shown: Partial(Stamp)]
  BY Bounds, EmptyPartial DEF Init
<1>4. job \in [Proc -> Job]
  BY IdleJobType DEF Init
<1>5. answered \in [Key -> Age]
  BY Bounds DEF Init, Age
<1>6. 0 \in 0..MaxChanges
  BY Bounds
<1> QED
  BY <1>1, <1>2, <1>3, <1>4, <1>5, <1>6, Bounds DEF Init, TypeOK

\* Every state has its type, for any keys, refreshes and bounds.
THEOREM TypeCorrect == Spec => []TypeOK
<1> USE DEF vars
<1>1. Init => TypeOK /\ version <= changes
  BY InitType
<1>2. (TypeOK /\ version <= changes) /\ [Next]_vars => (TypeOK /\ version <= changes)'
  BY NextType
<1> QED
  BY <1>1, <1>2, PTL DEF Spec

(***************************************************************************)
(* One refresh at a time.  Beside a second one, the cache a refresh has    *)
(* resolved from may not be the cache it saves to.                         *)
(***************************************************************************)
OneRefresh == \A p, q \in Proc : p = q

\* What a refresh asks: nothing at first, then no key but the stale ones, and
\* all of them if it asks at all; what it saves, it has resolved from the cache.
Asking(p) ==
    LET j == job[p] IN
    /\ j.at = "ingest" => j.answers = <<>>
    /\ j.at \in {"fetch", "resolve", "put"} =>
          DOMAIN j.answers \subseteq j.stale /\ j.stale \subseteq DOMAIN j.sigs
    /\ j.at \in {"resolve", "put"} /\ j.asks => DOMAIN j.answers = j.stale
    /\ j.at = "put" => j.progress = Resolved(j)

AskInv == \A p \in Proc : Asking(p)

\* A tick leaves the cached values.
LEMMA TickCached ==
    ASSUME TypeOK, Tick
    PROVE  Cached' = Cached
<1> DEFINE old == row.entries
           new == row'.entries
<1>1. DOMAIN new = DOMAIN old /\ \A k \in DOMAIN old : new[k].val = old[k].val
  BY TickStep
<1> HIDE DEF old, new
<1>2. [k \in {l \in DOMAIN new : new[l].val # 0} |-> new[k].val]
        = [k \in {l \in DOMAIN old : old[l].val # 0} |-> old[k].val]
  BY <1>1
<1> QED
  BY <1>2 DEF Cached, old, new

\* What a refresh resolves depends on the cached values and on what it asked.
LEMMA ResolvedAlike ==
    ASSUME NEW p \in Proc, Cached' = Cached, job'[p].answers = job[p].answers,
           job'[p].sigs = job[p].sigs, job'[p].stale = job[p].stale
    PROVE  Resolved(job[p])' = Resolved(job[p])
<1>1. Found(job'[p].answers) = Found(job[p].answers)
      /\ Errored(job'[p].answers) = Errored(job[p].answers)
  OBVIOUS
<1> QED
  BY <1>1 DEF Resolved

\* A step that leaves the cache and the refresh, but for the ticks it has taken,
\* leaves what it has asked.
LEMMA StaysAsking ==
    ASSUME TypeOK, NEW p \in Proc, Asking(p), Cached' = Cached,
           \/ job'[p] = job[p]
           \/ \E e \in 0..MaxElapsed, h \in [Key -> Age] : job'[p] = Aged(job[p], e, h)
    PROVE  Asking(p)'
<1>1. /\ job'[p].at = job[p].at /\ job'[p].answers = job[p].answers
      /\ job'[p].sigs = job[p].sigs /\ job'[p].stale = job[p].stale
      /\ job'[p].asks = job[p].asks /\ job'[p].progress = job[p].progress
  <2>1. job[p] \in Job
    BY DEF TypeOK
  <2> QED
    BY <2>1, AgedJob
<1>2. Resolved(job[p])' = Resolved(job[p])
  BY <1>1, ResolvedAlike
<1> QED
  BY <1>1, <1>2 DEF Asking

\* A step of the refresh.
LEMMA RefreshAsks ==
    ASSUME TypeOK, version <= changes, NEW p \in Proc, Asking(p),
           RefreshStep(p) \/ ForceRefresh(p) \/ Die(p)
    PROVE  Asking(p)'
<1>1. CASE BeginRefresh(p) \/ ForceRefresh(p)
  <2>1. job'[p].at = "ingest" /\ job'[p].answers = <<>>
    BY <1>1, BeginsStep DEF BeginRefresh, ForceRefresh
  <2> QED
    BY <2>1 DEF Asking
<1>2. CASE IngestStats(p)
  <2>1. /\ job'[p].at \in {"fetch", "resolve"} /\ job'[p].answers = <<>>
        /\ job'[p].stale \subseteq DOMAIN job'[p].sigs
        /\ job'[p].asks /\ job'[p].stale # {} => job'[p].at = "fetch"
    BY <1>2, IngestStep DEF Asking
  <2>2. DOMAIN <<>> = {}
    OBVIOUS
  <2> QED
    BY <2>1, <2>2 DEF Asking
<1>3. CASE FetchKey(p)
  <2>1. /\ DOMAIN job'[p].answers \subseteq job'[p].stale
        /\ job'[p].stale \subseteq DOMAIN job'[p].sigs
        /\ \/ job'[p].at = "fetch"
           \/ job'[p].at = "resolve" /\ DOMAIN job'[p].answers = job'[p].stale
    BY <1>3, FetchStep DEF Asking
  <2> QED
    BY <2>1 DEF Asking
<1>4. CASE Resolve(p)
  <2>1. /\ job[p].at = "resolve" /\ job'[p].at = "put" /\ job'[p].asks = job[p].asks
        /\ job'[p].answers = job[p].answers /\ job'[p].sigs = job[p].sigs
        /\ job'[p].stale = job[p].stale /\ job'[p].progress = Resolved(job[p])
    BY <1>4, ResolveStep DEF Same
  <2>2. Cached' = Cached
    BY <1>4 DEF Resolve, Cached
  <2>3. Resolved(job[p])' = Resolved(job[p])
    BY <2>1, <2>2, ResolvedAlike
  <2> QED
    BY <2>1, <2>3 DEF Asking
<1>5. CASE PutProgress(p) \/ ReadWeb(p) \/ SaveStates(p) \/ Die(p)
  <2>1. job'[p].at \notin {"ingest", "fetch", "resolve", "put"}
    BY <1>5, PutStep, WebStep, EndStep
  <2> QED
    BY <2>1 DEF Asking
<1> QED
  BY <1>1, <1>2, <1>3, <1>4, <1>5 DEF RefreshStep

\* What the world does, and a step of stuttering.
Outside ==
    \/ UNCHANGED vars
    \/ Configure
    \/ \E k \in Key : \/ ReadLocally(k) \/ ReadOnTheWeb(k) \/ ReadElsewhere(k)
                      \/ ServerFails(k) \/ ServerRecovers(k)

\* The world moves the sources' mtimes, or leaves the sources.
LEMMA OutsideStep ==
    ASSUME TypeOK, version <= changes, Outside
    PROVE  /\ UNCHANGED <<job, row, saved, answered>>
           /\ version' = version + 1 \/ UNCHANGED <<version, stats, web>>
<1>1. CASE UNCHANGED vars \/ Configure
  BY <1>1 DEF vars, Configure
<1>2. ASSUME NEW k \in Key, \/ ReadLocally(k) \/ ReadOnTheWeb(k) \/ ReadElsewhere(k)
                            \/ ServerFails(k) \/ ServerRecovers(k)
      PROVE  /\ UNCHANGED <<job, row, saved, answered>>
             /\ version' = version + 1 \/ UNCHANGED <<version, stats, web>>
  BY <1>2, WorldStep
<1> QED
  BY <1>1, <1>2 DEF Outside

\* With one refresh, every step keeps what it asks.
LEMMA NextAsks ==
    ASSUME OneRefresh, TypeOK, version <= changes, AskInv, [Next]_vars
    PROVE  AskInv'
<1>1. CASE Outside
  <2>1. UNCHANGED <<job, row>>
    BY <1>1, OutsideStep
  <2>2. Cached' = Cached
    BY <2>1 DEF Cached
  <2> QED
    BY <2>1, <2>2, StaysAsking DEF AskInv
<1>2. CASE Tick
  <2> SUFFICES ASSUME NEW p \in Proc PROVE Asking(p)'
    BY DEF AskInv
  <2>1. \/ job'[p] = job[p]
        \/ \E e \in 0..MaxElapsed, h \in [Key -> Age] : job'[p] = Aged(job[p], e, h)
    BY <1>2, TickStep
  <2> QED
    BY <1>2, <2>1, TickCached, StaysAsking DEF AskInv
<1>3. ASSUME NEW p \in Proc, RefreshStep(p) \/ ForceRefresh(p) \/ Die(p) PROVE AskInv'
  BY <1>3, RefreshAsks DEF AskInv, OneRefresh
<1> QED
  BY <1>1, <1>2, <1>3 DEF Next, Outside

\* Of the keys the server has answered, a refresh heard since it began; of the
\* others it is about to save the value it found in the cache, and its age.
Hearing(p) ==
    LET j == job[p]
        told == DOMAIN j.answers \ Errored(j.answers)
    IN  /\ j.at \in {"ingest", "fetch", "resolve", "put"} =>
              \A k \in told : j.heard[k] <= j.elapsed
        /\ j.at = "put" => \A k \in Key \ told : j.heard[k] = answered[k]

HeardInv == FreshnessIsHonest /\ \A p \in Proc : Hearing(p)

\* A tick ages entries, answers and what was heard alike.
LEMMA TickHeard ==
    ASSUME TypeOK, HeardInv, Tick
    PROVE  HeardInv'
<1>1. \A k \in DOMAIN row.entries : k \in Key /\ row.entries[k].age \in Age \cup {Never}
  <2>1. row.entries \in Partial(Entry)
    BY DEF TypeOK, Row
  <2>2. \A k \in DOMAIN row.entries : k \in Key /\ row.entries[k] \in Entry
    BY <2>1, PartialElim
  <2> QED
    BY <2>2 DEF Entry
<1>2. ASSUME NEW k \in DOMAIN row.entries, Older(row.entries[k].age) # Never
      PROVE  Older(row.entries[k].age) >= Older(answered[k])
  <2>1. row.entries[k].age \in Age /\ row.entries[k].age # Never
    BY <1>1, <1>2, OlderAge
  <2>2. answered[k] \in Age /\ answered[k] <= row.entries[k].age
    BY <1>1, <2>1, Bounds DEF HeardInv, FreshnessIsHonest, TypeOK, Age
  <2>3. Older(answered[k]) <= Older(row.entries[k].age)
    BY <2>1, <2>2, OlderAge
  <2> QED
    BY <2>1, <2>2, <2>3, OlderAge, Bounds DEF Age
<1>3. FreshnessIsHonest'
  BY <1>1, <1>2, TickStep DEF FreshnessIsHonest
<1>4. ASSUME NEW p \in Proc PROVE Hearing(p)'
  <2> DEFINE told == DOMAIN job[p].answers \ Errored(job[p].answers)
  <2>1. job[p] \in Job /\ told \subseteq Key
    <3>1. job[p] \in Job
      BY DEF TypeOK
    <3>2. DOMAIN job[p].answers \subseteq Key
      BY <3>1, PartialElim DEF Job
    <3> QED
      BY <3>1, <3>2
  <2>2. job'[p].at = job[p].at /\ job'[p].answers = job[p].answers
    BY <2>1, TickStep, AgedJob
  <2>3. DOMAIN job'[p].answers \ Errored(job'[p].answers) = told
    BY <2>2
  <2> HIDE DEF told
  <2>4. CASE job[p].at = "idle"
    BY <2>2, <2>4 DEF Hearing
  <2>5. CASE job[p].at # "idle"
    <3>1. /\ job'[p].elapsed = job[p].elapsed + 1
          /\ \A k \in Key : /\ job'[p].heard[k] = Older(job[p].heard[k])
                            /\ answered'[k] = Older(answered[k])
      BY <2>5, TickStep
    <3>2. \A k \in Key : job[p].heard[k] \in Age /\ job[p].elapsed \in Nat
      BY <2>1 DEF Job
    <3>3. \A k \in Key : job[p].heard[k] <= job[p].elapsed => job'[p].heard[k] <= job'[p].elapsed
      BY <3>1, <3>2, Bounds DEF Older, Age
    <3>4. \A k \in Key : job[p].heard[k] = answered[k] => job'[p].heard[k] = answered'[k]
      BY <3>1
    <3>5. /\ job[p].at \in {"ingest", "fetch", "resolve", "put"} =>
                \A k \in told : job[p].heard[k] <= job[p].elapsed
          /\ job[p].at = "put" => \A k \in Key \ told : job[p].heard[k] = answered[k]
      BY DEF HeardInv, Hearing, told
    <3>6. \A k \in told : k \in Key
      BY <2>1
    <3> QED
      BY <2>2, <2>3, <3>3, <3>4, <3>5, <3>6 DEF Hearing
  <2> QED
    BY <2>4, <2>5
<1> QED
  BY <1>3, <1>4 DEF HeardInv

\* The refresh that saves stamps an entry with its own time only when the server
\* has just answered for its key; any other keeps the age it had, and its answer
\* is the one found in the cache.
LEMMA PutHeard ==
    ASSUME TypeOK, HeardInv, NEW p \in Proc, PutProgress(p)
    PROVE  FreshnessIsHonest'
<1> DEFINE j == job[p]
           told == DOMAIN j.answers \ Errored(j.answers)
<1>1. j \in Job /\ row \in Row /\ j.at = "put"
  BY DEF TypeOK, PutProgress, At
<1>2. row' = [written |-> TRUE, entries |-> SavedEntries(j)] /\ answered' = j.heard
  BY DEF PutProgress
<1>3. DOMAIN row'.entries = DOMAIN j.sigs /\ DOMAIN j.sigs \subseteq Key
  <2>1. row'.entries = SavedEntries(j) /\ DOMAIN SavedEntries(j) = DOMAIN j.sigs
    BY <1>1, <1>2, SavedEntriesType
  <2>2. j.sigs \in Partial(Signature)
    BY <1>1 DEF Job
  <2> QED
    BY <2>1, <2>2, PartialElim
<1> SUFFICES ASSUME NEW k \in DOMAIN row'.entries, row'.entries[k].age # Never
             PROVE  row'.entries[k].age >= answered'[k]
  BY DEF FreshnessIsHonest
<1>4. row'.entries[k].age = IF k \in told THEN j.elapsed
                            ELSE IF k \in DOMAIN row.entries THEN row.entries[k].age ELSE Never
  BY <1>1, <1>2, <1>3, SavedEntriesType
<1>5. /\ \A l \in told : j.heard[l] <= j.elapsed
      /\ \A l \in Key \ told : j.heard[l] = answered[l]
  BY <1>1 DEF HeardInv, Hearing
<1>6. j.elapsed \in Nat /\ j.heard[k] \in Age
  BY <1>1, <1>3 DEF Job
<1> HIDE DEF told, j
<1>7. CASE k \in told
  BY <1>2, <1>4, <1>5, <1>6, <1>7, Bounds DEF Age
<1>8. CASE k \notin told
  BY <1>2, <1>3, <1>4, <1>5, <1>8 DEF HeardInv, FreshnessIsHonest
<1> QED
  BY <1>7, <1>8

\* A step of the one refresh there is.
LEMMA RefreshHeard ==
    ASSUME OneRefresh, TypeOK, version <= changes, AskInv, HeardInv, NEW p \in Proc,
           RefreshStep(p) \/ ForceRefresh(p) \/ Die(p)
    PROVE  HeardInv'
<1>1. job[p] \in Job /\ job[p].elapsed \in Nat /\ \A q \in Proc : q = p
  <2>1. job[p] \in Job
    BY DEF TypeOK
  <2>2. job[p].elapsed \in Nat
    BY <2>1 DEF Job
  <2>3. \A q \in Proc : q = p
    BY DEF OneRefresh
  <2> QED
    BY <2>1, <2>2, <2>3
<1>2. SUFFICES FreshnessIsHonest' /\ Hearing(p)'
  BY <1>1 DEF HeardInv
<1>3. CASE PutProgress(p)
  BY <1>3, PutHeard, PutStep DEF Hearing
<1>4. CASE ~PutProgress(p)
  <2>1. UNCHANGED <<row, answered>>
    BY <1>4 DEF RefreshStep, BeginRefresh, ForceRefresh, Begins, IngestStats, FetchKey, Resolve,
                ReadWeb, SaveStates, Die
  <2>2. FreshnessIsHonest'
    BY <2>1 DEF HeardInv, FreshnessIsHonest
  <2>3. CASE BeginRefresh(p) \/ ForceRefresh(p)
    <3>1. job'[p].at = "ingest" /\ job'[p].answers = <<>>
      BY <2>3, BeginsStep DEF BeginRefresh, ForceRefresh
    <3>2. DOMAIN <<>> = {}
      OBVIOUS
    <3> QED
      BY <2>2, <3>1, <3>2 DEF Hearing
  <2>4. CASE IngestStats(p)
    <3>1. /\ job[p].at = "ingest" /\ job'[p].at \in {"fetch", "resolve"}
          /\ job'[p].answers = <<>>
      BY <2>4, IngestStep DEF AskInv, Asking
    <3>2. DOMAIN <<>> = {}
      OBVIOUS
    <3> QED
      BY <2>2, <3>1, <3>2 DEF Hearing
  <2>5. CASE FetchKey(p)
    <3>1. /\ job[p].at = "fetch" /\ job'[p].at \in {"fetch", "resolve"}
          /\ job'[p].elapsed = job[p].elapsed
          /\ \A l \in DOMAIN job'[p].answers \ Errored(job'[p].answers) :
                \/ job'[p].heard[l] = 0
                \/ /\ l \in DOMAIN job[p].answers \ Errored(job[p].answers)
                   /\ job'[p].heard[l] = job[p].heard[l]
      BY <2>5, FetchStep DEF Same
    <3>2. \A l \in DOMAIN job[p].answers \ Errored(job[p].answers) :
             job[p].heard[l] <= job[p].elapsed
      BY <3>1 DEF HeardInv, Hearing
    <3>3. \A l \in DOMAIN job'[p].answers \ Errored(job'[p].answers) :
             job'[p].heard[l] <= job'[p].elapsed
      BY <1>1, <3>1, <3>2
    <3> QED
      BY <2>2, <3>1, <3>3 DEF Hearing
  <2>6. CASE Resolve(p)
    <3>1. /\ job[p].at = "resolve" /\ job'[p].at = "put"
          /\ job'[p].elapsed = job[p].elapsed /\ job'[p].answers = job[p].answers
          /\ job'[p].heard = ResolvedHeard(job[p])
      BY <2>6, ResolveStep DEF Same
    <3> DEFINE told == DOMAIN job[p].answers \ Errored(job[p].answers)
    <3>2. told \subseteq Key
      <4>1. DOMAIN job[p].answers \subseteq Key
        BY <1>1, PartialElim DEF Job
      <4> QED
        BY <4>1
    <3>3. \A k \in Key : job'[p].heard[k] = IF k \in told THEN job[p].heard[k] ELSE answered[k]
      BY <3>1 DEF ResolvedHeard
    <3>4. \A k \in told : job[p].heard[k] <= job[p].elapsed
      BY <3>1 DEF HeardInv, Hearing
    <3>5. DOMAIN job'[p].answers \ Errored(job'[p].answers) = told
      BY <3>1
    <3> HIDE DEF told
    <3> QED
      BY <2>1, <2>2, <3>1, <3>2, <3>3, <3>4, <3>5 DEF Hearing
  <2>7. CASE ReadWeb(p) \/ SaveStates(p) \/ Die(p)
    <3>1. job'[p].at \notin {"ingest", "fetch", "resolve", "put"}
      BY <2>7, WebStep, EndStep
    <3> QED
      BY <2>2, <3>1 DEF Hearing
  <2> QED
    BY <1>4, <2>3, <2>4, <2>5, <2>6, <2>7 DEF RefreshStep
<1> QED
  BY <1>3, <1>4

\* No entry claims to be younger than the answer its value comes from, so that a
\* refresh never postpones the TTL, however often one runs or dies.  A second
\* refresh may write back an older value under the stamp the first has just put.
THEOREM FreshnessIsHonestHolds ==
    ASSUME OneRefresh
    PROVE  Spec => []FreshnessIsHonest
<1> DEFINE Inv == (TypeOK /\ version <= changes) /\ AskInv /\ HeardInv
<1>1. Init => Inv
  <2> SUFFICES ASSUME Init PROVE AskInv /\ HeardInv
    BY InitType
  <2>1. \A p \in Proc : job[p].at = "idle"
    BY DEF Init, IdleJob
  <2> QED
    BY <2>1 DEF Init, AskInv, Asking, HeardInv, Hearing, FreshnessIsHonest
<1>2. Inv /\ [Next]_vars => Inv'
  <2> SUFFICES ASSUME Inv, [Next]_vars PROVE Inv'
    OBVIOUS
  <2>1. (TypeOK /\ version <= changes)' /\ AskInv'
    BY NextType, NextAsks
  <2>2. CASE Outside
    <3>1. UNCHANGED <<job, row, answered>>
      BY <2>2, OutsideStep
    <3> QED
      BY <2>1, <3>1 DEF HeardInv, Hearing, FreshnessIsHonest
  <2>3. CASE Tick
    BY <2>1, <2>3, TickHeard
  <2>4. ASSUME NEW p \in Proc, RefreshStep(p) \/ ForceRefresh(p) \/ Die(p) PROVE Inv'
    BY <2>1, <2>4, RefreshHeard
  <2> QED
    BY <2>2, <2>3, <2>4 DEF Next, Outside
<1>3. Inv => FreshnessIsHonest
  BY DEF HeardInv
<1> HIDE DEF Inv
<1> QED
  BY <1>1, <1>2, <1>3, PTL DEF Spec

\* A put of one refresh changes a cached value only by an answer, or when kosync
\* is not configured.
LEMMA PutKeeps ==
    ASSUME TypeOK, NEW p \in Proc, Asking(p), PutProgress(p), job[p].asks,
           NEW k \in DOMAIN row.entries \cap DOMAIN row'.entries,
           k \in DOMAIN job[p].answers => job[p].answers[k] = Failed
    PROVE  row'.entries[k].val = row.entries[k].val
<1> DEFINE j == job[p]
           r == Resolved(j)
<1>1. j \in Job /\ row \in Row /\ j.at = "put"
  BY DEF TypeOK, PutProgress, At
<1>2. j.progress = r /\ DOMAIN j.answers = j.stale /\ j.stale \subseteq DOMAIN j.sigs
  BY <1>1 DEF Asking
<1>3. row'.entries = SavedEntries(j)
  BY DEF PutProgress
<1>4. k \in DOMAIN j.sigs /\ row'.entries[k].val = IF k \in DOMAIN r THEN r[k] ELSE 0
  BY <1>1, <1>2, <1>3, SavedEntriesType
<1>5. k \notin Found(j.answers)
  BY Bounds DEF Found, Failed, Stamp
<1>6. k \in Errored(j.answers) \cup (DOMAIN j.sigs \ j.stale)
  BY <1>2, <1>4 DEF Errored
<1>7. /\ k \in DOMAIN r <=> k \in DOMAIN Cached
      /\ k \in DOMAIN r => r[k] = Cached[k]
  BY <1>1, <1>5, <1>6, ResolvedType
<1>8. /\ k \in DOMAIN Cached <=> row.entries[k].val # 0
      /\ k \in DOMAIN Cached => Cached[k] = row.entries[k].val
  BY <1>1, CachedType
<1> QED
  BY <1>4, <1>7, <1>8

\* Only an answer of the sync server replaces a cached value while kosync is
\* configured: no failure, death, restart or early refresh loses the last good one.
THEOREM ValuesOutliveErrorsHolds ==
    ASSUME OneRefresh
    PROVE  Spec => ValuesOutliveErrors
<1> DEFINE Step == \A k \in DOMAIN row.entries \cap DOMAIN row'.entries :
                      row'.entries[k].val # row.entries[k].val =>
                          \E p \in Proc :
                              \/ k \in DOMAIN job[p].answers /\ job[p].answers[k] # Failed
                              \/ ~job[p].asks
<1>1. Init => AskInv
  <2>1. Init => \A p \in Proc : job[p].at = "idle"
    BY DEF Init, IdleJob
  <2> QED
    BY <2>1 DEF AskInv, Asking
<1>2. (TypeOK /\ version <= changes /\ AskInv) /\ [Next]_vars
        => (TypeOK /\ version <= changes /\ AskInv)'
  BY NextType, NextAsks
<1>3. (TypeOK /\ version <= changes /\ AskInv) /\ [Next]_vars => [Step]_vars
  <2> SUFFICES ASSUME TypeOK, version <= changes, AskInv, [Next]_vars PROVE Step
    OBVIOUS
  <2>1. CASE UNCHANGED row
    BY <2>1
  <2>2. CASE Tick
    BY <2>2, TickStep
  <2>3. ASSUME NEW p \in Proc, PutProgress(p) PROVE Step
    BY <2>3, PutKeeps DEF AskInv
  <2>4. ASSUME NEW p \in Proc, RefreshStep(p) \/ ForceRefresh(p) \/ Die(p), ~PutProgress(p)
        PROVE  UNCHANGED row
    BY <2>4 DEF RefreshStep, BeginRefresh, ForceRefresh, Begins, IngestStats, FetchKey, Resolve,
                ReadWeb, SaveStates, Die
  <2>5. CASE Outside
    BY <2>1, <2>5, OutsideStep
  <2> QED
    BY <2>1, <2>2, <2>3, <2>4, <2>5 DEF Next, Outside
<1>4. Init => TypeOK /\ version <= changes
  BY InitType
<1> HIDE DEF Step
<1>5. Spec => [][Step]_vars
  BY <1>1, <1>2, <1>3, <1>4, PTL DEF Spec
<1> QED
  BY <1>5 DEF ValuesOutliveErrors, Step

(***************************************************************************)
(* What a skipped refresh leaves.                                          *)
(***************************************************************************)

\* What a refresh is about to show: of sources that have not changed since it
\* began, their stats; of the cache it has saved to, what the cache holds.
Showing(p) ==
    LET j == job[p] IN
    /\ j.seen <= version
    /\ j.at \in {"fetch", "resolve", "put", "web", "save"} /\ j.seen = version => j.sigs = stats
    /\ j.at = "web" => j.progress = Cached
    /\ j.at = "save" /\ j.seen = version => j.shown = Show(j.sigs, Cached)

\* Unless one is between the two saves, the states of unchanged sources show the
\* cache.
Shown ==
    (\A p \in Proc : job[p].at \notin {"web", "save"}) /\ saved.populated /\ saved.version = version
       => saved.shown = Show(stats, Cached)

ShowInv == saved.version <= version /\ Shown /\ \A p \in Proc : Showing(p)

\* What is resolved is what the cache holds once it is saved.
LEMMA PutCached ==
    ASSUME TypeOK, NEW p \in Proc, Asking(p), PutProgress(p)
    PROVE  Cached' = job[p].progress
<1> DEFINE j == job[p]
           r == j.progress
           new == row'.entries
<1>1. j \in Job /\ row \in Row /\ j.at = "put"
  BY DEF TypeOK, PutProgress, At
<1>2. r = Resolved(j) /\ DOMAIN j.answers \subseteq DOMAIN j.sigs
  BY <1>1 DEF Asking
<1>3. r \in Partial(Stamp) /\ \A k \in DOMAIN r : r[k] # 0
  BY <1>1, <1>2, ResolvedType
<1>4. r = [k \in DOMAIN r |-> r[k]]
  BY <1>3, PartialElim
<1>5. DOMAIN r \subseteq DOMAIN j.sigs
  BY <1>1, <1>2, ResolvedType DEF Found, Errored
<1>6. new = SavedEntries(j)
  BY DEF PutProgress
<1>7. DOMAIN new = DOMAIN j.sigs
      /\ \A k \in DOMAIN new : new[k].val = IF k \in DOMAIN r THEN r[k] ELSE 0
  BY <1>1, <1>6, SavedEntriesType
<1>8. Cached' = [k \in {l \in DOMAIN new : new[l].val # 0} |-> new[k].val]
  BY DEF Cached
<1> HIDE DEF new, r
<1>9. {l \in DOMAIN new : new[l].val # 0} = DOMAIN r
  BY <1>3, <1>5, <1>7
<1>10. \A k \in DOMAIN r : new[k].val = r[k]
  BY <1>5, <1>7
<1>11. Cached' = [k \in DOMAIN r |-> r[k]]
  BY <1>8, <1>9, <1>10
<1> QED
  BY <1>4, <1>11 DEF r

\* Outside the refreshes.
LEMMA OutsideShows ==
    ASSUME TypeOK, version <= changes, ShowInv, Outside
    PROVE  ShowInv'
<1>1. /\ UNCHANGED <<job, row, saved>>
      /\ version' = version + 1 \/ UNCHANGED <<version, stats, web>>
  BY OutsideStep
<1>2. version \in Nat /\ saved.version \in Nat /\ \A p \in Proc : job[p].seen \in Nat
  BY Bounds DEF TypeOK, Job
<1>3. Cached' = Cached
  BY <1>1 DEF Cached
<1>4. CASE version' = version + 1
  <2>1. saved.version < version' /\ \A p \in Proc : job[p].seen < version' /\ job[p].seen # version'
    BY <1>2, <1>4 DEF ShowInv, Showing
  <2>2. saved'.version <= version' /\ saved'.version # version'
    BY <1>1, <1>2, <2>1
  <2>3. \A p \in Proc : Showing(p)'
    BY <1>1, <1>2, <1>3, <2>1 DEF ShowInv, Showing
  <2> QED
    BY <2>2, <2>3 DEF ShowInv, Shown
<1>5. CASE UNCHANGED <<version, stats, web>>
  <2>1. Show(stats, Cached)' = Show(stats, Cached)
    BY <1>3, <1>5 DEF Show
  <2>2. \A p \in Proc : Show(job[p].sigs, Cached)' = Show(job[p].sigs, Cached)
    BY <1>1, <1>3, <1>5 DEF Show
  <2>3. \A p \in Proc : Showing(p)'
    BY <1>1, <1>3, <1>5, <2>2 DEF ShowInv, Showing
  <2> QED
    BY <1>1, <1>5, <2>1, <2>3 DEF ShowInv, Shown
<1> QED
  BY <1>1, <1>4, <1>5

\* A tick.
LEMMA TickShows ==
    ASSUME TypeOK, ShowInv, Tick
    PROVE  ShowInv'
<1>1. Cached' = Cached /\ UNCHANGED <<web, stats, version, saved>>
  BY TickCached DEF Tick, world
<1>2. \A p \in Proc : /\ job'[p].at = job[p].at /\ job'[p].seen = job[p].seen
                      /\ job'[p].sigs = job[p].sigs /\ job'[p].progress = job[p].progress
                      /\ job'[p].shown = job[p].shown
  <2> SUFFICES ASSUME NEW p \in Proc
               PROVE  /\ job'[p].at = job[p].at /\ job'[p].seen = job[p].seen
                      /\ job'[p].sigs = job[p].sigs /\ job'[p].progress = job[p].progress
                      /\ job'[p].shown = job[p].shown
    OBVIOUS
  <2>1. job[p] \in Job
    BY DEF TypeOK
  <2>2. \/ job'[p] = job[p]
        \/ \E e \in 0..MaxElapsed, h \in [Key -> Age] : job'[p] = Aged(job[p], e, h)
    BY TickStep
  <2> QED
    BY <2>1, <2>2, AgedJob
<1>3. Show(stats, Cached)' = Show(stats, Cached)
  BY <1>1 DEF Show
<1>4. \A p \in Proc : Show(job[p].sigs, Cached)' = Show(job[p].sigs, Cached)
  BY <1>1, <1>2 DEF Show
<1>5. \A p \in Proc : Showing(p)'
  BY <1>1, <1>2, <1>4 DEF ShowInv, Showing
<1> QED
  BY <1>1, <1>2, <1>3, <1>5 DEF ShowInv, Shown

\* A step of the refresh, when no other runs and it does not die between its
\* save of the cache and that of the states.
LEMMA RefreshShows ==
    ASSUME OneRefresh, MortalAt \cap {"web", "save"} = {},
           TypeOK, version <= changes, AskInv, ShowInv,
           NEW p \in Proc, RefreshStep(p) \/ ForceRefresh(p) \/ Die(p)
    PROVE  ShowInv'
<1>0. /\ version \in Nat /\ saved.version \in Nat /\ job[p].seen \in Nat /\ job[p] \in Job
      /\ \A q \in Proc : q = p
  <2>1. job[p] \in Job /\ version \in 0..MaxChanges
        /\ saved \in [populated: BOOLEAN, version: 0..MaxChanges, shown: Partial(Stamp)]
    BY DEF TypeOK
  <2>2. job[p].seen \in 0..MaxChanges
    BY <2>1 DEF Job
  <2>3. \A q \in Proc : q = p
    BY DEF OneRefresh
  <2> QED
    BY <2>1, <2>2, <2>3, Bounds
<1>1. UNCHANGED <<web, stats, version>>
  BY DEF RefreshStep, BeginRefresh, ForceRefresh, Begins, IngestStats, FetchKey, Resolve,
         PutProgress, ReadWeb, SaveStates, Die, world
<1>2. SUFFICES Showing(p)' /\ Shown' /\ saved'.version <= version'
  BY <1>0 DEF ShowInv
<1>3. Showing(p) /\ Shown /\ saved.version <= version
  BY DEF ShowInv
<1>4. CASE PutProgress(p)
  <2>1. /\ job[p].at = "put" /\ job'[p].at = "web" /\ job'[p].seen = job[p].seen
        /\ job'[p].sigs = job[p].sigs /\ job'[p].progress = job[p].progress
    BY <1>4, PutStep DEF Same
  <2>2. Cached' = job'[p].progress
    BY <1>4, <2>1, PutCached DEF AskInv
  <2>3. saved' = saved
    BY <1>4 DEF PutProgress
  <2> QED
    BY <1>1, <1>3, <2>1, <2>2, <2>3 DEF Showing, Shown
<1>5. CASE ~PutProgress(p)
  <2>1. UNCHANGED row
    BY <1>5 DEF RefreshStep, BeginRefresh, ForceRefresh, Begins, IngestStats, FetchKey, Resolve,
                ReadWeb, SaveStates, Die
  <2>2. Cached' = Cached
    BY <2>1 DEF Cached
  <2>3. Show(stats, Cached)' = Show(stats, Cached)
    BY <1>1, <2>2 DEF Show
  <2>4. CASE BeginRefresh(p) \/ ForceRefresh(p)
    <3>1. job'[p].at = "ingest" /\ job'[p].seen = version /\ saved' = saved /\ job[p].at = "idle"
      BY <2>4, BeginsStep DEF BeginRefresh, ForceRefresh, Begins, At
    <3> QED
      BY <1>0, <1>1, <1>3, <2>3, <3>1 DEF Showing, Shown
  <2>5. CASE IngestStats(p)
    <3>1. /\ job[p].at = "ingest" /\ job'[p].at \in {"fetch", "resolve"}
          /\ job'[p].seen = job[p].seen /\ job'[p].sigs = stats /\ saved' = saved
      BY <2>5, IngestStep DEF IngestStats, Same
    <3> QED
      BY <1>0, <1>1, <1>3, <2>3, <3>1 DEF Showing, Shown
  <2>6. CASE FetchKey(p)
    <3>1. /\ job[p].at = "fetch" /\ job'[p].at \in {"fetch", "resolve"}
          /\ job'[p].seen = job[p].seen /\ job'[p].sigs = job[p].sigs /\ saved' = saved
      BY <2>6, FetchStep DEF FetchKey, Same
    <3> QED
      BY <1>0, <1>1, <1>3, <2>3, <3>1 DEF Showing, Shown
  <2>7. CASE Resolve(p)
    <3>1. /\ job[p].at = "resolve" /\ job'[p].at = "put"
          /\ job'[p].seen = job[p].seen /\ job'[p].sigs = job[p].sigs /\ saved' = saved
      BY <2>7, ResolveStep DEF Resolve, Same
    <3> QED
      BY <1>0, <1>1, <1>3, <2>3, <3>1 DEF Showing, Shown
  <2>8. CASE ReadWeb(p)
    <3>1. /\ job[p].at = "web" /\ job'[p].at = "save"
          /\ job'[p].seen = job[p].seen /\ job'[p].sigs = job[p].sigs /\ saved' = saved
          /\ job'[p].shown = Show(job[p].sigs, job[p].progress)
      BY <2>8, WebStep DEF ReadWeb, Same
    <3>2. job'[p].shown = Show(job'[p].sigs, Cached)
      BY <1>3, <3>1 DEF Showing
    <3>3. job'[p].shown = Show(job[p].sigs, Cached)'
      BY <1>1, <2>2, <3>1, <3>2 DEF Show
    <3> QED
      BY <1>1, <1>3, <3>1, <3>3 DEF Showing, Shown
  <2>9. CASE SaveStates(p)
    <3>1. /\ job[p].at = "save" /\ job'[p].at = "idle" /\ job'[p].seen = 0
          /\ saved' = [populated |-> TRUE, version |-> job[p].seen, shown |-> job[p].shown]
      <4>1. job'[p] = IdleJob
        BY <2>9 DEF SaveStates, Go, TypeOK
      <4> QED
        BY <2>9, <4>1 DEF SaveStates, At, IdleJob
    <3>2. job[p].seen = version => job[p].shown = Show(stats, Cached)
      BY <1>3, <3>1 DEF Showing
    <3> QED
      BY <1>0, <1>1, <1>3, <2>3, <3>1, <3>2 DEF Showing, Shown
  <2>10. CASE Die(p)
    <3>1. /\ job[p].at \notin {"web", "save"} /\ job'[p].at = "idle" /\ job'[p].seen = 0
          /\ saved' = saved
      <4>1. job'[p] = IdleJob /\ job[p].at \in MortalAt
        BY <2>10 DEF Die, Go, TypeOK
      <4> QED
        BY <2>10, <4>1 DEF Die, IdleJob
    <3> QED
      BY <1>0, <1>1, <1>3, <2>3, <3>1 DEF Showing, Shown
  <2> QED
    BY <1>5, <2>4, <2>5, <2>6, <2>7, <2>8, <2>9, <2>10 DEF RefreshStep
<1> QED
  BY <1>4, <1>5

\* When the next refresh would skip, the states show what the cache holds and the
\* sources say: with one refresh at a time that is not killed between its two
\* saves, the skip hides no answer already fetched, whatever changes meanwhile.
THEOREM SkipShowsTheCacheHolds ==
    ASSUME OneRefresh, MortalAt \cap {"web", "save"} = {}
    PROVE  Spec => []SkipShowsTheCache
<1> DEFINE Inv == (TypeOK /\ version <= changes) /\ AskInv /\ ShowInv
<1>1. Init => Inv
  <2> SUFFICES ASSUME Init PROVE AskInv /\ ShowInv
    BY InitType
  <2>1. \A p \in Proc : job[p].at = "idle" /\ job[p].seen = 0
    BY DEF Init, IdleJob
  <2>2. saved.version = 0 /\ saved.populated = FALSE /\ version = 0
    BY DEF Init
  <2> QED
    BY <2>1, <2>2 DEF AskInv, Asking, ShowInv, Shown, Showing
<1>2. Inv /\ [Next]_vars => Inv'
  <2> SUFFICES ASSUME Inv, [Next]_vars PROVE Inv'
    OBVIOUS
  <2>1. (TypeOK /\ version <= changes)' /\ AskInv'
    BY NextType, NextAsks
  <2>2. CASE Outside
    BY <2>1, <2>2, OutsideShows
  <2>3. CASE Tick
    BY <2>1, <2>3, TickShows
  <2>4. ASSUME NEW p \in Proc, RefreshStep(p) \/ ForceRefresh(p) \/ Die(p) PROVE Inv'
    BY <2>1, <2>4, RefreshShows
  <2> QED
    BY <2>2, <2>3, <2>4 DEF Next, Outside
<1>3. Inv => SkipShowsTheCache
  BY DEF ShowInv, Shown, SkipShowsTheCache, Idle, Unchanged
<1> HIDE DEF Inv
<1> QED
  BY <1>1, <1>2, <1>3, PTL DEF Spec
=============================================================================
