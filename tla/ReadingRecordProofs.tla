------------------------- MODULE ReadingRecordProofs -------------------------
(***************************************************************************)
(* The promises of ReadingRecord, for any books, days and horizons; after  *)
(* them those of Activity about a page of that record, and of Library      *)
(* about the states a refresh makes of the sources before it prunes them.  *)
(*                                                                         *)
(* Each invariant of the record is inductive once the types are known:     *)
(* only Refresh and Forget write it, both through Enforce, and what        *)
(* Enforce makes true the lemmas of RetentionProofs say of Prune.  The     *)
(* invariants of Library follow from SourcesInv, an invariant of the       *)
(* sources alone: States is a function of them.                            *)
(***************************************************************************)
EXTENDS ReadingRecord, Library, RetentionProofs

\* Writing one row of a shelf leaves a shelf.
LEMMA PutType ==
    ASSUME NEW shelf \in Shelf, NEW b \in Book, NEW row \in Row
    PROVE  Put(shelf, b, row) \in Shelf
<1>1. DOMAIN shelf \subseteq Book /\ \A c \in DOMAIN shelf : shelf[c] \in Row
  BY ShelfElim
<1>2. /\ DOMAIN Put(shelf, b, row) = DOMAIN shelf \cup {b}
      /\ Put(shelf, b, row) = [c \in DOMAIN Put(shelf, b, row) |-> Put(shelf, b, row)[c]]
      /\ \A c \in DOMAIN Put(shelf, b, row) : Put(shelf, b, row)[c] \in Row
  BY <1>1 DEF Put
<1> QED
  BY <1>1, <1>2, ShelfIntro

\* A policy with another horizon is a policy, and remembers the same forgets.
LEMMA HorizonType ==
    ASSUME NEW p \in Policy, NEW h \in Horizons
    PROVE  LET next == [p EXCEPT !.horizon = h]
           IN  next \in Policy /\ next.forgotten = p.forgotten /\ next.before = p.before
BY HorizonsAssumption DEF Policy

\* What every step but a command does to the record, and what a command does.
LEMMA StepCases ==
    ASSUME TypeOK, [Next]_vars
    PROVE  \/ UNCHANGED record
           \/ \E shelf \in Shelf, days \in SUBSET Day, p \in Policy :
                /\ Enforce(shelf, days, p)
                /\ shelf \in {library, kept}
                /\ policy.forgotten \subseteq p.forgotten
                /\ \A d \in policy.before : \E e \in p.before : e >= d
<1>1. policy \in Policy /\ library \in Shelf /\ kept \in Shelf
      /\ libraryDays \in SUBSET Day /\ keptDays \in SUBSET Day
  BY DEF TypeOK
<1>2. CASE Refresh
  <2>1. PICK h \in Horizons : Enforce(library, libraryDays, [policy EXCEPT !.horizon = h])
    BY <1>2 DEF Refresh
  <2> DEFINE p == [policy EXCEPT !.horizon = h]
  <2>2. p \in Policy /\ p.forgotten = policy.forgotten /\ p.before = policy.before
    BY <1>1, HorizonType
  <2>3. \A d \in policy.before : d >= d
    BY <1>1 DEF Policy, Optional, Day
  <2> HIDE DEF p
  <2>4. Enforce(library, libraryDays, p)
    BY <2>1 DEF p
  <2> QED
    BY <1>1, <2>2, <2>3, <2>4
<1>3. ASSUME NEW book \in Optional(Book), NEW line \in Optional(Day), Forget(book, line)
      PROVE  \E shelf \in Shelf, days \in SUBSET Day, p \in Policy :
                /\ Enforce(shelf, days, p)
                /\ shelf \in {library, kept}
                /\ policy.forgotten \subseteq p.forgotten
                /\ \A d \in policy.before : \E e \in p.before : e >= d
  <2> DEFINE p == WithForgottenBefore(WithForgottenBook(policy, book), line)
  <2>1. /\ p \in Policy
        /\ p.forgotten = policy.forgotten \cup book
        /\ \A d \in policy.before : \E e \in p.before : e >= d
    BY <1>1, ForgetRemembers
  <2>2. Enforce(kept, keptDays, p)
    BY <1>3 DEF Forget
  <2> HIDE DEF p
  <2> QED
    BY <1>1, <2>1, <2>2
<1>4. CASE Midnight
  BY <1>4 DEF Midnight, record
<1>5. ASSUME NEW b \in Book, Read(b) \/ Acquire(b) \/ GiveAway(b) PROVE UNCHANGED record
  BY <1>5 DEF Read, Acquire, GiveAway, record
<1>6. CASE UNCHANGED vars
  BY <1>6 DEF vars, record
<1> QED
  BY <1>2, <1>3, <1>4, <1>5, <1>6 DEF Next

(***************************************************************************)
(* Types.                                                                  *)
(***************************************************************************)

\* Every variable keeps its type; Prune returns a shelf, and forgets a policy.
THEOREM TypeCorrect == Spec => []TypeOK
<1>1. Init => TypeOK
  <2> SUFFICES ASSUME Init PROVE TypeOK
    OBVIOUS
  <2>1. Unread \in Row
    BY DEF Unread, Row, Optional
  <2>2. library \in Shelf
    <3>1. PICK D \in SUBSET Book : library \in [D -> {Unread}]
      BY DEF Init
    <3>2. library \in [D -> Row]
      BY <2>1, <3>1
    <3> QED
      BY <3>2 DEF Shelf
  <2>3. kept \in Shelf
    <3>1. kept = <<>> /\ DOMAIN kept = {} /\ kept = [b \in DOMAIN kept |-> kept[b]]
      BY DEF Init
    <3> QED
      BY <3>1, ShelfIntro
  <2>4. policy \in Policy
    BY DEF Init, DefaultPolicy, Policy, Optional
  <2> QED
    BY <2>2, <2>3, <2>4, MaxDayAssumption DEF Init, TypeOK, Day, Optional
<1>2. TypeOK /\ [Next]_vars => TypeOK'
  <2> SUFFICES ASSUME TypeOK, [Next]_vars PROVE TypeOK'
    OBVIOUS
  <2>1. (kept \in Shelf /\ keptDays \subseteq Day /\ policy \in Policy
          /\ enforcedOn \in Optional(Day))'
    <3>1. CASE UNCHANGED record
      BY <3>1 DEF record, TypeOK
    <3>2. ASSUME NEW shelf \in Shelf, NEW days \in SUBSET Day, NEW p \in Policy,
                 Enforce(shelf, days, p)
          PROVE  (kept \in Shelf /\ keptDays \subseteq Day /\ policy \in Policy
                   /\ enforcedOn \in Optional(Day))'
      <4>1. kept' = Prune(shelf, p, today) /\ keptDays' = PruneActivity(days, p, today)
            /\ policy' = p /\ enforcedOn' = {today}
        BY <3>2 DEF Enforce
      <4>2. kept' \in Shelf /\ keptDays' \in SUBSET Day
        BY <4>1, PruneType, PruneActivityType
      <4>3. {today} \in Optional(Day)
        BY DEF TypeOK, Optional
      <4> QED
        BY <4>1, <4>2, <4>3
    <3> QED
      BY <3>1, <3>2, StepCases
  <2>2. (today \in Day /\ library \in Shelf /\ libraryDays \subseteq Day)'
    <3>1. CASE Midnight
      BY <3>1, MaxDayAssumption DEF Midnight, TypeOK, Day, sources
    <3>2. ASSUME NEW b \in Book, Read(b)
          PROVE  (today \in Day /\ library \in Shelf /\ libraryDays \subseteq Day)'
      <4>1. PICK synced \in BOOLEAN, log \in 1..MaxLog :
              library' = Put(library, b,
                [owned |-> b \in DOMAIN library /\ library[b].owned,
                 stat |-> {[day |-> today, log |-> log]},
                 progress |-> IF synced THEN {today}
                              ELSE IF b \in DOMAIN library THEN library[b].progress ELSE {}])
        BY <3>2 DEF Read
      <4> DEFINE row == [owned |-> b \in DOMAIN library /\ library[b].owned,
                         stat |-> {[day |-> today, log |-> log]},
                         progress |-> IF synced THEN {today}
                              ELSE IF b \in DOMAIN library THEN library[b].progress ELSE {}]
      <4>2. today \in Stamp /\ library \in Shelf
        BY DEF TypeOK, Day, Stamp
      <4>3. {[day |-> today, log |-> log]} \in Optional(Stat)
        BY <4>2, MaxLogAssumption DEF Optional, Stat
      <4>4. b \in DOMAIN library => library[b].progress \subseteq Stamp /\ library[b].owned \in BOOLEAN
        BY <4>2, ShelfElim DEF Row
      <4>5. row \in Row
        BY <4>2, <4>3, <4>4 DEF Row
      <4>6. Put(library, b, row) \in Shelf
        <5> HIDE DEF row
        <5> QED
          BY <4>2, <4>5, PutType
      <4> QED
        BY <3>2, <4>1, <4>6 DEF Read, TypeOK, record
    <3>3. ASSUME NEW b \in Book, Acquire(b)
          PROVE  (today \in Day /\ library \in Shelf /\ libraryDays \subseteq Day)'
      <4>1. Unread \in Row /\ library \in Shelf
        BY DEF Unread, Row, Optional, TypeOK
      <4>2. CASE b \in DOMAIN library
        <5>1. library' = [library EXCEPT ![b].owned = TRUE]
          BY <3>3, <4>2 DEF Acquire
        <5>2. PICK D \in SUBSET Book : library \in [D -> Row]
          BY <4>1 DEF Shelf
        <5>3. [library[b] EXCEPT !.owned = TRUE] \in Row
          BY <4>2, <5>2 DEF Row
        <5>4. library' \in [D -> Row]
          BY <5>1, <5>2, <5>3
        <5> QED
          BY <3>3, <5>4 DEF Acquire, TypeOK, Shelf, record
      <4>3. CASE b \notin DOMAIN library
        <5>1. library' = Put(library, b, Unread)
          BY <3>3, <4>3 DEF Acquire
        <5>2. library' \in Shelf
          BY <4>1, <5>1, PutType
        <5> QED
          BY <3>3, <5>2 DEF Acquire, TypeOK, record
      <4> QED
        BY <4>2, <4>3
    <3>4. ASSUME NEW b \in Book, GiveAway(b)
          PROVE  (today \in Day /\ library \in Shelf /\ libraryDays \subseteq Day)'
      <4>1. PICK D \in SUBSET Book : library \in [D -> Row]
        BY DEF TypeOK, Shelf
      <4>2. CASE library' = [library EXCEPT ![b].owned = FALSE]
        <5>1. b \in D /\ [library[b] EXCEPT !.owned = FALSE] \in Row
          BY <3>4, <4>1 DEF Row, GiveAway
        <5>2. library' \in [D -> Row]
          BY <4>1, <4>2, <5>1
        <5> QED
          BY <3>4, <5>2 DEF GiveAway, TypeOK, Shelf, record
      <4>3. CASE library' = [c \in DOMAIN library \ {b} |-> library[c]]
        <5>1. library' \in [D \ {b} -> Row]
          BY <4>1, <4>3
        <5> QED
          BY <3>4, <5>1 DEF GiveAway, TypeOK, Shelf, record
      <4> QED
        BY <3>4, <4>2, <4>3 DEF GiveAway
    <3>5. CASE Refresh
      BY <3>5 DEF Refresh, Enforce, sources, TypeOK
    <3>6. ASSUME NEW book \in Optional(Book), NEW line \in Optional(Day), Forget(book, line)
          PROVE  (today \in Day /\ library \in Shelf /\ libraryDays \subseteq Day)'
      BY <3>6 DEF Forget, Enforce, sources, TypeOK
    <3>7. CASE UNCHANGED vars
      BY <3>7 DEF vars, TypeOK
    <3> QED
      BY <3>1, <3>2, <3>3, <3>4, <3>5, <3>6, <3>7 DEF Next
  <2> QED
    BY <2>1, <2>2 DEF TypeOK
<1> QED
  BY <1>1, <1>2, PTL DEF Spec

(***************************************************************************)
(* Safety.                                                                 *)
(***************************************************************************)

\* However often the libraries are read again, no state of an owned book that
\* the reader forgot is in the record.
THEOREM ForgottenAreGoneHolds == Spec => []ForgottenAreGone
<1>1. Init => ForgottenAreGone
  BY DEF Init, ForgottenAreGone, DefaultPolicy
<1>2. ForgottenAreGone /\ TypeOK /\ [Next]_vars => ForgottenAreGone'
  <2> SUFFICES ASSUME ForgottenAreGone, TypeOK, [Next]_vars PROVE ForgottenAreGone'
    OBVIOUS
  <2>1. CASE UNCHANGED record
    BY <2>1 DEF record, ForgottenAreGone
  <2>2. ASSUME NEW shelf \in Shelf, NEW days \in SUBSET Day, NEW p \in Policy,
               Enforce(shelf, days, p)
        PROVE  ForgottenAreGone'
    <3>1. kept' = Prune(shelf, p, today) /\ policy' = p
      BY <2>2 DEF Enforce
    <3> QED
      BY <3>1, PruneForgets DEF ForgottenAreGone
  <2> QED
    BY <2>1, <2>2, StepCases
<1> QED
  BY <1>1, <1>2, TypeCorrect, PTL DEF Spec

\* Applying the recorded policy again, as of the day it was enforced, changes
\* nothing: apply_policy is idempotent and nothing else writes the record.
THEOREM RecordObeysPolicyHolds == Spec => []RecordObeysPolicy
<1>1. Init => RecordObeysPolicy
  BY DEF Init, RecordObeysPolicy
<1>2. RecordObeysPolicy /\ TypeOK /\ [Next]_vars => RecordObeysPolicy'
  <2> SUFFICES ASSUME RecordObeysPolicy, TypeOK, [Next]_vars PROVE RecordObeysPolicy'
    OBVIOUS
  <2>1. CASE UNCHANGED record
    BY <2>1 DEF record, RecordObeysPolicy
  <2>2. ASSUME NEW shelf \in Shelf, NEW days \in SUBSET Day, NEW p \in Policy,
               Enforce(shelf, days, p)
        PROVE  RecordObeysPolicy'
    <3>1. kept' = Prune(shelf, p, today) /\ policy' = p /\ enforcedOn' = {today}
          /\ keptDays' = PruneActivity(days, p, today)
      BY <2>2 DEF Enforce
    <3>2. Prune(kept', p, today) = kept'
      BY <3>1, PruneIdempotent
    <3>3. PruneActivity(keptDays', p, today) = keptDays'
      BY <3>1 DEF PruneActivity
    <3> QED
      BY <3>1, <3>2, <3>3 DEF RecordObeysPolicy
  <2> QED
    BY <2>1, <2>2, StepCases
<1> QED
  BY <1>1, <1>2, TypeCorrect, PTL DEF Spec

\* No command forgets a forget, or moves its line back.
THEOREM ForgetsAreRememberedHolds == Spec => ForgetsAreRemembered
<1> DEFINE A == /\ policy.forgotten \subseteq policy'.forgotten
                /\ \A d \in policy.before : \E e \in policy'.before : e >= d
<1>1. TypeOK /\ [Next]_vars => [A]_vars
  <2> SUFFICES ASSUME TypeOK, [Next]_vars PROVE A
    OBVIOUS
  <2>1. CASE UNCHANGED record
    <3>1. \A d \in policy.before : d >= d
      BY DEF TypeOK, Policy, Optional, Day
    <3> QED
      BY <2>1, <3>1 DEF record
  <2>2. ASSUME NEW shelf, NEW days, NEW p, Enforce(shelf, days, p),
               policy.forgotten \subseteq p.forgotten,
               \A d \in policy.before : \E e \in p.before : e >= d
        PROVE  A
    BY <2>2 DEF Enforce
  <2> QED
    BY <2>1, <2>2, StepCases
<1> QED
  BY <1>1, TypeCorrect, PTL DEF Spec, ForgetsAreRemembered

\* A stat that still has its history still has, in its row, a day the enforced
\* policy retained: no record that obeys its policy shows a history without one.
THEOREM KeptHistoryHasEvidenceHolds == Spec => []KeptHistoryHasEvidence
<1>1. TypeOK /\ RecordObeysPolicy => KeptHistoryHasEvidence
  BY ObeyingRecord DEF TypeOK, RecordObeysPolicy, Obeys, KeptHistoryHasEvidence
<1> QED
  BY <1>1, TypeCorrect, RecordObeysPolicyHolds, PTL

\* Enforcing a policy drops no state but those of forgotten books.  A forget
\* prunes the record itself, in which ForgottenAreGone leaves nothing to drop.
THEOREM HorizonKeepsTheShelfHolds == Spec => HorizonKeepsTheShelf
<1> DEFINE A == policy'.forgotten = policy.forgotten /\ sources' = sources =>
                  \A b \in DOMAIN kept \cap DOMAIN library :
                    (b \in DOMAIN kept' \/ IsForgotten(library, b, policy))
<1>1. TypeOK /\ ForgottenAreGone /\ [Next]_vars => [A]_vars
  <2> SUFFICES ASSUME TypeOK, ForgottenAreGone, [Next]_vars PROVE A
    OBVIOUS
  <2>1. CASE UNCHANGED record
    BY <2>1 DEF record
  <2>2. ASSUME NEW shelf \in Shelf, NEW days \in SUBSET Day, NEW p \in Policy,
               Enforce(shelf, days, p), shelf \in {library, kept}
        PROVE  A
    <3>1. kept' = Prune(shelf, p, today) /\ policy' = p
      BY <2>2 DEF Enforce
    <3>2. \A b \in DOMAIN shelf : b \in DOMAIN kept' \/ IsForgotten(shelf, b, p)
      BY <3>1, PruneType
    <3>3. \A b \in DOMAIN kept : ~IsForgotten(kept, b, policy)
      BY DEF ForgottenAreGone, IsForgotten
    <3> QED
      BY <2>2, <3>1, <3>2, <3>3 DEF IsForgotten
  <2> QED
    BY <2>1, <2>2, StepCases
<1> QED
  BY <1>1, TypeCorrect, ForgottenAreGoneHolds, PTL DEF Spec, HorizonKeepsTheShelf

(***************************************************************************)
(* The interface that StacksCore implements too.                           *)
(***************************************************************************)
Store == INSTANCE RecordStore WITH states <- kept, activity <- keptDays

\* RecordStore prunes as ReadingRecord does.
LEMMA SamePrune ==
    ASSUME NEW shelf, NEW days, NEW p, NEW now
    PROVE  /\ Store!Prune(shelf, p, now) = Prune(shelf, p, now)
           /\ Store!PruneActivity(days, p, now) = PruneActivity(days, p, now)
           /\ Store!CountsSomething(shelf, days, p, now) <=> CountsSomething(shelf, days, p, now)
<1>1. /\ \A cuts, day : Store!Retained(day, cuts) <=> Retained(day, cuts)
      /\ Store!Cutoffs(p, now) = Cutoffs(p, now)
      /\ \A row : Store!Evidence(row) = Evidence(row)
      /\ \A b : Store!IsForgotten(shelf, b, p) <=> IsForgotten(shelf, b, p)
  BY DEF Store!Retained, Retained, Store!Cutoffs, Cutoffs, Store!Evidence, Evidence,
         Store!IsForgotten, IsForgotten
<1>2. \A row, cuts : Store!StatIsStale(row, cuts) <=> StatIsStale(row, cuts)
  BY <1>1 DEF Store!StatIsStale, StatIsStale
<1>3. \A row, cuts : Store!PruneRow(row, cuts) = PruneRow(row, cuts)
  BY DEF Store!PruneRow, PruneRow, Store!StatIsStale, StatIsStale, Store!StripHistory,
         StripHistory, Store!Retained, Retained, Store!Evidence, Evidence
<1>4. Store!Prune(shelf, p, now) = Prune(shelf, p, now)
  BY <1>1, <1>3 DEF Store!Prune, Prune
<1>5. Store!PruneActivity(days, p, now) = PruneActivity(days, p, now)
  BY <1>1 DEF Store!PruneActivity, PruneActivity
<1>6. \A row, cuts : /\ Store!ClearsHistory(row, cuts) <=> ClearsHistory(row, cuts)
                     /\ Store!DropsProgress(row, cuts) <=> DropsProgress(row, cuts)
  BY <1>1, <1>2 DEF Store!ClearsHistory, ClearsHistory, Store!DropsProgress, DropsProgress
<1>7. Store!CountsSomething(shelf, days, p, now) <=> CountsSomething(shelf, days, p, now)
  BY <1>1, <1>5, <1>6 DEF Store!CountsSomething, CountsSomething
<1> QED
  BY <1>4, <1>5, <1>7

\* And over the same sets.
LEMMA SameSets ==
    /\ Store!Day = Day /\ Store!Shelf = Shelf /\ Store!DefaultPolicy = DefaultPolicy
    /\ Store!Optional(Book) = Optional(Book) /\ Store!Optional(Day) = Optional(Day)
    /\ \A p, book, line :
         Store!WithForgottenBefore(Store!WithForgottenBook(p, book), line)
           = WithForgottenBefore(WithForgottenBook(p, book), line)
BY DEF Store!Day, Day, Store!Shelf, Shelf, Store!Row, Row, Store!Stat, Stat,
       Store!Stamp, Stamp, Store!Optional, Optional, Store!DefaultPolicy, DefaultPolicy,
       Store!WithForgottenBefore, WithForgottenBefore,
       Store!WithForgottenBook, WithForgottenBook

\* The record of the libraries, day by day, is one that RecordStore allows: what the
\* sources do is nothing to it, and each command is one of its two steps.
THEOREM ImplementsRecordStore == Spec => Store!Spec
<1>1. Init => Store!Init
  BY SameSets DEF Init, Store!Init
<1>2. TypeOK /\ [Next]_vars => [Store!Next]_Store!vars
  <2> SUFFICES ASSUME TypeOK, [Next]_vars PROVE Store!Next \/ UNCHANGED Store!vars
    OBVIOUS
  <2>1. /\ today \in Day /\ kept \in Shelf /\ keptDays \in SUBSET Day
        /\ library \in Shelf /\ libraryDays \in SUBSET Day
    BY DEF TypeOK
  <2>2. CASE Refresh
    <3>1. PICK h \in Horizons : Enforce(library, libraryDays, [policy EXCEPT !.horizon = h])
      BY <2>2 DEF Refresh
    <3> DEFINE p == [policy EXCEPT !.horizon = h]
    <3>2. /\ kept' = Prune(library, p, today) /\ keptDays' = PruneActivity(libraryDays, p, today)
          /\ policy' = p /\ enforcedOn' = {today}
      BY <3>1 DEF Enforce
    <3>3. /\ Prune(kept', policy', today) = kept' /\ kept' \in Shelf
          /\ PruneActivity(keptDays', policy', today) = keptDays' /\ keptDays' \subseteq Day
      BY <2>1, <3>2, PrunedObeys, PruneType, PruneActivityType DEF Obeys
    <3>4. Store!Ingest(h, today)
      BY <3>2, <3>3, SamePrune, SameSets DEF Store!Ingest
    <3> QED
      BY <2>1, <3>2, <3>4, SameSets DEF Store!Next
  <2>3. ASSUME NEW book \in Optional(Book), NEW line \in Optional(Day), Forget(book, line)
        PROVE  Store!Next
    <3>1. Store!Forget(book, line, today) /\ enforcedOn' = {today}
      BY <2>3, SamePrune, SameSets DEF Forget, Enforce, Store!Forget
    <3> QED
      BY <2>1, <3>1, SameSets DEF Store!Next
  <2>4. CASE Midnight \/ UNCHANGED vars
    BY <2>4 DEF Midnight, vars, record, Store!vars
  <2>5. ASSUME NEW b \in Book, Read(b) \/ Acquire(b) \/ GiveAway(b)
        PROVE  UNCHANGED Store!vars
    BY <2>5 DEF Read, Acquire, GiveAway, record, Store!vars
  <2> QED
    BY <2>2, <2>3, <2>4, <2>5 DEF Next
<1> QED
  BY <1>1, <1>2, TypeCorrect, PTL DEF Spec, Store!Spec

(***************************************************************************)
(* The sources.                                                            *)
(***************************************************************************)
KOReaderRow == [doc: Doc \cup {NoDoc}, title: Title, place: Place]
Volume == [place: Place, opened: BOOLEAN]
Answer == [place: Place, at: Time]
Link == [user: User \cup {Nobody}, book: Bid, started: Time \cup {0},
         status: {"unread", "reading", "finished"}, modified: Time]
Sync == [user: User \cup {Nobody}, book: Bid, percent: Place \cup {None},
         spent: BOOLEAN, modified: Time]

\* A user has one row for a book.
OneEach(rows) == \A r, s \in rows : r.user = s.user /\ r.book = s.book => r = s

\* The sources are typed and finite, KOReader's rows of an md5 have its title, a volume
\* with a place was opened, and no user has two rows for a book.
SourcesInv ==
    /\ catalog \in Partial(Bid, Title) /\ IsFiniteSet(DOMAIN catalog)
    /\ koreader \in Seq(KOReaderRow)
    /\ \A i \in DOMAIN koreader :
          koreader[i].doc # NoDoc => koreader[i].title = TitleOf[koreader[i].doc]
    /\ kobo \in Partial(Title, Volume) /\ IsFiniteSet(DOMAIN kobo)
    /\ \A t \in DOMAIN kobo : kobo[t].place > 0 => kobo[t].opened
    /\ remote \in Partial(Doc, Answer)
    /\ accounts \subseteq User
    /\ links \subseteq Link /\ IsFiniteSet(links) /\ OneEach(links)
    /\ syncs \subseteq Sync /\ IsFiniteSet(syncs) /\ OneEach(syncs)

\* A map of some of D to members of S is such a function.
LEMMA PartialElim ==
    ASSUME NEW D, NEW S, NEW f \in Partial(D, S)
    PROVE  /\ f = [x \in DOMAIN f |-> f[x]]
           /\ DOMAIN f \subseteq D
           /\ \A x \in DOMAIN f : f[x] \in S
<1>1. PICK E \in SUBSET D : f \in [E -> S]
  BY DEF Partial
<1> QED
  BY <1>1

\* And such a function is one.
LEMMA PartialIntro ==
    ASSUME NEW D, NEW S, NEW f, f = [x \in DOMAIN f |-> f[x]],
           DOMAIN f \subseteq D, \A x \in DOMAIN f : f[x] \in S
    PROVE  f \in Partial(D, S)
<1>1. f \in [DOMAIN f -> S]
  OBVIOUS
<1> QED
  BY <1>1 DEF Partial

\* It stays one without an entry.
LEMMA PartialLess ==
    ASSUME NEW D, NEW S, NEW f \in Partial(D, S), NEW x
    PROVE  /\ Without(f, x) \in Partial(D, S)
           /\ DOMAIN Without(f, x) = DOMAIN f \ {x}
           /\ IsFiniteSet(DOMAIN f) => IsFiniteSet(DOMAIN Without(f, x))
<1> DEFINE g == Without(f, x)
<1>1. DOMAIN f \subseteq D /\ \A y \in DOMAIN f : f[y] \in S
  BY PartialElim
<1>2. g = [y \in DOMAIN g |-> g[y]] /\ DOMAIN g = DOMAIN f \ {x}
      /\ \A y \in DOMAIN g : g[y] = f[y]
  BY DEF Without
<1> HIDE DEF g
<1>3. g \in Partial(D, S)
  BY <1>1, <1>2, PartialIntro
<1>4. IsFiniteSet(DOMAIN f) => IsFiniteSet(DOMAIN g)
  BY <1>2, FS_Subset
<1> QED
  BY <1>2, <1>3, <1>4 DEF g

\* And with one more.
LEMMA PartialMore ==
    ASSUME NEW D, NEW S, NEW f \in Partial(D, S), NEW x \in D, NEW v \in S
    PROVE  /\ With(f, x, v) \in Partial(D, S)
           /\ DOMAIN With(f, x, v) = DOMAIN f \cup {x}
           /\ \A y \in DOMAIN With(f, x, v) : With(f, x, v)[y] = IF y = x THEN v ELSE f[y]
           /\ IsFiniteSet(DOMAIN f) => IsFiniteSet(DOMAIN With(f, x, v))
<1> DEFINE g == With(f, x, v)
<1>1. DOMAIN f \subseteq D /\ \A y \in DOMAIN f : f[y] \in S
  BY PartialElim
<1>2. g = [y \in DOMAIN g |-> g[y]] /\ DOMAIN g = DOMAIN f \cup {x}
      /\ \A y \in DOMAIN g : g[y] = IF y = x THEN v ELSE f[y]
  BY DEF With
<1> HIDE DEF g
<1>3. g \in Partial(D, S)
  BY <1>1, <1>2, PartialIntro
<1>4. IsFiniteSet(DOMAIN f) => IsFiniteSet(DOMAIN g)
  BY <1>2, FS_AddElement
<1> QED
  BY <1>2, <1>3, <1>4 DEF g

\* A user's row for a book replaces the one there was.
LEMMA RowReplaced ==
    ASSUME NEW T, NEW rows \in SUBSET T, IsFiniteSet(rows), OneEach(rows), NEW r \in T
    PROVE  LET next == Others(rows, r.user, r.book) \cup {r}
           IN  next \subseteq T /\ IsFiniteSet(next) /\ OneEach(next)
<1> DEFINE rest == Others(rows, r.user, r.book)
<1>1. rest \subseteq rows /\ \A s \in rest : s.user # r.user \/ s.book # r.book
  BY DEF Others
<1> HIDE DEF rest
<1>2. IsFiniteSet(rest)
  BY <1>1, FS_Subset
<1>3. IsFiniteSet(rest \cup {r})
  BY <1>2, FS_AddElement
<1>4. OneEach(rest \cup {r})
  BY <1>1 DEF OneEach
<1> QED
  BY <1>1, <1>3, <1>4 DEF rest

\* When a row was started is a time, or 0 for a row that is not there.
LEMMA StartedType ==
    ASSUME SourcesInv, NEW u, NEW b
    PROVE  Started(u, b) \in Time \cup {0}
<1> DEFINE r == {l \in links : l.user = u /\ l.book = b}
<1>1. CASE r = {}
  BY <1>1 DEF Started
<1>2. CASE r # {}
  <2>1. (CHOOSE l \in r : TRUE) \in Link
    BY <1>2 DEF SourcesInv
  <2> QED
    BY <1>2, <2>1 DEF Started, Link
<1> QED
  BY <1>1, <1>2

\* Whatever the devices, the servers and the reader do leaves the sources so.
THEOREM SourcesCorrect == LibrarySpec => []SourcesInv
<1>1. LibraryInit => SourcesInv
  <2> SUFFICES ASSUME LibraryInit PROVE SourcesInv
    OBVIOUS
  <2>1. catalog \in Partial(Bid, Title) /\ IsFiniteSet(DOMAIN catalog)
    BY ShelvesAssumption DEF LibraryInit
  <2>2. koreader = <<>> /\ kobo = <<>> /\ remote = <<>> /\ links = {} /\ syncs = {}
    BY DEF LibraryInit
  <2>3. <<>> = [x \in DOMAIN <<>> |-> <<>>[x]] /\ DOMAIN <<>> = {}
    OBVIOUS
  <2>4. \A D, S : <<>> \in Partial(D, S)
    BY <2>3, PartialIntro
  <2> QED
    <3>1. catalog \in Partial(Bid, Title)
      BY <2>1
    <3>2. kobo \in Partial(Title, Volume) /\ remote \in Partial(Doc, Answer)
      BY <2>2, <2>4
    <3>3. DOMAIN kobo = {} /\ DOMAIN koreader = {} /\ koreader \in Seq(KOReaderRow)
      BY <2>2
    <3>4. accounts \subseteq User
      BY DEF LibraryInit
    <3> QED
      BY <2>1, <2>2, <3>1, <3>2, <3>3, <3>4, FS_EmptySet DEF SourcesInv, OneEach
<1>2. SourcesInv /\ [LibraryNext]_libraryVars => SourcesInv'
  <2> SUFFICES ASSUME SourcesInv, [LibraryNext]_libraryVars PROVE SourcesInv'
    OBVIOUS
  <2>1. ASSUME NEW b \in Bid, EditCatalog(b) PROVE SourcesInv'
    <3>1. catalog \in Partial(Bid, Title) /\ IsFiniteSet(DOMAIN catalog)
      BY DEF SourcesInv
    <3>2. catalog' = Without(catalog, b) \/ \E t \in Title : catalog' = With(catalog, b, t)
      BY <2>1 DEF EditCatalog
    <3>3. catalog' \in Partial(Bid, Title) /\ IsFiniteSet(DOMAIN catalog')
      <4>1. CASE catalog' = Without(catalog, b)
        BY <3>1, <4>1, PartialLess
      <4>2. ASSUME NEW t \in Title, catalog' = With(catalog, b, t)
            PROVE  catalog' \in Partial(Bid, Title) /\ IsFiniteSet(DOMAIN catalog')
        BY <3>1, <4>2, PartialMore
      <4> QED
        BY <3>2, <4>1, <4>2
    <3> QED
      BY <2>1, <3>3 DEF EditCatalog, SourcesInv
  <2>2. ASSUME NEW d \in Doc \cup {NoDoc}, NEW t \in Title, ReadOnKOReader(d, t)
        PROVE  SourcesInv'
    <3>1. PICK p \in Place :
            LET row == [doc |-> d, title |-> t, place |-> p]
                at == {i \in DOMAIN koreader : koreader[i].doc = d /\ koreader[i].title = t}
            IN  koreader' = IF at = {} THEN Append(koreader, row)
                            ELSE [i \in DOMAIN koreader |-> IF i \in at THEN row ELSE koreader[i]]
      BY <2>2 DEF ReadOnKOReader
    <3> DEFINE row == [doc |-> d, title |-> t, place |-> p]
               at == {i \in DOMAIN koreader : koreader[i].doc = d /\ koreader[i].title = t}
    <3>2. row \in KOReaderRow /\ (row.doc # NoDoc => row.title = TitleOf[row.doc])
      BY <2>2 DEF KOReaderRow, ReadOnKOReader
    <3>3. koreader \in Seq(KOReaderRow)
          /\ \A i \in DOMAIN koreader :
                koreader[i].doc # NoDoc => koreader[i].title = TitleOf[koreader[i].doc]
      BY DEF SourcesInv
    <3> HIDE DEF row, at
    <3>4. koreader' \in Seq(KOReaderRow)
          /\ \A i \in DOMAIN koreader' :
                koreader'[i].doc # NoDoc => koreader'[i].title = TitleOf[koreader'[i].doc]
      <4>1. CASE at = {}
        <5>1. koreader' = Append(koreader, row)
          BY <3>1, <4>1 DEF at, row
        <5> QED
          BY <3>2, <3>3, <5>1
      <4>2. CASE at # {}
        <5>1. koreader' = [i \in DOMAIN koreader |-> IF i \in at THEN row ELSE koreader[i]]
          BY <3>1, <4>2 DEF at, row
        <5> QED
          BY <3>2, <3>3, <5>1
      <4> QED
        BY <4>1, <4>2
    <3> QED
      BY <2>2, <3>4 DEF ReadOnKOReader, SourcesInv
  <2>3. ASSUME NEW t \in Title, CopyToKobo(t) \/ ReadOnKobo(t) PROVE SourcesInv'
    <3>0. /\ kobo \in Partial(Title, Volume) /\ IsFiniteSet(DOMAIN kobo)
          /\ \A x \in DOMAIN kobo : kobo[x].place > 0 => kobo[x].opened
      BY DEF SourcesInv
    <3>1. /\ kobo' \in Partial(Title, Volume) /\ IsFiniteSet(DOMAIN kobo')
          /\ \A x \in DOMAIN kobo' : kobo'[x].place > 0 => kobo'[x].opened
      <4>1. CASE CopyToKobo(t)
        <5> DEFINE v == [place |-> 0, opened |-> FALSE]
        <5>1. v \in Volume /\ kobo' = With(kobo, t, v) /\ ~(v.place > 0)
          BY <4>1 DEF CopyToKobo, Place, Finished, Volume
        <5> HIDE DEF v
        <5>2. /\ kobo' \in Partial(Title, Volume) /\ IsFiniteSet(DOMAIN kobo')
              /\ DOMAIN kobo' = DOMAIN kobo \cup {t}
              /\ \A y \in DOMAIN kobo' : kobo'[y] = IF y = t THEN v ELSE kobo[y]
          BY <3>0, <5>1, PartialMore
        <5> QED
          BY <3>0, <5>1, <5>2
      <4>2. CASE ReadOnKobo(t)
        <5>1. PICK p \in Place : kobo' = [kobo EXCEPT ![t] = [place |-> p, opened |-> TRUE]]
          BY <4>2 DEF ReadOnKobo
        <5>2. /\ DOMAIN kobo' = DOMAIN kobo /\ kobo' = [x \in DOMAIN kobo' |-> kobo'[x]]
              /\ \A x \in DOMAIN kobo' : kobo'[x] = IF x = t THEN [place |-> p, opened |-> TRUE]
                                                    ELSE kobo[x]
          BY <5>1
        <5>3. DOMAIN kobo \subseteq Title /\ \A x \in DOMAIN kobo : kobo[x] \in Volume
          BY <3>0, PartialElim
        <5>4. [place |-> p, opened |-> TRUE] \in Volume
          BY DEF Volume
        <5>5. kobo' \in Partial(Title, Volume)
          BY <5>2, <5>3, <5>4, PartialIntro
        <5> QED
          BY <3>0, <5>2, <5>5
      <4> QED
        BY <2>3, <4>1, <4>2
    <3> QED
      BY <2>3, <3>1 DEF CopyToKobo, ReadOnKobo, SourcesInv
  <2>4. ASSUME NEW d \in Doc, SyncKOReader(d) PROVE SourcesInv'
    <3>1. PICK p \in Place, w \in Time : remote' = With(remote, d, [place |-> p, at |-> w])
      BY <2>4 DEF SyncKOReader
    <3>2. remote' \in Partial(Doc, Answer)
      <4>1. remote \in Partial(Doc, Answer) /\ [place |-> p, at |-> w] \in Answer
        BY DEF SourcesInv, Answer
      <4> QED
        BY <3>1, <4>1, PartialMore
    <3> QED
      BY <2>4, <3>2 DEF SyncKOReader, SourcesInv
  <2>5. ASSUME NEW u \in accounts \cup {Nobody}, NEW b \in Bid, NEW w \in Time,
               NEW status \in {"reading", "finished"}, MarkRead(u, b, status, w)
        PROVE  SourcesInv'
    <3> DEFINE l == [user |-> u, book |-> b, status |-> status, modified |-> w,
                     started |-> IF status = "reading" THEN w ELSE Started(u, b)]
    <3>1. l \in Link /\ l.user = u /\ l.book = b
      BY <2>5, StartedType DEF Link, SourcesInv
    <3>2. links' = Others(links, u, b) \cup {l}
      BY <2>5 DEF MarkRead
    <3> HIDE DEF l
    <3>3. links' \subseteq Link /\ IsFiniteSet(links') /\ OneEach(links')
      BY <3>1, <3>2, RowReplaced DEF SourcesInv
    <3> QED
      BY <2>5, <3>3 DEF MarkRead, SourcesInv
  <2>6. ASSUME NEW u \in accounts \cup {Nobody}, NEW b \in Bid, NEW w \in Time,
               NEW p \in Place \cup {None}, NEW spent \in BOOLEAN,
               SyncKobo(u, b, p, spent, w)
        PROVE  SourcesInv'
    <3> DEFINE status == IF p = Finished THEN "finished" ELSE "reading"
               l == [user |-> u, book |-> b, status |-> status, modified |-> w,
                     started |-> IF status = "reading" THEN w ELSE Started(u, b)]
               s == [user |-> u, book |-> b, percent |-> p, spent |-> spent, modified |-> w]
    <3>1. l \in Link /\ l.user = u /\ l.book = b /\ s \in Sync /\ s.user = u /\ s.book = b
      BY <2>6, StartedType DEF Link, Sync, SourcesInv
    <3>2. links' = Others(links, u, b) \cup {l} /\ syncs' = Others(syncs, u, b) \cup {s}
      BY <2>6 DEF SyncKobo
    <3> HIDE DEF l, s
    <3>3. /\ links' \subseteq Link /\ IsFiniteSet(links') /\ OneEach(links')
          /\ syncs' \subseteq Sync /\ IsFiniteSet(syncs') /\ OneEach(syncs')
      BY <3>1, <3>2, RowReplaced DEF SourcesInv
    <3> QED
      BY <2>6, <3>3 DEF SyncKobo, SourcesInv
  <2>7. ASSUME NEW u \in User, DeleteUser(u) PROVE SourcesInv'
    <3>1. links' \in SUBSET links /\ syncs' \in SUBSET syncs
      BY <2>7 DEF DeleteUser
    <3>2. IsFiniteSet(links') /\ IsFiniteSet(syncs')
      BY <3>1, FS_Subset DEF SourcesInv
    <3> QED
      BY <2>7, <3>1, <3>2 DEF DeleteUser, SourcesInv, OneEach
  <2>8. CASE NameReader
    BY <2>8 DEF NameReader, SourcesInv
  <2>9. CASE UNCHANGED libraryVars
    BY <2>9 DEF libraryVars, SourcesInv
  <2> QED
    <3>1. None \in Place \cup {None} /\ 1 \in Place \cup {None} /\ Finished \in Place \cup {None}
      BY DEF Place, Finished
    <3>2. CASE \E u \in accounts \cup {Nobody}, b \in Bid, w \in Time :
                 \/ \E status \in {"reading", "finished"} : MarkRead(u, b, status, w)
                 \/ \E spent \in BOOLEAN : SyncKobo(u, b, None, spent, w)
                 \/ \E p \in {1, Finished} : SyncKobo(u, b, p, TRUE, w)
      BY <2>5, <2>6, <3>1, <3>2
    <3> QED
      BY <2>1, <2>2, <2>3, <2>4, <2>7, <2>8, <2>9, <3>2 DEF LibraryNext
<1> QED
  BY <1>1, <1>2, PTL DEF LibrarySpec

(***************************************************************************)
(* Listings.                                                               *)
(***************************************************************************)
LEMMA AscendingLists ==
    ASSUME NEW S \in SUBSET Int, IsFiniteSet(S)
    PROVE  Ascending(S) \in SetToSeqs(S)
BY Increasing DEF Ascending, Sorted

\* The books are listed by title, and by id where they share one.
LEMMA BooksListed ==
    ASSUME SourcesInv
    PROVE  Books \in SetToSeqs(DOMAIN catalog)
<1> DEFINE S == DOMAIN catalog
           before(b, c) == catalog[b] < catalog[c] \/ (catalog[b] = catalog[c] /\ b < c)
           R == {p \in S \X S : p[1] = p[2] \/ before(p[1], p[2])}
<1>1. \A x, y \in S : <<x, y>> \in R <=> x = y \/ before(x, y)
  OBVIOUS
<1>2. \A b \in S : b \in Int /\ catalog[b] \in Int
  <2>1. catalog \in Partial(Bid, Title)
    BY DEF SourcesInv
  <2> QED
    BY <2>1, PartialElim, TitleAssumption
<1>3. Orders(R, S)
  <2>1. \A x, y \in S : before(x, y) \/ before(y, x) \/ x = y
    BY <1>2
  <2>2. \A x, y, z \in S : before(x, y) /\ before(y, z) => before(x, z)
    BY <1>2
  <2> HIDE DEF R, before, S
  <2> QED
    BY <1>1, <2>1, <2>2 DEF Orders
<1>4. IsFiniteSet(S)
  BY DEF SourcesInv
<1>5. PICK s \in SetToSeqs(S) : InOrder(s, R)
  <2> HIDE DEF R, S
  <2> QED
    BY <1>3, <1>4, ListedInOrder
<1>6. \A i, j \in DOMAIN s : i < j => before(s[i], s[j])
  <2> SUFFICES ASSUME NEW i \in DOMAIN s, NEW j \in DOMAIN s, i < j PROVE before(s[i], s[j])
    OBVIOUS
  <2> HIDE DEF R, before, S
  <2>1. s[i] \in S /\ s[j] \in S /\ s[i] # s[j]
    <3>1. DOMAIN s = 1..Cardinality(S) /\ Cardinality(S) \in Nat
      BY <1>4, ListingIsBijective
    <3> QED
      BY <1>4, <3>1, ListingIsBijective
  <2>2. <<s[i], s[j]>> \in R
    BY <1>5 DEF InOrder
  <2> QED
    BY <1>1, <2>1, <2>2
<1> QED
  BY <1>5, <1>6 DEF Books, Sorted

\* The stats of the reader's rows come from these.
RowsOf(u) ==
    {r \in {WebRow(syncs, u, l) : l \in {m \in Scoped(links, u) : m.book \in DOMAIN catalog}} :
        Emitted(r.percent, r.spent)}

\* The rows that are emitted are finitely many, and listed by their books.
LEMMA RowsListed ==
    ASSUME SourcesInv, NEW u
    PROVE  IsFiniteSet(RowsOf(u)) /\ WebRows(links, syncs, u) \in SetToSeqs(RowsOf(u))
<1> DEFINE L == {m \in Scoped(links, u) : m.book \in DOMAIN catalog}
           all == {WebRow(syncs, u, l) : l \in L}
           S == RowsOf(u)
           R == {p \in S \X S : p[1].book <= p[2].book}
<1>1. IsFiniteSet(L)
  <2>1. L \subseteq links
    BY DEF Scoped
  <2> QED
    BY <2>1, FS_Subset DEF SourcesInv
<1>2. IsFiniteSet(all)
  <2> DEFINE f == [l \in L |-> WebRow(syncs, u, l)]
  <2>1. f \in Surjection(L, all)
    BY DEF Surjection
  <2> HIDE DEF f, L, all
  <2> QED
    BY <1>1, <2>1, FS_Surjection
<1>3. S \subseteq all
  BY DEF RowsOf
<1>4. IsFiniteSet(S)
  <2> HIDE DEF S, all
  <2> QED
    BY <1>2, <1>3, FS_Subset
<1>5. \A r \in S : r.book \in Int
  <2>1. \A l \in L : l.book \in Int
    <3>1. links \subseteq Link
      BY DEF SourcesInv
    <3>2. \A l \in Link : l.book \in Bid
      BY DEF Link
    <3>3. L \subseteq links
      BY DEF Scoped
    <3>4. Bid \subseteq Int
      BY TitleAssumption
    <3> HIDE DEF L
    <3>5. \A l \in L : l.book \in Bid
      BY <3>1, <3>2, <3>3
    <3> QED
      BY <3>4, <3>5
  <2>2. \A l \in L : WebRow(syncs, u, l).book = l.book
    BY DEF WebRow
  <2> HIDE DEF L
  <2> QED
    BY <1>3, <2>1, <2>2
<1>6. \A x, y \in S : <<x, y>> \in R <=> x.book <= y.book
  OBVIOUS
<1> HIDE DEF S, R
<1>7. Orders(R, S)
  BY <1>5, <1>6 DEF Orders
<1>8. PICK s \in SetToSeqs(S) : InOrder(s, R)
  BY <1>4, <1>7, ListedInOrder
<1>9. \A i, j \in DOMAIN s : i < j => s[i].book <= s[j].book
  <2> SUFFICES ASSUME NEW i \in DOMAIN s, NEW j \in DOMAIN s, i < j
               PROVE  s[i].book <= s[j].book
    OBVIOUS
  <2>1. s[i] \in S /\ s[j] \in S
    BY <1>4, ListingIsBijective
  <2>2. <<s[i], s[j]>> \in R
    BY <1>8 DEF InOrder
  <2> QED
    BY <1>6, <2>1, <2>2
<1>10. WebRows(links, syncs, u) = Sorted(S, LAMBDA p, q : p.book <= q.book)
  BY DEF WebRows, RowsOf, S
<1> QED
  BY <1>4, <1>8, <1>9, <1>10 DEF Sorted, S

\* A finite set has some listing.
LEMMA OneListing ==
    ASSUME NEW S, IsFiniteSet(S)
    PROVE  SetToSeq(S) \in SetToSeqs(S)
<1>1. Orders(S \X S, S)
  BY DEF Orders
<1>2. PICK s \in SetToSeqs(S) : TRUE
  BY <1>1, ListedInOrder
<1>3. s \in [1..Cardinality(S) -> S] /\ \A i, j \in 1..Cardinality(S) : i # j => s[i] # s[j]
  BY <1>2 DEF SetToSeqs
<1>4. IsInjective(s)
  BY <1>3 DEF IsInjective
<1>5. SetToSeq(S) \in [1..Cardinality(S) -> S] /\ IsInjective(SetToSeq(S))
  BY <1>3, <1>4 DEF SetToSeq
<1> QED
  BY <1>5 DEF SetToSeqs, IsInjective

(***************************************************************************)
(* The stats.                                                              *)
(***************************************************************************)
LEMMA Concat ==
    ASSUME NEW S, NEW s \in Seq(S), NEW t \in Seq(S)
    PROVE  /\ s \o t \in Seq(S)
           /\ DOMAIN (s \o t) = 1..(Len(s) + Len(t))
           /\ Len(s) \in Nat /\ Len(t) \in Nat
           /\ DOMAIN s = 1..Len(s) /\ DOMAIN t = 1..Len(t)
           /\ \A i \in 1..Len(s) : (s \o t)[i] = s[i]
           /\ \A i \in 1..Len(t) : (s \o t)[Len(s) + i] = t[i]
           /\ \A i \in 1..(Len(s) + Len(t)) : i > Len(s) =>
                 i - Len(s) \in 1..Len(t) /\ (s \o t)[i] = t[i - Len(s)]
OBVIOUS

\* The largest of finitely many numbers.
LEMMA LatestIs ==
    ASSUME NEW S \in SUBSET Int, IsFiniteSet(S), S # {}
    PROVE  Latest(S) \in S /\ \A m \in S : m <= Latest(S)
BY LargestOf DEF Latest

\* And the smallest.
LEMMA FirstIs ==
    ASSUME NEW S \in SUBSET Int, IsFiniteSet(S), S # {}
    PROVE  First(S) \in S /\ \A m \in S : First(S) <= m
BY SmallestOf DEF First

IsKOReaderRow(row) == row \in KOReaderRow /\ (row.doc # NoDoc => row.title = TitleOf[row.doc])

\* The device stats are those of KOReader's rows and of the Kobo's volumes.
FromKOReader(stat) == \E j \in DOMAIN koreader : stat = ReadStats(koreader[j])
FromKobo(stat) == \E t \in DOMAIN kobo : stat = KoboStat(t)

\* What a row of KOReader's becomes.
LEMMA ReadStatsType ==
    ASSUME SourcesInv
    PROVE  \A j \in DOMAIN koreader :
              ReadStats(koreader[j]) \in ReadingStat /\ IsKOReaderRow(koreader[j])
<1> SUFFICES ASSUME NEW j \in DOMAIN koreader
             PROVE  ReadStats(koreader[j]) \in ReadingStat /\ IsKOReaderRow(koreader[j])
  OBVIOUS
<1> DEFINE row == koreader[j]
<1>1. row \in KOReaderRow /\ (row.doc # NoDoc => row.title = TitleOf[row.doc])
  <2>1. koreader \in Seq(KOReaderRow)
    BY DEF SourcesInv
  <2>2. koreader[j] \in KOReaderRow
    BY <2>1
  <2> QED
    BY <2>2 DEF SourcesInv
<1> HIDE DEF row
<1>2. row.doc \in Doc \cup {NoDoc} /\ row.title \in Title /\ row.place \in Place
  BY <1>1 DEF KOReaderRow
<1>3. KeyOf[row.title] \in Key
  BY <1>2 DEF Key
<1>4. ReadStats(row) \in ReadingStat
  BY <1>2, <1>3 DEF ReadStats, ReadingStat
<1> QED
  BY <1>1, <1>4 DEF row, IsKOReaderRow

\* What a volume of the Kobo becomes.
LEMMA KoboStatType ==
    ASSUME SourcesInv, NEW t \in DOMAIN kobo
    PROVE  /\ t \in Title /\ kobo[t] \in Volume
           /\ KoboStat(t) \in ReadingStat
           /\ kobo[t].place > 0 => kobo[t].opened
<1>1. t \in Title /\ kobo[t] \in Volume
  <2>1. kobo \in Partial(Title, Volume)
    BY DEF SourcesInv
  <2> QED
    BY <2>1, PartialElim
<1>2. kobo[t].place \in Place /\ kobo[t].opened \in BOOLEAN /\ KeyOf[t] \in Key
  BY <1>1 DEF Volume, Key
<1>3. (kobo[t].place > 0) \in BOOLEAN
  OBVIOUS
<1>4. KoboStat(t) \in ReadingStat
  BY <1>1, <1>2, <1>3 DEF KoboStat, ReadingStat
<1> QED
  BY <1>1, <1>4 DEF SourcesInv

\* Nothing else is a device stat, and none of these is left out.
LEMMA DeviceStatsAre ==
    ASSUME SourcesInv
    PROVE  /\ DeviceStats \in Seq(ReadingStat)
           /\ \A i \in DOMAIN DeviceStats :
                 FromKOReader(DeviceStats[i]) \/ FromKobo(DeviceStats[i])
           /\ \A j \in DOMAIN koreader : \E i \in DOMAIN DeviceStats :
                 DeviceStats[i] = ReadStats(koreader[j])
           /\ \A t \in DOMAIN kobo : \E i \in DOMAIN DeviceStats :
                 DeviceStats[i] = KoboStat(t)
<1> DEFINE K == [i \in DOMAIN koreader |-> ReadStats(koreader[i])]
           S == DOMAIN kobo
           titles == Ascending(S)
<1>1. K \in Seq(ReadingStat) /\ DOMAIN K = DOMAIN koreader
  <2>1. koreader \in Seq(KOReaderRow)
    BY DEF SourcesInv
  <2>2. \A j \in DOMAIN koreader : ReadStats(koreader[j]) \in ReadingStat
    BY ReadStatsType
  <2> QED
    BY <2>1, <2>2
<1>2. titles \in SetToSeqs(S) /\ IsFiniteSet(S)
  <2>1. S \in SUBSET Int /\ IsFiniteSet(S)
    <3>1. kobo \in Partial(Title, Volume) /\ IsFiniteSet(DOMAIN kobo)
      BY DEF SourcesInv
    <3>2. DOMAIN kobo \subseteq Title
      BY <3>1, PartialElim
    <3> QED
      BY <3>1, <3>2, TitleAssumption
  <2> HIDE DEF S
  <2> QED
    BY <2>1, AscendingLists
<1>3. /\ titles \in Seq(S)
      /\ \A i \in DOMAIN titles : titles[i] \in S
      /\ \A t \in S : \E i \in DOMAIN titles : titles[i] = t
  <2> HIDE DEF S, titles
  <2> QED
    BY <1>2, ListingIsBijective
<1>4. /\ KoboStats \in Seq(ReadingStat) /\ DOMAIN KoboStats = DOMAIN titles
      /\ \A i \in DOMAIN titles : KoboStats[i] = KoboStat(titles[i])
  <2>1. KoboStats = [i \in DOMAIN titles |-> KoboStat(titles[i])]
    BY DEF KoboStats
  <2>2. \A t \in S : KoboStat(t) \in ReadingStat
    BY KoboStatType
  <2>3. \A i \in DOMAIN titles : KoboStat(titles[i]) \in ReadingStat
    BY <1>3, <2>2
  <2> HIDE DEF S, titles
  <2> QED
    BY <1>3, <2>1, <2>3
<1>5. DeviceStats = K \o KoboStats
  BY DEF DeviceStats
<1>6. \A i \in DOMAIN K : K[i] = ReadStats(koreader[i])
  OBVIOUS
<1> HIDE DEF K, titles
<1>7. /\ DeviceStats \in Seq(ReadingStat)
      /\ DOMAIN DeviceStats = 1..(Len(K) + Len(KoboStats))
      /\ Len(K) \in Nat /\ Len(KoboStats) \in Nat
      /\ DOMAIN K = 1..Len(K) /\ DOMAIN KoboStats = 1..Len(KoboStats)
      /\ \A i \in 1..Len(K) : DeviceStats[i] = K[i]
      /\ \A i \in 1..Len(KoboStats) : DeviceStats[Len(K) + i] = KoboStats[i]
      /\ \A i \in 1..(Len(K) + Len(KoboStats)) : i > Len(K) =>
            i - Len(K) \in 1..Len(KoboStats) /\ DeviceStats[i] = KoboStats[i - Len(K)]
  BY <1>1, <1>4, <1>5, Concat
<1>8. ASSUME NEW i \in DOMAIN DeviceStats
      PROVE  FromKOReader(DeviceStats[i]) \/ FromKobo(DeviceStats[i])
  <2>1. CASE i <= Len(K)
    <3>1. i \in DOMAIN K /\ DeviceStats[i] = K[i]
      BY <1>7, <2>1
    <3> QED
      BY <1>1, <1>6, <3>1 DEF FromKOReader
  <2>2. CASE i > Len(K)
    <3>1. i - Len(K) \in DOMAIN KoboStats /\ DeviceStats[i] = KoboStats[i - Len(K)]
      BY <1>7, <2>2
    <3> QED
      BY <1>3, <1>4, <3>1 DEF FromKobo
  <2> QED
    BY <1>7, <2>1, <2>2
<1>9. ASSUME NEW j \in DOMAIN koreader
      PROVE  \E i \in DOMAIN DeviceStats : DeviceStats[i] = ReadStats(koreader[j])
  <2>1. j \in 1..Len(K) /\ j \in DOMAIN DeviceStats
    BY <1>1, <1>7
  <2> QED
    BY <1>1, <1>6, <1>7, <2>1
<1>10. ASSUME NEW t \in DOMAIN kobo
       PROVE  \E i \in DOMAIN DeviceStats : DeviceStats[i] = KoboStat(t)
  <2>1. PICK j \in DOMAIN titles : titles[j] = t
    BY <1>3
  <2>2. j \in 1..Len(KoboStats) /\ KoboStats[j] = KoboStat(t)
    BY <1>4, <1>7, <2>1
  <2>3. Len(K) + j \in DOMAIN DeviceStats
    BY <1>7, <2>2
  <2> QED
    BY <1>7, <2>2, <2>3
<1> QED
  BY <1>7, <1>8, <1>9, <1>10

WebRowType == [book: Bid, title: Title, percent: Place \cup {None}, spent: BOOLEAN,
               started: Time \cup {0}, at: 0..MaxTime]

\* What a Kobo synced for a reader's book is the one row there is.
LEMMA SyncByBookIs ==
    ASSUME SourcesInv, NEW u, NEW b
    PROVE  LET rows == {s \in syncs : s.user = u /\ s.book = b}
               sync == SyncByBook(syncs, u, b)
           IN  /\ rows = {} => sync = NoSync
               /\ rows # {} => rows = {sync} /\ sync \in Sync
<1> DEFINE rows == {s \in syncs : s.user = u /\ s.book = b}
           scoped == {s \in Scoped(syncs, u) : s.book = b}
<1>1. scoped = rows
  <2>1. \A s : s \in scoped <=> s \in rows
    BY DEF Scoped
  <2> HIDE DEF rows, scoped
  <2> QED
    BY <2>1
<1>2. SyncByBook(syncs, u, b) = IF scoped = {} THEN NoSync ELSE CHOOSE s \in scoped : TRUE
  BY DEF SyncByBook
<1>3. rows \subseteq Sync /\ \A r, s \in rows : r = s
  BY DEF SourcesInv, OneEach
<1> HIDE DEF rows, scoped
<1>4. scoped # {} => (CHOOSE s \in scoped : TRUE) \in scoped
  OBVIOUS
<1>5. CASE scoped = {}
  BY <1>1, <1>2, <1>5 DEF rows
<1>6. CASE scoped # {}
  <2>1. SyncByBook(syncs, u, b) \in rows
    BY <1>1, <1>2, <1>4, <1>6
  <2>2. rows = {SyncByBook(syncs, u, b)}
    BY <1>3, <2>1
  <2> QED
    BY <1>1, <1>3, <1>6, <2>1, <2>2 DEF rows
<1> QED
  BY <1>5, <1>6

\* What a row of Calibre-Web's says is typed.
LEMMA WebRowTyped ==
    ASSUME SourcesInv, NEW u, NEW l \in links, l.book \in DOMAIN catalog
    PROVE  WebRow(syncs, u, l) \in WebRowType
<1> DEFINE sync == SyncByBook(syncs, u, l.book)
           at == Latest({sync.modified, l.started, l.modified})
<1>1. l \in Link
  BY DEF SourcesInv
<1>2. /\ l.book \in Bid /\ l.started \in Time \cup {0} /\ l.modified \in Time
      /\ catalog[l.book] \in Title
  <2>1. catalog \in Partial(Bid, Title)
    BY DEF SourcesInv
  <2>2. catalog[l.book] \in Title
    BY <2>1, PartialElim
  <2> QED
    BY <1>1, <2>2 DEF Link
<1>3. /\ sync.percent \in Place \cup {None} /\ sync.spent \in BOOLEAN
      /\ sync.modified \in Time \cup {0}
  <2>1. CASE sync = NoSync
    BY <2>1 DEF NoSync
  <2>2. CASE sync \in Sync
    <3> HIDE DEF sync
    <3> QED
      BY <2>2 DEF Sync
  <2> QED
    BY <2>1, <2>2, SyncByBookIs
<1>4. at \in 0..MaxTime
  <2> DEFINE S == {sync.modified, l.started, l.modified}
  <2>1. Time \cup {0} = 0..MaxTime
    BY BoundsAssumption DEF Time
  <2>2. S \subseteq 0..MaxTime
    BY <1>2, <1>3, <2>1
  <2>3. S \in SUBSET Int /\ S # {}
    BY <2>2
  <2>4. IsFiniteSet(S)
    <3>1. IsFiniteSet(0..MaxTime)
      BY BoundsAssumption, FS_Interval
    <3> HIDE DEF S
    <3> QED
      BY <2>2, <3>1, FS_Subset
  <2> HIDE DEF S
  <2>5. Latest(S) \in S
    BY <2>3, <2>4, LatestIs
  <2> QED
    BY <2>2, <2>5 DEF S
<1>5. Finished \in Place
  BY DEF Finished, Place
<1> HIDE DEF sync, at
<1>6. WebRow(syncs, u, l) =
        [book |-> l.book, title |-> catalog[l.book],
         percent |-> IF l.status = "finished" THEN Finished ELSE sync.percent,
         spent |-> sync.spent, started |-> l.started, at |-> at]
  BY DEF WebRow, sync, at
<1> QED
  BY <1>2, <1>3, <1>4, <1>5, <1>6 DEF WebRowType

\* Where a row comes from.
FromRow(u, r) ==
    \E l \in links : l.user = u /\ l.book \in DOMAIN catalog /\ r = WebRow(syncs, u, l)

\* A row that is emitted is the reader's own, of a book the catalogue has.
LEMMA RowsOfAre ==
    ASSUME SourcesInv, NEW u
    PROVE  /\ \A r \in RowsOf(u) :
                 r \in WebRowType /\ Emitted(r.percent, r.spent) /\ FromRow(u, r)
           /\ \A l \in links :
                 LET r == WebRow(syncs, u, l)
                 IN  l.user = u /\ l.book \in DOMAIN catalog /\ Emitted(r.percent, r.spent)
                     => r \in RowsOf(u)
<1>1. ASSUME NEW r \in RowsOf(u)
      PROVE  r \in WebRowType /\ Emitted(r.percent, r.spent) /\ FromRow(u, r)
  <2>1. PICK l \in links : l.user = u /\ l.book \in DOMAIN catalog /\ r = WebRow(syncs, u, l)
    BY DEF RowsOf, Scoped
  <2>2. Emitted(r.percent, r.spent)
    BY DEF RowsOf
  <2> QED
    BY <2>1, <2>2, WebRowTyped DEF FromRow
<1> QED
  BY <1>1 DEF RowsOf, Scoped

Web(u) == WebRows(links, syncs, u)
Stats(u) == DeviceStats \o WebStats(Web(u))

\* What such a row becomes.
LEMMA WebStatType ==
    ASSUME NEW r \in WebRowType
    PROVE  WebStat(r) \in ReadingStat
<1>1. KeyOf[r.title] \in Key /\ r.title \in Title /\ r.spent \in BOOLEAN
  BY DEF WebRowType, Key
<1>2. (r.started > 0) \in BOOLEAN /\ 0 \in Place
  BY DEF Place, Finished
<1> QED
  BY <1>1, <1>2 DEF WebStat, ReadingStat

\* The rows of a reader are listed once each, and so are their stats.
LEMMA WebIs ==
    ASSUME SourcesInv, NEW u
    PROVE  /\ Web(u) \in Seq(RowsOf(u))
           /\ \A i \in DOMAIN Web(u) : Web(u)[i] \in RowsOf(u)
           /\ \A i, j \in DOMAIN Web(u) : Web(u)[i] = Web(u)[j] => i = j
           /\ \A r \in RowsOf(u) : \E i \in DOMAIN Web(u) : Web(u)[i] = r
           /\ WebStats(Web(u)) \in Seq(ReadingStat)
           /\ DOMAIN WebStats(Web(u)) = DOMAIN Web(u)
           /\ \A i \in DOMAIN Web(u) : WebStats(Web(u))[i] = WebStat(Web(u)[i])
<1>1. /\ Web(u) \in Seq(RowsOf(u))
      /\ \A i \in DOMAIN Web(u) : Web(u)[i] \in RowsOf(u)
      /\ \A i, j \in DOMAIN Web(u) : Web(u)[i] = Web(u)[j] => i = j
      /\ \A r \in RowsOf(u) : \E i \in DOMAIN Web(u) : Web(u)[i] = r
  <2>1. IsFiniteSet(RowsOf(u)) /\ Web(u) \in SetToSeqs(RowsOf(u))
    BY RowsListed DEF Web
  <2> QED
    BY <2>1, ListingIsBijective
<1>2. \A i \in DOMAIN Web(u) : WebStat(Web(u)[i]) \in ReadingStat
  BY <1>1, RowsOfAre, WebStatType
<1>3. WebStats(Web(u)) = [i \in DOMAIN Web(u) |-> WebStat(Web(u)[i])]
  BY DEF WebStats
<1> QED
  BY <1>1, <1>2, <1>3

\* The stats are those of the devices, then those of the reader's rows.
FromWeb(u, stat) == \E r \in RowsOf(u) : stat = WebStat(r)

\* Device stats come first.
LEMMA StatsAre ==
    ASSUME SourcesInv, NEW u
    PROVE  /\ Stats(u) \in Seq(ReadingStat)
           /\ DOMAIN Stats(u) \in SUBSET Int /\ IsFiniteSet(DOMAIN Stats(u))
           /\ DOMAIN DeviceStats \subseteq DOMAIN Stats(u)
           /\ \A i \in DOMAIN DeviceStats : Stats(u)[i] = DeviceStats[i]
           /\ \A i \in DOMAIN Stats(u) \ DOMAIN DeviceStats : FromWeb(u, Stats(u)[i])
           /\ \A i \in DOMAIN DeviceStats : \A j \in DOMAIN Stats(u) \ DOMAIN DeviceStats : i < j
           /\ \A r \in RowsOf(u) : \E i \in DOMAIN Stats(u) : Stats(u)[i] = WebStat(r)
<1> DEFINE D == DeviceStats
           W == WebStats(Web(u))
           n == Len(D)
           m == Len(W)
<1>1. D \in Seq(ReadingStat) /\ W \in Seq(ReadingStat)
  BY DeviceStatsAre, WebIs
<1>2. \A i \in DOMAIN W : FromWeb(u, W[i])
  BY WebIs DEF FromWeb
<1>3. \A r \in RowsOf(u) : \E i \in DOMAIN W : W[i] = WebStat(r)
  BY WebIs
<1>4. Stats(u) = D \o W
  BY DEF Stats
<1> HIDE DEF D, W
<1>5. /\ Stats(u) \in Seq(ReadingStat)
      /\ DOMAIN Stats(u) = 1..(n + m)
      /\ n \in Nat /\ m \in Nat
      /\ DOMAIN D = 1..n /\ DOMAIN W = 1..m
      /\ \A i \in 1..n : Stats(u)[i] = D[i]
      /\ \A i \in 1..m : Stats(u)[n + i] = W[i]
      /\ \A i \in 1..(n + m) : i > n => i - n \in 1..m /\ Stats(u)[i] = W[i - n]
  BY <1>1, <1>4, Concat
<1> HIDE DEF n, m
<1>6. IsFiniteSet(1..(n + m))
  BY <1>5, FS_Interval
<1>7. ASSUME NEW i \in DOMAIN Stats(u) \ DOMAIN D PROVE FromWeb(u, Stats(u)[i])
  <2>1. i \in 1..(n + m) /\ i > n
    BY <1>5
  <2>2. i - n \in DOMAIN W /\ Stats(u)[i] = W[i - n]
    BY <1>5, <2>1
  <2> QED
    BY <1>2, <2>2
<1>8. ASSUME NEW r \in RowsOf(u) PROVE \E i \in DOMAIN Stats(u) : Stats(u)[i] = WebStat(r)
  <2>1. PICK i \in DOMAIN W : W[i] = WebStat(r)
    BY <1>3
  <2>2. n + i \in DOMAIN Stats(u) /\ Stats(u)[n + i] = W[i]
    BY <1>5, <2>1
  <2> QED
    BY <2>1, <2>2
<1>9. \A i \in DOMAIN D : \A j \in DOMAIN Stats(u) \ DOMAIN D : i < j
  BY <1>5
<1>10. DOMAIN Stats(u) \in SUBSET Int /\ DOMAIN D \subseteq DOMAIN Stats(u)
       /\ \A i \in DOMAIN D : Stats(u)[i] = D[i]
  BY <1>5
<1> QED
  BY <1>5, <1>6, <1>7, <1>8, <1>9, <1>10 DEF D

\* The join key a stat's key is of.
Filed(key) == IF key \in Doc THEN KeyOf[TitleOf[key]] ELSE key

\* A stat is filed under the join key its own key is of.
LEMMA KeyTells ==
    ASSUME SourcesInv, NEW u, NEW i \in DOMAIN Stats(u)
    PROVE  LET stat == Stats(u)[i]
           IN  /\ KeyOf[stat.title] = Filed(stat.key)
               /\ stat.key \in Doc => FromKOReader(stat)
<1> DEFINE stat == Stats(u)[i]
<1>1. CASE FromKOReader(stat)
  <2>1. PICK j \in DOMAIN koreader : stat = ReadStats(koreader[j])
    BY <1>1 DEF FromKOReader
  <2>2. IsKOReaderRow(koreader[j])
    BY ReadStatsType
  <2> DEFINE row == koreader[j]
  <2> HIDE DEF stat, row
  <2>3. row.doc \in Doc \cup {NoDoc} /\ row.title \in Title
        /\ (row.doc # NoDoc => row.title = TitleOf[row.doc])
    BY <2>2 DEF IsKOReaderRow, KOReaderRow, row
  <2>4. stat.title = row.title
        /\ stat.key = IF row.doc # NoDoc THEN row.doc ELSE KeyOf[row.title]
    BY <2>1 DEF ReadStats, row
  <2>5. KeyOf[row.title] \notin Doc
    BY <2>3, DocAssumption
  <2>6. KeyOf[stat.title] = Filed(stat.key)
    BY <2>3, <2>4, <2>5, DocAssumption DEF Filed
  <2> QED
    BY <1>1, <2>6 DEF stat
<1>2. ASSUME stat.title \in Title, stat.key = KeyOf[stat.title]
      PROVE  KeyOf[stat.title] = Filed(stat.key) /\ stat.key \notin Doc
  BY <1>2, DocAssumption DEF Filed
<1>3. CASE FromKobo(stat)
  <2>1. PICK t \in DOMAIN kobo : stat = KoboStat(t)
    BY <1>3 DEF FromKobo
  <2>2. t \in Title
    BY KoboStatType
  <2> HIDE DEF stat
  <2>3. stat.title = t /\ stat.key = KeyOf[t]
    BY <2>1 DEF KoboStat
  <2> QED
    BY <1>2, <2>2, <2>3 DEF stat
<1>4. CASE FromWeb(u, stat)
  <2>1. PICK r \in RowsOf(u) : stat = WebStat(r)
    BY <1>4 DEF FromWeb
  <2>2. r.title \in Title
    BY RowsOfAre DEF WebRowType
  <2> HIDE DEF stat
  <2>3. stat.title = r.title /\ stat.key = KeyOf[r.title]
    BY <2>1 DEF WebStat
  <2> QED
    BY <1>2, <2>2, <2>3 DEF stat
<1>5. FromKOReader(stat) \/ FromKobo(stat) \/ FromWeb(u, stat)
  BY StatsAre, DeviceStatsAre
<1> QED
  BY <1>1, <1>3, <1>4, <1>5

\* The winner of a join key is the first stat filed under it.
LEMMA WinnerIs ==
    ASSUME SourcesInv, NEW u, NEW k
    PROVE  /\ WithKey(Stats(u), k) = {} => Winner(Stats(u), k) = Nothing
           /\ WithKey(Stats(u), k) # {} =>
                 \E i \in WithKey(Stats(u), k) :
                    /\ Winner(Stats(u), k) = Stats(u)[i]
                    /\ i \in DOMAIN Stats(u) /\ KeyOf[Stats(u)[i].title] = k
                    /\ \A j \in WithKey(Stats(u), k) : i <= j
<1> DEFINE S == WithKey(Stats(u), k)
<1>1. CASE S = {}
  BY <1>1 DEF Winner
<1>2. CASE S # {}
  <2>1. S \subseteq DOMAIN Stats(u)
    BY DEF WithKey
  <2>2. S \in SUBSET Int /\ IsFiniteSet(S)
    <3> HIDE DEF S
    <3> QED
      BY <2>1, StatsAre, FS_Subset
  <2>3. First(S) \in S /\ \A j \in S : First(S) <= j
    <3> HIDE DEF S
    <3> QED
      BY <1>2, <2>2, FirstIs
  <2>4. Winner(Stats(u), k) = Stats(u)[First(S)]
    BY <1>2 DEF Winner
  <2>5. First(S) \in DOMAIN Stats(u) /\ KeyOf[Stats(u)[First(S)].title] = k
    BY <2>3 DEF WithKey
  <2> QED
    BY <1>2, <2>3, <2>4, <2>5
<1> QED
  BY <1>1, <1>2

\* The progress the states are shown with.
Rekeyed(u) == RekeyOntoWinningStats(WebProgress(Web(u)), DeviceStats)
Merged(u) == MergeProgress(Kosync(DeviceStats), Rekeyed(u))

Rest(u) == Unowned(Stats(u), {KeyOf[catalog[b]] : b \in DOMAIN catalog})
OfBook(u, b) ==
    State(KeyOf[catalog[b]], Winner(Stats(u), KeyOf[catalog[b]]), Merged(u), {b})
OfKey(u, k) == State(k, Winner(Stats(u), k), Merged(u), {})

\* Every stat whose book is not in the catalogue has its key among the rest.
LEMMA RestIs ==
    ASSUME SourcesInv, NEW u
    PROVE  /\ IsFiniteSet(Rest(u))
           /\ \A k \in Rest(u) : Copies(k) = {}
           /\ \A i \in DOMAIN Stats(u) :
                 Copies(KeyOf[Stats(u)[i].title]) = {} => KeyOf[Stats(u)[i].title] \in Rest(u)
<1> DEFINE I == DOMAIN Stats(u)
           keys == {KeyOf[Stats(u)[i].title] : i \in I}
           owned == {KeyOf[catalog[b]] : b \in DOMAIN catalog}
<1>1. Rest(u) = keys \ owned
  BY DEF Rest, Unowned
<1>2. IsFiniteSet(keys)
  <2> DEFINE f == [i \in I |-> KeyOf[Stats(u)[i].title]]
  <2>1. f \in Surjection(I, keys)
    BY DEF Surjection
  <2>2. IsFiniteSet(I)
    BY StatsAre
  <2> HIDE DEF f, I, keys
  <2> QED
    BY <2>1, <2>2, FS_Surjection
<1>3. \A k : k \notin owned <=> Copies(k) = {}
  BY DEF Copies
<1>4. \A i \in I : KeyOf[Stats(u)[i].title] \in keys
  OBVIOUS
<1> HIDE DEF keys, owned
<1>5. IsFiniteSet(Rest(u))
  <2>1. Rest(u) \subseteq keys
    BY <1>1
  <2> QED
    BY <1>2, <2>1, FS_Subset
<1> QED
  BY <1>1, <1>3, <1>4, <1>5

\* A state for each book, then one for each key no book has.
LEMMA StatesAre ==
    ASSUME SourcesInv, NEW u
    PROVE  LET states == Ingest(links, syncs, u)
               books == Books
               order == SetToSeq(Rest(u))
           IN  /\ Len(books) \in Nat /\ Len(order) \in Nat
               /\ DOMAIN books = 1..Len(books) /\ DOMAIN order = 1..Len(order)
               /\ DOMAIN states = 1..(Len(books) + Len(order))
               /\ \A i \in 1..Len(books) : states[i] = OfBook(u, books[i])
               /\ \A i \in 1..Len(order) : states[Len(books) + i] = OfKey(u, order[i])
               /\ \A i \in DOMAIN states : i > Len(books) =>
                     i - Len(books) \in 1..Len(order)
                     /\ states[i] = OfKey(u, order[i - Len(books)])
<1> DEFINE states == Ingest(links, syncs, u)
           books == Books
           order == SetToSeq(Rest(u))
           A == [i \in DOMAIN books |-> OfBook(u, books[i])]
           B == [i \in DOMAIN order |-> OfKey(u, order[i])]
           S == {A[i] : i \in DOMAIN books} \cup {B[i] : i \in DOMAIN order}
<1>1. states = A \o B
  BY DEF Ingest, Unify, OfBook, OfKey, Rest, Stats, Web, Merged, Rekeyed
<1>2. books \in Seq(DOMAIN catalog) /\ order \in Seq(Rest(u))
  <2>1. books \in SetToSeqs(DOMAIN catalog) /\ IsFiniteSet(DOMAIN catalog)
    BY BooksListed DEF SourcesInv
  <2>2. order \in SetToSeqs(Rest(u)) /\ IsFiniteSet(Rest(u))
    BY RestIs, OneListing
  <2> HIDE DEF books, order
  <2> QED
    BY <2>1, <2>2, ListingIsBijective
<1> HIDE DEF states, books, order
<1>3. /\ Len(books) \in Nat /\ Len(order) \in Nat
      /\ DOMAIN books = 1..Len(books) /\ DOMAIN order = 1..Len(order)
  BY <1>2
<1>4. A \in Seq(S) /\ B \in Seq(S) /\ Len(A) = Len(books) /\ Len(B) = Len(order)
  <2>1. \A i \in DOMAIN books : A[i] \in S
    OBVIOUS
  <2>2. \A i \in DOMAIN order : B[i] \in S
    OBVIOUS
  <2> HIDE DEF S
  <2>3. A \in [1..Len(books) -> S] /\ B \in [1..Len(order) -> S]
    BY <1>3, <2>1, <2>2
  <2> QED
    BY <1>3, <2>3
<1>5. /\ \A i \in 1..Len(books) : A[i] = OfBook(u, books[i])
      /\ \A i \in 1..Len(order) : B[i] = OfKey(u, order[i])
  BY <1>3
<1> HIDE DEF A, B, S
<1>6. /\ DOMAIN states = 1..(Len(A) + Len(B))
      /\ \A i \in 1..Len(A) : states[i] = A[i]
      /\ \A i \in 1..Len(B) : states[Len(A) + i] = B[i]
      /\ \A i \in 1..(Len(A) + Len(B)) : i > Len(A) =>
            i - Len(A) \in 1..Len(B) /\ states[i] = B[i - Len(A)]
  <2>1. A \in Seq(S) /\ B \in Seq(S)
    BY <1>4
  <2>2. /\ DOMAIN (A \o B) = 1..(Len(A) + Len(B))
        /\ \A i \in 1..Len(A) : (A \o B)[i] = A[i]
        /\ \A i \in 1..Len(B) : (A \o B)[Len(A) + i] = B[i]
        /\ \A i \in 1..(Len(A) + Len(B)) : i > Len(A) =>
              i - Len(A) \in 1..Len(B) /\ (A \o B)[i] = B[i - Len(A)]
    BY <2>1, Concat
  <2> QED
    BY <1>1, <2>2
<1> QED
  BY <1>3, <1>4, <1>5, <1>6 DEF states, books, order

(***************************************************************************)
(* One reader, every book once.                                            *)
(***************************************************************************)
\* Nobody else's rows count, whoever was deleted and whatever deletion left behind
\* (calibre_web.py:48).
THEOREM OneReaderHolds == LibrarySpec => []OneReader
<1>1. OneReader
  <2> SUFFICES ASSUME Reader # Refused
               PROVE  /\ named => Reader = Me
                      /\ States = Ingest({l \in links : l.user = Reader},
                                         {s \in syncs : s.user = Reader}, Reader)
    BY DEF OneReader
  <2>1. named => Reader = Me
    <3> DEFINE users == UsersWithReadState(links, syncs)
    <3>1. Reader = CASE named /\ Me \in accounts -> Me
                     [] named /\ Me \notin accounts -> Refused
                     [] ~named /\ users = {} -> Nobody
                     [] ~named /\ Cardinality(users) = 1 -> CHOOSE u \in users : TRUE
                     [] OTHER -> Refused
      BY DEF Reader, ResolveUser
    <3> HIDE DEF users
    <3> QED
      BY <3>1
  <2>2. ASSUME NEW u
        PROVE  Ingest(links, syncs, u) =
               Ingest({l \in links : l.user = u}, {s \in syncs : s.user = u}, u)
    <3> DEFINE L == {l \in links : l.user = u}
               S == {s \in syncs : s.user = u}
    <3>1. Scoped(L, u) = Scoped(links, u) /\ Scoped(S, u) = Scoped(syncs, u)
      BY DEF Scoped
    <3> HIDE DEF L, S
    <3>2. \A b : SyncByBook(S, u, b) = SyncByBook(syncs, u, b)
      BY <3>1 DEF SyncByBook
    <3>3. \A l : WebRow(S, u, l) = WebRow(syncs, u, l)
      BY <3>2 DEF WebRow
    <3>4. WebRows(L, S, u) = WebRows(links, syncs, u)
      BY <3>1, <3>3 DEF WebRows
    <3> QED
      BY <3>4 DEF Ingest, L, S
  <2> QED
    BY <2>1, <2>2 DEF States
<1> QED
  BY <1>1, PTL

\* A state of a book is its own, one of no book is that of a key no book has.
LEMMA OnceEach ==
    ASSUME SourcesInv, NEW u
    PROVE  LET states == Ingest(links, syncs, u)
               of(owned) == {i \in DOMAIN states : states[i].books = owned}
           IN  /\ \A b \in DOMAIN catalog : \E i : of({b}) = {i}
               /\ \A k \in Rest(u) : \E i : {j \in of({}) : states[j].key = k} = {i}
               /\ \A i \in of({}) : states[i].key \in Rest(u)
<1> DEFINE states == Ingest(links, syncs, u)
           of(owned) == {i \in DOMAIN states : states[i].books = owned}
           books == Books
           order == SetToSeq(Rest(u))
           n == Len(books)
           m == Len(order)
<1>1. /\ n \in Nat /\ m \in Nat
      /\ DOMAIN books = 1..n /\ DOMAIN order = 1..m
      /\ DOMAIN states = 1..(n + m)
      /\ \A i \in 1..n : states[i] = OfBook(u, books[i])
      /\ \A i \in 1..m : states[n + i] = OfKey(u, order[i])
      /\ \A i \in DOMAIN states : i > n =>
            i - n \in 1..m /\ states[i] = OfKey(u, order[i - n])
  BY StatesAre
<1>2. /\ \A b : OfBook(u, b).books = {b}
      /\ \A k : OfKey(u, k).books = {} /\ OfKey(u, k).key = k
  BY DEF OfBook, OfKey, State
<1>3. /\ \A i, j \in 1..n : books[i] = books[j] => i = j
      /\ \A b \in DOMAIN catalog : \E i \in 1..n : books[i] = b
  <2>1. books \in SetToSeqs(DOMAIN catalog) /\ IsFiniteSet(DOMAIN catalog)
    BY BooksListed DEF SourcesInv
  <2>2. DOMAIN books = 1..n
    BY <1>1
  <2> HIDE DEF books, n
  <2>3. /\ \A i, j \in DOMAIN books : books[i] = books[j] => i = j
        /\ \A b \in DOMAIN catalog : \E i \in DOMAIN books : books[i] = b
    BY <2>1, ListingIsBijective
  <2> QED
    BY <2>2, <2>3
<1>4. /\ \A i \in 1..m : order[i] \in Rest(u)
      /\ \A i, j \in 1..m : order[i] = order[j] => i = j
      /\ \A k \in Rest(u) : \E i \in 1..m : order[i] = k
  <2>1. order \in SetToSeqs(Rest(u)) /\ IsFiniteSet(Rest(u))
    BY RestIs, OneListing
  <2>2. DOMAIN order = 1..m
    BY <1>1
  <2> HIDE DEF order, m
  <2>3. /\ \A i \in DOMAIN order : order[i] \in Rest(u)
        /\ \A i, j \in DOMAIN order : order[i] = order[j] => i = j
        /\ \A k \in Rest(u) : \E i \in DOMAIN order : order[i] = k
    BY <2>1, ListingIsBijective
  <2> QED
    BY <2>2, <2>3
<1> HIDE DEF states, books, order, n, m
<1>5. ASSUME NEW b \in DOMAIN catalog PROVE \E i : of({b}) = {i}
  <2>1. PICK i \in 1..n : books[i] = b
    BY <1>3
  <2>2. i \in DOMAIN states /\ states[i].books = {b}
    BY <1>1, <1>2, <2>1
  <2>3. ASSUME NEW j \in DOMAIN states, states[j].books = {b} PROVE j = i
    <3>1. j \in 1..n
      <4>1. ASSUME j > n PROVE FALSE
        <5>1. states[j] = OfKey(u, order[j - n])
          BY <1>1, <4>1
        <5> QED
          BY <1>2, <2>3, <5>1
      <4> QED
        BY <1>1, <4>1
    <3>2. states[j].books = {books[j]}
      BY <1>1, <1>2, <3>1
    <3> QED
      BY <1>3, <2>1, <2>3, <3>1, <3>2
  <2> QED
    BY <2>2, <2>3
<1>6. ASSUME NEW j \in DOMAIN states, states[j].books = {}
      PROVE  j > n /\ j - n \in 1..m /\ states[j].key = order[j - n]
  <2>1. ~(j \in 1..n)
    BY <1>1, <1>2, <1>6
  <2>2. j > n
    BY <1>1, <2>1
  <2> QED
    BY <1>1, <1>2, <2>2
<1>7. ASSUME NEW k \in Rest(u) PROVE \E i : {j \in of({}) : states[j].key = k} = {i}
  <2>1. PICK i \in 1..m : order[i] = k
    BY <1>4
  <2>2. n + i \in DOMAIN states /\ states[n + i].books = {} /\ states[n + i].key = k
    BY <1>1, <1>2, <2>1
  <2>3. ASSUME NEW j \in DOMAIN states, states[j].books = {}, states[j].key = k
        PROVE  j = n + i
    <3>1. j - n \in 1..m /\ order[j - n] = k
      BY <1>6, <2>3
    <3>2. j - n = i
      <4>1. PICK x \in 1..m : x = j - n
        BY <3>1
      <4>2. order[x] = order[i]
        <5>1. order[j - n] = order[i]
          BY <2>1, <3>1
        <5> QED
          BY <4>1, <5>1
      <4>3. x = i
        BY <1>4, <4>2
      <4> QED
        BY <4>1, <4>3
    <3>3. j \in Int /\ n \in Int /\ i \in Int
      <4>1. j \in 1..(n + m) /\ n \in Nat /\ m \in Nat
        BY <1>1
      <4> QED
        BY <4>1
    <3> QED
      BY <3>2, <3>3
  <2> DEFINE alike == {j \in of({}) : states[j].key = k}
  <2>4. \A j : j \in alike <=> j = n + i
    BY <2>2, <2>3
  <2> HIDE DEF alike
  <2>5. alike = {n + i}
    BY <2>4
  <2> QED
    BY <2>5 DEF alike
<1>8. \A i \in of({}) : states[i].key \in Rest(u)
  BY <1>4, <1>6
<1> QED
  BY <1>5, <1>7, <1>8 DEF states

\* None is lost and none is counted twice (unify.py:102).
THEOREM EveryBookOnceHolds == LibrarySpec => []EveryBookOnce
<1>1. SourcesInv => EveryBookOnce
  <2> DEFINE states == States
             u == Reader
             of(owned) == {i \in DOMAIN states : states[i].books = owned}
             seen == {KeyOf[koreader[i].title] : i \in DOMAIN koreader} \cup
                     {KeyOf[t] : t \in DOMAIN kobo}
  <2> SUFFICES ASSUME SourcesInv
               PROVE  /\ \A b \in DOMAIN catalog : Cardinality(of({b})) = 1
                      /\ \A k \in seen : Copies(k) = {} =>
                            Cardinality({i \in of({}) : states[i].key = k}) = 1
                      /\ \A i \in of({}) : Copies(states[i].key) = {}
    BY DEF EveryBookOnce
  <2>1. /\ \A b \in DOMAIN catalog : \E i : of({b}) = {i}
        /\ \A k \in Rest(u) : \E i : {j \in of({}) : states[j].key = k} = {i}
        /\ \A i \in of({}) : states[i].key \in Rest(u)
    BY OnceEach DEF States
  <2>2. ASSUME NEW k \in seen PROVE \E i \in DOMAIN Stats(u) : KeyOf[Stats(u)[i].title] = k
    <3>1. CASE k \in {KeyOf[koreader[i].title] : i \in DOMAIN koreader}
      <4>1. PICK j \in DOMAIN koreader : k = KeyOf[koreader[j].title]
        BY <3>1
      <4>2. PICK i \in DOMAIN DeviceStats : DeviceStats[i] = ReadStats(koreader[j])
        BY DeviceStatsAre
      <4>3. DeviceStats[i].title = koreader[j].title
        BY <4>2 DEF ReadStats
      <4> QED
        BY <4>1, <4>3, StatsAre
    <3>2. CASE k \in {KeyOf[t] : t \in DOMAIN kobo}
      <4>1. PICK t \in DOMAIN kobo : k = KeyOf[t]
        BY <3>2
      <4>2. PICK i \in DOMAIN DeviceStats : DeviceStats[i] = KoboStat(t)
        BY DeviceStatsAre
      <4>3. DeviceStats[i].title = t
        BY <4>2 DEF KoboStat
      <4> QED
        BY <4>1, <4>3, StatsAre
    <3> QED
      BY <3>1, <3>2
  <2> HIDE DEF states, u, seen
  <2>3. ASSUME NEW b \in DOMAIN catalog PROVE Cardinality(of({b})) = 1
    BY <2>1, FS_Singleton
  <2>4. ASSUME NEW k \in seen, Copies(k) = {}
        PROVE  Cardinality({i \in of({}) : states[i].key = k}) = 1
    <3>1. k \in Rest(u)
      BY <2>2, <2>4, RestIs
    <3> QED
      BY <2>1, <3>1, FS_Singleton
  <2>5. \A i \in of({}) : Copies(states[i].key) = {}
    BY <2>1, RestIs
  <2> QED
    BY <2>3, <2>4, <2>5
<1> QED
  BY <1>1, SourcesCorrect, PTL

(***************************************************************************)
(* What a state is shown with.                                             *)
(***************************************************************************)
LEMMA StateIs ==
    ASSUME SourcesInv, NEW u, NEW s \in Range(Ingest(links, syncs, u))
    PROVE  /\ s.stat = Winner(Stats(u), s.key)
           /\ s.progress = ProgressFor(s.stat, Merged(u))
           /\ s.status = Status(s.stat, s.progress)
<1> DEFINE states == Ingest(links, syncs, u)
           books == Books
           order == SetToSeq(Rest(u))
<1>1. PICK i \in DOMAIN states : s = states[i]
  BY DEF Range
<1>2. \/ \E b : s = OfBook(u, b)
      \/ \E k : s = OfKey(u, k)
  <2>1. /\ Len(books) \in Nat /\ Len(order) \in Nat
        /\ DOMAIN states = 1..(Len(books) + Len(order))
        /\ \A j \in 1..Len(books) : states[j] = OfBook(u, books[j])
        /\ \A j \in DOMAIN states : j > Len(books) => states[j] = OfKey(u, order[j - Len(books)])
    BY StatesAre
  <2> HIDE DEF states, books, order
  <2>2. CASE i > Len(books)
    BY <1>1, <2>1, <2>2
  <2>3. CASE ~(i > Len(books))
    <3>1. i \in 1..Len(books)
      BY <1>1, <2>1, <2>3
    <3> QED
      BY <1>1, <2>1, <3>1
  <2> QED
    BY <2>2, <2>3
<1>3. ASSUME NEW k, NEW owned, s = State(k, Winner(Stats(u), k), Merged(u), owned)
      PROVE  /\ s.key = k /\ s.stat = Winner(Stats(u), k)
             /\ s.progress = ProgressFor(s.stat, Merged(u))
             /\ s.status = Status(s.stat, s.progress)
  BY <1>3 DEF State
<1> QED
  BY <1>2, <1>3 DEF OfBook, OfKey

\* A stat is not the absence of one.
LEMMA StatIsSome ==
    ASSUME NEW stat \in ReadingStat
    PROVE  stat # Nothing
<1>1. DOMAIN stat = {"key", "title", "place", "sized", "spent", "opened"}
  BY DEF ReadingStat
<1>2. DOMAIN Nothing = {"unread"}
  BY DEF Nothing
<1>3. "key" \in DOMAIN stat /\ "key" \notin DOMAIN Nothing
  BY <1>1, <1>2
<1> QED
  BY <1>3

\* A winner is one of the stats.
LEMMA WinnerIsStat ==
    ASSUME SourcesInv, NEW u, NEW k, Winner(Stats(u), k) # Nothing
    PROVE  \E i \in DOMAIN Stats(u) : Winner(Stats(u), k) = Stats(u)[i]
                                      /\ KeyOf[Stats(u)[i].title] = k
BY WinnerIs

\* A join key with a stat has a winner.
LEMMA FiledIsWon ==
    ASSUME SourcesInv, NEW u, NEW i \in DOMAIN Stats(u)
    PROVE  Winner(Stats(u), KeyOf[Stats(u)[i].title]) # Nothing
<1> DEFINE k == KeyOf[Stats(u)[i].title]
<1>1. WithKey(Stats(u), k) # {}
  BY DEF WithKey
<1>2. PICK j \in DOMAIN Stats(u) : Winner(Stats(u), k) = Stats(u)[j]
  BY <1>1, WinnerIs
<1>3. Stats(u)[j] \in ReadingStat
  <2>1. Stats(u) \in Seq(ReadingStat)
    BY StatsAre
  <2> QED
    BY <1>2, <2>1
<1> QED
  BY <1>2, <1>3, StatIsSome

\* What the web says of a join key is what one of its rows says.
LEMMA WebProgressIs ==
    ASSUME SourcesInv, NEW u
    PROVE  LET wp == WebProgress(Web(u))
           IN  /\ \A k \in DOMAIN wp : \E r \in RowsOf(u) :
                     /\ r.percent # None /\ KeyOf[r.title] = k /\ k \in Key
                     /\ wp[k] = [place |-> r.percent, at |-> r.at, device |-> "Calibre-Web"]
               /\ \A r \in RowsOf(u) : r.percent # None => KeyOf[r.title] \in DOMAIN wp
<1> DEFINE rows == Web(u)
           filed == {i \in DOMAIN rows : rows[i].percent # None}
           under(k) == {i \in filed : KeyOf[rows[i].title] = k}
           wp == WebProgress(rows)
<1>1. /\ DOMAIN wp = {KeyOf[rows[i].title] : i \in filed}
      /\ \A k \in DOMAIN wp :
            wp[k] = [place |-> rows[Latest(under(k))].percent, at |-> rows[Latest(under(k))].at,
                     device |-> "Calibre-Web"]
  BY DEF WebProgress
<1>2. /\ \A i \in DOMAIN rows : rows[i] \in RowsOf(u)
      /\ \A r \in RowsOf(u) : \E i \in DOMAIN rows : rows[i] = r
  BY WebIs
<1>3. DOMAIN rows \in SUBSET Int /\ IsFiniteSet(DOMAIN rows)
  <2>1. rows \in Seq(RowsOf(u))
    BY WebIs
  <2> HIDE DEF rows
  <2>2. DOMAIN rows = 1..Len(rows) /\ Len(rows) \in Nat
    BY <2>1
  <2> QED
    BY <2>2, FS_Interval
<1> HIDE DEF rows, wp
<1>4. ASSUME NEW k \in DOMAIN wp
      PROVE  \E r \in RowsOf(u) :
                /\ r.percent # None /\ KeyOf[r.title] = k /\ k \in Key
                /\ wp[k] = [place |-> r.percent, at |-> r.at, device |-> "Calibre-Web"]
  <2> DEFINE S == under(k)
  <2>1. S # {} /\ S \subseteq DOMAIN rows
    BY <1>1
  <2>2. Latest(S) \in S
    <3> HIDE DEF S
    <3>1. S \in SUBSET Int /\ IsFiniteSet(S)
      BY <1>3, <2>1, FS_Subset
    <3> QED
      BY <2>1, <3>1, LatestIs
  <2> DEFINE r == rows[Latest(S)]
  <2>3. r \in RowsOf(u) /\ r.percent # None /\ KeyOf[r.title] = k
    BY <1>2, <2>2
  <2>4. k \in Key
    <3>1. r.title \in Title
      BY <2>3, RowsOfAre DEF WebRowType
    <3> QED
      BY <2>3, <3>1 DEF Key
  <2>5. wp[k] = [place |-> r.percent, at |-> r.at, device |-> "Calibre-Web"]
    BY <1>1
  <2> HIDE DEF r
  <2> QED
    BY <2>3, <2>4, <2>5
<1>5. ASSUME NEW r \in RowsOf(u), r.percent # None PROVE KeyOf[r.title] \in DOMAIN wp
  BY <1>1, <1>2, <1>5
<1> QED
  BY <1>4, <1>5 DEF wp, rows

\* A join key's target is the key its winning stat has.
LEMMA TargetIs ==
    ASSUME SourcesInv, NEW u, NEW k
    PROVE  /\ k \in Key => Filed(Target(DeviceStats, k)) = k
           /\ Winner(Stats(u), k) # Nothing =>
                 Winner(Stats(u), k).key = Target(DeviceStats, k)
<1> DEFINE D == WithKey(DeviceStats, k)
           S == WithKey(Stats(u), k)
<1>1. /\ \A i : i \in D <=> i \in DOMAIN DeviceStats /\ KeyOf[DeviceStats[i].title] = k
      /\ \A i : i \in S <=> i \in DOMAIN Stats(u) /\ KeyOf[Stats(u)[i].title] = k
  BY DEF WithKey
<1>2. Target(DeviceStats, k) = IF D = {} THEN k ELSE DeviceStats[First(D)].key
  BY DEF Target
<1>3. /\ DOMAIN Stats(u) \in SUBSET Int /\ IsFiniteSet(DOMAIN Stats(u))
      /\ DOMAIN DeviceStats \subseteq DOMAIN Stats(u)
      /\ \A i \in DOMAIN DeviceStats : Stats(u)[i] = DeviceStats[i]
      /\ \A i \in DOMAIN Stats(u) \ DOMAIN DeviceStats : FromWeb(u, Stats(u)[i])
      /\ \A i \in DOMAIN DeviceStats : \A j \in DOMAIN Stats(u) \ DOMAIN DeviceStats : i < j
  BY StatsAre
<1> HIDE DEF D, S
<1>4. D \subseteq S /\ D \in SUBSET Int /\ IsFiniteSet(D)
  <2>1. D \subseteq S /\ D \subseteq DOMAIN Stats(u)
    BY <1>1, <1>3
  <2> QED
    BY <1>3, <2>1, FS_Subset
<1>5. D # {} => First(D) \in D /\ \A j \in D : First(D) <= j
  BY <1>4, FirstIs
<1>6. ASSUME k \in Key PROVE Filed(Target(DeviceStats, k)) = k
  <2>1. CASE D = {}
    <3>1. k \notin Doc
      BY <1>6, DocAssumption DEF Key
    <3> QED
      BY <1>2, <2>1, <3>1 DEF Filed
  <2>2. CASE D # {}
    <3>1. /\ First(D) \in DOMAIN Stats(u) /\ Stats(u)[First(D)] = DeviceStats[First(D)]
          /\ KeyOf[DeviceStats[First(D)].title] = k
      BY <1>1, <1>3, <1>5, <2>2
    <3>2. KeyOf[DeviceStats[First(D)].title] = Filed(DeviceStats[First(D)].key)
      BY <3>1, KeyTells
    <3> QED
      BY <1>2, <2>2, <3>1, <3>2
  <2> QED
    BY <2>1, <2>2
<1>7. ASSUME Winner(Stats(u), k) # Nothing
      PROVE  Winner(Stats(u), k).key = Target(DeviceStats, k)
  <2>1. PICK i \in S : /\ Winner(Stats(u), k) = Stats(u)[i]
                       /\ i \in DOMAIN Stats(u) /\ KeyOf[Stats(u)[i].title] = k
                       /\ \A j \in S : i <= j
    BY <1>7, WinnerIs DEF S
  <2>2. CASE D = {}
    <3>1. i \notin DOMAIN DeviceStats
      BY <1>1, <1>3, <2>1, <2>2
    <3>2. PICK r \in RowsOf(u) : Stats(u)[i] = WebStat(r)
      BY <1>3, <2>1, <3>1 DEF FromWeb
    <3>3. Stats(u)[i].key = KeyOf[r.title] /\ Stats(u)[i].title = r.title
      BY <3>2 DEF WebStat
    <3> QED
      BY <1>2, <2>1, <2>2, <3>3
  <2>3. CASE D # {}
    <3>1. First(D) \in S /\ First(D) \in DOMAIN DeviceStats
      BY <1>1, <1>4, <1>5, <2>3
    <3>2. i <= First(D)
      BY <2>1, <3>1
    <3>3. i \in DOMAIN DeviceStats
      <4>1. ASSUME i \notin DOMAIN DeviceStats PROVE FALSE
        <5>1. First(D) < i
          BY <1>3, <2>1, <3>1, <4>1
        <5>2. First(D) \in Int /\ i \in Int
          BY <1>3, <2>1, <3>1
        <5> QED
          BY <3>2, <5>1, <5>2
      <4> QED
        BY <4>1
    <3>4. i \in D
      BY <1>1, <1>3, <2>1, <3>3
    <3>5. i = First(D)
      <4>1. First(D) <= i
        BY <1>5, <2>3, <3>4
      <4>2. First(D) \in Int /\ i \in Int
        BY <1>3, <2>1, <3>1
      <4> QED
        BY <3>2, <4>1, <4>2
    <3> QED
      BY <1>2, <1>3, <2>1, <2>3, <3>3, <3>5
  <2> QED
    BY <2>2, <2>3
<1> QED
  BY <1>6, <1>7

\* Re-keying loses nothing and mixes nothing up: two join keys have two targets.
LEMMA RekeyedIs ==
    ASSUME SourcesInv, NEW u
    PROVE  LET wp == WebProgress(Web(u))
           IN  /\ \A t \in DOMAIN Rekeyed(u) :
                     Filed(t) \in DOMAIN wp /\ Rekeyed(u)[t] = wp[Filed(t)]
                     /\ t = Target(DeviceStats, Filed(t))
               /\ \A k \in DOMAIN wp : Target(DeviceStats, k) \in DOMAIN Rekeyed(u)
<1> DEFINE wp == WebProgress(Web(u))
           target(k) == Target(DeviceStats, k)
<1>1. Rekeyed(u) = [t \in {target(k) : k \in DOMAIN wp} |->
                        wp[CHOOSE k \in DOMAIN wp : target(k) = t]]
  BY DEF Rekeyed, RekeyOntoWinningStats
<1>2. \A k \in DOMAIN wp : Filed(target(k)) = k
  BY WebProgressIs, TargetIs
<1> HIDE DEF wp, target
<1>3. ASSUME NEW t \in DOMAIN Rekeyed(u)
      PROVE  Filed(t) \in DOMAIN wp /\ Rekeyed(u)[t] = wp[Filed(t)] /\ t = target(Filed(t))
  <2> DEFINE k == CHOOSE k \in DOMAIN wp : target(k) = t
  <2>1. k \in DOMAIN wp /\ target(k) = t
    BY <1>1
  <2>2. Rekeyed(u)[t] = wp[k]
    BY <1>1
  <2> HIDE DEF k
  <2> QED
    BY <1>2, <2>1, <2>2
<1>4. \A k \in DOMAIN wp : target(k) \in DOMAIN Rekeyed(u)
  BY <1>1
<1> QED
  BY <1>3, <1>4 DEF wp, target

\* What KOReader has a row of was opened there.
LEMMA KOReaderMeasures ==
    ASSUME SourcesInv, NEW stat, FromKOReader(stat)
    PROVE  MeasuredSomewhere(KeyOf[stat.title])
<1>1. PICK j \in DOMAIN koreader : stat = ReadStats(koreader[j])
  BY DEF FromKOReader
<1>2. stat.title = koreader[j].title
  BY <1>1 DEF ReadStats
<1> QED
  BY <1>2 DEF MeasuredSomewhere

\* A stat that measures something, of whatever source, was measured there.
LEMMA KoboMeasures ==
    ASSUME SourcesInv, NEW stat, FromKobo(stat), Measured(stat)
    PROVE  MeasuredSomewhere(KeyOf[stat.title])
<1>1. PICK t \in DOMAIN kobo : stat = KoboStat(t)
  BY DEF FromKobo
<1>2. /\ stat.title = t /\ stat.place = kobo[t].place
      /\ stat.spent = (kobo[t].place > 0) /\ stat.opened = kobo[t].opened
  BY <1>1 DEF KoboStat
<1>3. kobo[t].place > 0 => kobo[t].opened
  BY KoboStatType
<1>4. kobo[t].opened
  BY <1>2, <1>3 DEF Measured
<1> QED
  BY <1>2, <1>4 DEF MeasuredSomewhere

\* A row that is emitted was measured.
LEMMA RowMeasures ==
    ASSUME SourcesInv, NEW r \in RowsOf(Reader)
    PROVE  MeasuredSomewhere(KeyOf[r.title])
<1> DEFINE u == Reader
<1>1. Emitted(r.percent, r.spent)
  BY RowsOfAre
<1>2. PICK l \in links : l.user = u /\ l.book \in DOMAIN catalog /\ r = WebRow(syncs, u, l)
  BY RowsOfAre DEF FromRow
<1> DEFINE sync == SyncByBook(syncs, u, l.book)
           k == KeyOf[r.title]
           rows == {s \in syncs : s.user = u /\ s.book = l.book}
<1>3. /\ r.title = catalog[l.book] /\ r.spent = sync.spent
      /\ r.percent = IF l.status = "finished" THEN Finished ELSE sync.percent
  BY <1>2 DEF WebRow
<1>4. l.book \in Copies(k)
  BY <1>2, <1>3 DEF Copies
<1>5. CASE l.status = "finished"
  BY <1>2, <1>4, <1>5 DEF MeasuredSomewhere, Mine
<1>6. CASE l.status # "finished"
  <2>1. sync.percent # None \/ sync.spent
    BY <1>1, <1>3, <1>6 DEF Emitted
  <2>2. sync # NoSync
    BY <2>1 DEF NoSync
  <2>3. rows # {} /\ rows = {sync}
    BY <2>2, SyncByBookIs
  <2> HIDE DEF sync
  <2>4. sync \in syncs /\ sync.user = u /\ sync.book = l.book
    BY <2>3
  <2>5. sync \in Mine(syncs, k)
    BY <1>4, <2>4 DEF Mine
  <2> HIDE DEF k
  <2>6. MeasuredSomewhere(k)
    BY <2>1, <2>5 DEF MeasuredSomewhere
  <2> QED
    BY <2>6 DEF k
<1> QED
  BY <1>5, <1>6

\* A state that is not unread has progress, or a stat that measures something.
LEMMA StatusNeedsMeasure ==
    ASSUME NEW stat, NEW dp, stat = Nothing \/ stat \in ReadingStat,
           Status(stat, dp) # "unread"
    PROVE  dp # Nothing \/ (stat # Nothing /\ Measured(stat))
<1> SUFFICES ASSUME dp = Nothing PROVE stat # Nothing /\ Measured(stat)
  OBVIOUS
<1>1. CASE stat = Nothing
  <2>1. PercentComplete(stat, dp) = 0
    BY <1>1 DEF PercentComplete
  <2> QED
    BY <1>1, <2>1 DEF Status, Finished
<1>2. CASE stat # Nothing
  <2>1. stat.place \in Place /\ stat.sized \in BOOLEAN
    BY <1>2 DEF ReadingStat
  <2>2. PercentComplete(stat, dp) = IF stat.sized THEN stat.place ELSE 0
    BY <1>2, <2>1 DEF PercentComplete
  <2>3. (stat.sized /\ stat.place = Finished) \/ PercentComplete(stat, dp) = Finished
        \/ PercentComplete(stat, dp) > 0 \/ stat.spent
    BY <1>2 DEF Status
  <2>4. stat.place > 0 \/ stat.spent
    BY <2>1, <2>2, <2>3 DEF Place, Finished
  <2> QED
    BY <1>2, <2>4 DEF Measured
<1> QED
  BY <1>1, <1>2

\* A row that exists is no measurement (models.py:256).
THEOREM MeterIsMeasuredHolds == LibrarySpec => []MeterIsMeasured
<1>1. SourcesInv => MeterIsMeasured
  <2> SUFFICES ASSUME SourcesInv, NEW s \in Range(States),
                      ProgressRecorded(s) \/ s.status # "unread"
               PROVE  MeasuredSomewhere(s.key)
    BY DEF MeterIsMeasured
  <2> DEFINE u == Reader
             k == s.key
  <2>1. /\ s.stat = Winner(Stats(u), k)
        /\ s.progress = ProgressFor(s.stat, Merged(u))
        /\ s.status = Status(s.stat, s.progress)
    BY StateIs DEF States
  <2>2. s.progress # Nothing => s.stat # Nothing
    BY <2>1 DEF ProgressFor
  <2>3. s.stat # Nothing => \E i \in DOMAIN Stats(u) :
            /\ s.stat = Stats(u)[i] /\ KeyOf[Stats(u)[i].title] = k
            /\ Stats(u)[i] \in ReadingStat
    <3>1. \A i \in DOMAIN Stats(u) : Stats(u)[i] \in ReadingStat
      <4>1. Stats(u) \in Seq(ReadingStat)
        BY StatsAre
      <4> QED
        BY <4>1
    <3> QED
      BY <2>1, <3>1, WinnerIsStat
  <2>4. s.progress # Nothing \/ (s.stat # Nothing /\ Measured(s.stat))
    BY <2>1, <2>3, StatusNeedsMeasure DEF ProgressRecorded
  <2>5. PICK i \in DOMAIN Stats(u) : /\ s.stat = Stats(u)[i] /\ KeyOf[s.stat.title] = k
                                     /\ s.stat \in ReadingStat
    BY <2>2, <2>3, <2>4
  <2>6. FromKOReader(s.stat) \/ FromKobo(s.stat) \/ FromWeb(u, s.stat)
    BY <2>5, StatsAre, DeviceStatsAre
  <2>7. CASE FromKOReader(s.stat)
    BY <2>5, <2>7, KOReaderMeasures
  <2>8. CASE FromWeb(u, s.stat)
    <3>1. PICK r \in RowsOf(u) : s.stat = WebStat(r)
      BY <2>8 DEF FromWeb
    <3>2. s.stat.title = r.title
      BY <3>1 DEF WebStat
    <3> QED
      BY <2>5, <3>2, RowMeasures
  <2>9. CASE FromKobo(s.stat) /\ Measured(s.stat)
    BY <2>5, <2>9, KoboMeasures
  <2>10. CASE s.progress # Nothing
    <3> DEFINE key == s.stat.key
    <3>1. key \in DOMAIN Merged(u)
      BY <2>1, <2>10 DEF ProgressFor
    <3>2. key \in DOMAIN Kosync(DeviceStats) \/ key \in DOMAIN Rekeyed(u)
      BY <3>1 DEF Merged, MergeProgress
    <3>3. k = Filed(key) /\ (key \in Doc => FromKOReader(s.stat))
      BY <2>5, KeyTells
    <3>4. CASE key \in DOMAIN Kosync(DeviceStats)
      <4>1. key \in DOMAIN remote
        BY <3>4 DEF Kosync
      <4>2. key \in Doc
        <5>1. remote \in Partial(Doc, Answer)
          BY DEF SourcesInv
        <5> QED
          BY <4>1, <5>1, PartialElim
      <4> QED
        BY <2>7, <3>3, <4>2
    <3>5. CASE key \in DOMAIN Rekeyed(u)
      <4>1. k \in DOMAIN WebProgress(Web(u))
        BY <3>3, <3>5, RekeyedIs
      <4>2. PICK r \in RowsOf(u) : KeyOf[r.title] = k
        BY <4>1, WebProgressIs
      <4> QED
        BY <4>2, RowMeasures
    <3> QED
      BY <3>2, <3>4, <3>5
  <2> QED
    BY <2>4, <2>6, <2>7, <2>8, <2>9, <2>10
<1> QED
  BY <1>1, SourcesCorrect, PTL

(***************************************************************************)
(* The freshest wins.                                                      *)
(***************************************************************************)
\* A reader's row says what anyone who reads both tables would say.
LEMMA RowSays ==
    ASSUME SourcesInv, NEW l \in links, l.book \in DOMAIN catalog
    PROVE  LET r == WebRow(syncs, l.user, l)
           IN  r.percent = PlaceOnTheWeb(l) /\ r.at = TimeOnTheWeb(l)
<1> DEFINE u == l.user
           rows == {s \in syncs : s.user = u /\ s.book = l.book}
           sync == SyncByBook(syncs, u, l.book)
           r == WebRow(syncs, u, l)
<1>1. /\ r.percent = IF l.status = "finished" THEN Finished ELSE sync.percent
      /\ r.at = Latest({sync.modified, l.started, l.modified})
  BY DEF WebRow
<1>2. /\ rows = {} => sync = NoSync
      /\ rows # {} => rows = {sync} /\ sync \in Sync
  BY SyncByBookIs
<1>3. l.started \in Time \cup {0} /\ l.modified \in Time
  <2>1. l \in Link
    BY DEF SourcesInv
  <2> QED
    BY <2>1 DEF Link
<1>4. TimeOnTheWeb(l) = Latest({l.modified, l.started} \cup {s.modified : s \in rows})
  BY DEF TimeOnTheWeb
<1> HIDE DEF sync, r
<1>5. CASE rows = {}
  <2>1. sync.percent = None /\ sync.modified = 0
    BY <1>2, <1>5 DEF NoSync
  <2>2. r.percent = PlaceOnTheWeb(l)
    BY <1>1, <1>5, <2>1 DEF PlaceOnTheWeb
  <2>3. r.at = TimeOnTheWeb(l)
    <3>1. Latest({0, l.started, l.modified}) = Latest({l.modified, l.started})
      <4>1. l.modified \in Int /\ l.started \in Int /\ l.modified >= 1
        BY <1>3, BoundsAssumption DEF Time
      <4> DEFINE A == {0, l.started, l.modified}
                 B == {l.modified, l.started}
      <4>2. /\ A \in SUBSET Int /\ B \in SUBSET Int /\ B # {} /\ A # {} /\ B \subseteq A
            /\ \A x \in A : x \in B \/ x = 0
            /\ \E x \in B : x >= 1
        BY <4>1
      <4>3. IsFiniteSet(A) /\ IsFiniteSet(B)
        <5>1. A \subseteq 0..MaxTime /\ B \subseteq 0..MaxTime
          BY <1>3, BoundsAssumption DEF Time
        <5>2. IsFiniteSet(0..MaxTime)
          BY BoundsAssumption, FS_Interval
        <5> HIDE DEF A, B
        <5> QED
          BY <5>1, <5>2, FS_Subset
      <4> HIDE DEF A, B
      <4>4. /\ Latest(A) \in A /\ \A x \in A : x <= Latest(A)
            /\ Latest(B) \in B /\ \A x \in B : x <= Latest(B)
        BY <4>2, <4>3, LatestIs
      <4>5. Latest(A) \in B
        <5>1. PICK x \in B : x >= 1
          BY <4>2
        <5>2. x <= Latest(A) /\ x \in Int /\ Latest(A) \in Int
          BY <4>2, <4>4, <5>1
        <5>3. Latest(A) # 0
          BY <5>1, <5>2
        <5> QED
          BY <4>2, <4>4, <5>3
      <4>6. Latest(A) <= Latest(B) /\ Latest(B) <= Latest(A)
        BY <4>2, <4>4, <4>5
      <4>7. Latest(A) \in Int /\ Latest(B) \in Int
        BY <4>2, <4>4
      <4>8. Latest(A) = Latest(B)
        BY <4>6, <4>7
      <4> QED
        BY <4>8 DEF A, B
    <3>2. {l.modified, l.started} \cup {s.modified : s \in rows} = {l.modified, l.started}
      BY <1>5
    <3> QED
      BY <1>1, <1>4, <2>1, <3>1, <3>2
  <2> QED
    BY <2>2, <2>3 DEF r
<1>6. CASE rows # {}
  <2>1. rows = {sync}
    BY <1>2, <1>6
  <2>2. (CHOOSE s \in syncs : s.user = l.user /\ s.book = l.book) = sync
    BY <2>1
  <2>3. r.percent = PlaceOnTheWeb(l)
    BY <1>1, <2>1, <2>2 DEF PlaceOnTheWeb
  <2>4. {l.modified, l.started} \cup {s.modified : s \in rows}
          = {sync.modified, l.started, l.modified}
    <3> HIDE DEF rows
    <3> QED
      BY <2>1
  <2> QED
    BY <1>1, <1>4, <2>3, <2>4 DEF r
<1> QED
  BY <1>5, <1>6

\* Of a book the catalogue has once, the web says one thing at most.
LEMMA OneRow ==
    ASSUME SourcesInv, NEW u, NEW k, Cardinality(Copies(k)) = 1, u = Reader,
           NEW l \in Mine(links, k), NEW m \in Mine(links, k)
    PROVE  l = m
<1>1. IsFiniteSet(Copies(k))
  <2>1. Copies(k) \subseteq DOMAIN catalog
    BY DEF Copies
  <2> QED
    BY <2>1, FS_Subset DEF SourcesInv
<1>2. PICK b : Copies(k) = {b}
  BY <1>1, FS_Singleton
<1>3. l \in links /\ m \in links /\ l.user = m.user /\ l.book = b /\ m.book = b
  BY <1>2 DEF Mine
<1> QED
  BY <1>3 DEF SourcesInv, OneEach

\* Progress is not the absence of it.
LEMMA ProgressIsSome ==
    ASSUME NEW p, NEW a, NEW d
    PROVE  [place |-> p, at |-> a, device |-> d] # Nothing
<1> DEFINE r == [place |-> p, at |-> a, device |-> d]
<1>1. DOMAIN r = {"place", "at", "device"}
  OBVIOUS
<1>2. DOMAIN Nothing = {"unread"}
  BY DEF Nothing
<1>3. "place" \in DOMAIN r /\ "place" \notin DOMAIN Nothing
  BY <1>1, <1>2
<1> QED
  BY <1>3

\* The rows that place a reader in a book.
Placing(k) == {l \in Mine(links, k) : PlaceOnTheWeb(l) # None}

\* The web's progress of a book is what its one placing row says.
LEMMA WebSays ==
    ASSUME SourcesInv, NEW k, Cardinality(Copies(k)) = 1
    PROVE  LET wp == WebProgress(Web(Reader))
           IN  /\ \A l \in Placing(k) :
                     /\ k \in DOMAIN wp
                     /\ wp[k] = [place |-> PlaceOnTheWeb(l), at |-> TimeOnTheWeb(l),
                                 device |-> "Calibre-Web"]
                     /\ TimeOnTheWeb(l) \in Int
                     /\ Winner(Stats(Reader), k) # Nothing
               /\ k \in DOMAIN wp => Placing(k) # {}
<1> DEFINE u == Reader
           wp == WebProgress(Web(u))
<1>1. ASSUME k \in DOMAIN wp
      PROVE  \E l \in Placing(k) :
                /\ TimeOnTheWeb(l) \in Int
                /\ wp[k] = [place |-> PlaceOnTheWeb(l), at |-> TimeOnTheWeb(l),
                            device |-> "Calibre-Web"]
  <2>1. PICK r \in RowsOf(u) :
          /\ r.percent # None /\ KeyOf[r.title] = k
          /\ wp[k] = [place |-> r.percent, at |-> r.at, device |-> "Calibre-Web"]
    BY <1>1, WebProgressIs
  <2>2. r \in WebRowType /\ FromRow(u, r)
    BY RowsOfAre
  <2>3. PICK l \in links : l.user = u /\ l.book \in DOMAIN catalog /\ r = WebRow(syncs, u, l)
    BY <2>2 DEF FromRow
  <2>4. r.percent = PlaceOnTheWeb(l) /\ r.at = TimeOnTheWeb(l)
    BY <2>3, RowSays
  <2>5. r.title = catalog[l.book]
    BY <2>3 DEF WebRow
  <2>6. l \in Placing(k)
    BY <2>1, <2>3, <2>4, <2>5 DEF Placing, Mine, Copies
  <2>7. r.at \in Int
    BY <2>2, BoundsAssumption DEF WebRowType
  <2> HIDE DEF wp
  <2> QED
    BY <2>1, <2>4, <2>6, <2>7
<1>2. ASSUME NEW l \in Placing(k)
      PROVE  k \in DOMAIN wp /\ Winner(Stats(u), k) # Nothing
  <2> DEFINE r == WebRow(syncs, u, l)
  <2>1. /\ l \in links /\ l.user = u /\ l.book \in DOMAIN catalog /\ KeyOf[catalog[l.book]] = k
        /\ PlaceOnTheWeb(l) # None
    BY DEF Placing, Mine, Copies
  <2>2. r.percent # None
    BY <2>1, RowSays
  <2>3. r.title = catalog[l.book]
    BY DEF WebRow
  <2>4. r \in RowsOf(u)
    BY <2>1, <2>2, RowsOfAre DEF Emitted
  <2> HIDE DEF r
  <2>5. k \in DOMAIN wp
    BY <2>1, <2>2, <2>3, <2>4, WebProgressIs
  <2>6. PICK i \in DOMAIN Stats(u) : Stats(u)[i] = WebStat(r)
    BY <2>4, StatsAre
  <2>7. KeyOf[Stats(u)[i].title] = k
    BY <2>1, <2>3, <2>6 DEF WebStat
  <2> HIDE DEF wp
  <2>8. Winner(Stats(u), k) # Nothing
    BY <2>7, FiledIsWon
  <2> QED
    BY <2>5, <2>8
<1>3. \A l, m \in Placing(k) : l = m
  BY OneRow DEF Placing
<1> HIDE DEF wp
<1> QED
  BY <1>1, <1>2, <1>3 DEF wp

\* What the sync server says about the file a book goes by.
LEMMA ServerSays ==
    ASSUME SourcesInv, NEW u, NEW i \in DOMAIN Stats(u)
    PROVE  LET key == Stats(u)[i].key
               kosync == Kosync(DeviceStats)
           IN  /\ key \in DOMAIN kosync <=> key \in DOMAIN remote
               /\ key \in DOMAIN remote =>
                     /\ kosync[key] = [place |-> remote[key].place, at |-> remote[key].at,
                                       device |-> "kosync"]
                     /\ remote[key].at \in Int
<1> DEFINE key == Stats(u)[i].key
           kosync == Kosync(DeviceStats)
           asked == {DeviceStats[j].key : j \in DOMAIN DeviceStats}
<1>1. /\ DOMAIN kosync = DOMAIN remote \cap asked
      /\ \A d \in DOMAIN kosync : kosync[d] = [place |-> remote[d].place, at |-> remote[d].at,
                                               device |-> "kosync"]
  BY DEF Kosync
<1>2. ASSUME key \in DOMAIN remote PROVE key \in asked /\ remote[key].at \in Int
  <2>1. remote \in Partial(Doc, Answer)
    BY DEF SourcesInv
  <2>2. key \in Doc /\ remote[key] \in Answer
    BY <1>2, <2>1, PartialElim
  <2>3. FromKOReader(Stats(u)[i])
    BY <2>2, KeyTells
  <2>4. PICK j \in DOMAIN koreader : Stats(u)[i] = ReadStats(koreader[j])
    BY <2>3 DEF FromKOReader
  <2>5. PICK n \in DOMAIN DeviceStats : DeviceStats[n] = Stats(u)[i]
    BY <2>4, DeviceStatsAre
  <2>6. remote[key].at \in Time
    BY <2>2 DEF Answer
  <2>7. remote[key].at \in Int
    BY <2>6, BoundsAssumption DEF Time
  <2> QED
    BY <2>5, <2>7
<1> HIDE DEF kosync
<1> QED
  BY <1>1, <1>2 DEF kosync

\* Of what is asserted of a book, the progress shown is the freshest, under whichever
\* key it was filed (refresh.py:298).
THEOREM FreshestWinsHolds == LibrarySpec => []FreshestWins
<1>1. SourcesInv => FreshestWins
  <2> DEFINE u == Reader
  <2> SUFFICES ASSUME SourcesInv, NEW s \in Range(States), Cardinality(Copies(s.key)) = 1
               PROVE  IF Asserted(s) = {} THEN s.progress = Nothing
                      ELSE LET shown == [place |-> s.progress.place, at |-> s.progress.at]
                           IN  /\ s.progress # Nothing
                               /\ shown \in Asserted(s)
                               /\ \A a \in Asserted(s) : a.at <= shown.at
    BY DEF FreshestWins
  <2> DEFINE k == s.key
             stat == s.stat
             key == stat.key
             wp == WebProgress(Web(u))
             kosync == Kosync(DeviceStats)
             web == Rekeyed(u)
             says(l) == [place |-> PlaceOnTheWeb(l), at |-> TimeOnTheWeb(l)]
             answer == [place |-> remote[key].place, at |-> remote[key].at]
             P == stat # Nothing /\ key \in DOMAIN remote
  <2>1. /\ stat = Winner(Stats(u), k)
        /\ s.progress = ProgressFor(stat, Merged(u))
    BY StateIs DEF States
  <2>2. /\ \A a : a \in Asserted(s) <=>
              (P /\ a = answer) \/ (\E l \in Placing(k) : a = says(l))
    BY DEF Asserted, Placing
  <2>3. /\ \A l \in Placing(k) :
              /\ k \in DOMAIN wp
              /\ wp[k] = [place |-> PlaceOnTheWeb(l), at |-> TimeOnTheWeb(l),
                          device |-> "Calibre-Web"]
              /\ TimeOnTheWeb(l) \in Int
              /\ stat # Nothing
        /\ k \in DOMAIN wp => Placing(k) # {}
    BY <2>1, WebSays
  <2>4. CASE stat = Nothing
    <3>1. Placing(k) = {}
      BY <2>3, <2>4
    <3>2. Asserted(s) = {}
      BY <2>2, <2>4, <3>1
    <3>3. s.progress = Nothing
      BY <2>1, <2>4 DEF ProgressFor
    <3> QED
      BY <3>2, <3>3
  <2>5. CASE stat # Nothing
    <3>1. PICK i \in DOMAIN Stats(u) : stat = Stats(u)[i] /\ KeyOf[Stats(u)[i].title] = k
      BY <2>1, <2>5, WinnerIsStat
    <3>2. /\ key \in DOMAIN kosync <=> key \in DOMAIN remote
          /\ key \in DOMAIN remote =>
                /\ kosync[key] = [place |-> remote[key].place, at |-> remote[key].at,
                                  device |-> "kosync"]
                /\ remote[key].at \in Int
      BY <3>1, ServerSays
    <3>3. key \in DOMAIN web <=> k \in DOMAIN wp
      <4>1. Filed(key) = k
        BY <3>1, KeyTells
      <4>2. key = Target(DeviceStats, k)
        BY <2>1, <2>5, TargetIs
      <4> QED
        BY <4>1, <4>2, RekeyedIs
    <3>4. key \in DOMAIN web => web[key] = wp[k]
      <4>1. Filed(key) = k
        BY <3>1, KeyTells
      <4> QED
        BY <4>1, RekeyedIs
    <3>5. s.progress =
            IF key \in DOMAIN web /\ (key \in DOMAIN kosync => web[key].at > kosync[key].at)
            THEN web[key]
            ELSE IF key \in DOMAIN kosync THEN kosync[key] ELSE Nothing
      BY <2>1, <2>5 DEF ProgressFor, Merged, MergeProgress
    <3> HIDE DEF stat, key, wp, kosync, web, k, u, P
    <3>6. P <=> key \in DOMAIN kosync
      BY <2>5, <3>2 DEF P
    <3>7. CASE ~P /\ key \notin DOMAIN web
      <4>1. Placing(k) = {}
        BY <2>3, <3>3, <3>7
      <4>2. Asserted(s) = {}
        BY <2>2, <3>7, <4>1
      <4>3. s.progress = Nothing
        BY <3>5, <3>6, <3>7
      <4> QED
        BY <4>2, <4>3
    <3>8. CASE key \in DOMAIN web
      <4>1. PICK l \in Placing(k) : TRUE
        BY <2>3, <3>3, <3>8
      <4>2. /\ web[key] = [place |-> PlaceOnTheWeb(l), at |-> TimeOnTheWeb(l),
                           device |-> "Calibre-Web"]
            /\ TimeOnTheWeb(l) \in Int
        BY <2>3, <3>4, <3>8
      <4>3. \A m \in Placing(k) : says(m) = says(l)
        <5>1. ASSUME NEW m \in Placing(k)
              PROVE  wp[k].place = PlaceOnTheWeb(m) /\ wp[k].at = TimeOnTheWeb(m)
          <6>1. wp[k] = [place |-> PlaceOnTheWeb(m), at |-> TimeOnTheWeb(m),
                         device |-> "Calibre-Web"]
            BY <2>3
          <6> QED
            BY <6>1
        <5> QED
          BY <5>1
      <4>4. says(l) \in Asserted(s)
        BY <2>2
      <4>5. \A a \in Asserted(s) : (P /\ a = answer) \/ a = says(l)
        BY <2>2, <4>3
      <4>6. CASE key \in DOMAIN kosync => web[key].at > kosync[key].at
        <5>1. s.progress = web[key]
          BY <3>5, <3>8, <4>6
        <5>2. s.progress # Nothing
          BY <4>2, <5>1, ProgressIsSome
        <5>3. s.progress.place = PlaceOnTheWeb(l) /\ s.progress.at = TimeOnTheWeb(l)
          BY <4>2, <5>1
        <5>4. P => answer.at <= TimeOnTheWeb(l)
          <6>1. P => remote[key].at \in Int /\ kosync[key].at = remote[key].at
            BY <3>2, <3>6
          <6>2. web[key].at = TimeOnTheWeb(l) /\ TimeOnTheWeb(l) \in Int
            BY <4>2
          <6> QED
            BY <3>6, <4>6, <6>1, <6>2
        <5>5. \A a \in Asserted(s) : a.at <= TimeOnTheWeb(l)
          BY <4>2, <4>5, <5>4
        <5> QED
          BY <4>4, <5>2, <5>3, <5>5
      <4>7. CASE key \in DOMAIN kosync /\ ~(web[key].at > kosync[key].at)
        <5>1. s.progress = kosync[key] /\ P
          BY <3>5, <3>6, <4>7
        <5>2. /\ kosync[key] = [place |-> remote[key].place, at |-> remote[key].at,
                                device |-> "kosync"]
              /\ remote[key].at \in Int
          BY <3>2, <4>7
        <5>3. s.progress # Nothing
          BY <5>1, <5>2, ProgressIsSome
        <5>4. s.progress.place = remote[key].place /\ s.progress.at = remote[key].at
          BY <5>1, <5>2
        <5>5. answer \in Asserted(s)
          BY <2>2, <5>1
        <5>6. says(l).at <= remote[key].at
          <6>1. web[key].at = TimeOnTheWeb(l) /\ kosync[key].at = remote[key].at
            BY <4>2, <5>2
          <6> QED
            BY <4>2, <4>7, <5>2, <6>1
        <5>7. \A a \in Asserted(s) : a.at <= remote[key].at
          BY <4>5, <5>2, <5>6
        <5> QED
          BY <5>3, <5>4, <5>5, <5>7
      <4> QED
        BY <4>6, <4>7
    <3>9. CASE P /\ key \notin DOMAIN web
      <4>1. Placing(k) = {}
        BY <2>3, <3>3, <3>9
      <4>2. \A a : a \in Asserted(s) <=> a = answer
        BY <2>2, <3>9, <4>1
      <4>3. /\ s.progress = kosync[key]
            /\ kosync[key] = [place |-> remote[key].place, at |-> remote[key].at,
                              device |-> "kosync"]
            /\ remote[key].at \in Int
        BY <3>2, <3>5, <3>6, <3>9
      <4>4. s.progress # Nothing
        BY <4>3, ProgressIsSome
      <4>5. s.progress.place = remote[key].place /\ s.progress.at = remote[key].at
        BY <4>3
      <4> QED
        BY <4>2, <4>3, <4>4, <4>5
    <3> QED
      BY <3>7, <3>8, <3>9
  <2> QED
    BY <2>4, <2>5
<1> QED
  BY <1>1, SourcesCorrect, PTL

\* Progress of the server and of the web is at a place, and of a time.
LEMMA ProgressTyped ==
    ASSUME SourcesInv, NEW u, NEW key \in DOMAIN Merged(u)
    PROVE  Merged(u)[key] \in DeviceProgress
<1> DEFINE kosync == Kosync(DeviceStats)
           web == Rekeyed(u)
           wp == WebProgress(Web(u))
<1>1. /\ key \in DOMAIN kosync \/ key \in DOMAIN web
      /\ \/ key \in DOMAIN kosync /\ Merged(u)[key] = kosync[key]
         \/ key \in DOMAIN web /\ Merged(u)[key] = web[key]
  BY DEF Merged, MergeProgress
<1>2. ASSUME key \in DOMAIN kosync PROVE kosync[key] \in DeviceProgress
  <2>1. key \in DOMAIN remote /\ kosync[key] = [place |-> remote[key].place,
                                                at |-> remote[key].at, device |-> "kosync"]
    BY <1>2 DEF Kosync
  <2>2. remote[key] \in Answer
    <3>1. remote \in Partial(Doc, Answer)
      BY DEF SourcesInv
    <3> QED
      BY <2>1, <3>1, PartialElim
  <2>3. remote[key].place \in Place /\ remote[key].at \in 0..MaxTime
    <3>1. Time \subseteq 0..MaxTime
      BY BoundsAssumption DEF Time
    <3> QED
      BY <2>2, <3>1 DEF Answer
  <2> HIDE DEF kosync
  <2> QED
    BY <2>1, <2>3 DEF DeviceProgress
<1>3. ASSUME key \in DOMAIN web PROVE web[key] \in DeviceProgress
  <2>1. Filed(key) \in DOMAIN wp /\ web[key] = wp[Filed(key)]
    BY <1>3, RekeyedIs
  <2>2. PICK r \in RowsOf(u) :
          /\ r.percent # None
          /\ wp[Filed(key)] = [place |-> r.percent, at |-> r.at, device |-> "Calibre-Web"]
    BY <2>1, WebProgressIs
  <2>3. r.percent \in Place /\ r.at \in 0..MaxTime
    BY <2>2, RowsOfAre DEF WebRowType
  <2> HIDE DEF web, wp
  <2> QED
    BY <2>1, <2>2, <2>3 DEF DeviceProgress
<1> HIDE DEF kosync, web
<1> QED
  BY <1>1, <1>2, <1>3

\* The sources are of their types, and so is whatever is made of them.
THEOREM LibraryTypeCorrect == LibrarySpec => []LibraryTypeOK
<1> DEFINE Counted == named \in BOOLEAN /\ changes \in 0..MaxChanges
<1>1. LibrarySpec => []Counted
  <2>1. LibraryInit => Counted
    BY BoundsAssumption DEF LibraryInit
  <2>2. Counted /\ [LibraryNext]_libraryVars => Counted'
    <3>1. ASSUME [LibraryNext]_libraryVars
          PROVE  UNCHANGED <<named, changes>> \/ (Change /\ (named' = named \/ named' = ~named))
      <4>1. CASE \E b \in Bid : EditCatalog(b)
        BY <4>1 DEF EditCatalog
      <4>2. CASE \E t \in Title : CopyToKobo(t) \/ ReadOnKobo(t)
        BY <4>2 DEF CopyToKobo, ReadOnKobo
      <4>3. CASE \E d \in Doc \cup {NoDoc}, t \in Title : ReadOnKOReader(d, t)
        BY <4>3 DEF ReadOnKOReader
      <4>4. CASE \E d \in Doc : SyncKOReader(d)
        BY <4>4 DEF SyncKOReader
      <4>5. ASSUME NEW u, NEW b, NEW w, NEW status, MarkRead(u, b, status, w)
            PROVE  UNCHANGED named /\ Change
        BY <4>5 DEF MarkRead
      <4>6. ASSUME NEW u, NEW b, NEW p, NEW spent, NEW w, SyncKobo(u, b, p, spent, w)
            PROVE  UNCHANGED named /\ Change
        BY <4>6 DEF SyncKobo
      <4>7. CASE \E u \in accounts \cup {Nobody}, b \in Bid, w \in Time :
                   \/ \E status \in {"reading", "finished"} : MarkRead(u, b, status, w)
                   \/ \E spent \in BOOLEAN : SyncKobo(u, b, None, spent, w)
                   \/ \E p \in {1, Finished} : SyncKobo(u, b, p, TRUE, w)
        BY <4>5, <4>6, <4>7
      <4>8. CASE \E u \in User : DeleteUser(u)
        BY <4>8 DEF DeleteUser
      <4>9. CASE NameReader
        BY <4>9 DEF NameReader
      <4>10. CASE UNCHANGED libraryVars
        BY <4>10 DEF libraryVars
      <4> QED
        BY <3>1, <4>1, <4>2, <4>3, <4>4, <4>7, <4>8, <4>9, <4>10 DEF LibraryNext
    <3>2. ASSUME Counted, Change PROVE changes' \in 0..MaxChanges
      BY <3>2, BoundsAssumption DEF Change
    <3>3. ASSUME Counted, named' = named \/ named' = ~named PROVE named' \in BOOLEAN
      BY <3>3
    <3> QED
      BY <3>1, <3>2, <3>3
  <2> HIDE DEF Counted
  <2> QED
    BY <2>1, <2>2, PTL DEF LibrarySpec
<1>2. SourcesInv /\ Counted => LibraryTypeOK
  <2> SUFFICES ASSUME SourcesInv, Counted PROVE LibraryTypeOK
    OBVIOUS
  <2>1. SourcesOK
    BY DEF SourcesOK, SourcesInv, KOReaderRow, Volume, Answer, Link, Sync
  <2>2. ASSUME NEW s \in Range(States)
        PROVE  /\ s.stat = Nothing \/ s.stat \in ReadingStat
               /\ s.progress = Nothing \/ s.progress \in DeviceProgress
    <3> DEFINE u == Reader
    <3>1. s.stat = Winner(Stats(u), s.key) /\ s.progress = ProgressFor(s.stat, Merged(u))
      BY StateIs DEF States
    <3>2. s.stat # Nothing => s.stat \in ReadingStat
      <4>1. Stats(u) \in Seq(ReadingStat)
        BY StatsAre
      <4>2. \A i \in DOMAIN Stats(u) : Stats(u)[i] \in ReadingStat
        BY <4>1
      <4> QED
        BY <3>1, <4>2, WinnerIsStat
    <3>3. s.progress = Nothing \/ s.progress \in DeviceProgress
      BY <3>1, ProgressTyped DEF ProgressFor
    <3> QED
      BY <3>2, <3>3
  <2> QED
    BY <2>1, <2>2 DEF LibraryTypeOK
<1> QED
  BY <1>1, <1>2, SourcesCorrect, PTL
==============================================================================
