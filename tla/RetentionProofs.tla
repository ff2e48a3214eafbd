-------------------------- MODULE RetentionProofs --------------------------
(***************************************************************************)
(* What apply_policy does to a record, for every set of books, every       *)
(* number of days and every policy; and lemmas on finite sets that the     *)
(* proofs about several modules share.                                     *)
(***************************************************************************)
EXTENDS Retention, SequencesExt, FiniteSetTheorems, TLAPS

(***************************************************************************)
(* Types.                                                                  *)
(***************************************************************************)

\* A shelf is a function from some books to rows, and every such function is
\* one.
LEMMA ShelfIntro ==
    ASSUME NEW shelf, shelf = [b \in DOMAIN shelf |-> shelf[b]],
           DOMAIN shelf \subseteq Book, \A b \in DOMAIN shelf : shelf[b] \in Row
    PROVE  shelf \in Shelf
<1>1. shelf \in [DOMAIN shelf -> Row]
  OBVIOUS
<1>2. DOMAIN shelf \in SUBSET Book
  OBVIOUS
<1> QED
  BY <1>1, <1>2 DEF Shelf

\* And every shelf is a function from books to rows.
LEMMA ShelfElim ==
    ASSUME NEW shelf \in Shelf
    PROVE  /\ shelf = [b \in DOMAIN shelf |-> shelf[b]]
           /\ DOMAIN shelf \subseteq Book
           /\ \A b \in DOMAIN shelf : shelf[b] \in Row
<1>1. PICK D \in SUBSET Book : shelf \in [D -> Row]
  BY DEF Shelf
<1> QED
  BY <1>1

\* Pruning a row clears amounts and removes days; what is left is still a row.
LEMMA PruneRowType ==
    ASSUME NEW row \in Row, NEW cuts
    PROVE  PruneRow(row, cuts) \in Row /\ PruneRow(row, cuts).owned = row.owned
<1> DEFINE stripped == {StripHistory(s) : s \in row.stat}
           left == {d \in row.progress : Retained(d, cuts)}
<1>1. row.owned \in BOOLEAN /\ row.stat \in Optional(Stat) /\ row.progress \subseteq Stamp
  BY DEF Row
<1>2. 0 \in Stamp /\ 0 \in 0..MaxLog
  BY MaxDayAssumption, MaxLogAssumption DEF Stamp
<1>3. \A s \in Stat : StripHistory(s) \in Stat
  BY <1>2 DEF Stat, StripHistory
<1>4. stripped \in Optional(Stat)
  BY <1>1, <1>3 DEF Optional
<1>5. left \in SUBSET Stamp
  BY <1>1
<1>6. CASE cuts = {}
  BY <1>6 DEF PruneRow
<1>7. CASE cuts # {}
  <2>1. PruneRow(row, cuts)
          = [row EXCEPT !.stat = IF StatIsStale(row, cuts) THEN stripped ELSE row.stat,
                        !.progress = left]
    BY <1>7 DEF PruneRow
  <2>2. (IF StatIsStale(row, cuts) THEN stripped ELSE row.stat) \in Optional(Stat)
    BY <1>1, <1>4
  <2> HIDE DEF stripped, left
  <2> QED
    BY <2>1, <2>2, <1>1, <1>5 DEF Row
<1> QED
  BY <1>6, <1>7

\* apply_policy returns a list of states of the books it was given.
LEMMA PruneType ==
    ASSUME NEW shelf \in Shelf, NEW policy, NEW today
    PROVE  /\ Prune(shelf, policy, today) \in Shelf
           /\ \A b \in DOMAIN shelf :
                b \in DOMAIN Prune(shelf, policy, today) <=> ~IsForgotten(shelf, b, policy)
           /\ \A b \in DOMAIN Prune(shelf, policy, today) :
                /\ b \in DOMAIN shelf
                /\ Prune(shelf, policy, today)[b].owned = shelf[b].owned
<1> DEFINE pruned == Prune(shelf, policy, today)
           left == {b \in DOMAIN shelf : ~IsForgotten(shelf, b, policy)}
<1>1. pruned = [b \in left |-> PruneRow(shelf[b], Cutoffs(policy, today))]
  BY DEF Prune
<1>2. DOMAIN pruned = left /\ pruned = [b \in DOMAIN pruned |-> pruned[b]]
  BY <1>1
<1>3. \A b \in left : pruned[b] \in Row /\ pruned[b].owned = shelf[b].owned
  BY <1>1, ShelfElim, PruneRowType
<1>4. DOMAIN pruned \subseteq Book
  BY <1>2, ShelfElim
<1>5. pruned \in Shelf
  BY <1>2, <1>3, <1>4, ShelfIntro
<1> QED
  BY <1>2, <1>3, <1>5

\* Days that survive are days.
LEMMA PruneActivityType ==
    ASSUME NEW days \in SUBSET Day, NEW policy, NEW today
    PROVE  PruneActivity(days, policy, today) \in SUBSET Day
BY DEF PruneActivity

(***************************************************************************)
(* Forgetting.                                                             *)
(***************************************************************************)

\* Of two days the later is kept, so the line stays one line and never moves
\* back.
LEMMA LineMovesForward ==
    ASSUME NEW policy \in Policy, NEW line \in Optional(Day)
    PROVE  LET next == WithForgottenBefore(policy, line)
           IN  /\ next \in Policy
               /\ next.forgotten = policy.forgotten
               /\ \A d \in policy.before : \E e \in next.before : e >= d
<1> DEFINE days == policy.before \cup line
           last == {e \in days : \A f \in days : e >= f}
<1>1. policy.before \in Optional(Day) /\ Day \subseteq Int
  BY DEF Policy, Day
<1>2. /\ days \subseteq Int /\ days \subseteq Day
      /\ \A x, y \in policy.before : x = y
      /\ \A x, y \in line : x = y
  BY <1>1 DEF Optional
<1>3. last \in Optional(Day)
  BY <1>1, <1>2 DEF Optional
<1>4. \A d \in policy.before : \E e \in last : e >= d
  <2>1. SUFFICES ASSUME NEW d \in policy.before PROVE \E e \in last : e >= d
    OBVIOUS
  <2>2. CASE \A f \in line : d >= f
    <3>1. d \in days /\ \A f \in days : d >= f
      BY <1>2, <2>2
    <3>2. d \in last /\ d >= d
      BY <3>1, <1>2
    <3> QED
      BY <3>2
  <2>3. CASE \E f \in line : ~(d >= f)
    <3>1. PICK f \in line : ~(d >= f)
      BY <2>3
    <3>2. f \in days /\ f >= d /\ \A g \in days : f >= g
      <4>1. d \in Int /\ f \in Int /\ f >= d
        BY <3>1, <1>2
      <4>2. \A g \in days : g = d \/ g = f
        BY <3>1, <1>2
      <4> QED
        BY <4>1, <4>2, <3>1
    <3>3. f \in last
      BY <3>2
    <3> QED
      BY <3>2, <3>3
  <2> QED
    BY <2>2, <2>3
<1>5. WithForgottenBefore(policy, line) = [policy EXCEPT !.before = last]
  BY DEF WithForgottenBefore
<1> HIDE DEF last
<1> QED
  BY <1>3, <1>4, <1>5 DEF Policy

\* The candidate policy of a forget: a policy that names what the old one named
\* and the book it was given, with a line no earlier.
LEMMA ForgetRemembers ==
    ASSUME NEW policy \in Policy, NEW book \in Optional(Book), NEW line \in Optional(Day)
    PROVE  LET next == WithForgottenBefore(WithForgottenBook(policy, book), line)
           IN  /\ next \in Policy
               /\ next.forgotten = policy.forgotten \cup book
               /\ \A d \in policy.before : \E e \in next.before : e >= d
<1> DEFINE named == WithForgottenBook(policy, book)
<1>1. book \subseteq Book
  BY DEF Optional
<1>2. /\ named \in Policy
      /\ named.forgotten = policy.forgotten \cup book
      /\ named.before = policy.before
  BY <1>1 DEF WithForgottenBook, Policy
<1> HIDE DEF named
<1>3. LET next == WithForgottenBefore(named, line)
      IN  /\ next \in Policy
          /\ next.forgotten = named.forgotten
          /\ \A d \in named.before : \E e \in next.before : e >= d
  BY <1>2, LineMovesForward
<1> QED
  BY <1>2, <1>3 DEF named

\* After apply_policy no state with a book is one the policy names.
LEMMA PruneForgets ==
    ASSUME NEW shelf \in Shelf, NEW policy, NEW today
    PROVE  \A b \in policy.forgotten \cap DOMAIN Prune(shelf, policy, today) :
              ~Prune(shelf, policy, today)[b].owned
<1> DEFINE pruned == Prune(shelf, policy, today)
<1>1. /\ \A b \in DOMAIN shelf : b \in DOMAIN pruned <=> ~IsForgotten(shelf, b, policy)
      /\ \A b \in DOMAIN pruned : b \in DOMAIN shelf /\ pruned[b].owned = shelf[b].owned
  BY PruneType
<1> HIDE DEF pruned
<1>2. \A b \in DOMAIN pruned : ~IsForgotten(shelf, b, policy) /\ pruned[b].owned = shelf[b].owned
  BY <1>1
<1>3. \A b \in policy.forgotten \cap DOMAIN pruned : ~pruned[b].owned
  BY <1>2 DEF IsForgotten
<1> QED
  BY <1>3 DEF pruned

(***************************************************************************)
(* Cut-offs.                                                               *)
(***************************************************************************)

\* Under a cut-off a row either had no retained evidence, and its stat is blank
\* with no progress left but "never", or it had some, and it still has.
LEMMA PruneRowCases ==
    ASSUME NEW row \in Row, NEW cuts, cuts # {}, NEW pruned, pruned = PruneRow(row, cuts)
    PROVE  /\ pruned.progress = {d \in row.progress : Retained(d, cuts)}
           /\ StatIsStale(row, cuts) =>
                /\ pruned.stat = {StripHistory(s) : s \in row.stat}
                /\ Evidence(pruned) = {}
           /\ ~StatIsStale(row, cuts) =>
                /\ pruned.stat = row.stat
                /\ ~StatIsStale(pruned, cuts)
<1> DEFINE stripped == {StripHistory(s) : s \in row.stat}
           left == {d \in row.progress : Retained(d, cuts)}
<1>1. row.stat \subseteq Stat
  BY DEF Row, Optional
<1>2. pruned = [row EXCEPT !.stat = IF StatIsStale(row, cuts) THEN stripped ELSE row.stat,
                           !.progress = left]
  BY DEF PruneRow
<1>3. /\ pruned.stat = IF StatIsStale(row, cuts) THEN stripped ELSE row.stat
      /\ pruned.progress = left
  <2> HIDE DEF stripped, left
  <2> QED
    BY <1>2 DEF Row
<1>4. ASSUME StatIsStale(row, cuts)
      PROVE  Evidence(pruned) = {}
  <2>1. \A s \in stripped : s.day = 0
    BY <1>1 DEF StripHistory, Stat
  <2>2. \A d \in left : d = 0
    BY <1>4 DEF StatIsStale, Evidence
  <2> HIDE DEF stripped, left
  <2> QED
    BY <1>3, <1>4, <2>1, <2>2 DEF Evidence
<1>5. ASSUME ~StatIsStale(row, cuts)
      PROVE  ~StatIsStale(pruned, cuts)
  <2>1. PICK d \in Evidence(row) : Retained(d, cuts)
    BY <1>5 DEF StatIsStale
  <2>2. d \in Evidence(pruned)
    BY <1>3, <1>5, <2>1 DEF Evidence
  <2> QED
    BY <2>1, <2>2 DEF StatIsStale
<1> HIDE DEF stripped, left
<1> QED
  BY <1>3, <1>4, <1>5 DEF stripped, left

\* A stricter set of cut-offs: it is in force whenever the other is, and retains no
\* day that the other does not.
Stricter(weak, strict) ==
    /\ weak # {} => strict # {}
    /\ \A d \in Int : Retained(d, strict) => Retained(d, weak)

\* Pruning a row under some cut-offs makes no difference to pruning it later under
\* stricter ones.
LEMMA PruneRowTwice ==
    ASSUME NEW row \in Row, NEW weak, NEW strict, Stricter(weak, strict)
    PROVE  PruneRow(PruneRow(row, weak), strict) = PruneRow(row, strict)
<1> DEFINE once == PruneRow(row, weak)
           twice == PruneRow(once, strict)
           direct == PruneRow(row, strict)
<1>1. /\ once \in Row /\ twice \in Row /\ direct \in Row
      /\ twice.owned = direct.owned
  BY PruneRowType
<1>2. CASE weak = {}
  BY <1>2 DEF PruneRow
<1>3. CASE weak # {}
  <2>1. /\ once.progress = {d \in row.progress : Retained(d, weak)}
        /\ StatIsStale(row, weak) =>
             once.stat = {StripHistory(s) : s \in row.stat} /\ Evidence(once) = {}
        /\ ~StatIsStale(row, weak) => once.stat = row.stat
    BY <1>3, PruneRowCases
  <2>2. strict # {}
    BY <1>3 DEF Stricter
  <2>3. /\ twice.progress = {d \in once.progress : Retained(d, strict)}
        /\ StatIsStale(once, strict) => twice.stat = {StripHistory(s) : s \in once.stat}
        /\ ~StatIsStale(once, strict) => twice.stat = once.stat
    BY <1>1, <2>2, PruneRowCases
  <2>4. /\ direct.progress = {d \in row.progress : Retained(d, strict)}
        /\ StatIsStale(row, strict) => direct.stat = {StripHistory(s) : s \in row.stat}
        /\ ~StatIsStale(row, strict) => direct.stat = row.stat
    BY <2>2, PruneRowCases
  <2> HIDE DEF once, twice, direct
  <2>5. row.progress \subseteq Int /\ row.stat \subseteq Stat
        /\ \A s \in Stat : s.day \in Int
    BY DEF Row, Optional, Stat, Stamp
  <2>6. twice.progress = direct.progress
    BY <2>1, <2>3, <2>4, <2>5 DEF Stricter
  <2>7. Evidence(row) \subseteq Int
    BY <2>5 DEF Evidence
  <2>8. CASE StatIsStale(row, weak)
    <3>1. StatIsStale(row, strict) /\ StatIsStale(once, strict)
      BY <2>1, <2>7, <2>8 DEF StatIsStale, Stricter
    <3>2. \A s \in Stat : StripHistory(StripHistory(s)) = StripHistory(s)
      BY DEF StripHistory, Stat
    <3>3. once.stat = {StripHistory(s) : s \in row.stat}
      BY <2>1, <2>8
    <3>4. twice.stat = {StripHistory(s) : s \in once.stat}
      BY <2>3, <3>1
    <3>5. twice.stat = once.stat
      BY <2>5, <3>2, <3>3, <3>4
    <3> QED
      BY <2>4, <2>6, <3>1, <3>3, <3>5, <1>1 DEF Row, once, twice, direct
  <2>9. CASE ~StatIsStale(row, weak)
    <3>1. once.stat = row.stat
      BY <2>1, <2>9
    <3>2. \A d \in Evidence(once) : d \in Evidence(row)
      BY <2>1, <3>1 DEF Evidence
    <3>3. \A d \in Evidence(row) : Retained(d, strict) => d \in Evidence(once)
      BY <2>1, <2>7, <3>1 DEF Evidence, Stricter
    <3>4. StatIsStale(once, strict) <=> StatIsStale(row, strict)
      BY <3>2, <3>3 DEF StatIsStale
    <3>5. twice.stat = direct.stat
      BY <2>3, <2>4, <3>1, <3>4
    <3> QED
      BY <2>6, <3>5, <1>1 DEF Row, once, twice, direct
  <2> QED
    BY <2>8, <2>9
<1> QED
  BY <1>2, <1>3

\* apply_policy composes: what it has made of a record under one policy, a later
\* policy that forgets as much and is as strict makes the same of as of the record.
LEMMA PruneTwice ==
    ASSUME NEW shelf \in Shelf, NEW early, NEW day, NEW late, NEW today,
           early.forgotten \subseteq late.forgotten,
           Stricter(Cutoffs(early, day), Cutoffs(late, today))
    PROVE  Prune(Prune(shelf, early, day), late, today) = Prune(shelf, late, today)
<1> DEFINE weak == Cutoffs(early, day)
           strict == Cutoffs(late, today)
           once == Prune(shelf, early, day)
           twice == Prune(once, late, today)
           direct == Prune(shelf, late, today)
<1>1. once \in Shelf /\ twice \in Shelf /\ direct \in Shelf
  BY PruneType
<1>2. /\ \A b \in DOMAIN shelf : b \in DOMAIN once <=> ~IsForgotten(shelf, b, early)
      /\ \A b \in DOMAIN once : b \in DOMAIN shelf /\ once[b].owned = shelf[b].owned
      /\ \A b \in DOMAIN shelf : b \in DOMAIN direct <=> ~IsForgotten(shelf, b, late)
      /\ \A b \in DOMAIN direct : b \in DOMAIN shelf
  BY PruneType
<1>3. /\ \A b \in DOMAIN once : b \in DOMAIN twice <=> ~IsForgotten(once, b, late)
      /\ \A b \in DOMAIN twice : b \in DOMAIN once
  <2> HIDE DEF once
  <2> QED
    BY <1>1, PruneType
<1>4. \A b \in DOMAIN once : once[b] = PruneRow(shelf[b], weak)
  BY DEF Prune
<1>5. \A b \in DOMAIN direct : direct[b] = PruneRow(shelf[b], strict)
  BY DEF Prune
<1>6. \A b \in DOMAIN twice : twice[b] = PruneRow(once[b], strict)
  <2> HIDE DEF once
  <2> QED
    BY DEF Prune
<1>7. \A b \in DOMAIN shelf : PruneRow(PruneRow(shelf[b], weak), strict) = PruneRow(shelf[b], strict)
  <2> HIDE DEF weak, strict
  <2> QED
    BY ShelfElim, PruneRowTwice DEF weak, strict
<1> HIDE DEF once, twice, direct, weak, strict
<1>8. DOMAIN twice = DOMAIN direct
  BY <1>2, <1>3 DEF IsForgotten
<1>9. \A b \in DOMAIN twice : twice[b] = direct[b]
  BY <1>2, <1>3, <1>4, <1>5, <1>6, <1>7, <1>8
<1>10. /\ twice = [b \in DOMAIN twice |-> twice[b]]
       /\ direct = [b \in DOMAIN direct |-> direct[b]]
  BY <1>1, ShelfElim
<1>11. twice = direct
  BY <1>8, <1>9, <1>10
<1> QED
  BY <1>11 DEF once, twice, direct

\* The same of the days on which anything was read.
LEMMA PruneActivityTwice ==
    ASSUME NEW days \in SUBSET Day, NEW early, NEW day, NEW late, NEW today,
           Stricter(Cutoffs(early, day), Cutoffs(late, today))
    PROVE  PruneActivity(PruneActivity(days, early, day), late, today)
             = PruneActivity(days, late, today)
<1> DEFINE weak == Cutoffs(early, day)
           strict == Cutoffs(late, today)
<1>1. \A d \in days : d \in Int
  BY DEF Day
<1> HIDE DEF weak, strict
<1>2. \A d \in days : Retained(d, strict) => Retained(d, weak)
  BY <1>1 DEF Stricter, weak, strict
<1>3. {d \in {e \in days : Retained(e, weak)} : Retained(d, strict)}
        = {d \in days : Retained(d, strict)}
  BY <1>2
<1> QED
  BY <1>3 DEF PruneActivity, weak, strict

\* apply_policy is idempotent: a record it has made, it leaves alone.
LEMMA PruneIdempotent ==
    ASSUME NEW shelf \in Shelf, NEW policy, NEW today
    PROVE  Prune(Prune(shelf, policy, today), policy, today) = Prune(shelf, policy, today)
BY PruneTwice DEF Stricter

\* A record obeys a policy that removes nothing more from it.
Obeys(shelf, days, policy, now) ==
    /\ Prune(shelf, policy, now) = shelf
    /\ PruneActivity(days, policy, now) = days

\* What apply_policy returns obeys the policy it applied.
LEMMA PrunedObeys ==
    ASSUME NEW shelf \in Shelf, NEW days \in SUBSET Day, NEW policy, NEW now
    PROVE  Obeys(Prune(shelf, policy, now), PruneActivity(days, policy, now), policy, now)
BY PruneIdempotent, PruneActivityTwice DEF Obeys, Stricter

\* What obeying a policy comes to: no owned book is there that the policy forgets,
\* no day before a cut-off, and no reading history without a retained day beside it.
LEMMA ObeyingRecord ==
    ASSUME NEW shelf \in Shelf, NEW days, NEW policy, NEW now, Obeys(shelf, days, policy, now)
    PROVE  LET cuts == Cutoffs(policy, now)
           IN  /\ \A b \in policy.forgotten \cap DOMAIN shelf : ~shelf[b].owned
               /\ \A d \in days : Retained(d, cuts)
               /\ \A b \in DOMAIN shelf : \A s \in shelf[b].stat :
                    s.log > 0 /\ cuts # {} =>
                      \E d \in Evidence(shelf[b]) : Retained(d, cuts)
<1> DEFINE cuts == Cutoffs(policy, now)
<1>1. Prune(shelf, policy, now) = shelf /\ PruneActivity(days, policy, now) = days
  BY DEF Obeys
<1>2. \A b \in policy.forgotten \cap DOMAIN shelf : ~shelf[b].owned
  BY <1>1, PruneForgets
<1>3. \A d \in days : Retained(d, cuts)
  BY <1>1 DEF PruneActivity
<1>4. \A b \in DOMAIN shelf : PruneRow(shelf[b], cuts) = shelf[b]
  <2>1. \A b \in DOMAIN Prune(shelf, policy, now) :
          Prune(shelf, policy, now)[b] = PruneRow(shelf[b], cuts)
    BY DEF Prune
  <2> QED
    BY <1>1, <2>1
<1> HIDE DEF cuts
<1>5. ASSUME NEW b \in DOMAIN shelf, NEW s \in shelf[b].stat, s.log > 0, cuts # {},
             StatIsStale(shelf[b], cuts)
      PROVE  FALSE
  <2>1. shelf[b] \in Row
    BY ShelfElim
  <2>2. shelf[b].stat = {StripHistory(t) : t \in shelf[b].stat}
    BY <1>4, <1>5, <2>1, PruneRowCases
  <2>3. PICK t \in shelf[b].stat : s = StripHistory(t)
    BY <1>5, <2>2
  <2>4. t \in Stat
    BY <2>1 DEF Row, Optional
  <2> QED
    BY <1>5, <2>3, <2>4 DEF StripHistory, Stat
<1> QED
  BY <1>2, <1>3, <1>5 DEF StatIsStale, cuts

\* A policy grows stricter as time passes, as its line moves forward and as books
\* are added to it; what is configured is its horizon.
Tightens(policy, next) ==
    /\ policy.forgotten \subseteq next.forgotten
    /\ next.horizon = policy.horizon
    /\ \A d \in policy.before : \E e \in next.before : e >= d

LEMMA TimeTightens ==
    ASSUME NEW policy \in Policy, NEW next \in Policy, Tightens(policy, next),
           NEW day \in Day, NEW today \in Day, day <= today
    PROVE  Stricter(Cutoffs(policy, day), Cutoffs(next, today))
<1>1. /\ policy.horizon \in Nat /\ next.horizon = policy.horizon
      /\ policy.before \subseteq Int /\ next.before \subseteq Int
      /\ day \in Int /\ today \in Int
  BY DEF Policy, Optional, Day, Tightens
<1>2. Cutoffs(policy, day) # {} => Cutoffs(next, today) # {}
  BY <1>1 DEF Cutoffs, Tightens
<1>3. ASSUME NEW d \in Int, Retained(d, Cutoffs(next, today))
      PROVE  Retained(d, Cutoffs(policy, day))
  <2>1. ASSUME NEW c \in policy.before PROVE d >= c
    <3>1. PICK e \in next.before : e >= c
      BY <2>1 DEF Tightens
    <3>2. d >= e
      BY <1>3, <3>1 DEF Retained, Cutoffs
    <3> QED
      BY <1>1, <2>1, <3>1, <3>2
  <2>2. policy.horizon > 0 => d >= day - policy.horizon
    BY <1>1, <1>3 DEF Retained, Cutoffs
  <2> QED
    BY <1>1, <2>1, <2>2 DEF Retained, Cutoffs
<1> QED
  BY <1>2, <1>3 DEF Stricter

\* A forget tightens the policy.
LEMMA ForgetTightens ==
    ASSUME NEW policy \in Policy, NEW book \in Optional(Book), NEW line \in Optional(Day)
    PROVE  Tightens(policy, WithForgottenBefore(WithForgottenBook(policy, book), line))
<1> DEFINE next == WithForgottenBefore(WithForgottenBook(policy, book), line)
<1>1. /\ next.forgotten = policy.forgotten \cup book
      /\ \A d \in policy.before : \E e \in next.before : e >= d
  BY ForgetRemembers
<1>2. next.horizon = policy.horizon
  BY DEF WithForgottenBefore, WithForgottenBook, Policy
<1> HIDE DEF next
<1>3. Tightens(policy, next)
  BY <1>1, <1>2 DEF Tightens
<1> QED
  BY <1>3 DEF next

(***************************************************************************)
(* Finite sets, and listings of them in an order.                          *)
(***************************************************************************)
\* Among finite sets there is one that has no other within it: strict inclusion is
\* well-founded on them.
LEMMA SmallestSet ==
    ASSUME NEW Bad, \A s \in Bad : IsFiniteSet(s), Bad # {}
    PROVE  \E s \in Bad : \A t \in Bad : ~(t \subseteq s /\ t # s)
<1> DEFINE A == UNION Bad
           R == StrictSubsetOrdering(A)
<1>1. Bad \subseteq FiniteSubsetsOf(A)
  BY DEF FiniteSubsetsOf
<1>2. IsWellFoundedOn(R, FiniteSubsetsOf(A))
  BY FS_StrictSubsetOrderingWellFounded
<1>3. PICK s \in Bad : \A t \in Bad : <<t, s>> \notin R
  <2> HIDE DEF R
  <2> QED
    BY <1>1, <1>2, WFMin
<1>4. ASSUME NEW t \in Bad, t \subseteq s, t # s PROVE <<t, s>> \in R
  BY <1>4 DEF StrictSubsetOrdering
<1>5. \A t \in Bad : ~(t \subseteq s /\ t # s)
  <2> HIDE DEF R
  <2> QED
    BY <1>3, <1>4
<1> QED
  BY <1>3, <1>5

\* R puts the members of S in an order.
Orders(R, S) ==
    /\ \A x, y \in S : <<x, y>> \in R \/ <<y, x>> \in R
    /\ \A x, y, z \in S : <<x, y>> \in R /\ <<y, z>> \in R => <<x, z>> \in R

\* Then a finite set of them that is not empty has a last one.
LEMMA LastOne ==
    ASSUME NEW R, NEW S, Orders(R, S), IsFiniteSet(S), S # {}
    PROVE  \E m \in S : \A x \in S : <<x, m>> \in R
<1> DEFINE Bad == {T \in SUBSET S : T # {} /\ ~\E m \in T : \A x \in T : <<x, m>> \in R}
<1>1. ASSUME Bad # {} PROVE FALSE
  <2>1. \A T \in Bad : IsFiniteSet(T)
    BY FS_Subset
  <2>2. PICK T \in Bad : \A U \in Bad : ~(U \subseteq T /\ U # T)
    <3> HIDE DEF Bad
    <3> QED
      BY <1>1, <2>1, SmallestSet
  <2>3. PICK x \in T : TRUE
    BY <2>2
  <2>4. CASE T \ {x} = {}
    BY <2>2, <2>3, <2>4 DEF Orders
  <2>5. CASE T \ {x} # {}
    <3>1. PICK m \in T \ {x} : \A y \in T \ {x} : <<y, m>> \in R
      <4> DEFINE U == T \ {x}
      <4>1. U \subseteq T /\ U # T /\ U \in SUBSET S
        BY <2>2, <2>3
      <4> QED
        BY <2>2, <2>5, <4>1
    <3>2. x \in S /\ m \in S /\ T \subseteq S
      BY <2>2, <2>3, <3>1
    <3>3. CASE <<x, m>> \in R
      BY <2>2, <3>1, <3>3
    <3>4. CASE <<m, x>> \in R
      <4>1. \A y \in T : <<y, x>> \in R
        BY <3>1, <3>2, <3>4 DEF Orders
      <4> QED
        BY <2>2, <2>3, <4>1
    <3> QED
      BY <3>2, <3>3, <3>4 DEF Orders
  <2> QED
    BY <2>4, <2>5
<1> QED
  BY <1>1

\* So a finite set of integers has a largest and a smallest member.
LEMMA LargestOf ==
    ASSUME NEW S \in SUBSET Int, IsFiniteSet(S), S # {}
    PROVE  \E m \in S : \A x \in S : x <= m
<1> DEFINE R == {p \in S \X S : p[1] <= p[2]}
<1>1. \A x, y \in S : <<x, y>> \in R <=> x <= y
  OBVIOUS
<1> HIDE DEF R
<1>2. Orders(R, S)
  BY <1>1 DEF Orders
<1> QED
  BY <1>1, <1>2, LastOne

LEMMA SmallestOf ==
    ASSUME NEW S \in SUBSET Int, IsFiniteSet(S), S # {}
    PROVE  \E m \in S : \A x \in S : m <= x
<1> DEFINE R == {p \in S \X S : p[2] <= p[1]}
<1>1. \A x, y \in S : <<x, y>> \in R <=> y <= x
  OBVIOUS
<1> HIDE DEF R
<1>2. Orders(R, S)
  BY <1>1 DEF Orders
<1> QED
  BY <1>1, <1>2, LastOne

InOrder(s, R) == \A i, j \in DOMAIN s : i < j => <<s[i], s[j]>> \in R

\* And all of them can be listed in order.
LEMMA ListedInOrder ==
    ASSUME NEW R, NEW S, Orders(R, S), IsFiniteSet(S)
    PROVE  \E s \in SetToSeqs(S) : InOrder(s, R)
<1> DEFINE Bad == {T \in SUBSET S : ~\E s \in SetToSeqs(T) : InOrder(s, R)}
<1>1. ASSUME Bad # {} PROVE FALSE
  <2>1. \A T \in Bad : IsFiniteSet(T)
    BY FS_Subset
  <2>2. PICK T \in Bad : \A U \in Bad : ~(U \subseteq T /\ U # T)
    <3> HIDE DEF Bad
    <3> QED
      BY <1>1, <2>1, SmallestSet
  <2>3. CASE T = {}
    <3> DEFINE s == [i \in 1..0 |-> 0]
    <3>1. Cardinality(T) = 0
      BY <2>3, FS_EmptySet
    <3>2. DOMAIN s = {} /\ s \in [1..Cardinality(T) -> T]
      BY <3>1
    <3>3. s \in SetToSeqs(T) /\ InOrder(s, R)
      <4> HIDE DEF s
      <4> QED
        BY <3>1, <3>2 DEF SetToSeqs, InOrder
    <3> QED
      BY <2>2, <3>3
  <2>4. CASE T # {}
    <3>1. IsFiniteSet(T) /\ T \subseteq S
      BY <2>1, <2>2
    <3>2. Orders(R, T)
      BY <3>1 DEF Orders
    <3>3. PICK m \in T : \A x \in T : <<x, m>> \in R
      BY <2>4, <3>1, <3>2, LastOne
    <3> DEFINE U == T \ {m}
               n == Cardinality(T)
    <3>4. IsFiniteSet(U) /\ Cardinality(U) = n - 1 /\ n \in Nat /\ n > 0
      <4>1. IsFiniteSet(U) /\ Cardinality(U) = n - 1
        BY <3>1, <3>3, FS_RemoveElement
      <4>2. n \in Nat /\ Cardinality(U) \in Nat
        BY <3>1, <4>1, FS_CardinalityType
      <4> QED
        BY <4>1, <4>2
    <3>5. PICK s \in SetToSeqs(U) : InOrder(s, R)
      BY <2>2, <3>1, <3>3
    <3> HIDE DEF n
    <3> DEFINE t == [i \in 1..n |-> IF i = n THEN m ELSE s[i]]
    <3>6. s \in [1..(n - 1) -> U] /\ \A i, j \in 1..(n - 1) : i # j => s[i] # s[j]
      BY <3>4, <3>5 DEF SetToSeqs
    <3>7. t \in [1..n -> T] /\ \A i, j \in 1..n : i # j => t[i] # t[j]
      <4>1. ASSUME NEW i \in 1..n, i # n PROVE t[i] = s[i] /\ s[i] \in U /\ i \in 1..(n - 1)
        BY <3>4, <3>6, <4>1
      <4>2. t[n] = m /\ n \in 1..n
        BY <3>4
      <4> QED
        BY <3>3, <3>6, <4>1, <4>2
    <3>8. InOrder(t, R)
      <4> SUFFICES ASSUME NEW i \in 1..n, NEW j \in 1..n, i < j
                   PROVE  <<t[i], t[j]>> \in R
        BY DEF InOrder
      <4>1. i \in 1..(n - 1) /\ t[i] = s[i] /\ s[i] \in T
        BY <3>4, <3>6
      <4>2. CASE j = n
        BY <3>3, <4>1, <4>2
      <4>3. CASE j # n
        <5>1. j \in 1..(n - 1) /\ t[j] = s[j] /\ DOMAIN s = 1..(n - 1)
          BY <3>4, <3>6, <4>3
        <5> QED
          BY <3>5, <4>1, <5>1 DEF InOrder
      <4> QED
        BY <4>2, <4>3
    <3>9. t \in SetToSeqs(T)
      <4> HIDE DEF t
      <4> QED
        BY <3>7 DEF SetToSeqs, n
    <3> HIDE DEF t
    <3> QED
      BY <2>2, <3>8, <3>9
  <2> QED
    BY <2>3, <2>4
<1> QED
  BY <1>1

\* A listing of a finite set has each of its members once.
LEMMA ListingIsBijective ==
    ASSUME NEW S, IsFiniteSet(S), NEW s \in SetToSeqs(S)
    PROVE  /\ DOMAIN s = 1..Cardinality(S) /\ Cardinality(S) \in Nat
           /\ \A i \in DOMAIN s : s[i] \in S
           /\ \A i, j \in DOMAIN s : s[i] = s[j] => i = j
           /\ \A x \in S : \E i \in DOMAIN s : s[i] = x
           /\ s \in Seq(S) /\ Len(s) = Cardinality(S)
<1> DEFINE n == Cardinality(S)
<1>1. n \in Nat
  BY FS_CardinalityType
<1>2. s \in [1..n -> S] /\ \A i, j \in 1..n : i # j => s[i] # s[j]
  BY DEF SetToSeqs
<1>3. IsFiniteSet(1..n) /\ Cardinality(1..n) = n
  BY <1>1, FS_Interval
<1> HIDE DEF n
<1>4. s \in Injection(1..n, S)
  BY <1>2 DEF Injection, IsInjective
<1>5. s \in Surjection(1..n, S)
  BY <1>3, <1>4, FS_Injection DEF n
<1>6. \A x \in S : \E i \in 1..n : s[i] = x
  BY <1>5 DEF Surjection
<1>7. s \in Seq(S) /\ Len(s) = n
  BY <1>1, <1>2
<1> QED
  BY <1>1, <1>2, <1>6, <1>7 DEF n

\* And finitely many integers from the smallest to the largest.
LEMMA Increasing ==
    ASSUME NEW S \in SUBSET Int, IsFiniteSet(S)
    PROVE  \E s \in SetToSeqs(S) : \A i, j \in DOMAIN s : i < j => s[i] < s[j]
<1> DEFINE R == {p \in S \X S : p[1] <= p[2]}
<1>1. \A x, y \in S : <<x, y>> \in R <=> x <= y
  OBVIOUS
<1>2. Orders(R, S)
  <2> HIDE DEF R
  <2> QED
    BY <1>1 DEF Orders
<1>3. PICK s \in SetToSeqs(S) : InOrder(s, R)
  <2> HIDE DEF R
  <2> QED
    BY <1>2, ListedInOrder
<1>4. \A i, j \in DOMAIN s : i < j => s[i] < s[j]
  <2> HIDE DEF R
  <2> SUFFICES ASSUME NEW i \in DOMAIN s, NEW j \in DOMAIN s, i < j PROVE s[i] < s[j]
    OBVIOUS
  <2>1. s[i] \in S /\ s[j] \in S /\ s[i] # s[j]
    <3>1. DOMAIN s = 1..Cardinality(S) /\ Cardinality(S) \in Nat
      BY ListingIsBijective
    <3> QED
      BY <3>1, ListingIsBijective
  <2>2. <<s[i], s[j]>> \in R
    BY <1>3 DEF InOrder
  <2>3. s[i] <= s[j]
    BY <1>1, <2>1, <2>2
  <2>4. s[i] \in Int /\ s[j] \in Int
    BY <2>1
  <2> QED
    BY <2>1, <2>3, <2>4
<1> QED
  BY <1>3, <1>4
=============================================================================
