------------------------------- MODULE Picks -------------------------------
(***************************************************************************)
(* What is recommended, and why: the taste profile of the states in the    *)
(* store, the reader's explicit adjustments (ingest/taste.py), the curated *)
(* lists, and the three rankings made of them: the dashboard's shelf       *)
(* (recommender/hybrid.py), its near misses (recommender/explain.py) and   *)
(* `stacks recommend` (recommender/model.py).                              *)
(*                                                                         *)
(* Scores are in units of 0.05.  The cosine of a book with the profile is  *)
(* abstracted to its dot product, which has its sign: the norms it is      *)
(* divided by are positive.  Embeddings, off by default, are left out.     *)
(***************************************************************************)
EXTENDS Integers, FiniteSets, FiniteSetsExt, Functions

CONSTANTS
    Owned,       \* books of the reader's library
    Candidate,   \* books of the catalogue pool, numbered in the order of their ids
    Label,       \* descriptors
    Lens,        \* names of lenses
    Name,        \* names of authored lists
    LabelsOf,    \* the sourced descriptors of a book
    AuthorOf,    \* the author of a book
    KeyOf,       \* the join key of a book
    DemoLists,   \* the lists of demo mode, by name
    Vocabulary,  \* the lens files the reader may write: what each lens groups
    Asked,       \* the magnitudes the reader asks for
    Writer,      \* server threads and commands that write the taste row
    Aperture,    \* units the aperture lens gives for a new theme
    DnfSignals,  \* is a stalled book a gentle no?
    ShelfSize,   \* k
    MissLimit    \* limit

\* What is counted and added up is finite.
ASSUME PicksAssumption ==
    /\ Candidate \subseteq Nat /\ Candidate \cap Owned = {}
    /\ LabelsOf \in [Owned \cup Candidate -> SUBSET Label]
    /\ Vocabulary \subseteq [Lens -> SUBSET Label]
    /\ Asked \subseteq {"slight", "moderate", "strong"}
    /\ Aperture \in Nat /\ DnfSignals \in BOOLEAN
    /\ IsFiniteSet(Owned) /\ IsFiniteSet(Name) /\ IsFiniteSet(DOMAIN DemoLists)
    /\ \A b \in Owned \cup Candidate : IsFiniteSet(LabelsOf[b])

Status == {"absent", "unread", "stalled", "reading", "finished"}
Adjustment == [kind: {"theme"}, target: Label, direction: {"more", "less"}, magnitude: Asked]
         \cup [kind: {"lens"}, target: Lens, direction: {"more", "less"}, magnitude: Asked]

VARIABLES
    status,   \* the store's states: of each owned book, or "absent"
    lenses,   \* the vocabulary in force
    lists,    \* lists.json: the books of each authored list
    taste,    \* the stored adjustments
    form      \* what each writer has read: {} or {a set of adjustments}

picksVars == <<status, lenses, lists, taste, form>>

PicksTypeOK ==
    /\ status \in [Owned -> Status]
    /\ lenses \in Vocabulary
    /\ lists \in [Name -> SUBSET Candidate]
    /\ taste \subseteq Adjustment
    /\ form \in [Writer -> SUBSET SUBSET Adjustment]

PicksInit ==
    /\ status = [b \in Owned |-> "absent"]
    /\ lenses \in Vocabulary
    /\ lists = [n \in Name |-> {}]
    /\ taste = {}
    /\ form = [w \in Writer |-> {}]

(***************************************************************************)
(* Taste adjustments.                                                      *)
(***************************************************************************)
Units == [slight |-> 1, moderate |-> 2, strong |-> 4]
MaxTotalDelta == 6

SignedWeight(a) == IF a.direction = "more" THEN Units[a.magnitude] ELSE -Units[a.magnitude]

SameTarget(a, b) == a.kind = b.kind /\ a.target = b.target

\* Slip: a lens may be asked for less of, like a theme.
ValidEitherWay(a) == a.kind \in {"theme", "lens"}

\* validate: lenses are boost-only.
Valid(a) == ~(a.kind = "lens" /\ a.direction = "less")

WithAdded(set, a) == {b \in set : ~SameTarget(a, b)} \cup {a}

Surface == {"dashboard", "demo", "command"}

\* A lens stands for the descriptors the vocabulary in force groups under it; the
\* command resolves without a vocabulary.
Resolve(s, a) == IF a.kind = "theme" THEN {a.target}
                 ELSE IF s = "command" THEN {} ELSE lenses[a.target]

\* An adjustment counts once, and only by a descriptor the book carries.
Touching(s, set, b) == {a \in set : Resolve(s, a) \cap LabelsOf[b] # {}}

Clamped(n) == IF n > MaxTotalDelta THEN MaxTotalDelta
              ELSE IF n < -MaxTotalDelta THEN -MaxTotalDelta ELSE n

Delta(s, set, b) == Clamped(MapThenSumSet(SignedWeight, Touching(s, set, b)))

(***************************************************************************)
(* The profile and the scores.                                             *)
(***************************************************************************)
InStore == {b \in Owned : status[b] # "absent"}
Begun == {b \in InStore : status[b] # "unread"}
LovedAuthors == {AuthorOf[b] : b \in {o \in InStore : status[o] = "finished"}}
OwnedKeys == {KeyOf[b] : b \in InStore}
Themes == UNION {LabelsOf[b] : b \in Begun}

\* How completely a book was read, in halves; a soft DNF is a half the other way.
Weight(b, dnf) == IF status[b] = "finished" THEN 2
                  ELSE IF dnf /\ status[b] = "stalled" THEN -1 ELSE 1

ThemeWeight(l, dnf) ==
    MapThenSumSet(LAMBDA b : Weight(b, dnf), {b \in Begun : l \in LabelsOf[b]})

Overlap(c) == LabelsOf[c] \cap Themes
Similarity(c, dnf) == MapThenSumSet(LAMBDA l : ThemeWeight(l, dnf), Overlap(c))
Loved(c) == AuthorOf[c] \in LovedAuthors

\* The lists a surface ranks with: authored lists reach the command alone.
ListsOf(s) == CASE s = "dashboard" -> [n \in {} |-> {}]
                [] s = "demo"      -> DemoLists
                [] s = "command"   -> lists
ListsFor(s, c) == {n \in DOMAIN ListsOf(s) : c \in ListsOf(s)[n]}

\* Lists the candidate is on beside another candidate by a loved author.
Anchors(s, c) == {n \in ListsFor(s, c) : \E m \in ListsOf(s)[n] \ {c} : Loved(m)}

ScoreCandidate(s, c, dnf) ==
    Similarity(c, dnf) + (IF Loved(c) THEN 3 ELSE 0) + Cardinality(ListsFor(s, c))

ApertureBoost(c) == Aperture * Min({3, Cardinality(LabelsOf[c] \ Themes)})

Total(s, c, set) ==
    IF s = "command"
      THEN ScoreCandidate(s, c, FALSE) + Delta(s, set, c)
      ELSE ScoreCandidate(s, c, DnfSignals) + (IF Anchors(s, c) # {} THEN 4 ELSE 0)
             + ApertureBoost(c) + Delta(s, set, c)

(***************************************************************************)
(* The rankings.                                                           *)
(***************************************************************************)
\* Slip: a book by a loved author is explained by that.
CitableByAuthor(s, c) == LabelsOf[c] # {} \/ ListsFor(s, c) # {} \/ Loved(c)

\* Is there anything to cite?  An anchor is one of the lists.
Citable(s, c) == LabelsOf[c] # {} \/ ListsFor(s, c) # {}

Unowned == {c \in Candidate : KeyOf[c] \notin OwnedKeys}

Eligible(s, set) == {c \in Unowned : Total(s, c, set) > 0 /\ Citable(s, c)}

\* The first k by score, ties by id.
Top(books, score(_), k) ==
    {c \in books : Cardinality({d \in books : \/ score(d) > score(c)
                                              \/ score(d) = score(c) /\ d < c}) < k}

Picks(s) == Top(Eligible(s, taste), LAMBDA c : Total(s, c, taste), ShelfSize)

NearMisses(s) ==
    IF s = "command" THEN {}
    ELSE Top({c \in Unowned \ Picks(s) : Citable(s, c)},
             LAMBDA c : ScoreCandidate(s, c, FALSE), MissLimit)

\* build_explanation: the tags that overlap, the lists of anchors and hits, and the
\* book's own tags when there is nothing else.  None at all raises.
OrItsTags(sources, c) == IF sources # {} THEN sources ELSE LabelsOf[c]
PickSources(s, c) ==
    OrItsTags(Overlap(c) \cup (IF s = "command" THEN {} ELSE Anchors(s, c)) \cup ListsFor(s, c), c)

\* explain_absence
MissSources(s, c) == OrItsTags(Overlap(c) \cup ListsFor(s, c), c)

(***************************************************************************)
(* What changes them.                                                      *)
(***************************************************************************)
\* A refresh that has read a device: books come, are begun, stall, are finished, go.
StatusChanges(b, s) ==
    /\ status' = [status EXCEPT ![b] = s]
    /\ UNCHANGED <<lenses, lists, taste, form>>

EditLenses(v) ==
    /\ lenses' = v
    /\ UNCHANGED <<status, lists, taste, form>>

\* `lists new` of a name that is free, and `lists add` to one that is not.
AddToList(n, c) ==
    /\ lists' = [lists EXCEPT ![n] = @ \cup {c}]
    /\ UNCHANGED <<status, lenses, taste, form>>

\* The form and `stacks taste` read the set and write it back changed.
ReadTaste(w) ==
    /\ form[w] = {}
    /\ form' = [form EXCEPT ![w] = {taste}]
    /\ UNCHANGED <<status, lenses, lists, taste>>

Submit(w, set) ==
    /\ taste' = set
    /\ form' = [form EXCEPT ![w] = {}]
    /\ UNCHANGED <<status, lenses, lists>>

Add(w, a) == Valid(a) /\ \E set \in form[w] : Submit(w, WithAdded(set, a))
Undo(w, a) == \E set \in form[w] : a \in set /\ Submit(w, {b \in set : ~SameTarget(a, b)})
Clear(w) == \E set \in form[w] : Submit(w, {})

\* An adjustment that is not valid, a handle nothing has: 400, and nothing is saved.
Refuse(w) ==
    /\ form[w] # {}
    /\ form' = [form EXCEPT ![w] = {}]
    /\ UNCHANGED <<status, lenses, lists, taste>>

PicksNext ==
    \/ \E b \in Owned, s \in Status : StatusChanges(b, s)
    \/ \E v \in Vocabulary : EditLenses(v)
    \/ \E n \in Name, c \in Candidate : AddToList(n, c)
    \/ \E w \in Writer : ReadTaste(w)
    \/ \E w \in Writer, a \in Adjustment : Add(w, a)
    \/ \E w \in Writer, a \in Adjustment : Undo(w, a)
    \/ \E w \in Writer : Clear(w)
    \/ \E w \in Writer : Refuse(w)

PicksSpec == PicksInit /\ [][PicksNext]_picksVars

(***************************************************************************)
(* Properties.                                                             *)
(***************************************************************************)
\* Every pick and every near miss has a source to cite, whatever scored it: a page
\* is never refused by its own transparency guardrail (explain.py raises ValueError).
EveryPickIsCited ==
    \A s \in Surface :
        /\ \A c \in Picks(s) : PickSources(s, c) # {}
        /\ \A c \in NearMisses(s) : MissSources(s, c) # {}

\* Lenses are boost-only, under the clamp and beside adjustments of themes: without
\* the reader's lens adjustments no book would score higher, and none that is left
\* out would be in (taste.py, rule 2).
LensesOnlyRaise ==
    LET without == {a \in taste : a.kind # "lens"}
    IN  \A s \in Surface :
            /\ \A c \in Unowned : Total(s, c, without) <= Total(s, c, taste)
            /\ Eligible(s, without) \subseteq Eligible(s, taste)

\* What a page promises of an answered form: it is in force until the reader changes
\* it.  Two writers refute it.
AnswersAreKept ==
    [][\A a \in taste \ taste' : \E w \in Writer : \E set \in form[w] : a \in set]_picksVars

\* `stacks recommend` reads the same store, so "the two never disagree" (cli.py): an
\* adjustment moves a book there as it does on the dashboard.
CommandAgrees ==
    \A c \in Candidate : Delta("command", taste, c) = Delta("dashboard", taste, c)
=============================================================================
