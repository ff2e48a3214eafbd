-------------------------- MODULE DisclosureProofs --------------------------
(***************************************************************************)
(* What a page or /search discloses while the toggle is on, for any        *)
(* library, any lens files and any number of edits, refreshes and          *)
(* requests.                                                               *)
(*                                                                         *)
(* A page never shows what it hides, by construction of its parts; so the  *)
(* argument is about which file and which toggle it was rendered under.    *)
(* PagesInv carries them from the key of a request to the cached page and  *)
(* to the answer, IndexInv from the settings of a refresh to its index.    *)
(* RevisionInv strengthens the type invariant.                             *)
(***************************************************************************)
EXTENDS Disclosure, TLAPS

(***************************************************************************)
(* Types.                                                                  *)
(***************************************************************************)
\* What is hidden is among the descriptors, whatever file is in use.
LEMMA HiddenAreLabels ==
    ASSUME NEW hide, NEW file
    PROVE  Hidden(hide, file) \subseteq Label
<1>1. Dimensions(file) \subseteq Lens /\ Builtin \subseteq Lens
  BY LensAssumption DEF Dimensions
<1>2. \A l \in Lens : l.labels \subseteq Label
  BY DEF Lens
<1> QED
  BY <1>1, <1>2 DEF Hidden, Sensitive, Labels

\* The store's revision counts refreshes, which are among the changes.
RevisionInv == TypeOK /\ revision <= changes

LEMMA RevisionInit == Init => RevisionInv
<1> SUFFICES ASSUME Init PROVE RevisionInv
  OBVIOUS
<1>1. settings \in BOOLEAN \X File
  BY DEF Init
<1>2. 0 \in 0..MaxChanges
  BY BoundAssumption
<1>3. revision \in Revision /\ changes \in 0..MaxChanges /\ revision <= changes
  BY <1>2 DEF Init, Revision
<1> QED
  BY <1>1, <1>3 DEF Init, RevisionInv, TypeOK

LEMMA RevisionStep ==
    ASSUME RevisionInv, [Next]_vars
    PROVE  RevisionInv'
<1> USE BoundAssumption
<1>0. TypeOK /\ revision <= changes /\ changes \in 0..MaxChanges /\ revision \in 0..MaxChanges
  BY DEF RevisionInv, TypeOK, Revision
<1>1. ASSUME NEW file \in File, EditLens(file) PROVE RevisionInv'
  BY <1>0, <1>1 DEF EditLens, Change, RevisionInv, TypeOK, rendering
<1>2. CASE Toggle
  BY <1>0, <1>2 DEF Toggle, Change, RevisionInv, TypeOK, rendering
<1>3. CASE Refresh
  <2> DEFINE hidden == Hidden(toggle, lens)
             terms == [b \in Book |-> TermsFor(b, hidden)]
             built == [revision |-> revision', hidden |-> hidden, terms |-> terms]
  <2>1. /\ changes' = changes + 1 /\ revision' = revision + 1 /\ changes < MaxChanges
        /\ engaged' \in SUBSET Book
        /\ index' \in {index, built}
        /\ settings' = <<toggle, lens>>
        /\ UNCHANGED <<lens, toggle, cache, job, answered, overlap>>
    BY <1>3 DEF Refresh, Change, rendering
  <2>2. revision' \in Revision /\ revision' <= changes' /\ changes' \in 0..MaxChanges
    BY <1>0, <2>1 DEF Revision
  <2>3. hidden \subseteq Label /\ terms \in [Book -> SUBSET Label]
    BY HiddenAreLabels, TagsAssumption DEF TermsFor
  <2>4. built \in Index
    <3> HIDE DEF hidden, terms
    <3> QED
      BY <2>2, <2>3 DEF Index
  <2>5. index' = Nothing \/ index' \in Index
    BY <1>0, <2>1, <2>4 DEF TypeOK
  <2>6. settings' \in BOOLEAN \X File
    BY <1>0, <2>1 DEF TypeOK
  <2> QED
    BY <1>0, <2>1, <2>2, <2>5, <2>6 DEF RevisionInv, TypeOK
<1>4. ASSUME NEW param \in BOOLEAN, Lookup(param) PROVE RevisionInv'
  <2> DEFINE key == CacheKey(param)
             hide == toggle \/ param
  <2>1. key \in Key /\ hide \in BOOLEAN /\ lens \in File
    BY <1>0 DEF CacheKey, Key, TypeOK
  <2>2. UNCHANGED <<lens, toggle, engaged, revision, index, cache, overlap, settings, changes>>
    BY <1>4 DEF Lookup
  <2>3. CASE cache # Nothing /\ cache.key = key
    <3>1. answered' = [page |-> cache.page, hide |-> hide, file |-> lens] /\ UNCHANGED job
      BY <1>4, <2>3 DEF Lookup
    <3>2. cache.page \in Page
      BY <1>0, <2>3 DEF TypeOK
    <3>3. answered' \in [page: Page, hide: BOOLEAN, file: File]
      BY <2>1, <3>1, <3>2
    <3> QED
      BY <1>0, <2>2, <3>1, <3>3 DEF RevisionInv, TypeOK
  <2>4. CASE ~(cache # Nothing /\ cache.key = key)
    <3>1. job' = [key |-> key, hide |-> hide] /\ UNCHANGED answered
      BY <1>4, <2>4 DEF Lookup
    <3>2. job' \in [key: Key, hide: BOOLEAN]
      BY <2>1, <3>1
    <3> QED
      BY <1>0, <2>2, <3>1, <3>2 DEF RevisionInv, TypeOK
  <2> QED
    BY <2>3, <2>4
<1>5. CASE Build
  <2> DEFINE page == [engaged |-> engaged, hide |-> job.hide, file |-> lens]
  <2>1. /\ job # Nothing
        /\ answered' = [page |-> page, hide |-> job.hide, file |-> lens]
        /\ cache' = [key |-> job.key, page |-> page]
        /\ job' = Nothing
        /\ UNCHANGED <<lens, toggle, engaged, revision, index, overlap, settings, changes>>
    BY <1>5 DEF Build
  <2>2. job.key \in Key /\ job.hide \in BOOLEAN
    BY <1>0, <2>1 DEF TypeOK
  <2>3. page \in Page
    BY <1>0, <2>2 DEF Page, TypeOK
  <2>4. /\ answered' \in [page: Page, hide: BOOLEAN, file: File]
        /\ cache' \in [key: Key, page: Page]
    <3>1. lens \in File
      BY <1>0 DEF TypeOK
    <3> HIDE DEF page
    <3> QED
      BY <2>1, <2>2, <2>3, <3>1
  <2> QED
    BY <1>0, <2>1, <2>4 DEF RevisionInv, TypeOK
<1>6. CASE UNCHANGED vars
  BY <1>0, <1>6 DEF vars, RevisionInv, TypeOK
<1> QED
  BY <1>1, <1>2, <1>3, <1>4, <1>5, <1>6 DEF Next

\* Lens file, store, index, cache and requests keep their shape; in particular the
\* revision an index, a key or the store carries never passes the changes made.
THEOREM TypeCorrect == Spec => []TypeOK
<1>1. RevisionInv => TypeOK
  BY DEF RevisionInv
<1> QED
  BY <1>1, RevisionInit, RevisionStep, PTL DEF Spec

(***************************************************************************)
(* Pages.                                                                  *)
(***************************************************************************)
\* No part of a page shows a descriptor the page hides.
LEMMA ShownIsNotHidden ==
    ASSUME NEW p
    PROVE  Shown(p) \cap HiddenOn(p) = {}
<1>1. ASSUME NEW label \in InLenses(p) PROVE label \notin HiddenOn(p)
  <2>1. PICK l \in Dimensions(p.file) : l.labels \cap HiddenOn(p) = {} /\ label \in l.labels
    BY DEF InLenses
  <2> QED
    BY <2>1
<1> QED
  BY <1>1 DEF Shown, OnBooks, InBreakdown, OnCards

\* What the built-in grouping protects is hidden, whatever the file.
LEMMA FloorIsHidden ==
    ASSUME NEW p, p.hide
    PROVE  Protected(Builtin) \subseteq HiddenOn(p)
BY DEF HiddenOn, Hidden, Sensitive, Protected, Labels, IsSensitive

\* And so is what a usable lens file protects.
LEMMA LensIsHidden ==
    ASSUME NEW p, p.hide, p.file \in LensFiles
    PROVE  Protected(Grouping[p.file]) \subseteq HiddenOn(p)
BY DEF HiddenOn, Hidden, Sensitive, Protected, Labels, IsSensitive, Dimensions

(***************************************************************************)
(* Which file and which toggle a page was rendered under.                  *)
(***************************************************************************)
\* A page was rendered under the toggle it answers for, and, unless an edit once
\* overlapped a request, under the file as it was for the key.
PagesInv ==
    /\ job # Nothing =>
         /\ job.key.hide = job.hide
         /\ ~overlap => job.key.file = lens
    /\ cache # Nothing =>
         /\ cache.page.hide = cache.key.hide
         /\ ~overlap => cache.page.file = cache.key.file
    /\ answered # Nothing =>
         /\ answered.page.hide = answered.hide
         /\ ~overlap => answered.page.file = answered.file

LEMMA PagesInit == Init => PagesInv
BY DEF Init, PagesInv

LEMMA PagesStep ==
    ASSUME PagesInv, [Next]_vars
    PROVE  PagesInv'
<1>1. ASSUME NEW file \in File, EditLens(file) PROVE PagesInv'
  BY <1>1 DEF EditLens, PagesInv, rendering
<1>2. CASE Toggle
  BY <1>2 DEF Toggle, PagesInv, rendering
<1>3. CASE Refresh
  BY <1>3 DEF Refresh, PagesInv, rendering
<1>4. ASSUME NEW param \in BOOLEAN, Lookup(param) PROVE PagesInv'
  <2> DEFINE key == CacheKey(param)
             hide == toggle \/ param
  <2>1. key.hide = hide /\ key.file = lens
    BY DEF CacheKey
  <2>2. CASE cache # Nothing /\ cache.key = key
    <3>1. /\ answered' = [page |-> cache.page, hide |-> hide, file |-> lens]
          /\ UNCHANGED <<job, cache, lens, overlap>>
      BY <1>4, <2>2 DEF Lookup
    <3> QED
      BY <2>1, <2>2, <3>1 DEF PagesInv
  <2>3. CASE ~(cache # Nothing /\ cache.key = key)
    <3>1. job' = [key |-> key, hide |-> hide] /\ UNCHANGED <<answered, cache, lens, overlap>>
      BY <1>4, <2>3 DEF Lookup
    <3> HIDE DEF key, hide
    <3> QED
      BY <2>1, <3>1 DEF PagesInv
  <2> QED
    BY <2>2, <2>3
<1>5. CASE Build
  <2> DEFINE page == [engaged |-> engaged, hide |-> job.hide, file |-> lens]
  <2>1. /\ job # Nothing
        /\ answered' = [page |-> page, hide |-> job.hide, file |-> lens]
        /\ cache' = [key |-> job.key, page |-> page]
        /\ job' = Nothing
        /\ UNCHANGED <<lens, overlap>>
    BY <1>5 DEF Build
  <2> QED
    BY <2>1 DEF PagesInv
<1>6. CASE UNCHANGED vars
  BY <1>6 DEF vars, PagesInv
<1> QED
  BY <1>1, <1>2, <1>3, <1>4, <1>5, <1>6 DEF Next

THEOREM PagesCorrect == Spec => []PagesInv
BY PagesInit, PagesStep, PTL DEF Spec

\* A page that was to hide shows nothing of the built-in floor, whatever the lens
\* file held and whenever it was edited, broken or removed.
THEOREM FloorHoldsAlways == Spec => []FloorHolds
<1>1. ASSUME PagesInv PROVE FloorHolds
  <2> SUFFICES ASSUME answered # Nothing, answered.hide
               PROVE  Shown(answered.page) \cap Protected(Builtin) = {}
    BY DEF FloorHolds
  <2>1. answered.page.hide
    BY <1>1 DEF PagesInv
  <2> QED
    BY <2>1, ShownIsNotHidden, FloorIsHidden
<1> QED
  BY <1>1, PagesCorrect, PTL

\* Nor what the reader's own file protects, as long as no edit of it has fallen
\* between the two reads of one request.
THEOREM LensIsHonouredAlways == Spec => []LensIsHonoured
<1>1. ASSUME PagesInv PROVE LensIsHonoured
  <2> SUFFICES ASSUME answered # Nothing, answered.hide, answered.file \in LensFiles, ~overlap
               PROVE  Shown(answered.page) \cap Protected(Grouping[answered.file]) = {}
    BY DEF LensIsHonoured
  <2>1. answered.page.hide /\ answered.page.file = answered.file
    BY <1>1 DEF PagesInv
  <2> QED
    BY <2>1, ShownIsNotHidden, LensIsHidden
<1> QED
  BY <1>1, PagesCorrect, PTL

(***************************************************************************)
(* Search.                                                                 *)
(***************************************************************************)
\* An index is of no later revision than the store, and one that would answer was
\* built by the last refresh, under the settings it found.
IndexInv ==
    /\ revision \in Int
    /\ index # Nothing =>
         /\ index.revision \in Int /\ index.revision <= revision
         /\ index.revision = revision =>
              \A b \in Book : index.terms[b] = TermsFor(b, Hidden(settings[1], settings[2]))

LEMMA IndexInit == Init => IndexInv
BY DEF Init, IndexInv

LEMMA IndexStep ==
    ASSUME IndexInv, [Next]_vars
    PROVE  IndexInv'
<1>1. CASE Refresh
  <2> DEFINE hidden == Hidden(toggle, lens)
             built == [revision |-> revision', hidden |-> hidden,
                       terms |-> [b \in Book |-> TermsFor(b, hidden)]]
  <2>1. /\ revision' = revision + 1
        /\ index' \in {index, built}
        /\ settings' = <<toggle, lens>>
    BY <1>1 DEF Refresh
  <2>2. CASE index' = index
    BY <2>1, <2>2 DEF IndexInv
  <2>3. CASE index' = built
    <3>1. Hidden(settings'[1], settings'[2]) = hidden
      BY <2>1
    <3>2. index'.revision = revision' /\ \A b \in Book : index'.terms[b] = TermsFor(b, hidden)
      BY <2>3
    <3>3. revision' \in Int /\ index'.revision <= revision'
      BY <2>1, <3>2 DEF IndexInv
    <3> HIDE DEF hidden
    <3>4. \A b \in Book : index'.terms[b] = TermsFor(b, Hidden(settings'[1], settings'[2]))
      BY <3>1, <3>2
    <3> QED
      BY <3>2, <3>3, <3>4 DEF IndexInv, TermsFor, Hidden, Sensitive
  <2> QED
    BY <2>1, <2>2, <2>3
<1>2. CASE ~Refresh
  <2>1. UNCHANGED <<revision, index, settings>>
    BY <1>2 DEF Next, vars, EditLens, Toggle, Lookup, Build
  <2> QED
    BY <2>1 DEF IndexInv
<1> QED
  BY <1>1, <1>2

\* While the settings are those of the last refresh and hide, /search confirms no
\* sensitive descriptor of a book, even if that refresh could not build its index.
THEOREM SearchConfirmsNothingAlways == Spec => []SearchConfirmsNothing
<1>1. ASSUME IndexInv PROVE SearchConfirmsNothing
  <2> SUFFICES ASSUME toggle, settings = <<toggle, lens>>,
                      NEW b \in Book, NEW label \in Sensitive(lens)
               PROVE  ~IndexFinds(b, label) /\ ~ScanFinds(b, label)
    BY DEF SearchConfirmsNothing
  <2>1. Hidden(settings[1], settings[2]) = Sensitive(lens) /\ Hidden(toggle, lens) = Sensitive(lens)
    BY DEF Hidden
  <2>2. label \notin TermsFor(b, Sensitive(lens))
    BY DEF TermsFor
  <2>3. ~ScanFinds(b, label)
    BY <2>1, <2>2 DEF ScanFinds
  <2>4. ~IndexFinds(b, label)
    BY <1>1, <2>1, <2>2 DEF IndexFinds, IndexAnswers, IndexInv
  <2> QED
    BY <2>3, <2>4
<1> QED
  BY <1>1, IndexInit, IndexStep, PTL DEF Spec
=============================================================================
