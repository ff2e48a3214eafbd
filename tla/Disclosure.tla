----------------------------- MODULE Disclosure -----------------------------
(***************************************************************************)
(* The privacy toggle: which descriptors of books the dashboard, the share *)
(* cards and the library search disclose while it is on.  What counts as   *)
(* sensitive comes from the reader's lens file (app/diversity.py), the     *)
(* pages are rendered from a cached view (app/server.py, app/render.py,    *)
(* app/share.py), /search answers from an index built at the last refresh  *)
(* or, without FTS5, from a scan (ingest/search_index.py), and /browse     *)
(* filters the page's own library (app/browse.py).                         *)
(*                                                                         *)
(* A page is kept as what it was rendered from; what it shows follows.     *)
(* Recommendations are outside this model.                                 *)
(***************************************************************************)
EXTENDS Integers, FiniteSets

CONSTANTS
    Book,        \* the books of the library
    Label,       \* sourced descriptors
    Tags,        \* the descriptors of each book
    Builtin,     \* the built-in lens grouping
    LensFiles,   \* what a usable lens file may hold
    Grouping,    \* the lenses of each
    MaxChanges   \* bound on edits, toggles and refreshes

\* A lens groups descriptors; a file may leave unmarked whether it is sensitive.
Lens == [labels: SUBSET Label, marked: {"yes", "no", "unmarked"}]

ASSUME TagsAssumption == Tags \in [Book -> SUBSET Label]
ASSUME LensAssumption == Builtin \subseteq Lens /\ Grouping \in [LensFiles -> SUBSET Lens]
ASSUME BoundAssumption == MaxChanges \in Nat

VARIABLES
    lens,      \* the lens file: a grouping, or why there is none
    toggle,    \* hide_sensitive_descriptors, as configured
    engaged,   \* the stored states: the books that are not unread
    revision,  \* the store's view revision
    index,     \* the search index
    cache,     \* the server's cached view, under its key
    job,       \* a request that is building a view
    answered,  \* ghost: the page last answered, whether it was to hide, and the
               \* file as it was then
    overlap,   \* ghost: the file was once edited while a view was being built
    settings,  \* ghost: toggle and file as the last refresh found them
    changes    \* how many changes have been made

vars == <<lens, toggle, engaged, revision, index, cache, job, answered,
          overlap, settings, changes>>
rendering == <<cache, job, answered>>

File == LensFiles \cup {"none", "broken"}
Revision == 0..MaxChanges
Key == [revision: Revision, hide: BOOLEAN, file: File]
Page == [engaged: SUBSET Book, hide: BOOLEAN, file: File]
Nothing == [none |-> TRUE]
Index == [revision: Revision, terms: [Book -> SUBSET Label], hidden: SUBSET Label]

TypeOK ==
    /\ lens \in File
    /\ toggle \in BOOLEAN
    /\ engaged \subseteq Book
    /\ revision \in Revision
    /\ index = Nothing \/ index \in Index
    /\ cache = Nothing \/ cache \in [key: Key, page: Page]
    /\ job = Nothing \/ job \in [key: Key, hide: BOOLEAN]
    /\ answered = Nothing \/ answered \in [page: Page, hide: BOOLEAN, file: File]
    /\ overlap \in BOOLEAN
    /\ settings \in BOOLEAN \X File
    /\ changes \in 0..MaxChanges

Init ==
    /\ lens \in File
    /\ toggle \in BOOLEAN
    /\ engaged \in SUBSET Book
    /\ revision = 0
    /\ index = Nothing
    /\ cache = Nothing
    /\ job = Nothing
    /\ answered = Nothing
    /\ overlap = FALSE
    /\ settings = <<toggle, lens>>
    /\ changes = 0

(***************************************************************************)
(* What is sensitive.                                                      *)
(***************************************************************************)
\* load_lens_records: a lens nobody marked is sensitive.
IsSensitive(l) == l.marked # "no"

\* load_lens_config: a file that cannot be used leaves the built-in grouping.
Dimensions(file) == IF file \in LensFiles THEN Grouping[file] ELSE Builtin

Labels(lenses) == UNION {l.labels : l \in lenses}

\* resolve_sensitive_descriptors: what the lenses in use call sensitive, and the
\* built-in floor.
Sensitive(file) ==
    Labels({l \in Dimensions(file) : IsSensitive(l)})
        \cup Labels({l \in Builtin : IsSensitive(l)})

\* hidden_descriptors_for: what the index and the scan leave out.
Hidden(hide, file) == IF hide THEN Sensitive(file) ELSE {}

(***************************************************************************)
(* What a page shows.                                                      *)
(***************************************************************************)
\* Reading and finished books; the whole shelf if there are none.
Considered(p) == IF p.engaged = {} THEN Book ELSE p.engaged

HiddenOn(p) == Hidden(p.hide, p.file)

\* Theme chips, the library table and the options of the taste forms.
OnBooks(p) == (UNION {Tags[b] : b \in Book}) \ HiddenOn(p)

\* _theme_breakdown and _descriptor_provenance.
InBreakdown(p) == (UNION {Tags[b] : b \in Considered(p)}) \ HiddenOn(p)

\* The labels seen in each lens: all of them masked where one is sensitive.
InLenses(p) ==
    UNION {l.labels \cap (UNION {Tags[b] : b \in Considered(p)}) :
              l \in {m \in Dimensions(p.file) : m.labels \cap HiddenOn(p) = {}}}

\* A card about a finished book, and one about the year's themes.
OnCards(p) == (UNION {Tags[b] : b \in p.engaged}) \ HiddenOn(p)

Shown(p) == OnBooks(p) \cup InBreakdown(p) \cup InLenses(p) \cup OnCards(p)

(***************************************************************************)
(* The reader: edits of the lens file, the toggle, refreshes.              *)
(***************************************************************************)
Change == changes < MaxChanges /\ changes' = changes + 1

EditLens(file) ==
    /\ Change
    /\ lens' = file
    /\ overlap' = (overlap \/ job # Nothing)
    /\ UNCHANGED <<toggle, engaged, revision, index, rendering, settings>>

Toggle ==
    /\ Change
    /\ toggle' = ~toggle
    /\ UNCHANGED <<lens, engaged, revision, index, rendering, overlap, settings>>

\* _row_for: the descriptors a book is indexed under.
TermsFor(b, hidden) == Tags[b] \ hidden

\* A refresh stores states and builds the index of them, which may fail.
Refresh ==
    /\ Change
    /\ engaged' \in SUBSET Book
    /\ revision' = revision + 1
    /\ LET hidden == Hidden(toggle, lens)
       IN  index' \in {index, [revision |-> revision', hidden |-> hidden,
                               terms |-> [b \in Book |-> TermsFor(b, hidden)]]}
    /\ settings' = <<toggle, lens>>
    /\ UNCHANGED <<lens, toggle, rendering, overlap>>

(***************************************************************************)
(* A request: the key is made of the file as it is then, the view of the   *)
(* file as it is when that is read again.                                  *)
(***************************************************************************)
\* Slip: one view for both states of the toggle.
KeyWithoutToggle(param) == [revision |-> revision, hide |-> FALSE, file |-> lens]

\* Slip: the file is not part of the key.
KeyWithoutFile(param) == [revision |-> revision, hide |-> toggle \/ param, file |-> "none"]

CacheKey(param) == [revision |-> revision, hide |-> toggle \/ param, file |-> lens]

Lookup(param) ==
    /\ job = Nothing
    /\ LET key == CacheKey(param)
           hide == toggle \/ param
       IN  IF cache # Nothing /\ cache.key = key
           THEN answered' = [page |-> cache.page, hide |-> hide, file |-> lens] /\ UNCHANGED job
           ELSE job' = [key |-> key, hide |-> hide] /\ UNCHANGED answered
    /\ UNCHANGED <<lens, toggle, engaged, revision, index, cache, overlap, settings, changes>>

Build ==
    /\ job # Nothing
    /\ LET page == [engaged |-> engaged, hide |-> job.hide, file |-> lens]
       IN  /\ answered' = [page |-> page, hide |-> job.hide, file |-> lens]
           /\ cache' = [key |-> job.key, page |-> page]
    /\ job' = Nothing
    /\ UNCHANGED <<lens, toggle, engaged, revision, index, overlap, settings, changes>>

Next ==
    \/ \E file \in File : EditLens(file)
    \/ Toggle
    \/ Refresh
    \/ \E param \in BOOLEAN : Lookup(param)
    \/ Build

Spec == Init /\ [][Next]_vars

(***************************************************************************)
(* Search for a descriptor.  /search answers from the index or, without    *)
(* FTS5, by a scan; /browse, where the search form of the page leads,      *)
(* filters the library of the view.                                        *)
(***************************************************************************)
\* Slip: an index of an earlier revision answers too.
AnswersOnceBuilt == index # Nothing

\* Whether /search answers from the index rather than say why it cannot.
IndexAnswers == index # Nothing /\ index.revision = revision

\* Whether a query for a descriptor finds a book by it.
IndexFinds(b, label) == IndexAnswers /\ label \in index.terms[b]
ScanFinds(b, label) == label \in TermsFor(b, Hidden(toggle, lens))

\* filter_states: the search form of the page filters the library on its own, by
\* the descriptors the books have.
BrowseFinds(b, label) == label \in Tags[b]

(***************************************************************************)
(* Properties.                                                             *)
(***************************************************************************)
\* What a grouping does not declare harmless.
Protected(lenses) == Labels({l \in lenses : l.marked # "no"})

\* A page that was to hide sensitive descriptors shows none of the built-in ones,
\* whatever the lens file held, and whenever it was edited, broken or removed
\* (resolve_sensitive_descriptors: the floor is never the whole set).
FloorHolds ==
    answered # Nothing /\ answered.hide =>
        Shown(answered.page) \cap Protected(Builtin) = {}

\* Nor does it show what the reader's lens file, as it then was, does not declare
\* harmless, cached or not, as long as no edit has fallen between the two reads of
\* the file that one request makes (_cache_key and load_lens_config).
LensIsHonoured ==
    answered # Nothing /\ answered.hide /\ answered.file \in LensFiles /\ ~overlap =>
        Shown(answered.page) \cap Protected(Grouping[answered.file]) = {}

\* While the settings are those of the last refresh and hide, /search confirms no
\* sensitive descriptor of a book, from its index or by a scan, even if that refresh
\* could not build its index (_tags_for: a descriptor only left out when rendering
\* is still matchable).
SearchConfirmsNothing ==
    (toggle /\ settings = <<toggle, lens>>) =>
        \A b \in Book, label \in Sensitive(lens) :
            ~IndexFinds(b, label) /\ ~ScanFinds(b, label)

\* "The privacy toggle covers the whole view" (docs/audits/reading-privacy.md:49).
\* Under the same settings neither does the page's own search form, which would have
\* to leave out what _tags_for leaves out of the index, since an excluded descriptor
\* that is still matchable "would let a query confirm its presence"
\* (search_index.py:171).  It filters by descriptors as stored and lists what it
\* found, so that it does confirm them.
BrowseConfirmsNothing ==
    (toggle /\ settings = <<toggle, lens>>) =>
        \A b \in Book, label \in Sensitive(lens) : ~BrowseFinds(b, label)
=============================================================================
