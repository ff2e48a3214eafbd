-------------------------- MODULE ViewCacheProofs --------------------------
(***************************************************************************)
(* The view cache of ViewCache, for any number of server threads, any rows *)
(* and any order of reading them: as long as no backup is restored under a *)
(* running server, no page is older than the request for it.               *)
(*                                                                         *)
(* The argument: while the revision a request read is still the store's,   *)
(* nothing has been written, so all it has read is the content it started  *)
(* from; once it is not, its key can match no request that comes later.    *)
(* And two requests that read the same revision started from the same      *)
(* content, so the view one of them files serves the other.                *)
(***************************************************************************)
EXTENDS ViewCache, TLAPS

(***************************************************************************)
(* Types.                                                                  *)
(***************************************************************************)

\* A request that has not begun.
LEMMA IdleType == IdleRequest \in Request /\ Nothing \in Rows
<1>1. 0 \in Serial /\ Nothing \in Rows
  BY BoundAssumption DEF Serial, Nothing, Rows
<1>2. <<>> \in PartialView
  <2>1. <<>> \in [{} -> Serial] /\ {} \in SUBSET Row
    OBVIOUS
  <2> QED
    BY <2>1 DEF PartialView
<1>3. 0 \in 0..Len(ReadOrder) /\ [stamp |-> 0, rev |-> 0] \in Key
  BY <1>1, ReadOrderAssumption DEF Key
<1> QED
  BY <1>1, <1>2, <1>3 DEF IdleRequest, Request

\* One thread's request is replaced as a whole.
LEMMA StepType ==
    ASSUME TypeOK, NEW t \in Thread, NEW from, NEW r \in Request, Step(t, from, r)
    PROVE  request' \in [Thread -> Request]
BY DEF TypeOK, Step

\* A view with one more row is a partial view.
LEMMA ReadType ==
    ASSUME NEW view \in PartialView, NEW row \in Row, NEW value \in Serial
    PROVE  [r \in DOMAIN view \cup {row} |-> IF r = row THEN value ELSE view[r]] \in PartialView
<1>1. PICK D \in SUBSET Row : view \in [D -> Serial]
  BY DEF PartialView
<1>2. [r \in DOMAIN view \cup {row} |-> IF r = row THEN value ELSE view[r]]
        \in [D \cup {row} -> Serial]
  BY <1>1
<1>3. D \cup {row} \in SUBSET Row
  OBVIOUS
<1> QED
  BY <1>2, <1>3 DEF PartialView

\* The positions of the reading order hold rows.
LEMMA ReadOrderType == \A i \in 1..Len(ReadOrder) : ReadOrder[i] \in Row
BY ReadOrderAssumption

\* What a request has read so far.
ReadSoFar(r) == {ReadOrder[i] : i \in 1..r.read}

\* A request has read the rows of the reading order one after the other.
ReadInOrder(t) ==
    /\ request[t].at \in {"stamp", "revision", "lookup"} =>
         request[t].view = <<>> /\ request[t].read = 0
    /\ request[t].at = "build" => DOMAIN request[t].view = ReadSoFar(request[t])

\* So a view that is filed holds every row.
LEMMA FiledIsWhole ==
    ASSUME TypeOK, NEW t \in Thread, FileView(t), ReadInOrder(t)
    PROVE  request[t].view \in Rows
<1>1. /\ request[t] \in Request /\ request[t].read = Len(ReadOrder)
      /\ DOMAIN request[t].view = ReadSoFar(request[t])
  BY DEF TypeOK, ReadInOrder, FileView, Step
<1>2. ReadSoFar(request[t]) = Row
  BY <1>1, ReadOrderAssumption, ReadOrderType DEF ReadSoFar
<1> QED
  BY <1>1, <1>2 DEF Request, PartialView, Rows

\* Values read are serial numbers of writes.
LEMMA TypeStep ==
    ASSUME TypeOK, [Next]_vars,
           \A t \in Thread : FileView(t) => request[t].view \in Rows
    PROVE  TypeOK'
<1>1. CASE Write
  <2>1. serial' \in Serial /\ rev' \in Nat
    BY <1>1, BoundAssumption DEF Write, TypeOK, Serial
  <2>2. content' \in Rows
    BY <1>1, <2>1 DEF Write, TypeOK, Rows
  <2> QED
    BY <1>1, <2>1, <2>2 DEF Write, TypeOK
<1>2. CASE Backup
  BY <1>2 DEF Backup, TypeOK
<1>3. CASE Restore
  <2>1. request' \in [Thread -> Request] /\ cache' \subseteq cache
    BY <1>3, IdleType DEF Restore, ServerStarts, TypeOK
  <2> QED
    BY <1>3, <2>1 DEF Restore, TypeOK
<1>4. CASE Restart
  BY <1>4, IdleType DEF Restart, ServerStarts, TypeOK
<1>5. CASE Age
  <2>1. aged' \subseteq Serial
    BY <1>5, BoundAssumption DEF Age, TypeOK, Serial
  <2> QED
    BY <1>5, <2>1 DEF Age, TypeOK
<1>6. ASSUME NEW t \in Thread, Serve(t) PROVE TypeOK'
  <2>a. request[t] \in Request
    BY DEF TypeOK
  <2>1. CASE Arrive(t)
    <3>1. [IdleRequest EXCEPT !.at = "stamp", !.since = content, !.late = aged] \in Request
      BY IdleType DEF Request, TypeOK
    <3> QED
      BY <2>1, <3>1, StepType DEF Arrive, UnchangedButRequest, TypeOK
  <2>2. CASE ReadStamp(t)
    <3>1. content[Stamp] \in Serial
      BY StampAssumption DEF TypeOK, Rows
    <3>2. [request[t] EXCEPT !.at = "revision", !.key.stamp = content[Stamp]] \in Request
      BY <2>a, <3>1 DEF Request, Key
    <3> QED
      BY <2>2, <3>2, IdleType, StepType DEF ReadStamp, UnchangedButRequest, TypeOK
  <2>3. CASE ReadRevision(t)
    <3>1. [request[t] EXCEPT !.at = "lookup", !.key.rev = rev, !.base = content] \in Request
      BY <2>a DEF Request, Key, TypeOK
    <3> QED
      BY <2>3, <3>1, StepType DEF ReadRevision, UnchangedButRequest, TypeOK
  <2>4. CASE Lookup(t)
    <3>1. \A view \in Rows : view \in PartialView
      BY DEF Rows, PartialView
    <3>2. \A entry \in cache :
            [request[t] EXCEPT !.at = "answer", !.view = entry.view, !.stale = entry.stale] \in Request
      BY <2>a, <3>1 DEF Request, TypeOK
    <3>3. [request[t] EXCEPT !.at = "build"] \in Request
      BY <2>a DEF Request
    <3> QED
      BY <2>4, <3>2, <3>3, StepType DEF Lookup, UnchangedButRequest, TypeOK
  <2>5. CASE ReadRow(t)
    <3> DEFINE i == request[t].read + 1
               row == ReadOrder[i]
               view == [r \in DOMAIN request[t].view \cup {row} |->
                          IF r = row THEN content[row] ELSE request[t].view[r]]
    <3>1. i \in 1..Len(ReadOrder)
      BY <2>a, <2>5, ReadOrderAssumption DEF ReadRow, Request
    <3>2. row \in Row /\ content[row] \in Serial /\ request[t].view \in PartialView
      BY <2>a, <3>1, ReadOrderType DEF TypeOK, Rows, Request
    <3>3. view \in PartialView
      <4> HIDE DEF row
      <4> QED
        BY <3>2, ReadType
    <3>4. i \in 0..Len(ReadOrder)
      BY <2>a, <3>1 DEF Request
    <3>5. Step(t, "build", [request[t] EXCEPT !.read = i, !.view = view])
      BY <2>5 DEF ReadRow
    <3> HIDE DEF view, i
    <3>6. [request[t] EXCEPT !.read = i, !.view = view] \in Request
      BY <2>a, <3>3, <3>4 DEF Request
    <3> QED
      BY <2>5, <3>5, <3>6, StepType DEF ReadRow, UnchangedButRequest, TypeOK
  <2>6. CASE FileView(t)
    <3> DEFINE stale == request[t].view[Stamp] \in aged
    <3>1. stale \in BOOLEAN
      OBVIOUS
    <3> HIDE DEF stale
    <3>2. [request[t] EXCEPT !.at = "answer", !.stale = stale] \in Request
      BY <2>a, <3>1 DEF Request
    <3>3. [key |-> request[t].key, view |-> request[t].view, stale |-> stale,
           base |-> request[t].base] \in [key: Key, view: Rows, stale: BOOLEAN, base: Rows]
      BY <2>a, <2>6, <3>1 DEF Request
    <3> QED
      BY <2>6, <3>2, <3>3, StepType DEF FileView, TypeOK, stale
  <2>7. CASE Answer(t)
    BY <2>7, IdleType, StepType DEF Answer, UnchangedButRequest, TypeOK
  <2> QED
    BY <1>6, <2>1, <2>2, <2>3, <2>4, <2>5, <2>6, <2>7 DEF Serve
<1>7. CASE UNCHANGED vars
  BY <1>7 DEF vars, TypeOK
<1> QED
  BY <1>1, <1>2, <1>3, <1>4, <1>5, <1>6, <1>7 DEF Next

\* The store and its types are there from the start.
LEMMA InitType == Init => TypeOK /\ \A t \in Thread : request[t].at = "idle"
<1> SUFFICES ASSUME Init PROVE TypeOK /\ \A t \in Thread : request[t].at = "idle"
  OBVIOUS
<1>1. 0 \in Serial
  BY BoundAssumption DEF Serial
<1>2. request \in [Thread -> Request] /\ \A t \in Thread : request[t].at = "idle"
  BY IdleType DEF Init, IdleRequest
<1> QED
  BY <1>1, <1>2, IdleType DEF Init, TypeOK

\* A step of a request reads the next row, or none.
LEMMA ReadInOrderStep ==
    ASSUME TypeOK, NEW t \in Thread, ReadInOrder(t), Serve(t)
    PROVE  ReadInOrder(t)'
<1> DEFINE q == request[t]
<1>1. q \in Request
  BY DEF TypeOK
<1>2. ASSUME NEW from, NEW r, Step(t, from, r) PROVE request'[t] = r /\ q.at = from
  BY <1>2 DEF Step, TypeOK
<1> HIDE DEF q
<1>3. CASE Arrive(t)
  <2> DEFINE r == [IdleRequest EXCEPT !.at = "stamp", !.since = content, !.late = aged]
  <2>1. Step(t, "idle", r) /\ r.at = "stamp" /\ r.view = <<>> /\ r.read = 0
    BY <1>3 DEF Arrive, IdleRequest
  <2> HIDE DEF r
  <2> QED
    BY <1>2, <2>1 DEF ReadInOrder
<1>4. CASE ReadStamp(t)
  <2>1. PICK r : /\ Step(t, "stamp", r)
                 /\ \/ r = IdleRequest
                    \/ r = [q EXCEPT !.at = "revision", !.key.stamp = content[Stamp]]
    BY <1>4 DEF ReadStamp, q
  <2>2. IdleRequest.at = "idle"
    BY DEF IdleRequest
  <2>3. ASSUME r = [q EXCEPT !.at = "revision", !.key.stamp = content[Stamp]]
        PROVE  r.at = "revision" /\ r.view = q.view /\ r.read = q.read
    BY <1>1, <2>3 DEF Request
  <2> QED
    BY <1>2, <2>1, <2>2, <2>3 DEF ReadInOrder, q
<1>5. CASE ReadRevision(t)
  <2> DEFINE r == [q EXCEPT !.at = "lookup", !.key.rev = rev, !.base = content]
  <2>1. Step(t, "revision", r) /\ r.at = "lookup" /\ r.view = q.view /\ r.read = q.read
    BY <1>1, <1>5 DEF ReadRevision, Request, q
  <2> HIDE DEF r
  <2> QED
    BY <1>2, <2>1 DEF ReadInOrder, q
<1>6. CASE Lookup(t)
  <2>1. ASSUME NEW view, NEW stale,
               Step(t, "lookup", [q EXCEPT !.at = "answer", !.view = view, !.stale = stale])
        PROVE  ReadInOrder(t)'
    <3> DEFINE r == [q EXCEPT !.at = "answer", !.view = view, !.stale = stale]
    <3>1. r.at = "answer"
      BY <1>1 DEF Request
    <3> HIDE DEF r
    <3> QED
      BY <1>2, <2>1, <3>1 DEF ReadInOrder, r
  <2>2. ASSUME Step(t, "lookup", [q EXCEPT !.at = "build"]) PROVE ReadInOrder(t)'
    <3> DEFINE r == [q EXCEPT !.at = "build"]
    <3>1. r.at = "build" /\ r.view = q.view /\ r.read = q.read
      BY <1>1 DEF Request
    <3> HIDE DEF r
    <3>2. request'[t] = r /\ q.view = <<>> /\ q.read = 0
      BY <1>2, <2>2 DEF ReadInOrder, q, r
    <3>3. DOMAIN r.view = {} /\ ReadSoFar(r) = {}
      BY <3>1, <3>2 DEF ReadSoFar
    <3> QED
      BY <3>1, <3>2, <3>3 DEF ReadInOrder
  <2> QED
    BY <1>6, <2>1, <2>2 DEF Lookup, q
<1>7. CASE ReadRow(t)
  <2> DEFINE i == q.read + 1
             row == ReadOrder[i]
             view == [s \in DOMAIN q.view \cup {row} |-> IF s = row THEN content[row] ELSE q.view[s]]
             r == [q EXCEPT !.read = i, !.view = view]
  <2>1. Step(t, "build", r)
    BY <1>7 DEF ReadRow, q
  <2>2. q.read \in Nat /\ DOMAIN view = DOMAIN q.view \cup {row}
    BY <1>1, ReadOrderAssumption DEF Request
  <2>3. r.read = i /\ r.view = view /\ r.at = q.at
    BY <1>1 DEF Request
  <2>4. 1..i = 1..q.read \cup {i}
    BY <2>2
  <2> HIDE DEF r, view, i
  <2>5. ReadSoFar(r) = ReadSoFar(q) \cup {row}
    BY <2>3, <2>4 DEF ReadSoFar
  <2>6. request'[t] = r /\ q.at = "build"
    BY <1>2, <2>1
  <2> QED
    BY <2>2, <2>3, <2>5, <2>6 DEF ReadInOrder, q
<1>8. CASE FileView(t)
  <2>1. PICK stale : Step(t, "build", [q EXCEPT !.at = "answer", !.stale = stale])
    BY <1>8 DEF FileView, q
  <2> DEFINE r == [q EXCEPT !.at = "answer", !.stale = stale]
  <2>2. r.at = "answer"
    BY <1>1 DEF Request
  <2> HIDE DEF r
  <2> QED
    BY <1>2, <2>1, <2>2 DEF ReadInOrder, r
<1>9. CASE Answer(t)
  BY <1>2, <1>9 DEF Answer, IdleRequest, ReadInOrder
<1> QED
  BY <1>3, <1>4, <1>5, <1>6, <1>7, <1>8, <1>9 DEF Serve

\* The types of the cache's variables, as the runs check them, whenever backups
\* are restored.
THEOREM TypeCorrect == Spec => []TypeOK
<1> DEFINE Inv == TypeOK /\ \A t \in Thread : ReadInOrder(t)
<1>1. Init => Inv
  BY InitType DEF ReadInOrder
<1>2. Inv /\ [Next]_vars => Inv'
  <2> SUFFICES ASSUME Inv, [Next]_vars PROVE Inv'
    OBVIOUS
  <2>1. TypeOK'
    BY TypeStep, FiledIsWhole
  <2>2. ASSUME NEW t \in Thread PROVE ReadInOrder(t)'
    <3>1. CASE request'[t] = request[t]
      BY <3>1 DEF ReadInOrder, ReadSoFar
    <3>2. CASE request'[t] = IdleRequest
      BY <3>2 DEF ReadInOrder, IdleRequest
    <3>3. CASE Serve(t)
      BY <3>3, ReadInOrderStep
    <3>4. request'[t] \in {request[t], IdleRequest} \/ Serve(t)
      <4>1. CASE Write \/ Backup \/ Age \/ UNCHANGED vars
        BY <4>1 DEF Write, Backup, Age, vars
      <4>2. CASE Restore \/ Restart
        BY <4>2 DEF Restore, Restart, ServerStarts
      <4>3. ASSUME NEW u \in Thread, Serve(u), u # t PROVE request'[t] = request[t]
        BY <4>3 DEF Serve, Arrive, ReadStamp, ReadRevision, Lookup, ReadRow, FileView, Answer,
                    Step, TypeOK
      <4> QED
        BY <4>1, <4>2, <4>3 DEF Next
    <3> QED
      BY <3>1, <3>2, <3>3, <3>4
  <2> QED
    BY <2>1, <2>2
<1> QED
  BY <1>1, <1>2, PTL DEF Spec

(***************************************************************************)
(* The inductive invariant.                                                *)
(***************************************************************************)
\* Of two contents, row by row, the first is not the later one.
NoLater(a, b) == \A row \in DOMAIN a : a[row] <= b[row]

\* The requests that hold a revision to build or look up under.
Keyed(t) == request[t].at \in {"lookup", "build"}

\* A request that holds a revision started from the content of that revision,
\* which was the store's after the request arrived.
Started(t) ==
    LET r == request[t]
    IN  /\ NoLater(r.since, r.base) /\ NoLater(r.base, content)
        /\ r.key.rev <= rev
        /\ r.key.rev = rev => r.base = content

\* A row read is no older than the content the request started from, and is the
\* store's as long as the revision is.
Building(t) ==
    LET r == request[t]
    IN  /\ DOMAIN r.view = ReadSoFar(r)
        /\ \A row \in DOMAIN r.view : r.base[row] <= r.view[row] /\ r.view[row] <= content[row]
        /\ r.key.rev = rev => \A row \in DOMAIN r.view : r.view[row] = content[row]

RequestInv(t) ==
    /\ request[t].at # "idle" => NoLater(request[t].since, content)
    /\ request[t].at \in {"stamp", "revision", "lookup"} =>
         request[t].view = <<>> /\ request[t].read = 0
    /\ Keyed(t) => Started(t)
    /\ request[t].at = "build" => Building(t)
    /\ Answering(t) => request[t].view \in Rows /\ NoLater(request[t].since, request[t].view)

\* So is a filed view.
Filed(entry) ==
    /\ entry.key.rev <= rev
    /\ NoLater(entry.base, entry.view)
    /\ entry.key.rev = rev => entry.base = content /\ entry.view = content

\* One revision, one content.
OneContent ==
    /\ \A t, u \in Thread :
         Keyed(t) /\ Keyed(u) /\ request[t].key.rev = request[u].key.rev
           => request[t].base = request[u].base
    /\ \A entry \in cache, t \in Thread :
         Keyed(t) /\ request[t].key.rev = entry.key.rev => request[t].base = entry.base

CacheInv ==
    /\ TypeOK
    /\ Restores = "never" => backup = {}
    /\ \A row \in Row : content[row] <= serial
    /\ \A s \in backup : \A row \in Row : s.content[row] <= serial
    /\ \A t \in Thread : RequestInv(t)
    /\ \A entry \in cache : Filed(entry)
    /\ OneContent

\* Contents are functions on the rows, and being no later is transitive.
LEMMA NoLaterTrans ==
    ASSUME NEW a \in Rows, NEW b \in Rows, NEW c \in Rows, NoLater(a, b), NoLater(b, c)
    PROVE  NoLater(a, c)
<1>1. DOMAIN a = Row /\ DOMAIN b = Row /\ DOMAIN c = Row
  BY DEF Rows
<1>2. \A row \in Row : a[row] \in Nat /\ b[row] \in Nat /\ c[row] \in Nat
  BY DEF Rows, Serial
<1>3. \A row \in Row : a[row] <= b[row] /\ b[row] <= c[row]
  BY <1>1 DEF NoLater
<1> SUFFICES ASSUME NEW row \in DOMAIN c PROVE a[row] <= c[row]
  BY <1>1 DEF NoLater
<1>4. row \in Row
  BY <1>1
<1> QED
  BY <1>2, <1>3, <1>4

\* A write makes the content later and the revision new.
LEMMA WriteInv == CacheInv /\ Write /\ TypeOK' => CacheInv'
<1> SUFFICES ASSUME CacheInv, Write, TypeOK' PROVE CacheInv'
  OBVIOUS
<1>1. /\ serial' = serial + 1 /\ rev' = rev + 1
      /\ UNCHANGED <<aged, backup, cache, request>>
      /\ content \in Rows /\ content' \in Rows /\ serial \in Nat /\ rev \in Nat
      /\ request \in [Thread -> Request]
  BY DEF Write, CacheInv, TypeOK, Serial
<1>2. \A row \in Row : content[row] \in Nat /\ content[row] <= serial
                      /\ (content'[row] = serial' \/ content'[row] = content[row])
  BY <1>1 DEF Write, CacheInv, Rows, Serial
<1>3. \A row \in Row : content'[row] <= serial' /\ content[row] <= content'[row]
  BY <1>1, <1>2
<1>4. NoLater(content, content')
  BY <1>1, <1>3 DEF NoLater, Rows
<1>5. \A s \in backup' : \A row \in Row : s.content[row] <= serial'
  <2>1. \A s \in backup : \A row \in Row : s.content[row] \in Nat /\ s.content[row] <= serial
    BY DEF CacheInv, TypeOK, Rows, Serial
  <2> QED
    BY <1>1, <2>1
<1>6. ASSUME NEW t \in Thread PROVE RequestInv(t)'
  <2>1. request[t] \in Request /\ request'[t] = request[t] /\ RequestInv(t)
    BY <1>1 DEF CacheInv
  <2>2. request[t].since \in Rows /\ request[t].base \in Rows /\ request[t].key.rev \in Nat
    BY <2>1 DEF Request, Key
  <2>3. NoLater(request[t].since, content) => NoLater(request[t].since, content')
    BY <1>1, <1>4, <2>2, NoLaterTrans
  <2>4. Started(t) => Started(t)'
    <3>1. NoLater(request[t].base, content) => NoLater(request[t].base, content')
      BY <1>1, <1>4, <2>2, NoLaterTrans
    <3>2. request[t].key.rev <= rev => request[t].key.rev <= rev' /\ request[t].key.rev # rev'
      BY <1>1, <2>2
    <3> QED
      BY <2>1, <3>1, <3>2 DEF Started
  <2>5. Started(t) /\ Building(t) => Building(t)'
    <3>1. \A row \in DOMAIN request[t].view : row \in Row /\ request[t].view[row] \in Nat
      BY <2>1 DEF Request, PartialView, Serial
    <3>2. \A row \in DOMAIN request[t].view :
            request[t].view[row] <= content[row] => request[t].view[row] <= content'[row]
      BY <1>1, <1>2, <1>3, <3>1
    <3>3. request[t].key.rev <= rev => request[t].key.rev # rev'
      BY <1>1, <2>2
    <3> QED
      BY <2>1, <3>2, <3>3 DEF Started, Building, ReadSoFar
  <2> QED
    BY <2>1, <2>3, <2>4, <2>5 DEF RequestInv, Keyed, Answering
<1>7. ASSUME NEW entry \in cache PROVE Filed(entry)'
  <2>1. entry.key.rev \in Nat /\ Filed(entry)
    BY DEF CacheInv, TypeOK, Key
  <2>2. entry.key.rev <= rev' /\ entry.key.rev # rev'
    BY <1>1, <2>1 DEF Filed
  <2> QED
    BY <2>1, <2>2 DEF Filed
<1>8. OneContent'
  BY <1>1 DEF CacheInv, OneContent, Keyed
<1> QED
  BY <1>1, <1>3, <1>5, <1>6, <1>7, <1>8 DEF CacheInv

\* What a server does when it starts leaves nothing to show of it.
LEMMA StartsInv ==
    ASSUME CacheInv, TypeOK', ServerStarts,
           Restores = "never" => backup' = {},
           \A row \in Row : content'[row] <= serial',
           \A s \in backup' : \A row \in Row : s.content[row] <= serial'
    PROVE  CacheInv'
<1>1. cache' = {} /\ \A t \in Thread : request'[t] = IdleRequest /\ IdleRequest.at = "idle"
  BY DEF ServerStarts, IdleRequest
<1>2. \A t \in Thread : RequestInv(t)'
  BY <1>1 DEF RequestInv, Keyed, Answering
<1>3. OneContent'
  BY <1>1 DEF OneContent, Keyed
<1> QED
  BY <1>1, <1>2, <1>3 DEF CacheInv

\* What is left to show of a thread's step.
LEMMA ThreadInv ==
    ASSUME CacheInv, TypeOK', NEW t \in Thread, NEW from, NEW r, Step(t, from, r),
           UNCHANGED <<content, rev, serial, backup>>, RequestInv(t)',
           \A entry \in cache' : Filed(entry), OneContent'
    PROVE  CacheInv'
<1>1. ASSUME NEW u \in Thread \ {t} PROVE RequestInv(u)'
  <2>1. request'[u] = request[u]
    BY DEF Step, CacheInv, TypeOK
  <2> QED
    BY <2>1 DEF CacheInv, RequestInv, Keyed, Started, Building, ReadSoFar, Answering
<1>2. \A u \in Thread : RequestInv(u)'
  BY <1>1
<1>3. \A entry \in cache' : Filed(entry)'
  BY DEF Filed
<1> QED
  BY <1>2, <1>3 DEF CacheInv

\* A step that neither files a view nor takes up a revision.
LEMMA KeepsContent ==
    ASSUME CacheInv, NEW t \in Thread, NEW from, NEW r, Step(t, from, r), cache' = cache,
           r.at \in {"lookup", "build"} =>
             Keyed(t) /\ r.key = request[t].key /\ r.base = request[t].base
    PROVE  OneContent'
<1>1. request'[t] = r /\ \A u \in Thread \ {t} : request'[u] = request[u]
  BY DEF Step, CacheInv, TypeOK
<1>2. \A u \in Thread : request'[u].at \in {"lookup", "build"} =>
        Keyed(u) /\ request'[u].key = request[u].key /\ request'[u].base = request[u].base
  BY <1>1 DEF Keyed
<1> QED
  BY <1>2 DEF CacheInv, OneContent, Keyed

\* A request goes through its steps.
LEMMA ServeInv == \A t \in Thread : CacheInv /\ Serve(t) /\ TypeOK' => CacheInv'
<1> SUFFICES ASSUME NEW t \in Thread, CacheInv, Serve(t), TypeOK' PROVE CacheInv'
  OBVIOUS
<1> DEFINE q == request[t]
<1>a. /\ q \in Request /\ RequestInv(t) /\ content \in Rows /\ rev \in Nat
      /\ \A entry \in cache : Filed(entry)
      /\ \A row \in Row : content[row] \in Nat
  BY DEF CacheInv, TypeOK, Rows, Serial
<1>b. ASSUME NEW from, NEW r, Step(t, from, r) PROVE request'[t] = r /\ q.at = from
  BY <1>b DEF Step, CacheInv, TypeOK
<1>c. NoLater(content, content)
  BY <1>a DEF NoLater, Rows
<1> HIDE DEF q
<1>1. CASE Arrive(t)
  <2> DEFINE r == [IdleRequest EXCEPT !.at = "stamp", !.since = content, !.late = aged]
  <2>1. Step(t, "idle", r) /\ UNCHANGED <<content, rev, serial, backup>> /\ cache' = cache
    BY <1>1 DEF Arrive, UnchangedButRequest
  <2>2. r.at = "stamp" /\ r.since = content /\ r.view = <<>> /\ r.read = 0
    BY DEF IdleRequest
  <2> HIDE DEF r
  <2>3. RequestInv(t)'
    BY <1>b, <1>c, <2>1, <2>2 DEF RequestInv, Keyed, Answering
  <2> QED
    BY <1>a, <2>1, <2>2, <2>3, KeepsContent, ThreadInv
<1>2. CASE ReadStamp(t)
  <2>1. PICK r : /\ Step(t, "stamp", r)
                 /\ \/ r = IdleRequest
                    \/ r = [q EXCEPT !.at = "revision", !.key.stamp = content[Stamp]]
    BY <1>2 DEF ReadStamp, q
  <2>2. UNCHANGED <<content, rev, serial, backup>> /\ cache' = cache
    BY <1>2 DEF ReadStamp, UnchangedButRequest
  <2>3. IdleRequest.at = "idle"
    BY DEF IdleRequest
  <2>4. ASSUME r = [q EXCEPT !.at = "revision", !.key.stamp = content[Stamp]]
        PROVE  r.at = "revision" /\ r.since = q.since /\ r.view = q.view /\ r.read = q.read
    BY <1>a, <2>4 DEF Request
  <2>5. r.at = "idle" \/ (r.at = "revision" /\ r.since = q.since /\ r.view = <<>> /\ r.read = 0
                           /\ NoLater(q.since, content))
    BY <1>a, <1>b, <2>1, <2>3, <2>4 DEF RequestInv, q
  <2>6. RequestInv(t)'
    BY <1>b, <2>1, <2>2, <2>5 DEF RequestInv, Keyed, Answering
  <2>7. r.at \notin {"lookup", "build"}
    BY <2>5
  <2> QED
    BY <1>a, <2>1, <2>2, <2>6, <2>7, KeepsContent, ThreadInv
<1>3. CASE ReadRevision(t)
  <2> DEFINE r == [q EXCEPT !.at = "lookup", !.key.rev = rev, !.base = content]
  <2>1. Step(t, "revision", r) /\ UNCHANGED <<content, rev, serial, backup>> /\ cache' = cache
    BY <1>3 DEF ReadRevision, UnchangedButRequest, q
  <2>2. r.at = "lookup" /\ r.since = q.since /\ r.view = q.view /\ r.read = q.read
        /\ r.key.rev = rev /\ r.base = content
    BY <1>a DEF Request, Key
  <2> HIDE DEF r
  <2>3. request'[t] = r /\ q.at = "revision"
    BY <1>b, <2>1
  <2>4. NoLater(q.since, content) /\ q.view = <<>> /\ q.read = 0
    BY <1>a, <2>3 DEF RequestInv, q
  <2>5. RequestInv(t)'
    BY <1>a, <1>c, <2>1, <2>2, <2>3, <2>4 DEF RequestInv, Keyed, Started, Answering
  <2>6. OneContent'
    <3>1. \A u \in Thread \ {t} : request'[u] = request[u]
      BY <2>1 DEF Step, CacheInv, TypeOK
    <3>2. \A u \in Thread : Keyed(u) /\ request[u].key.rev = rev => request[u].base = content
      BY DEF CacheInv, RequestInv, Started
    <3>3. \A entry \in cache : entry.key.rev = rev => entry.base = content
      BY <1>a DEF Filed
    <3>4. \A u, v \in Thread \ {t} :
            Keyed(u) /\ Keyed(v) /\ request[u].key.rev = request[v].key.rev
              => request[u].base = request[v].base
      BY DEF CacheInv, OneContent
    <3>5. \A entry \in cache, u \in Thread \ {t} :
            Keyed(u) /\ request[u].key.rev = entry.key.rev => request[u].base = entry.base
      BY DEF CacheInv, OneContent
    <3> QED
      BY <2>1, <2>2, <2>3, <3>1, <3>2, <3>3, <3>4, <3>5 DEF OneContent, Keyed
  <2> QED
    BY <1>a, <2>1, <2>5, <2>6, ThreadInv
<1>4. CASE Lookup(t)
  <2>a. UNCHANGED <<content, rev, serial, backup>> /\ cache' = cache
    BY <1>4 DEF Lookup, UnchangedButRequest
  <2>1. ASSUME NEW entry \in cache, entry.key = q.key,
               Step(t, "lookup", [q EXCEPT !.at = "answer", !.view = entry.view,
                                           !.stale = entry.stale])
        PROVE  CacheInv'
    <3> DEFINE r == [q EXCEPT !.at = "answer", !.view = entry.view, !.stale = entry.stale]
    <3>1. r.at = "answer" /\ r.view = entry.view /\ r.since = q.since
      BY <1>a DEF Request
    <3> HIDE DEF r
    <3>2. request'[t] = r /\ q.at = "lookup"
      BY <1>b, <2>1 DEF r
    <3>3. q.base = entry.base
      BY <2>1, <3>2 DEF CacheInv, OneContent, Keyed, q
    <3>4. NoLater(q.since, q.base) /\ NoLater(q.since, content) /\ NoLater(entry.base, entry.view)
      BY <1>a, <2>1, <3>2 DEF RequestInv, Keyed, Started, Filed, q
    <3>5. q.since \in Rows /\ entry.base \in Rows /\ entry.view \in Rows
      BY <1>a, <2>1 DEF Request, CacheInv, TypeOK
    <3>6. NoLater(q.since, entry.view)
      BY <3>3, <3>4, <3>5, NoLaterTrans
    <3>7. RequestInv(t)'
      BY <2>a, <3>1, <3>2, <3>4, <3>5, <3>6 DEF RequestInv, Keyed, Answering
    <3> QED
      BY <1>a, <2>1, <2>a, <3>1, <3>7, KeepsContent, ThreadInv DEF r
  <2>2. ASSUME Step(t, "lookup", [q EXCEPT !.at = "build"]) PROVE CacheInv'
    <3> DEFINE r == [q EXCEPT !.at = "build"]
    <3>1. r.at = "build" /\ r.view = q.view /\ r.since = q.since /\ r.read = q.read
          /\ r.base = q.base /\ r.key = q.key
      BY <1>a DEF Request
    <3> HIDE DEF r
    <3>2. request'[t] = r /\ q.at = "lookup"
      BY <1>b, <2>2 DEF r
    <3>3. q.view = <<>> /\ q.read = 0 /\ Started(t) /\ NoLater(q.since, content)
      BY <1>a, <3>2 DEF RequestInv, Keyed, q
    <3>4. DOMAIN r.view = {} /\ ReadSoFar(r) = {}
      BY <3>1, <3>3 DEF ReadSoFar
    <3>5. Started(t)' /\ Building(t)'
      BY <2>a, <3>1, <3>2, <3>3, <3>4 DEF Started, Building, q
    <3>6. RequestInv(t)'
      BY <2>a, <3>1, <3>2, <3>3, <3>5 DEF RequestInv, Keyed, Answering
    <3>7. Keyed(t)
      BY <3>2 DEF Keyed, q
    <3>8. OneContent'
      BY <2>2, <2>a, <3>1, <3>7, KeepsContent DEF r, q
    <3> QED
      BY <1>a, <2>2, <2>a, <3>6, <3>8, ThreadInv
  <2> QED
    BY <1>4, <2>1, <2>2 DEF Lookup, q
<1>5. CASE ReadRow(t)
  <2> DEFINE i == q.read + 1
             row == ReadOrder[i]
             view == [s \in DOMAIN q.view \cup {row} |-> IF s = row THEN content[row] ELSE q.view[s]]
             r == [q EXCEPT !.read = i, !.view = view]
  <2>1. Step(t, "build", r) /\ UNCHANGED <<content, rev, serial, backup>> /\ cache' = cache
    BY <1>5 DEF ReadRow, UnchangedButRequest, q
  <2>2. q.read \in Nat /\ i \in 1..Len(ReadOrder)
    BY <1>a, <1>5, ReadOrderAssumption DEF ReadRow, Request, q
  <2>3. row \in Row
    BY <2>2, ReadOrderType
  <2>4. r.read = i /\ r.view = view /\ r.at = q.at /\ r.since = q.since /\ r.base = q.base
        /\ r.key = q.key
    BY <1>a DEF Request
  <2>5. request'[t] = r /\ q.at = "build"
    <3> HIDE DEF r
    <3> QED
      BY <1>b, <2>1
  <2>6. Started(t) /\ Building(t) /\ NoLater(q.since, content)
    BY <1>a, <2>5 DEF RequestInv, Keyed, q
  <2>7. DOMAIN view = DOMAIN q.view \cup {row}
        /\ \A s \in DOMAIN view : view[s] = IF s = row THEN content[row] ELSE q.view[s]
    OBVIOUS
  <2>8. ReadSoFar(r) = ReadSoFar(q) \cup {row}
    <3>1. 1..i = 1..q.read \cup {i}
      BY <2>2
    <3> HIDE DEF r, i
    <3> QED
      BY <2>4, <3>1 DEF ReadSoFar
  <2>9. q.base \in Rows /\ content \in Rows
    BY <1>a DEF Request
  <2> HIDE DEF r, view, row, i
  <2>10. q.base[row] <= content[row] /\ content[row] <= content[row]
    BY <1>a, <2>3, <2>6, <2>9 DEF Started, NoLater, Rows, q
  <2>11. Building(t)'
    <3>1. DOMAIN view = ReadSoFar(r)
      BY <2>6, <2>7, <2>8 DEF Building, q
    <3>2. \A s \in DOMAIN view : q.base[s] <= view[s] /\ view[s] <= content[s]
      BY <2>6, <2>7, <2>10 DEF Building, q
    <3>3. q.key.rev = rev => \A s \in DOMAIN view : view[s] = content[s]
      BY <2>6, <2>7 DEF Building, q
    <3> QED
      BY <2>1, <2>4, <2>5, <3>1, <3>2, <3>3 DEF Building
  <2>12. Started(t)'
    BY <2>1, <2>4, <2>5, <2>6 DEF Started, q
  <2>13. RequestInv(t)'
    BY <2>1, <2>4, <2>5, <2>6, <2>11, <2>12 DEF RequestInv, Keyed, Answering
  <2>14. OneContent'
    <3>1. Keyed(t)
      BY <2>5 DEF Keyed, q
    <3> QED
      BY <2>1, <2>4, <3>1, KeepsContent DEF q
  <2> QED
    BY <1>a, <2>1, <2>13, <2>14, ThreadInv
<1>6. CASE FileView(t)
  <2>1. PICK stale : /\ Step(t, "build", [q EXCEPT !.at = "answer", !.stale = stale])
                     /\ cache' = {[key |-> q.key, view |-> q.view, stale |-> stale, base |-> q.base]}
    BY <1>6 DEF FileView, q
  <2>2. q.read = Len(ReadOrder) /\ UNCHANGED <<content, rev, serial, backup>>
    BY <1>6 DEF FileView, q
  <2> DEFINE r == [q EXCEPT !.at = "answer", !.stale = stale]
             entry == [key |-> q.key, view |-> q.view, stale |-> stale, base |-> q.base]
  <2>3. r.at = "answer" /\ r.view = q.view /\ r.since = q.since
    BY <1>a DEF Request
  <2>4. entry.key = q.key /\ entry.view = q.view /\ entry.base = q.base
    OBVIOUS
  <2>5. request'[t] = r /\ q.at = "build"
    <3> HIDE DEF r
    <3> QED
      BY <1>b, <2>1 DEF r
  <2>6. Started(t) /\ Building(t) /\ NoLater(q.since, content)
    BY <1>a, <2>5 DEF RequestInv, Keyed, q
  <2>7. DOMAIN q.view = Row
    <3>1. ReadSoFar(q) = Row
      BY <2>2, ReadOrderAssumption, ReadOrderType DEF ReadSoFar
    <3> QED
      BY <2>6, <3>1 DEF Building, q
  <2>8. q.view \in Rows /\ q.since \in Rows /\ q.base \in Rows
    BY <1>a, <2>7 DEF Request, PartialView, Rows
  <2>9. NoLater(q.base, q.view) /\ NoLater(q.since, q.base)
    BY <2>6, <2>7, <2>8 DEF Started, Building, NoLater, Rows, q
  <2>10. NoLater(q.since, q.view)
    BY <2>8, <2>9, NoLaterTrans
  <2>11. q.key.rev <= rev /\ (q.key.rev = rev => q.base = content /\ q.view = content)
    <3>1. q.key.rev = rev => \A row \in Row : q.view[row] = content[row]
      BY <2>6, <2>7 DEF Building, q
    <3>2. q.key.rev = rev => q.view = content
      BY <1>a, <2>8, <3>1 DEF Rows
    <3> QED
      BY <2>6, <3>2 DEF Started, q
  <2> HIDE DEF r, entry
  <2>12. Filed(entry)
    BY <2>4, <2>9, <2>11 DEF Filed
  <2>13. RequestInv(t)'
    BY <2>2, <2>3, <2>5, <2>6, <2>8, <2>10 DEF RequestInv, Keyed, Answering
  <2>14. OneContent'
    <3>1. \A u \in Thread \ {t} : request'[u] = request[u]
      BY <2>1 DEF Step, CacheInv, TypeOK
    <3>2. Keyed(t) /\ ~Keyed(t)'
      BY <2>3, <2>5 DEF Keyed, q
    <3>3. cache' = {entry}
      BY <2>1 DEF entry
    <3> QED
      BY <2>4, <3>1, <3>2, <3>3 DEF CacheInv, OneContent, Keyed, q
  <2> QED
    BY <2>1, <2>2, <2>12, <2>13, <2>14, ThreadInv DEF r, entry
<1>7. CASE Answer(t)
  <2>1. Step(t, "answer", IdleRequest) /\ UNCHANGED <<content, rev, serial, backup>> /\ cache' = cache
        /\ IdleRequest.at = "idle"
    BY <1>7 DEF Answer, UnchangedButRequest, IdleRequest
  <2>2. RequestInv(t)'
    BY <1>b, <2>1 DEF RequestInv, Keyed, Answering
  <2> QED
    BY <1>a, <2>1, <2>2, KeepsContent, ThreadInv
<1> QED
  BY <1>1, <1>2, <1>3, <1>4, <1>5, <1>6, <1>7 DEF Serve

(***************************************************************************)
(* The theorems.                                                           *)
(***************************************************************************)

\* The invariant holds unless a backup is restored under a running server.
THEOREM CacheInvHolds ==
    ASSUME Restores # "running"
    PROVE  Spec => []CacheInv
<1>1. Init => CacheInv
  <2> SUFFICES ASSUME Init PROVE CacheInv
    OBVIOUS
  <2>1. TypeOK
    BY InitType
  <2>2. \A t \in Thread : request[t].at = "idle"
    BY InitType
  <2>3. \A row \in Row : content[row] <= serial
    <3>1. \A row \in Row : content[row] = 0
      BY DEF Init, Nothing
    <3>2. serial = 0 /\ 0 <= 0
      BY DEF Init
    <3> SUFFICES ASSUME NEW row \in Row PROVE content[row] <= serial
      OBVIOUS
    <3>3. content[row] = 0
      BY <3>1
    <3> QED
      BY <3>2, <3>3, Zenon
  <2> QED
    BY <2>1, <2>2, <2>3 DEF Init, CacheInv, RequestInv, Keyed, Answering, OneContent
<1>2. CacheInv /\ [Next]_vars => CacheInv'
  <2> SUFFICES ASSUME CacheInv, [Next]_vars PROVE CacheInv'
    OBVIOUS
  <2>1. ASSUME NEW t \in Thread, FileView(t) PROVE request[t].view \in Rows
    <3>1. ReadInOrder(t)
      BY DEF CacheInv, RequestInv, ReadInOrder, Building
    <3> QED
      BY <2>1, <3>1, FiledIsWhole DEF CacheInv
  <2>2. TypeOK'
    BY <2>1, TypeStep DEF CacheInv
  <2>3. CASE Write
    BY <2>2, <2>3, WriteInv
  <2>4. CASE Backup
    <3>1. UNCHANGED <<content, rev, serial, cache, request>> /\ Restores # "never"
      BY <2>4 DEF Backup
    <3>2. \A s \in backup' : \A row \in Row : s.content[row] <= serial'
      BY <2>4 DEF Backup, CacheInv
    <3> QED
      BY <2>2, <3>1, <3>2
      DEF CacheInv, RequestInv, Keyed, Started, Building, Filed, OneContent, Answering
  <2>5. CASE Restore
    <3>1. ServerStarts
      BY <2>5, BoundAssumption DEF Restore, CacheInv
    <3> QED
      BY <2>2, <2>5, <3>1, StartsInv DEF Restore, CacheInv
  <2>6. CASE Restart
    BY <2>2, <2>6, StartsInv DEF Restart, CacheInv
  <2>7. CASE Age \/ UNCHANGED vars
    <3>1. UNCHANGED <<content, rev, serial, backup, cache, request>>
      BY <2>7 DEF Age, vars
    <3> QED
      BY <2>2, <3>1
      DEF CacheInv, RequestInv, Keyed, Started, Building, Filed, OneContent, Answering
  <2>8. ASSUME NEW t \in Thread, Serve(t) PROVE CacheInv'
    BY <2>2, <2>8, ServeInv
  <2> QED
    BY <2>3, <2>4, <2>5, <2>6, <2>7, <2>8 DEF Next
<1> QED
  BY <1>1, <1>2, PTL DEF Spec

\* A page never shows a row as it was before its request arrived.
THEOREM NoStaleAnswerHolds ==
    ASSUME Restores # "running"
    PROVE  Spec => []NoStaleAnswer
<1>1. CacheInv => NoStaleAnswer
  BY DEF CacheInv, RequestInv, NoStaleAnswer, NoLater, TypeOK, Request, Rows, Serial
<1> QED
  BY <1>1, CacheInvHolds, PTL

\* The cached view, while its key is the one a request would compute, shows the
\* store as it is.
THEOREM CacheIsFreshHolds ==
    ASSUME Restores # "running"
    PROVE  Spec => []CacheIsFresh
<1>1. CacheInv => CacheIsFresh
  BY DEF CacheInv, CacheIsFresh, CurrentKey, Filed
<1> QED
  BY <1>1, CacheInvHolds, PTL
=============================================================================
