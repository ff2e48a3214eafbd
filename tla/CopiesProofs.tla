---------------------------- MODULE CopiesProofs ----------------------------
(***************************************************************************)
(* What a forget owes the copies of a store, for any number of books,      *)
(* backups and forgets, in any order of commands and deaths.               *)
(*                                                                         *)
(* Two arguments.  A forget travels with the file it was applied to,       *)
(* because it is in the file's own retention record (LineageInv).  And     *)
(* while a forget runs, the live store has forgotten all it is told to, so *)
(* that backups made meanwhile need no visit, and those visited are        *)
(* rewritten, or measured and named (VisitInv).                            *)
(***************************************************************************)
EXTENDS Copies, TLAPS

\* The file a stamp, or Live, stands for.
Copy(f) == IF f = Live THEN live ELSE backups[f]

(***************************************************************************)
(* Types.                                                                  *)
(***************************************************************************)
\* A torn file, and a file that is not there, are no stores.
LEMMA StoresAreWhole == Torn \notin Store /\ NoFile \notin Store /\ NoFile \notin File
BY DEF Torn, NoFile, Store, File

\* A store a policy is applied to remains one.
LEMMA AppliedType ==
    ASSUME NEW f \in Store, NEW policy \in SUBSET Book
    PROVE  /\ Applied(f, policy) \in Store
           /\ Matched(f, policy) \in SUBSET Book
           /\ Matched(Applied(f, policy), policy) = {}
BY DEF Applied, Matched, Store

Running == [step: {"list", "measure", "write"}, policy: SUBSET Book, rewrite: BOOLEAN,
            todo: SUBSET Stamp, still: SUBSET Stamp, target: SUBSET Stamp]

LEMMA LiveIsNoStamp == Live \notin Stamp
BY BackupsAssumption DEF Live, Stamp

(***************************************************************************)
(* The forget that runs.                                                   *)
(***************************************************************************)
\* It has been applied to the live store, it writes to a store, and every backup
\* that still holds what it forgets is to be visited, being written, or named.
VisitInv ==
    job # Idle =>
        /\ IsStore(live)
        /\ live.forgotten = job.policy
        /\ Matched(live, job.policy) = {}
        /\ job.step = "write" => \A n, m \in job.target : n = m /\ IsStore(backups[n])
        /\ job.step # "write" => job.target = {}
        /\ job.step # "list" =>
             \A n \in Stamp :
                IsStore(backups[n]) /\ Matched(backups[n], job.policy) # {} =>
                    n \in job.todo \cup job.still \cup job.target

(***************************************************************************)
(* Types are invariant.                                                    *)
(***************************************************************************)
LEMMA TypeInit == Init => TypeOK
<1> SUFFICES ASSUME Init PROVE TypeOK
  OBVIOUS
<1>1. live \in File /\ backups \in [Stamp -> File \cup {NoFile}]
  BY DEF Init, File, Store
<1>2. forgets \in 0..MaxForgets
  BY BackupsAssumption DEF Init
<1> QED
  BY <1>1, <1>2 DEF Init, TypeOK

LEMMA TypeStep ==
    ASSUME TypeOK, VisitInv, [Next]_vars
    PROVE  TypeOK'
<1> USE DEF IsStore, HasPath
<1>a. Store \subseteq File
  BY DEF File
<1>1. ASSUME NEW b \in Book, Acquire(b) PROVE TypeOK'
  BY <1>1 DEF Acquire, TypeOK, forgetting
<1>2. CASE Refresh
  <2>1. live' \in Store
    BY <1>2 DEF Refresh, TypeOK, Store
  <2> QED
    BY <1>2, <1>a, <2>1 DEF Refresh, TypeOK, forgetting
<1>3. ASSUME NEW n \in Stamp, Backup(n) PROVE TypeOK'
  <2>1. told[Live] \in SUBSET Book
    BY DEF TypeOK
  <2> QED
    BY <1>3, <2>1 DEF Backup, TypeOK, forgetting
<1>4. ASSUME NEW n \in Stamp, Restore(n) PROVE TypeOK'
  <2>1. told[n] \in SUBSET Book /\ backups[n] \in File
    BY <1>4 DEF TypeOK, Restore
  <2> QED
    BY <1>4, <2>1 DEF Restore, TypeOK, forgetting
<1>5. CASE Export
  <2>1. live.holds \in SUBSET Book
    BY <1>5 DEF Export, Store
  <2> QED
    BY <1>5, <2>1 DEF Export, TypeOK, forgetting
<1>6. CASE Import
  <2>1. live' \in Store /\ told[Live] \ archive \in SUBSET Book
    BY <1>6 DEF Import, TypeOK, Store
  <2> QED
    BY <1>6, <1>a, <2>1 DEF Import, TypeOK, forgetting
<1>7. ASSUME NEW b \in Book, NEW rewrite \in BOOLEAN, BeginForget(b, rewrite) PROVE TypeOK'
  <2> DEFINE policy == live.forgotten \cup {b}
  <2>1. live \in Store /\ policy \in SUBSET Book
    BY <1>7 DEF BeginForget, Store
  <2>2. live' \in Store /\ Matched(live, policy) \in SUBSET Book
    BY <1>7, <2>1, AppliedType DEF BeginForget
  <2>3. job' \in Running
    BY <1>7, <2>1 DEF BeginForget, Running
  <2>4. forgets' \in 0..MaxForgets
    BY <1>7, BackupsAssumption DEF BeginForget, TypeOK
  <2>5. told' \in [Stamp \cup {Live} -> SUBSET Book]
    BY <1>7, <2>2 DEF BeginForget, TypeOK
  <2>6. receipt' = {} /\ UNCHANGED <<library, backups, archive, replaced>>
    BY <1>7 DEF BeginForget
  <2> QED
    BY <1>a, <2>2, <2>3, <2>4, <2>5, <2>6 DEF TypeOK, Running
<1>8. CASE ListBackups
  <2>1. job \in Running
    BY <1>8 DEF ListBackups, TypeOK, Running, Idle
  <2> DEFINE present == {n \in Stamp : HasPath(n)}
  <2>2. present \in SUBSET Stamp /\ job' = [job EXCEPT !.step = "measure", !.todo = present]
    BY <1>8 DEF ListBackups
  <2> HIDE DEF present
  <2>3. job' \in Running
    BY <2>1, <2>2 DEF Running
  <2> QED
    BY <1>8, <2>3 DEF ListBackups, TypeOK, Running
<1>9. ASSUME NEW n \in Stamp, Measure(n) PROVE TypeOK'
  <2>1. job \in Running
    BY <1>9 DEF Measure, TypeOK, Running, Idle
  <2>2. job' \in Running
    <3> DEFINE counts == Matched(backups[n], job.policy) # {}
               step == IF counts /\ job.rewrite THEN "write" ELSE job.step
               target == IF counts /\ job.rewrite THEN {n} ELSE {}
               still == IF counts /\ ~job.rewrite THEN job.still \cup {n} ELSE job.still
               todo == job.todo \ {n}
    <3>1. job' = [job EXCEPT !.step = step, !.target = target, !.still = still, !.todo = todo]
      BY <1>9 DEF Measure
    <3>2. /\ step \in {"list", "measure", "write"}
          /\ target \in SUBSET Stamp /\ still \in SUBSET Stamp /\ todo \in SUBSET Stamp
      BY <2>1 DEF Running
    <3> HIDE DEF step, target, still, todo
    <3> QED
      BY <2>1, <3>1, <3>2 DEF Running
  <2> QED
    BY <1>9, <2>2 DEF Measure, TypeOK, Running
<1>10. ASSUME NEW n \in Stamp, Rewrite(n) PROVE TypeOK'
  <2>1. job \in Running /\ n \in job.target
    BY <1>10 DEF Rewrite, TypeOK, Running, Idle
  <2>2. backups[n] \in Store
    BY <1>10, <2>1 DEF VisitInv, Rewrite, Running, Idle
  <2>3. job.policy \in SUBSET Book
    BY <2>1 DEF Running
  <2>4. Applied(backups[n], job.policy) \in Store /\ Matched(backups[n], job.policy) \in SUBSET Book
    BY <2>2, <2>3, AppliedType
  <2>5. backups' \in [Stamp -> File \cup {NoFile}]
    BY <1>10, <1>a, <2>4 DEF Rewrite, TypeOK, File
  <2>6. job' = Idle \/ job' \in Running
    BY <1>10, <2>1 DEF Rewrite, Running
  <2>7. told[n] \cup Matched(backups[n], job.policy) \in SUBSET Book
    BY <2>4 DEF TypeOK
  <2>8. told' \in [Stamp \cup {Live} -> SUBSET Book]
    <3> DEFINE more == told[n] \cup Matched(backups[n], job.policy)
    <3>1. told' = told \/ told' = [told EXCEPT ![n] = more]
      BY <1>10 DEF Rewrite
    <3>2. more \in SUBSET Book
      BY <2>7
    <3> HIDE DEF more
    <3> QED
      BY <3>1, <3>2 DEF TypeOK
  <2>9. replaced' \in BOOLEAN
    BY <1>10 DEF Rewrite, TypeOK
  <2> QED
    BY <1>10, <2>5, <2>6, <2>8, <2>9 DEF Rewrite, TypeOK, Running
<1>11. CASE Abort
  BY <1>11 DEF Abort, TypeOK
<1>12. CASE Report
  <2>1. job.policy \in SUBSET Book /\ job.still \in SUBSET Stamp
    BY <1>12 DEF Report, TypeOK, Idle
  <2> DEFINE r == [forgotten |-> job.policy, still |-> job.still]
  <2>2. r \in [forgotten: SUBSET Book, still: SUBSET Stamp] /\ receipt' = {r}
    BY <1>12, <2>1 DEF Report
  <2> HIDE DEF r
  <2> QED
    BY <1>12, <2>2 DEF Report, TypeOK
<1>13. CASE UNCHANGED vars
  BY <1>13 DEF vars, TypeOK
<1> QED
  BY <1>1, <1>2, <1>3, <1>4, <1>5, <1>6, <1>7, <1>8, <1>9, <1>10, <1>11, <1>12, <1>13 DEF Next

(***************************************************************************)
(* The visit of the backups is invariant.                                  *)
(***************************************************************************)
\* Whatever leaves the running forget and its files alone.
LEMMA VisitFrame ==
    ASSUME VisitInv, UNCHANGED <<live, backups, job>>
    PROVE  VisitInv'
BY DEF VisitInv, IsStore

LEMMA VisitStep ==
    ASSUME TypeOK, VisitInv, [Next]_vars
    PROVE  VisitInv'
<1> USE DEF IsStore, HasPath
<1>a. job # Idle => job \in Running
  BY DEF TypeOK, Running
<1>1. ASSUME NEW b \in Book, Acquire(b) PROVE VisitInv'
  BY <1>1, VisitFrame DEF Acquire, forgetting
<1>2. CASE Refresh
  <2> SUFFICES ASSUME job # Idle PROVE VisitInv'
    BY <1>2 DEF Refresh, forgetting, VisitInv
  <2>1. live' \in Store /\ live'.forgotten = live.forgotten /\ live'.holds = library \ live.forgotten
    BY <1>2 DEF Refresh, TypeOK, Store
  <2>2. Matched(live', job.policy) = {}
    BY <2>1 DEF VisitInv, Matched
  <2> QED
    BY <1>2, <2>1, <2>2 DEF Refresh, forgetting, VisitInv, Matched
<1>3. ASSUME NEW n \in Stamp, Backup(n) PROVE VisitInv'
  <2> SUFFICES ASSUME job # Idle PROVE VisitInv'
    BY <1>3 DEF Backup, forgetting, VisitInv
  <2>1. backups' = [backups EXCEPT ![n] = live] /\ UNCHANGED <<live, job>>
    BY <1>3 DEF Backup, forgetting
  <2>2. backups'[n] = live /\ \A m \in Stamp \ {n} : backups'[m] = backups[m]
    BY <2>1 DEF TypeOK
  <2>3. job.step = "write" => \A m, k \in job.target : m = k /\ IsStore(backups'[m])
    BY <1>a, <2>2 DEF VisitInv, Running
  <2>4. job.step # "list" =>
          \A m \in Stamp :
             IsStore(backups'[m]) /\ Matched(backups'[m], job.policy) # {} =>
                 m \in job.todo \cup job.still \cup job.target
    BY <2>2 DEF VisitInv
  <2> QED
    BY <2>1, <2>3, <2>4 DEF VisitInv, Matched
<1>4. ASSUME NEW n \in Stamp, Restore(n) PROVE VisitInv'
  BY <1>4 DEF Restore, forgetting, VisitInv
<1>5. CASE Export
  BY <1>5, VisitFrame DEF Export, forgetting
<1>6. CASE Import
  BY <1>6 DEF Import, forgetting, VisitInv
<1>7. ASSUME NEW b \in Book, NEW rewrite \in BOOLEAN, BeginForget(b, rewrite) PROVE VisitInv'
  <2> DEFINE policy == live.forgotten \cup {b}
  <2>1. live \in Store /\ policy \in SUBSET Book
    BY <1>7 DEF BeginForget, Store
  <2>2. live' = Applied(live, policy) /\ job'.step = "list" /\ job'.policy = policy /\ job'.target = {}
    BY <1>7 DEF BeginForget
  <2>3. live' \in Store /\ Matched(live', policy) = {} /\ live'.forgotten = policy
    BY <2>1, <2>2, AppliedType DEF Applied
  <2> HIDE DEF policy
  <2> QED
    BY <2>2, <2>3 DEF VisitInv, Matched
<1>8. CASE ListBackups
  <2>1. job \in Running /\ job # Idle
    BY <1>8, <1>a DEF ListBackups, Idle
  <2>2. /\ job' = [job EXCEPT !.step = "measure", !.todo = {n \in Stamp : HasPath(n)}]
        /\ UNCHANGED <<live, backups>>
    BY <1>8 DEF ListBackups
  <2>3. /\ job'.step = "measure" /\ job'.policy = job.policy
        /\ job'.todo = {n \in Stamp : HasPath(n)} /\ job'.target = job.target
    BY <2>1, <2>2 DEF Running
  <2>4. job.target = {}
    BY <1>8, <2>1 DEF VisitInv, ListBackups
  <2>5. \A n \in Stamp : IsStore(backups[n]) => n \in job'.todo
    BY <2>3, StoresAreWhole
  <2> QED
    BY <2>1, <2>2, <2>3, <2>4, <2>5 DEF VisitInv, Matched
<1>9. ASSUME NEW n \in Stamp, Measure(n) PROVE VisitInv'
  <2> DEFINE counts == Matched(backups[n], job.policy) # {}
  <2>1. job \in Running /\ job # Idle /\ job.step = "measure" /\ backups[n] \in Store
    BY <1>9, <1>a DEF Measure, Idle
  <2>2. UNCHANGED <<live, backups>>
    BY <1>9 DEF Measure
  <2>3. /\ job'.step = IF counts /\ job.rewrite THEN "write" ELSE job.step
        /\ job'.target = IF counts /\ job.rewrite THEN {n} ELSE {}
        /\ job'.still = IF counts /\ ~job.rewrite THEN job.still \cup {n} ELSE job.still
        /\ job'.todo = job.todo \ {n}
        /\ job'.policy = job.policy
    BY <1>9, <2>1 DEF Measure, Running
  <2>4. \A m \in Stamp :
          IsStore(backups[m]) /\ Matched(backups[m], job.policy) # {} =>
              m \in job.todo \cup job.still
    BY <2>1 DEF VisitInv
  <2>5. \A m \in Stamp :
          IsStore(backups[m]) /\ Matched(backups[m], job.policy) # {} =>
              m \in job'.todo \cup job'.still \cup job'.target
    BY <2>3, <2>4
  <2>6. job'.step = "write" => \A m \in job'.target : IsStore(backups[m])
    BY <2>1, <2>3
  <2>7. job'.step # "write" => job'.target = {}
    BY <2>1, <2>3
  <2> QED
    BY <2>1, <2>2, <2>3, <2>5, <2>6, <2>7 DEF VisitInv, Matched
<1>10. ASSUME NEW n \in Stamp, Rewrite(n) PROVE VisitInv'
  <2>1. job \in Running /\ job # Idle /\ job.step = "write" /\ n \in job.target
    BY <1>10, <1>a DEF Rewrite, Idle
  <2>2. backups[n] \in Store /\ job.policy \in SUBSET Book
    BY <2>1 DEF VisitInv, Running
  <2>3. CASE job' = Idle
    BY <2>3 DEF VisitInv
  <2>4. CASE job' # Idle
    <3> DEFINE scratch == Applied(backups[n], job.policy)
    <3>1. /\ backups' = [backups EXCEPT ![n] = scratch]
          /\ job' = [job EXCEPT !.step = "measure", !.target = {}]
          /\ live' = live
      BY <1>10, <2>4 DEF Rewrite
    <3>2. Matched(scratch, job.policy) = {}
      BY <2>2, AppliedType
    <3>3. backups'[n] = scratch /\ \A m \in Stamp \ {n} : backups'[m] = backups[m]
      BY <3>1 DEF TypeOK
    <3>4. /\ job'.step = "measure" /\ job'.target = {} /\ job'.policy = job.policy
          /\ job'.todo = job.todo /\ job'.still = job.still
      BY <2>1, <3>1 DEF Running
    <3> HIDE DEF scratch
    <3>5. \A m \in job.target : m = n
      BY <2>1 DEF VisitInv
    <3> QED
      BY <2>1, <3>1, <3>2, <3>3, <3>4, <3>5 DEF VisitInv, Matched
  <2> QED
    BY <2>3, <2>4
<1>11. CASE Abort
  BY <1>11 DEF Abort, VisitInv
<1>12. CASE Report
  BY <1>12 DEF Report, VisitInv
<1>13. CASE UNCHANGED vars
  BY <1>13, VisitFrame DEF vars
<1> QED
  BY <1>1, <1>2, <1>3, <1>4, <1>5, <1>6, <1>7, <1>8, <1>9, <1>10, <1>11, <1>12, <1>13 DEF Next
(***************************************************************************)
(* The theorems about types and receipts.                                  *)
(***************************************************************************)
LEMMA VisitInit == Init => VisitInv
BY DEF Init, VisitInv

LEMMA VisitHolds == Spec => [](TypeOK /\ VisitInv)
<1>1. Init => TypeOK /\ VisitInv
  BY TypeInit, VisitInit
<1>2. TypeOK /\ VisitInv /\ [Next]_vars => (TypeOK /\ VisitInv)'
  BY TypeStep, VisitStep
<1> QED
  BY <1>1, <1>2, PTL DEF Spec

\* The types of the files and of the forget that runs, deaths at any step included.
THEOREM TypeCorrect == Spec => []TypeOK
BY VisitHolds, PTL

\* A receipt names every backup that still holds something forgotten, those made
\* while the forget ran included (forget.py, "a deletion that can be checked").
THEOREM ReceiptIsTrueHolds == Spec => ReceiptIsTrue
<1> DEFINE Told == \A r \in receipt' \ receipt :
                     \A n \in Stamp :
                        backups'[n] \in Store /\ Matched(backups'[n], r.forgotten) # {} =>
                            n \in r.still
<1>1. ASSUME TypeOK, VisitInv, [Next]_vars PROVE [Told]_vars
  <2>1. CASE Report
    <3>1. job # Idle /\ job.step = "measure" /\ job.todo = {} /\ job.target = {}
      BY <1>1, <2>1 DEF Report, Idle, VisitInv
    <3>2. backups' = backups /\ receipt' = {[forgotten |-> job.policy, still |-> job.still]}
      BY <2>1 DEF Report
    <3>3. \A n \in Stamp :
             backups[n] \in Store /\ Matched(backups[n], job.policy) # {} => n \in job.still
      BY <1>1, <3>1 DEF VisitInv, IsStore
    <3> QED
      BY <3>2, <3>3
  <2>2. CASE ~Report
    <3>1. receipt' \ receipt = {}
      BY <1>1, <2>2 DEF Next, vars, forgetting, Acquire, Refresh, Backup, Restore, Export,
         Import, BeginForget, ListBackups, Measure, Rewrite, Abort
    <3> QED
      BY <3>1
  <2> QED
    BY <2>1, <2>2
<1> QED
  BY <1>1, VisitHolds, PTL DEF Spec, ReceiptIsTrue

(***************************************************************************)
(* The forgets of a file.                                                  *)
(***************************************************************************)
\* What a whole file was made to forget is in its own retention record, and it
\* holds none of it.
Remembers(f) ==
    IsStore(Copy(f)) =>
        told[f] \subseteq Copy(f).forgotten /\ Copy(f).holds \cap told[f] = {}

LineageInv == ~replaced => \A f \in Stamp \cup {Live} : Remembers(f)

LEMMA LineageInit == Init => LineageInv
BY DEF Init, LineageInv, Remembers, Copy

\* A file that did not change, or was copied with what it was told, still remembers.
LEMMA CopyRemembers ==
    ASSUME NEW f, NEW g, Remembers(g), Copy(f)' = Copy(g), told'[f] = told[g]
    PROVE  Remembers(f)'
BY DEF Remembers, IsStore

LEMMA LineageStep ==
    ASSUME TypeOK, VisitInv, LineageInv, [Next]_vars
    PROVE  LineageInv'
<1> SUFFICES ASSUME ~replaced', NEW f \in Stamp \cup {Live} PROVE Remembers(f)'
  BY DEF LineageInv
<1> USE DEF IsStore, HasPath
<1>a. replaced \in BOOLEAN /\ told \in [Stamp \cup {Live} -> SUBSET Book]
  BY DEF TypeOK
<1>b. backups \in [Stamp -> File \cup {NoFile}]
  BY DEF TypeOK
<1>c. f # Live => f \in Stamp
  OBVIOUS
<1>0. ~replaced
  BY <1>a DEF Next, vars, forgetting, Acquire, Refresh, Backup, Restore, Export, Import,
     BeginForget, ListBackups, Measure, Rewrite, Abort, Report
<1>r. \A g \in Stamp \cup {Live} : Remembers(g)
  BY <1>0 DEF LineageInv
<1>f. ASSUME UNCHANGED <<live, backups, told>> PROVE Remembers(f)'
  BY <1>f, <1>r DEF Remembers, Copy
<1>1. ASSUME NEW b \in Book, Acquire(b) PROVE Remembers(f)'
  BY <1>1, <1>f DEF Acquire
<1>2. CASE Refresh
  <2>1. /\ IsStore(live) /\ live'.holds = library \ live.forgotten
        /\ live'.forgotten = live.forgotten /\ UNCHANGED <<backups, told>>
    BY <1>2 DEF Refresh, Store
  <2>2. CASE f = Live
    <3>1. told[f] \subseteq live.forgotten
      BY <1>r, <2>1, <2>2 DEF Remembers, Copy
    <3> QED
      BY <2>1, <2>2, <3>1 DEF Remembers, Copy
  <2>3. CASE f # Live
    BY <1>r, <2>1, <2>3 DEF Remembers, Copy
  <2> QED
    BY <2>2, <2>3
<1>3. ASSUME NEW n \in Stamp, Backup(n) PROVE Remembers(f)'
  <2>1. /\ backups' = [backups EXCEPT ![n] = live] /\ live' = live
        /\ told' = [told EXCEPT ![n] = told[Live]]
    BY <1>3 DEF Backup
  <2>2. CASE f = n
    <3>1. Copy(f)' = Copy(Live) /\ told'[f] = told[Live]
      BY <1>a, <1>b, <2>1, <2>2, LiveIsNoStamp DEF Copy
    <3> QED
      BY <1>r, <3>1, CopyRemembers
  <2>3. CASE f # n
    <3>1. Copy(f)' = Copy(f) /\ told'[f] = told[f]
      BY <1>a, <1>b, <1>c, <2>1, <2>3 DEF Copy
    <3> QED
      BY <1>r, <3>1, CopyRemembers
  <2> QED
    BY <2>2, <2>3
<1>4. ASSUME NEW n \in Stamp, Restore(n) PROVE Remembers(f)'
  <2>1. live' = backups[n] /\ backups' = backups /\ told' = [told EXCEPT ![Live] = told[n]]
    BY <1>4 DEF Restore
  <2>2. CASE f = Live
    <3>1. Copy(f)' = Copy(n) /\ told'[f] = told[n]
      BY <1>a, <2>1, <2>2, LiveIsNoStamp DEF Copy
    <3> QED
      BY <1>r, <3>1, CopyRemembers
  <2>3. CASE f # Live
    <3>1. Copy(f)' = Copy(f) /\ told'[f] = told[f]
      BY <1>a, <2>1, <2>3 DEF Copy
    <3> QED
      BY <1>r, <3>1, CopyRemembers
  <2> QED
    BY <2>2, <2>3
<1>5. CASE Export
  BY <1>5, <1>f DEF Export
<1>6. CASE Import
  <2>1. /\ live \in Store /\ live'.holds = archive /\ live'.forgotten = live.forgotten
        /\ backups' = backups /\ told' = [told EXCEPT ![Live] = @ \ archive]
    BY <1>6 DEF Import, Store
  <2>2. CASE f = Live
    <3>1. told'[f] = told[f] \ archive /\ told[f] \subseteq live.forgotten
      BY <1>a, <1>r, <2>1, <2>2 DEF Remembers, Copy
    <3> QED
      BY <2>1, <2>2, <3>1 DEF Remembers, Copy
  <2>3. CASE f # Live
    <3>1. Copy(f)' = Copy(f) /\ told'[f] = told[f]
      BY <1>a, <2>1, <2>3 DEF Copy
    <3> QED
      BY <1>r, <3>1, CopyRemembers
  <2> QED
    BY <2>2, <2>3
<1>7. ASSUME NEW b \in Book, NEW rewrite \in BOOLEAN, BeginForget(b, rewrite)
      PROVE  Remembers(f)'
  <2> DEFINE policy == live.forgotten \cup {b}
  <2>1. /\ live \in Store /\ live' = Applied(live, policy) /\ backups' = backups
        /\ told' = [told EXCEPT ![Live] = @ \cup Matched(live, policy)]
    BY <1>7 DEF BeginForget
  <2>2. CASE f = Live
    <3>1. told'[f] = told[f] \cup Matched(live, policy)
      BY <1>a, <2>1, <2>2
    <3>2. told[f] \subseteq live.forgotten
      BY <1>r, <2>1, <2>2 DEF Remembers, Copy
    <3>3. live'.holds = live.holds \ policy /\ live'.forgotten = policy
      BY <2>1 DEF Applied
    <3>4. told'[f] \subseteq policy
      BY <3>1, <3>2 DEF Matched
    <3> QED
      BY <2>2, <3>3, <3>4 DEF Remembers, Copy
  <2>3. CASE f # Live
    <3>1. Copy(f)' = Copy(f) /\ told'[f] = told[f]
      BY <1>a, <2>1, <2>3 DEF Copy
    <3> QED
      BY <1>r, <3>1, CopyRemembers
  <2> QED
    BY <2>2, <2>3
<1>8. CASE ListBackups
  BY <1>8, <1>f DEF ListBackups
<1>9. ASSUME NEW n \in Stamp, Measure(n) PROVE Remembers(f)'
  BY <1>9, <1>f DEF Measure
<1>10. ASSUME NEW n \in Stamp, Rewrite(n) PROVE Remembers(f)'
  <2> DEFINE policy == job.policy
             more == told[n] \cup Matched(backups[n], policy)
  <2>1. CASE f # n
    <3>1. Copy(f)' = Copy(f) /\ told'[f] = told[f]
      BY <1>10, <1>a, <1>b, <1>c, <2>1 DEF Rewrite, Copy
    <3> QED
      BY <1>r, <3>1, CopyRemembers
  <2>2. CASE f = n /\ backups' = [backups EXCEPT ![n] = Torn]
    <3>1. Copy(f)' = Torn
      BY <1>b, <2>2, LiveIsNoStamp DEF Copy
    <3> QED
      BY <3>1, StoresAreWhole DEF Remembers
  <2>3. CASE f = n /\ ~(backups' = [backups EXCEPT ![n] = Torn])
    <3>1. /\ backups' = [backups EXCEPT ![n] = Applied(backups[n], policy)]
          /\ told' = [told EXCEPT ![n] = more]
          /\ backups[n].forgotten \subseteq policy
      BY <1>10, <2>3 DEF Rewrite
    <3>2. backups[n] \in Store
      BY <1>10 DEF Rewrite, VisitInv, Idle
    <3>3. told[n] \subseteq backups[n].forgotten
      BY <1>r, <3>2, LiveIsNoStamp DEF Remembers, Copy
    <3>4. told'[f] = more /\ more \subseteq policy
      BY <1>a, <2>3, <3>1, <3>3 DEF Matched
    <3>5. Copy(f)' = Applied(backups[n], policy)
      BY <1>b, <2>3, <3>1, LiveIsNoStamp DEF Copy
    <3>6. Copy(f)'.holds = backups[n].holds \ policy /\ Copy(f)'.forgotten = policy
      BY <3>5 DEF Applied
    <3> HIDE DEF policy, more
    <3> QED
      BY <3>4, <3>6 DEF Remembers
  <2> QED
    BY <2>1, <2>2, <2>3
<1>11. CASE Abort
  BY <1>11, <1>f DEF Abort
<1>12. CASE Report
  BY <1>12, <1>f DEF Report
<1>13. CASE UNCHANGED vars
  BY <1>13, <1>f DEF vars
<1> QED
  BY <1>1, <1>2, <1>3, <1>4, <1>5, <1>6, <1>7, <1>8, <1>9, <1>10, <1>11, <1>12, <1>13 DEF Next

\* What a store was made to forget does not come back to it or to its copies, by
\* restores, refreshes, forgets and deaths in any order, unless it is imported, or a
\* rewrite has put a smaller policy in the place of a backup's own.
THEOREM LineageRemembersHolds == Spec => []LineageRemembers
<1>1. Init => TypeOK /\ VisitInv /\ LineageInv
  BY TypeInit, VisitInit, LineageInit
<1>2. TypeOK /\ VisitInv /\ LineageInv /\ [Next]_vars => (TypeOK /\ VisitInv /\ LineageInv)'
  BY TypeStep, VisitStep, LineageStep
<1>3. LineageInv => LineageRemembers
  BY DEF LineageInv, LineageRemembers, Remembers, Copy
<1> QED
  BY <1>1, <1>2, <1>3, PTL DEF Spec
=============================================================================
