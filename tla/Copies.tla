------------------------------- MODULE Copies -------------------------------
(***************************************************************************)
(* The files a reading record is in: the live store, its backups           *)
(* (ingest/backup.py) and an archive (ingest/archive.py), while            *)
(* `stacks forget` works through the live store and then through every     *)
(* backup (ingest/forget.py), rewriting them or only measuring them.       *)
(*                                                                         *)
(* A store is the books it has a state of and the forgets its retention    *)
(* record holds; forgets by date and horizons are left to StacksCore and   *)
(* Activity.  The reader restores and imports only while no forget runs.   *)
(***************************************************************************)
EXTENDS Integers, FiniteSets

CONSTANTS
    Book,        \* the books of the reader's libraries
    MaxBackups,  \* bound on the backups ever made
    MaxForgets   \* bound on the forgets started

ASSUME BackupsAssumption == MaxBackups \in Nat /\ MaxForgets \in Nat

Stamp == 1..MaxBackups
Store == [holds: SUBSET Book, forgotten: SUBSET Book]
Torn == [torn |-> TRUE]
File == Store \cup {Torn}
NoFile == [absent |-> TRUE]
Idle == [step |-> "idle"]
Live == 0

VARIABLES
    library,   \* what the read-only sources hold
    live,      \* the store
    backups,   \* the backup files, by stamp
    archive,   \* the books of an exported archive
    job,       \* the forget that runs
    receipt,   \* the last receipt, until the next forget begins
    forgets,   \* how many forgets have been started
    told,      \* ghost: what each file, or one it was copied from, was made to forget
    replaced   \* ghost: a rewrite has put a smaller policy over a backup's own

vars == <<library, live, backups, archive, job, receipt, forgets, told, replaced>>

IsStore(f) == f \in Store
HasPath(n) == backups[n] # NoFile

TypeOK ==
    /\ library \subseteq Book
    /\ live \in File
    /\ backups \in [Stamp -> File \cup {NoFile}]
    /\ archive \subseteq Book
    /\ job = Idle \/ job \in [step: {"list", "measure", "write"}, policy: SUBSET Book,
                              rewrite: BOOLEAN, todo: SUBSET Stamp, still: SUBSET Stamp,
                              target: SUBSET Stamp]
    /\ receipt = {} \/ \E r \in [forgotten: SUBSET Book, still: SUBSET Stamp] : receipt = {r}
    /\ forgets \in 0..MaxForgets
    /\ told \in [Stamp \cup {Live} -> SUBSET Book]
    /\ replaced \in BOOLEAN

Init ==
    /\ library \in SUBSET Book
    /\ live = [holds |-> {}, forgotten |-> {}]
    /\ backups = [n \in Stamp |-> NoFile]
    /\ archive = {}
    /\ job = Idle
    /\ receipt = {}
    /\ forgets = 0
    /\ told = [f \in Stamp \cup {Live} |-> {}]
    /\ replaced = FALSE

forgetting == <<job, receipt, forgets>>

(***************************************************************************)
(* The other commands.                                                     *)
(***************************************************************************)
Acquire(b) ==
    /\ library' = library \cup {b}
    /\ UNCHANGED <<live, backups, archive, forgetting, told, replaced>>

Refresh ==
    /\ IsStore(live)
    /\ live' = [live EXCEPT !.holds = library \ live.forgotten]
    /\ UNCHANGED <<library, backups, archive, forgetting, told, replaced>>

\* A second backup within one second takes the name of the first.
Backup(n) ==
    /\ \A m \in Stamp : m > n => ~HasPath(m)
    /\ \A m \in Stamp : m < n => HasPath(m)
    /\ backups' = [backups EXCEPT ![n] = live]
    /\ told' = [told EXCEPT ![n] = told[Live]]
    /\ UNCHANGED <<library, live, archive, forgetting, replaced>>

Restore(n) ==
    /\ job = Idle
    /\ HasPath(n)
    /\ live' = backups[n]
    /\ told' = [told EXCEPT ![Live] = told[n]]
    /\ UNCHANGED <<library, backups, archive, forgetting, replaced>>

Export ==
    /\ IsStore(live)
    /\ archive' = live.holds
    /\ UNCHANGED <<library, live, backups, forgetting, told, replaced>>

\* import-archive saves what the archive holds, whatever was forgotten since.
Import ==
    /\ job = Idle
    /\ IsStore(live)
    /\ live' = [live EXCEPT !.holds = archive]
    /\ told' = [told EXCEPT ![Live] = @ \ archive]
    /\ UNCHANGED <<library, backups, archive, forgetting, replaced>>

(***************************************************************************)
(* stacks forget.                                                          *)
(***************************************************************************)
\* What applying a policy counts in a store.
Matched(f, policy) == f.holds \cap policy

\* Slip: the store keeps the retention record it had.
PrunedOnly(f, policy) == [f EXCEPT !.holds = @ \ policy]

\* _apply_to_store: the survivors, and the policy.
Applied(f, policy) == [holds |-> f.holds \ policy, forgotten |-> policy]

\* A book that matches nothing is not remembered, and ends the command.
BeginForget(b, rewrite) ==
    LET policy == live.forgotten \cup {b}
    IN  /\ job = Idle
        /\ forgets < MaxForgets
        /\ IsStore(live)
        /\ Matched(live, policy) # {}
        /\ live' = Applied(live, policy)
        /\ job' = [step |-> "list", policy |-> policy, rewrite |-> rewrite,
                   todo |-> {}, still |-> {}, target |-> {}]
        /\ receipt' = {}
        /\ forgets' = forgets + 1
        /\ told' = [told EXCEPT ![Live] = @ \cup Matched(live, policy)]
        /\ UNCHANGED <<library, backups, archive, replaced>>

\* Slip: the backups are listed by the policy each has, and one that has any forget in
\* it is taken for done.
ListBackupsUntouched ==
    /\ job.step = "list"
    /\ job' = [job EXCEPT !.step = "measure",
                         !.todo = {n \in Stamp : IsStore(backups[n]) /\ backups[n].forgotten = {}}]
    /\ UNCHANGED <<library, live, backups, archive, receipt, forgets, told, replaced>>

ListBackups ==
    /\ job.step = "list"
    /\ job' = [job EXCEPT !.step = "measure", !.todo = {n \in Stamp : HasPath(n)}]
    /\ UNCHANGED <<library, live, backups, archive, receipt, forgets, told, replaced>>

\* The oldest backup not yet done, applied in a scratch copy.
IsNext(n) == n \in job.todo /\ \A m \in job.todo : n <= m

Measure(n) ==
    /\ job.step = "measure" /\ IsNext(n)
    /\ IsStore(backups[n])
    /\ LET counts == Matched(backups[n], job.policy) # {}
       IN  job' = [job EXCEPT
                     !.step = IF counts /\ job.rewrite THEN "write" ELSE @,
                     !.target = IF counts /\ job.rewrite THEN {n} ELSE {},
                     !.still = IF counts /\ ~job.rewrite THEN @ \cup {n} ELSE @,
                     !.todo = @ \ {n}]
    /\ UNCHANGED <<library, live, backups, archive, receipt, forgets, told, replaced>>

\* copy2 over the original: first it is empty, then it is the scratch copy.  A death
\* in between leaves it so.
Rewrite(n) ==
    LET scratch == Applied(backups[n], job.policy)
    IN  /\ job.step = "write" /\ n \in job.target
        /\ \/ /\ backups' = [backups EXCEPT ![n] = scratch]
              /\ job' = [job EXCEPT !.step = "measure", !.target = {}]
              /\ told' = [told EXCEPT ![n] = @ \cup Matched(backups[n], job.policy)]
              /\ replaced' = (replaced \/ ~(backups[n].forgotten \subseteq job.policy))
           \/ /\ backups' = [backups EXCEPT ![n] = Torn]
              /\ job' = Idle
              /\ UNCHANGED <<told, replaced>>
        /\ UNCHANGED <<library, live, archive, receipt, forgets>>

\* A backup that cannot be opened ends the command with an error, the process may
\* die, and neither gives a receipt.
Abort ==
    /\ job # Idle
    /\ job' = Idle
    /\ UNCHANGED <<library, live, backups, archive, receipt, forgets, told, replaced>>

Report ==
    /\ job.step = "measure" /\ job.todo = {}
    /\ receipt' = {[forgotten |-> job.policy, still |-> job.still]}
    /\ job' = Idle
    /\ UNCHANGED <<library, live, backups, archive, forgets, told, replaced>>

Next ==
    \/ \E b \in Book : Acquire(b)
    \/ Refresh
    \/ \E n \in Stamp : Backup(n)
    \/ \E n \in Stamp : Restore(n)
    \/ Export
    \/ Import
    \/ \E b \in Book, rewrite \in BOOLEAN : BeginForget(b, rewrite)
    \/ ListBackups
    \/ \E n \in Stamp : Measure(n)
    \/ \E n \in Stamp : Rewrite(n)
    \/ Abort
    \/ Report

Spec == Init /\ [][Next]_vars

(***************************************************************************)
(* Properties.                                                             *)
(***************************************************************************)
\* A receipt is true of the files when it is printed, backups made meanwhile
\* included: the store holds nothing that was forgotten, and a backup that does is
\* named as still holding it (forget.py, "a deletion that can be checked").
ReceiptIsTrue ==
    [][\A r \in receipt' \ receipt :
          \A n \in Stamp :
             backups'[n] \in Store /\ Matched(backups'[n], r.forgotten) # {} => n \in r.still]_vars

\* What a store was made to forget does not come back to it or to its copies, by
\* restores, refreshes and deaths in any order: the forget is in the file.  Except
\* by an import, which is the reader's word too, and where a rewrite has replaced a
\* backup's policy by the live one's that lacks a forget of its own.
LineageRemembers ==
    ~replaced =>
        \A f \in Stamp \cup {Live} :
            LET file == IF f = Live THEN live ELSE backups[f]
            IN  IsStore(file) => file.holds \cap told[f] = {}
=============================================================================
