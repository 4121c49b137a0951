------------------------------- MODULE Backup -------------------------------
(***************************************************************************)
(* Backups of the SQLite database: SqliteBackupProvider and the file names *)
(* and rotation of memcore-core.  Several processes (a cron job and an     *)
(* operator) may back up into one directory while the database is written, *)
(* and each may be killed at any step.                                     *)
(*                                                                         *)
(* A name is the second of the backup and its label.  A file holds one     *)
(* version of the database, or is torn: it mixes several.  `by' are the    *)
(* processes that have it open for writing; one whose file was unlinked    *)
(* writes to nowhere.  Times of modification differ: `order' lists the     *)
(* files by them.                                                          *)
(***************************************************************************)
EXTENDS Integers, Sequences, FiniteSets, SequencesExt

CONSTANTS Proc,
          MaxFiles,     \* backup_max_files
          Requests,     \* [backend, dir |-> components, label |-> characters]
          Migrated,     \* the version of the database that first has its tables
          MaxClock, MaxWrites, MaxBegins, MaxFaults      \* bounds

ASSUME BackupConstants ==
  /\ MaxFiles \in Nat \ {0} /\ Migrated \in Nat
  /\ {MaxClock, MaxWrites, MaxBegins, MaxFaults} \subseteq Nat

VARIABLES clock,      \* seconds
          db,         \* version of the database
          files,      \* [Name -> NoFile or a file]
          order,      \* the existing names, the last modified last
          job,        \* [Proc -> Idle or a running create_backup]
          results,    \* history: what create_backup has returned
          shared,     \* history: names that two runs have used at a time
          mixed,      \* history: two runs have overlapped
          begun, faults

vars == <<clock, db, files, order, job, results, shared, mixed, begun, faults>>

-----------------------------------------------------------------------------
(* Names. *)

Safe == {"a", "b", "-"}      \* of the characters that labels are made of

\* Other characters become dashes; dashes are collapsed and trimmed.
SanitizeLabel(label) ==
  LET at(i) == IF label[i] \in Safe THEN label[i] ELSE "-"
      keep(i) == \/ at(i) # "-"
                 \/ /\ \E j \in 1 .. i - 1 : at(j) # "-"
                    /\ i < Len(label) /\ at(i + 1) # "-"
  IN  [i \in 1 .. Cardinality({j \in DOMAIN label : keep(j)}) |->
         at(CHOOSE j \in DOMAIN label :
              keep(j) /\ Cardinality({k \in 1 .. j : keep(k)}) = i)]

\* validate_backup_output_dir.
DirValid(dir) == dir # <<>> /\ \A i \in DOMAIN dir : dir[i] # ".."

\* build_sqlite_backup_filename.
FileName(label) == <<clock, SanitizeLabel(label)>>

Name == (0 .. MaxClock) \X {SanitizeLabel(q.label) : q \in Requests}

NoFile == [size |-> "none"]
File == [by : SUBSET Proc, v : Nat, torn : BOOLEAN,
         size : {"empty", "part", "full"}]

Existing == {n \in Name : files[n] # NoFile}
Content(f) == IF f = NoFile THEN [v |-> 0, torn |-> FALSE, size |-> "none"]
              ELSE [v |-> f.v, torn |-> f.torn, size |-> f.size]

\* p opens the file n for writing; with one who is writing it already it mixes
\* two versions.
Opened(p, n, size) ==
  LET others == IF files[n] = NoFile THEN {} ELSE files[n].by
  IN  [by |-> others \cup {p}, v |-> db, torn |-> others # {}, size |-> size]

\* Where the existing file n is in the listing, and the listing without it.
Position(n) == CHOOSE i \in DOMAIN order : order[i] = n
Without(n) == IF n \in ToSet(order) THEN RemoveAt(order, Position(n)) ELSE order

\* The name n is made to stand for the file f, which is the last modified.
Put(n, f) ==
  /\ files' = [files EXCEPT ![n] = f]
  /\ order' = IF f = NoFile THEN Without(n) ELSE Append(Without(n), n)

Idle == [pc |-> "idle"]
Running == {p \in Proc : job[p] # Idle}

Init ==
  /\ clock = 0 /\ db = 0 /\ order = <<>>
  /\ files = [n \in Name |-> NoFile]
  /\ job = [p \in Proc |-> Idle]
  /\ results = {} /\ shared = {} /\ mixed = FALSE
  /\ begun = 0 /\ faults = 0

-----------------------------------------------------------------------------
(* The world around. *)

Tick == clock < MaxClock /\ clock' = clock + 1
        /\ UNCHANGED <<db, files, order, job, results, shared, mixed, begun, faults>>

WriteDatabase ==
  /\ db < MaxWrites /\ db' = db + 1
  /\ UNCHANGED <<clock, files, order, job, results, shared, mixed, begun, faults>>

\* The process is killed; what it has written stays.
Crash(p) ==
  /\ job[p] # Idle /\ faults < MaxFaults /\ faults' = faults + 1
  /\ job' = [job EXCEPT ![p] = Idle]
  /\ files' = [n \in Name |-> IF files[n] = NoFile THEN NoFile
                              ELSE [files[n] EXCEPT !.by = @ \ {p}]]
  /\ UNCHANGED <<clock, db, order, results, shared, mixed, begun>>

-----------------------------------------------------------------------------
(* create_backup. *)

To(p, pc) == job' = [job EXCEPT ![p].pc = pc]
Stop(p) == job' = [job EXCEPT ![p] = Idle]
Same == UNCHANGED <<clock, db, results, shared, mixed, begun, faults>>

\* Mutant: an existing file of the name is not noticed.
TakenNever(n) == FALSE

Taken(n) == files[n] # NoFile

\* Up to the check that the file does not exist: a Conflict.
Begin(p) ==
  /\ job[p] = Idle /\ begun < MaxBegins /\ begun' = begun + 1
  /\ \E q \in Requests :
       LET n == FileName(q.label) IN
       /\ q.backend = "sqlite" /\ DirValid(q.dir)
       /\ job' = IF Taken(n) THEN job
                 ELSE [job EXCEPT ![p] = [pc |-> "vacuum", n |-> n, from |-> db,
                                          how |-> "vacuum", todo |-> <<>>,
                                          sum |-> {}]]
       /\ shared' = shared \cup
            (IF ~Taken(n) /\ \E o \in Running : job[o].n = n THEN {n} ELSE {})
  /\ mixed' = (mixed \/ Running # {})
  /\ UNCHANGED <<clock, db, files, order, results, faults>>

\* VACUUM INTO refuses a file that has come up since, an empty one perhaps;
\* otherwise it writes the version it has found, some of which may be on disk
\* when it is interrupted.
VacuumStart(p) ==
  LET n == job[p].n IN
  /\ job[p].pc = "vacuum"
  /\ \/ /\ files[n].size # "none"
        /\ To(p, "fallback") /\ UNCHANGED <<files, order>>
     \/ /\ files[n].size \in {"none", "empty"}
        /\ \E size \in {"empty", "part"} : Put(n, Opened(p, n, size))
        /\ To(p, "vacuuming")
  /\ Same

\* p has written all of its file, if the name still stands for it.
Written(p, torn) ==
  LET f == files[job[p].n] IN
  IF IF f = NoFile THEN TRUE ELSE p \notin f.by THEN UNCHANGED <<files, order>>
  ELSE Put(job[p].n, [by |-> f.by \ {p}, v |-> f.v, torn |-> f.torn \/ torn,
                      size |-> "full"])

\* Mutant: a plain copy is made at once.
VacuumEndCopy(p) ==
  /\ job[p].pc = "vacuuming"
  /\ Written(p, Content(files[job[p].n]).v # db)
  /\ To(p, "inspect") /\ Same

VacuumEnd(p) ==
  /\ job[p].pc = "vacuuming"
  /\ Written(p, FALSE)
  /\ To(p, "inspect") /\ Same

VacuumFails(p) ==
  /\ job[p].pc \in {"vacuum", "vacuuming"}
  /\ faults < MaxFaults /\ faults' = faults + 1
  /\ To(p, "fallback")
  /\ UNCHANGED <<clock, db, files, order, results, shared, mixed, begun>>

\* Whatever has the name is removed, then the database file is copied.
FallbackRemove(p) ==
  /\ job[p].pc = "fallback"
  /\ Put(job[p].n, NoFile)
  /\ job' = [job EXCEPT ![p].pc = "copy", ![p].how = "copy"]
  /\ Same

\* A file that is there by now is truncated and written by both.
CopyStart(p) ==
  LET n == job[p].n IN
  /\ job[p].pc = "copy"
  /\ \E size \in {"empty", "part"} : Put(n, Opened(p, n, size))
  /\ To(p, "copying") /\ Same

\* The database may have changed while it was copied.
CopyEnd(p) ==
  /\ job[p].pc = "copying"
  /\ Written(p, Content(files[job[p].n]).v # db)
  /\ To(p, "inspect") /\ Same

\* Size and checksum of what has the name now; an empty file is removed.
Inspect(p) ==
  LET f == files[job[p].n] IN
  /\ job[p].pc = "inspect"
  /\ IF f.size \in {"none", "empty"}
     THEN Stop(p) /\ Put(job[p].n, NoFile)
     ELSE /\ job' = [job EXCEPT ![p].pc = "rotate", ![p].sum = {Content(f)}]
          /\ UNCHANGED <<files, order>>
  /\ Same

\* Mutant: the newest go.
VictimsNewest == SubSeq(order, MaxFiles + 1, Len(order))

\* rotate_memcore_sqlite_backups: all but the newest files, the oldest first.
Victims == SubSeq(order, 1, Len(order) - MaxFiles)

Return(p, job1) ==
  /\ job' = [job EXCEPT ![p] = Idle]
  /\ results' = results \cup
       {[n |-> job1.n, sum |-> s, how |-> job1.how, from |-> job1.from, to |-> db]
          : s \in job1.sum}

ListBackups(p) ==
  /\ job[p].pc = "rotate"
  /\ IF Victims = <<>> THEN Return(p, job[p])
     ELSE /\ job' = [job EXCEPT ![p].pc = "remove", ![p].todo = Victims]
          /\ UNCHANGED results
  /\ UNCHANGED <<clock, db, files, order, shared, mixed, begun, faults>>

\* A file that is gone is an error, which the backup then returns.
RemoveOldest(p) ==
  LET n == Head(job[p].todo) IN
  /\ job[p].pc = "remove"
  /\ Put(n, NoFile)
  /\ IF files[n] = NoFile THEN Stop(p) /\ UNCHANGED results
     ELSE IF Len(job[p].todo) = 1 THEN Return(p, job[p])
     ELSE job' = [job EXCEPT ![p].todo = Tail(@)] /\ UNCHANGED results
  /\ UNCHANGED <<clock, db, shared, mixed, begun, faults>>

\* What validate_backup may say of a file: it looks for the tables, which a
\* part of the file, or a torn one, may or may not show.
ValidateBackup(f) ==
  CASE f.size \in {"none", "empty"} -> {FALSE}
    [] f.size = "part" \/ (f.size = "full" /\ f.torn) -> BOOLEAN
    [] OTHER -> {f.v >= Migrated}

Advance(p) ==
  \/ VacuumStart(p) \/ VacuumEnd(p) \/ FallbackRemove(p) \/ CopyStart(p)
  \/ CopyEnd(p) \/ Inspect(p) \/ ListBackups(p) \/ RemoveOldest(p)

Next ==
  \/ Tick \/ WriteDatabase
  \/ \E p \in Proc : Begin(p) \/ Advance(p) \/ VacuumFails(p) \/ Crash(p)

Spec == Init /\ [][Next]_vars

-----------------------------------------------------------------------------
(* Properties. *)

\* The types of the variables; a process that has ended has no file open.
TypeOK ==
  /\ clock \in 0 .. MaxClock /\ db \in 0 .. MaxWrites /\ ToSet(order) = Existing /\ IsInjective(order)
  /\ files \in [Name -> File \cup {NoFile}]
  /\ \A n \in Existing : files[n].by \subseteq Running
  /\ \A p \in Running : job[p].n \in Name /\ job[p].from \in 0 .. db
  /\ shared \subseteq Name /\ mixed \in BOOLEAN

\* A backup made by VACUUM INTO is whole and holds one version that the
\* database had while it ran, as long as no other run used its name: writers
\* and backups under other names do not matter.  The same of a copy, unless
\* the database was written meanwhile.
SnapshotTrue ==
  \A x \in results :
    x.n \notin shared =>
      /\ x.sum.size = "full" /\ x.from <= x.sum.v /\ x.sum.v <= x.to
      /\ x.how = "vacuum" \/ x.from = x.to => ~x.sum.torn

\* Runs that do not overlap never leave the directory without a whole backup,
\* once one has succeeded, whatever parts killed runs have left behind; and
\* unless a copy is there that was made while the database was written, one
\* that validate_backup accepts, once the database has its tables.
GoodBackupSurvives ==
  /\ results # {} /\ ~mixed => \E n \in Existing : files[n].size = "full"
  /\ /\ \E x \in results : x.sum.v >= Migrated
     /\ ~mixed
     /\ \A n \in Existing : ~files[n].torn
     => \E n \in Existing : ValidateBackup(files[n]) = {TRUE}

\* A reported backup never changes, and while no runs overlap it goes only
\* when there are enough newer files.  (A run that works on an old listing may
\* remove a file that another has finished and reported since.)
Newer(n) == Len(order) - Position(n)

KeptUntilReplaced ==
  [][\A x \in results :
       Content(files[x.n]) = x.sum /\ x.n \notin shared
       => \/ Content(files'[x.n]) = x.sum
          \/ /\ files'[x.n] = NoFile
             /\ mixed \/ Newer(x.n) >= MaxFiles]_vars

\* While runs do not overlap the directory does not grow: beyond the files to
\* keep there are the one of the run under way and those of killed runs, until
\* the next rotation.
FilesBounded ==
  mixed \/ Cardinality(Existing) <= MaxFiles + Cardinality(Running) + faults

\* The directory is bounded and keeps a backup that is worth its name.
DirectorySound == TypeOK /\ FilesBounded /\ GoodBackupSurvives
=============================================================================
