--------------------------- MODULE StorageProofs ---------------------------
(***************************************************************************)
(* What the storage layer promises.                                        *)
(*                                                                         *)
(* Backups, for any number of processes, requests, faults, writes and      *)
(* seconds, and any number of files to keep.  The inductive invariant      *)
(* BackupInv has three parts: who has which file open and what a run that  *)
(* shares its name with nobody finds under it (OwnedOK); what the returned *)
(* results say (ResultsOK); and, as long as no two runs have overlapped,   *)
(* how the run under way and the listing hang together (AloneOK).          *)
(*                                                                         *)
(* Fact, event, usage, run, snapshot, key, plan and vector stores, for any *)
(* organisations, users, cutoffs, limits, rows and queries.  The inductive *)
(* invariant StoresInv says of the tables that they are finite, hold one   *)
(* row for a key and the same rows in every backend (RowsOK, VectorsOK),   *)
(* and of a walk through a list that the rows which stayed in it are       *)
(* either behind the cursor, listed once, or still ahead (WalkingOK).      *)
(***************************************************************************)
EXTENDS Backup, Stores, SequenceTheorems, FiniteSetTheorems, TLAPS

-----------------------------------------------------------------------------
(* Backups. *)

Pc == {"vacuum", "vacuuming", "fallback", "copy", "copying", "inspect",
       "rotate", "remove"}
Contents == [v : Nat, torn : BOOLEAN, size : {"none", "empty", "part", "full"}]
Job == [pc : Pc, n : Name, from : Nat, how : {"vacuum", "copy"},
        todo : Seq(Name), sum : SUBSET Contents]
Outcome == [n : Name, sum : Contents, how : {"vacuum", "copy"}, from : Nat, to : Nat]

\* The listing has each existing file once.
ListingOK ==
  /\ order \in Seq(Name)
  /\ ToSet(order) = Existing
  /\ IsInjective(order)

\* Types, and what holds of a run wherever it is.
Types ==
  /\ clock \in 0 .. MaxClock /\ db \in 0 .. MaxWrites
  /\ files \in [Name -> File \cup {NoFile}]
  /\ job \in [Proc -> Job \cup {Idle}]
  /\ results \subseteq Outcome
  /\ shared \subseteq Name /\ mixed \in BOOLEAN
  /\ begun \in Nat /\ faults \in Nat

RunOK(p) ==
  /\ job[p].from <= db
  /\ job[p].pc \in {"vacuum", "vacuuming"} => job[p].how = "vacuum"
  /\ job[p].pc \in {"copy", "copying"} => job[p].how = "copy"
  /\ job[p].pc \in {"rotate", "remove"} => job[p].sum # {}
  /\ job[p].pc = "remove" => job[p].todo # <<>>

RunsOK == \A p \in Running : RunOK(p)

\* Only a run that writes its own file has it open.
Writes(p, n) ==
  /\ p \in Running
  /\ job[p].n = n
  /\ job[p].pc \in {"vacuuming", "fallback", "copying"}

OpenOK == \A n \in Existing : \A p \in files[n].by : Writes(p, n)

\* c is a whole backup of a run that began at version from; now is the version
\* of the database.
WholeAs(c, from, how, now) ==
  /\ c.size = "full" /\ from <= c.v /\ c.v <= now
  /\ how = "vacuum" \/ from = now => ~c.torn

\* What p, which began at version from, has begun to write.
Partial(f, p, from, now) ==
  /\ f.by = {p} /\ f.size \in {"empty", "part"} /\ ~f.torn
  /\ from <= f.v /\ f.v <= now

\* Two runs that use a name at a time share it.
NamesOK ==
  \A p, o \in Running : p # o /\ job[p].n = job[o].n => job[p].n \in shared

\* A run that shares its name with nobody finds its own file under it, or
\* nothing.
OwnedRun(p) ==
  job[p].n \notin shared =>
    /\ job[p].pc \in {"vacuum", "copy"} => files[job[p].n] = NoFile
    /\ job[p].pc \in {"vacuuming", "fallback", "copying"} =>
         files[job[p].n] = NoFile \/ Partial(files[job[p].n], p, job[p].from, db)
    /\ job[p].pc = "inspect" =>
         \/ files[job[p].n] = NoFile
         \/ WholeAs(Content(files[job[p].n]), job[p].from, job[p].how, db)
    /\ job[p].pc \in {"rotate", "remove"} =>
         \A s \in job[p].sum : WholeAs(s, job[p].from, job[p].how, db)

OwnedOK == NamesOK /\ \A p \in Running : OwnedRun(p)

ResultsOK ==
  \A x \in results :
    /\ x.to <= db
    /\ x.n \notin shared => WholeAs(x.sum, x.from, x.how, x.to)

\* A run that was never overlapped: its file is the last modified, it removes
\* what is at the front of the listing, there is one file more than to keep and
\* than faults have left, and it began after all results.
AloneRun(p) ==
  /\ \A o \in Running : o = p
  /\ \A x \in results : x.sum.v <= job[p].from
  /\ Len(order) <= MaxFiles + faults + (IF files[job[p].n] = NoFile THEN 0 ELSE 1)
  /\ job[p].pc \in {"vacuuming", "copying", "inspect", "rotate", "remove"} =>
       files[job[p].n] # NoFile
  /\ job[p].pc \in {"vacuuming", "copying"} => p \in files[job[p].n].by
  /\ job[p].pc \in {"inspect", "rotate", "remove"} =>
       /\ Last(order) = job[p].n
       /\ WholeAs(Content(files[job[p].n]), job[p].from, job[p].how, db)
  /\ job[p].pc \in {"rotate", "remove"} => job[p].sum = {Content(files[job[p].n])}
  /\ job[p].pc = "remove" => job[p].todo = Victims

Survive ==
  \A x \in results : \E n \in Existing :
    files[n].size = "full" /\ files[n].v >= x.sum.v

AloneOK ==
  ~mixed =>
    /\ shared = {}
    /\ Running = {} => Len(order) <= MaxFiles + faults
    /\ \A p \in Running : AloneRun(p)
    /\ Survive

BackupInv ==
  Types /\ ListingOK /\ RunsOK /\ OpenOK /\ OwnedOK /\ ResultsOK /\ AloneOK

-----------------------------------------------------------------------------
(* The listing. *)

\* A sequence without the element at k.
LEMMA RemoveAtElements ==
  ASSUME NEW S, NEW s \in Seq(S), NEW k \in 1 .. Len(s)
  PROVE  /\ RemoveAt(s, k) \in Seq(S)
         /\ Len(RemoveAt(s, k)) = Len(s) - 1
         /\ \A i \in 1 .. Len(s) - 1 :
              RemoveAt(s, k)[i] = IF i < k THEN s[i] ELSE s[i + 1]
<1> DEFINE a == SubSeq(s, 1, k - 1)
           b == SubSeq(s, k + 1, Len(s))
<1>1. a \in Seq(S) /\ Len(a) = k - 1 /\ \A i \in 1 .. k - 1 : a[i] = s[i]
  BY SubSeqProperties
<1>2. b \in Seq(S) /\ Len(b) = Len(s) - k /\ \A i \in 1 .. Len(s) - k : b[i] = s[k + i]
  BY SubSeqProperties
<1> HIDE DEF a, b
<1>3. /\ a \o b \in Seq(S)
      /\ Len(a \o b) = Len(s) - 1
      /\ \A i \in 1 .. Len(s) - 1 : (a \o b)[i] = IF i <= k - 1 THEN a[i] ELSE b[i - (k - 1)]
  BY <1>1, <1>2, ConcatProperties
<1>4. \A i \in 1 .. Len(s) - 1 : (a \o b)[i] = IF i < k THEN s[i] ELSE s[i + 1]
  BY <1>1, <1>2, <1>3
<1> QED
  BY <1>3, <1>4 DEF RemoveAt, a, b

\* Where an existing file is.
LEMMA PositionProps ==
  ASSUME ListingOK, NEW n \in Existing
  PROVE  Position(n) \in 1 .. Len(order) /\ order[Position(n)] = n
<1>1. \E i \in DOMAIN order : order[i] = n
  BY DEF ListingOK, ToSet
<1>2. DOMAIN order = 1 .. Len(order)
  BY DEF ListingOK
<1> QED
  BY <1>1, <1>2 DEF Position

\* What is left when a name goes.
LEMMA WithoutProps ==
  ASSUME ListingOK, NEW n \in Name
  PROVE  /\ Without(n) \in Seq(Name)
         /\ ToSet(Without(n)) = Existing \ {n}
         /\ IsInjective(Without(n))
         /\ n \notin Existing => Without(n) = order
         /\ n \in Existing => Len(Without(n)) = Len(order) - 1
<1>0. order \in Seq(Name) /\ DOMAIN order = 1 .. Len(order) /\ Len(order) \in Nat
  BY DEF ListingOK
<1>1. CASE n \notin Existing
  BY <1>1 DEF Without, ListingOK
<1>2. CASE n \in Existing
  <2> DEFINE k == Position(n)
             w == RemoveAt(order, k)
  <2>1. k \in 1 .. Len(order) /\ order[k] = n
    BY <1>2, PositionProps
  <2> HIDE DEF k
  <2>2. /\ w \in Seq(Name)
        /\ Len(w) = Len(order) - 1
        /\ \A i \in 1 .. Len(order) - 1 : w[i] = IF i < k THEN order[i] ELSE order[i + 1]
    BY <1>0, <2>1, RemoveAtElements
  <2>3. Without(n) = w
    BY <1>2 DEF Without, ListingOK, k
  <2> HIDE DEF w
  <2>4. DOMAIN w = 1 .. Len(order) - 1
    BY <2>2
  <2>5. \A i, j \in 1 .. Len(order) : order[i] = order[j] => i = j
    BY <1>0 DEF ListingOK, IsInjective
  <2>6. IsInjective(w)
    <3> SUFFICES ASSUME NEW i \in 1 .. Len(order) - 1, NEW j \in 1 .. Len(order) - 1,
                        w[i] = w[j]
                 PROVE  i = j
      BY <2>4 DEF IsInjective
    <3> QED
      BY <1>0, <2>1, <2>2, <2>5
  <2>7. ASSUME NEW m \in ToSet(w)
        PROVE  m \in Existing /\ m # n
    <3>1. PICK i \in 1 .. Len(order) - 1 : w[i] = m
      BY <2>4 DEF ToSet
    <3>2. PICK j \in 1 .. Len(order) : order[j] = m /\ j # k
      BY <1>0, <2>1, <2>2, <3>1
    <3> QED
      BY <1>0, <2>1, <2>5, <3>2 DEF ListingOK, ToSet
  <2>8. ASSUME NEW m \in Existing, m # n
        PROVE  m \in ToSet(w)
    <3>1. PICK j \in 1 .. Len(order) : order[j] = m
      BY <1>0 DEF ListingOK, ToSet
    <3>2. j # k
      BY <2>1, <2>8, <3>1
    <3>3. PICK i \in 1 .. Len(order) - 1 : w[i] = m
      <4>1. CASE j < k
        <5>1. j \in 1 .. Len(order) - 1 /\ w[j] = m
          BY <1>0, <2>1, <2>2, <3>1, <4>1
        <5> QED
          BY <5>1
      <4>2. CASE j > k
        <5>1. j - 1 \in 1 .. Len(order) - 1 /\ w[j - 1] = order[(j - 1) + 1]
          BY <1>0, <2>1, <2>2, <4>2
        <5> QED
          BY <3>1, <5>1
      <4> QED
        BY <1>0, <2>1, <3>2, <4>1, <4>2
    <3> QED
      BY <2>4, <3>3 DEF ToSet
  <2> QED
    BY <1>2, <2>2, <2>3, <2>6, <2>7, <2>8
<1> QED
  BY <1>1, <1>2

\* An injective sequence has as many elements as its length says.
LEMMA ListingLength ==
  ASSUME ListingOK
  PROVE  IsFiniteSet(Existing) /\ Cardinality(Existing) = Len(order)
<1>1. order \in Seq(Name) /\ DOMAIN order = 1 .. Len(order) /\ Len(order) \in Nat
  BY DEF ListingOK
<1>2. order \in Bijection(1 .. Len(order), Existing)
  BY <1>1 DEF ListingOK, ToSet, IsInjective, Bijection, Injection, Surjection
<1>3. IsFiniteSet(1 .. Len(order)) /\ Cardinality(1 .. Len(order)) = Len(order)
  BY <1>1, FS_Interval
<1> QED
  BY <1>2, <1>3, FS_Bijection DEF ExistsBijection

\* What Put does to the directory.
LEMMA PutProps ==
  ASSUME Types, ListingOK, NEW n \in Name, NEW f \in File \cup {NoFile}, Put(n, f)
  PROVE  /\ files' \in [Name -> File \cup {NoFile}]
         /\ files'[n] = f /\ \A m \in Name \ {n} : files'[m] = files[m]
         /\ ListingOK'
         /\ f = NoFile => Existing' = Existing \ {n}
         /\ f # NoFile => Existing' = Existing \cup {n} /\ order' # <<>> /\ Last(order') = n
         /\ Len(order') = Len(order) + (IF f = NoFile THEN 0 ELSE 1)
                                     - (IF files[n] = NoFile THEN 0 ELSE 1)
<1>1. files' = [files EXCEPT ![n] = f]
  BY DEF Put
<1>2. /\ files' \in [Name -> File \cup {NoFile}]
      /\ files'[n] = f /\ \A m \in Name \ {n} : files'[m] = files[m]
  BY <1>1 DEF Types
<1>3. /\ f = NoFile => Existing' = Existing \ {n}
      /\ f # NoFile => Existing' = Existing \cup {n}
  BY <1>2 DEF Existing
<1> DEFINE w == Without(n)
<1>4. /\ w \in Seq(Name) /\ ToSet(w) = Existing \ {n} /\ IsInjective(w)
      /\ n \notin Existing => w = order
      /\ n \in Existing => Len(w) = Len(order) - 1
  BY WithoutProps
<1>5. n \in Existing <=> files[n] # NoFile
  BY DEF Existing
<1>6. order' = IF f = NoFile THEN w ELSE Append(w, n)
  BY DEF Put
<1>7. Len(order) \in Nat
  BY DEF ListingOK
<1> HIDE DEF w
<1>8. CASE f = NoFile
  <2>1. order' = w
    BY <1>6, <1>8
  <2>2. ListingOK'
    BY <1>3, <1>4, <1>8, <2>1 DEF ListingOK
  <2> QED
    BY <1>2, <1>3, <1>4, <1>5, <1>7, <1>8, <2>1, <2>2
<1>9. CASE f # NoFile
  <2>1. order' = Append(w, n)
    BY <1>6, <1>9
  <2>2. Len(w) \in Nat /\ DOMAIN w = 1 .. Len(w)
    BY <1>4
  <2>3. /\ order' \in Seq(Name) /\ Len(order') = Len(w) + 1
        /\ DOMAIN order' = 1 .. Len(w) + 1
        /\ order'[Len(w) + 1] = n
        /\ \A i \in 1 .. Len(w) : order'[i] = w[i]
    BY <1>4, <2>1, <2>2, AppendProperties
  <2>4. ToSet(order') = ToSet(w) \cup {n}
    <3>1. ASSUME NEW m \in ToSet(order')
          PROVE  m \in ToSet(w) \cup {n}
      <4>1. PICK i \in 1 .. Len(w) + 1 : order'[i] = m
        BY <2>3 DEF ToSet
      <4>2. CASE i = Len(w) + 1
        BY <2>3, <4>1, <4>2
      <4>3. CASE i \in 1 .. Len(w)
        BY <2>2, <2>3, <4>1, <4>3 DEF ToSet
      <4> QED
        BY <2>2, <4>2, <4>3
    <3>2. ASSUME NEW m \in ToSet(w)
          PROVE  m \in ToSet(order')
      <4>1. PICK i \in 1 .. Len(w) : w[i] = m
        BY <2>2 DEF ToSet
      <4>2. i \in DOMAIN order' /\ order'[i] = m
        BY <2>2, <2>3, <4>1
      <4> QED
        BY <4>2 DEF ToSet
    <3>3. n \in ToSet(order')
      <4>1. Len(w) + 1 \in DOMAIN order'
        BY <2>2, <2>3
      <4> QED
        BY <2>3, <4>1 DEF ToSet
    <3> QED
      BY <3>1, <3>2, <3>3
  <2>5. IsInjective(order')
    <3>1. \A i \in 1 .. Len(w) : w[i] # n
      BY <1>4, <2>2 DEF ToSet
    <3>2. \A i, j \in 1 .. Len(w) : w[i] = w[j] => i = j
      BY <1>4, <2>2 DEF IsInjective
    <3>3. \A i, j \in 1 .. Len(w) + 1 : order'[i] = order'[j] => i = j
      BY <2>2, <2>3, <3>1, <3>2
    <3> QED
      BY <2>3, <3>3 DEF IsInjective
  <2>6. ListingOK'
    BY <1>3, <1>4, <1>9, <2>3, <2>4, <2>5 DEF ListingOK
  <2>7. order' # <<>> /\ Last(order') = n
    BY <2>2, <2>3 DEF Last
  <2>8. Len(order') = Len(order) + 1 - (IF files[n] = NoFile THEN 0 ELSE 1)
    BY <1>4, <1>5, <1>7, <2>3
  <2> QED
    BY <1>2, <1>3, <1>9, <2>6, <2>7, <2>8
<1> QED
  BY <1>8, <1>9

-----------------------------------------------------------------------------
(* Steps of one run. *)

\* What the members of the types have.
LEMMA Basics ==
  ASSUME Types
  PROVE  /\ db \in Nat /\ clock \in Nat /\ faults \in Nat
         /\ \A p \in Running : job[p] \in Job
         /\ \A p \in Proc : job[p] # Idle => p \in Running
         /\ \A p \in Running : p \in Proc /\ job[p].pc # "idle"
         /\ \A n \in Existing : n \in Name /\ files[n] \in File /\ files[n] # NoFile
         /\ \A n \in Name : n \notin Existing => files[n] = NoFile
         /\ \A f \in File : f # NoFile /\ f.size # "none"
         /\ \A j \in Job : j # Idle
<1>1. db \in Nat /\ clock \in Nat /\ faults \in Nat
  BY BackupConstants DEF Types
<1>2. \A f \in File : f.size # "none"
  BY DEF File
<1>3. \A f \in File : f # NoFile
  BY <1>2 DEF NoFile
<1>4. \A j \in Job : j.pc # "idle"
  BY DEF Job, Pc
<1>5. \A j \in Job : j # Idle
  BY <1>4 DEF Idle
<1> QED
  BY <1>1, <1>2, <1>3, <1>4, <1>5 DEF Types, Running, Existing

\* A run that does nothing keeps what it owns, whatever happens to other files,
\* and when its own is unlinked.
LEMMA OthersOwned ==
  ASSUME Types, NEW o \in Running, RunOK(o), OwnedRun(o), job'[o] = job[o],
         db' \in Nat, db <= db', shared \subseteq shared',
         files'[job[o].n] \in {files[job[o].n], NoFile}
  PROVE  OwnedRun(o)'
<1> DEFINE n == job[o].n
           from == job[o].from
           how == job[o].how
<1>1. /\ db \in Nat /\ from \in Nat /\ from <= db /\ n \in Name
      /\ job[o].sum \subseteq Contents
  BY Basics DEF RunOK, Job
<1>2. SUFFICES ASSUME n \notin shared'
               PROVE  OwnedRun(o)'
  BY DEF OwnedRun
<1>3. n \notin shared
  BY <1>2
<1>4. \A c \in Contents : WholeAs(c, from, how, db) => WholeAs(c, from, how, db')
  BY <1>1 DEF WholeAs, Contents
<1>5. files[n] = NoFile \/ files[n] \in File
  BY <1>1 DEF Types
<1>6. files[n] # NoFile => Content(files[n]) \in Contents
  BY <1>5 DEF Content, File, Contents
<1>7. files[n] # NoFile /\ Partial(files[n], o, from, db) /\ files'[n] = files[n]
        => Partial(files'[n], o, from, db')
  BY <1>1, <1>5 DEF Partial, File
<1>8. job'[o] = job[o] /\ job[o].n = n /\ job[o].from = from /\ job[o].how = how
  OBVIOUS
<1>9. Content(files'[n]) = Content(files[n]) \/ files'[n] = NoFile
  OBVIOUS
<1>10. job[o].pc \in {"vacuum", "copy"} => files'[n] = NoFile
  BY <1>3 DEF OwnedRun
<1>11. job[o].pc \in {"vacuuming", "fallback", "copying"} =>
         files'[n] = NoFile \/ Partial(files'[n], o, from, db')
  BY <1>3, <1>7 DEF OwnedRun
<1>12. job[o].pc = "inspect" =>
         files'[n] = NoFile \/ WholeAs(Content(files'[n]), from, how, db')
  BY <1>3, <1>4, <1>6 DEF OwnedRun
<1>13. job[o].pc \in {"rotate", "remove"} =>
         \A s \in job[o].sum : WholeAs(s, from, how, db')
  BY <1>1, <1>3, <1>4 DEF OwnedRun
<1> HIDE DEF n, from, how
<1>14. /\ job'[o].n = n /\ job'[o].from = from /\ job'[o].how = how
       /\ job'[o].pc = job[o].pc /\ job'[o].sum = job[o].sum
  BY <1>8
<1> QED
  BY <1>10, <1>11, <1>12, <1>13, <1>14 DEF OwnedRun

\* p goes on as j; its file changes, and others may go.
GoesOn(p, j) ==
  /\ p \in Running /\ j \in Job
  /\ job' = [job EXCEPT ![p] = j]
  /\ j.n = job[p].n /\ j.from = job[p].from
  /\ files' \in [Name -> File \cup {NoFile}]
  /\ \A m \in Name \ {job[p].n} : files'[m] \in {files[m], NoFile}
  /\ UNCHANGED <<clock, db, results, shared, mixed, begun>>
  /\ faults' \in Nat

\* A run that goes on stays a run, and the others are as they were.
LEMMA GoesOnRunning ==
  ASSUME Types, NEW p, NEW j, GoesOn(p, j)
  PROVE  /\ Running' = Running /\ p \in Proc /\ job[p] \in Job /\ j.n \in Name
         /\ job'[p] = j /\ \A o \in Running \ {p} : job'[o] = job[o]
         /\ job' \in [Proc -> Job \cup {Idle}]
         /\ Types'
<1>1. p \in Proc /\ job[p] \in Job /\ j # Idle /\ job[p] # Idle /\ j.n \in Name
  BY Basics DEF GoesOn, Job
<1>2. /\ job'[p] = j /\ \A o \in Proc \ {p} : job'[o] = job[o]
      /\ job' \in [Proc -> Job \cup {Idle}]
  BY <1>1 DEF GoesOn, Types
<1>3. Running' = Running
  BY <1>1, <1>2 DEF Running
<1>4. Types'
  BY <1>2 DEF Types, GoesOn
<1> QED
  BY <1>1, <1>2, <1>3, <1>4 DEF Running

\* What has to be shown of such a step: what concerns p and its file.
LEMMA GoesOnKeeps ==
  ASSUME BackupInv, NEW p, NEW j, GoesOn(p, j), ListingOK',
         RunOK(p)', OwnedRun(p)',
         files'[j.n] # NoFile => \A o \in files'[j.n].by :
           IF o = p THEN j.pc \in {"vacuuming", "fallback", "copying"}
                    ELSE files[j.n] # NoFile /\ o \in files[j.n].by,
         ~mixed => AloneRun(p)' /\ Survive'
  PROVE  BackupInv'
<1>1. /\ Running' = Running /\ p \in Running /\ job[p] \in Job /\ j.n \in Name
      /\ job'[p] = j /\ \A o \in Running \ {p} : job'[o] = job[o]
      /\ j.n = job[p].n /\ Types'
  BY GoesOnRunning DEF BackupInv, GoesOn
<1>2. /\ db' = db /\ shared' = shared /\ mixed' = mixed /\ results' = results
      /\ db \in Nat
  BY Basics DEF GoesOn, BackupInv
<1>3. RunsOK'
  BY <1>1, <1>2 DEF RunsOK, RunOK, BackupInv
<1>4. NamesOK'
  BY <1>1, <1>2 DEF NamesOK, BackupInv, OwnedOK
<1>5. ASSUME NEW o \in Running, o # p
      PROVE  OwnedRun(o)'
  <2>1. RunOK(o) /\ OwnedRun(o) /\ job'[o] = job[o]
    BY <1>1, <1>5 DEF BackupInv, RunsOK, OwnedOK
  <2>2. CASE job[o].n \in shared
    BY <1>1, <1>2, <1>5, <2>1, <2>2 DEF OwnedRun
  <2>3. CASE job[o].n \notin shared
    <3>1. job[o].n # job[p].n
      BY <1>1, <1>5, <2>3 DEF BackupInv, OwnedOK, NamesOK
    <3>2. job[o].n \in Name
      BY Basics DEF BackupInv, Job
    <3>3. files'[job[o].n] \in {files[job[o].n], NoFile}
      BY <3>1, <3>2 DEF GoesOn
    <3> QED
      BY <1>2, <2>1, <3>3, OthersOwned DEF BackupInv
  <2> QED
    BY <2>2, <2>3
<1>6. OwnedOK'
  BY <1>1, <1>4, <1>5 DEF OwnedOK
<1>7. OpenOK'
  <2> SUFFICES ASSUME NEW m \in Name, files'[m] # NoFile, NEW o \in files'[m].by
               PROVE  Writes(o, m)'
    BY DEF OpenOK, Existing
  <2>1. CASE m # j.n
    <3>1. files'[m] = files[m] /\ m \in Existing
      BY <1>1, <2>1 DEF GoesOn, Existing
    <3>2. Writes(o, m)
      BY <3>1 DEF BackupInv, OpenOK
    <3>3. o # p
      BY <1>1, <2>1, <3>2 DEF Writes
    <3> QED
      BY <1>1, <3>2, <3>3 DEF Writes
  <2>2. CASE m = j.n /\ o = p
    BY <1>1, <2>2 DEF Writes
  <2>3. CASE m = j.n /\ o # p
    <3>1. files[m] # NoFile /\ o \in files[m].by /\ m \in Existing
      BY <1>1, <2>3 DEF Existing
    <3>2. Writes(o, m)
      BY <3>1 DEF BackupInv, OpenOK
    <3> QED
      BY <1>1, <2>3, <3>2 DEF Writes
  <2> QED
    BY <2>1, <2>2, <2>3
<1>8. ResultsOK'
  BY <1>2 DEF ResultsOK, BackupInv
<1>9. AloneOK'
  <2> SUFFICES ASSUME ~mixed
               PROVE  AloneOK'
    BY <1>2 DEF AloneOK
  <2>1. shared' = {} /\ Running' # {}
    BY <1>1, <1>2 DEF BackupInv, AloneOK
  <2>2. \A o \in Running' : o = p
    BY <1>1 DEF BackupInv, AloneOK, AloneRun
  <2> QED
    BY <1>2, <2>1, <2>2 DEF AloneOK
<1> QED
  BY <1>1, <1>3, <1>6, <1>7, <1>8, <1>9 DEF BackupInv

\* A run that was never overlapped has begun after all results, and what it has
\* not finished is no whole backup: what was there survives its steps.
LEMMA AloneGoesOn ==
  ASSUME BackupInv, NEW p, NEW j, GoesOn(p, j), ~mixed
  PROVE  /\ shared = {} /\ AloneRun(p) /\ OwnedRun(p) /\ RunOK(p)
         /\ \A o \in Running' : o = p
         /\ \A x \in results' : x.sum.v <= job'[p].from
         /\ /\ job[p].pc \in {"vacuum", "vacuuming", "fallback", "copy", "copying"}
            /\ \A m \in Name \ {j.n} : files'[m] = files[m]
            => Survive'
<1>1. /\ Running' = Running /\ p \in Running /\ job[p] \in Job /\ j.n \in Name
      /\ job'[p] = j /\ j.n = job[p].n /\ j.from = job[p].from /\ results' = results
  BY GoesOnRunning DEF BackupInv, GoesOn
<1>2. shared = {} /\ AloneRun(p) /\ OwnedRun(p) /\ RunOK(p) /\ Survive
  BY <1>1 DEF BackupInv, AloneOK, OwnedOK, RunsOK
<1>3. /\ \A o \in Running' : o = p
      /\ \A x \in results' : x.sum.v <= job'[p].from
  BY <1>1, <1>2 DEF AloneRun
<1>4. ASSUME job[p].pc \in {"vacuum", "vacuuming", "fallback", "copy", "copying"},
             \A m \in Name \ {j.n} : files'[m] = files[m]
      PROVE  Survive'
  <2>1. files[j.n] = NoFile \/ files[j.n].size # "full"
    BY <1>1, <1>2, <1>4 DEF OwnedRun, Partial
  <2>2. \A n \in Existing : files[n].size = "full" => n \in Existing' /\ files'[n] = files[n]
    BY <1>1, <1>4, <2>1 DEF Existing
  <2> QED
    BY <1>1, <1>2, <2>2 DEF Survive
<1> QED
  BY <1>2, <1>3, <1>4

\* The runs that have the file of p open besides p.
LEMMA OpenBefore ==
  ASSUME BackupInv, NEW p \in Running
  PROVE  /\ job[p].pc \notin {"vacuuming", "fallback", "copying"} /\ files[job[p].n] # NoFile
           => p \notin files[job[p].n].by
         /\ files[job[p].n] # NoFile => files[job[p].n] \in File
         /\ job[p].n \in Name /\ job[p] \in Job /\ p \in Proc
<1>1. job[p].n \in Name /\ job[p] \in Job /\ p \in Proc
  BY Basics DEF BackupInv, Job
<1>2. files[job[p].n] # NoFile => job[p].n \in Existing
  BY <1>1 DEF Existing
<1> QED
  BY <1>1, <1>2, Basics DEF BackupInv, OpenOK, Writes

\* What a file is once a run has created or opened it.
LEMMA OpenedProps ==
  ASSUME Types, NEW p \in Proc, NEW n \in Name, NEW size \in {"empty", "part"}
  PROVE  /\ Opened(p, n, size) \in File
         /\ Opened(p, n, size) # NoFile
         /\ Opened(p, n, size).by = (IF files[n] = NoFile THEN {} ELSE files[n].by) \cup {p}
         /\ files[n] = NoFile => \A from \in Nat : from <= db =>
              Partial(Opened(p, n, size), p, from, db)
<1> DEFINE others == IF files[n] = NoFile THEN {} ELSE files[n].by
<1>1. others \subseteq Proc /\ db \in Nat
  BY Basics DEF Types, File
<1>2. Opened(p, n, size)
        = [by |-> others \cup {p}, v |-> db, torn |-> others # {}, size |-> size]
  BY DEF Opened
<1>3. (others # {}) \in BOOLEAN
  OBVIOUS
<1> HIDE DEF others
<1>4. Opened(p, n, size) \in File
  BY <1>1, <1>2, <1>3 DEF File
<1>5. files[n] = NoFile => others = {}
  BY DEF others
<1>6. files[n] = NoFile => \A from \in Nat : from <= db =>
              Partial(Opened(p, n, size), p, from, db)
  <2> SUFFICES ASSUME files[n] = NoFile, NEW from \in Nat, from <= db
               PROVE  Partial(Opened(p, n, size), p, from, db)
    OBVIOUS
  <2>1. others \cup {p} = {p} /\ (others # {}) = FALSE
    BY <1>5
  <2>2. Opened(p, n, size) = [by |-> {p}, v |-> db, torn |-> FALSE, size |-> size]
    BY <1>2, <2>1
  <2> QED
    BY <1>1, <2>2 DEF Partial
<1>7. Opened(p, n, size).by = others \cup {p}
  BY <1>2
<1>8. Opened(p, n, size) # NoFile
  BY <1>4, Basics
<1> QED
  BY <1>4, <1>6, <1>7, <1>8 DEF others

\* A file that p opens anew: by VACUUM INTO, or by the copy.
LEMMA OpensKeeps ==
  ASSUME BackupInv, NEW p \in Running, NEW size \in {"empty", "part"},
         NEW pc \in {"vacuuming", "copying"},
         job[p].pc = (IF pc = "vacuuming" THEN "vacuum" ELSE "copy"),
         To(p, pc), Put(job[p].n, Opened(p, job[p].n, size)), Same
  PROVE  BackupInv'
<1> DEFINE n == job[p].n
           f == Opened(p, n, size)
           j == [job[p] EXCEPT !.pc = pc]
<1>1. n \in Name /\ job[p] \in Job /\ p \in Proc
  BY OpenBefore
<1>2. /\ f \in File /\ f # NoFile
      /\ f.by = (IF files[n] = NoFile THEN {} ELSE files[n].by) \cup {p}
      /\ files[n] = NoFile => \A from \in Nat : from <= db => Partial(f, p, from, db)
  BY <1>1, OpenedProps DEF BackupInv
<1> HIDE DEF f
<1>3. Put(n, f)
  BY DEF f
<1>4. /\ files' \in [Name -> File \cup {NoFile}]
      /\ files'[n] = f /\ \A m \in Name \ {n} : files'[m] = files[m]
      /\ ListingOK' /\ Last(order') = n
      /\ Len(order') = Len(order) + 1 - (IF files[n] = NoFile THEN 0 ELSE 1)
  BY <1>1, <1>2, <1>3, PutProps DEF BackupInv
<1>5. /\ j \in Job /\ j.n = n /\ j.from = job[p].from /\ j.how = job[p].how
      /\ j.pc = pc
  BY <1>1 DEF Job, Pc
<1>6. job' = [job EXCEPT ![p] = j]
  BY DEF To
<1> HIDE DEF j
<1>7. GoesOn(p, j)
  BY <1>4, <1>5, <1>6, Basics DEF GoesOn, Same, BackupInv
<1>8. job'[p] = j /\ db' = db /\ shared' = shared /\ faults' = faults /\ db \in Nat
      /\ faults \in Nat
  BY <1>7, GoesOnRunning, Basics DEF BackupInv, Same
<1>9. /\ job[p].from \in Nat /\ job[p].from <= db
      /\ pc = "vacuuming" => job[p].how = "vacuum"
      /\ pc = "copying" => job[p].how = "copy"
  BY <1>1 DEF BackupInv, RunsOK, RunOK, Job
<1>10. RunOK(p)'
  BY <1>5, <1>8, <1>9 DEF RunOK
<1>11. OwnedRun(p)'
  <2> SUFFICES ASSUME n \notin shared
               PROVE  Partial(files'[n], p, job[p].from, db)
    BY <1>5, <1>8 DEF OwnedRun
  <2>1. files[n] = NoFile
    BY DEF BackupInv, OwnedOK, OwnedRun
  <2> QED
    BY <1>2, <1>4, <1>9, <2>1
<1>12. \A o \in files'[j.n].by :
         IF o = p THEN j.pc \in {"vacuuming", "fallback", "copying"}
                  ELSE files[j.n] # NoFile /\ o \in files[j.n].by
  BY <1>2, <1>4, <1>5
<1>13. ASSUME ~mixed
       PROVE  AloneRun(p)' /\ Survive'
  <2>1. /\ shared = {} /\ AloneRun(p) /\ OwnedRun(p)
        /\ \A o \in Running' : o = p
        /\ \A x \in results' : x.sum.v <= job'[p].from
        /\ Survive'
    BY <1>4, <1>5, <1>7, <1>13, AloneGoesOn
  <2>2. files[n] = NoFile
    BY <2>1 DEF OwnedRun
  <2>3. Len(order) <= MaxFiles + faults /\ Len(order) \in Nat
    BY <1>8, <2>1, <2>2, BackupConstants DEF AloneRun, BackupInv, ListingOK
  <2>4. p \in files'[n].by /\ files'[n] # NoFile
    BY <1>2, <1>4
  <2>5. Len(order') <= MaxFiles + faults + 1
    BY <1>4, <1>8, <2>2, <2>3, BackupConstants
  <2>6. AloneRun(p)'
    BY <1>5, <1>8, <2>1, <2>4, <2>5 DEF AloneRun
  <2> QED
    BY <2>1, <2>6
<1> QED
  BY <1>4, <1>7, <1>10, <1>11, <1>12, <1>13, GoesOnKeeps

\* VACUUM INTO begins: it refuses a name that exists, so the file is its own.
LEMMA VacuumStartStep ==
  ASSUME BackupInv, NEW p \in Running, VacuumStart(p)
  PROVE  BackupInv'
<1> DEFINE n == job[p].n
           j == [job[p] EXCEPT !.pc = "fallback"]
<1>1. n \in Name /\ job[p] \in Job /\ p \in Proc /\ job[p].pc = "vacuum" /\ Same
  BY OpenBefore DEF VacuumStart
<1>2. CASE \E size \in {"empty", "part"} : Put(n, Opened(p, n, size)) /\ To(p, "vacuuming")
  BY <1>1, <1>2, OpensKeeps
<1>3. CASE files[n].size # "none" /\ To(p, "fallback") /\ UNCHANGED <<files, order>>
  <2>1. files[n] # NoFile
    BY <1>3 DEF NoFile
  <2>2. n \in shared /\ mixed
    <3>1. n \in shared
      BY <1>1, <2>1 DEF BackupInv, OwnedOK, OwnedRun
    <3> QED
      BY <3>1 DEF BackupInv, AloneOK, Types
  <2>3. j \in Job /\ j.n = n /\ j.from = job[p].from /\ j.pc = "fallback"
    BY <1>1 DEF Job, Pc
  <2>4. job' = [job EXCEPT ![p] = j] /\ files' = files /\ order' = order
    BY <1>3 DEF To
  <2> HIDE DEF j
  <2>5. GoesOn(p, j)
    BY <1>1, <2>3, <2>4, Basics DEF GoesOn, Same, BackupInv, Types
  <2>6. job'[p] = j /\ shared' = shared /\ db' = db
    BY <2>5, GoesOnRunning DEF BackupInv, Same, GoesOn
  <2>7. RunOK(p)'
    BY <2>3, <2>6 DEF RunOK, BackupInv, RunsOK
  <2>8. OwnedRun(p)'
    BY <2>2, <2>3, <2>6 DEF OwnedRun
  <2>9. ListingOK'
    BY <2>4 DEF ListingOK, Existing, BackupInv
  <2>10. p \notin files[n].by
    BY <1>1, <2>1, OpenBefore
  <2> QED
    BY <2>1, <2>2, <2>3, <2>4, <2>5, <2>7, <2>8, <2>9, <2>10, GoesOnKeeps
<1> QED
  BY <1>2, <1>3 DEF VacuumStart

\* The end of writing a file.
LEMMA WrittenKeeps ==
  ASSUME BackupInv, NEW p \in Running, NEW torn \in BOOLEAN,
         job[p].pc \in {"vacuuming", "copying"},
         Written(p, torn), To(p, "inspect"), Same,
         torn => job[p].how = "copy" /\ Content(files[job[p].n]).v # db
  PROVE  BackupInv'
<1> DEFINE n == job[p].n
           f == files[n]
           from == job[p].from
           how == job[p].how
           j == [job[p] EXCEPT !.pc = "inspect"]
<1>1. n \in Name /\ job[p] \in Job /\ p \in Proc /\ (f # NoFile => f \in File)
  BY OpenBefore
<1>2. /\ j \in Job /\ j.n = n /\ j.from = from /\ j.how = how /\ j.pc = "inspect"
  BY <1>1 DEF Job, Pc
<1>3. job' = [job EXCEPT ![p] = j]
  BY DEF To
<1>4. /\ db' = db /\ shared' = shared /\ faults' = faults /\ db \in Nat /\ faults \in Nat
      /\ from \in Nat /\ from <= db
  BY <1>1, Basics DEF BackupInv, Same, RunsOK, RunOK, Job
<1>5. n \notin shared => f = NoFile \/ Partial(f, p, from, db)
  BY DEF BackupInv, OwnedOK, OwnedRun
<1> HIDE DEF j
<1>6. CASE IF f = NoFile THEN TRUE ELSE p \notin f.by
  <2>1. files' = files /\ order' = order
    BY <1>6 DEF Written
  <2>2. GoesOn(p, j)
    BY <1>2, <1>3, <1>4, <2>1 DEF GoesOn, Same, BackupInv, Types
  <2>3. job'[p] = j
    BY <2>2, GoesOnRunning DEF BackupInv
  <2>4. RunOK(p)'
    BY <1>2, <1>4, <2>3 DEF RunOK
  <2>5. n \notin shared => f = NoFile
    BY <1>5, <1>6 DEF Partial
  <2>6. OwnedRun(p)'
    BY <1>2, <1>4, <2>1, <2>3, <2>5 DEF OwnedRun
  <2>7. ListingOK'
    BY <2>1 DEF ListingOK, Existing, BackupInv
  <2>8. mixed
    BY <1>6 DEF BackupInv, AloneOK, AloneRun
  <2> QED
    BY <1>2, <1>6, <2>1, <2>2, <2>4, <2>6, <2>7, <2>8, GoesOnKeeps
<1>7. CASE f # NoFile /\ p \in f.by
  <2> DEFINE t == f.torn \/ torn
             g == [by |-> f.by \ {p}, v |-> f.v, torn |-> t, size |-> "full"]
  <2>1. Put(n, g)
    BY <1>7 DEF Written
  <2>2. t \in BOOLEAN /\ f.by \subseteq Proc /\ f.v \in Nat
    BY <1>1, <1>7 DEF File
  <2>3. t => f.torn \/ torn
    OBVIOUS
  <2> HIDE DEF t
  <2>4. /\ g \in File /\ g.by = f.by \ {p} /\ g.v = f.v /\ g.torn = t /\ g.size = "full"
    BY <2>2 DEF File
  <2>5. g # NoFile
    BY <2>4, Basics DEF BackupInv
  <2> HIDE DEF g
  <2>6. /\ files' \in [Name -> File \cup {NoFile}]
        /\ files'[n] = g /\ \A m \in Name \ {n} : files'[m] = files[m]
        /\ ListingOK' /\ Last(order') = n
        /\ Len(order') = Len(order) + 1 - 1
    BY <1>1, <1>7, <2>1, <2>4, <2>5, PutProps DEF BackupInv
  <2>7. GoesOn(p, j)
    BY <1>2, <1>3, <1>4, <2>6 DEF GoesOn, Same
  <2>8. job'[p] = j
    BY <2>7, GoesOnRunning DEF BackupInv
  <2>9. RunOK(p)'
    BY <1>2, <1>4, <2>8 DEF RunOK
  <2>10. Content(g).size = "full" /\ Content(g).v = f.v /\ Content(g).torn = t
    BY <2>4, <2>5 DEF Content
  <2>11. n \notin shared => WholeAs(Content(g), from, how, db)
    <3> SUFFICES ASSUME n \notin shared
                 PROVE  WholeAs(Content(g), from, how, db)
      OBVIOUS
    <3>1. Partial(f, p, from, db)
      BY <1>5, <1>7
    <3>2. from <= f.v /\ f.v <= db /\ ~f.torn
      BY <3>1 DEF Partial
    <3>3. torn => how = "copy" /\ f.v # db
      BY <1>7 DEF Content
    <3>4. t => how = "copy" /\ f.v # db
      BY <2>3, <3>2, <3>3
    <3>5. how = "vacuum" \/ from = db => ~t
      BY <1>4, <2>2, <3>2, <3>4
    <3> QED
      BY <2>10, <3>2, <3>5 DEF WholeAs
  <2>12. OwnedRun(p)'
    BY <1>2, <1>4, <2>6, <2>8, <2>11 DEF OwnedRun
  <2>13. \A o \in files'[j.n].by : o # p /\ o \in files[j.n].by
    BY <1>2, <2>4, <2>6
  <2>14. ASSUME ~mixed
         PROVE  AloneRun(p)' /\ Survive'
    <3>1. /\ shared = {} /\ AloneRun(p)
          /\ \A o \in Running' : o = p
          /\ \A x \in results' : x.sum.v <= job'[p].from
          /\ Survive'
      BY <1>2, <2>6, <2>7, <2>14, AloneGoesOn
    <3>2. Len(order) <= MaxFiles + faults + 1 /\ Len(order) \in Nat
      BY <1>7, <3>1 DEF AloneRun, BackupInv, ListingOK
    <3>3. WholeAs(Content(files'[n]), from, how, db)
      BY <2>6, <2>11, <3>1
    <3>4. AloneRun(p)'
      BY <1>2, <1>4, <2>5, <2>6, <2>8, <3>1, <3>2, <3>3 DEF AloneRun
    <3> QED
      BY <3>1, <3>4
  <2> QED
    BY <1>2, <1>7, <2>6, <2>7, <2>9, <2>12, <2>13, <2>14, GoesOnKeeps
<1> QED
  BY <1>6, <1>7

\* VACUUM INTO ends.
LEMMA VacuumEndStep ==
  ASSUME BackupInv, NEW p \in Running, VacuumEnd(p)
  PROVE  BackupInv'
BY WrittenKeeps DEF VacuumEnd

\* std::fs::copy ends.
LEMMA CopyEndStep ==
  ASSUME BackupInv, NEW p \in Running, CopyEnd(p)
  PROVE  BackupInv'
<1> DEFINE torn == Content(files[job[p].n]).v # db
<1>1. torn \in BOOLEAN /\ job[p].pc = "copying" /\ Written(p, torn) /\ To(p, "inspect") /\ Same
  BY DEF CopyEnd
<1>2. job[p].how = "copy"
  BY <1>1 DEF BackupInv, RunsOK, RunOK
<1>3. torn => Content(files[job[p].n]).v # db
  OBVIOUS
<1> HIDE DEF torn
<1> QED
  BY <1>1, <1>2, <1>3, WrittenKeeps

\* std::fs::copy begins: it truncates whatever is under the name.
LEMMA CopyStartStep ==
  ASSUME BackupInv, NEW p \in Running, CopyStart(p)
  PROVE  BackupInv'
BY OpensKeeps DEF CopyStart

\* VACUUM INTO fails, before or after it created the file.
LEMMA VacuumFailsStep ==
  ASSUME BackupInv, NEW p \in Running, VacuumFails(p)
  PROVE  BackupInv'
<1> DEFINE n == job[p].n
           j == [job[p] EXCEPT !.pc = "fallback"]
<1>1. /\ n \in Name /\ job[p] \in Job /\ p \in Proc
      /\ job[p].pc \in {"vacuum", "vacuuming"}
      /\ faults' = faults + 1 /\ faults \in Nat
      /\ files' = files /\ order' = order
      /\ UNCHANGED <<clock, db, results, shared, mixed, begun>>
  BY OpenBefore, Basics DEF VacuumFails, BackupInv
<1>2. j \in Job /\ j.n = n /\ j.from = job[p].from /\ j.pc = "fallback"
  BY <1>1 DEF Job, Pc
<1>3. job' = [job EXCEPT ![p] = j]
  BY DEF VacuumFails, To
<1> HIDE DEF j
<1>4. GoesOn(p, j)
  BY <1>1, <1>2, <1>3 DEF GoesOn, BackupInv, Types
<1>5. job'[p] = j
  BY <1>4, GoesOnRunning DEF BackupInv
<1>6. RunOK(p)'
  BY <1>1, <1>2, <1>5 DEF RunOK, BackupInv, RunsOK
<1>7. n \notin shared => files[n] = NoFile \/ Partial(files[n], p, job[p].from, db)
  BY <1>1 DEF BackupInv, OwnedOK, OwnedRun
<1>8. OwnedRun(p)'
  BY <1>1, <1>2, <1>5, <1>7 DEF OwnedRun
<1>9. ListingOK'
  BY <1>1 DEF ListingOK, Existing, BackupInv
<1>10. ASSUME ~mixed
       PROVE  AloneRun(p)' /\ Survive'
  <2>1. /\ shared = {} /\ AloneRun(p)
        /\ \A o \in Running' : o = p
        /\ \A x \in results' : x.sum.v <= job'[p].from
        /\ Survive'
    BY <1>1, <1>4, <1>10, AloneGoesOn
  <2>2. Len(order) \in Nat /\ MaxFiles \in Nat
    BY BackupConstants DEF BackupInv, ListingOK
  <2>3. Len(order) <= MaxFiles + (faults + 1) + (IF files[n] = NoFile THEN 0 ELSE 1)
    BY <1>1, <2>1, <2>2 DEF AloneRun
  <2>4. AloneRun(p)'
    BY <1>1, <1>2, <1>5, <2>1, <2>3 DEF AloneRun
  <2> QED
    BY <2>1, <2>4
<1> QED
  BY <1>1, <1>2, <1>4, <1>6, <1>8, <1>9, <1>10, GoesOnKeeps

\* The fallback removes what the failed VACUUM left, whoever wrote it.
LEMMA FallbackRemoveStep ==
  ASSUME BackupInv, NEW p \in Running, FallbackRemove(p)
  PROVE  BackupInv'
<1> DEFINE n == job[p].n
           j == [job[p] EXCEPT !.pc = "copy", !.how = "copy"]
<1>1. /\ n \in Name /\ job[p] \in Job /\ p \in Proc /\ job[p].pc = "fallback"
      /\ Put(n, NoFile) /\ Same /\ faults \in Nat
  BY OpenBefore, Basics DEF FallbackRemove, BackupInv
<1>2. j \in Job /\ j.n = n /\ j.from = job[p].from /\ j.pc = "copy" /\ j.how = "copy"
  BY <1>1 DEF Job, Pc
<1>3. job' = [job EXCEPT ![p] = j]
  BY <1>1 DEF FallbackRemove, BackupInv, Types
<1> HIDE DEF j
<1>4. /\ files' \in [Name -> File \cup {NoFile}]
      /\ files'[n] = NoFile /\ \A m \in Name \ {n} : files'[m] = files[m]
      /\ ListingOK'
      /\ Len(order') = Len(order) + 0 - (IF files[n] = NoFile THEN 0 ELSE 1)
  BY <1>1, PutProps DEF BackupInv
<1>5. GoesOn(p, j)
  BY <1>1, <1>2, <1>3, <1>4 DEF GoesOn, Same
<1>6. job'[p] = j /\ db' = db /\ shared' = shared /\ faults' = faults
  BY <1>1, <1>5, GoesOnRunning DEF BackupInv, Same
<1>7. RunOK(p)'
  BY <1>2, <1>6 DEF RunOK, BackupInv, RunsOK
<1>8. OwnedRun(p)'
  BY <1>2, <1>4, <1>6 DEF OwnedRun
<1>9. ASSUME ~mixed
      PROVE  AloneRun(p)' /\ Survive'
  <2>1. /\ shared = {} /\ AloneRun(p)
        /\ \A o \in Running' : o = p
        /\ \A x \in results' : x.sum.v <= job'[p].from
        /\ Survive'
    BY <1>1, <1>2, <1>4, <1>5, <1>9, AloneGoesOn
  <2>2. Len(order) \in Nat /\ MaxFiles \in Nat
    BY BackupConstants DEF BackupInv, ListingOK
  <2>3. Len(order') <= MaxFiles + faults + 0
    BY <1>1, <1>4, <2>1, <2>2 DEF AloneRun
  <2>4. AloneRun(p)'
    BY <1>2, <1>4, <1>6, <2>1, <2>3 DEF AloneRun
  <2> QED
    BY <2>1, <2>4
<1> QED
  BY <1>2, <1>4, <1>5, <1>7, <1>8, <1>9, GoesOnKeeps

-----------------------------------------------------------------------------
(* The end of a run. *)

\* p ends; files may go, and p has none open any more.
Ends(p) ==
  /\ p \in Running
  /\ job' = [job EXCEPT ![p] = Idle]
  /\ files' \in [Name -> File \cup {NoFile}]
  /\ \A m \in Name : files'[m] # NoFile =>
       /\ files[m] # NoFile /\ files'[m].by = files[m].by \ {p}
       /\ files'[m].v = files[m].v /\ files'[m].size = files[m].size
       /\ p \notin files[m].by => files'[m] = files[m]
  /\ UNCHANGED <<clock, db, shared, mixed, begun>>
  /\ faults' \in Nat

\* A run ends: what remains to show is the listing, the results and the bound.
LEMMA EndsKeeps ==
  ASSUME BackupInv, NEW p, Ends(p), ListingOK', results' \subseteq Outcome, ResultsOK',
         ~mixed => Len(order') <= MaxFiles + faults' /\ Survive'
  PROVE  BackupInv'
<1>1. p \in Proc /\ job \in [Proc -> Job \cup {Idle}] /\ db \in Nat
  BY Basics DEF Ends, BackupInv, Types
<1>2. /\ job'[p] = Idle /\ \A o \in Proc \ {p} : job'[o] = job[o]
      /\ job' \in [Proc -> Job \cup {Idle}]
  BY <1>1 DEF Ends
<1>3. Running' = Running \ {p}
  BY <1>2 DEF Running
<1>4. db' = db /\ shared' = shared /\ mixed' = mixed
  BY DEF Ends
<1>5. Types'
  BY <1>2 DEF Types, Ends, BackupInv
<1>6. \A o \in Running' : o \in Running /\ o # p /\ job'[o] = job[o]
  BY <1>2, <1>3 DEF Running
<1>7. RunsOK'
  BY <1>4, <1>6 DEF RunsOK, RunOK, BackupInv
<1>8. NamesOK'
  BY <1>4, <1>6 DEF NamesOK, BackupInv, OwnedOK
<1>9. ASSUME NEW o \in Running'
      PROVE  OwnedRun(o)'
  <2>1. RunOK(o) /\ OwnedRun(o) /\ job'[o] = job[o] /\ o \in Running /\ o # p
    BY <1>6 DEF BackupInv, RunsOK, OwnedOK
  <2>2. CASE job[o].n \in shared
    BY <1>4, <2>1, <2>2 DEF OwnedRun
  <2>3. CASE job[o].n \notin shared
    <3>1. job[o].n # job[p].n
      BY <2>1, <2>3 DEF BackupInv, OwnedOK, NamesOK, Ends
    <3>2. job[o].n \in Name
      BY <2>1, Basics DEF BackupInv, Job
    <3>3. files[job[o].n] # NoFile => p \notin files[job[o].n].by
      BY <3>1, <3>2 DEF BackupInv, OpenOK, Writes, Existing
    <3>4. files'[job[o].n] \in {files[job[o].n], NoFile}
      BY <3>2, <3>3 DEF Ends
    <3> QED
      BY <1>1, <1>4, <2>1, <3>4, OthersOwned DEF BackupInv
  <2> QED
    BY <2>2, <2>3
<1>10. OwnedOK'
  BY <1>8, <1>9 DEF OwnedOK
<1>11. OpenOK'
  <2> SUFFICES ASSUME NEW m \in Name, files'[m] # NoFile, NEW o \in files'[m].by
               PROVE  Writes(o, m)'
    BY DEF OpenOK, Existing
  <2>1. files[m] # NoFile /\ o \in files[m].by /\ o # p /\ m \in Existing
    BY DEF Ends, Existing
  <2>2. Writes(o, m)
    BY <2>1 DEF BackupInv, OpenOK
  <2> QED
    BY <1>3, <1>6, <2>1, <2>2 DEF Writes
<1>12. AloneOK'
  <2> SUFFICES ASSUME ~mixed
               PROVE  AloneOK'
    BY <1>4 DEF AloneOK
  <2>1. shared' = {}
    BY <1>4 DEF BackupInv, AloneOK
  <2>2. Running' = {}
    BY <1>3 DEF BackupInv, AloneOK, AloneRun, Ends
  <2> QED
    BY <2>1, <2>2 DEF AloneOK
<1> QED
  BY <1>5, <1>7, <1>10, <1>11, <1>12 DEF BackupInv

\* A run that has nothing open ends.
LEMMA EndsQuietly ==
  ASSUME BackupInv, NEW p \in Running, job' = [job EXCEPT ![p] = Idle],
         job[p].pc \in {"inspect", "rotate", "remove"},
         files' \in [Name -> File \cup {NoFile}],
         \A m \in Name : files'[m] \in {files[m], NoFile},
         UNCHANGED <<clock, db, shared, mixed, begun, faults>>
  PROVE  Ends(p)
<1>1. ASSUME NEW m \in Name, files'[m] # NoFile
      PROVE  /\ files[m] # NoFile /\ files'[m] = files[m]
             /\ files'[m].by = files[m].by \ {p}
  <2>1. files'[m] = files[m] /\ m \in Existing
    BY <1>1 DEF Existing
  <2>2. p \notin files[m].by
    BY <2>1 DEF BackupInv, OpenOK, Writes
  <2> QED
    BY <1>1, <2>1, <2>2
<1> QED
  BY <1>1, Basics DEF Ends, BackupInv

\* A process is killed; the run's file stays as it is.
LEMMA CrashStep ==
  ASSUME BackupInv, NEW p \in Proc, Crash(p)
  PROVE  BackupInv'
<1> DEFINE Left(f) == [f EXCEPT !.by = @ \ {p}]
<1>1. /\ p \in Running /\ job' = [job EXCEPT ![p] = Idle]
      /\ faults' = faults + 1 /\ faults \in Nat
      /\ UNCHANGED <<clock, db, order, results, shared, mixed, begun>>
      /\ \A m \in Name : files'[m] = IF files[m] = NoFile THEN NoFile ELSE Left(files[m])
      /\ DOMAIN files' = Name
  BY Basics DEF Crash, BackupInv
<1>2. ASSUME NEW f \in File
      PROVE  /\ Left(f) \in File /\ Left(f).by = f.by \ {p}
             /\ Left(f).v = f.v /\ Left(f).size = f.size /\ Left(f).torn = f.torn
             /\ p \notin f.by => Left(f) = f
  <2>1. /\ Left(f) \in File /\ Left(f).by = f.by \ {p}
        /\ Left(f).v = f.v /\ Left(f).size = f.size /\ Left(f).torn = f.torn
    BY DEF File
  <2>2. p \notin f.by => f.by \ {p} = f.by
    OBVIOUS
  <2>3. p \notin f.by => Left(f) = f
    BY <2>2 DEF File
  <2> QED
    BY <2>1, <2>3
<1>3. \A m \in Name : files[m] # NoFile => files[m] \in File
  BY DEF BackupInv, Types
<1> HIDE DEF Left
<1>4. files' = [m \in Name |-> IF files[m] = NoFile THEN NoFile ELSE Left(files[m])]
  BY DEF Crash, Left
<1>5. files' \in [Name -> File \cup {NoFile}]
  BY <1>2, <1>3, <1>4
<1>6. Ends(p)
  BY <1>1, <1>2, <1>3, <1>5 DEF Ends
<1>7. \A m \in Name : files'[m] = NoFile <=> files[m] = NoFile
  BY <1>1, <1>2, <1>3, Basics DEF BackupInv
<1>8. Existing' = Existing
  BY <1>7 DEF Existing
<1>9. ListingOK'
  BY <1>1, <1>8 DEF ListingOK, BackupInv
<1>10. results' \subseteq Outcome /\ ResultsOK'
  BY <1>1 DEF ResultsOK, BackupInv, Types
<1>11. ASSUME ~mixed
       PROVE  Len(order') <= MaxFiles + faults' /\ Survive'
  <2>1. AloneRun(p) /\ Survive
    BY <1>1, <1>11 DEF BackupInv, AloneOK
  <2>2. Len(order) \in Nat /\ MaxFiles \in Nat
    BY BackupConstants DEF BackupInv, ListingOK
  <2>3. Len(order') <= MaxFiles + faults'
    BY <1>1, <2>1, <2>2 DEF AloneRun
  <2>4. \A n \in Existing : files'[n].size = files[n].size /\ files'[n].v = files[n].v
    BY <1>1, <1>2, <1>3 DEF Existing
  <2>5. Survive'
    BY <1>1, <1>8, <2>1, <2>4 DEF Survive
  <2> QED
    BY <2>3, <2>5
<1> QED
  BY <1>6, <1>9, <1>10, <1>11, EndsKeeps

\* What a run returns.
LEMMA ReturnProps ==
  ASSUME BackupInv, NEW p \in Running, job[p].pc \in {"rotate", "remove"},
         Return(p, job[p]), db' = db, shared' = shared
  PROVE  /\ results' \subseteq Outcome /\ ResultsOK'
         /\ \A x \in results' : x \in results \/ x.sum \in job[p].sum
<1>1. /\ job[p] \in Job /\ db \in Nat /\ RunOK(p) /\ OwnedRun(p)
  BY Basics DEF BackupInv, RunsOK, OwnedOK
<1> DEFINE x(s) == [n |-> job[p].n, sum |-> s, how |-> job[p].how,
                    from |-> job[p].from, to |-> db]
<1>2. results' = results \cup {x(s) : s \in job[p].sum}
  BY DEF Return
<1>3. ASSUME NEW s \in job[p].sum
      PROVE  /\ x(s) \in Outcome /\ x(s).to = db /\ x(s).sum = s
             /\ x(s).n \notin shared => WholeAs(x(s).sum, x(s).from, x(s).how, x(s).to)
  <2>1. s \in Contents
    BY <1>1 DEF Job
  <2>2. x(s) \in Outcome
    BY <1>1, <2>1 DEF Job, Outcome
  <2>3. job[p].n \notin shared => WholeAs(s, job[p].from, job[p].how, db)
    BY <1>1 DEF OwnedRun
  <2> QED
    BY <2>2, <2>3
<1>4. ASSUME NEW y \in results'
      PROVE  /\ y \in Outcome /\ y.to <= db
             /\ y.n \notin shared => WholeAs(y.sum, y.from, y.how, y.to)
             /\ y \in results \/ y.sum \in job[p].sum
  <2>1. CASE y \in results
    BY <2>1 DEF BackupInv, ResultsOK, Types
  <2>2. CASE y \in {x(s) : s \in job[p].sum}
    <3>1. PICK s \in job[p].sum : y = x(s)
      BY <2>2
    <3> HIDE DEF x
    <3>2. /\ y \in Outcome /\ y.to = db /\ y.sum = s
          /\ y.n \notin shared => WholeAs(y.sum, y.from, y.how, y.to)
      BY <1>3, <3>1
    <3> QED
      BY <1>1, <3>2
  <2> QED
    BY <1>2, <2>1, <2>2
<1> QED
  BY <1>4 DEF ResultsOK

\* The run reads back the size and checksum of the file under its name.
LEMMA InspectStep ==
  ASSUME BackupInv, NEW p \in Running, Inspect(p)
  PROVE  BackupInv'
<1> DEFINE n == job[p].n
           f == files[n]
           j == [job[p] EXCEPT !.pc = "rotate", !.sum = {Content(f)}]
<1>1. /\ n \in Name /\ job[p] \in Job /\ p \in Proc /\ job[p].pc = "inspect" /\ Same
      /\ (f # NoFile => f \in File) /\ faults \in Nat
  BY OpenBefore, Basics DEF Inspect, BackupInv
<1>2. CASE f.size \in {"none", "empty"}
  <2>1. Stop(p) /\ Put(n, NoFile)
    BY <1>2 DEF Inspect
  <2>2. /\ files' \in [Name -> File \cup {NoFile}]
        /\ files'[n] = NoFile /\ \A m \in Name \ {n} : files'[m] = files[m]
        /\ ListingOK'
    BY <1>1, <2>1, PutProps DEF BackupInv
  <2>3. Ends(p)
    BY <1>1, <2>1, <2>2, EndsQuietly DEF Stop, Same
  <2>4. results' \subseteq Outcome /\ ResultsOK'
    BY <1>1 DEF Same, ResultsOK, BackupInv, Types
  <2>5. mixed
    <3> SUFFICES ASSUME ~mixed
                 PROVE  FALSE
      OBVIOUS
    <3>1. f # NoFile /\ WholeAs(Content(f), job[p].from, job[p].how, db)
      BY <1>1 DEF BackupInv, AloneOK, AloneRun
    <3>2. f.size = "full"
      BY <3>1 DEF WholeAs, Content
    <3> QED
      BY <1>2, <3>2
  <2> QED
    BY <2>2, <2>3, <2>4, <2>5, EndsKeeps
<1>3. CASE f.size \notin {"none", "empty"}
  <2>1. job' = [job EXCEPT ![p] = j] /\ files' = files /\ order' = order
    BY <1>1, <1>3 DEF Inspect, BackupInv, Types
  <2>2. f # NoFile
    BY <1>3 DEF NoFile
  <2>3. Content(f) \in Contents
    BY <1>1, <2>2 DEF Content, Contents, File
  <2>4. /\ j \in Job /\ j.n = n /\ j.from = job[p].from /\ j.pc = "rotate"
        /\ j.how = job[p].how /\ j.sum = {Content(f)}
    BY <1>1, <2>3 DEF Job, Pc
  <2> HIDE DEF j
  <2>5. GoesOn(p, j)
    BY <1>1, <2>1, <2>4 DEF GoesOn, BackupInv, Types, Same
  <2>6. job'[p] = j /\ db' = db /\ shared' = shared /\ faults' = faults
    BY <1>1, <2>5, GoesOnRunning DEF BackupInv, Same
  <2>7. RunOK(p)'
    BY <2>4, <2>6 DEF RunOK, BackupInv, RunsOK
  <2>8. n \notin shared => WholeAs(Content(f), job[p].from, job[p].how, db)
    BY <1>1, <2>2 DEF BackupInv, OwnedOK, OwnedRun
  <2>9. OwnedRun(p)'
    BY <2>4, <2>6, <2>8 DEF OwnedRun
  <2>10. ListingOK'
    BY <2>1 DEF ListingOK, Existing, BackupInv
  <2>11. p \notin f.by
    BY <1>1, <2>2, OpenBefore
  <2>12. ASSUME ~mixed
         PROVE  AloneRun(p)' /\ Survive'
    <3>1. /\ shared = {} /\ AloneRun(p)
          /\ \A o \in Running' : o = p
          /\ \A x \in results' : x.sum.v <= job'[p].from
      BY <2>5, <2>12, AloneGoesOn
    <3>2. Survive'
      BY <1>1, <2>1, <2>12 DEF BackupInv, AloneOK, Survive, Existing, Same
    <3>3. /\ f # NoFile /\ Last(order) = n
          /\ WholeAs(Content(f), job[p].from, job[p].how, db)
          /\ Len(order) <= MaxFiles + faults + (IF f = NoFile THEN 0 ELSE 1)
      BY <1>1, <3>1 DEF AloneRun
    <3>4. AloneRun(p)'
      BY <2>1, <2>4, <2>6, <3>1, <3>3 DEF AloneRun
    <3> QED
      BY <3>2, <3>4
  <2> QED
    BY <2>1, <2>2, <2>4, <2>5, <2>7, <2>9, <2>10, <2>11, <2>12, GoesOnKeeps
<1> QED
  BY <1>2, <1>3

-----------------------------------------------------------------------------
(* Rotation. *)

\* What Victims are: the front of the listing, all but MaxFiles.
LEMMA VictimsProps ==
  ASSUME ListingOK
  PROVE  /\ Victims \in Seq(Name)
         /\ Victims = <<>> <=> Len(order) <= MaxFiles
         /\ Len(order) > MaxFiles =>
              /\ Len(Victims) = Len(order) - MaxFiles
              /\ \A i \in 1 .. Len(order) - MaxFiles : Victims[i] = order[i]
<1>1. order \in Seq(Name) /\ Len(order) \in Nat /\ MaxFiles \in Nat \ {0}
  BY BackupConstants DEF ListingOK
<1>2. CASE Len(order) <= MaxFiles
  <2>1. Victims = <<>>
    BY <1>1, <1>2, SubSeqEmpty DEF Victims
  <2> QED
    BY <1>1, <1>2, <2>1
<1>3. CASE Len(order) > MaxFiles
  <2>1. /\ Victims \in Seq(Name) /\ Len(Victims) = Len(order) - MaxFiles
        /\ \A i \in 1 .. Len(order) - MaxFiles : Victims[i] = order[i]
    BY <1>1, <1>3, SubSeqProperties DEF Victims
  <2>2. Victims # <<>>
    BY <1>1, <1>3, <2>1
  <2> QED
    BY <1>1, <1>3, <2>1, <2>2
<1> QED
  BY <1>1, <1>2, <1>3

\* Rotation lists the directory and chooses its victims.
LEMMA ListBackupsStep ==
  ASSUME BackupInv, NEW p \in Running, ListBackups(p)
  PROVE  BackupInv'
<1> DEFINE n == job[p].n
           j == [job[p] EXCEPT !.pc = "remove", !.todo = Victims]
<1>1. /\ n \in Name /\ job[p] \in Job /\ p \in Proc /\ job[p].pc = "rotate"
      /\ faults \in Nat /\ files' = files /\ order' = order
      /\ UNCHANGED <<clock, db, shared, mixed, begun, faults>>
  BY OpenBefore, Basics DEF ListBackups, BackupInv
<1>2. ListingOK'
  BY <1>1 DEF ListingOK, Existing, BackupInv
<1>3. files' \in [Name -> File \cup {NoFile}] /\ Existing' = Existing
  BY <1>1 DEF BackupInv, Types, Existing
<1>4. /\ Len(order) \in Nat /\ MaxFiles \in Nat
      /\ Victims \in Seq(Name) /\ (Victims = <<>> <=> Len(order) <= MaxFiles)
  BY VictimsProps, BackupConstants DEF BackupInv, ListingOK
<1>5. CASE Victims = <<>>
  <2>1. Return(p, job[p])
    BY <1>5 DEF ListBackups
  <2>2. /\ results' \subseteq Outcome /\ ResultsOK'
        /\ \A x \in results' : x \in results \/ x.sum \in job[p].sum
    BY <1>1, <2>1, ReturnProps
  <2>3. Ends(p)
    BY <1>1, <1>3, <2>1, EndsQuietly DEF Return
  <2>4. ASSUME ~mixed
        PROVE  Len(order') <= MaxFiles + faults' /\ Survive'
    <3>1. AloneRun(p) /\ Survive
      BY <2>4 DEF BackupInv, AloneOK
    <3>2. /\ files[n] # NoFile /\ job[p].sum = {Content(files[n])}
          /\ WholeAs(Content(files[n]), job[p].from, job[p].how, db)
      BY <1>1, <3>1 DEF AloneRun
    <3>3. n \in Existing /\ files[n].size = "full" /\ Content(files[n]).v = files[n].v
          /\ files[n].v \in Nat
      BY <1>1, <3>2, OpenBefore DEF Existing, WholeAs, Content, File
    <3>4. Survive'
      BY <1>1, <1>3, <2>2, <3>1, <3>2, <3>3 DEF Survive
    <3> QED
      BY <1>1, <1>4, <1>5, <3>4
  <2> QED
    BY <1>2, <2>2, <2>3, <2>4, EndsKeeps
<1>6. CASE Victims # <<>>
  <2>1. job' = [job EXCEPT ![p] = j] /\ results' = results
    BY <1>1, <1>6 DEF ListBackups, BackupInv, Types
  <2>2. /\ j \in Job /\ j.n = n /\ j.from = job[p].from /\ j.pc = "remove"
        /\ j.how = job[p].how /\ j.sum = job[p].sum /\ j.todo = Victims
    BY <1>1, <1>4 DEF Job, Pc
  <2> HIDE DEF j
  <2>3. GoesOn(p, j)
    BY <1>1, <1>3, <2>1, <2>2 DEF GoesOn
  <2>4. job'[p] = j
    BY <2>3, GoesOnRunning DEF BackupInv
  <2>5. RunOK(p)'
    BY <1>1, <1>6, <2>2, <2>4 DEF RunOK, BackupInv, RunsOK
  <2>6. OwnedRun(p)'
    BY <1>1, <2>2, <2>4 DEF OwnedRun, BackupInv, OwnedOK
  <2>7. files[n] # NoFile => p \notin files[n].by
    BY <1>1, OpenBefore
  <2>8. ASSUME ~mixed
        PROVE  AloneRun(p)' /\ Survive'
    <3>1. /\ shared = {} /\ AloneRun(p)
          /\ \A o \in Running' : o = p
          /\ \A x \in results' : x.sum.v <= job'[p].from
      BY <2>3, <2>8, AloneGoesOn
    <3>2. Survive'
      BY <1>1, <1>3, <2>1, <2>8 DEF BackupInv, AloneOK, Survive
    <3>3. /\ files[n] # NoFile /\ Last(order) = n /\ job[p].sum = {Content(files[n])}
          /\ WholeAs(Content(files[n]), job[p].from, job[p].how, db)
          /\ Len(order) <= MaxFiles + faults + (IF files[n] = NoFile THEN 0 ELSE 1)
      BY <1>1, <3>1 DEF AloneRun
    <3>4. Victims' = Victims
      BY <1>1 DEF Victims
    <3>5. AloneRun(p)'
      BY <1>1, <2>2, <2>4, <3>1, <3>3, <3>4 DEF AloneRun
    <3> QED
      BY <3>2, <3>5
  <2> QED
    BY <1>1, <1>2, <2>2, <2>3, <2>5, <2>6, <2>7, <2>8, GoesOnKeeps
<1> QED
  BY <1>5, <1>6

\* A run that was never overlapped removes the oldest file, which is not its own.
LEMMA FirstVictim ==
  ASSUME BackupInv, NEW p \in Running, ~mixed, job[p].pc = "remove"
  PROVE  LET n == Head(job[p].todo) IN
         /\ n \in Existing /\ n # job[p].n /\ Position(n) = 1
         /\ Len(order) > MaxFiles /\ job[p].todo = Victims
         /\ Len(job[p].todo) = Len(order) - MaxFiles
<1>1. AloneRun(p) /\ RunOK(p)
  BY DEF BackupInv, AloneOK, RunsOK
<1>2. /\ job[p].todo = Victims /\ Victims # <<>> /\ Last(order) = job[p].n
  BY <1>1 DEF AloneRun, RunOK
<1>3. /\ order \in Seq(Name) /\ Len(order) \in Nat /\ MaxFiles \in Nat \ {0}
      /\ ToSet(order) = Existing /\ DOMAIN order = 1 .. Len(order)
      /\ \A i, k \in 1 .. Len(order) : order[i] = order[k] => i = k
  BY BackupConstants DEF BackupInv, ListingOK, IsInjective
<1>4. /\ Len(order) > MaxFiles /\ Victims \in Seq(Name)
      /\ Len(Victims) = Len(order) - MaxFiles
      /\ \A i \in 1 .. Len(order) - MaxFiles : Victims[i] = order[i]
  <2>1. ListingOK
    BY DEF BackupInv
  <2>2. Victims = <<>> <=> Len(order) <= MaxFiles
    BY <2>1, VictimsProps
  <2>3. Len(order) > MaxFiles
    BY <1>2, <1>3, <2>2
  <2> QED
    BY <2>1, <2>3, VictimsProps
<1>5. Head(Victims) = order[1]
  BY <1>2, <1>3, <1>4
<1>6. order[1] \in Existing
  BY <1>3, <1>4 DEF ToSet
<1>7. order[1] # job[p].n
  BY <1>2, <1>3, <1>4 DEF Last
<1>8. Position(order[1]) = 1
  <2>1. Position(order[1]) \in 1 .. Len(order) /\ order[Position(order[1])] = order[1]
    BY <1>6, PositionProps DEF BackupInv
  <2> QED
    BY <1>3, <1>4, <2>1
<1> QED
  BY <1>2, <1>4, <1>5, <1>6, <1>7, <1>8

\* All but the last k elements of a sequence whose first is gone.
LEMMA FrontOfTail ==
  ASSUME NEW S, NEW s \in Seq(S), NEW t \in Seq(S), NEW k \in Nat,
         Len(t) = Len(s) - 1, \A i \in 1 .. Len(s) - 1 : t[i] = s[i + 1], Len(t) > k
  PROVE  SubSeq(t, 1, Len(t) - k) = Tail(SubSeq(s, 1, Len(s) - k))
<1> DEFINE a == SubSeq(t, 1, Len(t) - k)
           b == SubSeq(s, 1, Len(s) - k)
<1>1. Len(s) \in Nat /\ Len(t) \in Nat
  OBVIOUS
<1>2. a \in Seq(S) /\ Len(a) = Len(t) - k /\ \A i \in 1 .. Len(t) - k : a[i] = t[i]
  BY <1>1, SubSeqProperties
<1>3. b \in Seq(S) /\ Len(b) = Len(s) - k /\ \A i \in 1 .. Len(s) - k : b[i] = s[i]
  BY <1>1, SubSeqProperties
<1> HIDE DEF a, b
<1>4. b # <<>>
  <2>1. Len(b) # 0
    BY <1>1, <1>3
  <2> QED
    BY <2>1
<1>5. /\ Tail(b) \in Seq(S) /\ Len(Tail(b)) = Len(b) - 1
      /\ \A i \in 1 .. Len(Tail(b)) : Tail(b)[i] = b[i + 1]
  BY <1>3, <1>4, HeadTailProperties
<1>6. Len(a) = Len(Tail(b))
  BY <1>1, <1>2, <1>3, <1>5
<1>7. ASSUME NEW i \in 1 .. Len(a)
      PROVE  a[i] = Tail(b)[i]
  <2>1. /\ i \in 1 .. Len(t) - k /\ i \in 1 .. Len(s) - 1 /\ i \in 1 .. Len(Tail(b))
        /\ i + 1 \in 1 .. Len(s) - k
    BY <1>1, <1>2, <1>6
  <2>2. a[i] = t[i] /\ t[i] = s[i + 1]
    BY <1>2, <2>1
  <2>3. Tail(b)[i] = b[i + 1]
    BY <1>5, <2>1
  <2>4. b[i + 1] = s[i + 1]
    BY <1>3, <2>1
  <2> QED
    BY <2>2, <2>3, <2>4
<1>8. a = Tail(b)
  BY <1>2, <1>5, <1>6, <1>7, SeqEqual
<1> QED
  BY <1>8 DEF a, b

\* The listing after that.
LEMMA FirstVictimGone ==
  ASSUME BackupInv, NEW p \in Running, ~mixed, job[p].pc = "remove",
         Put(Head(job[p].todo), NoFile)
  PROVE  /\ Len(order') = Len(order) - 1
         /\ Last(order') = Last(order)
         /\ Len(job[p].todo) # 1 => Victims' = Tail(Victims)
<1> DEFINE n == Head(job[p].todo)
<1>1. /\ n \in Existing /\ n # job[p].n /\ Position(n) = 1
      /\ Len(order) > MaxFiles /\ job[p].todo = Victims
      /\ Len(job[p].todo) = Len(order) - MaxFiles
  BY FirstVictim
<1>2. /\ order \in Seq(Name) /\ Len(order) \in Nat /\ MaxFiles \in Nat \ {0}
      /\ ToSet(order) = Existing
  BY BackupConstants DEF BackupInv, ListingOK
<1>3. order' = RemoveAt(order, 1)
  BY <1>1, <1>2 DEF Put, Without
<1>4. /\ order' \in Seq(Name) /\ Len(order') = Len(order) - 1
      /\ \A i \in 1 .. Len(order) - 1 : order'[i] = order[i + 1]
  <2>1. 1 \in 1 .. Len(order)
    BY <1>1, <1>2
  <2>2. /\ order' \in Seq(Name) /\ Len(order') = Len(order) - 1
        /\ \A i \in 1 .. Len(order) - 1 : order'[i] = IF i < 1 THEN order[i] ELSE order[i + 1]
    BY <1>2, <1>3, <2>1, RemoveAtElements
  <2> QED
    BY <1>2, <2>2
<1>5. Last(order') = Last(order)
  BY <1>1, <1>2, <1>4 DEF Last
<1>6. ASSUME Len(job[p].todo) # 1
      PROVE  Victims' = Tail(Victims)
  <2>1. Len(order') > MaxFiles
    BY <1>1, <1>2, <1>4, <1>6
  <2> QED
    BY <1>2, <1>4, <2>1, FrontOfTail DEF Victims
<1> QED
  BY <1>4, <1>5, <1>6

\* Rotation removes one victim; the last one ends the run.
LEMMA RemoveOldestStep ==
  ASSUME BackupInv, NEW p \in Running, RemoveOldest(p)
  PROVE  BackupInv'
<1> DEFINE n == Head(job[p].todo)
           own == job[p].n
           j == [job[p] EXCEPT !.todo = Tail(@)]
<1>1. /\ own \in Name /\ job[p] \in Job /\ p \in Proc /\ job[p].pc = "remove"
      /\ faults \in Nat /\ job[p].todo \in Seq(Name) /\ job[p].todo # <<>>
      /\ UNCHANGED <<clock, db, shared, mixed, begun, faults>> /\ Put(n, NoFile)
  BY OpenBefore, Basics DEF RemoveOldest, BackupInv, RunsOK, RunOK, Job
<1>2. n \in Name /\ Tail(job[p].todo) \in Seq(Name)
      /\ Len(Tail(job[p].todo)) = Len(job[p].todo) - 1 /\ Len(job[p].todo) \in Nat
  BY <1>1, HeadTailProperties
<1>3. /\ files' \in [Name -> File \cup {NoFile}]
      /\ files'[n] = NoFile /\ \A m \in Name \ {n} : files'[m] = files[m]
      /\ ListingOK' /\ Existing' = Existing \ {n}
  BY <1>1, <1>2, PutProps DEF BackupInv
<1>4. \A m \in Name : files'[m] \in {files[m], NoFile}
  BY <1>3
<1>5. Len(order) \in Nat /\ MaxFiles \in Nat \ {0}
  BY BackupConstants DEF BackupInv, ListingOK
<1>6. ASSUME ~mixed
      PROVE  /\ AloneRun(p) /\ Survive /\ shared = {} /\ n # own /\ files[n] # NoFile
             /\ Len(order') = Len(order) - 1 /\ Last(order') = Last(order)
             /\ job[p].todo = Victims
             /\ Len(job[p].todo) = Len(order) - MaxFiles
             /\ Len(job[p].todo) # 1 => Victims' = Tail(Victims)
             /\ own \in Existing' /\ files'[own] = files[own]
             /\ files[own].size = "full" /\ files[own].v \in Nat
             /\ Content(files[own]).v = files[own].v /\ job[p].from <= files[own].v
             /\ job[p].from \in Nat
             /\ \A x \in results : x.sum.v <= files[own].v
  <2>1. AloneRun(p) /\ Survive /\ shared = {}
    BY <1>6 DEF BackupInv, AloneOK
  <2>2. /\ n # own /\ files[n] # NoFile /\ job[p].todo = Victims
        /\ Len(job[p].todo) = Len(order) - MaxFiles
    BY <1>1, <1>6, FirstVictim DEF Existing
  <2>3. /\ Len(order') = Len(order) - 1 /\ Last(order') = Last(order)
        /\ Len(job[p].todo) # 1 => Victims' = Tail(Victims)
    BY <1>1, <1>6, FirstVictimGone
  <2>4. /\ files[own] # NoFile
        /\ WholeAs(Content(files[own]), job[p].from, job[p].how, db)
        /\ \A x \in results : x.sum.v <= job[p].from
    BY <1>1, <2>1 DEF AloneRun
  <2>5. files[own] \in File
    BY <2>4, OpenBefore
  <2>6. /\ files[own].size = "full" /\ Content(files[own]).v = files[own].v
        /\ job[p].from <= files[own].v
    BY <2>4 DEF WholeAs, Content
  <2>7. files[own].v \in Nat /\ job[p].from \in Nat
    BY <1>1, <2>5 DEF File, Job
  <2>8. \A x \in results : x.sum.v \in Nat
    BY DEF BackupInv, Types, Outcome, Contents
  <2>9. \A x \in results : x.sum.v <= files[own].v
    BY <2>4, <2>6, <2>7, <2>8
  <2>10. own \in Existing' /\ files'[own] = files[own]
    BY <1>1, <1>3, <2>2, <2>4 DEF Existing
  <2> QED
    BY <2>1, <2>2, <2>3, <2>6, <2>7, <2>9, <2>10
<1> HIDE DEF n
<1>7. CASE files[n] = NoFile
  <2>1. job' = [job EXCEPT ![p] = Idle] /\ results' = results
    BY <1>7 DEF RemoveOldest, Stop, n
  <2>2. Ends(p)
    BY <1>1, <1>3, <1>4, <2>1, EndsQuietly
  <2>3. results' \subseteq Outcome /\ ResultsOK'
    BY <1>1, <2>1 DEF ResultsOK, BackupInv, Types
  <2> QED
    BY <1>3, <1>6, <1>7, <2>2, <2>3, EndsKeeps
<1>8. CASE files[n] # NoFile /\ Len(job[p].todo) = 1
  <2>1. Return(p, job[p])
    BY <1>8 DEF RemoveOldest, n
  <2>2. /\ results' \subseteq Outcome /\ ResultsOK'
        /\ \A x \in results' : x \in results \/ x.sum \in job[p].sum
    BY <1>1, <2>1, ReturnProps
  <2>3. Ends(p)
    BY <1>1, <1>3, <1>4, <2>1, EndsQuietly DEF Return
  <2>4. ASSUME ~mixed
        PROVE  Len(order') <= MaxFiles + faults' /\ Survive'
    <3>1. job[p].sum = {Content(files[own])}
      BY <1>1, <1>6, <2>4 DEF AloneRun
    <3>2. \A x \in results' : x.sum.v <= files[own].v
      BY <1>6, <2>2, <2>4, <3>1
    <3>3. Survive'
      BY <1>6, <2>4, <3>2 DEF Survive
    <3>4. Len(order') = MaxFiles
      BY <1>5, <1>6, <1>8, <2>4
    <3> QED
      BY <1>1, <1>5, <3>3, <3>4
  <2> QED
    BY <1>3, <2>2, <2>3, <2>4, EndsKeeps
<1>9. CASE files[n] # NoFile /\ Len(job[p].todo) # 1
  <2>1. job' = [job EXCEPT ![p] = j] /\ results' = results
    BY <1>1, <1>9 DEF RemoveOldest, BackupInv, Types, n
  <2>2. /\ j \in Job /\ j.n = own /\ j.from = job[p].from /\ j.pc = "remove"
        /\ j.how = job[p].how /\ j.sum = job[p].sum /\ j.todo = Tail(job[p].todo)
    BY <1>1, <1>2 DEF Job
  <2> HIDE DEF j
  <2>3. GoesOn(p, j)
    BY <1>1, <1>3, <1>4, <2>1, <2>2 DEF GoesOn
  <2>4. job'[p] = j
    BY <2>3, GoesOnRunning DEF BackupInv
  <2>5. Tail(job[p].todo) # <<>>
    <3>1. Len(job[p].todo) # 0
      BY <1>1
    <3>2. Len(Tail(job[p].todo)) # 0
      BY <1>2, <1>9, <3>1
    <3>3. Len(<<>>) = 0
      OBVIOUS
    <3> QED
      BY <3>2, <3>3
  <2>6. RunOK(p)'
    BY <1>1, <2>2, <2>4, <2>5 DEF RunOK, BackupInv, RunsOK
  <2>7. OwnedRun(p)'
    BY <1>1, <2>2, <2>4 DEF OwnedRun, BackupInv, OwnedOK
  <2>8. files'[own] # NoFile => \A o \in files'[own].by :
          o # p /\ files[own] # NoFile /\ o \in files[own].by
    BY <1>1, <1>4, OpenBefore
  <2>9. ASSUME ~mixed
        PROVE  AloneRun(p)' /\ Survive'
    <3>1. /\ \A o \in Running' : o = p
          /\ \A x \in results' : x.sum.v <= job'[p].from
      BY <2>3, <2>9, AloneGoesOn
    <3>2. Survive'
      BY <1>6, <2>1, <2>9 DEF Survive
    <3>3. /\ files[own] # NoFile /\ Last(order) = own /\ job[p].sum = {Content(files[own])}
          /\ WholeAs(Content(files[own]), job[p].from, job[p].how, db)
          /\ Len(order) <= MaxFiles + faults + 1
      BY <1>1, <1>6, <2>9 DEF AloneRun
    <3>4. Len(order') <= MaxFiles + faults + 1
      BY <1>1, <1>5, <1>6, <2>9, <3>3
    <3>5. Tail(job[p].todo) = Victims'
      BY <1>6, <1>9, <2>9
    <3>6. Last(order') = own /\ files'[own] = files[own]
      BY <1>6, <2>9, <3>3
    <3>7. AloneRun(p)'
      BY <1>1, <2>2, <2>4, <3>1, <3>3, <3>4, <3>5, <3>6 DEF AloneRun
    <3> QED
      BY <3>2, <3>7
  <2> QED
    BY <1>3, <2>2, <2>3, <2>6, <2>7, <2>8, <2>9, GoesOnKeeps
<1> QED
  BY <1>7, <1>8, <1>9

-----------------------------------------------------------------------------
(* The other steps, and the invariant. *)

\* A request begins: the run takes the name of the current second.
LEMMA BeginStep ==
  ASSUME BackupInv, NEW p \in Proc, Begin(p)
  PROVE  BackupInv'
<1>1. PICK q \in Requests :
        LET n == FileName(q.label) IN
        /\ job' = IF Taken(n) THEN job
                  ELSE [job EXCEPT ![p] = [pc |-> "vacuum", n |-> n, from |-> db,
                                           how |-> "vacuum", todo |-> <<>>, sum |-> {}]]
        /\ shared' = shared \cup
             (IF ~Taken(n) /\ \E o \in Running : job[o].n = n THEN {n} ELSE {})
  BY DEF Begin
<1> DEFINE n == FileName(q.label)
           j == [pc |-> "vacuum", n |-> n, from |-> db, how |-> "vacuum",
                 todo |-> <<>>, sum |-> {}]
<1>2. /\ job[p] = Idle /\ begun' = begun + 1 /\ mixed' = (mixed \/ Running # {})
      /\ UNCHANGED <<clock, db, files, order, results, faults>>
  BY DEF Begin
<1>3. db \in Nat /\ begun' \in Nat /\ mixed' \in BOOLEAN
  BY <1>2, Basics DEF BackupInv, Types
<1>4. n \in Name
  BY DEF FileName, Name, BackupInv, Types
<1>5. ListingOK' /\ Existing' = Existing
  BY <1>2 DEF ListingOK, Existing, BackupInv
<1>6. ~mixed' => ~mixed /\ Running = {}
  BY <1>2
<1>7. p \notin Running
  BY <1>2 DEF Running
<1> HIDE DEF n
<1>8. CASE Taken(n)
  <2>1. job' = job /\ shared' = shared
    BY <1>1, <1>8 DEF n
  <2>2. Running' = Running
    BY <2>1 DEF Running
  <2>3. Types'
    BY <1>2, <1>3, <2>1 DEF Types, BackupInv
  <2>4. RunsOK' /\ ResultsOK'
    BY <1>2, <2>1, <2>2 DEF RunsOK, RunOK, ResultsOK, BackupInv
  <2>5. OpenOK'
    BY <1>2, <1>5, <2>1, <2>2 DEF OpenOK, Writes, BackupInv
  <2>6. OwnedOK'
    BY <1>2, <2>1, <2>2 DEF OwnedOK, NamesOK, OwnedRun, BackupInv
  <2>7. AloneOK'
    BY <1>2, <1>5, <1>6, <2>1, <2>2 DEF AloneOK, Survive, BackupInv
  <2> QED
    BY <1>5, <2>3, <2>4, <2>5, <2>6, <2>7 DEF BackupInv
<1>9. CASE ~Taken(n)
  <2>1. job' = [job EXCEPT ![p] = j]
    BY <1>1, <1>9 DEF n
  <2>2. shared' = shared \cup (IF \E o \in Running : job[o].n = n THEN {n} ELSE {})
    BY <1>1, <1>9 DEF n
  <2>3. files[n] = NoFile
    BY <1>9 DEF Taken
  <2>4. <<>> \in Seq(Name)
    OBVIOUS
  <2>5. /\ j \in Job /\ j.n = n /\ j.from = db /\ j.pc = "vacuum" /\ j.how = "vacuum"
    BY <1>3, <1>4, <2>4 DEF Job, Pc
  <2> HIDE DEF j
  <2>6. /\ job'[p] = j /\ \A o \in Proc \ {p} : job'[o] = job[o]
        /\ job' \in [Proc -> Job \cup {Idle}]
    BY <2>1, <2>5 DEF BackupInv, Types
  <2>7. Running' = Running \cup {p}
    BY <2>5, <2>6, Basics DEF Running, BackupInv
  <2>8. \A o \in Running : o \in Proc /\ o # p /\ job'[o] = job[o]
    BY <1>7, <2>6 DEF Running
  <2>9. Types'
    BY <1>2, <1>3, <1>4, <2>2, <2>6 DEF Types, BackupInv
  <2>10. RunsOK'
    <3>1. RunOK(p)'
      BY <1>2, <1>3, <2>5, <2>6 DEF RunOK
    <3>2. \A o \in Running : RunOK(o)'
      BY <1>2, <2>8 DEF RunOK, RunsOK, BackupInv
    <3> QED
      BY <2>7, <3>1, <3>2 DEF RunsOK
  <2>11. ResultsOK'
    BY <1>2, <2>2 DEF ResultsOK, BackupInv
  <2>12. OpenOK'
    BY <1>2, <1>5, <2>7, <2>8 DEF OpenOK, Writes, BackupInv
  <2>13. NamesOK'
    BY <2>2, <2>5, <2>6, <2>7, <2>8 DEF NamesOK, OwnedOK, BackupInv
  <2>14. OwnedRun(p)'
    BY <1>2, <2>3, <2>5, <2>6 DEF OwnedRun
  <2>15. ASSUME NEW o \in Running
         PROVE  OwnedRun(o)'
    <3>1. RunOK(o) /\ OwnedRun(o) /\ job'[o] = job[o]
      BY <2>8 DEF BackupInv, RunsOK, OwnedOK
    <3> QED
      BY <1>2, <1>3, <2>2, <3>1, OthersOwned DEF BackupInv
  <2>16. OwnedOK'
    BY <2>7, <2>13, <2>14, <2>15 DEF OwnedOK
  <2>17. AloneOK'
    <3> SUFFICES ASSUME ~mixed'
                 PROVE  AloneOK'
      BY DEF AloneOK
    <3>1. /\ ~mixed /\ Running = {} /\ shared = {} /\ Survive
          /\ Len(order) <= MaxFiles + faults
      BY <1>6 DEF BackupInv, AloneOK
    <3>2. shared' = {} /\ Running' = {p}
      BY <2>2, <2>7, <3>1
    <3>3. \A x \in results : x.sum.v <= db
      <4>1. ASSUME NEW x \in results
            PROVE  x.sum.v <= db
        <5>1. x.sum.v <= x.to /\ x.to <= db /\ x.sum.v \in Nat /\ x.to \in Nat
          BY <3>1 DEF BackupInv, ResultsOK, WholeAs, Types, Outcome, Contents
        <5> QED
          BY <1>3, <5>1
      <4> QED
        BY <4>1
    <3>4. Len(order) <= MaxFiles + faults + 0
      BY <3>1, BackupConstants, Basics DEF BackupInv
    <3>5. AloneRun(p)'
      BY <1>2, <2>3, <2>5, <2>6, <3>2, <3>3, <3>4 DEF AloneRun
    <3>6. Survive'
      BY <1>2, <1>5, <3>1 DEF Survive
    <3> QED
      BY <3>2, <3>5, <3>6 DEF AloneOK
  <2> QED
    BY <1>5, <2>9, <2>10, <2>11, <2>12, <2>16, <2>17 DEF BackupInv
<1> QED
  BY <1>8, <1>9

\* Time passes, or the database is written: neither concerns the files.
LEMMA WorldStep ==
  ASSUME BackupInv, clock' \in 0 .. MaxClock, db' \in 0 .. MaxWrites, db <= db',
         UNCHANGED <<files, order, job, results, shared, mixed, begun, faults>>
  PROVE  BackupInv'
<1>1. db \in Nat /\ db' \in Nat
  BY Basics, BackupConstants DEF BackupInv
<1>2. Running' = Running /\ Existing' = Existing /\ ListingOK' /\ Types'
  BY DEF Running, Existing, ListingOK, Types, BackupInv
<1>3. \A p \in Running : job[p].from \in Nat /\ job[p] \in Job
  BY Basics DEF BackupInv, Job
<1>4. RunsOK'
  BY <1>1, <1>2, <1>3 DEF RunsOK, RunOK, BackupInv
<1>5. OpenOK' /\ NamesOK'
  BY <1>2 DEF OpenOK, Writes, NamesOK, OwnedOK, BackupInv
<1>6. \A p \in Running : OwnedRun(p)'
  BY <1>1, OthersOwned DEF BackupInv, RunsOK, OwnedOK
<1>7. OwnedOK'
  BY <1>2, <1>5, <1>6 DEF OwnedOK
<1>8. ResultsOK'
  BY <1>1 DEF ResultsOK, BackupInv, Types, Outcome
<1>9. AloneOK'
  <2> SUFFICES ASSUME ~mixed
               PROVE  AloneOK'
    BY DEF AloneOK
  <2>1. Survive' /\ shared' = {} /\ (Running' = {} => Len(order') <= MaxFiles + faults')
    BY <1>2 DEF Survive, AloneOK, BackupInv
  <2>2. ASSUME NEW p \in Running
        PROVE  AloneRun(p)'
    <3>1. AloneRun(p) /\ RunOK(p) /\ job[p].n \in Name /\ job[p].from \in Nat
      BY <1>3 DEF AloneOK, BackupInv, RunsOK, Job
    <3>2. ASSUME job[p].pc \in {"inspect", "rotate", "remove"}
          PROVE  WholeAs(Content(files[job[p].n]), job[p].from, job[p].how, db')
      <4>1. /\ files[job[p].n] # NoFile
            /\ WholeAs(Content(files[job[p].n]), job[p].from, job[p].how, db)
        BY <3>1, <3>2 DEF AloneRun
      <4>2. Content(files[job[p].n]).v \in Nat
        BY <3>1, <4>1 DEF BackupInv, Types, File, Content
      <4> QED
        BY <1>1, <3>1, <4>1, <4>2 DEF WholeAs, RunOK
    <3>3. Victims' = Victims
      BY DEF Victims
    <3> QED
      BY <1>2, <3>1, <3>2, <3>3 DEF AloneRun
  <2> QED
    BY <1>2, <2>1, <2>2 DEF AloneOK
<1> QED
  BY <1>2, <1>4, <1>5, <1>7, <1>8, <1>9 DEF BackupInv

\* The empty directory, and nobody at work.
LEMMA BackupInit ==
  Init => BackupInv
<1> SUFFICES ASSUME Init
             PROVE  BackupInv
  OBVIOUS
<1>1. /\ clock = 0 /\ db = 0 /\ order = <<>> /\ files = [n \in Name |-> NoFile]
      /\ job = [p \in Proc |-> Idle] /\ results = {} /\ shared = {}
      /\ mixed = FALSE /\ begun = 0 /\ faults = 0
  BY DEF Init
<1>2. Running = {} /\ Existing = {}
  BY <1>1 DEF Running, Existing
<1>3. Types
  <2>1. 0 \in 0 .. MaxClock /\ 0 \in 0 .. MaxWrites
    BY BackupConstants
  <2>2. files \in [Name -> File \cup {NoFile}] /\ job \in [Proc -> Job \cup {Idle}]
    BY <1>1
  <2>3. mixed \in BOOLEAN
    BY <1>1
  <2>4. /\ clock \in 0 .. MaxClock /\ db \in 0 .. MaxWrites
        /\ begun \in Nat /\ faults \in Nat
    BY <1>1, <2>1
  <2>5. results \subseteq Outcome /\ shared \subseteq Name
    BY <1>1
  <2> QED
    BY <2>2, <2>3, <2>4, <2>5 DEF Types
<1>4. ListingOK
  BY <1>1, <1>2 DEF ListingOK, ToSet, IsInjective
<1>5. Len(order) = 0
  BY <1>1
<1>6. AloneOK
  BY <1>1, <1>2, <1>5, BackupConstants DEF AloneOK, Survive
<1> QED
  BY <1>1, <1>2, <1>3, <1>4, <1>6
     DEF BackupInv, RunsOK, OpenOK, OwnedOK, NamesOK, ResultsOK

\* A step of a process, or of the world around.
LEMMA BackupNext ==
  ASSUME BackupInv, [Next]_vars
  PROVE  BackupInv'
<1>1. db \in 0 .. MaxWrites /\ clock \in 0 .. MaxClock /\ MaxWrites \in Nat /\ MaxClock \in Nat
  BY BackupConstants DEF BackupInv, Types
<1>2. CASE UNCHANGED vars
  <2>1. db' \in 0 .. MaxWrites /\ db <= db' /\ clock' \in 0 .. MaxClock
    BY <1>1, <1>2 DEF vars
  <2> QED
    BY <1>2, <2>1, WorldStep DEF vars
<1>3. CASE Tick
  <2>1. db' \in 0 .. MaxWrites /\ db <= db' /\ clock' \in 0 .. MaxClock
    BY <1>1, <1>3 DEF Tick
  <2> QED
    BY <1>3, <2>1, WorldStep DEF Tick
<1>4. CASE WriteDatabase
  <2>1. db' \in 0 .. MaxWrites /\ db <= db' /\ clock' \in 0 .. MaxClock
    BY <1>1, <1>4 DEF WriteDatabase
  <2> QED
    BY <1>4, <2>1, WorldStep DEF WriteDatabase
<1>5. ASSUME NEW p \in Proc, Begin(p)
      PROVE  BackupInv'
  BY <1>5, BeginStep
<1>6. ASSUME NEW p \in Proc, Crash(p)
      PROVE  BackupInv'
  BY <1>6, CrashStep
<1>7. ASSUME NEW p \in Proc, Advance(p) \/ VacuumFails(p)
      PROVE  BackupInv'
  <2>1. job[p].pc # "idle"
    BY <1>7 DEF Advance, VacuumStart, VacuumEnd, VacuumFails, FallbackRemove, CopyStart,
                CopyEnd, Inspect, ListBackups, RemoveOldest
  <2>2. p \in Running
    BY <2>1 DEF Running, Idle
  <2> QED
    BY <1>7, <2>2, VacuumStartStep, VacuumEndStep, VacuumFailsStep, FallbackRemoveStep,
       CopyStartStep, CopyEndStep, InspectStep, ListBackupsStep, RemoveOldestStep DEF Advance
<1> QED
  BY <1>2, <1>3, <1>4, <1>5, <1>6, <1>7 DEF Next

\* The inductive invariant holds of every behaviour.
LEMMA BackupInvariant ==
  Spec => []BackupInv
<1>1. BackupInv /\ [Next]_vars => BackupInv'
  BY BackupNext
<1> QED
  BY <1>1, BackupInit, PTL DEF Spec

-----------------------------------------------------------------------------
(* The theorems. *)

\* What create_backup reports of a file is a true snapshot: a run whose name no
\* other run has used at the same time reports a whole file with one version
\* that the database had while the run was under way, if VACUUM INTO made it or
\* if nothing was written meanwhile; whatever runs were killed, and whatever
\* rotations went on.
THEOREM SnapshotsAreTrue ==
  Spec => []SnapshotTrue
<1>1. BackupInv => SnapshotTrue
  BY DEF BackupInv, ResultsOK, SnapshotTrue, WholeAs
<1> QED
  BY <1>1, BackupInvariant, PTL

\* The invariant gives the types that the runs check,
LEMMA InvTypeOK ==
  ASSUME BackupInv
  PROVE  TypeOK
<1>1. \A n \in Existing : files[n].by \subseteq Running
  BY DEF BackupInv, OpenOK, Writes
<1>2. \A p \in Running : job[p].n \in Name /\ job[p].from \in 0 .. db
  BY Basics DEF BackupInv, RunsOK, RunOK, Job
<1> QED
  BY <1>1, <1>2 DEF TypeOK, BackupInv, Types, ListingOK

\* the bound on the files that rotation keeps,
LEMMA InvFilesBounded ==
  ASSUME BackupInv
  PROVE  FilesBounded
<1> SUFFICES ASSUME ~mixed
             PROVE  Cardinality(Existing) <= MaxFiles + Cardinality(Running) + faults
  BY DEF FilesBounded
<1>1. /\ Cardinality(Existing) = Len(order) /\ Len(order) \in Nat
      /\ MaxFiles \in Nat /\ faults \in Nat
  BY ListingLength, BackupConstants, Basics DEF BackupInv, ListingOK
<1>2. CASE Running = {}
  <2>1. Cardinality(Running) = 0
    BY <1>2, FS_EmptySet
  <2> QED
    BY <1>1, <1>2, <2>1 DEF BackupInv, AloneOK
<1>3. CASE Running # {}
  <2>1. PICK p \in Running : AloneRun(p)
    BY <1>3 DEF BackupInv, AloneOK
  <2>2. Running = {p}
    BY <2>1 DEF AloneRun
  <2>3. Cardinality(Running) = 1
    BY <2>2, FS_Singleton
  <2> QED
    BY <1>1, <2>1, <2>3 DEF AloneRun
<1> QED
  BY <1>2, <1>3

\* and that a good backup survives.
LEMMA InvGoodBackup ==
  ASSUME BackupInv
  PROVE  GoodBackupSurvives
<1>1. results # {} /\ ~mixed => \E n \in Existing : files[n].size = "full"
  BY DEF BackupInv, AloneOK, Survive
<1>2. ASSUME NEW x \in results, x.sum.v >= Migrated, ~mixed, \A n \in Existing : ~files[n].torn
      PROVE  \E n \in Existing : ValidateBackup(files[n]) = {TRUE}
  <2>1. PICK n \in Existing : files[n].size = "full" /\ files[n].v >= x.sum.v
    BY <1>2 DEF BackupInv, AloneOK, Survive
  <2>2. x.sum.v \in Nat /\ files[n].v \in Nat /\ Migrated \in Nat
    BY Basics, BackupConstants DEF BackupInv, Types, Outcome, Contents, File
  <2>3. files[n].v >= Migrated
    BY <1>2, <2>1, <2>2
  <2>4. ValidateBackup(files[n]) = {files[n].v >= Migrated}
    BY <1>2, <2>1 DEF ValidateBackup
  <2>5. (files[n].v >= Migrated) = TRUE
    BY <2>3
  <2> QED
    BY <2>4, <2>5
<1> QED
  BY <1>1, <1>2 DEF GoodBackupSurvives

\* Runs that do not overlap keep the directory small and never leave it without
\* a whole backup, once one has succeeded: for any number of killed runs, failed
\* attempts and files to keep.
THEOREM DirectoryIsSound ==
  Spec => []DirectorySound
<1>1. BackupInv => DirectorySound
  BY InvTypeOK, InvFilesBounded, InvGoodBackup DEF DirectorySound
<1> QED
  BY <1>1, BackupInvariant, PTL

\* What a step may do to a whole file whose name is not shared.
LEMMA StepOnWhole ==
  ASSUME BackupInv, Next, NEW n \in Name, n \notin shared, files[n] # NoFile,
         files[n].size = "full"
  PROVE  \/ files'[n] # NoFile /\ Content(files'[n]) = Content(files[n])
         \/ /\ files'[n] = NoFile
            /\ mixed \/ Newer(n) >= MaxFiles
<1>1. files \in [Name -> File \cup {NoFile}] /\ files[n] \in File
  BY DEF BackupInv, Types
<1>2. CASE UNCHANGED files
  BY <1>2
<1>3. ASSUME NEW p \in Proc, Crash(p)
      PROVE  files'[n] # NoFile /\ Content(files'[n]) = Content(files[n])
  <2>1. files'[n] = [files[n] EXCEPT !.by = @ \ {p}]
    BY <1>3 DEF Crash
  <2>2. /\ files'[n].v = files[n].v /\ files'[n].torn = files[n].torn
        /\ files'[n].size = files[n].size
    BY <1>1, <2>1 DEF File
  <2>3. files'[n] # NoFile
    BY <2>2 DEF NoFile
  <2> QED
    BY <2>2, <2>3 DEF Content
<1>4. ASSUME NEW p \in Running, job[p].n = n
      PROVE  job[p].pc \in {"inspect", "rotate", "remove"}
  <2>1. OwnedRun(p) /\ job[p] \in Job
    BY Basics DEF BackupInv, OwnedOK
  <2>2. job[p].pc \notin {"vacuum", "vacuuming", "fallback", "copy", "copying"}
    BY <1>4, <2>1 DEF OwnedRun, Partial
  <2> QED
    BY <2>1, <2>2 DEF Job, Pc
<1>5. ASSUME NEW p \in Running, NEW m \in Name \ {n}, NEW f, Put(m, f)
      PROVE  files'[n] = files[n]
  BY <1>1, <1>5 DEF Put
<1>6. ASSUME NEW p \in Running, job[p].n # n, NEW torn, Written(p, torn)
      PROVE  files'[n] = files[n]
  <2>1. job[p].n \in Name
    BY OpenBefore
  <2> QED
    BY <1>5, <1>6, <2>1 DEF Written
<1>7. ASSUME NEW p \in Running, Advance(p)
      PROVE  \/ files'[n] = files[n]
             \/ /\ files'[n] = NoFile
                /\ mixed \/ Newer(n) >= MaxFiles
  <2>1. job[p].n \in Name
    BY OpenBefore
  <2>2. CASE VacuumStart(p) \/ FallbackRemove(p) \/ CopyStart(p)
    <3>1. job[p].n # n
      BY <1>4, <2>2 DEF VacuumStart, FallbackRemove, CopyStart
    <3> QED
      BY <1>5, <2>1, <2>2, <3>1 DEF VacuumStart, FallbackRemove, CopyStart
  <2>3. CASE VacuumEnd(p) \/ CopyEnd(p)
    <3>1. job[p].n # n
      BY <1>4, <2>3 DEF VacuumEnd, CopyEnd
    <3> QED
      BY <1>6, <2>3, <3>1 DEF VacuumEnd, CopyEnd
  <2>4. CASE Inspect(p)
    <3>1. CASE job[p].n = n
      BY <2>4, <3>1 DEF Inspect
    <3>2. CASE job[p].n # n
      BY <1>5, <2>1, <2>4, <3>2 DEF Inspect
    <3> QED
      BY <3>1, <3>2
  <2>5. CASE ListBackups(p)
    BY <2>5 DEF ListBackups
  <2>6. CASE RemoveOldest(p)
    <3> DEFINE m == Head(job[p].todo)
    <3>1. job[p].todo \in Seq(Name) /\ job[p].todo # <<>> /\ job[p].pc = "remove" /\ Put(m, NoFile)
      BY <2>6, Basics DEF RemoveOldest, BackupInv, RunsOK, RunOK, Job
    <3>2. m \in Name
      BY <3>1
    <3>3. CASE m # n
      BY <1>5, <3>1, <3>2, <3>3
    <3>4. CASE m = n
      <4>1. files'[n] = NoFile
        BY <1>1, <3>1, <3>4 DEF Put
      <4>2. ~mixed => Newer(n) >= MaxFiles
        <5> SUFFICES ASSUME ~mixed
                     PROVE  Newer(n) >= MaxFiles
          OBVIOUS
        <5>1. Position(n) = 1 /\ Len(order) > MaxFiles
          BY <3>1, <3>4, FirstVictim
        <5>2. Len(order) \in Nat /\ MaxFiles \in Nat
          BY BackupConstants DEF BackupInv, ListingOK
        <5> QED
          BY <5>1, <5>2 DEF Newer
      <4> QED
        BY <4>1, <4>2
    <3> QED
      BY <3>3, <3>4
  <2> QED
    BY <1>7, <2>2, <2>3, <2>4, <2>5, <2>6 DEF Advance
<1>8. ASSUME NEW p \in Proc, Advance(p)
      PROVE  p \in Running
  <2>1. job[p].pc # "idle"
    BY <1>8 DEF Advance, VacuumStart, VacuumEnd, FallbackRemove, CopyStart,
                CopyEnd, Inspect, ListBackups, RemoveOldest
  <2> QED
    BY <2>1 DEF Running, Idle
<1>9. CASE Tick \/ WriteDatabase \/ \E p \in Proc : Begin(p) \/ VacuumFails(p)
  <2>1. UNCHANGED files
    BY <1>9 DEF Tick, WriteDatabase, Begin, VacuumFails
  <2> QED
    BY <1>2, <2>1
<1> QED
  BY <1>3, <1>7, <1>8, <1>9 DEF Next

\* A reported backup whose name no two runs have shared never changes, and as
\* long as no runs overlap rotation takes it away only when MaxFiles newer files
\* are there.
THEOREM BackupsAreKept ==
  Spec => KeptUntilReplaced
<1>1. ASSUME BackupInv, [Next]_vars,
             NEW x \in results, Content(files[x.n]) = x.sum, x.n \notin shared
      PROVE  \/ Content(files'[x.n]) = x.sum
             \/ /\ files'[x.n] = NoFile
                /\ mixed \/ Newer(x.n) >= MaxFiles
  <2>1. x.n \in Name /\ x.sum.size = "full"
    BY <1>1 DEF BackupInv, ResultsOK, WholeAs, Types, Outcome
  <2>2. files[x.n] # NoFile /\ files[x.n].size = "full"
    BY <1>1, <2>1 DEF Content
  <2>3. CASE Next
    BY <1>1, <2>1, <2>2, <2>3, StepOnWhole
  <2>4. CASE UNCHANGED vars
    BY <1>1, <2>4 DEF vars
  <2> QED
    BY <1>1, <2>3, <2>4
<1>2. BackupInv /\ [Next]_vars =>
        [\A x \in results :
           Content(files[x.n]) = x.sum /\ x.n \notin shared
           => \/ Content(files'[x.n]) = x.sum
              \/ /\ files'[x.n] = NoFile
                 /\ mixed \/ Newer(x.n) >= MaxFiles]_vars
  BY <1>1
<1> QED
  BY <1>2, BackupInvariant, PTL DEF Spec, KeptUntilReplaced

-----------------------------------------------------------------------------
(* The tables. *)

RowType(k) ==
  CASE k = "facts"     -> [fact : FactRow, deleted : BOOLEAN]
    [] k = "events"    -> EventRow
    [] k = "usage"     -> UsageRow
    [] k = "runs"      -> RunRow
    [] k = "snapshots" -> SnapshotRow
    [] k = "keys"      -> KeyRow
    [] k = "plans"     -> PlanRow
    [] OTHER           -> PointRow

\* The primary key of a row.
KeyOf(k, r) == CASE k = "facts" -> r.fact.id
                 [] k = "plans" -> r.org
                 [] OTHER       -> r.id

\* Finitely many rows of the port's type, one for a primary key.
Good(k, t) ==
  /\ IsFiniteSet(t)
  /\ t \subseteq RowType(k)
  /\ \A r, s \in t : KeyOf(k, r) = KeyOf(k, s) => r = s

\* Whose row it is, in the tables where that matters; a key is the organisation's.
Owned(k, n, r) == IF k = "facts" THEN Owns(n, r.fact)
                  ELSE IF k = "events" THEN Owns(n, r)
                  ELSE IF k = "keys" THEN r.org = n.org
                  ELSE TRUE

\* The mock keeps facts and a set of deleted ids.
MockOf(t) == [facts   |-> {r.fact : r \in t},
              deleted |-> {r.fact.id : r \in {s \in t : s.deleted}}]

MockTable(k, t) == IF k = "facts" THEN MockOf(t) ELSE t

\* The databases hold the same rows, and the mock what they say.
RowTables ==
  /\ Good(kind, tables.sqlite)
  /\ tables.postgres = tables.sqlite
  /\ tables.mock = MockTable(kind, tables.sqlite)

\* What a call that writes may do to a table t: m and s are the results of the
\* mock and of a database, n is the tenant.
CallOK(k, n, t, m, s) ==
  /\ Good(k, s.table)
  /\ m.table = MockTable(k, s.table)
  /\ m.answer.ok = s.answer.ok
  /\ \A r : Owned(k, n, r) \/ (r \in s.table <=> r \in t)

-----------------------------------------------------------------------------
(* Counting. *)

\* The image of a finite set under a function, which has as many members if the
\* function tells its arguments apart.
LEMMA ImageOf ==
  ASSUME NEW S, IsFiniteSet(S), NEW T, NEW f \in [S -> T],
         \A y \in T : \E x \in S : f[x] = y
  PROVE  /\ IsFiniteSet(T)
         /\ Cardinality(T) \in Nat /\ Cardinality(S) \in Nat
         /\ Cardinality(T) <= Cardinality(S)
         /\ (\A x, y \in S : f[x] = f[y] => x = y) => Cardinality(T) = Cardinality(S)
<1>1. f \in Surjection(S, T)
  BY DEF Surjection
<1>2. (\A x, y \in S : f[x] = f[y] => x = y) => f \in Injection(S, T)
  BY DEF Injection, IsInjective
<1> QED
  BY <1>1, <1>2, FS_Surjection, FS_CardinalityType

-----------------------------------------------------------------------------
(* Facts. *)

\* Results and answers.
LEMMA ResultIs ==
  ASSUME NEW a, NEW t
  PROVE  Result(a, t).answer = a /\ Result(a, t).table = t
  BY DEF Result

\* What an error and a success hold.
LEMMA AnswerIs ==
  ASSUME NEW v
  PROVE  Ok(v).ok = {v} /\ Err(v).ok = {} /\ Value(Ok(v)) = v
<1>1. Ok(v).ok = {v} /\ Err(v).ok = {}
  BY DEF Ok, Err
<1>2. (CHOOSE w \in {v} : TRUE) = v
  OBVIOUS
<1> QED  BY <1>1, <1>2 DEF Value

\* A table of facts.
LEMMA FactTable ==
  ASSUME NEW t
  PROVE  Good("facts", t) <=>
           /\ IsFiniteSet(t)
           /\ t \subseteq [fact : FactRow, deleted : BOOLEAN]
           /\ \A r, s \in t : r.fact.id = s.fact.id => r = s
  BY DEF Good, RowType, KeyOf

\* What the mock knows of a table of facts.
LEMMA MockKnows ==
  ASSUME NEW t, Good("facts", t)
  PROVE  /\ MockOf(t).facts = {r.fact : r \in t}
         /\ MockOf(t).deleted = {r.fact.id : r \in {s \in t : s.deleted}}
         /\ \A r \in t : r.fact.id \in MockOf(t).deleted <=> r.deleted
         /\ \A id : MockHas(MockOf(t), id) <=> \E r \in t : r.fact.id = id
         /\ MockActive(MockOf(t)) = Active(t)
<1> USE FactTable
<1>1. /\ MockOf(t).facts = {r.fact : r \in t}
      /\ MockOf(t).deleted = {r.fact.id : r \in {s \in t : s.deleted}}
  BY DEF MockOf
<1>2. \A r \in t : r.fact.id \in MockOf(t).deleted <=> r.deleted
  BY <1>1
<1>3. \A id : MockHas(MockOf(t), id) <=> \E r \in t : r.fact.id = id
  BY <1>1 DEF MockHas
<1>4. MockActive(MockOf(t)) = Active(t)
  BY <1>1, <1>2 DEF MockActive, Active
<1> QED  BY <1>1, <1>2, <1>3, <1>4

\* A call that the databases answer alike.
LEMMA GoodCall ==
  ASSUME NEW k, NEW n, NEW t, NEW m, NEW s, NEW a, NEW b, NEW u,
         m = Result(a, MockTable(k, u)), s = Result(b, u), a.ok = b.ok,
         Good(k, u), \A r : Owned(k, n, r) \/ (r \in u <=> r \in t)
  PROVE  CallOK(k, n, t, m, s)
<1>1. m.answer = a /\ m.table = MockTable(k, u) /\ s.answer = b /\ s.table = u
  BY ResultIs
<1> QED
  BY <1>1 DEF CallOK

\* A call that all refuse.
LEMMA RefusedCall ==
  ASSUME NEW k, NEW n, NEW t, NEW m, NEW s, NEW d, NEW e, Good(k, t),
         m = Result(Err(d), MockTable(k, t)), s = Result(Err(e), t)
  PROVE  CallOK(k, n, t, m, s)
<1>1. m.answer = Err(d) /\ m.table = MockTable(k, t) /\ s.answer = Err(e) /\ s.table = t
  BY ResultIs
<1>2. Err(d).ok = {} /\ Err(e).ok = {}
  BY AnswerIs
<1> QED
  BY <1>1, <1>2 DEF CallOK

\* The mock's table of facts.
LEMMA MockFactTable ==
  ASSUME NEW u
  PROVE  MockTable("facts", u) = MockOf(u)
  BY DEF MockTable

\* insert_fact.
LEMMA InsertFactCall ==
  ASSUME NEW t, Good("facts", t), NEW n, NEW f \in FactRow,
         NEW m, m = MockInsertFact(MockOf(t), n, f),
         NEW s, s = SqliteInsertFact(t, n, f)
  PROVE  CallOK("facts", n, t, m, s)
<1>1. MockHas(MockOf(t), f.id) <=> \E r \in t : r.fact.id = f.id
  BY MockKnows
<1>2. CASE ~Owns(n, f) \/ \E r \in t : r.fact.id = f.id
  <2>1. PICK e : m = Result(Err(e), MockTable("facts", t))
    BY <1>1, <1>2, MockFactTable DEF MockInsertFact
  <2>2. PICK d : s = Result(Err(d), t)
    BY <1>2 DEF SqliteInsertFact
  <2> QED  BY <2>1, <2>2, RefusedCall
<1>3. CASE Owns(n, f) /\ ~(\E r \in t : r.fact.id = f.id)
  <2> DEFINE u == t \cup {Stored(f)}
  <2>1. m = Result(Ok(f), [facts |-> MockOf(t).facts \cup {f}, deleted |-> MockOf(t).deleted])
    BY <1>1, <1>3 DEF MockInsertFact
  <2>2. s = Result(Ok(f), u)
    BY <1>3 DEF SqliteInsertFact
  <2>3. Stored(f) \in [fact : FactRow, deleted : BOOLEAN] /\ Stored(f).fact = f /\ Stored(f).deleted = FALSE
    BY DEF Stored
  <2>4. Good("facts", u)
    <3>1. IsFiniteSet(u)
      BY FactTable, FS_AddElement
    <3> QED  BY <1>3, <2>3, <3>1, FactTable
  <2>5. {r.fact : r \in u} = {r.fact : r \in t} \cup {f}
    BY <2>3
  <2>6. {r.fact.id : r \in {x \in u : x.deleted}} = {r.fact.id : r \in {x \in t : x.deleted}}
    BY <2>3
  <2>7. MockTable("facts", u) = [facts |-> MockOf(t).facts \cup {f}, deleted |-> MockOf(t).deleted]
    BY <2>5, <2>6, MockFactTable DEF MockOf
  <2>8. \A r : Owned("facts", n, r) \/ (r \in u <=> r \in t)
    BY <1>3, <2>3 DEF Owned
  <2> HIDE DEF u
  <2> QED  BY <2>1, <2>2, <2>4, <2>7, <2>8, GoodCall
<1> QED  BY <1>2, <1>3

\* update_fact of a fact that is not deleted.
LEMMA UpdateFactCall ==
  ASSUME NEW t, Good("facts", t), NEW n, NEW f \in FactRow,
         \A r \in t : r.fact.id = f.id => ~r.deleted,
         NEW m, m = MockUpdateFact(MockOf(t), n, f),
         NEW s, s = SqliteUpdateFact(t, n, f)
  PROVE  CallOK("facts", n, t, m, s)
<1> DEFINE old == {g \in MockOf(t).facts : g.id = f.id}
           rows == SqlTarget(t, n, f.id)
<1>1. old = {r.fact : r \in {x \in t : x.fact.id = f.id}}
  BY MockKnows
<1>2. rows = {r \in t : r.fact.id = f.id /\ Owns(n, r.fact)}
  BY DEF SqlTarget
<1>3. CASE ~Owns(n, f) \/ rows = {}
  <2>1. ~Owns(n, f) \/ old = {} \/ \E g \in old : ~Owns(n, g)
    BY <1>1, <1>2, <1>3
  <2>2. PICK e : m = Result(Err(e), MockTable("facts", t))
    BY <2>1, MockFactTable DEF MockUpdateFact
  <2>3. PICK d : s = Result(Err(d), t)
    BY <1>3 DEF SqliteUpdateFact
  <2> QED  BY <2>2, <2>3, RefusedCall
<1>4. CASE Owns(n, f) /\ rows # {}
  <2> DEFINE u == (t \ rows) \cup {Stored(f)}
  <2>1. PICK r \in t : r.fact.id = f.id /\ Owns(n, r.fact) /\ ~r.deleted
    BY <1>2, <1>4
  <2>2. rows = {r}
    BY <1>2, <2>1, FactTable
  <2>3. old = {r.fact}
    BY <1>1, <2>1, FactTable
  <2>4. m = Result(Ok(f), [facts |-> (MockOf(t).facts \ old) \cup {f}, deleted |-> MockOf(t).deleted])
    BY <1>4, <2>1, <2>3 DEF MockUpdateFact
  <2>5. s = Result(Ok(f), u)
    BY <1>4 DEF SqliteUpdateFact
  <2>6. Stored(f) \in [fact : FactRow, deleted : BOOLEAN] /\ Stored(f).fact = f /\ Stored(f).deleted = FALSE
    BY DEF Stored
  <2>7. Good("facts", u)
    <3>1. IsFiniteSet(t \ rows)
      BY FactTable, FS_Difference
    <3>2. IsFiniteSet(u)
      BY <3>1, FS_AddElement
    <3> QED  BY <2>1, <2>2, <2>6, <3>2, FactTable
  <2>8. {x.fact : x \in u} = ({x.fact : x \in t} \ old) \cup {f}
    BY <2>1, <2>2, <2>3, <2>6, FactTable
  <2>9. {x.fact.id : x \in {y \in u : y.deleted}} = {x.fact.id : x \in {y \in t : y.deleted}}
    BY <2>1, <2>2, <2>6
  <2>10. MockTable("facts", u) = [facts |-> (MockOf(t).facts \ old) \cup {f}, deleted |-> MockOf(t).deleted]
    BY <2>8, <2>9, MockFactTable DEF MockOf
  <2>11. \A x : Owned("facts", n, x) \/ (x \in u <=> x \in t)
    BY <1>4, <2>1, <2>2, <2>6 DEF Owned
  <2> HIDE DEF u, old
  <2> QED  BY <2>4, <2>5, <2>7, <2>10, <2>11, GoodCall
<1> QED  BY <1>3, <1>4

\* Facts marked as deleted.
Marked(t, rows) == (t \ rows) \cup {[r EXCEPT !.deleted = TRUE] : r \in rows}

\* The table with some active facts marked as deleted.
LEMMA MarkedTable ==
  ASSUME NEW t, Good("facts", t), NEW rows, rows \subseteq {r \in t : ~r.deleted}
  PROVE  /\ Good("facts", Marked(t, rows))
         /\ MockOf(Marked(t, rows)) =
              [facts |-> MockOf(t).facts,
               deleted |-> MockOf(t).deleted \cup {r.fact.id : r \in rows}]
         /\ Active(Marked(t, rows)) = Active(t) \ {r.fact : r \in rows}
         /\ \A x : x \in Marked(t, rows) /\ x \notin t => \E r \in rows : x.fact = r.fact
<1> DEFINE M(r) == [r EXCEPT !.deleted = TRUE]
           new == {M(r) : r \in rows}
           u == (t \ rows) \cup new
<1>1. \A r \in rows : /\ M(r) \in [fact : FactRow, deleted : BOOLEAN]
                      /\ M(r).fact = r.fact /\ M(r).deleted = TRUE
  BY FactTable
<1>2. \A x \in new : \E r \in rows : x = M(r)
  OBVIOUS
<1>3. \A r \in rows : M(r) \in new
  OBVIOUS
<1>4. Marked(t, rows) = u
  BY DEF Marked
<1>5. IsFiniteSet(u)
  <2>1. IsFiniteSet(rows) /\ IsFiniteSet(t \ rows)
    BY FactTable, FS_Subset, FS_Difference
  <2>2. IsFiniteSet(new)
    <3> DEFINE g == [r \in rows |-> M(r)]
    <3>1. g \in [rows -> new] /\ \A y \in new : \E x \in rows : g[x] = y
      OBVIOUS
    <3> HIDE DEF g, new
    <3> QED  BY <2>1, <3>1, ImageOf
  <2> QED  BY <2>1, <2>2, FS_Union
<1> HIDE DEF M, new
<1>6. Good("facts", u)
  BY <1>1, <1>2, <1>5, FactTable
<1>7. {r.fact : r \in u} = {r.fact : r \in t}
  BY <1>1, <1>2, <1>3
<1>8. {r.fact.id : r \in {x \in u : x.deleted}}
        = {r.fact.id : r \in {x \in t : x.deleted}} \cup {r.fact.id : r \in rows}
  BY <1>1, <1>2, <1>3
<1>9. {r.fact : r \in {x \in u : ~x.deleted}}
        = {r.fact : r \in {x \in t : ~x.deleted}} \ {r.fact : r \in rows}
  BY <1>1, <1>2, <1>3, FactTable
<1>10. \A x \in u : x \notin t => \E r \in rows : x.fact = r.fact
  BY <1>1, <1>2
<1> QED
  BY <1>4, <1>6, <1>7, <1>8, <1>9, <1>10 DEF MockOf, Active

\* soft_delete_fact of a fact that is not deleted.
LEMMA SoftDeleteFactCall ==
  ASSUME NEW t, Good("facts", t), NEW n, NEW i,
         \A r \in t : r.fact.id = i => ~r.deleted,
         NEW m, m = MockSoftDeleteFact(MockOf(t), n, i),
         NEW s, s = SqliteSoftDeleteFact(t, n, i)
  PROVE  CallOK("facts", n, t, m, s)
<1> DEFINE old == {g \in MockOf(t).facts : g.id = i}
           rows == SqlTarget(t, n, i)
<1>1. old = {r.fact : r \in {x \in t : x.fact.id = i}}
  BY MockKnows
<1>2. rows = {r \in t : r.fact.id = i /\ Owns(n, r.fact)}
  BY DEF SqlTarget
<1>3. CASE rows = {}
  <2>1. old = {} \/ \E g \in old : ~Owns(n, g)
    BY <1>1, <1>2, <1>3
  <2>2. PICK e : m = Result(Err(e), MockTable("facts", t))
    BY <2>1, MockFactTable DEF MockSoftDeleteFact
  <2>3. PICK d : s = Result(Err(d), t)
    BY <1>3 DEF SqliteSoftDeleteFact
  <2> QED  BY <2>2, <2>3, RefusedCall
<1>4. CASE rows # {}
  <2>1. PICK r \in t : r.fact.id = i /\ Owns(n, r.fact) /\ ~r.deleted
    BY <1>2, <1>4
  <2>2. rows = {r}
    BY <1>2, <2>1, FactTable
  <2>3. old = {r.fact}
    BY <1>1, <2>1, FactTable
  <2>4. m = Result(Ok("deleted"), [facts |-> MockOf(t).facts, deleted |-> MockOf(t).deleted \cup {i}])
    BY <2>1, <2>3 DEF MockSoftDeleteFact
  <2>5. s = Result(Ok("deleted"), Marked(t, rows))
    BY <1>4 DEF SqliteSoftDeleteFact, Marked
  <2>6. rows \subseteq {x \in t : ~x.deleted} /\ {x.fact.id : x \in rows} = {i}
    BY <2>1, <2>2
  <2> HIDE DEF rows, old
  <2>7. /\ Good("facts", Marked(t, rows))
        /\ MockOf(Marked(t, rows)) =
              [facts |-> MockOf(t).facts,
               deleted |-> MockOf(t).deleted \cup {x.fact.id : x \in rows}]
        /\ \A x : x \in Marked(t, rows) /\ x \notin t => \E y \in rows : x.fact = y.fact
    BY <2>6, MarkedTable
  <2>8. MockTable("facts", Marked(t, rows)) = [facts |-> MockOf(t).facts, deleted |-> MockOf(t).deleted \cup {i}]
    BY <2>6, <2>7, MockFactTable
  <2>9. \A x : Owned("facts", n, x) \/ (x \in Marked(t, rows) <=> x \in t)
    <3>1. \A x : x \in t /\ x \notin rows => x \in Marked(t, rows)
      BY DEF Marked
    <3> QED  BY <2>1, <2>2, <2>7, <3>1 DEF Owned
  <2> QED  BY <2>4, <2>5, <2>7, <2>8, <2>9, GoodCall
<1> QED  BY <1>3, <1>4

\* delete_user_data.
LEMMA DeleteUserDataCall ==
  ASSUME NEW t, Good("facts", t), NEW n,
         NEW m, m = MockDeleteUserData(MockOf(t), n),
         NEW s, s = SqliteDeleteUserData(t, n)
  PROVE  CallOK("facts", n, t, m, s)
<1> DEFINE u == {r \in t : ~Owns(n, r.fact)}
           left == {f \in {r.fact : r \in t} : ~Owns(n, f)}
           gone == {r.fact.id : r \in {x \in t : x.deleted}}
<1>1. m = Result(Ok("deleted"), [facts |-> left, deleted |-> gone \cap {f.id : f \in left}])
  BY DEF MockDeleteUserData, MockOf, Others
<1>2. s = Result(Ok("deleted"), u)
  BY DEF SqliteDeleteUserData
<1>3. Good("facts", u)
  BY FactTable, FS_Subset
<1>4. {r.fact : r \in u} = left
  OBVIOUS
<1>5. {r.fact.id : r \in {x \in u : x.deleted}} = gone \cap {f.id : f \in left}
  BY FactTable
<1>6. MockTable("facts", u) = [facts |-> left, deleted |-> gone \cap {f.id : f \in left}]
  BY <1>4, <1>5, MockFactTable DEF MockOf
<1>7. \A x : Owned("facts", n, x) \/ (x \in u <=> x \in t)
  BY DEF Owned
<1> HIDE DEF u, left, gone
<1> QED  BY <1>1, <1>2, <1>3, <1>6, <1>7, GoodCall

\* The facts of a tenant that retention takes, and what they are to the mock.
Expired(t, n, c) == {r \in t : Owns(n, r.fact) /\ ~r.deleted /\ r.fact.time < c}

\* There are as many expired facts as expired ids.
LEMMA ExpiredIds ==
  ASSUME NEW t, Good("facts", t), NEW rows, rows \subseteq {r \in t : ~r.deleted}
  PROVE  /\ IsFiniteSet(rows) /\ Cardinality(rows) \in Nat
         /\ Cardinality({r.fact.id : r \in rows}) = Cardinality(rows)
         /\ IsFiniteSet({r.fact : r \in rows})
         /\ Cardinality({r.fact : r \in rows}) = Cardinality(rows)
<1> DEFINE A == {r.fact.id : r \in rows}
           B == {r.fact : r \in rows}
           f == [r \in rows |-> r.fact.id]
           g == [r \in rows |-> r.fact]
<1>1. IsFiniteSet(rows)
  BY FactTable, FS_Subset
<1>2. /\ f \in [rows -> A] /\ \A y \in A : \E x \in rows : f[x] = y
      /\ \A x, y \in rows : f[x] = f[y] => x = y
  BY FactTable
<1>3. /\ g \in [rows -> B] /\ \A y \in B : \E x \in rows : g[x] = y
      /\ \A x, y \in rows : g[x] = g[y] => x = y
  BY FactTable
<1> HIDE DEF A, B, f, g
<1>4. Cardinality(A) = Cardinality(rows) /\ Cardinality(rows) \in Nat
  BY <1>1, <1>2, ImageOf
<1>5. IsFiniteSet(B) /\ Cardinality(B) = Cardinality(rows)
  BY <1>1, <1>3, ImageOf
<1> QED
  BY <1>1, <1>4, <1>5 DEF A, B

\* delete_facts_older_than.
LEMMA PruneFactsCall ==
  ASSUME NEW t, Good("facts", t), NEW n, NEW c, NEW dry \in BOOLEAN,
         NEW m, m = MockDeleteFactsOlderThan(MockOf(t), n, c, dry),
         NEW s, s = SqliteDeleteFactsOlderThan(t, n, c, dry)
  PROVE  CallOK("facts", n, t, m, s)
<1> DEFINE rows == Expired(t, n, c)
           ids == {r.fact.id : r \in rows}
           mids == {f.id : f \in {g \in MockActive(MockOf(t)) : Owns(n, g) /\ g.time < c}}
<1>1. rows \subseteq {r \in t : ~r.deleted} /\ rows = {r \in t : Owns(n, r.fact) /\ ~r.deleted /\ r.fact.time < c}
  BY DEF Expired
<1>2. mids = ids
  <2>1. MockActive(MockOf(t)) = {r.fact : r \in {x \in t : ~x.deleted}}
    BY MockKnows DEF Active
  <2> QED  BY <1>1, <2>1
<1>3. Cardinality(ids) = Cardinality(rows)
  BY <1>1, ExpiredIds
<1>4. CASE dry
  <2>1. m = Result(Ok([count |-> Cardinality(mids), ids |-> {}]), MockOf(t))
    BY <1>4 DEF MockDeleteFactsOlderThan
  <2>2. s = Result(Ok([count |-> Cardinality(ids), ids |-> {}]), t)
    BY <1>4 DEF SqliteDeleteFactsOlderThan, Expired
  <2>3. \A x : Owned("facts", n, x) \/ (x \in t <=> x \in t)
    OBVIOUS
  <2> HIDE DEF rows, ids, mids
  <2>4. m = Result(Ok([count |-> Cardinality(ids), ids |-> {}]), MockTable("facts", t))
    BY <1>2, <2>1, MockFactTable
  <2> QED  BY <2>2, <2>3, <2>4, GoodCall
<1>5. CASE ~dry
  <2>1. m = Result(Ok([count |-> Cardinality(mids), ids |-> mids]),
                   [facts |-> MockOf(t).facts, deleted |-> MockOf(t).deleted \cup mids])
    BY <1>5 DEF MockDeleteFactsOlderThan
  <2>2. s = Result(Ok([count |-> Cardinality(rows), ids |-> ids]), Marked(t, rows))
    BY <1>5 DEF SqliteDeleteFactsOlderThan, Marked, Expired
  <2>3. /\ Good("facts", Marked(t, rows))
        /\ MockOf(Marked(t, rows)) =
              [facts |-> MockOf(t).facts, deleted |-> MockOf(t).deleted \cup ids]
        /\ \A x : x \in Marked(t, rows) /\ x \notin t => \E y \in rows : x.fact = y.fact
    <3>1. rows \subseteq {r \in t : ~r.deleted}
      BY <1>1
    <3> HIDE DEF rows
    <3> QED  BY <3>1, MarkedTable
  <2>4. \A x : Owned("facts", n, x) \/ (x \in Marked(t, rows) <=> x \in t)
    <3>1. \A x : x \in t /\ x \notin rows => x \in Marked(t, rows)
      BY DEF Marked
    <3> QED  BY <1>1, <2>3, <3>1 DEF Owned
  <2> HIDE DEF rows, ids, mids
  <2>5. m = Result(Ok([count |-> Cardinality(rows), ids |-> ids]), MockTable("facts", Marked(t, rows)))
    BY <1>2, <1>3, <2>1, <2>3, MockFactTable
  <2> QED  BY <2>2, <2>3, <2>4, <2>5, GoodCall
<1> QED  BY <1>4, <1>5

-----------------------------------------------------------------------------
(* Records. *)

Records == {"events", "usage", "runs", "snapshots", "keys"}

\* A table of records.
LEMMA RecordTable ==
  ASSUME NEW k \in Records, NEW t
  PROVE  /\ Good(k, t) <=> /\ IsFiniteSet(t)
                           /\ t \subseteq RowType(k)
                           /\ \A r, s \in t : r.id = s.id => r = s
         /\ MockTable(k, t) = t
<1>1. \A r : KeyOf(k, r) = r.id
  <2>1. CASE k = "events"     BY <2>1 DEF KeyOf
  <2>2. CASE k = "usage"      BY <2>2 DEF KeyOf
  <2>3. CASE k = "runs"       BY <2>3 DEF KeyOf
  <2>4. CASE k = "snapshots"  BY <2>4 DEF KeyOf
  <2>5. CASE k = "keys"       BY <2>5 DEF KeyOf
  <2> QED  BY <2>1, <2>2, <2>3, <2>4, <2>5 DEF Records
<1>2. k # "facts"
  BY DEF Records
<1> QED
  BY <1>1, <1>2 DEF Good, MockTable

\* The types of the rows.
LEMMA RowTypes ==
  /\ RowType("events") = EventRow /\ RowType("usage") = UsageRow
  /\ RowType("runs") = RunRow /\ RowType("snapshots") = SnapshotRow
  /\ RowType("keys") = KeyRow /\ RowType("plans") = PlanRow
<1>1. RowType("events") = EventRow
  BY DEF RowType
<1>2. RowType("usage") = UsageRow
  BY DEF RowType
<1>3. RowType("runs") = RunRow
  BY DEF RowType
<1>4. RowType("snapshots") = SnapshotRow
  BY DEF RowType
<1>5. RowType("keys") = KeyRow
  BY DEF RowType
<1>6. RowType("plans") = PlanRow
  BY DEF RowType
<1> QED
  BY <1>1, <1>2, <1>3, <1>4, <1>5, <1>6

\* INSERT of a row with a fresh id: the database answers as the mock does.
LEMMA InsertCall ==
  ASSUME NEW k \in Records, NEW t, Good(k, t), NEW n, NEW x \in RowType(k), ~HasId(t, x),
         Owned(k, n, x), NEW m, m = Push(t, x), NEW s, s = Push(t, x)
  PROVE  CallOK(k, n, t, m, s)
<1> DEFINE u == t \cup {x}
<1>1. m = Result(Ok(x), u) /\ s = Result(Ok(x), u)
  BY DEF Push
<1>2. Good(k, u)
  <2>1. IsFiniteSet(u)
    BY RecordTable, FS_AddElement
  <2> QED  BY <2>1, RecordTable DEF HasId
<1>3. \A r : Owned(k, n, r) \/ (r \in u <=> r \in t)
  OBVIOUS
<1>4. MockTable(k, u) = u
  BY RecordTable
<1> HIDE DEF u
<1> QED
  BY <1>1, <1>2, <1>3, <1>4, GoodCall

\* DELETE of some rows, or a dry run of it.
LEMMA PruneCall ==
  ASSUME NEW k \in Records, NEW t, Good(k, t), NEW n, NEW rows, rows \subseteq t,
         \A r \in rows : Owned(k, n, r), NEW dry \in BOOLEAN,
         NEW m, m = Prune(t, rows, dry), NEW s, s = Prune(t, rows, dry)
  PROVE  CallOK(k, n, t, m, s)
<1> DEFINE u == IF dry THEN t ELSE t \ rows
<1>1. m = Result(Ok(Cardinality(rows)), u) /\ s = Result(Ok(Cardinality(rows)), u)
  BY DEF Prune
<1>2. Good(k, u)
  <2>1. IsFiniteSet(t \ rows)
    BY RecordTable, FS_Difference
  <2> QED  BY <2>1, RecordTable
<1>3. \A r : Owned(k, n, r) \/ (r \in u <=> r \in t)
  OBVIOUS
<1>4. MockTable(k, u) = u
  BY RecordTable
<1> HIDE DEF u
<1> QED
  BY <1>1, <1>2, <1>3, <1>4, GoodCall

\* record_event.
LEMMA RecordEventCall ==
  ASSUME NEW t, Good("events", t), NEW n, NEW e \in EventRow, ~HasId(t, e),
         NEW m, m = MockRecordEvent(t, n, e), NEW s, s = SqliteRecordEvent(t, n, e)
  PROVE  CallOK("events", n, t, m, s)
<1>1. "events" \in Records
  BY DEF Records
<1>2. CASE ~Owns(n, e)
  <2>1. m = Result(Err("Forbidden"), t) /\ s = Result(Err("Forbidden"), t) /\ MockTable("events", t) = t
    BY <1>1, <1>2, RecordTable DEF MockRecordEvent, SqliteRecordEvent
  <2> QED  BY <2>1, RefusedCall
<1>3. CASE Owns(n, e)
  <2>1. m = Push(t, e) /\ s = Push(t, e) /\ Owned("events", n, e) /\ e \in RowType("events")
    BY <1>3, RowTypes DEF MockRecordEvent, SqliteRecordEvent, SqlInsert, Owned
  <2> QED  BY <1>1, <2>1, InsertCall
<1> QED
  BY <1>2, <1>3

\* delete_events_older_than.
LEMMA PruneEventsCall ==
  ASSUME NEW t, Good("events", t), NEW n, NEW c, NEW dry \in BOOLEAN,
         NEW m, m = MockDeleteEventsOlderThan(t, n, c, dry),
         NEW s, s = SqliteDeleteEventsOlderThan(t, n, c, dry)
  PROVE  CallOK("events", n, t, m, s)
<1> DEFINE rows == {e \in Older(t, c) : Owns(n, e)}
<1>1. "events" \in Records
  BY DEF Records
<1>2. rows \subseteq t /\ \A r \in rows : Owned("events", n, r)
  BY DEF Older, Owned
<1>3. m = Prune(t, rows, dry) /\ s = Prune(t, rows, dry)
  BY DEF MockDeleteEventsOlderThan, SqliteDeleteEventsOlderThan
<1> HIDE DEF rows
<1> QED
  BY <1>1, <1>2, <1>3, PruneCall

\* record_usage.
LEMMA RecordUsageCall ==
  ASSUME NEW t, Good("usage", t), NEW n, NEW x \in UsageRow, ~HasId(t, x),
         NEW m, m = MockRecordUsage(t, x), NEW s, s = SqliteRecordUsage(t, x)
  PROVE  CallOK("usage", n, t, m, s)
<1>1. "usage" \in Records /\ x \in RowType("usage") /\ Owned("usage", n, x)
  BY RowTypes DEF Records, Owned
<1>2. m = Push(t, x) /\ s = Push(t, x)
  BY DEF MockRecordUsage, SqliteRecordUsage, SqlInsert
<1> QED
  BY <1>1, <1>2, InsertCall

\* delete_usage_older_than.
LEMMA DeleteUsageOlderThanCall ==
  ASSUME NEW t, Good("usage", t), NEW n, NEW o, NEW c, NEW dry \in BOOLEAN,
         NEW m, m = MockDeleteUsageOlderThan(t, o, c, dry), NEW s, s = SqliteDeleteUsageOlderThan(t, o, c, dry)
  PROVE  CallOK("usage", n, t, m, s)
<1> DEFINE rows == {u \in Older(t, c) : u.org = o}
<1>1. "usage" \in Records
  BY DEF Records
<1>2. rows \subseteq t /\ \A r \in rows : Owned("usage", n, r)
  BY DEF Older, Owned
<1>3. m = Prune(t, rows, dry) /\ s = Prune(t, rows, dry)
  BY DEF MockDeleteUsageOlderThan, SqliteDeleteUsageOlderThan
<1> HIDE DEF rows
<1> QED
  BY <1>1, <1>2, <1>3, PruneCall

\* insert_run.
LEMMA InsertRunCall ==
  ASSUME NEW t, Good("runs", t), NEW n, NEW x \in RunRow, ~HasId(t, x),
         NEW m, m = MockInsertRun(t, x), NEW s, s = SqliteInsertRun(t, x)
  PROVE  CallOK("runs", n, t, m, s)
<1>1. "runs" \in Records /\ x \in RowType("runs") /\ Owned("runs", n, x)
  BY RowTypes DEF Records, Owned
<1>2. m = Push(t, x) /\ s = Push(t, x)
  BY DEF MockInsertRun, SqliteInsertRun, SqlInsert
<1> QED
  BY <1>1, <1>2, InsertCall

\* delete_runs_older_than.
LEMMA DeleteRunsOlderThanCall ==
  ASSUME NEW t, Good("runs", t), NEW n, NEW c, NEW dry \in BOOLEAN,
         NEW m, m = MockDeleteRunsOlderThan(t, c, dry), NEW s, s = SqliteDeleteRunsOlderThan(t, c, dry)
  PROVE  CallOK("runs", n, t, m, s)
<1> DEFINE rows == Older(t, c)
<1>1. "runs" \in Records
  BY DEF Records
<1>2. rows \subseteq t /\ \A r \in rows : Owned("runs", n, r)
  BY DEF Older, Owned
<1>3. m = Prune(t, rows, dry) /\ s = Prune(t, rows, dry)
  BY DEF MockDeleteRunsOlderThan, SqliteDeleteRunsOlderThan
<1> HIDE DEF rows
<1> QED
  BY <1>1, <1>2, <1>3, PruneCall

\* insert_snapshot.
LEMMA InsertSnapshotCall ==
  ASSUME NEW t, Good("snapshots", t), NEW n, NEW x \in SnapshotRow, ~HasId(t, x),
         NEW m, m = MockInsertSnapshot(t, x), NEW s, s = SqliteInsertSnapshot(t, x)
  PROVE  CallOK("snapshots", n, t, m, s)
<1>1. "snapshots" \in Records /\ x \in RowType("snapshots") /\ Owned("snapshots", n, x)
  BY RowTypes DEF Records, Owned
<1>2. m = Push(t, x) /\ s = Push(t, x)
  BY DEF MockInsertSnapshot, SqliteInsertSnapshot, SqlInsert
<1> QED
  BY <1>1, <1>2, InsertCall

\* The keys in the table have the hashes they were made with.
Hashed(t) == \A k \in t : \E r \in KeyRows : r.id = k.id /\ r.hash = k.hash

\* insert_api_key: a fresh id has a fresh hash.
LEMMA InsertApiKeyCall ==
  ASSUME NEW t, Good("keys", t), Hashed(t), NEW x \in KeyRows, ~HasId(t, x),
         NEW m, m = MockInsertApiKey(t, x), NEW s, s = SqliteInsertApiKey(t, x)
  PROVE  CallOK("keys", x, t, m, s) /\ Hashed(s.table)
<1>1. "keys" \in Records /\ x \in RowType("keys") /\ Owned("keys", x, x)
  BY RowTypes, StoreConstants DEF Records, Owned
<1>2. \A k \in t : k.id # x.id /\ k.hash # x.hash
  BY StoreConstants DEF Hashed, HasId
<1>3. m = Push(t, x) /\ s = Push(t, x)
  BY <1>2 DEF MockInsertApiKey, SqliteInsertApiKey
<1>4. CallOK("keys", x, t, m, s)
  BY <1>1, <1>3, InsertCall
<1>5. s.table = t \cup {x}
  BY <1>3, ResultIs DEF Push
<1> QED
  BY <1>4, <1>5 DEF Hashed

\* revoke_api_key.
LEMMA RevokeApiKeyCall ==
  ASSUME NEW t, Good("keys", t), Hashed(t), NEW n, NEW i,
         NEW m, m = MockRevokeApiKey(t, n.org, i), NEW s, s = SqliteRevokeApiKey(t, n.org, i)
  PROVE  CallOK("keys", n, t, m, s) /\ Hashed(s.table)
<1> DEFINE rows == {k \in t : k.id = i /\ k.org = n.org /\ ~k.revoked}
           R(k) == [k EXCEPT !.revoked = TRUE]
           new == {R(k) : k \in rows}
           u == (t \ rows) \cup new
<1>1. m = Revoke(t, rows) /\ s = Revoke(t, rows)
  BY DEF MockRevokeApiKey, SqliteRevokeApiKey
<1>2. "keys" \in Records /\ \A v : MockTable("keys", v) = v
  BY RecordTable DEF Records
<1>3. CASE rows = {}
  <2>1. m = Result(Err("NotFound"), t) /\ s = Result(Err("NotFound"), t)
    BY <1>1, <1>3 DEF Revoke
  <2>2. CallOK("keys", n, t, m, s)
    BY <1>2, <2>1, RefusedCall
  <2>3. s.table = t
    BY <2>1, ResultIs
  <2> QED  BY <2>2, <2>3
<1>4. CASE rows # {}
  <2>1. m = Result(Ok("revoked"), u) /\ s = Result(Ok("revoked"), u)
    BY <1>1, <1>4 DEF Revoke
  <2>2. t \subseteq KeyRow /\ IsFiniteSet(t) /\ \A k, l \in t : k.id = l.id => k = l
    BY <1>2, RecordTable, RowTypes
  <2>3. \A k \in rows : R(k) \in KeyRow /\ R(k).id = k.id /\ R(k).hash = k.hash /\ R(k).org = k.org
    BY <2>2 DEF KeyRow
  <2>4. IsFiniteSet(u)
    <3> DEFINE g == [k \in rows |-> R(k)]
    <3>1. g \in [rows -> new] /\ \A y \in new : \E x \in rows : g[x] = y
      OBVIOUS
    <3>2. IsFiniteSet(rows) /\ IsFiniteSet(t \ rows)
      BY <2>2, FS_Subset, FS_Difference
    <3> HIDE DEF g, new, rows
    <3>3. IsFiniteSet(new)
      BY <3>1, <3>2, ImageOf
    <3> QED  BY <3>2, <3>3, FS_Union
  <2>5. \A x \in new : \E k \in rows : x = R(k)
    OBVIOUS
  <2> HIDE DEF R, new
  <2>6. Good("keys", u)
    <3>1. u \subseteq KeyRow
      BY <2>2, <2>3, <2>5
    <3>2. \A k, l \in u : k.id = l.id => k = l
      BY <2>2, <2>3, <2>5
    <3> QED  BY <1>2, <2>4, <3>1, <3>2, RecordTable, RowTypes
  <2>7. \A r : Owned("keys", n, r) \/ (r \in u <=> r \in t)
    BY <2>2, <2>3, <2>5 DEF Owned
  <2>8. Hashed(u)
    BY <2>2, <2>3, <2>5 DEF Hashed
  <2> HIDE DEF u
  <2>9. CallOK("keys", n, t, m, s)
    BY <1>2, <2>1, <2>6, <2>7, GoodCall
  <2>10. s.table = u
    BY <2>1, ResultIs
  <2> QED  BY <2>8, <2>9, <2>10
<1> QED
  BY <1>3, <1>4

\* A table of plans.
LEMMA PlanTable ==
  ASSUME NEW t
  PROVE  /\ Good("plans", t) <=> /\ IsFiniteSet(t)
                                 /\ t \subseteq PlanRow
                                 /\ \A p, q \in t : p.org = q.org => p = q
         /\ MockTable("plans", t) = t
         /\ \A n, r : Owned("plans", n, r)
<1>1. \A r : KeyOf("plans", r) = r.org
  BY DEF KeyOf
<1> QED
  BY <1>1, RowTypes DEF Good, MockTable, Owned

\* A table in which the plan of an organisation is replaced.
LEMMA PlanReplaced ==
  ASSUME NEW t, Good("plans", t), NEW p \in PlanRow
  PROVE  Good("plans", (t \ PlanOf(t, p.org)) \cup {p})
<1> DEFINE u == (t \ PlanOf(t, p.org)) \cup {p}
<1>1. IsFiniteSet(t \ PlanOf(t, p.org))
  BY PlanTable, FS_Difference
<1>2. IsFiniteSet(u)
  BY <1>1, FS_AddElement
<1>3. u \subseteq PlanRow /\ \A x, y \in u : x.org = y.org => x = y
  BY PlanTable DEF PlanOf
<1> HIDE DEF u
<1>4. Good("plans", u)
  BY <1>2, <1>3, PlanTable
<1> QED
  BY <1>4 DEF u

\* upsert_org_plan: the creation time survives.
LEMMA UpsertOrgPlanCall ==
  ASSUME NEW t, Good("plans", t), NEW n, NEW p \in PlanRow,
         NEW m, m = MockUpsertOrgPlan(t, p), NEW s, s = SqliteUpsertOrgPlan(t, p)
  PROVE  CallOK("plans", n, t, m, s)
<1> DEFINE old == PlanOf(t, p.org)
<1>1. PICK new \in PlanRow :
        /\ new.org = p.org
        /\ m = Result(Ok(new), (t \ old) \cup {new})
        /\ s = Result(Ok(new), (t \ old) \cup {new})
  <2>1. CASE old = {}
    <3>1. (CHOOSE x \in {p} : TRUE) = p
      OBVIOUS
    <3>2. m = Result(Ok(p), (t \ old) \cup {p})
      BY <2>1 DEF MockUpsertOrgPlan
    <3>3. s = Result(Ok(p), (t \ old) \cup {p})
      BY <2>1, <3>1 DEF SqliteUpsertOrgPlan
    <3> HIDE DEF old
    <3> QED  BY <3>2, <3>3
  <2>2. CASE old # {}
    <3>1. PICK o \in t : o.org = p.org
      BY <2>2 DEF PlanOf
    <3>2. old = {o}
      BY <3>1, PlanTable DEF PlanOf
    <3> DEFINE new == [p EXCEPT !.created = o.created]
    <3>3. (CHOOSE x \in {o} : TRUE) = o /\ (CHOOSE x \in {new} : TRUE) = new
      OBVIOUS
    <3>4. m = Result(Ok(new), (t \ old) \cup {new})
      BY <3>2, <3>3 DEF MockUpsertOrgPlan
    <3>5. {[p EXCEPT !.created = q.created] : q \in old} = {new}
      BY <3>2
    <3>6. s = Result(Ok(new), (t \ old) \cup {new})
      BY <3>2, <3>3, <3>5 DEF SqliteUpsertOrgPlan
    <3>7. new \in PlanRow /\ new.org = p.org
      BY <3>1, PlanTable DEF PlanRow
    <3> HIDE DEF old, new
    <3> QED  BY <3>4, <3>6, <3>7
  <2> QED  BY <2>1, <2>2
<1> DEFINE u == (t \ old) \cup {new}
<1>2. Good("plans", u)
  BY <1>1, PlanReplaced
<1>3. MockTable("plans", u) = u /\ \A r : Owned("plans", n, r) \/ (r \in u <=> r \in t)
  BY PlanTable
<1>4. m = Result(Ok(new), u) /\ s = Result(Ok(new), u)
  BY <1>1
<1> HIDE DEF u
<1> QED
  BY <1>2, <1>3, <1>4, GoodCall

\* delete_org_plan.
LEMMA DeleteOrgPlanCall ==
  ASSUME NEW t, Good("plans", t), NEW n, NEW o,
         NEW m, m = MockDeleteOrgPlan(t, o), NEW s, s = SqliteDeleteOrgPlan(t, o)
  PROVE  CallOK("plans", n, t, m, s)
<1> DEFINE u == t \ PlanOf(t, o)
           a == Ok(PlanOf(t, o) # {})
<1>1. m = Result(a, u) /\ s = Result(a, u)
  BY DEF MockDeleteOrgPlan, SqliteDeleteOrgPlan
<1>2. IsFiniteSet(u)
  BY PlanTable, FS_Difference
<1>3. Good("plans", u)
  BY <1>2, PlanTable
<1>4. MockTable("plans", u) = u /\ \A r : Owned("plans", n, r) \/ (r \in u <=> r \in t)
  BY PlanTable
<1> HIDE DEF u, a
<1> QED
  BY <1>1, <1>3, <1>4, GoodCall

-----------------------------------------------------------------------------
(* Vectors. *)

\* A fact has one point.
OnePoint(t) ==
  \A p, q \in t : p.fact = q.fact /\ p.org = q.org /\ p.user = q.user => p = q

\* The mock has every point of the two databases, each id once.
PointsOK(mk, q, l) ==
  /\ IsFiniteSet(mk) /\ mk \subseteq PointRow
  /\ \A x, y \in mk : x.id = y.id => x = y
  /\ q \subseteq mk /\ l \subseteq mk
  /\ OnePoint(q) /\ OnePoint(l)

\* What a call of tenant n makes of the tables.
VectorCallOK(n, mk, q, l, m, s, d) ==
  /\ PointsOK(m.table, s.table, d.table)
  /\ \A r : Owns(n, r) \/ (r \in s.table <=> r \in q)
  /\ \A r : Owns(n, r) \/ (r \in d.table <=> r \in l)
  /\ s.answer.ok = {} => s.table = q

\* upsert_vector of a point with a new id.
LEMMA UpsertVectorCall ==
  ASSUME NEW mk, NEW q, NEW l, PointsOK(mk, q, l), NEW n, NEW p \in PointRow, ~HasId(mk, p),
         NEW m, m = MockUpsertVector(mk, n, p),
         NEW s, s = QdrantUpsertVector(q, n, p),
         NEW d, d = LanceUpsertVector(l, n, p)
  PROVE  VectorCallOK(n, mk, q, l, m, s, d)
<1>1. CASE ~Owns(n, p)
  <2>1. m = Result(Err("Forbidden"), mk) /\ s = Result(Err("Forbidden"), q) /\ d = Result(Err("Forbidden"), l)
    BY <1>1 DEF MockUpsertVector, QdrantUpsertVector, LanceUpsertVector
  <2>2. m.table = mk /\ s.table = q /\ d.table = l
    BY <2>1, ResultIs
  <2> QED  BY <2>2 DEF VectorCallOK
<1>2. CASE Owns(n, p)
  <2> DEFINE qleft == q \ PointsOf(q, n, p.fact)
             lleft == l \ PointsOf(l, n, p.fact)
  <2>1. /\ qleft = {o \in q : ~(o.fact = p.fact /\ Owns(n, o))}
        /\ lleft = {o \in l : ~(o.fact = p.fact /\ Owns(n, o))}
    BY DEF PointsOf
  <2>2. {o \in mk : o.id # p.id} = mk /\ {o \in qleft : o.id # p.id} = qleft
    BY DEF HasId, PointsOK
  <2>3. m = Result(Ok("stored"), mk \cup {p})
    BY <1>2, <2>2 DEF MockUpsertVector
  <2>4. m.table = mk \cup {p}
    BY <2>3, ResultIs
  <2>5. /\ s.table \in {q, qleft \cup {p}} /\ d.table \in {lleft, lleft \cup {p}}
        /\ s.answer.ok = {} => s.table = q
    <3>1. CASE p.length # Dimensions
      <4>1. s = Result(Err("ValidationError"), q) /\ d = Result(Err("ValidationError"), lleft)
        BY <1>2, <3>1 DEF QdrantUpsertVector, LanceUpsertVector
      <4> HIDE DEF qleft, lleft
      <4> QED  BY <4>1, ResultIs
    <3>2. CASE p.length = Dimensions
      <4>1. s = Result(Ok("stored"), qleft \cup {p}) /\ d = Result(Ok("stored"), lleft \cup {p})
        BY <1>2, <2>2, <3>2 DEF QdrantUpsertVector, LanceUpsertVector
      <4> HIDE DEF qleft, lleft
      <4>2. s.answer = Ok("stored") /\ s.table = qleft \cup {p} /\ d.table = lleft \cup {p}
        BY <4>1, ResultIs
      <4> QED  BY <4>2, AnswerIs
    <3> QED  BY <3>1, <3>2
  <2> HIDE DEF qleft, lleft
  <2>6. IsFiniteSet(mk \cup {p})
    BY FS_AddElement DEF PointsOK
  <2>7. OnePoint(q) /\ OnePoint(lleft)
    BY <2>1 DEF PointsOK, OnePoint
  <2>8. OnePoint(qleft \cup {p}) /\ OnePoint(lleft \cup {p})
    BY <1>2, <2>1 DEF PointsOK, OnePoint, Owns
  <2>9. /\ s.table \subseteq mk \cup {p} /\ d.table \subseteq mk \cup {p}
        /\ OnePoint(s.table) /\ OnePoint(d.table)
    <3>1. q \subseteq mk /\ l \subseteq mk
      BY DEF PointsOK
    <3>2. qleft \subseteq mk /\ lleft \subseteq mk
      BY <2>1, <3>1
    <3> QED  BY <2>5, <2>7, <2>8, <3>1, <3>2
  <2>10. \A x, y \in mk \cup {p} : x.id = y.id => x = y
    BY DEF HasId, PointsOK
  <2>11. PointsOK(m.table, s.table, d.table)
    BY <2>4, <2>6, <2>9, <2>10 DEF PointsOK
  <2>12. \A r : Owns(n, r) \/ (r \in s.table <=> r \in q)
    BY <1>2, <2>1, <2>5
  <2>13. \A r : Owns(n, r) \/ (r \in d.table <=> r \in l)
    BY <1>2, <2>1, <2>5
  <2> QED  BY <2>5, <2>11, <2>12, <2>13 DEF VectorCallOK
<1> QED
  BY <1>1, <1>2

\* Deleting from all three tables what satisfies one condition.
LEMMA PointsLeft ==
  ASSUME NEW mk, NEW q, NEW l, PointsOK(mk, q, l), NEW X
  PROVE  PointsOK(mk \ X, q \ X, l \ X)
<1>1. IsFiniteSet(mk \ X)
  BY FS_Difference DEF PointsOK
<1>2. OnePoint(q \ X) /\ OnePoint(l \ X)
  BY DEF PointsOK, OnePoint
<1> QED
  BY <1>1, <1>2 DEF PointsOK

\* delete_by_fact_id.
LEMMA DeleteByFactIdCall ==
  ASSUME NEW mk, NEW q, NEW l, PointsOK(mk, q, l), NEW n, NEW f,
         NEW m, m = MockDeleteByFactId(mk, n, f),
         NEW s, s = QdrantDeleteByFactId(q, n, f),
         NEW d, d = LanceDeleteByFactId(l, n, f)
  PROVE  VectorCallOK(n, mk, q, l, m, s, d)
<1> DEFINE X == PointsOf(mk, n, f)
<1>1. /\ X = {p \in mk : p.fact = f /\ Owns(n, p)}
      /\ PointsOf(q, n, f) = q \cap X /\ PointsOf(l, n, f) = l \cap X
  BY DEF PointsOf, PointsOK
<1>2. m.table = mk \ X
  <2>1. CASE X = {}
    <3>1. m = Result(Err("NotFound"), mk)
      BY <2>1 DEF MockDeleteByFactId
    <3> QED  BY <2>1, <3>1, ResultIs
  <2>2. CASE X # {}
    <3>1. m = Result(Ok("deleted"), mk \ X)
      BY <2>2 DEF MockDeleteByFactId
    <3> QED  BY <3>1, ResultIs
  <2> QED  BY <2>1, <2>2
<1>3. s.table = q \ X /\ (s.answer.ok = {} => s.table = q)
  <2>1. CASE PointsOf(q, n, f) = {}
    <3>1. s = Result(Err("NotFound"), q)
      BY <2>1 DEF QdrantDeleteByFactId
    <3>2. s.table = q
      BY <3>1, ResultIs
    <3> HIDE DEF X
    <3> QED  BY <1>1, <2>1, <3>2
  <2>2. CASE PointsOf(q, n, f) # {}
    <3>1. s = Result(Ok("deleted"), q \ PointsOf(q, n, f))
      BY <2>2 DEF QdrantDeleteByFactId
    <3>2. s.table = q \ PointsOf(q, n, f) /\ s.answer = Ok("deleted")
      BY <3>1, ResultIs
    <3>3. s.answer.ok # {}
      BY <3>2, AnswerIs
    <3> HIDE DEF X
    <3>4. q \ PointsOf(q, n, f) = q \ X
      BY <1>1
    <3> QED  BY <3>2, <3>3, <3>4
  <2> QED  BY <2>1, <2>2
<1>4. d.table = l \ X
  <2>1. CASE PointsOf(l, n, f) = {}
    <3>1. d = Result(Err("NotFound"), l)
      BY <2>1 DEF LanceDeleteByFactId
    <3>2. d.table = l
      BY <3>1, ResultIs
    <3> HIDE DEF X
    <3> QED  BY <1>1, <2>1, <3>2
  <2>2. CASE PointsOf(l, n, f) # {}
    <3>1. d = Result(Ok("deleted"), l \ PointsOf(l, n, f))
      BY <2>2 DEF LanceDeleteByFactId
    <3>2. d.table = l \ PointsOf(l, n, f)
      BY <3>1, ResultIs
    <3> HIDE DEF X
    <3> QED  BY <1>1, <3>2
  <2> QED  BY <2>1, <2>2
<1> HIDE DEF X
<1>5. PointsOK(m.table, s.table, d.table)
  <2>1. PointsOK(mk \ X, q \ X, l \ X)
    BY PointsLeft
  <2> QED  BY <1>2, <1>3, <1>4, <2>1
<1>6. \A r : Owns(n, r) \/ (r \in s.table <=> r \in q)
  BY <1>1, <1>3
<1>7. \A r : Owns(n, r) \/ (r \in d.table <=> r \in l)
  BY <1>1, <1>4
<1> QED
  BY <1>3, <1>5, <1>6, <1>7 DEF VectorCallOK

\* delete_by_user.
LEMMA DeleteByUserCall ==
  ASSUME NEW mk, NEW q, NEW l, PointsOK(mk, q, l), NEW n,
         NEW m, m = MockDeleteByUser(mk, n),
         NEW s, s = QdrantDeleteByUser(q, n),
         NEW d, d = LanceDeleteByUser(l, n)
  PROVE  VectorCallOK(n, mk, q, l, m, s, d)
<1> DEFINE X == {p \in mk : Owns(n, p)}
<1>1. Others(mk, n) = mk \ X /\ Others(q, n) = q \ X /\ Others(l, n) = l \ X
  BY DEF Others, PointsOK
<1>2. /\ m = Result(Ok("deleted"), Others(mk, n)) /\ s = Result(Ok("deleted"), Others(q, n))
      /\ d = Result(Ok("deleted"), Others(l, n))
  BY DEF MockDeleteByUser, QdrantDeleteByUser, LanceDeleteByUser
<1>3. X \subseteq {p \in mk : Owns(n, p)}
  OBVIOUS
<1> HIDE DEF X
<1>4. m.table = mk \ X /\ s.table = q \ X /\ d.table = l \ X /\ s.answer = Ok("deleted")
  BY <1>1, <1>2, ResultIs
<1>5. PointsOK(m.table, s.table, d.table)
  <2>1. PointsOK(mk \ X, q \ X, l \ X)
    BY PointsLeft
  <2> QED  BY <1>4, <2>1
<1>6. \A r : Owns(n, r) \/ (r \in s.table <=> r \in q)
  BY <1>3, <1>4
<1>7. \A r : Owns(n, r) \/ (r \in d.table <=> r \in l)
  BY <1>3, <1>4
<1>8. s.answer.ok = {} => s.table = q
  BY <1>4, AnswerIs
<1> QED
  BY <1>5, <1>6, <1>7, <1>8 DEF VectorCallOK

-----------------------------------------------------------------------------
(* Sorting. *)

StrictOrder(S, R) ==
  /\ \A x \in S : <<x, x>> \notin R
  /\ \A x, y \in S : x # y => <<x, y>> \in R \/ <<y, x>> \in R
  /\ \A x, y, z \in S : <<x, y>> \in R /\ <<y, z>> \in R => <<x, z>> \in R

\* A proper part of a finite set is smaller.
LEMMA PartSmaller ==
  ASSUME NEW S, IsFiniteSet(S), NEW T, T \subseteq S, T # S
  PROVE  IsFiniteSet(T) /\ Cardinality(T) \in Nat /\ Cardinality(T) < Cardinality(S)
<1>1. IsFiniteSet(T) /\ Cardinality(T) <= Cardinality(S) /\ Cardinality(T) # Cardinality(S)
  BY FS_Subset
<1>2. Cardinality(T) \in Nat /\ Cardinality(S) \in Nat
  BY <1>1, FS_CardinalityType
<1> QED
  BY <1>1, <1>2

\* Who comes before another has fewer ahead.
LEMMA AheadLess ==
  ASSUME NEW S, IsFiniteSet(S), NEW R, StrictOrder(S, R),
         NEW x \in S, NEW y \in S, <<x, y>> \in R
  PROVE  Cardinality(Ahead(S, R, x)) < Cardinality(Ahead(S, R, y))
<1>1. Ahead(S, R, x) \subseteq Ahead(S, R, y) /\ Ahead(S, R, x) # Ahead(S, R, y)
  BY DEF Ahead, StrictOrder
<1>2. IsFiniteSet(Ahead(S, R, y))
  BY FS_Subset DEF Ahead
<1> QED
  BY <1>1, <1>2, PartSmaller

\* The number of those ahead of a member.
LEMMA AheadCount ==
  ASSUME NEW S, IsFiniteSet(S), NEW R, StrictOrder(S, R), NEW x \in S
  PROVE  Cardinality(Ahead(S, R, x)) \in 0 .. Cardinality(S) - 1
<1>1. Ahead(S, R, x) \subseteq S /\ Ahead(S, R, x) # S
  BY DEF Ahead, StrictOrder
<1> QED
  BY <1>1, PartSmaller, FS_CardinalityType

\* Every place has its member.
LEMMA AheadOnto ==
  ASSUME NEW S, IsFiniteSet(S), NEW R, StrictOrder(S, R),
         NEW i \in 0 .. Cardinality(S) - 1
  PROVE  \E x \in S : Cardinality(Ahead(S, R, x)) = i
<1> DEFINE T == 0 .. Cardinality(S) - 1
           g == [x \in S |-> Cardinality(Ahead(S, R, x))]
<1>1. Cardinality(S) \in Nat
  BY FS_CardinalityType
<1>2. IsFiniteSet(T) /\ Cardinality(T) = Cardinality(S)
  BY <1>1, FS_Interval
<1>3. g \in [S -> T]
  BY AheadCount
<1>4. \A x, y \in S : x # y => g[x] # g[y]
  <2> SUFFICES ASSUME NEW x \in S, NEW y \in S, x # y
               PROVE  g[x] # g[y]
    OBVIOUS
  <2>1. g[x] \in T /\ g[y] \in T
    BY <1>3
  <2>2. g[x] < g[y] \/ g[y] < g[x]
    BY AheadLess DEF StrictOrder
  <2> QED  BY <2>1, <2>2, <1>1
<1>5. g \in Injection(S, T)
  BY <1>3, <1>4 DEF Injection, IsInjective
<1> HIDE DEF g, T
<1>6. g \in Surjection(S, T)
  BY <1>2, <1>5, FS_Injection
<1>7. \A t \in T : \E x \in S : g[x] = t
  BY <1>6 DEF Surjection
<1> QED
  BY <1>7 DEF g, T

\* What Sorted promises: every member once, in the order.
LEMMA SortedIs ==
  ASSUME NEW S, IsFiniteSet(S), NEW R, StrictOrder(S, R)
  PROVE  /\ Cardinality(S) \in Nat
         /\ Sorted(S, R) \in Seq(S)
         /\ Len(Sorted(S, R)) = Cardinality(S)
         /\ DOMAIN Sorted(S, R) = 1 .. Cardinality(S)
         /\ \A i \in 1 .. Cardinality(S) : Sorted(S, R)[i] \in S
         /\ \A x \in S : \E i \in 1 .. Cardinality(S) : Sorted(S, R)[i] = x
         /\ \A i, j \in 1 .. Cardinality(S) :
              i < j => <<Sorted(S, R)[i], Sorted(S, R)[j]>> \in R
<1> DEFINE s == Sorted(S, R)
           n == Cardinality(S)
           c(x) == Cardinality(Ahead(S, R, x))
<1>1. n \in Nat
  BY FS_CardinalityType
<1>2. ASSUME NEW i \in 1 .. n
      PROVE  s[i] \in S /\ c(s[i]) = i - 1
  <2>1. i - 1 \in 0 .. n - 1
    BY <1>1
  <2>2. \E x \in S : c(x) = i - 1
    BY <2>1, AheadOnto
  <2>3. s[i] = CHOOSE x \in S : c(x) = i - 1
    BY DEF Sorted
  <2> QED
    BY <2>2, <2>3
<1>3. s = [i \in 1 .. n |-> s[i]]
  BY DEF Sorted
<1>4. s \in Seq(S) /\ Len(s) = n /\ DOMAIN s = 1 .. n
  <2> HIDE DEF s
  <2> QED  BY <1>1, <1>2, <1>3
<1>5. ASSUME NEW x \in S
      PROVE  \E i \in 1 .. n : s[i] = x
  <2>1. c(x) \in 0 .. n - 1
    BY AheadCount
  <2>2. c(x) + 1 \in 1 .. n
    BY <1>1, <2>1
  <2>3. s[c(x) + 1] \in S /\ c(s[c(x) + 1]) = c(x)
    BY <1>2, <2>1, <2>2
  <2>4. s[c(x) + 1] = x
    <3> DEFINE y == s[c(x) + 1]
    <3>1. y \in S /\ c(y) = c(x)
      BY <2>3
    <3> HIDE DEF y
    <3>2. y # x => c(x) < c(y) \/ c(y) < c(x)
      BY <3>1, AheadLess DEF StrictOrder
    <3>3. y = x
      BY <3>1, <3>2, <2>1
    <3> QED  BY <3>3 DEF y
  <2> QED  BY <2>2, <2>4
<1>6. ASSUME NEW i \in 1 .. n, NEW j \in 1 .. n, i < j
      PROVE  <<s[i], s[j]>> \in R
  <2>1. s[i] \in S /\ s[j] \in S /\ c(s[i]) = i - 1 /\ c(s[j]) = j - 1
    BY <1>2
  <2> HIDE DEF s
  <2>2. s[i] # s[j]
    BY <1>6, <2>1
  <2>3. CASE <<s[j], s[i]>> \in R
    <3>1. c(s[j]) < c(s[i])
      BY <2>1, <2>3, AheadLess
    <3> QED  BY <1>6, <2>1, <3>1
  <2> QED  BY <2>1, <2>2, <2>3 DEF StrictOrder
<1> HIDE DEF s
<1>7. QED
  BY <1>1, <1>2, <1>4, <1>5, <1>6 DEF s

\* What LIMIT n keeps of a sorted table: everything, or n rows that come before
\* all others.
LEMMA FirstIs ==
  ASSUME NEW S, IsFiniteSet(S), NEW R, StrictOrder(S, R), NEW n \in Nat,
         NEW s, s = AtMost(Sorted(S, R), n)
  PROVE  /\ s \in Seq(S) /\ Len(s) \in Nat /\ Len(s) <= n /\ Len(s) <= Cardinality(S)
         /\ DOMAIN s = 1 .. Len(s)
         /\ Len(s) = n \/ Len(s) = Cardinality(S)
         /\ \A i \in 1 .. Len(s) : s[i] \in S
         /\ \A i, j \in 1 .. Len(s) : i < j => <<s[i], s[j]>> \in R
         /\ \A x \in S : \/ \E i \in 1 .. Len(s) : s[i] = x
                         \/ Len(s) = n /\ \A i \in 1 .. Len(s) : <<s[i], x>> \in R
<1> DEFINE a == Sorted(S, R)
           c == Cardinality(S)
           k == IF Len(a) < n THEN Len(a) ELSE n
<1>1. /\ c \in Nat /\ a \in Seq(S) /\ Len(a) = c
      /\ \A i \in 1 .. c : a[i] \in S
      /\ \A x \in S : \E i \in 1 .. c : a[i] = x
      /\ \A i, j \in 1 .. c : i < j => <<a[i], a[j]>> \in R
  BY SortedIs
<1>2. s = SubSeq(a, 1, k)
  BY DEF AtMost
<1> HIDE DEF a, c
<1>3. k \in Nat /\ k <= n /\ k <= c /\ (k = n \/ k = c)
  BY <1>1
<1>4. s \in Seq(S) /\ Len(s) = k /\ \A i \in 1 .. k : s[i] = a[i]
  <2>1. \A i \in 1 .. k : a[i] \in S
    BY <1>1, <1>3
  <2> HIDE DEF k
  <2> QED  BY <1>1, <1>2, <1>3, <2>1, SubSeqProperties
<1> HIDE DEF k
<1>5. DOMAIN s = 1 .. k
  BY <1>4
<1>6. \A i \in 1 .. k : s[i] \in S
  BY <1>1, <1>3, <1>4
<1>7. \A i, j \in 1 .. k : i < j => <<s[i], s[j]>> \in R
  BY <1>1, <1>3, <1>4
<1>8. ASSUME NEW x \in S
      PROVE  \/ \E i \in 1 .. k : s[i] = x
             \/ k = n /\ \A i \in 1 .. k : <<s[i], x>> \in R
  <2>1. PICK j \in 1 .. c : a[j] = x
    BY <1>1
  <2>2. CASE j <= k
    <3>1. j \in 1 .. k
      BY <1>1, <1>3, <2>2
    <3> QED  BY <1>4, <2>1, <3>1
  <2>3. CASE j > k
    <3>1. k = n
      BY <1>1, <1>3, <2>3
    <3>2. \A i \in 1 .. k : i \in 1 .. c /\ i < j
      BY <1>1, <1>3, <2>3
    <3> QED  BY <1>1, <1>4, <2>1, <3>1, <3>2
  <2> QED  BY <1>1, <1>3, <2>2, <2>3
<1> QED
  BY <1>1, <1>3, <1>4, <1>5, <1>6, <1>7, <1>8 DEF c

\* Rows that can be listed: each has a sort value, and an id of its own.
Ranked(S) ==
  /\ IsFiniteSet(S)
  /\ \A x \in S : x.time \in Int /\ x.id \in Int
  /\ \A x, y \in S : x.id = y.id => x = y

\* ORDER BY time DESC, id DESC is an order on them.
LEMMA NewerOrder ==
  ASSUME NEW S, Ranked(S)
  PROVE  StrictOrder(S, {p \in S \X S : NewerRow(p[1], p[2])})
<1> DEFINE R == {p \in S \X S : NewerRow(p[1], p[2])}
<1>1. \A x, y \in S : <<x, y>> \in R <=> NewerRow(x, y)
  OBVIOUS
<1>2. \A x \in S : ~NewerRow(x, x)
  BY DEF Ranked, NewerRow
<1>3. \A x, y \in S : x # y => NewerRow(x, y) \/ NewerRow(y, x)
  BY DEF Ranked, NewerRow
<1>4. \A x, y, z \in S : NewerRow(x, y) /\ NewerRow(y, z) => NewerRow(x, z)
  BY DEF Ranked, NewerRow
<1> HIDE DEF R
<1>5. StrictOrder(S, R)
  BY <1>1, <1>2, <1>3, <1>4 DEF StrictOrder
<1> QED
  BY <1>5 DEF R

\* The newest n rows.
LEMMA NewestIs ==
  ASSUME NEW S, Ranked(S), NEW n \in Nat, NEW s, s = Newest(S, n)
  PROVE  /\ s \in Seq(S) /\ Len(s) \in Nat /\ Len(s) <= n /\ Len(s) <= Cardinality(S)
         /\ DOMAIN s = 1 .. Len(s)
         /\ Len(s) = n \/ Len(s) = Cardinality(S)
         /\ \A i \in 1 .. Len(s) : s[i] \in S
         /\ \A i, j \in 1 .. Len(s) : i < j => NewerRow(s[i], s[j])
         /\ \A x \in S : \/ \E i \in 1 .. Len(s) : s[i] = x
                         \/ Len(s) = n /\ \A i \in 1 .. Len(s) : NewerRow(s[i], x)
<1> DEFINE R == {p \in S \X S : NewerRow(p[1], p[2])}
<1>1. \A x, y : <<x, y>> \in R => NewerRow(x, y)
  OBVIOUS
<1>2. StrictOrder(S, R) /\ IsFiniteSet(S)
  BY NewerOrder DEF Ranked
<1>3. s = AtMost(Sorted(S, R), n)
  BY DEF Newest, NewestFirst
<1> HIDE DEF R
<1>4. /\ s \in Seq(S) /\ Len(s) \in Nat /\ Len(s) <= n /\ Len(s) <= Cardinality(S)
      /\ DOMAIN s = 1 .. Len(s)
      /\ Len(s) = n \/ Len(s) = Cardinality(S)
      /\ \A i \in 1 .. Len(s) : s[i] \in S
      /\ \A i, j \in 1 .. Len(s) : i < j => <<s[i], s[j]>> \in R
      /\ \A x \in S : \/ \E i \in 1 .. Len(s) : s[i] = x
                      \/ Len(s) = n /\ \A i \in 1 .. Len(s) : <<s[i], x>> \in R
  BY <1>2, <1>3, FirstIs
<1> QED
  BY <1>1, <1>4

\* A page of the rows of P: all of them, or those that the cursor is not past.
LEMMA PageIs ==
  ASSUME NEW P, Ranked(P), NEW l \in Nat \ {0},
         NEW page, page = BuildPage(Newest(P, l + 1), l)
  PROVE  /\ Range(page.items) \subseteq P
         /\ page.next = NoCursor => Range(page.items) = P
         /\ page.next # NoCursor =>
              /\ page.next \in Int \X Int
              /\ \A x \in P : x \in Range(page.items) <=> ~PushSqliteCursor(x, page.next)
         /\ Cardinality(P) <= l => page.next = NoCursor
<1> DEFINE s == Newest(P, l + 1)
<1>1. /\ s \in Seq(P) /\ Len(s) \in Nat /\ Len(s) <= l + 1 /\ Len(s) <= Cardinality(P)
      /\ DOMAIN s = 1 .. Len(s)
      /\ Len(s) = l + 1 \/ Len(s) = Cardinality(P)
      /\ \A i \in 1 .. Len(s) : s[i] \in P
      /\ \A i, j \in 1 .. Len(s) : i < j => NewerRow(s[i], s[j])
      /\ \A x \in P : \/ \E i \in 1 .. Len(s) : s[i] = x
                      \/ Len(s) = l + 1 /\ \A i \in 1 .. Len(s) : NewerRow(s[i], x)
  <2>1. l + 1 \in Nat
    OBVIOUS
  <2> QED  BY <2>1, NewestIs
<1>2. page = BuildPage(s, l)
  OBVIOUS
<1>3. Cardinality(P) \in Nat
  BY FS_CardinalityType DEF Ranked
<1> DEFINE c == Len(s)
<1>a. l \in Nat /\ l >= 1 /\ c \in Nat /\ c <= l + 1
  BY <1>1
<1> HIDE DEF s
<1>4. CASE Len(s) <= l
  <2>a. ~(Len(s) > l)
    BY <1>a, <1>4
  <2>1. page.items = s /\ page.next = NoCursor
    BY ONLY <1>2, <2>a DEF BuildPage
  <2>2. Len(s) # l + 1
    BY <1>a, <1>4
  <2>3. \A x \in P : \E i \in DOMAIN s : s[i] = x
    BY <1>1, <2>2
  <2>4. \A i \in DOMAIN s : s[i] \in P
    BY <1>1
  <2>5. Range(s) = P
    BY <2>3, <2>4 DEF Range
  <2> QED  BY <2>1, <2>5
<1>5. CASE Len(s) > l
  <2>1. Len(s) = l + 1
    BY <1>a, <1>5
  <2>2. page.items = SubSeq(s, 1, l) /\ page.next = <<s[l].time, s[l].id>>
    BY <1>2, <1>5 DEF BuildPage, CursorOf
  <2>3. Len(SubSeq(s, 1, l)) = l /\ \A i \in 1 .. l : SubSeq(s, 1, l)[i] = s[i]
    BY <1>1, <2>1, SubSeqProperties
  <2>4. DOMAIN SubSeq(s, 1, l) = 1 .. l
    BY <1>1, <2>1, <2>3, SubSeqProperties
  <2>5. Range(page.items) = {s[i] : i \in 1 .. l}
    BY <2>2, <2>3, <2>4 DEF Range
  <2>6. s[l] \in P /\ s[l].time \in Int /\ s[l].id \in Int
    BY <1>1, <2>1 DEF Ranked
  <2>7. page.next # NoCursor /\ page.next \in Int \X Int /\ page.next[1] = s[l].time /\ page.next[2] = s[l].id
    <3>1. \A a, b \in Int : <<a, b>> # <<>> /\ <<a, b>> \in Int \X Int /\ <<a, b>>[1] = a /\ <<a, b>>[2] = b
      OBVIOUS
    <3> DEFINE a == s[l].time
               b == s[l].id
               x == page.next
    <3>2. a \in Int /\ b \in Int /\ x = <<a, b>>
      BY <2>2, <2>6
    <3> HIDE DEF a, b, x
    <3>3. x # NoCursor /\ x \in Int \X Int /\ x[1] = a /\ x[2] = b
      BY <3>1, <3>2 DEF NoCursor
    <3> QED  BY <3>3 DEF a, b, x
  <2>8. \A x \in P : PushSqliteCursor(x, page.next) <=> NewerRow(s[l], x)
    BY <2>6, <2>7 DEF PushSqliteCursor, NewerRow, Ranked
  <2>9. ASSUME NEW i \in 1 .. l
        PROVE  s[i] \in P /\ ~NewerRow(s[l], s[i])
    <3>1. s[i] \in P /\ s[i].time \in Int /\ s[i].id \in Int
      BY <1>1, <2>1 DEF Ranked
    <3>2. i = l \/ NewerRow(s[i], s[l])
      BY <1>1, <2>1
    <3> QED  BY <2>6, <3>1, <3>2 DEF NewerRow
  <2>10. ASSUME NEW x \in P, x \notin {s[i] : i \in 1 .. l}
         PROVE  NewerRow(s[l], x)
    <3>1. CASE \E i \in 1 .. Len(s) : s[i] = x
      <4>1. x = s[l + 1]
        BY <2>1, <2>10, <3>1
      <4> QED  BY <1>1, <2>1, <4>1
    <3>2. CASE \A i \in 1 .. Len(s) : NewerRow(s[i], x)
      BY <2>1, <3>2
    <3> QED  BY <1>1, <3>1, <3>2
  <2> QED
    BY <1>1, <1>3, <2>1, <2>5, <2>7, <2>8, <2>9, <2>10
<1> QED
  BY <1>a, <1>4, <1>5

-----------------------------------------------------------------------------
(* The lists. *)

\* The rows a list shows to a tenant.
ListRows(list, n, t) ==
  CASE list = "memories"   -> {f \in Active(t) : Owns(n, f)}
    [] list = "users"      -> UserSummaries(Active(t), n.org)
    [] list = "events"     -> {e \in t : Owns(n, e)}
    [] list = "org_events" -> {e \in t : e.org = n.org}
    [] list = "runs"       -> t
    [] OTHER               -> {r \in t : r.org = n.org}

\* The page of a list after a cursor.
PageAfter(list, n, l, c, t) ==
  BuildPage(Newest({x \in ListRows(list, n, t) : PushSqliteCursor(x, c)}, l + 1), l)

\* The parts of a query.
LEMMA QueryIs ==
  ASSUME NEW n, NEW l, NEW c, NEW q, q = Query(n, l, c)
  PROVE  /\ q.tenant = n /\ q.org = n.org /\ q.limit = l /\ q.cursor = c
         /\ q.user = {} /\ q.types = {} /\ q.text = {} /\ q.fact = {} /\ q.operation = {}
         /\ q.provider = {} /\ q.kind = {} /\ q.status = {} /\ q.after = {} /\ q.before = {}
         /\ q.deleted = FALSE /\ q.revoked = TRUE
  BY DEF Query

\* A page of memories.
LEMMA Page_memories ==
  ASSUME NEW n, NEW l, NEW c, NEW t
  PROVE  Page("memories", Query(n, l, c), t) = PageAfter("memories", n, l, c, t)
<1> DEFINE q == Query(n, l, c)
           P == {x \in ListRows("memories", n, t) : PushSqliteCursor(x, c)}
<1>1. Page("memories", q, t) = ListMemories(t, q)
  BY DEF Page
<1>2. /\ q.tenant = n /\ q.org = n.org /\ q.limit = l /\ q.cursor = c
      /\ q.user = {} /\ q.types = {} /\ q.text = {} /\ q.fact = {} /\ q.operation = {}
      /\ q.provider = {} /\ q.kind = {} /\ q.status = {} /\ q.after = {} /\ q.before = {}
      /\ q.deleted = FALSE /\ q.revoked = TRUE
  BY QueryIs
<1> HIDE DEF q
<1> DEFINE Q == {f \in {r.fact : r \in {s \in t : q.deleted \/ ~s.deleted}} :
               /\ Owns(q.tenant, f)
               /\ \A types \in q.types : types = {} \/ f.type \in types
               /\ \A text \in q.text : SqliteLike(f.text, text)
               /\ PushSqliteCursor(f, q.cursor)}
<1>3. Q = P
  BY <1>2 DEF ListRows, Active
<1>4. SqliteSearchFacts(t, q) = Ok(Newest(Q, q.limit + 1))
  BY DEF SqliteSearchFacts, PageFetchLimit
<1> HIDE DEF P, Q
<1>5. ListMemories(t, q) = BuildPage(Newest(Q, q.limit + 1), q.limit)
  BY <1>4, AnswerIs DEF ListMemories
<1>6. Page("memories", q, t) = BuildPage(Newest(P, l + 1), l)
  BY <1>1, <1>2, <1>3, <1>5
<1> QED
  BY <1>6 DEF PageAfter, P, q

\* A page of users.
LEMMA Page_users ==
  ASSUME NEW n, NEW l, NEW c, NEW t
  PROVE  Page("users", Query(n, l, c), t) = PageAfter("users", n, l, c, t)
<1> DEFINE q == Query(n, l, c)
           P == {x \in ListRows("users", n, t) : PushSqliteCursor(x, c)}
<1>1. Page("users", q, t) = ListOrgUsers(t, q)
  BY DEF Page
<1>2. /\ q.tenant = n /\ q.org = n.org /\ q.limit = l /\ q.cursor = c
      /\ q.user = {} /\ q.types = {} /\ q.text = {} /\ q.fact = {} /\ q.operation = {}
      /\ q.provider = {} /\ q.kind = {} /\ q.status = {} /\ q.after = {} /\ q.before = {}
      /\ q.deleted = FALSE /\ q.revoked = TRUE
  BY QueryIs
<1> HIDE DEF q
<1> DEFINE Q == {u \in UserSummaries(Active(t), q.org) : PushSqliteCursor(u, q.cursor)}
<1>3. Q = P
  BY <1>2 DEF ListRows
<1>4. SqliteListUsersByOrg(t, q) = Ok(Newest(Q, q.limit + 1))
  BY DEF SqliteListUsersByOrg, PageFetchLimit
<1> HIDE DEF P, Q
<1>5. ListOrgUsers(t, q) = BuildPage(Newest(Q, q.limit + 1), q.limit)
  BY <1>4, AnswerIs DEF ListOrgUsers
<1>6. Page("users", q, t) = BuildPage(Newest(P, l + 1), l)
  BY <1>1, <1>2, <1>3, <1>5
<1> QED
  BY <1>6 DEF PageAfter, P, q

\* A page of events.
LEMMA Page_events ==
  ASSUME NEW n, NEW l, NEW c, NEW t
  PROVE  Page("events", Query(n, l, c), t) = PageAfter("events", n, l, c, t)
<1> DEFINE q == Query(n, l, c)
           P == {x \in ListRows("events", n, t) : PushSqliteCursor(x, c)}
<1>1. Page("events", q, t) = ListMemoryEvents(t, q)
  BY DEF Page
<1>2. /\ q.tenant = n /\ q.org = n.org /\ q.limit = l /\ q.cursor = c
      /\ q.user = {} /\ q.types = {} /\ q.text = {} /\ q.fact = {} /\ q.operation = {}
      /\ q.provider = {} /\ q.kind = {} /\ q.status = {} /\ q.after = {} /\ q.before = {}
      /\ q.deleted = FALSE /\ q.revoked = TRUE
  BY QueryIs
<1> HIDE DEF q
<1> DEFINE Q == {e \in t : /\ Owns(q.tenant, e)
                           /\ \A f \in q.fact : e.fact = f
                           /\ \A o \in q.operation : e.operation = o
                           /\ InWindow(e, q)
                           /\ \A x \in q.text : SqliteLike(e.text, x)
                           /\ PushSqliteCursor(e, q.cursor)}
<1>3. Q = P
  BY <1>2 DEF ListRows, InWindow
<1>4. SqliteListEvents(t, q) = Ok(Newest(Q, q.limit + 1))
  BY DEF SqliteListEvents, PageFetchLimit
<1> HIDE DEF P, Q
<1>5. ListMemoryEvents(t, q) = BuildPage(Newest(Q, q.limit + 1), q.limit)
  BY <1>4, AnswerIs DEF ListMemoryEvents
<1>6. Page("events", q, t) = BuildPage(Newest(P, l + 1), l)
  BY <1>1, <1>2, <1>3, <1>5
<1> QED
  BY <1>6 DEF PageAfter, P, q

\* A page of org_events.
LEMMA Page_org_events ==
  ASSUME NEW n, NEW l, NEW c, NEW t
  PROVE  Page("org_events", Query(n, l, c), t) = PageAfter("org_events", n, l, c, t)
<1> DEFINE q == Query(n, l, c)
           P == {x \in ListRows("org_events", n, t) : PushSqliteCursor(x, c)}
<1>1. Page("org_events", q, t) = SearchOrgMemoryEvents(t, q)
  BY DEF Page
<1>2. /\ q.tenant = n /\ q.org = n.org /\ q.limit = l /\ q.cursor = c
      /\ q.user = {} /\ q.types = {} /\ q.text = {} /\ q.fact = {} /\ q.operation = {}
      /\ q.provider = {} /\ q.kind = {} /\ q.status = {} /\ q.after = {} /\ q.before = {}
      /\ q.deleted = FALSE /\ q.revoked = TRUE
  BY QueryIs
<1> HIDE DEF q
<1> DEFINE Q == {e \in OrgEvents(t, q, SqliteLike) : PushSqliteCursor(e, q.cursor)}
<1>3. Q = P
  BY <1>2 DEF ListRows, InWindow, OrgEvents
<1>4. SqliteListEventsByOrg(t, q) = Ok(Newest(Q, q.limit + 1))
  BY DEF SqliteListEventsByOrg, PageFetchLimit
<1> HIDE DEF P, Q
<1>5. SearchOrgMemoryEvents(t, q) = BuildPage(Newest(Q, q.limit + 1), q.limit)
  BY <1>4, AnswerIs DEF SearchOrgMemoryEvents
<1>6. Page("org_events", q, t) = BuildPage(Newest(P, l + 1), l)
  BY <1>1, <1>2, <1>3, <1>5
<1> QED
  BY <1>6 DEF PageAfter, P, q

\* A page of keys.
LEMMA Page_keys ==
  ASSUME NEW n, NEW l, NEW c, NEW t
  PROVE  Page("keys", Query(n, l, c), t) = PageAfter("keys", n, l, c, t)
<1> DEFINE q == Query(n, l, c)
           P == {x \in ListRows("keys", n, t) : PushSqliteCursor(x, c)}
<1>1. Page("keys", q, t) = ListApiKeys(t, q)
  BY DEF Page
<1>2. /\ q.tenant = n /\ q.org = n.org /\ q.limit = l /\ q.cursor = c
      /\ q.user = {} /\ q.types = {} /\ q.text = {} /\ q.fact = {} /\ q.operation = {}
      /\ q.provider = {} /\ q.kind = {} /\ q.status = {} /\ q.after = {} /\ q.before = {}
      /\ q.deleted = FALSE /\ q.revoked = TRUE
  BY QueryIs
<1> HIDE DEF q
<1> DEFINE Q == {k \in t : /\ k.org = q.org
                           /\ q.revoked \/ ~k.revoked
                           /\ PushSqliteCursor(k, q.cursor)}
<1>3. Q = P
  BY <1>2 DEF ListRows
<1>4. SqliteListApiKeys(t, q) = Ok(Newest(Q, q.limit + 1))
  BY DEF SqliteListApiKeys, PageFetchLimit
<1> HIDE DEF P, Q
<1>5. ListApiKeys(t, q) = BuildPage(Newest(Q, q.limit + 1), q.limit)
  BY <1>4, AnswerIs DEF ListApiKeys
<1>6. Page("keys", q, t) = BuildPage(Newest(P, l + 1), l)
  BY <1>1, <1>2, <1>3, <1>5
<1> QED
  BY <1>6 DEF PageAfter, P, q

\* A page of usage.
LEMMA Page_usage ==
  ASSUME NEW n, NEW l, NEW c, NEW t
  PROVE  Page("usage", Query(n, l, c), t) = PageAfter("usage", n, l, c, t)
<1> DEFINE q == Query(n, l, c)
           P == {x \in ListRows("usage", n, t) : PushSqliteCursor(x, c)}
<1>1. Page("usage", q, t) = GetProviderUsage(t, q)
  BY DEF Page
<1>2. /\ q.tenant = n /\ q.org = n.org /\ q.limit = l /\ q.cursor = c
      /\ q.user = {} /\ q.types = {} /\ q.text = {} /\ q.fact = {} /\ q.operation = {}
      /\ q.provider = {} /\ q.kind = {} /\ q.status = {} /\ q.after = {} /\ q.before = {}
      /\ q.deleted = FALSE /\ q.revoked = TRUE
  BY QueryIs
<1> HIDE DEF q
<1> DEFINE Q == {u \in t : SqliteUsageFilters(u, q) /\ PushSqliteCursor(u, q.cursor)}
<1>3. Q = P
  BY <1>2 DEF ListRows, SqliteUsageFilters, InWindow
<1>4. SqliteQueryUsage(t, q) = Ok([page |-> BuildPage(Newest(Q, q.limit + 1), q.limit), summary |-> SqliteQuerySummary(t, q)])
  BY DEF SqliteQueryUsage, PageFetchLimit
<1> HIDE DEF P, Q
<1>5. GetProviderUsage(t, q) = BuildPage(Newest(Q, q.limit + 1), q.limit)
  BY <1>4, AnswerIs DEF GetProviderUsage
<1>6. Page("usage", q, t) = BuildPage(Newest(P, l + 1), l)
  BY <1>1, <1>2, <1>3, <1>5
<1> QED
  BY <1>6 DEF PageAfter, P, q

\* A page of runs.
LEMMA Page_runs ==
  ASSUME NEW n, NEW l, NEW c, NEW t
  PROVE  Page("runs", Query(n, l, c), t) = PageAfter("runs", n, l, c, t)
<1> DEFINE q == Query(n, l, c)
           P == {x \in ListRows("runs", n, t) : PushSqliteCursor(x, c)}
<1>1. Page("runs", q, t) = GetJobRuns(t, q)
  BY DEF Page
<1>2. /\ q.tenant = n /\ q.org = n.org /\ q.limit = l /\ q.cursor = c
      /\ q.user = {} /\ q.types = {} /\ q.text = {} /\ q.fact = {} /\ q.operation = {}
      /\ q.provider = {} /\ q.kind = {} /\ q.status = {} /\ q.after = {} /\ q.before = {}
      /\ q.deleted = FALSE /\ q.revoked = TRUE
  BY QueryIs
<1> HIDE DEF q
<1> DEFINE Q == {r \in t : SqliteRunFilters(r, q) /\ PushSqliteCursor(r, q.cursor)}
<1>3. Q = P
  BY <1>2 DEF ListRows, SqliteRunFilters, InWindow
<1>4. SqliteQueryRuns(t, q) = Ok(BuildPage(Newest(Q, q.limit + 1), q.limit))
  BY DEF SqliteQueryRuns, PageFetchLimit
<1> HIDE DEF P, Q
<1>5. GetJobRuns(t, q) = BuildPage(Newest(Q, q.limit + 1), q.limit)
  BY <1>4, AnswerIs DEF GetJobRuns
<1>6. Page("runs", q, t) = BuildPage(Newest(P, l + 1), l)
  BY <1>1, <1>2, <1>3, <1>5
<1> QED
  BY <1>6 DEF PageAfter, P, q

\* A page of snapshots.
LEMMA Page_snapshots ==
  ASSUME NEW n, NEW l, NEW c, NEW t
  PROVE  Page("snapshots", Query(n, l, c), t) = PageAfter("snapshots", n, l, c, t)
<1> DEFINE q == Query(n, l, c)
           P == {x \in ListRows("snapshots", n, t) : PushSqliteCursor(x, c)}
<1>1. Page("snapshots", q, t) = QueryMemoryUsageSnapshots(t, q)
  BY DEF Page
<1>2. /\ q.tenant = n /\ q.org = n.org /\ q.limit = l /\ q.cursor = c
      /\ q.user = {} /\ q.types = {} /\ q.text = {} /\ q.fact = {} /\ q.operation = {}
      /\ q.provider = {} /\ q.kind = {} /\ q.status = {} /\ q.after = {} /\ q.before = {}
      /\ q.deleted = FALSE /\ q.revoked = TRUE
  BY QueryIs
<1> HIDE DEF q
<1> DEFINE Q == {s \in t : /\ s.org = q.org
                           /\ InWindow(s, q)
                           /\ PushSqliteCursor(s, q.cursor)}
<1>3. Q = P
  BY <1>2 DEF ListRows, InWindow
<1>4. SqliteQuerySnapshots(t, q) = Ok(BuildPage(Newest(Q, q.limit + 1), q.limit))
  BY DEF SqliteQuerySnapshots, PageFetchLimit
<1> HIDE DEF P, Q
<1>5. QueryMemoryUsageSnapshots(t, q) = BuildPage(Newest(Q, q.limit + 1), q.limit)
  BY <1>4, AnswerIs DEF QueryMemoryUsageSnapshots
<1>6. Page("snapshots", q, t) = BuildPage(Newest(P, l + 1), l)
  BY <1>1, <1>2, <1>3, <1>5
<1> QED
  BY <1>6 DEF PageAfter, P, q

\* A finite set of numbers has a greatest.
LEMMA GreatestIs ==
  ASSUME NEW S, IsFiniteSet(S), S \subseteq Int, S # {}
  PROVE  \E m \in S : \A x \in S : x <= m
<1> DEFINE R == {p \in S \X S : p[1] > p[2]}
           a == Sorted(S, R)
<1>1. \A x, y \in S : <<x, y>> \in R <=> x > y
  OBVIOUS
<1> HIDE DEF R
<1>2. StrictOrder(S, R)
  BY <1>1 DEF StrictOrder
<1>3. /\ Cardinality(S) \in Nat
      /\ \A i \in 1 .. Cardinality(S) : a[i] \in S
      /\ \A x \in S : \E i \in 1 .. Cardinality(S) : a[i] = x
      /\ \A i, j \in 1 .. Cardinality(S) : i < j => <<a[i], a[j]>> \in R
  BY <1>2, SortedIs
<1>4. Cardinality(S) # 0
  BY FS_EmptySet
<1>5. 1 \in 1 .. Cardinality(S)
  BY <1>3, <1>4
<1> HIDE DEF a
<1>6. ASSUME NEW x \in S
      PROVE  x <= a[1]
  <2>1. PICK i \in 1 .. Cardinality(S) : a[i] = x
    BY <1>3
  <2>2. i = 1 \/ <<a[1], a[i]>> \in R
    BY <1>3, <1>5
  <2>3. a[1] \in S /\ a[1] \in Int /\ x \in Int
    BY <1>3, <1>5
  <2>4. x = a[1] \/ a[1] > x
    BY <1>1, <2>1, <2>2, <2>3
  <2> QED  BY <2>3, <2>4
<1> QED
  BY <1>3, <1>5, <1>6

\* The facts of a user, and the row that list_users makes of them.
FactsOf(F, o, u) == {f \in {g \in F : g.org = o} : f.user = u}

UserRow(F, o, u) ==
  [id    |-> u,
   count |-> Cardinality(FactsOf(F, o, u)),
   time  |-> CHOOSE m \in {f.time : f \in FactsOf(F, o, u)} : \A f \in FactsOf(F, o, u) : f.time <= m]

\* The list of users has a row for each user of the organisation.
LEMMA SummariesAre ==
  ASSUME NEW F, IsFiniteSet(F), F \subseteq FactRow, NEW o
  PROVE  /\ UserSummaries(F, o) = {UserRow(F, o, u) : u \in {f.user : f \in {g \in F : g.org = o}}}
         /\ \A f \in F : UserRow(F, o, f.user).id = f.user
         /\ \A f \in F : f.org = o => UserRow(F, o, f.user).time \in Int
         /\ Ranked(UserSummaries(F, o))
         /\ Cardinality(UserSummaries(F, o)) \in Nat
         /\ Cardinality(UserSummaries(F, o)) = Cardinality({f.user : f \in {g \in F : g.org = o}})
         /\ Cardinality(UserSummaries(F, o)) <= Cardinality(F)
         /\ Cardinality(F) \in Nat
<1> DEFINE mine == {g \in F : g.org = o}
           users == {f.user : f \in mine}
           U == {UserRow(F, o, u) : u \in users}
<1>2. UserSummaries(F, o) = U
  BY DEF UserSummaries, UserRow, FactsOf
<1>3. \A u : UserRow(F, o, u).id = u
  BY DEF UserRow
<1>4. ASSUME NEW f \in F, f.org = o
      PROVE  UserRow(F, o, f.user).time \in Int
  <2> DEFINE S == FactsOf(F, o, f.user)
             T == {g.time : g \in S}
             h == [g \in S |-> g.time]
  <2>1. S \subseteq F /\ f \in S
    BY <1>4 DEF FactsOf
  <2>2. IsFiniteSet(S)
    BY <2>1, FS_Subset
  <2> HIDE DEF S
  <2>3. h \in [S -> T] /\ \A y \in T : \E x \in S : h[x] = y
    OBVIOUS
  <2>4. T \subseteq Int /\ T # {}
    BY <2>1 DEF FactRow
  <2>5. \A g \in S : g.time \in T
    OBVIOUS
  <2> HIDE DEF T, h
  <2>6. IsFiniteSet(T)
    BY <2>2, <2>3, ImageOf
  <2>7. \E m \in T : \A x \in T : x <= m
    BY <2>4, <2>6, GreatestIs
  <2>8. \E m \in T : \A g \in S : g.time <= m
    BY <2>5, <2>7
  <2>9. (CHOOSE m \in T : \A g \in S : g.time <= m) \in T
    BY <2>8
  <2>10. UserRow(F, o, f.user).time = CHOOSE m \in T : \A g \in S : g.time <= m
    BY DEF UserRow, T, S
  <2> QED  BY <2>4, <2>9, <2>10
<1>5. users \subseteq Int
  BY StoreConstants DEF FactRow
<1>6. IsFiniteSet(mine) /\ Cardinality(mine) <= Cardinality(F) /\ Cardinality(mine) \in Nat /\ Cardinality(F) \in Nat
  BY FS_Subset, FS_CardinalityType
<1>7. IsFiniteSet(users) /\ Cardinality(users) <= Cardinality(mine)
  <2> DEFINE h == [f \in mine |-> f.user]
  <2>1. h \in [mine -> users] /\ \A y \in users : \E x \in mine : h[x] = y
    OBVIOUS
  <2> HIDE DEF h, mine, users
  <2> QED  BY <1>6, <2>1, ImageOf
<1>8. IsFiniteSet(U) /\ Cardinality(U) = Cardinality(users) /\ Cardinality(U) \in Nat
  <2> DEFINE h == [u \in users |-> UserRow(F, o, u)]
  <2> HIDE DEF users
  <2>1. /\ h \in [users -> U] /\ \A y \in U : \E x \in users : h[x] = y
        /\ \A x, y \in users : h[x] = h[y] => x = y
    BY <1>3
  <2> HIDE DEF h, U
  <2> QED  BY <1>7, <2>1, ImageOf
<1>9. Ranked(U)
  <2>1. \A x \in U : x.time \in Int /\ x.id \in Int
    BY <1>3, <1>4, <1>5
  <2>2. \A x, y \in U : x.id = y.id => x = y
    BY <1>3
  <2> HIDE DEF U
  <2> QED  BY <1>8, <2>1, <2>2 DEF Ranked
<1> HIDE DEF mine, users, U
<1>10. Cardinality(U) <= Cardinality(F)
  BY <1>6, <1>7, <1>8
<1> QED
  BY <1>2, <1>3, <1>4, <1>6, <1>8, <1>9, <1>10 DEF U, users, mine

\* The facts in a table.
LEMMA ActiveIs ==
  ASSUME NEW t, Good("facts", t)
  PROVE  /\ IsFiniteSet(Active(t)) /\ Active(t) \subseteq FactRow
         /\ \A f, g \in Active(t) : f.id = g.id => f = g
         /\ Cardinality(Active(t)) <= Cardinality(t)
         /\ Cardinality(t) \in Nat /\ Cardinality(Active(t)) \in Nat
<1> DEFINE rows == {r \in t : ~r.deleted}
<1>1. Active(t) = {r.fact : r \in rows}
  BY DEF Active
<1>2. rows \subseteq {r \in t : ~r.deleted}
  OBVIOUS
<1>3. IsFiniteSet(t) /\ Cardinality(rows) <= Cardinality(t) /\ Cardinality(t) \in Nat
  BY FactTable, FS_Subset, FS_CardinalityType
<1>4. Active(t) \subseteq FactRow /\ \A f, g \in Active(t) : f.id = g.id => f = g
  BY <1>1, FactTable
<1> HIDE DEF rows
<1>5. IsFiniteSet(Active(t)) /\ Cardinality(Active(t)) = Cardinality(rows)
  BY <1>1, <1>2, ExpiredIds
<1> QED
  BY <1>3, <1>4, <1>5, FS_CardinalityType

\* The rows of a list can be sorted, and are no more than those of the table.
LEMMA ListRanked ==
  ASSUME NEW k \in Kinds, NEW list \in Lists(k), NEW t, Good(k, t), NEW n
  PROVE  /\ Ranked(ListRows(list, n, t))
         /\ Cardinality(t) \in Nat
         /\ Cardinality(ListRows(list, n, t)) <= Cardinality(t)
<1> DEFINE L == ListRows(list, n, t)
<1>1. CASE k = "facts"
  <2>1. /\ IsFiniteSet(Active(t)) /\ Active(t) \subseteq FactRow
        /\ \A f, g \in Active(t) : f.id = g.id => f = g
        /\ Cardinality(Active(t)) <= Cardinality(t)
        /\ Cardinality(t) \in Nat /\ Cardinality(Active(t)) \in Nat
    BY <1>1, ActiveIs
  <2>2. list = "memories" \/ list = "users"
    BY <1>1 DEF Lists
  <2>3. CASE list = "memories"
    <3>1. L = {f \in Active(t) : Owns(n, f)}
      BY <2>3 DEF ListRows
    <3>2. IsFiniteSet(L) /\ Cardinality(L) <= Cardinality(Active(t))
      BY <2>1, <3>1, FS_Subset
    <3>3. Cardinality(L) \in Nat
      BY <3>2, FS_CardinalityType
    <3>4. \A x \in L : x.time \in Int /\ x.id \in Int
      BY <2>1, <3>1 DEF FactRow
    <3>5. \A x, y \in L : x.id = y.id => x = y
      BY <2>1, <3>1
    <3> HIDE DEF L
    <3>6. Ranked(L) /\ Cardinality(L) <= Cardinality(t)
      BY <2>1, <3>2, <3>3, <3>4, <3>5 DEF Ranked
    <3> QED  BY <2>1, <3>6 DEF L
  <2>4. CASE list = "users"
    <3>1. L = UserSummaries(Active(t), n.org)
      BY <2>4 DEF ListRows
    <3>2. /\ Ranked(UserSummaries(Active(t), n.org))
          /\ Cardinality(UserSummaries(Active(t), n.org)) \in Nat
          /\ Cardinality(UserSummaries(Active(t), n.org)) <= Cardinality(Active(t))
      BY <2>1, SummariesAre
    <3> QED  BY <2>1, <3>1, <3>2
  <2> QED  BY <2>2, <2>3, <2>4
<1>2. ASSUME k \in Records, L \subseteq t,
             \A x \in t : x.time \in Int /\ x.id \in Int
      PROVE  Ranked(L) /\ Cardinality(t) \in Nat /\ Cardinality(L) <= Cardinality(t)
  <2> HIDE DEF L
  <2>1. IsFiniteSet(t) /\ \A r, s \in t : r.id = s.id => r = s
    BY <1>2, RecordTable
  <2>2. IsFiniteSet(L) /\ Cardinality(L) <= Cardinality(t) /\ Cardinality(t) \in Nat
    BY <1>2, <2>1, FS_Subset, FS_CardinalityType
  <2> QED  BY <1>2, <2>1, <2>2 DEF Ranked
<1>3. CASE k = "events"
  <2>1. list = "events" \/ list = "org_events"
    BY <1>3 DEF Lists
  <2>2. L \subseteq t
    <3>1. CASE list = "events"      BY <3>1 DEF ListRows
    <3>2. CASE list = "org_events"  BY <3>2 DEF ListRows
    <3> QED  BY <2>1, <3>1, <3>2
  <2>3. k \in Records
    BY <1>3 DEF Records
  <2>4. t \subseteq EventRow
    BY <1>3, <2>3, RecordTable, RowTypes
  <2>5. \A x \in t : x.time \in Int /\ x.id \in Int
    BY <2>4 DEF EventRow
  <2> QED  BY <1>2, <2>2, <2>3, <2>5
<1>4. CASE k = "usage"
  <2>1. list = "usage"
    BY <1>4 DEF Lists
  <2>2. L \subseteq t
    BY <2>1 DEF ListRows
  <2>3. k \in Records
    BY <1>4 DEF Records
  <2>4. t \subseteq UsageRow
    BY <1>4, <2>3, RecordTable, RowTypes
  <2>5. \A x \in t : x.time \in Int /\ x.id \in Int
    BY <2>4 DEF UsageRow
  <2> QED  BY <1>2, <2>2, <2>3, <2>5
<1>5. CASE k = "runs"
  <2>1. list = "runs"
    BY <1>5 DEF Lists
  <2>2. L \subseteq t
    BY <2>1 DEF ListRows
  <2>3. k \in Records
    BY <1>5 DEF Records
  <2>4. t \subseteq RunRow
    BY <1>5, <2>3, RecordTable, RowTypes
  <2>5. \A x \in t : x.time \in Int /\ x.id \in Int
    BY <2>4 DEF RunRow
  <2> QED  BY <1>2, <2>2, <2>3, <2>5
<1>6. CASE k = "snapshots"
  <2>1. list = "snapshots"
    BY <1>6 DEF Lists
  <2>2. L \subseteq t
    BY <2>1 DEF ListRows
  <2>3. k \in Records
    BY <1>6 DEF Records
  <2>4. t \subseteq SnapshotRow
    BY <1>6, <2>3, RecordTable, RowTypes
  <2>5. \A x \in t : x.time \in Int /\ x.id \in Int
    BY <2>4 DEF SnapshotRow
  <2> QED  BY <1>2, <2>2, <2>3, <2>5
<1>7. CASE k = "keys"
  <2>1. list = "keys"
    BY <1>7 DEF Lists
  <2>2. L \subseteq t
    BY <2>1 DEF ListRows
  <2>3. k \in Records
    BY <1>7 DEF Records
  <2>4. t \subseteq KeyRow
    BY <1>7, <2>3, RecordTable, RowTypes
  <2>5. \A x \in t : x.time \in Int /\ x.id \in Int
    BY <2>4 DEF KeyRow
  <2> QED  BY <1>2, <2>2, <2>3, <2>5
<1>8. CASE k = "plans" \/ k = "vectors"
  <2>1. CASE k = "plans"    BY <2>1 DEF Lists
  <2>2. CASE k = "vectors"  BY <2>2 DEF Lists
  <2> QED  BY <1>8, <2>1, <2>2
<1> QED
  BY <1>1, <1>3, <1>4, <1>5, <1>6, <1>7, <1>8, StoreConstants

\* The names of the lists.
LEMMA ListNames ==
  ASSUME NEW k \in Kinds, NEW list \in Lists(k)
  PROVE  list \in {"memories", "users", "events", "org_events", "keys", "usage", "runs", "snapshots"}
<1>1. CASE k = "facts"      BY <1>1 DEF Lists
<1>2. CASE k = "events"     BY <1>2 DEF Lists
<1>3. CASE k = "usage"      BY <1>3 DEF Lists
<1>4. CASE k = "runs"       BY <1>4 DEF Lists
<1>5. CASE k = "snapshots"  BY <1>5 DEF Lists
<1>6. CASE k = "keys"       BY <1>6 DEF Lists
<1>7. CASE k = "plans"      BY <1>7 DEF Lists
<1>8. CASE k = "vectors"    BY <1>8 DEF Lists
<1> QED  BY <1>1, <1>2, <1>3, <1>4, <1>5, <1>6, <1>7, <1>8, StoreConstants

\* Every page is one of the rows after the cursor.
LEMMA PageOf ==
  ASSUME NEW k \in Kinds, NEW list \in Lists(k), NEW n, NEW l, NEW c, NEW t
  PROVE  Page(list, Query(n, l, c), t) = PageAfter(list, n, l, c, t)
<1>1. list \in {"memories", "users", "events", "org_events", "keys", "usage", "runs", "snapshots"}
  BY ListNames
<1>2. CASE list = "memories"    BY <1>2, Page_memories
<1>3. CASE list = "users"       BY <1>3, Page_users
<1>4. CASE list = "events"      BY <1>4, Page_events
<1>5. CASE list = "org_events"  BY <1>5, Page_org_events
<1>6. CASE list = "keys"        BY <1>6, Page_keys
<1>7. CASE list = "usage"       BY <1>7, Page_usage
<1>8. CASE list = "runs"        BY <1>8, Page_runs
<1>9. CASE list = "snapshots"   BY <1>9, Page_snapshots
<1> QED
  BY <1>1, <1>2, <1>3, <1>4, <1>5, <1>6, <1>7, <1>8, <1>9

\* Everything is what the list shows.
LEMMA EverythingIs ==
  ASSUME NEW k \in Kinds, NEW list \in Lists(k), NEW t, Good(k, t), NEW n
  PROVE  Everything(list, n, t) = ListRows(list, n, t)
<1> DEFINE L == ListRows(list, n, t)
           P == {x \in L : PushSqliteCursor(x, NoCursor)}
           l == Cardinality(t) + 1
           page == BuildPage(Newest(P, l + 1), l)
<1>1. Ranked(L) /\ Cardinality(t) \in Nat /\ Cardinality(L) <= Cardinality(t)
  BY ListRanked
<1>2. Cardinality(L) \in Nat
  BY <1>1, FS_CardinalityType DEF Ranked
<1>3. P = L
  BY DEF PushSqliteCursor
<1>4. Page(list, Query(n, l, NoCursor), t) = page
  BY PageOf DEF PageAfter
<1>5. Everything(list, n, t) = Range(page.items)
  BY <1>4 DEF Everything
<1> HIDE DEF L
<1>6. l \in Nat \ {0} /\ Cardinality(P) <= l /\ Ranked(P)
  BY <1>1, <1>2, <1>3
<1> HIDE DEF P, l
<1>7. page.next = NoCursor /\ Range(page.items) = P
  BY <1>6, PageIs
<1> QED
  BY <1>3, <1>5, <1>7 DEF L

-----------------------------------------------------------------------------
(* The client that pages. *)

WalkRecord(w) ==
  w = [on |-> TRUE, list |-> w.list, tenant |-> w.tenant, limit |-> w.limit,
       cursor |-> w.cursor, done |-> w.done, listed |-> w.listed, again |-> w.again,
       stable |-> w.stable]

\* A walk over a table t of port k.  Of the rows that were there all the time
\* those have been listed that the cursor is not past.
WalkingOK(w, k, t) ==
  /\ WalkRecord(w)
  /\ w.list \in Lists(k) /\ w.tenant \in Tenant /\ w.limit \in 1 .. MaxLimit
  /\ w.cursor = NoCursor \/ w.cursor \in Int \X Int
  /\ w.done \in BOOLEAN
  /\ w.again \subseteq w.listed
  /\ w.stable \subseteq ListRows(w.list, w.tenant, t)
  /\ w.stable \cap w.again = {}
  /\ w.done => w.stable \subseteq w.listed
  /\ ~w.done => \A x \in w.stable : x \in w.listed <=> ~PushSqliteCursor(x, w.cursor)

\* A call that leaves table u behind.
LEMMA WalkCommit ==
  ASSUME NEW k \in Kinds, NEW t, NEW u, Good(k, u), NEW w, WalkingOK(w, k, t), NEW v,
         v = [w EXCEPT !.stable = @ \cap Everything(w.list, w.tenant, u)]
  PROVE  WalkingOK(v, k, u)
<1> DEFINE E == Everything(w.list, w.tenant, u)
<1>1. w.list \in Lists(k)
  BY DEF WalkingOK
<1>2. E = ListRows(w.list, w.tenant, u)
  BY <1>1, EverythingIs
<1>3. w = [on |-> TRUE, list |-> w.list, tenant |-> w.tenant, limit |-> w.limit,
           cursor |-> w.cursor, done |-> w.done, listed |-> w.listed, again |-> w.again,
           stable |-> w.stable]
  BY DEF WalkingOK, WalkRecord
<1>4. v = [w EXCEPT !.stable = @ \cap E]
  OBVIOUS
<1> HIDE DEF E
<1>5. /\ WalkRecord(v) /\ v.list = w.list /\ v.tenant = w.tenant /\ v.limit = w.limit
      /\ v.cursor = w.cursor /\ v.done = w.done /\ v.listed = w.listed /\ v.again = w.again
      /\ v.stable = w.stable \cap E
  <2>1. w.on = TRUE /\ DOMAIN w = {"on", "list", "tenant", "limit", "cursor", "done", "listed", "again", "stable"}
    BY <1>3
  <2>2. /\ DOMAIN v = DOMAIN w /\ v.on = w.on
        /\ v.list = w.list /\ v.tenant = w.tenant /\ v.limit = w.limit
        /\ v.cursor = w.cursor /\ v.done = w.done /\ v.listed = w.listed /\ v.again = w.again
        /\ v.stable = w.stable \cap E
    BY <1>4, <2>1
  <2>3. v = [x \in DOMAIN w |-> v[x]]
    BY <1>4, <2>1
  <2>4. WalkRecord(v)
    BY <2>1, <2>2, <2>3 DEF WalkRecord
  <2> QED  BY <2>2, <2>4
<1> QED
  BY <1>2, <1>5 DEF WalkingOK

\* The next page.
LEMMA WalkPage ==
  ASSUME NEW k \in Kinds, NEW t, Good(k, t), NEW w, WalkingOK(w, k, t), ~w.done,
         NEW page, page = Page(w.list, Query(w.tenant, w.limit, w.cursor), t),
         NEW v,
         v = [w EXCEPT !.cursor = page.next,
                       !.done = page.next = NoCursor,
                       !.listed = @ \cup Range(page.items),
                       !.again = @ \cup (Range(page.items) \cap w.listed)]
  PROVE  WalkingOK(v, k, t)
<1> DEFINE L == ListRows(w.list, w.tenant, t)
           P == {x \in L : PushSqliteCursor(x, w.cursor)}
           items == Range(page.items)
<1>1. w.list \in Lists(k) /\ w.limit \in Nat \ {0}
  BY DEF WalkingOK, MaxLimit
<1>2. page = BuildPage(Newest(P, w.limit + 1), w.limit)
  BY <1>1, PageOf DEF PageAfter
<1>3. Ranked(L)
  BY <1>1, ListRanked
<1> HIDE DEF L
<1>4. Ranked(P)
  BY <1>3, FS_Subset DEF Ranked
<1>5. P = {x \in L : PushSqliteCursor(x, w.cursor)}
  OBVIOUS
<1> HIDE DEF P
<1>6. /\ items \subseteq P
      /\ page.next = NoCursor => items = P
      /\ page.next # NoCursor =>
           /\ page.next \in Int \X Int
           /\ \A x \in P : x \in items <=> ~PushSqliteCursor(x, page.next)
  BY <1>1, <1>2, <1>4, PageIs
<1>7. w = [on |-> TRUE, list |-> w.list, tenant |-> w.tenant, limit |-> w.limit,
           cursor |-> w.cursor, done |-> w.done, listed |-> w.listed, again |-> w.again,
           stable |-> w.stable]
  BY DEF WalkingOK, WalkRecord
<1>8. v = [w EXCEPT !.cursor = page.next,
                    !.done = page.next = NoCursor,
                    !.listed = @ \cup items,
                    !.again = @ \cup (items \cap w.listed)]
  OBVIOUS
<1> HIDE DEF items
<1>9. /\ WalkRecord(v) /\ v.list = w.list /\ v.tenant = w.tenant /\ v.limit = w.limit
      /\ v.cursor = page.next /\ v.done = (page.next = NoCursor)
      /\ v.listed = w.listed \cup items /\ v.again = w.again \cup (items \cap w.listed)
      /\ v.stable = w.stable
  <2>1. w.on = TRUE /\ DOMAIN w = {"on", "list", "tenant", "limit", "cursor", "done", "listed", "again", "stable"}
    BY <1>7
  <2>2. /\ DOMAIN v = DOMAIN w /\ v.on = w.on
        /\ v.list = w.list /\ v.tenant = w.tenant /\ v.limit = w.limit
        /\ v.cursor = page.next /\ v.done = (page.next = NoCursor)
        /\ v.listed = w.listed \cup items /\ v.again = w.again \cup (items \cap w.listed)
        /\ v.stable = w.stable
    BY <1>8, <2>1
  <2>3. v = [x \in DOMAIN w |-> v[x]]
    BY <1>8, <2>1
  <2>4. WalkRecord(v)
    BY <2>1, <2>2, <2>3 DEF WalkRecord
  <2> QED  BY <2>2, <2>4
<1>10. w.stable \subseteq L /\ \A x \in w.stable : x \in w.listed <=> ~PushSqliteCursor(x, w.cursor)
  BY DEF WalkingOK, L
<1>11. v.stable \cap v.again = {}
  BY <1>5, <1>6, <1>9, <1>10 DEF WalkingOK
<1>12. v.done => v.stable \subseteq v.listed
  BY <1>5, <1>6, <1>9, <1>10
<1>13. ASSUME ~v.done, NEW x \in v.stable
       PROVE  x \in v.listed <=> ~PushSqliteCursor(x, v.cursor)
  <2>1. page.next # NoCursor
    BY <1>9, <1>13
  <2>2. x \in L /\ x \in w.stable
    BY <1>9, <1>10, <1>13
  <2>3. CASE x \in P
    <3>1. x \notin w.listed
      BY <1>5, <1>10, <2>2, <2>3
    <3> QED  BY <1>6, <1>9, <2>1, <2>3, <3>1
  <2>4. CASE x \notin P
    <3>1. x \in w.listed /\ ~PushSqliteCursor(x, w.cursor)
      BY <1>5, <1>10, <2>2, <2>4
    <3>2. ~PushSqliteCursor(x, page.next)
      <4>1. w.cursor # NoCursor /\ w.cursor \in Int \X Int
        BY <3>1 DEF PushSqliteCursor, WalkingOK
      <4>2. x.time \in Int /\ x.id \in Int
        BY <1>3, <2>2 DEF Ranked
      <4>3. page.next \in Int \X Int
        BY <1>6, <2>1
      <4>4. PICK y \in P : page.next = <<y.time, y.id>>
        <5>1. page.next = NoCursor \/ \E i : page.next = CursorOf(Newest(P, w.limit + 1)[i]) /\ i = w.limit /\ i < Len(Newest(P, w.limit + 1))
          BY <1>1, <1>2 DEF BuildPage
        <5> QED  BY <2>1, <5>1, <1>1, <1>4, NewestIs DEF CursorOf
      <4>5. PushSqliteCursor(y, w.cursor) /\ y.time \in Int /\ y.id \in Int
        BY <1>3, <1>5, <4>4 DEF Ranked
      <4> QED
        BY <2>1, <3>1, <4>1, <4>2, <4>3, <4>4, <4>5 DEF PushSqliteCursor
    <3> QED  BY <1>9, <3>1, <3>2
  <2> QED  BY <2>3, <2>4
<1>14. v.again \subseteq v.listed
  BY <1>9 DEF WalkingOK
<1> QED
  BY <1>6, <1>9, <1>11, <1>12, <1>13, <1>14 DEF WalkingOK

-----------------------------------------------------------------------------
(* The calls of the ports. *)

RowKinds == {"facts", "events", "usage", "runs", "snapshots", "keys", "plans"}

\* The tables of a port that keeps rows.
RowsOK ==
  /\ kind \in RowKinds
  /\ DOMAIN tables = {"mock", "sqlite", "postgres"}
  /\ RowTables
  /\ kind = "keys" => Hashed(tables.sqlite)

\* What a call that writes does to them.
RowWrite(c) ==
  /\ c.postgres = c.sqlite
  /\ Good(kind, c.sqlite.table)
  /\ c.mock.table = MockTable(kind, c.sqlite.table)
  /\ c.mock.answer.ok = c.sqlite.answer.ok
  /\ kind = "keys" => Hashed(c.sqlite.table)
  /\ kind \in {"facts", "events", "keys"} =>
       {r \in c.sqlite.table : Foreign(c.by, r)} = {r \in tables.sqlite : Foreign(c.by, r)}

\* The parts of a call.
LEMMA CallIs ==
  ASSUME NEW by, NEW m, NEW s, NEW p
  PROVE  /\ Call(by, m, s, p).by = by /\ Call(by, m, s, p).mock = m
         /\ Call(by, m, s, p).sqlite = s /\ Call(by, m, s, p).postgres = p
  BY DEF Call

\* A call of tenant n is a write.
LEMMA RowWriteIs ==
  ASSUME NEW n, NEW by, NEW m, NEW s, NEW c, c = Call(by, m, s, s),
         CallOK(kind, n, tables.sqlite, m, s),
         kind = "keys" => Hashed(s.table),
         kind \in {"facts", "events", "keys"} => \A r : Owned(kind, n, r) => ~Foreign(by, r)
  PROVE  RowWrite(c)
<1>1. c.by = by /\ c.mock = m /\ c.sqlite = s /\ c.postgres = s
  BY CallIs
<1>2. /\ Good(kind, s.table) /\ m.table = MockTable(kind, s.table) /\ m.answer.ok = s.answer.ok
      /\ \A r : Owned(kind, n, r) \/ (r \in s.table <=> r \in tables.sqlite)
  BY DEF CallOK
<1>3. ASSUME kind \in {"facts", "events", "keys"}
      PROVE  {r \in s.table : Foreign(by, r)} = {r \in tables.sqlite : Foreign(by, r)}
  BY <1>2, <1>3
<1> QED
  BY <1>1, <1>2, <1>3 DEF RowWrite

\* Nobody's own rows are foreign.
LEMMA OwnNotForeign ==
  ASSUME NEW n
  PROVE  /\ kind \in {"facts", "events"} => \A r : Owned(kind, n, r) => ~Foreign(ByTenant(n), r)
         /\ kind = "keys" => \A r : Owned(kind, n, r) => ~Foreign(ByOrg(n.org), r)
<1>1. /\ ByTenant(n).org = {n.org} /\ ByTenant(n).user = {n.user} /\ ByOrg(n.org).org = {n.org}
  BY DEF ByTenant, ByOrg
<1> QED
  BY <1>1 DEF Owned, Foreign, Owns

\* What a port's tables are.
LEMMA RowTablesAre ==
  ASSUME RowsOK
  PROVE  /\ Good(kind, tables.sqlite) /\ tables.postgres = tables.sqlite
         /\ kind = "facts" => tables.mock = MockOf(tables.sqlite)
         /\ kind # "facts" => tables.mock = tables.sqlite
  BY DEF RowsOK, RowTables, MockTable

\* The calls of InsertFacts.
LEMMA InsertFactsWrite ==
  ASSUME RowsOK, kind = "facts", NEW c \in InsertFacts
  PROVE  RowWrite(c)
<1> DEFINE t == tables.sqlite
<1>1. PICK n \in Tenant, f \in FactRows :
        c = Call(ByTenant(n), MockInsertFact(tables.mock, n, f), SqliteInsertFact(tables.sqlite, n, f),
                 PostgresInsertFact(tables.postgres, n, f))
  BY DEF InsertFacts
<1> DEFINE m == MockInsertFact(MockOf(t), n, f)
           s == SqliteInsertFact(t, n, f)
<1>2. Good("facts", t) /\ c = Call(ByTenant(n), m, s, s)
  BY <1>1, RowTablesAre DEF PostgresInsertFact
<1>3. f \in FactRow
  BY <1>1, StoreConstants DEF Fresh, Live
<1>7. CallOK("facts", n, t, m, s)
  BY <1>2, <1>3, InsertFactCall
<1>8. \A r : Owned(kind, n, r) => ~Foreign(ByTenant(n), r)
  BY OwnNotForeign
<1> HIDE DEF m, s
<1> QED
  BY <1>2, <1>7, <1>8, RowWriteIs

\* The calls of UpdateFacts.
LEMMA UpdateFactsWrite ==
  ASSUME RowsOK, kind = "facts", NEW c \in UpdateFacts
  PROVE  RowWrite(c)
<1> DEFINE t == tables.sqlite
<1>1. PICK n \in Tenant, f \in {g \in FactRows : Live(g.id)} :
        c = Call(ByTenant(n), MockUpdateFact(tables.mock, n, f), SqliteUpdateFact(tables.sqlite, n, f),
                 PostgresUpdateFact(tables.postgres, n, f))
  BY DEF UpdateFacts
<1> DEFINE m == MockUpdateFact(MockOf(t), n, f)
           s == SqliteUpdateFact(t, n, f)
<1>2. Good("facts", t) /\ c = Call(ByTenant(n), m, s, s)
  BY <1>1, RowTablesAre DEF PostgresUpdateFact
<1>3. f \in FactRow /\ \A r \in tables.sqlite : r.fact.id = f.id => ~r.deleted
  BY <1>1, StoreConstants DEF Fresh, Live
<1>7. CallOK("facts", n, t, m, s)
  BY <1>2, <1>3, UpdateFactCall
<1>8. \A r : Owned(kind, n, r) => ~Foreign(ByTenant(n), r)
  BY OwnNotForeign
<1> HIDE DEF m, s
<1> QED
  BY <1>2, <1>7, <1>8, RowWriteIs

\* The calls of SoftDeleteFacts.
LEMMA SoftDeleteFactsWrite ==
  ASSUME RowsOK, kind = "facts", NEW c \in SoftDeleteFacts
  PROVE  RowWrite(c)
<1> DEFINE t == tables.sqlite
<1>1. PICK n \in Tenant, i \in {j \in {f.id : f \in FactRows} : Live(j)} :
        c = Call(ByTenant(n), MockSoftDeleteFact(tables.mock, n, i), SqliteSoftDeleteFact(tables.sqlite, n, i),
                 PostgresSoftDeleteFact(tables.postgres, n, i))
  BY DEF SoftDeleteFacts
<1> DEFINE m == MockSoftDeleteFact(MockOf(t), n, i)
           s == SqliteSoftDeleteFact(t, n, i)
<1>2. Good("facts", t) /\ c = Call(ByTenant(n), m, s, s)
  BY <1>1, RowTablesAre DEF PostgresSoftDeleteFact
<1>3. \A r \in tables.sqlite : r.fact.id = i => ~r.deleted
  BY <1>1, StoreConstants DEF Fresh, Live
<1>7. CallOK("facts", n, t, m, s)
  BY <1>2, <1>3, SoftDeleteFactCall
<1>8. \A r : Owned(kind, n, r) => ~Foreign(ByTenant(n), r)
  BY OwnNotForeign
<1> HIDE DEF m, s
<1> QED
  BY <1>2, <1>7, <1>8, RowWriteIs

\* The calls of DeleteUsers.
LEMMA DeleteUsersWrite ==
  ASSUME RowsOK, kind = "facts", NEW c \in DeleteUsers
  PROVE  RowWrite(c)
<1> DEFINE t == tables.sqlite
<1>1. PICK n \in Tenant :
        c = Call(ByTenant(n), MockDeleteUserData(tables.mock, n), SqliteDeleteUserData(tables.sqlite, n),
                 PostgresDeleteUserData(tables.postgres, n))
  BY DEF DeleteUsers
<1> DEFINE m == MockDeleteUserData(MockOf(t), n)
           s == SqliteDeleteUserData(t, n)
<1>2. Good("facts", t) /\ c = Call(ByTenant(n), m, s, s)
  BY <1>1, RowTablesAre DEF PostgresDeleteUserData
<1>7. CallOK("facts", n, t, m, s)
  BY <1>2, DeleteUserDataCall
<1>8. \A r : Owned(kind, n, r) => ~Foreign(ByTenant(n), r)
  BY OwnNotForeign
<1> HIDE DEF m, s
<1> QED
  BY <1>2, <1>7, <1>8, RowWriteIs

\* The calls of PruneFacts.
LEMMA PruneFactsWrite ==
  ASSUME RowsOK, kind = "facts", NEW dry \in BOOLEAN, NEW c \in PruneFacts(dry)
  PROVE  RowWrite(c)
<1> DEFINE t == tables.sqlite
<1>1. PICK n \in Tenant, x \in Cutoffs :
        c = Call(ByTenant(n), MockDeleteFactsOlderThan(tables.mock, n, x, dry), SqliteDeleteFactsOlderThan(tables.sqlite, n, x, dry),
                 PostgresDeleteFactsOlderThan(tables.postgres, n, x, dry))
  BY DEF PruneFacts
<1> DEFINE m == MockDeleteFactsOlderThan(MockOf(t), n, x, dry)
           s == SqliteDeleteFactsOlderThan(t, n, x, dry)
<1>2. Good("facts", t) /\ c = Call(ByTenant(n), m, s, s)
  BY <1>1, RowTablesAre DEF PostgresDeleteFactsOlderThan
<1>7. CallOK("facts", n, t, m, s)
  BY <1>2, PruneFactsCall
<1>8. \A r : Owned(kind, n, r) => ~Foreign(ByTenant(n), r)
  BY OwnNotForeign
<1> HIDE DEF m, s
<1> QED
  BY <1>2, <1>7, <1>8, RowWriteIs

\* The calls of RecordEvents.
LEMMA RecordEventsWrite ==
  ASSUME RowsOK, kind = "events", NEW c \in RecordEvents
  PROVE  RowWrite(c)
<1> DEFINE t == tables.sqlite
<1>1. PICK n \in Tenant, e \in Fresh(EventRows) :
        c = Call(ByTenant(n), MockRecordEvent(tables.mock, n, e), SqliteRecordEvent(tables.sqlite, n, e),
                 PostgresRecordEvent(tables.postgres, n, e))
  BY DEF RecordEvents
<1> DEFINE m == MockRecordEvent(t, n, e)
           s == SqliteRecordEvent(t, n, e)
<1>2. Good("events", t) /\ c = Call(ByTenant(n), m, s, s)
  BY <1>1, RowTablesAre DEF PostgresRecordEvent
<1>3. e \in EventRow /\ ~HasId(tables.sqlite, e)
  BY <1>1, StoreConstants DEF Fresh, Live
<1>7. CallOK("events", n, t, m, s)
  BY <1>2, <1>3, RecordEventCall
<1>8. \A r : Owned(kind, n, r) => ~Foreign(ByTenant(n), r)
  BY OwnNotForeign
<1> HIDE DEF m, s
<1> QED
  BY <1>2, <1>7, <1>8, RowWriteIs

\* The calls of PruneEvents.
LEMMA PruneEventsWrite ==
  ASSUME RowsOK, kind = "events", NEW dry \in BOOLEAN, NEW c \in PruneEvents(dry)
  PROVE  RowWrite(c)
<1> DEFINE t == tables.sqlite
<1>1. PICK n \in Tenant, x \in Cutoffs :
        c = Call(ByTenant(n), MockDeleteEventsOlderThan(tables.mock, n, x, dry), SqliteDeleteEventsOlderThan(tables.sqlite, n, x, dry),
                 PostgresDeleteEventsOlderThan(tables.postgres, n, x, dry))
  BY DEF PruneEvents
<1> DEFINE m == MockDeleteEventsOlderThan(t, n, x, dry)
           s == SqliteDeleteEventsOlderThan(t, n, x, dry)
<1>2. Good("events", t) /\ c = Call(ByTenant(n), m, s, s)
  BY <1>1, RowTablesAre DEF PostgresDeleteEventsOlderThan
<1>7. CallOK("events", n, t, m, s)
  BY <1>2, PruneEventsCall
<1>8. \A r : Owned(kind, n, r) => ~Foreign(ByTenant(n), r)
  BY OwnNotForeign
<1> HIDE DEF m, s
<1> QED
  BY <1>2, <1>7, <1>8, RowWriteIs

\* The calls of RecordUsages.
LEMMA RecordUsagesWrite ==
  ASSUME RowsOK, kind = "usage", NEW c \in RecordUsages
  PROVE  RowWrite(c)
<1> DEFINE t == tables.sqlite
<1>1. PICK u \in Fresh(UsageRows) :
        c = Call(ByOrg(u.org), MockRecordUsage(tables.mock, u), SqliteRecordUsage(tables.sqlite, u),
                 PostgresRecordUsage(tables.postgres, u))
  BY DEF RecordUsages
<1> DEFINE m == MockRecordUsage(t, u)
           s == SqliteRecordUsage(t, u)
<1>2. Good("usage", t) /\ c = Call(ByOrg(u.org), m, s, s)
  BY <1>1, RowTablesAre DEF PostgresRecordUsage
<1>3. u \in UsageRow /\ ~HasId(tables.sqlite, u)
  BY <1>1, StoreConstants DEF Fresh, Live
<1>7. CallOK("usage", u, t, m, s)
  BY <1>2, <1>3, RecordUsageCall
<1> HIDE DEF m, s
<1> QED
  BY <1>2, <1>7, RowWriteIs

\* The calls of PruneUsage.
LEMMA PruneUsageWrite ==
  ASSUME RowsOK, kind = "usage", NEW dry \in BOOLEAN, NEW c \in PruneUsage(dry)
  PROVE  RowWrite(c)
<1> DEFINE t == tables.sqlite
<1>1. PICK o \in Org, x \in Cutoffs :
        c = Call(ByOrg(o), MockDeleteUsageOlderThan(tables.mock, o, x, dry), SqliteDeleteUsageOlderThan(tables.sqlite, o, x, dry),
                 PostgresDeleteUsageOlderThan(tables.postgres, o, x, dry))
  BY DEF PruneUsage
<1> DEFINE m == MockDeleteUsageOlderThan(t, o, x, dry)
           s == SqliteDeleteUsageOlderThan(t, o, x, dry)
<1>2. Good("usage", t) /\ c = Call(ByOrg(o), m, s, s)
  BY <1>1, RowTablesAre DEF PostgresDeleteUsageOlderThan
<1>7. CallOK("usage", o, t, m, s)
  BY <1>2, DeleteUsageOlderThanCall
<1> HIDE DEF m, s
<1> QED
  BY <1>2, <1>7, RowWriteIs

\* The calls of InsertRuns.
LEMMA InsertRunsWrite ==
  ASSUME RowsOK, kind = "runs", NEW c \in InsertRuns
  PROVE  RowWrite(c)
<1> DEFINE t == tables.sqlite
<1>1. PICK r \in Fresh(RunRows) :
        c = Call(Anyone, MockInsertRun(tables.mock, r), SqliteInsertRun(tables.sqlite, r),
                 PostgresInsertRun(tables.postgres, r))
  BY DEF InsertRuns
<1> DEFINE m == MockInsertRun(t, r)
           s == SqliteInsertRun(t, r)
<1>2. Good("runs", t) /\ c = Call(Anyone, m, s, s)
  BY <1>1, RowTablesAre DEF PostgresInsertRun
<1>3. r \in RunRow /\ ~HasId(tables.sqlite, r)
  BY <1>1, StoreConstants DEF Fresh, Live
<1>7. CallOK("runs", r, t, m, s)
  BY <1>2, <1>3, InsertRunCall
<1> HIDE DEF m, s
<1> QED
  BY <1>2, <1>7, RowWriteIs

\* The calls of PruneRuns.
LEMMA PruneRunsWrite ==
  ASSUME RowsOK, kind = "runs", NEW dry \in BOOLEAN, NEW c \in PruneRuns(dry)
  PROVE  RowWrite(c)
<1> DEFINE t == tables.sqlite
<1>1. PICK x \in Cutoffs :
        c = Call(Anyone, MockDeleteRunsOlderThan(tables.mock, x, dry), SqliteDeleteRunsOlderThan(tables.sqlite, x, dry),
                 PostgresDeleteRunsOlderThan(tables.postgres, x, dry))
  BY DEF PruneRuns
<1> DEFINE m == MockDeleteRunsOlderThan(t, x, dry)
           s == SqliteDeleteRunsOlderThan(t, x, dry)
<1>2. Good("runs", t) /\ c = Call(Anyone, m, s, s)
  BY <1>1, RowTablesAre DEF PostgresDeleteRunsOlderThan
<1>7. CallOK("runs", x, t, m, s)
  BY <1>2, DeleteRunsOlderThanCall
<1> HIDE DEF m, s
<1> QED
  BY <1>2, <1>7, RowWriteIs

\* The calls of InsertSnapshots.
LEMMA InsertSnapshotsWrite ==
  ASSUME RowsOK, kind = "snapshots", NEW c \in InsertSnapshots
  PROVE  RowWrite(c)
<1> DEFINE t == tables.sqlite
<1>1. PICK x \in Fresh(SnapshotRows) :
        c = Call(ByOrg(x.org), MockInsertSnapshot(tables.mock, x), SqliteInsertSnapshot(tables.sqlite, x),
                 PostgresInsertSnapshot(tables.postgres, x))
  BY DEF InsertSnapshots
<1> DEFINE m == MockInsertSnapshot(t, x)
           s == SqliteInsertSnapshot(t, x)
<1>2. Good("snapshots", t) /\ c = Call(ByOrg(x.org), m, s, s)
  BY <1>1, RowTablesAre DEF PostgresInsertSnapshot
<1>3. x \in SnapshotRow /\ ~HasId(tables.sqlite, x)
  BY <1>1, StoreConstants DEF Fresh, Live
<1>7. CallOK("snapshots", x, t, m, s)
  BY <1>2, <1>3, InsertSnapshotCall
<1> HIDE DEF m, s
<1> QED
  BY <1>2, <1>7, RowWriteIs

\* The calls of InsertKeys.
LEMMA InsertKeysWrite ==
  ASSUME RowsOK, kind = "keys", NEW c \in InsertKeys
  PROVE  RowWrite(c)
<1> DEFINE t == tables.sqlite
<1>1. PICK k \in Fresh(KeyRows) :
        c = Call(ByOrg(k.org), MockInsertApiKey(tables.mock, k), SqliteInsertApiKey(tables.sqlite, k),
                 PostgresInsertApiKey(tables.postgres, k))
  BY DEF InsertKeys
<1> DEFINE m == MockInsertApiKey(t, k)
           s == SqliteInsertApiKey(t, k)
<1>2. Good("keys", t) /\ c = Call(ByOrg(k.org), m, s, s)
  BY <1>1, RowTablesAre DEF PostgresInsertApiKey
<1>3. k \in KeyRows /\ ~HasId(tables.sqlite, k)
  BY <1>1, StoreConstants DEF Fresh, Live
<1>4. Hashed(t)
  BY DEF RowsOK
<1> HIDE DEF t
<1>7. CallOK("keys", k, t, m, s) /\ Hashed(s.table)
  BY <1>2, <1>3, <1>4, InsertApiKeyCall DEF t
<1>8. \A r : Owned(kind, k, r) => ~Foreign(ByOrg(k.org), r)
  BY OwnNotForeign
<1> HIDE DEF m, s
<1> QED
  BY <1>2, <1>7, <1>8, RowWriteIs DEF t

\* The calls of RevokeKeys.
LEMMA RevokeKeysWrite ==
  ASSUME RowsOK, kind = "keys", NEW c \in RevokeKeys
  PROVE  RowWrite(c)
<1> DEFINE t == tables.sqlite
<1>1. PICK o \in Org, k \in KeyRows :
        c = Call(ByOrg(o), MockRevokeApiKey(tables.mock, o, k.id), SqliteRevokeApiKey(tables.sqlite, o, k.id),
                 PostgresRevokeApiKey(tables.postgres, o, k.id))
  BY DEF RevokeKeys
<1> DEFINE m == MockRevokeApiKey(t, o, k.id)
           s == SqliteRevokeApiKey(t, o, k.id)
<1>2. Good("keys", t) /\ c = Call(ByOrg(o), m, s, s)
  BY <1>1, RowTablesAre DEF PostgresRevokeApiKey
<1>4. Hashed(t)
  BY DEF RowsOK
<1> DEFINE n == [org |-> o]
<1>5. n.org = o
  OBVIOUS
<1> HIDE DEF n
<1>6. m = MockRevokeApiKey(t, n.org, k.id) /\ s = SqliteRevokeApiKey(t, n.org, k.id)
  BY <1>5
<1> HIDE DEF t, m, s
<1>7. CallOK("keys", n, t, m, s) /\ Hashed(s.table)
  BY <1>2, <1>4, <1>6, RevokeApiKeyCall
<1>8. \A r : Owned(kind, n, r) => ~Foreign(ByOrg(o), r)
  BY <1>5, OwnNotForeign
<1> QED
  BY <1>2, <1>7, <1>8, RowWriteIs DEF t

\* The calls of UpsertPlans.
LEMMA UpsertPlansWrite ==
  ASSUME RowsOK, kind = "plans", NEW c \in UpsertPlans
  PROVE  RowWrite(c)
<1> DEFINE t == tables.sqlite
<1>1. PICK p \in PlanRows :
        c = Call(ByOrg(p.org), MockUpsertOrgPlan(tables.mock, p), SqliteUpsertOrgPlan(tables.sqlite, p),
                 PostgresUpsertOrgPlan(tables.postgres, p))
  BY DEF UpsertPlans
<1> DEFINE m == MockUpsertOrgPlan(t, p)
           s == SqliteUpsertOrgPlan(t, p)
<1>2. Good("plans", t) /\ c = Call(ByOrg(p.org), m, s, s)
  BY <1>1, RowTablesAre DEF PostgresUpsertOrgPlan
<1>3. p \in PlanRow
  BY <1>1, StoreConstants DEF Fresh, Live
<1>7. CallOK("plans", p, t, m, s)
  BY <1>2, <1>3, UpsertOrgPlanCall
<1> HIDE DEF m, s
<1> QED
  BY <1>2, <1>7, RowWriteIs

\* The calls of DeletePlans.
LEMMA DeletePlansWrite ==
  ASSUME RowsOK, kind = "plans", NEW c \in DeletePlans
  PROVE  RowWrite(c)
<1> DEFINE t == tables.sqlite
<1>1. PICK o \in Org :
        c = Call(ByOrg(o), MockDeleteOrgPlan(tables.mock, o), SqliteDeleteOrgPlan(tables.sqlite, o),
                 PostgresDeleteOrgPlan(tables.postgres, o))
  BY DEF DeletePlans
<1> DEFINE m == MockDeleteOrgPlan(t, o)
           s == SqliteDeleteOrgPlan(t, o)
<1>2. Good("plans", t) /\ c = Call(ByOrg(o), m, s, s)
  BY <1>1, RowTablesAre DEF PostgresDeleteOrgPlan
<1>7. CallOK("plans", o, t, m, s)
  BY <1>2, DeleteOrgPlanCall
<1> HIDE DEF m, s
<1> QED
  BY <1>2, <1>7, RowWriteIs

\* The tables of the vector databases.
VectorsOK ==
  /\ kind = "vectors"
  /\ DOMAIN tables = {"mock", "qdrant", "lancedb"}
  /\ PointsOK(tables.mock, tables.qdrant, tables.lancedb)

\* What a call that writes does to them.
VectorWrite(c) ==
  /\ PointsOK(c.mock.table, c.qdrant.table, c.lancedb.table)
  /\ {r \in c.qdrant.table : Foreign(c.by, r)} = {r \in tables.qdrant : Foreign(c.by, r)}
  /\ {r \in c.lancedb.table : Foreign(c.by, r)} = {r \in tables.lancedb : Foreign(c.by, r)}
  /\ c.qdrant.answer.ok = {} => c.qdrant.table = tables.qdrant

\* A call of tenant n is a write.
LEMMA VectorWriteIs ==
  ASSUME kind = "vectors", NEW n, NEW m, NEW s, NEW d, NEW c, c = VectorCall(ByTenant(n), m, s, d),
         VectorCallOK(n, tables.mock, tables.qdrant, tables.lancedb, m, s, d)
  PROVE  VectorWrite(c)
<1>1. c.by = ByTenant(n) /\ c.mock = m /\ c.qdrant = s /\ c.lancedb = d
  BY DEF VectorCall
<1>2. \A r : Owns(n, r) => ~Foreign(c.by, r)
  <2>1. ByTenant(n).org = {n.org} /\ ByTenant(n).user = {n.user}
    BY DEF ByTenant
  <2> QED  BY <1>1, <2>1 DEF Foreign, Owns
<1>3. /\ PointsOK(m.table, s.table, d.table)
      /\ \A r : Owns(n, r) \/ (r \in s.table <=> r \in tables.qdrant)
      /\ \A r : Owns(n, r) \/ (r \in d.table <=> r \in tables.lancedb)
      /\ s.answer.ok = {} => s.table = tables.qdrant
  BY DEF VectorCallOK
<1>4. {r \in s.table : Foreign(c.by, r)} = {r \in tables.qdrant : Foreign(c.by, r)}
  BY <1>2, <1>3
<1>5. {r \in d.table : Foreign(c.by, r)} = {r \in tables.lancedb : Foreign(c.by, r)}
  BY <1>2, <1>3
<1> QED
  BY <1>1, <1>3, <1>4, <1>5 DEF VectorWrite

\* The calls of UpsertVectors.
LEMMA UpsertVectorsWrite ==
  ASSUME VectorsOK, NEW c \in UpsertVectors
  PROVE  VectorWrite(c)
<1>1. PICK n \in Tenant, p \in {o \in Points : ~HasId(tables.mock, o)} :
        c = VectorCall(ByTenant(n), MockUpsertVector(tables.mock, n, p),
                       QdrantUpsertVector(tables.qdrant, n, p), LanceUpsertVector(tables.lancedb, n, p))
  BY DEF UpsertVectors
<1> DEFINE m == MockUpsertVector(tables.mock, n, p)
           s == QdrantUpsertVector(tables.qdrant, n, p)
           d == LanceUpsertVector(tables.lancedb, n, p)
<1>2. p \in PointRow /\ ~HasId(tables.mock, p)
  BY <1>1, StoreConstants
<1>3. VectorCallOK(n, tables.mock, tables.qdrant, tables.lancedb, m, s, d)
  BY <1>2, UpsertVectorCall DEF VectorsOK
<1> HIDE DEF m, s, d
<1>4. c = VectorCall(ByTenant(n), m, s, d)
  BY <1>1 DEF m, s, d
<1> QED
  BY <1>3, <1>4, VectorWriteIs DEF VectorsOK

\* The calls of DeleteVectors.
LEMMA DeleteVectorsWrite ==
  ASSUME VectorsOK, NEW c \in DeleteVectors
  PROVE  VectorWrite(c)
<1>1. PICK n \in Tenant, p \in Points :
        c = VectorCall(ByTenant(n), MockDeleteByFactId(tables.mock, n, p.fact),
                       QdrantDeleteByFactId(tables.qdrant, n, p.fact),
                       LanceDeleteByFactId(tables.lancedb, n, p.fact))
  BY DEF DeleteVectors
<1> DEFINE m == MockDeleteByFactId(tables.mock, n, p.fact)
           s == QdrantDeleteByFactId(tables.qdrant, n, p.fact)
           d == LanceDeleteByFactId(tables.lancedb, n, p.fact)
<1>3. VectorCallOK(n, tables.mock, tables.qdrant, tables.lancedb, m, s, d)
  BY DeleteByFactIdCall DEF VectorsOK
<1> HIDE DEF m, s, d
<1>4. c = VectorCall(ByTenant(n), m, s, d)
  BY <1>1 DEF m, s, d
<1> QED
  BY <1>3, <1>4, VectorWriteIs DEF VectorsOK

\* The calls of DeleteUserVectors.
LEMMA DeleteUserVectorsWrite ==
  ASSUME VectorsOK, NEW c \in DeleteUserVectors
  PROVE  VectorWrite(c)
<1>1. PICK n \in Tenant :
        c = VectorCall(ByTenant(n), MockDeleteByUser(tables.mock, n),
                       QdrantDeleteByUser(tables.qdrant, n), LanceDeleteByUser(tables.lancedb, n))
  BY DEF DeleteUserVectors
<1> DEFINE m == MockDeleteByUser(tables.mock, n)
           s == QdrantDeleteByUser(tables.qdrant, n)
           d == LanceDeleteByUser(tables.lancedb, n)
<1>3. VectorCallOK(n, tables.mock, tables.qdrant, tables.lancedb, m, s, d)
  BY DeleteByUserCall DEF VectorsOK
<1> HIDE DEF m, s, d
<1>4. c = VectorCall(ByTenant(n), m, s, d)
  BY <1>1 DEF m, s, d
<1> QED
  BY <1>3, <1>4, VectorWriteIs DEF VectorsOK

\* The calls of retention.
LEMMA RetentionWrite ==
  ASSUME RowsOK, NEW dry \in BOOLEAN, NEW c \in Retention(dry)
  PROVE  RowWrite(c)
<1>1. CASE kind = "facts"   BY <1>1, PruneFactsWrite DEF Retention
<1>2. CASE kind = "events"  BY <1>2, PruneEventsWrite DEF Retention
<1>3. CASE kind = "usage"   BY <1>3, PruneUsageWrite DEF Retention
<1>4. CASE kind = "runs"    BY <1>4, PruneRunsWrite DEF Retention
<1> QED
  BY <1>1, <1>2, <1>3, <1>4 DEF Retention

-----------------------------------------------------------------------------
(* The inductive invariant. *)

StoresInv ==
  /\ kind \in Kinds
  /\ RowsOK \/ VectorsOK
  /\ walk = NoWalk \/ (RowsOK /\ WalkingOK(walk, kind, tables.sqlite))

\* It holds of the empty tables.
LEMMA StoresInvInit == StoresInit => StoresInv
<1> SUFFICES ASSUME StoresInit PROVE StoresInv
  OBVIOUS
<1>1. kind \in Kinds /\ walk = NoWalk
  BY DEF StoresInit
<1>2. CASE kind = "vectors"
  <2>1. tables = [b \in {"mock", "qdrant", "lancedb"} |-> {}]
    BY <1>2 DEF StoresInit, Backends, SqlFacts
  <2>2. tables.mock = {} /\ tables.qdrant = {} /\ tables.lancedb = {}
        /\ DOMAIN tables = {"mock", "qdrant", "lancedb"}
    BY <2>1
  <2>3. PointsOK({}, {}, {})
    BY FS_EmptySet DEF PointsOK, OnePoint
  <2> QED  BY <1>1, <1>2, <2>2, <2>3 DEF StoresInv, VectorsOK
<1>3. CASE kind # "vectors"
  <2>1. kind \in RowKinds
    BY <1>1, <1>3, StoreConstants DEF RowKinds
  <2>2. tables = [b \in {"mock", "sqlite", "postgres"} |->
                    IF kind = "facts" /\ b = "mock" THEN MockFacts ELSE {}]
    BY <1>3 DEF StoresInit, Backends, SqlFacts
  <2>3. /\ tables.mock = (IF kind = "facts" THEN MockFacts ELSE {})
        /\ tables.sqlite = {} /\ tables.postgres = {}
        /\ DOMAIN tables = {"mock", "sqlite", "postgres"}
    BY <2>2
  <2>4. Good(kind, {})
    BY FS_EmptySet DEF Good
  <2>5. MockOf({}) = MockFacts
    BY DEF MockOf, MockFacts
  <2>6. tables.mock = MockTable(kind, tables.sqlite)
    BY <2>3, <2>5 DEF MockTable
  <2>7. Hashed({})
    BY DEF Hashed
  <2> QED  BY <1>1, <2>1, <2>3, <2>4, <2>6, <2>7 DEF StoresInv, RowsOK, RowTables
<1> QED
  BY <1>2, <1>3

\* A call on rows keeps it.
LEMMA RowCommit ==
  ASSUME StoresInv, RowsOK, NEW c, RowWrite(c), Commit(c)
  PROVE  StoresInv'
<1> DEFINE u == c.sqlite.table
<1>1. /\ tables' = [b \in {"mock", "sqlite", "postgres"} |-> c[b].table]
      /\ kind' = kind
  BY DEF Commit, RowsOK
<1>2. /\ DOMAIN tables' = {"mock", "sqlite", "postgres"}
      /\ tables'.mock = c.mock.table /\ tables'.sqlite = u /\ tables'.postgres = c.postgres.table
  BY <1>1
<1>3. /\ c.postgres.table = u /\ Good(kind, u) /\ c.mock.table = MockTable(kind, u)
      /\ kind = "keys" => Hashed(u)
  BY DEF RowWrite
<1>4. RowTables'
  BY <1>1, <1>2, <1>3 DEF RowTables
<1>5. RowsOK'
  BY <1>1, <1>2, <1>3, <1>4 DEF RowsOK, RowTables
<1>6. CASE walk = NoWalk
  <2>1. walk' = NoWalk
    BY <1>6 DEF Commit, NoWalk
  <2> QED  BY <1>1, <1>5, <2>1 DEF StoresInv
<1>7. CASE WalkingOK(walk, kind, tables.sqlite)
  <2>1. walk.on = TRUE
    BY <1>7 DEF WalkingOK, WalkRecord
  <2>2. walk' = [walk EXCEPT !.stable = @ \cap Everything(walk.list, walk.tenant, u)]
    BY <2>1 DEF Commit
  <2>3. kind \in Kinds
    BY DEF StoresInv
  <2> HIDE DEF u
  <2>4. WalkingOK(walk', kind, u)
    BY <1>3, <1>7, <2>2, <2>3, WalkCommit
  <2>5. WalkingOK(walk, kind, tables.sqlite)'
    BY <1>1, <1>2, <2>4 DEF WalkingOK, WalkRecord, ListRows, Lists
  <2> QED  BY <1>1, <1>5, <2>3, <2>5 DEF StoresInv
<1> QED
  BY <1>6, <1>7 DEF StoresInv

\* A call on vectors keeps it.
LEMMA VectorCommit ==
  ASSUME StoresInv, VectorsOK, NEW c, VectorWrite(c), Commit(c)
  PROVE  StoresInv'
<1>1. /\ tables' = [b \in {"mock", "qdrant", "lancedb"} |-> c[b].table]
      /\ kind' = kind
  BY DEF Commit, VectorsOK
<1>2. /\ DOMAIN tables' = {"mock", "qdrant", "lancedb"}
      /\ tables'.mock = c.mock.table /\ tables'.qdrant = c.qdrant.table
      /\ tables'.lancedb = c.lancedb.table
  BY <1>1
<1>3. VectorsOK'
  BY <1>1, <1>2 DEF VectorsOK, VectorWrite
<1>4. walk = NoWalk
  BY DEF StoresInv, RowsOK, RowKinds, VectorsOK
<1>5. walk' = NoWalk
  BY <1>4 DEF Commit, NoWalk
<1> QED
  BY <1>1, <1>3, <1>5 DEF StoresInv

\* Limits are at least one, and bounded.
LEMMA LimitIs ==
  ASSUME NEW k \in Kinds, NEW list \in Lists(k), NEW a, NEW l \in NormalizeLimit(list, a)
  PROVE  l \in 1 .. MaxLimit
<1>1. list \in {"memories", "users", "events", "org_events", "keys", "usage", "runs", "snapshots"}
  BY ListNames
<1> USE DEF Allowed
<1>2. CASE list = "memories"
  BY <1>2 DEF NormalizeLimit, NormalizeListLimit
<1>3. CASE list = "users"
  BY <1>3 DEF NormalizeLimit, NormalizeOrgUsersLimit
<1>4. CASE list = "events"
  BY <1>4 DEF NormalizeLimit, NormalizeMemoryEventListLimit
<1>5. CASE list = "org_events"
  BY <1>5 DEF NormalizeLimit, NormalizeOrgMemoryEventsLimit
<1>6. CASE list = "keys"
  BY <1>6 DEF NormalizeLimit, ListApiKeysLimit
<1>7. CASE list = "usage"
  BY <1>7 DEF NormalizeLimit, ValidateProviderUsageLimit
<1>8. CASE list = "runs"
  BY <1>8 DEF NormalizeLimit, ValidateJobRunLimit
<1>9. CASE list = "snapshots"
  BY <1>9 DEF NormalizeLimit, ValidateSnapshotLimit
<1> QED
  BY <1>1, <1>2, <1>3, <1>4, <1>5, <1>6, <1>7, <1>8, <1>9

\* A client starts to page.
LEMMA WalkStart ==
  ASSUME StoresInv, StartWalk
  PROVE  StoresInv'
<1>0. PICK list \in Lists(kind), n \in Tenant, a \in Limits : \E l \in NormalizeLimit(list, a) :
        walk' = [on |-> TRUE, list |-> list, tenant |-> n, limit |-> l,
                 cursor |-> NoCursor, done |-> FALSE, listed |-> {}, again |-> {},
                 stable |-> Everything(list, n, tables.sqlite)]
  BY DEF StartWalk
<1>1. PICK l \in NormalizeLimit(list, a) :
        walk' = [on |-> TRUE, list |-> list, tenant |-> n, limit |-> l,
                 cursor |-> NoCursor, done |-> FALSE, listed |-> {}, again |-> {},
                 stable |-> Everything(list, n, tables.sqlite)]
  BY <1>0
<1>2. kind \in Kinds /\ kind' = kind /\ tables' = tables
  BY DEF StartWalk, StoresInv
<1>3. RowsOK
  <2>1. CASE VectorsOK
    BY <1>1, <2>1 DEF VectorsOK, Lists
  <2> QED  BY <2>1 DEF StoresInv
<1>4. Good(kind, tables.sqlite)
  BY <1>3 DEF RowsOK, RowTables
<1>5. Everything(list, n, tables.sqlite) = ListRows(list, n, tables.sqlite)
  BY <1>2, <1>4, EverythingIs
<1>6. l \in 1 .. MaxLimit
  BY <1>2, LimitIs
<1> DEFINE w == walk'
           E == Everything(list, n, tables.sqlite)
<1>7. w = [on |-> TRUE, list |-> list, tenant |-> n, limit |-> l,
           cursor |-> NoCursor, done |-> FALSE, listed |-> {}, again |-> {}, stable |-> E]
  BY <1>1
<1>8. E = ListRows(list, n, tables.sqlite)
  BY <1>5
<1> HIDE DEF E, w
<1>9. /\ WalkRecord(w) /\ w.list = list /\ w.tenant = n /\ w.limit = l /\ w.cursor = NoCursor
      /\ w.done = FALSE /\ w.listed = {} /\ w.again = {} /\ w.stable = E
  BY <1>7 DEF WalkRecord
<1>10. \A x : PushSqliteCursor(x, NoCursor)
  BY DEF PushSqliteCursor
<1>11. WalkingOK(w, kind, tables.sqlite)
  BY <1>6, <1>8, <1>9, <1>10 DEF WalkingOK
<1>12. WalkingOK(walk, kind, tables.sqlite)' /\ RowsOK'
  BY <1>2, <1>3, <1>11 DEF WalkingOK, WalkRecord, ListRows, Lists, w, RowsOK, RowTables
<1> QED
  BY <1>2, <1>12 DEF StoresInv

\* A client that pages.
LEMMA WalkingIs ==
  ASSUME StoresInv, walk.on
  PROVE  RowsOK /\ WalkingOK(walk, kind, tables.sqlite) /\ Good(kind, tables.sqlite) /\ kind \in Kinds
<1>1. walk # NoWalk
  BY DEF NoWalk
<1> QED
  BY <1>1 DEF StoresInv, RowsOK, RowTables

\* It gets the next page.
LEMMA WalkNext ==
  ASSUME StoresInv, NextPage
  PROVE  StoresInv'
<1> DEFINE page == Page(walk.list, Query(walk.tenant, walk.limit, walk.cursor), tables.sqlite)
<1>1. /\ walk.on /\ ~walk.done /\ kind' = kind /\ tables' = tables
      /\ walk' = [walk EXCEPT !.cursor = page.next,
                             !.done = page.next = NoCursor,
                             !.listed = @ \cup Range(page.items),
                             !.again = @ \cup (Range(page.items) \cap walk.listed)]
  BY DEF NextPage
<1>2. RowsOK /\ WalkingOK(walk, kind, tables.sqlite) /\ Good(kind, tables.sqlite) /\ kind \in Kinds
  BY <1>1, WalkingIs
<1>3. WalkingOK(walk', kind, tables.sqlite)
  BY <1>1, <1>2, WalkPage
<1>4. WalkingOK(walk, kind, tables.sqlite)' /\ RowsOK'
  BY <1>1, <1>2, <1>3 DEF WalkingOK, WalkRecord, ListRows, Lists, RowsOK, RowTables
<1> QED
  BY <1>1, <1>2, <1>4 DEF StoresInv

\* Every step keeps the invariant.
LEMMA StoresInvNext == StoresInv /\ [StoresNext]_storeVars => StoresInv'
<1> SUFFICES ASSUME StoresInv, [StoresNext]_storeVars PROVE StoresInv'
  OBVIOUS
<1>1. kind # "vectors" => RowsOK
  BY DEF StoresInv, VectorsOK
<1>2. kind = "vectors" => VectorsOK
  BY DEF StoresInv, RowsOK, RowKinds
<1>3. CASE InsertFact
  BY <1>1, <1>3, InsertFactsWrite, RowCommit DEF InsertFact
<1>4. CASE UpdateFact
  BY <1>1, <1>4, UpdateFactsWrite, RowCommit DEF UpdateFact
<1>5. CASE SoftDeleteFact
  BY <1>1, <1>5, SoftDeleteFactsWrite, RowCommit DEF SoftDeleteFact
<1>6. CASE DeleteUserData
  BY <1>1, <1>6, DeleteUsersWrite, RowCommit DEF DeleteUserData
<1>7. CASE RecordEvent
  BY <1>1, <1>7, RecordEventsWrite, RowCommit DEF RecordEvent
<1>8. CASE RecordUsage
  BY <1>1, <1>8, RecordUsagesWrite, RowCommit DEF RecordUsage
<1>9. CASE InsertRun
  BY <1>1, <1>9, InsertRunsWrite, RowCommit DEF InsertRun
<1>10. CASE InsertSnapshot
  BY <1>1, <1>10, InsertSnapshotsWrite, RowCommit DEF InsertSnapshot
<1>11. CASE InsertApiKey
  BY <1>1, <1>11, InsertKeysWrite, RowCommit DEF InsertApiKey
<1>12. CASE RevokeApiKey
  BY <1>1, <1>12, RevokeKeysWrite, RowCommit DEF RevokeApiKey
<1>13. CASE UpsertOrgPlan
  BY <1>1, <1>13, UpsertPlansWrite, RowCommit DEF UpsertOrgPlan
<1>14. CASE DeleteOrgPlan
  BY <1>1, <1>14, DeletePlansWrite, RowCommit DEF DeleteOrgPlan
<1>15. CASE UpsertVector
  BY <1>2, <1>15, UpsertVectorsWrite, VectorCommit DEF UpsertVector
<1>16. CASE DeleteByFactId
  BY <1>2, <1>16, DeleteVectorsWrite, VectorCommit DEF DeleteByFactId
<1>17. CASE DeleteByUser
  BY <1>2, <1>17, DeleteUserVectorsWrite, VectorCommit DEF DeleteByUser
<1>18. CASE ApplyRetention
  <2>1. PICK dry \in BOOLEAN : \E c \in Retention(dry) : Commit(c)
    BY <1>18 DEF ApplyRetention
  <2>2. RowsOK
    BY <1>1, <2>1 DEF Retention
  <2> QED  BY <2>1, <2>2, RetentionWrite, RowCommit
<1>19. CASE StartWalk
  BY <1>19, WalkStart
<1>20. CASE NextPage
  BY <1>20, WalkNext
<1>21. CASE EndWalk
  BY <1>21 DEF EndWalk, StoresInv, RowsOK, RowTables, VectorsOK
<1>22. CASE UNCHANGED storeVars
  BY <1>22 DEF storeVars, StoresInv, RowsOK, RowTables, VectorsOK, WalkingOK, WalkRecord, ListRows, Lists
<1> QED
  BY <1>3, <1>4, <1>5, <1>6, <1>7, <1>8, <1>9, <1>10, <1>11, <1>12, <1>13, <1>14, <1>15, <1>16, <1>17, <1>18, <1>19, <1>20, <1>21, <1>22 DEF StoresNext

\* The invariant of the ports' tables and of the client that pages.
LEMMA StoresInvariant == StoresSpec => []StoresInv
<1> QED
  BY StoresInvInit, StoresInvNext, PTL DEF StoresSpec

\* A client that follows next_cursor to the end (build_page, push_sqlite_cursor) sees
\* every row that stayed in the list, and sees it once, whatever calls come between.
THEOREM PagesAreComplete == StoresSpec => []PagesComplete
<1>1. ASSUME StoresInv
      PROVE  PagesComplete
  <2>1. CASE walk.on
    BY <1>1, <2>1, WalkingIs DEF PagesComplete, WalkingOK
  <2>2. CASE ~walk.on
    BY <2>2 DEF PagesComplete
  <2> QED  BY <2>1, <2>2
<1> QED
  BY <1>1, StoresInvariant, PTL

-----------------------------------------------------------------------------
(* What the calls leave in the tables. *)

\* Which tables a port has.
LEMMA PortIs ==
  ASSUME StoresInv
  PROVE  /\ kind # "vectors" => RowsOK
         /\ kind = "vectors" => VectorsOK
         /\ DOMAIN tables = Backends(kind)
<1>1. CASE RowsOK
  BY <1>1 DEF RowsOK, RowKinds, Backends
<1>2. CASE VectorsOK
  BY <1>2 DEF VectorsOK, Backends
<1> QED
  BY <1>1, <1>2 DEF StoresInv

\* Rows have one id and one place.
LEMMA TypeIs ==
  ASSUME StoresInv
  PROVE  StoresTypeOK
<1>1. kind \in Kinds /\ DOMAIN tables = Backends(kind)
  BY PortIs DEF StoresInv
<1>2. kind = "facts" => \A r, s \in tables.sqlite : r.fact.id = s.fact.id => r = s
  BY PortIs, RowTablesAre, FactTable
<1>3. ASSUME kind \in {"events", "usage", "runs", "snapshots", "keys"}, NEW b \in DOMAIN tables
      PROVE  \A r, s \in tables[b] : r.id = s.id => r = s
  <2>1. RowsOK
    BY <1>3, PortIs
  <2>2. tables[b] = tables.sqlite /\ Good(kind, tables.sqlite)
    <3>1. b \in {"mock", "sqlite", "postgres"}
      BY <2>1, <1>3 DEF RowsOK
    <3>2. kind # "facts"
      BY <1>3
    <3> QED  BY <2>1, <3>1, <3>2, RowTablesAre
  <2>3. kind \in Records
    BY <1>3 DEF Records
  <2> QED  BY <2>2, <2>3, RecordTable
<1>4. walk.on \in BOOLEAN
  <2>1. CASE walk = NoWalk
    <3>1. walk.on = FALSE
      BY <2>1 DEF NoWalk
    <3> QED  BY <3>1
  <2>2. CASE WalkingOK(walk, kind, tables.sqlite)
    <3>1. walk.on = TRUE
      BY <2>2 DEF WalkingOK, WalkRecord
    <3> QED  BY <3>1
  <2> QED  BY <2>1, <2>2 DEF StoresInv
<1>5. walk.on => /\ walk.list \in Lists(kind)
                 /\ walk.tenant \in Tenant
                 /\ walk.limit \in 1 .. MaxLimit
                 /\ walk.done \in BOOLEAN
                 /\ walk.again \subseteq walk.listed
  BY WalkingIs DEF WalkingOK
<1> QED
  BY <1>1, <1>2, <1>3, <1>4, <1>5 DEF StoresTypeOK

\* A write leaves other tenants' rows alone.
LEMMA RowsApart ==
  ASSUME RowsOK, kind \in {"facts", "events", "keys"}, NEW c, RowWrite(c)
  PROVE  Apart(c)
<1>1. DOMAIN tables \ {"mock"} = {"sqlite", "postgres"} /\ tables.postgres = tables.sqlite
  BY DEF RowsOK, RowTables
<1>2. /\ c.postgres = c.sqlite
      /\ {r \in c.sqlite.table : Foreign(c.by, r)} = {r \in tables.sqlite : Foreign(c.by, r)}
  BY DEF RowWrite
<1>3. {r \in c.postgres.table : Foreign(c.by, r)} = {r \in tables.postgres : Foreign(c.by, r)}
  BY <1>1, <1>2
<1> QED
  BY <1>1, <1>2, <1>3 DEF Apart

\* And other tenants' points.
LEMMA PointsApart ==
  ASSUME VectorsOK, NEW c, VectorWrite(c)
  PROVE  Apart(c)
<1>1. DOMAIN tables \ {"mock"} = {"qdrant", "lancedb"}
  BY DEF VectorsOK
<1> QED
  BY <1>1 DEF Apart, VectorWrite

\* So do all calls.
LEMMA WritesApart ==
  ASSUME StoresInv
  PROVE  TenantsIsolated
<1> SUFFICES ASSUME kind \in {"facts", "events", "keys", "vectors"}
             PROVE  EveryWrite(Apart)
  BY DEF TenantsIsolated
<1>1. ASSUME NEW c \in Retention(FALSE) PROVE Apart(c)
  <2>1. kind \in {"facts", "events"}
    BY DEF Retention
  <2>2. RowsOK
    BY <2>1, PortIs
  <2>3. RowWrite(c)
    BY <2>2, RetentionWrite
  <2> QED  BY <2>1, <2>2, <2>3, RowsApart
<1>2. ASSUME kind = "facts", NEW c \in InsertFacts \cup UpdateFacts PROVE Apart(c)
  BY <1>2, PortIs, InsertFactsWrite, UpdateFactsWrite, RowsApart
<1>3. ASSUME kind = "facts", NEW c \in SoftDeleteFacts \cup DeleteUsers PROVE Apart(c)
  BY <1>3, PortIs, SoftDeleteFactsWrite, DeleteUsersWrite, RowsApart
<1>4. ASSUME kind = "events", NEW c \in RecordEvents PROVE Apart(c)
  BY <1>4, PortIs, RecordEventsWrite, RowsApart
<1>5. ASSUME kind = "keys", NEW c \in InsertKeys PROVE Apart(c)
  BY <1>5, PortIs, InsertKeysWrite, RowsApart
<1>6. ASSUME kind = "keys", NEW c \in RevokeKeys PROVE Apart(c)
  BY <1>6, PortIs, RevokeKeysWrite, RowsApart
<1>7. ASSUME kind = "vectors", NEW c \in UpsertVectors \cup DeleteVectors \cup DeleteUserVectors
      PROVE  Apart(c)
  BY <1>7, PortIs, UpsertVectorsWrite, DeleteVectorsWrite, DeleteUserVectorsWrite, PointsApart
<1> QED
  BY <1>1, <1>2, <1>3, <1>4, <1>5, <1>6, <1>7 DEF EveryWrite

\* A call leaves one row for an id and one point for a fact, and other tenants' rows
\* as they were; a refused upsert leaves Qdrant's points (upsert_vector).
THEOREM TablesAreSound == StoresSpec => []TablesSound
<1>1. ASSUME StoresInv
      PROVE  TablesSound
  <2>1. StoresTypeOK
    BY <1>1, TypeIs
  <2>2. TenantsIsolated
    BY <1>1, WritesApart
  <2>3. OneVectorPerFact
    <3> SUFFICES ASSUME kind = "vectors"
                 PROVE  /\ \A b \in {"qdrant", "lancedb"} : \A p, q \in tables[b] :
                             p.fact = q.fact /\ TenantOf(p) = TenantOf(q) => p = q
                        /\ \A c \in UpsertVectors : c.qdrant.answer.ok = {} => c.qdrant.table = tables.qdrant
      BY DEF OneVectorPerFact
    <3>1. VectorsOK
      BY <1>1, PortIs
    <3>2. OnePoint(tables.qdrant) /\ OnePoint(tables.lancedb)
      BY <3>1 DEF VectorsOK, PointsOK
    <3>3. \A p, q : TenantOf(p) = TenantOf(q) => p.org = q.org /\ p.user = q.user
      BY DEF TenantOf
    <3>4. \A c \in UpsertVectors : c.qdrant.answer.ok = {} => c.qdrant.table = tables.qdrant
      BY <3>1, UpsertVectorsWrite DEF VectorWrite
    <3> QED  BY <3>2, <3>3, <3>4 DEF OnePoint
  <2> QED  BY <2>1, <2>2, <2>3 DEF TablesSound
<1> QED
  BY <1>1, StoresInvariant, PTL

-----------------------------------------------------------------------------
(* What the backends answer. *)

\* A write that all accept or all refuse.
LEMMA WriteAnswers ==
  ASSUME NEW c, RowWrite(c)
  PROVE  SameAnswers(c)
  BY DEF RowWrite, SameAnswers, Agree

\* So do all calls on rows.
LEMMA WritesAgree ==
  ASSUME RowsOK
  PROVE  EveryWrite(SameAnswers) /\ \A c \in Retention(TRUE) : SameAnswers(c)
<1>1. \A c \in Retention(FALSE) : SameAnswers(c)
  BY RetentionWrite, WriteAnswers
<1>2. \A c \in Retention(TRUE) : SameAnswers(c)
  BY RetentionWrite, WriteAnswers
<1>3. ASSUME kind = "facts", NEW c \in InsertFacts \cup UpdateFacts PROVE SameAnswers(c)
  BY <1>3, InsertFactsWrite, UpdateFactsWrite, WriteAnswers
<1>4. ASSUME kind = "facts", NEW c \in SoftDeleteFacts \cup DeleteUsers PROVE SameAnswers(c)
  BY <1>4, SoftDeleteFactsWrite, DeleteUsersWrite, WriteAnswers
<1>5. ASSUME kind = "events", NEW c \in RecordEvents PROVE SameAnswers(c)
  BY <1>5, RecordEventsWrite, WriteAnswers
<1>6. ASSUME kind = "usage", NEW c \in RecordUsages PROVE SameAnswers(c)
  BY <1>6, RecordUsagesWrite, WriteAnswers
<1>7. ASSUME kind = "runs", NEW c \in InsertRuns PROVE SameAnswers(c)
  BY <1>7, InsertRunsWrite, WriteAnswers
<1>8. ASSUME kind = "snapshots", NEW c \in InsertSnapshots PROVE SameAnswers(c)
  BY <1>8, InsertSnapshotsWrite, WriteAnswers
<1>9. ASSUME kind = "keys", NEW c \in InsertKeys PROVE SameAnswers(c)
  BY <1>9, InsertKeysWrite, WriteAnswers
<1>10. ASSUME kind = "keys", NEW c \in RevokeKeys PROVE SameAnswers(c)
  BY <1>10, RevokeKeysWrite, WriteAnswers
<1>11. ASSUME kind = "plans", NEW c \in UpsertPlans PROVE SameAnswers(c)
  BY <1>11, UpsertPlansWrite, WriteAnswers
<1>12. ASSUME kind = "plans", NEW c \in DeletePlans PROVE SameAnswers(c)
  BY <1>12, DeletePlansWrite, WriteAnswers
<1>13. kind # "vectors"
  BY DEF RowsOK, RowKinds
<1> QED
  BY <1>1, <1>2, <1>3, <1>4, <1>5, <1>6, <1>7, <1>8, <1>9, <1>10, <1>11, <1>12, <1>13 DEF EveryWrite

\* The queries in which the mock does not differ.
Exact(q) == q.text \cap Wildcards = {} /\ {} \notin q.types

\* search_facts.
LEMMA SearchFactsAgree ==
  ASSUME NEW t, Good("facts", t), NEW q
  PROVE  /\ PostgresSearchFacts(t, q) = SqliteSearchFacts(t, q)
         /\ Exact(q) => MockSearchFacts(MockOf(t), q) = SqliteSearchFacts(t, q)
<1> DEFINE l == PageFetchLimit(q.limit)
           S == {f \in {r.fact : r \in {s \in t : q.deleted \/ ~s.deleted}} :
                   /\ Owns(q.tenant, f)
                   /\ \A types \in q.types : types = {} \/ f.type \in types
                   /\ \A text \in q.text : SqliteLike(f.text, text)
                   /\ PushSqliteCursor(f, q.cursor)}
           P == {f \in {r.fact : r \in {s \in t : q.deleted \/ ~s.deleted}} :
                   /\ Owns(q.tenant, f)
                   /\ \A types \in q.types : types = {} \/ f.type \in types
                   /\ \A text \in q.text : PostgresLike(f.text, text)
                   /\ PushPostgresCursor(f, q.cursor)}
           m == MockOf(t)
           M == {f \in m.facts :
                   /\ Owns(q.tenant, f)
                   /\ q.deleted \/ f.id \notin m.deleted
                   /\ \A types \in q.types : f.type \in types
                   /\ \A text \in q.text : TextContains(f.text, text)
                   /\ IsAfterCursor(f, q.cursor)}
<1>1. /\ SqliteSearchFacts(t, q) = Ok(Newest(S, l)) /\ PostgresSearchFacts(t, q) = Ok(Newest(P, l))
      /\ MockSearchFacts(m, q) = Ok(Newest(M, l))
  BY DEF SqliteSearchFacts, PostgresSearchFacts, MockSearchFacts
<1>2. P = S
  BY DEF SqliteLike, PostgresLike, PushSqliteCursor, PushPostgresCursor
<1>3. m.facts = {r.fact : r \in t} /\ \A r \in t : r.fact.id \in m.deleted <=> r.deleted
  BY MockKnows
<1> HIDE DEF m
<1>4. Exact(q) => M = S
  <2> SUFFICES ASSUME Exact(q) PROVE M = S
    OBVIOUS
  <2>1. \A f : (\A text \in q.text : SqliteLike(f.text, text)) <=> (\A text \in q.text : TextContains(f.text, text))
    BY DEF Exact, SqliteLike, TextContains
  <2>2. \A f : (\A types \in q.types : types = {} \/ f.type \in types) <=> (\A types \in q.types : f.type \in types)
    BY DEF Exact
  <2>3. \A f : IsAfterCursor(f, q.cursor) <=> PushSqliteCursor(f, q.cursor)
    BY DEF IsAfterCursor, PushSqliteCursor
  <2>4. ASSUME NEW f
        PROVE  /\ f \in {r.fact : r \in {s \in t : q.deleted \/ ~s.deleted}} <=>
                    f \in m.facts /\ (q.deleted \/ f.id \notin m.deleted)
    BY <1>3
  <2> QED  BY <2>1, <2>2, <2>3, <2>4
<1> HIDE DEF S, P, M, l
<1> QED
  BY <1>1, <1>2, <1>4 DEF m

\* get_fact.
LEMMA GetFactAgrees ==
  ASSUME NEW t, Good("facts", t), NEW n, NEW i
  PROVE  MockGetFact(MockOf(t), n, i) = SqliteGetFact(t, n, i) /\ PostgresGetFact(t, n, i) = SqliteGetFact(t, n, i)
  BY MockKnows DEF MockGetFact, SqliteGetFact, PostgresGetFact

\* list_users_by_org, on its first page.
LEMMA ListUsersAgree ==
  ASSUME NEW t, Good("facts", t), NEW q, q.cursor = NoCursor
  PROVE  /\ MockListUsersByOrg(MockOf(t), q) = SqliteListUsersByOrg(t, q)
         /\ PostgresListUsersByOrg(t, q) = SqliteListUsersByOrg(t, q)
<1> DEFINE U == UserSummaries(Active(t), q.org)
           S == {u \in U : PushSqliteCursor(u, q.cursor)}
           M == {u \in U : IsAfterCursor(u, q.cursor)}
<1>1. S = U /\ M = U
  BY DEF PushSqliteCursor, IsAfterCursor
<1>2. MockActive(MockOf(t)) = Active(t)
  BY MockKnows
<1>3. /\ MockListUsersByOrg(MockOf(t), q) = Ok(Newest(M, PageFetchLimit(q.limit)))
      /\ SqliteListUsersByOrg(t, q) = Ok(Newest(S, PageFetchLimit(q.limit)))
      /\ PostgresListUsersByOrg(t, q) = Ok(Newest(U, PageFetchLimit(q.limit)))
  BY <1>2 DEF MockListUsersByOrg, SqliteListUsersByOrg, PostgresListUsersByOrg
<1> HIDE DEF S, M, U
<1> QED
  BY <1>1, <1>3

\* The port of facts.
LEMMA FactQueries ==
  ASSUME RowsOK, kind = "facts", NEW q
  PROVE  QueryAgrees(q)
<1>1. Good("facts", tables.sqlite) /\ tables.postgres = tables.sqlite /\ tables.mock = MockOf(tables.sqlite)
  BY RowTablesAre
<1> DEFINE t == tables.sqlite
<1>2. /\ PostgresSearchFacts(t, q) = SqliteSearchFacts(t, q)
      /\ Exact(q) => MockSearchFacts(MockOf(t), q) = SqliteSearchFacts(t, q)
  BY <1>1, SearchFactsAgree
<1>3. \A i : /\ MockGetFact(MockOf(t), q.tenant, i) = SqliteGetFact(t, q.tenant, i)
             /\ PostgresGetFact(t, q.tenant, i) = SqliteGetFact(t, q.tenant, i)
  BY <1>1, GetFactAgrees
<1>4. q.cursor = NoCursor => /\ MockListUsersByOrg(MockOf(t), q) = SqliteListUsersByOrg(t, q)
                             /\ PostgresListUsersByOrg(t, q) = SqliteListUsersByOrg(t, q)
  BY <1>1, ListUsersAgree
<1> QED
  BY <1>1, <1>2, <1>3, <1>4 DEF QueryAgrees, Agree, Exact

\* list_events and list_events_by_org.
LEMMA EventsAgree ==
  ASSUME NEW t, NEW q
  PROVE  /\ PostgresListEvents(t, q) = SqliteListEvents(t, q)
         /\ PostgresListEventsByOrg(t, q) = SqliteListEventsByOrg(t, q)
         /\ Exact(q) => MockListEvents(t, q) = SqliteListEvents(t, q)
         /\ Exact(q) => MockListEventsByOrg(t, q) = SqliteListEventsByOrg(t, q)
<1> DEFINE l == PageFetchLimit(q.limit)
           S == {e \in t : /\ Owns(q.tenant, e)
                           /\ \A f \in q.fact : e.fact = f
                           /\ \A o \in q.operation : e.operation = o
                           /\ InWindow(e, q)
                           /\ \A x \in q.text : SqliteLike(e.text, x)
                           /\ PushSqliteCursor(e, q.cursor)}
           P == {e \in t : /\ Owns(q.tenant, e)
                           /\ \A f \in q.fact : e.fact = f
                           /\ \A o \in q.operation : e.operation = o
                           /\ InWindow(e, q)
                           /\ \A x \in q.text : PostgresLike(e.text, x)
                           /\ PushPostgresCursor(e, q.cursor)}
           M == {e \in t : /\ Owns(q.tenant, e)
                           /\ \A f \in q.fact : e.fact = f
                           /\ \A o \in q.operation : e.operation = o
                           /\ InWindow(e, q)
                           /\ \A x \in q.text : TextContains(e.text, x)
                           /\ IsAfterCursor(e, q.cursor)}
           So == {e \in OrgEvents(t, q, SqliteLike) : PushSqliteCursor(e, q.cursor)}
           Po == {e \in OrgEvents(t, q, PostgresLike) : PushPostgresCursor(e, q.cursor)}
           Mo == {e \in OrgEvents(t, q, TextContains) : IsAfterCursor(e, q.cursor)}
<1>1. /\ SqliteListEvents(t, q) = Ok(Newest(S, l)) /\ PostgresListEvents(t, q) = Ok(Newest(P, l))
      /\ MockListEvents(t, q) = Ok(Newest(M, l))
  BY DEF SqliteListEvents, PostgresListEvents, MockListEvents
<1>2. /\ SqliteListEventsByOrg(t, q) = Ok(Newest(So, l)) /\ PostgresListEventsByOrg(t, q) = Ok(Newest(Po, l))
      /\ MockListEventsByOrg(t, q) = Ok(Newest(Mo, l))
  BY DEF SqliteListEventsByOrg, PostgresListEventsByOrg, MockListEventsByOrg
<1>3. \A e : /\ PushPostgresCursor(e, q.cursor) <=> PushSqliteCursor(e, q.cursor)
             /\ IsAfterCursor(e, q.cursor) <=> PushSqliteCursor(e, q.cursor)
  BY DEF IsAfterCursor, PushSqliteCursor, PushPostgresCursor
<1>4. \A x, y : /\ PostgresLike(x, y) <=> SqliteLike(x, y)
                /\ Exact(q) /\ y \in q.text => (TextContains(x, y) <=> SqliteLike(x, y))
  BY DEF Exact, SqliteLike, PostgresLike, TextContains
<1>5. P = S
  BY <1>3, <1>4
<1>6. Exact(q) => M = S
  BY <1>3, <1>4
<1>7. Po = So
  BY <1>3, <1>4 DEF OrgEvents
<1>8. Exact(q) => Mo = So
  BY <1>3, <1>4 DEF OrgEvents
<1> HIDE DEF S, P, M, So, Po, Mo, l
<1> QED
  BY <1>1, <1>2, <1>5, <1>6, <1>7, <1>8

\* The port of events.
LEMMA EventQueries ==
  ASSUME RowsOK, kind = "events", NEW q
  PROVE  QueryAgrees(q)
<1>1. tables.postgres = tables.sqlite /\ tables.mock = tables.sqlite
  BY RowTablesAre
<1> DEFINE t == tables.sqlite
<1>2. /\ PostgresListEvents(t, q) = SqliteListEvents(t, q)
      /\ PostgresListEventsByOrg(t, q) = SqliteListEventsByOrg(t, q)
      /\ Exact(q) => MockListEvents(t, q) = SqliteListEvents(t, q)
      /\ Exact(q) => MockListEventsByOrg(t, q) = SqliteListEventsByOrg(t, q)
  BY EventsAgree
<1>3. /\ MockCountEventsByOrg(t, q.org) = SqliteCountEventsByOrg(t, q.org)
      /\ PostgresCountEventsByOrg(t, q.org) = SqliteCountEventsByOrg(t, q.org)
  BY DEF MockCountEventsByOrg, SqliteCountEventsByOrg, PostgresCountEventsByOrg
<1> QED
  BY <1>1, <1>2, <1>3 DEF QueryAgrees, Agree, Exact

\* The mocks cut a page from all rows, the databases fetch limit + 1.
LEMMA FetchedPage ==
  ASSUME NEW P, Ranked(P), NEW l \in Nat \ {0}
  PROVE  BuildPage(NewestFirst(P), l) = BuildPage(Newest(P, l + 1), l)
<1> DEFINE R == {p \in P \X P : NewerRow(p[1], p[2])}
           s == NewestFirst(P)
           a == Newest(P, l + 1)
<1>1. s = Sorted(P, R) /\ a = AtMost(s, l + 1)
  BY DEF NewestFirst, Newest
<1>2. StrictOrder(P, R) /\ IsFiniteSet(P)
  BY NewerOrder DEF Ranked
<1> HIDE DEF R, s, a
<1>3. s \in Seq(P) /\ Len(s) \in Nat
  BY <1>1, <1>2, SortedIs
<1>4. l \in Nat /\ l >= 1
  OBVIOUS
<1>5. CASE Len(s) <= l
  <2>1. a = SubSeq(s, 1, Len(s))
    BY <1>1, <1>3, <1>4, <1>5 DEF AtMost
  <2>2. a = s
    BY <1>3, <2>1
  <2> QED  BY <2>2 DEF s, a
<1>6. CASE Len(s) > l
  <2>1. a = SubSeq(s, 1, l + 1)
    BY <1>1, <1>3, <1>4, <1>6 DEF AtMost
  <2>2. /\ Len(a) = l + 1 /\ a \in Seq(P)
        /\ \A i \in 1 .. l + 1 : a[i] = s[i]
    BY <1>3, <1>4, <1>6, <2>1
  <2>3. SubSeq(a, 1, l) = SubSeq(s, 1, l)
    BY <1>3, <1>4, <1>6, <2>2
  <2>4. a[l] = s[l]
    BY <1>4, <2>2
  <2>5. /\ BuildPage(s, l) = [items |-> SubSeq(s, 1, l), next |-> CursorOf(s[l])]
        /\ BuildPage(a, l) = [items |-> SubSeq(a, 1, l), next |-> CursorOf(a[l])]
    BY <1>4, <1>6, <2>2 DEF BuildPage
  <2> QED  BY <2>3, <2>4, <2>5 DEF s, a
<1> QED
  BY <1>3, <1>4, <1>5, <1>6

\* The rows of a table of records.
LEMMA RecordsRanked ==
  ASSUME NEW k \in Records, NEW t, Good(k, t), NEW P, P \subseteq t
  PROVE  Ranked(P)
<1>1. IsFiniteSet(t) /\ t \subseteq RowType(k) /\ \A r, s \in t : r.id = s.id => r = s
  BY RecordTable
<1>2. \A r \in t : r.time \in Int /\ r.id \in Int
  <2>1. CASE k = "events"
    <3>1. t \subseteq EventRow
      BY <1>1, <2>1, RowTypes
    <3> QED  BY <3>1 DEF EventRow
  <2>2. CASE k = "usage"
    <3>1. t \subseteq UsageRow
      BY <1>1, <2>2, RowTypes
    <3> QED  BY <3>1 DEF UsageRow
  <2>3. CASE k = "runs"
    <3>1. t \subseteq RunRow
      BY <1>1, <2>3, RowTypes
    <3> QED  BY <3>1 DEF RunRow
  <2>4. CASE k = "snapshots"
    <3>1. t \subseteq SnapshotRow
      BY <1>1, <2>4, RowTypes
    <3> QED  BY <3>1 DEF SnapshotRow
  <2>5. CASE k = "keys"
    <3>1. t \subseteq KeyRow
      BY <1>1, <2>5, RowTypes
    <3> QED  BY <3>1 DEF KeyRow
  <2> QED  BY <2>1, <2>2, <2>3, <2>4, <2>5 DEF Records
<1>3. IsFiniteSet(P)
  BY <1>1, FS_Subset
<1> QED
  BY <1>1, <1>2, <1>3 DEF Ranked

\* query_usage and query_usage_daily.
LEMMA UsageQueries ==
  ASSUME RowsOK, kind = "usage", NEW q, q.limit \in Nat \ {0}
  PROVE  QueryAgrees(q)
<1>1. Good("usage", tables.sqlite) /\ tables.postgres = tables.sqlite /\ tables.mock = tables.sqlite
  BY RowTablesAre
<1> DEFINE t == tables.sqlite
           M == {u \in {v \in t : MatchesUsage(v, q)} : IsAfterCursor(u, q.cursor)}
           S == {u \in t : SqliteUsageFilters(u, q) /\ PushSqliteCursor(u, q.cursor)}
           all == {u \in t : MatchesUsage(u, q)}
           rows == {u \in t : SqliteUsageFilters(u, q)}
<1>2. M = S /\ all = rows
  BY DEF MatchesUsage, SqliteUsageFilters, IsAfterCursor, PushSqliteCursor
<1>3. MockQueryUsage(t, q) = Ok([page |-> BuildPage(NewestFirst(M), q.limit), summary |-> ComputeSummary(all)])
  BY DEF MockQueryUsage
<1>4. SqliteQueryUsage(t, q) = Ok([page |-> BuildPage(Newest(S, q.limit + 1), q.limit),
                                   summary |-> ComputeSummary(rows)])
  BY DEF SqliteQueryUsage, SqliteQuerySummary, PageFetchLimit
<1>5. Ranked(S)
  <2>1. S \subseteq t /\ "usage" \in Records
    BY DEF Records
  <2> HIDE DEF S
  <2> QED  BY <1>1, <2>1, RecordsRanked
<1> DEFINE md == {u \in t : MatchesDaily(u, q)}
           sd == {u \in t : SqliteDailyFilters(u, q)}
           pd == {u \in t : PostgresDailyFilters(u, q)}
<1>6. md = sd /\ pd = sd
  BY DEF MatchesDaily, SqliteDailyFilters, PostgresDailyFilters
<1>7. /\ MockQueryUsageDaily(t, q) = Ok(DailyBuckets(md)) /\ SqliteQueryUsageDaily(t, q) = Ok(DailyBuckets(sd))
      /\ PostgresQueryUsageDaily(t, q) = Ok(DailyBuckets(pd))
  BY DEF MockQueryUsageDaily, SqliteQueryUsageDaily, PostgresQueryUsageDaily
<1> HIDE DEF M, S, all, rows, md, sd, pd
<1>8. MockQueryUsage(t, q) = SqliteQueryUsage(t, q)
  BY <1>2, <1>3, <1>4, <1>5, FetchedPage
<1>9. MockQueryUsageDaily(t, q) = SqliteQueryUsageDaily(t, q) /\ PostgresQueryUsageDaily(t, q) = SqliteQueryUsageDaily(t, q)
  BY <1>6, <1>7
<1> QED
  BY <1>1, <1>8, <1>9 DEF QueryAgrees, Agree

\* query_runs.
LEMMA RunQueries ==
  ASSUME RowsOK, kind = "runs", NEW q, q.limit \in Nat \ {0}
  PROVE  QueryAgrees(q)
<1>1. Good("runs", tables.sqlite) /\ tables.postgres = tables.sqlite /\ tables.mock = tables.sqlite
  BY RowTablesAre
<1> DEFINE t == tables.sqlite
           M == {r \in t : MatchesRun(r, q) /\ IsAfterCursor(r, q.cursor)}
           S == {r \in t : SqliteRunFilters(r, q) /\ PushSqliteCursor(r, q.cursor)}
           P == {r \in t : PostgresRunFilters(r, q) /\ PushPostgresCursor(r, q.cursor)}
<1>2. M = S /\ P = S
  BY DEF MatchesRun, SqliteRunFilters, PostgresRunFilters, IsAfterCursor, PushSqliteCursor, PushPostgresCursor
<1>3. /\ MockQueryRuns(t, q) = Ok(BuildPage(NewestFirst(M), q.limit))
      /\ SqliteQueryRuns(t, q) = Ok(BuildPage(Newest(S, q.limit + 1), q.limit))
      /\ PostgresQueryRuns(t, q) = Ok(BuildPage(Newest(P, q.limit + 1), q.limit))
  BY DEF MockQueryRuns, SqliteQueryRuns, PostgresQueryRuns, PageFetchLimit
<1>4. S \subseteq t /\ "runs" \in Records
  BY DEF Records
<1> HIDE DEF M, S, P
<1>5. Ranked(S)
  BY <1>1, <1>4, RecordsRanked
<1>6. MockQueryRuns(t, q) = SqliteQueryRuns(t, q) /\ PostgresQueryRuns(t, q) = SqliteQueryRuns(t, q)
  BY <1>2, <1>3, <1>5, FetchedPage
<1> QED
  BY <1>1, <1>6 DEF QueryAgrees, Agree

\* query_snapshots.
LEMMA SnapshotQueries ==
  ASSUME RowsOK, kind = "snapshots", NEW q, q.limit \in Nat \ {0}
  PROVE  QueryAgrees(q)
<1>1. Good("snapshots", tables.sqlite) /\ tables.postgres = tables.sqlite /\ tables.mock = tables.sqlite
  BY RowTablesAre
<1> DEFINE t == tables.sqlite
           M == {s \in t : /\ s.org = q.org
                           /\ InWindow(s, q)
                           /\ IsAfterCursor(s, q.cursor)}
           S == {s \in t : /\ s.org = q.org
                           /\ InWindow(s, q)
                           /\ PushSqliteCursor(s, q.cursor)}
           P == {s \in t : /\ s.org = q.org
                           /\ InWindow(s, q)
                           /\ PushPostgresCursor(s, q.cursor)}
<1>2. M = S /\ P = S
  BY DEF IsAfterCursor, PushSqliteCursor, PushPostgresCursor
<1>3. /\ MockQuerySnapshots(t, q) = Ok(BuildPage(NewestFirst(M), q.limit))
      /\ SqliteQuerySnapshots(t, q) = Ok(BuildPage(Newest(S, q.limit + 1), q.limit))
      /\ PostgresQuerySnapshots(t, q) = Ok(BuildPage(Newest(P, q.limit + 1), q.limit))
  BY DEF MockQuerySnapshots, SqliteQuerySnapshots, PostgresQuerySnapshots, PageFetchLimit
<1>4. S \subseteq t /\ "snapshots" \in Records
  BY DEF Records
<1> HIDE DEF M, S, P
<1>5. Ranked(S)
  BY <1>1, <1>4, RecordsRanked
<1>6. MockQuerySnapshots(t, q) = SqliteQuerySnapshots(t, q) /\ PostgresQuerySnapshots(t, q) = SqliteQuerySnapshots(t, q)
  BY <1>2, <1>3, <1>5, FetchedPage
<1> QED
  BY <1>1, <1>6 DEF QueryAgrees, Agree

\* list_api_keys and find_by_hash.
LEMMA KeyQueries ==
  ASSUME RowsOK, kind = "keys", NEW q
  PROVE  QueryAgrees(q)
<1>1. tables.postgres = tables.sqlite /\ tables.mock = tables.sqlite
  BY RowTablesAre
<1> DEFINE t == tables.sqlite
           M == {k \in t : /\ k.org = q.org
                           /\ q.revoked \/ ~k.revoked
                           /\ IsAfterCursor(k, q.cursor)}
           S == {k \in t : /\ k.org = q.org
                           /\ q.revoked \/ ~k.revoked
                           /\ PushSqliteCursor(k, q.cursor)}
           P == {k \in t : /\ k.org = q.org
                           /\ q.revoked \/ ~k.revoked
                           /\ PushPostgresCursor(k, q.cursor)}
<1>2. M = S /\ P = S
  BY DEF IsAfterCursor, PushSqliteCursor, PushPostgresCursor
<1>3. /\ MockListApiKeys(t, q) = Ok(Newest(M, PageFetchLimit(q.limit)))
      /\ SqliteListApiKeys(t, q) = Ok(Newest(S, PageFetchLimit(q.limit)))
      /\ PostgresListApiKeys(t, q) = Ok(Newest(P, PageFetchLimit(q.limit)))
  BY DEF MockListApiKeys, SqliteListApiKeys, PostgresListApiKeys
<1> HIDE DEF M, S, P
<1>4. MockListApiKeys(t, q) = SqliteListApiKeys(t, q) /\ PostgresListApiKeys(t, q) = SqliteListApiKeys(t, q)
  BY <1>2, <1>3
<1>5. \A h : /\ MockFindByHash(t, h) = SqliteFindByHash(t, h)
             /\ PostgresFindByHash(t, h) = SqliteFindByHash(t, h)
  BY DEF MockFindByHash, SqliteFindByHash, PostgresFindByHash
<1> QED
  BY <1>1, <1>4, <1>5 DEF QueryAgrees, Agree

\* get_org_plan.
LEMMA PlanQueries ==
  ASSUME RowsOK, kind = "plans", NEW q
  PROVE  QueryAgrees(q)
<1>1. tables.postgres = tables.sqlite /\ tables.mock = tables.sqlite
  BY RowTablesAre
<1> QED
  BY <1>1 DEF QueryAgrees, Agree, MockGetOrgPlan, SqliteGetOrgPlan, PostgresGetOrgPlan

\* The ports of rows.
LEMMA RowsAnswer ==
  ASSUME StoresInv
  PROVE  RowsAgree
<1> SUFFICES ASSUME kind # "vectors"
             PROVE  /\ EveryWrite(SameAnswers)
                    /\ \A c \in Retention(TRUE) : SameAnswers(c)
                    /\ \A q \in Queries : QueryAgrees(q)
                    /\ MockRows = tables.sqlite
  BY DEF RowsAgree
<1>1. RowsOK
  BY PortIs
<1>2. EveryWrite(SameAnswers) /\ \A c \in Retention(TRUE) : SameAnswers(c)
  BY <1>1, WritesAgree
<1>3. ASSUME NEW q \in Queries
      PROVE  QueryAgrees(q)
  <2>1. q.limit \in Nat \ {0}
    BY StoreConstants
  <2>2. kind \in RowKinds
    BY <1>1 DEF RowsOK
  <2>3. CASE kind = "facts"      BY <1>1, <2>3, FactQueries
  <2>4. CASE kind = "events"     BY <1>1, <2>4, EventQueries
  <2>5. CASE kind = "usage"      BY <1>1, <2>1, <2>5, UsageQueries
  <2>6. CASE kind = "runs"       BY <1>1, <2>1, <2>6, RunQueries
  <2>7. CASE kind = "snapshots"  BY <1>1, <2>1, <2>7, SnapshotQueries
  <2>8. CASE kind = "keys"       BY <1>1, <2>8, KeyQueries
  <2>9. CASE kind = "plans"      BY <1>1, <2>9, PlanQueries
  <2> QED
    BY <2>2, <2>3, <2>4, <2>5, <2>6, <2>7, <2>8, <2>9 DEF RowKinds
<1>4. MockRows = tables.sqlite
  <2>1. CASE kind # "facts"
    BY <1>1, <2>1, RowTablesAre DEF MockRows
  <2>2. CASE kind = "facts"
    <3> DEFINE t == tables.sqlite
               m == MockOf(t)
    <3>1. Good("facts", t) /\ tables.mock = m
      BY <1>1, <2>2, RowTablesAre
    <3>2. m.facts = {r.fact : r \in t} /\ \A r \in t : r.fact.id \in m.deleted <=> r.deleted
      BY <3>1, MockKnows
    <3>3. \A r \in t : r = [fact |-> r.fact, deleted |-> r.deleted] /\ r.deleted \in BOOLEAN
      BY <3>1, FactTable
    <3>4. MockRows = {[fact |-> f, deleted |-> f.id \in m.deleted] : f \in m.facts}
      BY <2>2, <3>1 DEF MockRows
    <3> HIDE DEF m, t
    <3>5. \A r \in t : [fact |-> r.fact, deleted |-> r.fact.id \in m.deleted] = r
      <4> SUFFICES ASSUME NEW r \in t PROVE [fact |-> r.fact, deleted |-> r.fact.id \in m.deleted] = r
        OBVIOUS
      <4>1. (r.fact.id \in m.deleted) = r.deleted
        BY <3>2, <3>3
      <4> QED  BY <3>3, <4>1
    <3>6. {[fact |-> f, deleted |-> f.id \in m.deleted] : f \in m.facts} = t
      BY <3>2, <3>5
    <3> QED  BY <3>4, <3>6 DEF t
  <2> QED  BY <2>1, <2>2
<1> QED
  BY <1>2, <1>3, <1>4

\* The n best points.
LEMMA BestIs ==
  ASSUME NEW S, IsFiniteSet(S), \A x \in S : x.score \in Int /\ x.id \in Int,
         \A x, y \in S : x.id = y.id => x = y, NEW n \in Nat, NEW s, s = Best(S, n)
  PROVE  /\ Len(s) <= n /\ DOMAIN s = 1 .. Len(s) /\ Range(s) \subseteq S
         /\ \A i \in DOMAIN s : s[i] \in S
         /\ \A i, j \in DOMAIN s : s[i] = s[j] => i = j
         /\ Cardinality(S) <= n => Range(s) = S
<1> DEFINE R == {p \in S \X S : Better(p[1], p[2])}
           a == Sorted(S, R)
<1>1. \A x, y \in S : <<x, y>> \in R <=> Better(x, y)
  OBVIOUS
<1>2. s = AtMost(a, n)
  BY DEF Best
<1> HIDE DEF R
<1>3. \A x \in S : ~Better(x, x)
  BY DEF Better
<1>4. \A x, y \in S : x # y => Better(x, y) \/ Better(y, x)
  BY DEF Better
<1>5. \A x, y, z \in S : Better(x, y) /\ Better(y, z) => Better(x, z)
  BY DEF Better
<1>6. StrictOrder(S, R)
  BY <1>1, <1>3, <1>4, <1>5 DEF StrictOrder
<1>7. /\ Len(s) \in Nat /\ Len(s) <= n /\ DOMAIN s = 1 .. Len(s)
      /\ \A i \in 1 .. Len(s) : s[i] \in S
      /\ \A i, j \in 1 .. Len(s) : i < j => <<s[i], s[j]>> \in R
  <2> HIDE DEF a
  <2>1. /\ s \in Seq(S) /\ Len(s) \in Nat /\ Len(s) <= n /\ Len(s) <= Cardinality(S)
        /\ DOMAIN s = 1 .. Len(s)
        /\ Len(s) = n \/ Len(s) = Cardinality(S)
        /\ \A i \in 1 .. Len(s) : s[i] \in S
        /\ \A i, j \in 1 .. Len(s) : i < j => <<s[i], s[j]>> \in R
        /\ \A x \in S : \/ \E i \in 1 .. Len(s) : s[i] = x
                        \/ Len(s) = n /\ \A i \in 1 .. Len(s) : <<s[i], x>> \in R
    BY <1>2, <1>6, FirstIs, Zenon DEF a
  <2> QED  BY <2>1
<1>8. \A i, j \in DOMAIN s : s[i] = s[j] => i = j
  <2> SUFFICES ASSUME NEW i \in DOMAIN s, NEW j \in DOMAIN s, s[i] = s[j], i # j PROVE FALSE
    OBVIOUS
  <2>1. i \in 1 .. Len(s) /\ j \in 1 .. Len(s) /\ (i < j \/ j < i)
    BY <1>7
  <2>2. <<s[i], s[i]>> \in R /\ s[i] \in S
    BY <1>7, <2>1
  <2> QED  BY <1>1, <1>3, <2>2
<1>9. Range(s) \subseteq S
  BY <1>7 DEF Range
<1>10. ASSUME Cardinality(S) <= n
       PROVE  Range(s) = S
  <2>1. /\ Cardinality(S) \in Nat /\ a \in Seq(S) /\ Len(a) = Cardinality(S)
        /\ DOMAIN a = 1 .. Cardinality(S)
        /\ \A x \in S : \E i \in 1 .. Cardinality(S) : a[i] = x
    BY <1>6, SortedIs
  <2> HIDE DEF a
  <2>2. s = SubSeq(a, 1, Len(a))
    BY <1>2, <1>10, <2>1 DEF AtMost
  <2>3. s = a
    BY <2>1, <2>2
  <2> QED  BY <1>9, <2>1, <2>3 DEF Range
<1> QED
  BY <1>7, <1>8, <1>9, <1>10

\* search_vectors.
LEMMA SearchesAgree ==
  ASSUME StoresInv
  PROVE  SearchesMatch
<1> SUFFICES ASSUME kind = "vectors", NEW n \in Tenant, NEW l \in Limits \cap (1 .. MaxLimit),
                    NEW types \in {{}, {{}}, {{1}}}
             PROVE  LET q == [tenant |-> n, types |-> types, metadata |-> {}, limit |-> l, length |-> Dimensions]
                        wide == [q EXCEPT !.types = {}, !.limit = Cardinality(tables.mock)]
                        known == Range(Value(MockSearchVectors(tables.mock, wide)))
                    IN  \A found \in {Value(QdrantSearchVectors(tables.qdrant, q)),
                                      Value(LanceSearchVectors(tables.lancedb, q))} :
                          /\ Len(found) <= l
                          /\ Range(found) \subseteq known
                          /\ \A i, j \in DOMAIN found : found[i].fact = found[j].fact => i = j
  BY DEF SearchesMatch
<1> DEFINE mk == tables.mock
           q == [tenant |-> n, types |-> types, metadata |-> {}, limit |-> l, length |-> Dimensions]
           wide == [q EXCEPT !.types = {}, !.limit = Cardinality(mk)]
<1>1. PointsOK(mk, tables.qdrant, tables.lancedb)
  BY PortIs DEF VectorsOK
<1>2. /\ q.tenant = n /\ q.types = types /\ q.limit = l /\ q.length = Dimensions
      /\ wide.tenant = n /\ wide.types = {} /\ wide.metadata = {} /\ wide.limit = Cardinality(mk)
  OBVIOUS
<1> HIDE DEF q, wide
<1> DEFINE W == {p \in mk : /\ Owns(wide.tenant, p)
                            /\ \A y \in wide.types : p.type \in y
                            /\ \A m \in wide.metadata : p.metadata = m}
           K == {p \in mk : Owns(n, p)}
           Q == {p \in tables.qdrant : /\ Owns(q.tenant, p)
                                       /\ \A y \in q.types : y = {} \/ p.type \in y}
           L == {p \in tables.lancedb : /\ Owns(q.tenant, p)
                                        /\ \A y \in q.types : y = {} \/ p.type \in y}
<1>3. W = K
  BY <1>2
<1>4. MockSearchVectors(mk, wide) = Ok(Best(W, wide.limit))
  BY DEF MockSearchVectors
<1>5. QdrantSearchVectors(tables.qdrant, q) = Ok(Best(Q, q.limit))
  BY <1>2 DEF QdrantSearchVectors
<1>6. LanceSearchVectors(tables.lancedb, q) = Ok(Best(L, q.limit))
  BY <1>2 DEF LanceSearchVectors
<1>7. /\ Q \subseteq tables.qdrant /\ \A p \in Q : Owns(n, p)
      /\ L \subseteq tables.lancedb /\ \A p \in L : Owns(n, p)
      /\ K \subseteq mk /\ \A p \in mk : p \in K <=> Owns(n, p)
  BY <1>2
<1> HIDE DEF W, Q, L, K
<1> DEFINE known == Best(K, Cardinality(mk))
           a == Best(Q, l)
           b == Best(L, l)
<1>8. /\ Value(MockSearchVectors(mk, wide)) = known
      /\ Value(QdrantSearchVectors(tables.qdrant, q)) = a
      /\ Value(LanceSearchVectors(tables.lancedb, q)) = b
  BY <1>2, <1>3, <1>4, <1>5, <1>6, AnswerIs
<1>9. l \in Nat
  BY DEF MaxLimit
<1> HIDE DEF a, b, known
<1>10. a = Best(Q, l) /\ b = Best(L, l) /\ known = Best(K, Cardinality(mk))
  BY DEF a, b, known
<1>11. /\ IsFiniteSet(mk) /\ mk \subseteq PointRow /\ \A x, y \in mk : x.id = y.id => x = y
       /\ tables.qdrant \subseteq mk /\ OnePoint(tables.qdrant)
       /\ tables.lancedb \subseteq mk /\ OnePoint(tables.lancedb)
  BY <1>1 DEF PointsOK
<1> HIDE DEF mk
<1>12. ASSUME NEW t \in {tables.qdrant, tables.lancedb}, NEW P, P \subseteq t,
              \A p \in P : Owns(n, p), NEW found, found = Best(P, l)
       PROVE  /\ Len(found) <= l
              /\ Range(found) \subseteq Range(known)
              /\ \A i, j \in DOMAIN found : found[i].fact = found[j].fact => i = j
  <2>1. t \subseteq mk /\ OnePoint(t) /\ K \subseteq mk /\ P \subseteq K /\ P \subseteq t
    BY <1>7, <1>11, <1>12
  <2>2. /\ IsFiniteSet(K) /\ Cardinality(K) <= Cardinality(mk) /\ Cardinality(mk) \in Nat
        /\ IsFiniteSet(P)
    BY <1>11, <2>1, FS_Subset, FS_CardinalityType
  <2>3. \A x \in mk : x.score \in Int /\ x.id \in Int
    BY <1>11 DEF PointRow
  <2>4. Range(known) = K
    BY <1>10, <1>11, <2>1, <2>2, <2>3, BestIs
  <2>5. /\ Len(found) <= l /\ Range(found) \subseteq P
        /\ \A i \in DOMAIN found : found[i] \in P
        /\ \A i, j \in DOMAIN found : found[i] = found[j] => i = j
    BY <1>9, <1>11, <1>12, <2>1, <2>2, <2>3, BestIs
  <2>6. \A x, y \in P : x.fact = y.fact => x = y
    BY <1>12, <2>1 DEF OnePoint, Owns
  <2>7. Range(found) \subseteq Range(known)
    BY <2>1, <2>4, <2>5
  <2>8. ASSUME NEW i \in DOMAIN found, NEW j \in DOMAIN found, found[i].fact = found[j].fact
        PROVE  i = j
    <3>1. found[i] = found[j]
      BY <2>5, <2>6, <2>8
    <3> QED  BY <2>5, <3>1
  <2> QED  BY <2>5, <2>7, <2>8
<1>13. /\ Len(a) <= l /\ Len(b) <= l
       /\ Range(a) \subseteq Range(known) /\ Range(b) \subseteq Range(known)
       /\ \A i, j \in DOMAIN a : a[i].fact = a[j].fact => i = j
       /\ \A i, j \in DOMAIN b : b[i].fact = b[j].fact => i = j
  BY <1>7, <1>10, <1>12
<1>14. \A found \in {Value(QdrantSearchVectors(tables.qdrant, q)),
                     Value(LanceSearchVectors(tables.lancedb, q))} :
         /\ Len(found) <= l
         /\ Range(found) \subseteq Range(Value(MockSearchVectors(mk, wide)))
         /\ \A i, j \in DOMAIN found : found[i].fact = found[j].fact => i = j
  BY <1>8, <1>13
<1> QED
  BY <1>14 DEF q, wide, mk

\* Every backend of a port answers a call as the others do: the tests that run against
\* the mocks say something of SQLite and Postgres, and of Qdrant and LanceDB.
THEOREM BackendsAgree == StoresSpec => []AnswersAgree
<1>1. ASSUME StoresInv
      PROVE  AnswersAgree
  BY <1>1, RowsAnswer, SearchesAgree DEF AnswersAgree
<1> QED
  BY <1>1, StoresInvariant, PTL

-----------------------------------------------------------------------------
(* Sums. *)

\* What Total counts.
Units(f) == UNION {{x} \X (1 .. f[x]) : x \in DOMAIN f}

\* They are pairs.
LEMMA UnitsAre ==
  ASSUME NEW f, NEW z
  PROVE  z \in Units(f) <=> \E x \in DOMAIN f : \E i \in 1 .. f[x] : z = <<x, i>>
  BY DEF Units

\* There are finitely many of them.
LEMMA UnitsFinite ==
  ASSUME NEW f, IsFiniteSet(DOMAIN f), \A x \in DOMAIN f : f[x] \in Nat
  PROVE  /\ IsFiniteSet(Units(f))
         /\ \A z : z \in Units(f) <=> \E x \in DOMAIN f : \E i \in 1 .. f[x] : z = <<x, i>>
<1> DEFINE D == DOMAIN f
           h == [x \in D |-> {x} \X (1 .. f[x])]
           H == {{x} \X (1 .. f[x]) : x \in D}
<1>1. \A z : z \in Units(f) <=> \E x \in D : \E i \in 1 .. f[x] : z = <<x, i>>
  BY DEF Units
<1>2. \A x \in D : IsFiniteSet({x} \X (1 .. f[x]))
  <2> SUFFICES ASSUME NEW x \in D PROVE IsFiniteSet({x} \X (1 .. f[x]))
    OBVIOUS
  <2>1. IsFiniteSet({x})
    BY FS_Singleton
  <2>2. f[x] \in Int /\ 1 \in Int
    OBVIOUS
  <2>3. IsFiniteSet(1 .. f[x])
    BY <2>2, FS_Interval
  <2> QED  BY <2>1, <2>3, FS_Product
<1>3. h \in [D -> H] /\ \A y \in H : \E x \in D : h[x] = y
  OBVIOUS
<1>4. \A T \in H : IsFiniteSet(T)
  BY <1>2
<1>5. Units(f) = UNION H
  BY DEF Units
<1> HIDE DEF H, h
<1>6. IsFiniteSet(H)
  BY <1>3, ImageOf
<1>7. IsFiniteSet(UNION H)
  BY <1>4, <1>6, FS_UNION
<1> QED
  BY <1>1, <1>5, <1>7

\* The sizes of the parts of a finite set add up to its size.
LEMMA PartsAddUp ==
  ASSUME NEW S, IsFiniteSet(S), NEW f, NEW p, DOMAIN p = DOMAIN f,
         \A x \in DOMAIN f : p[x] \subseteq S /\ f[x] = Cardinality(p[x]),
         \A s \in S : \E x \in DOMAIN f : s \in p[x],
         \A x, y \in DOMAIN f : \A s \in S : s \in p[x] /\ s \in p[y] => x = y
  PROVE  Total(f) = Cardinality(S)
<1> DEFINE D == DOMAIN f
           g == [x \in D |-> CHOOSE b : b \in Bijection(1 .. f[x], p[x])]
           part == [s \in S |-> CHOOSE x \in D : s \in p[x]]
           place == [s \in S |-> CHOOSE i \in 1 .. f[part[s]] : g[part[s]][i] = s]
           k == [s \in S |-> <<part[s], place[s]>>]
<1>1. \A x \in D : IsFiniteSet(p[x]) /\ f[x] \in Nat
  BY FS_Subset, FS_CardinalityType
<1>2. \A x \in D : g[x] \in Bijection(1 .. f[x], p[x])
  <2> SUFFICES ASSUME NEW x \in D PROVE g[x] \in Bijection(1 .. f[x], p[x])
    OBVIOUS
  <2>1. IsFiniteSet(p[x]) /\ f[x] = Cardinality(p[x])
    BY <1>1
  <2>2. ExistsBijection(1 .. f[x], p[x])
    <3>1. PICK n \in Nat : ExistsBijection(1 .. n, p[x])
      BY <2>1, FS_NatBijection
    <3>2. Cardinality(p[x]) = n
      BY <2>1, <3>1, FS_CountingElements
    <3> QED  BY <2>1, <3>1, <3>2
  <2> QED  BY <2>2 DEF ExistsBijection
<1> HIDE DEF g
<1>3. /\ \A x \in D : \A i \in 1 .. f[x] : g[x][i] \in p[x]
      /\ \A x \in D : \A i, j \in 1 .. f[x] : g[x][i] = g[x][j] => i = j
      /\ \A x \in D : \A s \in p[x] : \E i \in 1 .. f[x] : g[x][i] = s
  <2> SUFFICES ASSUME NEW x \in D
               PROVE  /\ \A i \in 1 .. f[x] : g[x][i] \in p[x]
                      /\ \A i, j \in 1 .. f[x] : g[x][i] = g[x][j] => i = j
                      /\ \A s \in p[x] : \E i \in 1 .. f[x] : g[x][i] = s
    OBVIOUS
  <2>1. /\ g[x] \in [1 .. f[x] -> p[x]] /\ IsInjective(g[x])
        /\ \A s \in p[x] : \E i \in 1 .. f[x] : g[x][i] = s
    BY <1>2 DEF Bijection, Injection, Surjection
  <2> QED  BY <2>1 DEF IsInjective
<1>4. \A s \in S : part[s] \in D /\ s \in p[part[s]]
  OBVIOUS
<1> HIDE DEF part
<1>5. \A s \in S : place[s] \in 1 .. f[part[s]] /\ g[part[s]][place[s]] = s
  BY <1>3, <1>4
<1> HIDE DEF place
<1>6. \A z : z \in Units(f) <=> \E x \in D : \E i \in 1 .. f[x] : z = <<x, i>>
  BY DEF Units
<1>7. k \in [S -> Units(f)]
  BY <1>4, <1>5, <1>6
<1>8. \A s, r \in S : k[s] = k[r] => s = r
  <2> SUFFICES ASSUME NEW s \in S, NEW r \in S, k[s] = k[r] PROVE s = r
    OBVIOUS
  <2>1. part[s] = part[r] /\ place[s] = place[r]
    OBVIOUS
  <2> QED  BY <1>5, <2>1
<1>9. \A z \in Units(f) : \E s \in S : k[s] = z
  <2> SUFFICES ASSUME NEW z \in Units(f) PROVE \E s \in S : k[s] = z
    OBVIOUS
  <2>1. PICK x \in D : \E i \in 1 .. f[x] : z = <<x, i>>
    BY <1>6
  <2>2. PICK i \in 1 .. f[x] : z = <<x, i>>
    BY <2>1
  <2>3. g[x][i] \in p[x] /\ g[x][i] \in S
    BY <1>3
  <2>4. part[g[x][i]] = x
    BY <1>4, <2>3
  <2>5. place[g[x][i]] = i
    BY <1>3, <1>5, <2>3, <2>4
  <2> QED  BY <2>2, <2>3, <2>4, <2>5
<1> DEFINE U == Units(f)
<1>10. k \in [S -> U] /\ \A z \in U : \E s \in S : k[s] = z
  BY <1>7, <1>9
<1> HIDE DEF k, U
<1>11. Cardinality(U) = Cardinality(S)
  BY <1>8, <1>10, ImageOf
<1> QED
  BY <1>11 DEF Total, Units, U

\* Adding up within the parts of a set, and then over the parts.
LEMMA SumOfParts ==
  ASSUME NEW S, IsFiniteSet(S), NEW v, DOMAIN v = S, \A x \in S : v[x] \in Nat,
         NEW f, NEW p, DOMAIN p = DOMAIN f,
         \A i \in DOMAIN f : p[i] \subseteq S /\ f[i] = Total([x \in p[i] |-> v[x]]),
         \A s \in S : \E i \in DOMAIN f : s \in p[i],
         \A i, j \in DOMAIN f : \A s \in S : s \in p[i] /\ s \in p[j] => i = j
  PROVE  Total(f) = Total(v)
<1> DEFINE w(i) == [x \in p[i] |-> v[x]]
           q == [i \in DOMAIN f |-> Units(w(i))]
           U == Units(v)
<1>1. IsFiniteSet(U) /\ \A z : z \in U <=> \E x \in S : \E n \in 1 .. v[x] : z = <<x, n>>
  BY UnitsFinite
<1>2. ASSUME NEW i \in DOMAIN f
      PROVE  \A z : z \in Units(w(i)) <=> \E x \in p[i] : \E n \in 1 .. v[x] : z = <<x, n>>
  <2>1. DOMAIN w(i) = p[i] /\ \A x \in p[i] : w(i)[x] = v[x]
    OBVIOUS
  <2> HIDE DEF w
  <2>2. \A z : z \in Units(w(i)) <=> \E x \in DOMAIN w(i) : \E n \in 1 .. w(i)[x] : z = <<x, n>>
    BY UnitsAre
  <2> QED  BY <2>1, <2>2
<1>3. \A i \in DOMAIN f : f[i] = Cardinality(q[i])
  BY DEF Total, Units
<1>4. \A i \in DOMAIN f : \A z : z \in q[i] <=> \E x \in p[i] : \E n \in 1 .. v[x] : z = <<x, n>>
  BY <1>2
<1>5. DOMAIN q = DOMAIN f
  OBVIOUS
<1> HIDE DEF q, U
<1>6. \A i \in DOMAIN f : q[i] \subseteq U
  <2> SUFFICES ASSUME NEW i \in DOMAIN f, NEW z \in q[i] PROVE z \in U
    OBVIOUS
  <2>1. PICK x \in p[i] : \E n \in 1 .. v[x] : z = <<x, n>>
    BY <1>4
  <2>2. x \in S
    OBVIOUS
  <2> QED  BY <1>1, <2>1, <2>2
<1>7. \A z \in U : \E i \in DOMAIN f : z \in q[i]
  BY <1>1, <1>4
<1>8. \A i, j \in DOMAIN f : \A z \in U : z \in q[i] /\ z \in q[j] => i = j
  <2> SUFFICES ASSUME NEW i \in DOMAIN f, NEW j \in DOMAIN f, NEW z, z \in q[i], z \in q[j]
               PROVE  i = j
    OBVIOUS
  <2>1. PICK x \in p[i] : \E n \in 1 .. v[x] : z = <<x, n>>
    BY <1>4
  <2>2. PICK y \in p[j] : \E n \in 1 .. v[y] : z = <<y, n>>
    BY <1>4
  <2>3. x = y
    BY <2>1, <2>2
  <2> QED  BY <2>1, <2>2, <2>3
<1>9. Total(f) = Cardinality(U)
  BY <1>1, <1>3, <1>5, <1>6, <1>7, <1>8, PartsAddUp
<1> QED
  BY <1>9 DEF U, Units, Total

-----------------------------------------------------------------------------
(* What the program reports of its rows. *)

\* The whole list of users.
LEMMA UsersListed ==
  ASSUME NEW t, Good("facts", t), NEW o, NEW q,
         q = [org |-> o, limit |-> Cardinality(t), cursor |-> NoCursor],
         NEW users, users = Value(SqliteListUsersByOrg(t, q)),
         NEW U, U = UserSummaries(Active(t), o)
  PROVE  /\ Len(users) = Cardinality(U) /\ DOMAIN users = 1 .. Len(users) /\ Len(users) \in Nat
         /\ \A i \in DOMAIN users : users[i] \in U
         /\ \A x \in U : \E i \in DOMAIN users : users[i] = x
         /\ \A i, j \in DOMAIN users : users[i].id = users[j].id => i = j
<1>1. q.org = o /\ q.limit = Cardinality(t) /\ q.cursor = NoCursor
  OBVIOUS
<1>2. /\ IsFiniteSet(Active(t)) /\ Active(t) \subseteq FactRow
      /\ Cardinality(Active(t)) <= Cardinality(t)
      /\ Cardinality(t) \in Nat /\ Cardinality(Active(t)) \in Nat
  BY ActiveIs
<1>3. /\ Ranked(U) /\ Cardinality(U) \in Nat /\ Cardinality(U) <= Cardinality(Active(t))
  BY <1>2, SummariesAre
<1> DEFINE P == {u \in UserSummaries(Active(t), q.org) : PushSqliteCursor(u, q.cursor)}
           n == Cardinality(t) + 1
<1>4. P = U
  BY <1>1 DEF PushSqliteCursor
<1>5. SqliteListUsersByOrg(t, q) = Ok(Newest(P, n))
  BY <1>1 DEF SqliteListUsersByOrg, PageFetchLimit
<1> HIDE DEF P
<1>6. users = Newest(U, n)
  BY <1>4, <1>5, AnswerIs
<1>7. n \in Nat /\ Cardinality(U) < n
  BY <1>2, <1>3
<1> HIDE DEF n
<1>8. /\ Len(users) \in Nat /\ Len(users) <= Cardinality(U)
      /\ DOMAIN users = 1 .. Len(users)
      /\ Len(users) = n \/ Len(users) = Cardinality(U)
      /\ \A i \in 1 .. Len(users) : users[i] \in U
      /\ \A i, j \in 1 .. Len(users) : i < j => NewerRow(users[i], users[j])
      /\ \A x \in U : \/ \E i \in 1 .. Len(users) : users[i] = x
                      \/ Len(users) = n /\ \A i \in 1 .. Len(users) : NewerRow(users[i], x)
  <2>1. Ranked(U) /\ n \in Nat /\ users = Newest(U, n)
    BY <1>3, <1>6, <1>7
  <2> QED  BY ONLY <2>1, NewestIs
<1>9. Len(users) = Cardinality(U) /\ Len(users) # n
  <2>1. /\ Len(users) \in Nat /\ Len(users) <= Cardinality(U) /\ Cardinality(U) \in Nat /\ n \in Nat
        /\ Len(users) = n \/ Len(users) = Cardinality(U)
        /\ Cardinality(U) < n
    BY <1>3, <1>7, <1>8
  <2> QED  BY ONLY <2>1
<1>10. ASSUME NEW i \in DOMAIN users, NEW j \in DOMAIN users, users[i].id = users[j].id, i # j
       PROVE  FALSE
  <2>1. users[i] = users[j] /\ users[i] \in U /\ users[j] \in U
    BY <1>3, <1>8, <1>10 DEF Ranked
  <2>2. NewerRow(users[i], users[j]) \/ NewerRow(users[j], users[i])
    BY <1>8, <1>10
  <2>3. users[i].time \in Int /\ users[i].id \in Int
    BY <1>3, <2>1 DEF Ranked
  <2> QED  BY <2>1, <2>2, <2>3 DEF NewerRow
<1> QED
  BY <1>8, <1>9, <1>10

\* count_facts_by_org, count_users_by_org and count_facts_by_user agree with it.
LEMMA CountsAre ==
  ASSUME NEW t, Good("facts", t), NEW o, NEW q,
         q = [org |-> o, limit |-> Cardinality(t), cursor |-> NoCursor],
         NEW users, users = Value(SqliteListUsersByOrg(t, q))
  PROVE  /\ Total([i \in DOMAIN users |-> users[i].count]) = SqliteCountFactsByOrg(t, o)
         /\ Len(users) = SqliteCountUsersByOrg(t, o)
         /\ \A i \in DOMAIN users :
              users[i].count = SqliteCountFactsByUser(t, [org |-> o, user |-> users[i].id])
<1> DEFINE A == Active(t)
           U == UserSummaries(A, o)
           mine == {f \in A : f.org = o}
           f == [i \in DOMAIN users |-> users[i].count]
           p == [i \in DOMAIN users |-> FactsOf(A, o, users[i].id)]
<1>1. /\ IsFiniteSet(A) /\ A \subseteq FactRow
  BY ActiveIs
<1>2. /\ Len(users) = Cardinality(U)
      /\ \A i \in DOMAIN users : users[i] \in U
      /\ \A x \in U : \E i \in DOMAIN users : users[i] = x
      /\ \A i, j \in DOMAIN users : users[i].id = users[j].id => i = j
  BY UsersListed
<1> HIDE DEF A
<1>3. /\ U = {UserRow(A, o, u) : u \in {g.user : g \in mine}}
      /\ Cardinality(U) = Cardinality({g.user : g \in mine})
  BY <1>1, SummariesAre
<1>4. \A u : UserRow(A, o, u).id = u /\ UserRow(A, o, u).count = Cardinality(FactsOf(A, o, u))
  BY DEF UserRow
<1>5. \A i \in DOMAIN users : \E u : users[i] = UserRow(A, o, u)
  BY <1>2, <1>3
<1>6. \A i \in DOMAIN users : users[i].count = Cardinality(FactsOf(A, o, users[i].id))
  BY <1>4, <1>5
<1>7. \A u : FactsOf(A, o, u) = {g \in A : g.org = o /\ g.user = u}
  BY DEF FactsOf
<1>8. \A i \in DOMAIN users : users[i].count = SqliteCountFactsByUser(t, [org |-> o, user |-> users[i].id])
  <2> SUFFICES ASSUME NEW i \in DOMAIN users
               PROVE  users[i].count = SqliteCountFactsByUser(t, [org |-> o, user |-> users[i].id])
    OBVIOUS
  <2> DEFINE x == [org |-> o, user |-> users[i].id]
  <2>1. x.org = o /\ x.user = users[i].id
    OBVIOUS
  <2> HIDE DEF x
  <2>2. {g \in A : Owns(x, g)} = FactsOf(A, o, users[i].id)
    BY <1>7, <2>1 DEF Owns
  <2>3. SqliteCountFactsByUser(t, x) = Cardinality({g \in A : Owns(x, g)})
    BY DEF SqliteCountFactsByUser, A
  <2> QED  BY <1>6, <2>2, <2>3 DEF x
<1>9. Len(users) = SqliteCountUsersByOrg(t, o)
  BY <1>2, <1>3 DEF SqliteCountUsersByOrg, A
<1>10. IsFiniteSet(mine)
  BY <1>1, FS_Subset
<1>11. \A i \in DOMAIN users : p[i] \subseteq mine /\ f[i] = Cardinality(p[i])
  BY <1>6, <1>7
<1>12. \A s \in mine : \E i \in DOMAIN users : s \in p[i]
  <2> SUFFICES ASSUME NEW s \in mine PROVE \E i \in DOMAIN users : s \in p[i]
    OBVIOUS
  <2>1. UserRow(A, o, s.user) \in U
    BY <1>3
  <2>2. PICK i \in DOMAIN users : users[i] = UserRow(A, o, s.user)
    BY <1>2, <2>1
  <2>3. users[i].id = s.user
    BY <1>4, <2>2
  <2> QED  BY <1>7, <2>3
<1>13. \A i, j \in DOMAIN users : \A s \in mine : s \in p[i] /\ s \in p[j] => i = j
  BY <1>2, <1>7
<1>14. DOMAIN p = DOMAIN f /\ DOMAIN f = DOMAIN users
  OBVIOUS
<1>15. SqliteCountFactsByOrg(t, o) = Cardinality(mine)
  BY DEF SqliteCountFactsByOrg, A
<1> HIDE DEF mine, p, f
<1>16. Total(f) = Cardinality(mine)
  BY <1>10, <1>11, <1>12, <1>13, <1>14, PartsAddUp
<1> QED
  BY <1>8, <1>9, <1>15, <1>16 DEF f

\* The quota and the dashboard count what can be listed.
LEMMA CountsAgree ==
  ASSUME StoresInv
  PROVE  CountsMatch
<1> SUFFICES ASSUME kind = "facts", NEW org \in Org
             PROVE  LET q == [org |-> org, limit |-> Cardinality(tables.sqlite), cursor |-> NoCursor]
                        users == Value(SqliteListUsersByOrg(tables.sqlite, q))
                    IN  /\ Total([i \in DOMAIN users |-> users[i].count])
                             = SqliteCountFactsByOrg(tables.sqlite, org)
                        /\ Len(users) = SqliteCountUsersByOrg(tables.sqlite, org)
                        /\ \A i \in DOMAIN users :
                             users[i].count = SqliteCountFactsByUser(tables.sqlite, [org |-> org, user |-> users[i].id])
                        /\ MockCountFactsByOrg(tables.mock, org) = PostgresCountFactsByOrg(tables.postgres, org)
                        /\ MockCountUsersByOrg(tables.mock, org) = PostgresCountUsersByOrg(tables.postgres, org)
                        /\ \A n \in Tenant :
                             MockCountFactsByUser(tables.mock, n) = PostgresCountFactsByUser(tables.postgres, n)
  BY DEF CountsMatch
<1> DEFINE t == tables.sqlite
           q == [org |-> org, limit |-> Cardinality(tables.sqlite), cursor |-> NoCursor]
           users == Value(SqliteListUsersByOrg(tables.sqlite, q))
<1>1. Good("facts", t) /\ tables.postgres = t /\ tables.mock = MockOf(t)
  BY PortIs, RowTablesAre
<1>2. MockActive(tables.mock) = Active(t)
  BY <1>1, MockKnows
<1>3. /\ MockCountFactsByOrg(tables.mock, org) = PostgresCountFactsByOrg(tables.postgres, org)
      /\ MockCountUsersByOrg(tables.mock, org) = PostgresCountUsersByOrg(tables.postgres, org)
      /\ \A n \in Tenant :
           MockCountFactsByUser(tables.mock, n) = PostgresCountFactsByUser(tables.postgres, n)
  BY <1>1, <1>2 DEF MockCountFactsByOrg, MockCountUsersByOrg, MockCountFactsByUser,
       PostgresCountFactsByOrg, PostgresCountUsersByOrg, PostgresCountFactsByUser,
       SqliteCountFactsByOrg, SqliteCountUsersByOrg, SqliteCountFactsByUser
<1>4. /\ Total([i \in DOMAIN users |-> users[i].count]) = SqliteCountFactsByOrg(t, org)
      /\ Len(users) = SqliteCountUsersByOrg(t, org)
      /\ \A i \in DOMAIN users :
           users[i].count = SqliteCountFactsByUser(t, [org |-> org, user |-> users[i].id])
  BY <1>1, CountsAre
<1> QED
  BY <1>3, <1>4

\* The parts of a summary that are compared.
LEMMA SummaryIs ==
  ASSUME NEW rows
  PROVE  /\ ComputeSummary(rows).requests = Cardinality(rows)
         /\ ComputeSummary(rows).successes = Cardinality({u \in rows : u.status = "success"})
         /\ ComputeSummary(rows).errors = Cardinality({u \in rows : u.status = "error"})
         /\ ComputeSummary(rows).tokens = Total([u \in rows |-> OrZero(u.tokens)])
  BY DEF ComputeSummary

\* Every row of usage is a success or an error, and has a number of tokens.
LEMMA UsageIs ==
  ASSUME NEW rows, IsFiniteSet(rows), rows \subseteq UsageRow
  PROVE  /\ Cardinality(rows) = Cardinality({u \in rows : u.status = "success"})
                                + Cardinality({u \in rows : u.status = "error"})
         /\ \A u \in rows : OrZero(u.tokens) \in Nat
<1> DEFINE a == {u \in rows : u.status = "success"}
           b == {u \in rows : u.status = "error"}
<1>1. rows = a \cup b /\ a \cap b = {} /\ a \subseteq rows /\ b \subseteq rows
  BY DEF UsageRow
<1>2. \A u \in rows : OrZero(u.tokens) \in Nat
  <2>1. \A u \in rows : u.tokens \subseteq Nat
    BY DEF UsageRow
  <2> QED  BY <2>1 DEF OrZero
<1> HIDE DEF a, b
<1>3. IsFiniteSet(a) /\ IsFiniteSet(b)
  BY <1>1, FS_Subset
<1>4. Cardinality(a \cup b) = Cardinality(a) + Cardinality(b) - Cardinality(a \cap b)
  BY <1>3, FS_Union
<1>5. Cardinality(a \cap b) = 0 /\ Cardinality(a) \in Nat /\ Cardinality(b) \in Nat
  BY <1>1, <1>3, FS_EmptySet, FS_CardinalityType
<1>6. Cardinality(rows) = Cardinality(a) + Cardinality(b)
  BY <1>1, <1>4, <1>5
<1> QED
  BY <1>2, <1>6 DEF a, b

\* The days are in order, and each row is in the bucket of its day.
LEMMA BucketsAre ==
  ASSUME NEW rows, IsFiniteSet(rows), rows \subseteq UsageRow, NEW days, days = DailyBuckets(rows)
  PROVE  /\ \A i \in DOMAIN days : days[i].totals = ComputeSummary({u \in rows : Day(u.time) = days[i].date})
         /\ \A u \in rows : \E i \in DOMAIN days : Day(u.time) = days[i].date
         /\ \A i, j \in DOMAIN days : i < j => days[i].date < days[j].date
         /\ \A i, j \in DOMAIN days : days[i].date = days[j].date => i = j
<1> DEFINE dates == {Day(u.time) : u \in rows}
           R == {p \in dates \X dates : p[1] < p[2]}
           ds == Sorted(dates, R)
           h == [u \in rows |-> Day(u.time)]
<1>1. dates \subseteq Int
  <2>1. \A u \in rows : u.time \in Int
    BY DEF UsageRow
  <2>2. DayLength \in Nat /\ DayLength > 0
    BY StoreConstants
  <2>3. \A x \in Int : x \div DayLength \in Int
    BY <2>2
  <2> QED  BY <2>1, <2>3 DEF Day
<1>2. h \in [rows -> dates] /\ \A y \in dates : \E x \in rows : h[x] = y
  OBVIOUS
<1>3. \A x, y \in dates : <<x, y>> \in R <=> x < y
  OBVIOUS
<1>4. days = [i \in 1 .. Len(ds) |->
                [date |-> ds[i], totals |-> ComputeSummary({u \in rows : Day(u.time) = ds[i]})]]
  BY DEF DailyBuckets
<1>5. \A u \in rows : Day(u.time) \in dates
  OBVIOUS
<1> HIDE DEF dates, R, h
<1>6. IsFiniteSet(dates)
  BY <1>2, ImageOf
<1>7. StrictOrder(dates, R)
  BY <1>1, <1>3 DEF StrictOrder
<1>8. /\ Cardinality(dates) \in Nat /\ Len(ds) = Cardinality(dates)
      /\ \A i \in 1 .. Len(ds) : ds[i] \in dates
      /\ \A x \in dates : \E i \in 1 .. Len(ds) : ds[i] = x
      /\ \A i, j \in 1 .. Len(ds) : i < j => <<ds[i], ds[j]>> \in R
  BY <1>6, <1>7, SortedIs
<1> HIDE DEF ds
<1>9. /\ DOMAIN days = 1 .. Len(ds)
      /\ \A i \in 1 .. Len(ds) : days[i].date = ds[i]
      /\ \A i \in 1 .. Len(ds) : days[i].totals = ComputeSummary({u \in rows : Day(u.time) = ds[i]})
  BY <1>4
<1>10. \A i \in DOMAIN days : days[i].totals = ComputeSummary({u \in rows : Day(u.time) = days[i].date})
  BY <1>9
<1>11. ASSUME NEW i \in DOMAIN days, NEW j \in DOMAIN days, i < j
       PROVE  days[i].date < days[j].date
  <2>1. i \in 1 .. Len(ds) /\ j \in 1 .. Len(ds) /\ days[i].date = ds[i] /\ days[j].date = ds[j]
    BY <1>9
  <2>2. <<ds[i], ds[j]>> \in R /\ ds[i] \in dates /\ ds[j] \in dates
    BY <1>8, <1>11, <2>1
  <2> QED  BY <1>3, <2>1, <2>2
<1>12. \A u \in rows : \E i \in DOMAIN days : Day(u.time) = days[i].date
  BY <1>5, <1>8, <1>9
<1>13. ASSUME NEW i \in DOMAIN days, NEW j \in DOMAIN days, days[i].date = days[j].date, i # j
       PROVE  FALSE
  <2>1. days[i].date \in Int
    BY <1>1, <1>8, <1>9
  <2>2. i \in Int /\ j \in Int
    BY <1>8, <1>9
  <2> QED  BY <1>11, <1>13, <2>1, <2>2
<1> QED
  BY <1>10, <1>11, <1>12, <1>13

\* The buckets add up to the whole.
LEMMA BucketsAddUp ==
  ASSUME NEW rows, IsFiniteSet(rows), rows \subseteq UsageRow, NEW days, days = DailyBuckets(rows)
  PROVE  /\ Total([i \in DOMAIN days |-> days[i].totals.requests]) = Cardinality(rows)
         /\ Total([i \in DOMAIN days |-> days[i].totals.tokens])
              = Total([u \in rows |-> OrZero(u.tokens)])
<1> DEFINE f == [i \in DOMAIN days |-> days[i].totals.requests]
           g == [i \in DOMAIN days |-> days[i].totals.tokens]
           p == [i \in DOMAIN days |-> {u \in rows : Day(u.time) = days[i].date}]
           v == [u \in rows |-> OrZero(u.tokens)]
<1>1. /\ \A i \in DOMAIN days : days[i].totals = ComputeSummary({u \in rows : Day(u.time) = days[i].date})
      /\ \A u \in rows : \E i \in DOMAIN days : Day(u.time) = days[i].date
      /\ \A i, j \in DOMAIN days : days[i].date = days[j].date => i = j
  BY BucketsAre
<1>2. \A i \in DOMAIN days : days[i].totals = ComputeSummary(p[i])
  BY <1>1
<1>3. /\ \A i \in DOMAIN days : p[i] \subseteq rows
      /\ \A u \in rows : \E i \in DOMAIN days : u \in p[i]
      /\ \A i, j \in DOMAIN days : \A u \in rows : u \in p[i] /\ u \in p[j] => i = j
  BY <1>1
<1>4. DOMAIN f = DOMAIN days /\ DOMAIN g = DOMAIN days /\ DOMAIN p = DOMAIN days
  OBVIOUS
<1> HIDE DEF p
<1>5. \A i \in DOMAIN days : f[i] = Cardinality(p[i])
  BY <1>2, SummaryIs
<1>6. \A i \in DOMAIN days : g[i] = Total([u \in p[i] |-> v[u]])
  <2> SUFFICES ASSUME NEW i \in DOMAIN days PROVE g[i] = Total([u \in p[i] |-> v[u]])
    OBVIOUS
  <2>1. g[i] = Total([u \in p[i] |-> OrZero(u.tokens)])
    BY <1>2, SummaryIs
  <2>2. [u \in p[i] |-> OrZero(u.tokens)] = [u \in p[i] |-> v[u]]
    BY <1>3
  <2> QED  BY <2>1, <2>2
<1>7. DOMAIN v = rows /\ \A u \in rows : v[u] \in Nat
  BY UsageIs
<1> HIDE DEF f, g, v
<1>8. Total(f) = Cardinality(rows)
  <2>1. \A i \in DOMAIN f : p[i] \subseteq rows /\ f[i] = Cardinality(p[i])
    BY <1>3, <1>4, <1>5
  <2> QED  BY <1>3, <1>4, <2>1, PartsAddUp
<1>9. Total(g) = Total(v)
  <2>1. \A i \in DOMAIN g : p[i] \subseteq rows /\ g[i] = Total([u \in p[i] |-> v[u]])
    BY <1>3, <1>4, <1>6
  <2> QED  BY <1>3, <1>4, <1>7, <2>1, SumOfParts
<1> QED
  BY <1>8, <1>9 DEF f, g, v

\* query_usage and get_provider_usage_daily.
LEMMA TotalsAgree ==
  ASSUME StoresInv
  PROVE  TotalsMatch
<1> SUFFICES ASSUME kind = "usage", NEW q \in Queries, q.user = {}
             PROVE  LET all == {u \in tables.sqlite : MatchesUsage(u, q)}
                        summary == Value(SqliteQueryUsage(tables.sqlite, q)).summary
                        days == GetProviderUsageDaily(tables.sqlite, q)
                    IN  /\ summary.requests = Cardinality(all)
                        /\ summary.requests = summary.successes + summary.errors
                        /\ Total([i \in DOMAIN days |-> days[i].totals.requests]) = summary.requests
                        /\ Total([i \in DOMAIN days |-> days[i].totals.tokens]) = summary.tokens
                        /\ \A i, j \in DOMAIN days : i < j => days[i].date < days[j].date
  BY DEF TotalsMatch
<1> DEFINE t == tables.sqlite
           all == {u \in t : MatchesUsage(u, q)}
           rows == {u \in t : SqliteUsageFilters(u, q)}
           daily == {u \in t : SqliteDailyFilters(u, q)}
           summary == Value(SqliteQueryUsage(tables.sqlite, q)).summary
           days == GetProviderUsageDaily(t, q)
<1>1. Good("usage", t)
  BY PortIs, RowTablesAre
<1>2. IsFiniteSet(t) /\ t \subseteq UsageRow
  BY <1>1, RecordTable, RowTypes DEF Records
<1>3. rows = all /\ daily = all /\ all \subseteq t
  BY DEF MatchesUsage, SqliteUsageFilters, SqliteDailyFilters
<1>4. \E page : SqliteQueryUsage(t, q) = Ok([page |-> page, summary |-> ComputeSummary(rows)])
  BY DEF SqliteQueryUsage, SqliteQuerySummary
<1>5. SqliteQueryUsageDaily(t, q) = Ok(DailyBuckets(daily))
  BY DEF SqliteQueryUsageDaily
<1> HIDE DEF all, rows, daily
<1>6. summary = ComputeSummary(all)
  BY <1>3, <1>4, AnswerIs
<1>7. days = DailyBuckets(all)
  BY <1>3, <1>5, AnswerIs DEF GetProviderUsageDaily
<1> HIDE DEF summary, days
<1>8. IsFiniteSet(all) /\ all \subseteq UsageRow
  BY <1>2, <1>3, FS_Subset
<1>9. summary.requests = Cardinality(all) /\ summary.requests = summary.successes + summary.errors
  <2>1. /\ summary.requests = Cardinality(all)
        /\ summary.successes = Cardinality({u \in all : u.status = "success"})
        /\ summary.errors = Cardinality({u \in all : u.status = "error"})
    BY <1>6, SummaryIs
  <2>2. Cardinality(all) = Cardinality({u \in all : u.status = "success"})
                           + Cardinality({u \in all : u.status = "error"})
    BY ONLY <1>8, UsageIs
  <2> QED  BY <2>1, <2>2
<1>10. /\ Total([i \in DOMAIN days |-> days[i].totals.requests]) = Cardinality(all)
       /\ Total([i \in DOMAIN days |-> days[i].totals.tokens]) = Total([u \in all |-> OrZero(u.tokens)])
  BY <1>7, <1>8, BucketsAddUp
<1>11. summary.tokens = Total([u \in all |-> OrZero(u.tokens)])
  BY <1>6, SummaryIs
<1>12. \A i, j \in DOMAIN days : i < j => days[i].date < days[j].date
  BY <1>7, <1>8, BucketsAre
<1>13. /\ summary.requests = Cardinality(all)
       /\ summary.requests = summary.successes + summary.errors
       /\ Total([i \in DOMAIN days |-> days[i].totals.requests]) = summary.requests
       /\ Total([i \in DOMAIN days |-> days[i].totals.tokens]) = summary.tokens
       /\ \A i, j \in DOMAIN days : i < j => days[i].date < days[j].date
  BY <1>9, <1>10, <1>11, <1>12
<1> QED
  BY <1>13 DEF summary, days, all

\* What a dry run must leave alone, and what a real run must count: the rows it takes
\* from the list, as a dry run of the same caller has told.
NoChange(c) == \A b \in DOMAIN tables : c[b].table = tables[b]

CountOf(a) == IF kind = "facts" THEN Value(a).count ELSE Value(a)

Honest(c) ==
  /\ Cardinality(Listable(tables.sqlite)) - Cardinality(Listable(c.sqlite.table)) = CountOf(c.sqlite.answer)
  /\ \E d \in Retention(TRUE) : d.by = c.by /\ CountOf(d.sqlite.answer) = CountOf(c.sqlite.answer)

\* A DELETE of some rows, dry and real.
LEMMA PruneIs ==
  ASSUME NEW t, IsFiniteSet(t), NEW rows, rows \subseteq t
  PROVE  /\ Prune(t, rows, TRUE).table = t /\ Value(Prune(t, rows, TRUE).answer) = Cardinality(rows)
         /\ Prune(t, rows, FALSE).table = t \ rows
         /\ Value(Prune(t, rows, FALSE).answer) = Cardinality(rows)
         /\ Cardinality(rows) \in Nat /\ Cardinality(t) \in Nat
         /\ Cardinality(t \ rows) = Cardinality(t) - Cardinality(rows)
<1> DEFINE a == Ok(Cardinality(rows))
           u == t \ rows
<1>1. Prune(t, rows, TRUE) = Result(a, t) /\ Prune(t, rows, FALSE) = Result(a, u)
  BY DEF Prune
<1> HIDE DEF a, u
<1>2. t \cap rows = rows /\ IsFiniteSet(rows)
  BY FS_Subset
<1>3. /\ Prune(t, rows, TRUE).table = t /\ Prune(t, rows, TRUE).answer = a
      /\ Prune(t, rows, FALSE).table = u /\ Prune(t, rows, FALSE).answer = a
  BY DEF Prune, Result, a, u
<1>4. Value(a) = Cardinality(rows)
  BY AnswerIs DEF a
<1>5. Cardinality(rows) \in Nat /\ Cardinality(t) \in Nat
  BY <1>2, FS_CardinalityType
<1>6. Cardinality(t \ rows) = Cardinality(t) - Cardinality(rows)
  BY <1>2, FS_Difference
<1> QED
  BY <1>3, <1>4, <1>5, <1>6 DEF u

\* Retention of events.
LEMMA PruneEventsHonest ==
  ASSUME RowsOK, kind = "events"
  PROVE  /\ \A c \in Retention(TRUE) : NoChange(c)
         /\ \A c \in Retention(FALSE) : Honest(c)
<1> DEFINE t == tables.sqlite
           rows(n, x) == {y \in Older(t, x) : Owns(n, y)}
           dry(n, x) == Prune(t, rows(n, x), TRUE)
           real(n, x) == Prune(t, rows(n, x), FALSE)
           Dry(n, x) == Call(ByTenant(n), dry(n, x), dry(n, x), dry(n, x))
           Real(n, x) == Call(ByTenant(n), real(n, x), real(n, x), real(n, x))
<1>1. Good("events", t) /\ tables.postgres = t /\ tables.mock = t /\ DOMAIN tables = {"mock", "sqlite", "postgres"}
  BY RowTablesAre DEF RowsOK
<1>2. IsFiniteSet(t)
  BY <1>1 DEF Good
<1>3. Retention(TRUE) = PruneEvents(TRUE) /\ Retention(FALSE) = PruneEvents(FALSE)
  BY DEF Retention
<1>4. ASSUME NEW n \in Tenant, NEW x \in Cutoffs
      PROVE  /\ MockDeleteEventsOlderThan(tables.mock, n, x, TRUE) = dry(n, x)
             /\ SqliteDeleteEventsOlderThan(tables.sqlite, n, x, TRUE) = dry(n, x)
             /\ PostgresDeleteEventsOlderThan(tables.postgres, n, x, TRUE) = dry(n, x)
             /\ MockDeleteEventsOlderThan(tables.mock, n, x, FALSE) = real(n, x)
             /\ SqliteDeleteEventsOlderThan(tables.sqlite, n, x, FALSE) = real(n, x)
             /\ PostgresDeleteEventsOlderThan(tables.postgres, n, x, FALSE) = real(n, x)
  BY <1>1 DEF MockDeleteEventsOlderThan, SqliteDeleteEventsOlderThan, PostgresDeleteEventsOlderThan
<1>5. /\ \A c \in PruneEvents(TRUE) : \E n \in Tenant, x \in Cutoffs : c = Dry(n, x)
      /\ \A c \in PruneEvents(FALSE) : \E n \in Tenant, x \in Cutoffs : c = Real(n, x)
      /\ \A n \in Tenant, x \in Cutoffs : Dry(n, x) \in PruneEvents(TRUE)
  <2>1. ASSUME NEW b \in BOOLEAN, NEW c \in PruneEvents(b)
        PROVE  \E n \in Tenant, x \in Cutoffs :
                 c = Call(ByTenant(n), MockDeleteEventsOlderThan(tables.mock, n, x, b), SqliteDeleteEventsOlderThan(tables.sqlite, n, x, b),
                          PostgresDeleteEventsOlderThan(tables.postgres, n, x, b))
    BY <2>1 DEF PruneEvents
  <2>2. ASSUME NEW b \in BOOLEAN, NEW n \in Tenant, NEW x \in Cutoffs
        PROVE  Call(ByTenant(n), MockDeleteEventsOlderThan(tables.mock, n, x, b), SqliteDeleteEventsOlderThan(tables.sqlite, n, x, b),
                          PostgresDeleteEventsOlderThan(tables.postgres, n, x, b)) \in PruneEvents(b)
    BY DEF PruneEvents
  <2> HIDE DEF dry, real
  <2>3. ASSUME NEW c \in PruneEvents(TRUE)
        PROVE  \E n \in Tenant, x \in Cutoffs : c = Dry(n, x)
    <3>1. PICK n \in Tenant, x \in Cutoffs :
            c = Call(ByTenant(n), MockDeleteEventsOlderThan(tables.mock, n, x, TRUE), SqliteDeleteEventsOlderThan(tables.sqlite, n, x, TRUE),
                          PostgresDeleteEventsOlderThan(tables.postgres, n, x, TRUE))
      BY <2>1, <2>3
    <3> QED  BY <1>4, <3>1
  <2>4. ASSUME NEW c \in PruneEvents(FALSE)
        PROVE  \E n \in Tenant, x \in Cutoffs : c = Real(n, x)
    <3>1. PICK n \in Tenant, x \in Cutoffs :
            c = Call(ByTenant(n), MockDeleteEventsOlderThan(tables.mock, n, x, FALSE), SqliteDeleteEventsOlderThan(tables.sqlite, n, x, FALSE),
                          PostgresDeleteEventsOlderThan(tables.postgres, n, x, FALSE))
      BY <2>1, <2>4
    <3> QED  BY <1>4, <3>1
  <2>5. ASSUME NEW n \in Tenant, NEW x \in Cutoffs
        PROVE  Dry(n, x) \in PruneEvents(TRUE)
    <3>1. Call(ByTenant(n), MockDeleteEventsOlderThan(tables.mock, n, x, TRUE), SqliteDeleteEventsOlderThan(tables.sqlite, n, x, TRUE),
                          PostgresDeleteEventsOlderThan(tables.postgres, n, x, TRUE)) \in PruneEvents(TRUE)
      BY <2>2
    <3> QED  BY <1>4, <3>1
  <2> QED  BY <2>3, <2>4, <2>5
<1>6. ASSUME NEW n \in Tenant, NEW x \in Cutoffs
      PROVE  /\ dry(n, x).table = t
             /\ Value(dry(n, x).answer) = Cardinality(rows(n, x))
             /\ real(n, x).table = t \ rows(n, x)
             /\ Value(real(n, x).answer) = Cardinality(rows(n, x))
             /\ Cardinality(rows(n, x)) \in Nat /\ Cardinality(t) \in Nat
             /\ Cardinality(t \ rows(n, x)) = Cardinality(t) - Cardinality(rows(n, x))
  <2>1. rows(n, x) \subseteq t
    BY DEF Older
  <2> HIDE DEF rows
  <2> QED  BY <1>2, <2>1, PruneIs
<1> HIDE DEF rows, dry, real
<1>7. \A n \in Tenant, x \in Cutoffs : /\ Dry(n, x).by = ByTenant(n) /\ Dry(n, x).mock = dry(n, x)
                /\ Dry(n, x).sqlite = dry(n, x) /\ Dry(n, x).postgres = dry(n, x)
                /\ Real(n, x).by = ByTenant(n) /\ Real(n, x).sqlite = real(n, x)
  BY DEF Call
<1> HIDE DEF Dry, Real
<1>8. ASSUME NEW c \in Retention(TRUE)
      PROVE  NoChange(c)
  <2>1. PICK n \in Tenant, x \in Cutoffs : c = Dry(n, x)
    BY <1>3, <1>5, <1>8
  <2>2. c.mock.table = t /\ c.sqlite.table = t /\ c.postgres.table = t
    BY <1>6, <1>7, <2>1
  <2> QED  BY <1>1, <2>2 DEF NoChange
<1>9. ASSUME NEW c \in Retention(FALSE)
      PROVE  Honest(c)
  <2>1. PICK n \in Tenant, x \in Cutoffs : c = Real(n, x)
    BY <1>3, <1>5, <1>9
  <2> DEFINE d == Dry(n, x)
             p == real(n, x)
             e == dry(n, x)
             k == Cardinality(rows(n, x))
  <2>2. d \in Retention(TRUE)
    BY <1>3, <1>5
  <2>3. /\ Value(e.answer) = k /\ Value(p.answer) = k
        /\ p.table = t \ rows(n, x) /\ k \in Nat /\ Cardinality(t) \in Nat
        /\ Cardinality(t \ rows(n, x)) = Cardinality(t) - k
    BY <1>6
  <2>4. c.by = ByTenant(n) /\ c.sqlite = p /\ d.by = ByTenant(n) /\ d.sqlite = e
    BY <1>7, <2>1
  <2> HIDE DEF d, p, e, k
  <2>5. /\ CountOf(c.sqlite.answer) = k /\ CountOf(d.sqlite.answer) = k
        /\ Listable(tables.sqlite) = t /\ Listable(c.sqlite.table) = t \ rows(n, x)
    BY <2>3, <2>4 DEF CountOf, Listable
  <2>6. Cardinality(Listable(tables.sqlite)) - Cardinality(Listable(c.sqlite.table)) = CountOf(c.sqlite.answer)
    BY <2>3, <2>5
  <2> QED  BY <2>2, <2>4, <2>5, <2>6 DEF Honest
<1> QED
  BY <1>8, <1>9

\* Retention of usage.
LEMMA PruneUsageHonest ==
  ASSUME RowsOK, kind = "usage"
  PROVE  /\ \A c \in Retention(TRUE) : NoChange(c)
         /\ \A c \in Retention(FALSE) : Honest(c)
<1> DEFINE t == tables.sqlite
           rows(o, x) == {y \in Older(t, x) : y.org = o}
           dry(o, x) == Prune(t, rows(o, x), TRUE)
           real(o, x) == Prune(t, rows(o, x), FALSE)
           Dry(o, x) == Call(ByOrg(o), dry(o, x), dry(o, x), dry(o, x))
           Real(o, x) == Call(ByOrg(o), real(o, x), real(o, x), real(o, x))
<1>1. Good("usage", t) /\ tables.postgres = t /\ tables.mock = t /\ DOMAIN tables = {"mock", "sqlite", "postgres"}
  BY RowTablesAre DEF RowsOK
<1>2. IsFiniteSet(t)
  BY <1>1 DEF Good
<1>3. Retention(TRUE) = PruneUsage(TRUE) /\ Retention(FALSE) = PruneUsage(FALSE)
  BY DEF Retention
<1>4. ASSUME NEW o \in Org, NEW x \in Cutoffs
      PROVE  /\ MockDeleteUsageOlderThan(tables.mock, o, x, TRUE) = dry(o, x)
             /\ SqliteDeleteUsageOlderThan(tables.sqlite, o, x, TRUE) = dry(o, x)
             /\ PostgresDeleteUsageOlderThan(tables.postgres, o, x, TRUE) = dry(o, x)
             /\ MockDeleteUsageOlderThan(tables.mock, o, x, FALSE) = real(o, x)
             /\ SqliteDeleteUsageOlderThan(tables.sqlite, o, x, FALSE) = real(o, x)
             /\ PostgresDeleteUsageOlderThan(tables.postgres, o, x, FALSE) = real(o, x)
  BY <1>1 DEF MockDeleteUsageOlderThan, SqliteDeleteUsageOlderThan, PostgresDeleteUsageOlderThan
<1>5. /\ \A c \in PruneUsage(TRUE) : \E o \in Org, x \in Cutoffs : c = Dry(o, x)
      /\ \A c \in PruneUsage(FALSE) : \E o \in Org, x \in Cutoffs : c = Real(o, x)
      /\ \A o \in Org, x \in Cutoffs : Dry(o, x) \in PruneUsage(TRUE)
  <2>1. ASSUME NEW b \in BOOLEAN, NEW c \in PruneUsage(b)
        PROVE  \E o \in Org, x \in Cutoffs :
                 c = Call(ByOrg(o), MockDeleteUsageOlderThan(tables.mock, o, x, b), SqliteDeleteUsageOlderThan(tables.sqlite, o, x, b),
                          PostgresDeleteUsageOlderThan(tables.postgres, o, x, b))
    BY <2>1 DEF PruneUsage
  <2>2. ASSUME NEW b \in BOOLEAN, NEW o \in Org, NEW x \in Cutoffs
        PROVE  Call(ByOrg(o), MockDeleteUsageOlderThan(tables.mock, o, x, b), SqliteDeleteUsageOlderThan(tables.sqlite, o, x, b),
                          PostgresDeleteUsageOlderThan(tables.postgres, o, x, b)) \in PruneUsage(b)
    BY DEF PruneUsage
  <2> HIDE DEF dry, real
  <2>3. ASSUME NEW c \in PruneUsage(TRUE)
        PROVE  \E o \in Org, x \in Cutoffs : c = Dry(o, x)
    <3>1. PICK o \in Org, x \in Cutoffs :
            c = Call(ByOrg(o), MockDeleteUsageOlderThan(tables.mock, o, x, TRUE), SqliteDeleteUsageOlderThan(tables.sqlite, o, x, TRUE),
                          PostgresDeleteUsageOlderThan(tables.postgres, o, x, TRUE))
      BY <2>1, <2>3
    <3> QED  BY <1>4, <3>1
  <2>4. ASSUME NEW c \in PruneUsage(FALSE)
        PROVE  \E o \in Org, x \in Cutoffs : c = Real(o, x)
    <3>1. PICK o \in Org, x \in Cutoffs :
            c = Call(ByOrg(o), MockDeleteUsageOlderThan(tables.mock, o, x, FALSE), SqliteDeleteUsageOlderThan(tables.sqlite, o, x, FALSE),
                          PostgresDeleteUsageOlderThan(tables.postgres, o, x, FALSE))
      BY <2>1, <2>4
    <3> QED  BY <1>4, <3>1
  <2>5. ASSUME NEW o \in Org, NEW x \in Cutoffs
        PROVE  Dry(o, x) \in PruneUsage(TRUE)
    <3>1. Call(ByOrg(o), MockDeleteUsageOlderThan(tables.mock, o, x, TRUE), SqliteDeleteUsageOlderThan(tables.sqlite, o, x, TRUE),
                          PostgresDeleteUsageOlderThan(tables.postgres, o, x, TRUE)) \in PruneUsage(TRUE)
      BY <2>2
    <3> QED  BY <1>4, <3>1
  <2> QED  BY <2>3, <2>4, <2>5
<1>6. ASSUME NEW o \in Org, NEW x \in Cutoffs
      PROVE  /\ dry(o, x).table = t
             /\ Value(dry(o, x).answer) = Cardinality(rows(o, x))
             /\ real(o, x).table = t \ rows(o, x)
             /\ Value(real(o, x).answer) = Cardinality(rows(o, x))
             /\ Cardinality(rows(o, x)) \in Nat /\ Cardinality(t) \in Nat
             /\ Cardinality(t \ rows(o, x)) = Cardinality(t) - Cardinality(rows(o, x))
  <2>1. rows(o, x) \subseteq t
    BY DEF Older
  <2> HIDE DEF rows
  <2> QED  BY <1>2, <2>1, PruneIs
<1> HIDE DEF rows, dry, real
<1>7. \A o \in Org, x \in Cutoffs : /\ Dry(o, x).by = ByOrg(o) /\ Dry(o, x).mock = dry(o, x)
                /\ Dry(o, x).sqlite = dry(o, x) /\ Dry(o, x).postgres = dry(o, x)
                /\ Real(o, x).by = ByOrg(o) /\ Real(o, x).sqlite = real(o, x)
  BY DEF Call
<1> HIDE DEF Dry, Real
<1>8. ASSUME NEW c \in Retention(TRUE)
      PROVE  NoChange(c)
  <2>1. PICK o \in Org, x \in Cutoffs : c = Dry(o, x)
    BY <1>3, <1>5, <1>8
  <2>2. c.mock.table = t /\ c.sqlite.table = t /\ c.postgres.table = t
    BY <1>6, <1>7, <2>1
  <2> QED  BY <1>1, <2>2 DEF NoChange
<1>9. ASSUME NEW c \in Retention(FALSE)
      PROVE  Honest(c)
  <2>1. PICK o \in Org, x \in Cutoffs : c = Real(o, x)
    BY <1>3, <1>5, <1>9
  <2> DEFINE d == Dry(o, x)
             p == real(o, x)
             e == dry(o, x)
             k == Cardinality(rows(o, x))
  <2>2. d \in Retention(TRUE)
    BY <1>3, <1>5
  <2>3. /\ Value(e.answer) = k /\ Value(p.answer) = k
        /\ p.table = t \ rows(o, x) /\ k \in Nat /\ Cardinality(t) \in Nat
        /\ Cardinality(t \ rows(o, x)) = Cardinality(t) - k
    BY <1>6
  <2>4. c.by = ByOrg(o) /\ c.sqlite = p /\ d.by = ByOrg(o) /\ d.sqlite = e
    BY <1>7, <2>1
  <2> HIDE DEF d, p, e, k
  <2>5. /\ CountOf(c.sqlite.answer) = k /\ CountOf(d.sqlite.answer) = k
        /\ Listable(tables.sqlite) = t /\ Listable(c.sqlite.table) = t \ rows(o, x)
    BY <2>3, <2>4 DEF CountOf, Listable
  <2>6. Cardinality(Listable(tables.sqlite)) - Cardinality(Listable(c.sqlite.table)) = CountOf(c.sqlite.answer)
    BY <2>3, <2>5
  <2> QED  BY <2>2, <2>4, <2>5, <2>6 DEF Honest
<1> QED
  BY <1>8, <1>9

\* Retention of job runs.
LEMMA PruneRunsHonest ==
  ASSUME RowsOK, kind = "runs"
  PROVE  /\ \A c \in Retention(TRUE) : NoChange(c)
         /\ \A c \in Retention(FALSE) : Honest(c)
<1> DEFINE t == tables.sqlite
           rows(x) == Older(t, x)
           dry(x) == Prune(t, rows(x), TRUE)
           real(x) == Prune(t, rows(x), FALSE)
           Dry(x) == Call(Anyone, dry(x), dry(x), dry(x))
           Real(x) == Call(Anyone, real(x), real(x), real(x))
<1>1. Good("runs", t) /\ tables.postgres = t /\ tables.mock = t /\ DOMAIN tables = {"mock", "sqlite", "postgres"}
  BY RowTablesAre DEF RowsOK
<1>2. IsFiniteSet(t)
  BY <1>1 DEF Good
<1>3. Retention(TRUE) = PruneRuns(TRUE) /\ Retention(FALSE) = PruneRuns(FALSE)
  BY DEF Retention
<1>4. ASSUME NEW x \in Cutoffs
      PROVE  /\ MockDeleteRunsOlderThan(tables.mock, x, TRUE) = dry(x)
             /\ SqliteDeleteRunsOlderThan(tables.sqlite, x, TRUE) = dry(x)
             /\ PostgresDeleteRunsOlderThan(tables.postgres, x, TRUE) = dry(x)
             /\ MockDeleteRunsOlderThan(tables.mock, x, FALSE) = real(x)
             /\ SqliteDeleteRunsOlderThan(tables.sqlite, x, FALSE) = real(x)
             /\ PostgresDeleteRunsOlderThan(tables.postgres, x, FALSE) = real(x)
  BY <1>1 DEF MockDeleteRunsOlderThan, SqliteDeleteRunsOlderThan, PostgresDeleteRunsOlderThan
<1>5. /\ \A c \in PruneRuns(TRUE) : \E x \in Cutoffs : c = Dry(x)
      /\ \A c \in PruneRuns(FALSE) : \E x \in Cutoffs : c = Real(x)
      /\ \A x \in Cutoffs : Dry(x) \in PruneRuns(TRUE)
  <2>1. ASSUME NEW b \in BOOLEAN, NEW c \in PruneRuns(b)
        PROVE  \E x \in Cutoffs :
                 c = Call(Anyone, MockDeleteRunsOlderThan(tables.mock, x, b), SqliteDeleteRunsOlderThan(tables.sqlite, x, b),
                          PostgresDeleteRunsOlderThan(tables.postgres, x, b))
    BY <2>1 DEF PruneRuns
  <2>2. ASSUME NEW b \in BOOLEAN, NEW x \in Cutoffs
        PROVE  Call(Anyone, MockDeleteRunsOlderThan(tables.mock, x, b), SqliteDeleteRunsOlderThan(tables.sqlite, x, b),
                          PostgresDeleteRunsOlderThan(tables.postgres, x, b)) \in PruneRuns(b)
    BY DEF PruneRuns
  <2> HIDE DEF dry, real
  <2>3. ASSUME NEW c \in PruneRuns(TRUE)
        PROVE  \E x \in Cutoffs : c = Dry(x)
    <3>1. PICK x \in Cutoffs :
            c = Call(Anyone, MockDeleteRunsOlderThan(tables.mock, x, TRUE), SqliteDeleteRunsOlderThan(tables.sqlite, x, TRUE),
                          PostgresDeleteRunsOlderThan(tables.postgres, x, TRUE))
      BY <2>1, <2>3
    <3> QED  BY <1>4, <3>1
  <2>4. ASSUME NEW c \in PruneRuns(FALSE)
        PROVE  \E x \in Cutoffs : c = Real(x)
    <3>1. PICK x \in Cutoffs :
            c = Call(Anyone, MockDeleteRunsOlderThan(tables.mock, x, FALSE), SqliteDeleteRunsOlderThan(tables.sqlite, x, FALSE),
                          PostgresDeleteRunsOlderThan(tables.postgres, x, FALSE))
      BY <2>1, <2>4
    <3> QED  BY <1>4, <3>1
  <2>5. ASSUME NEW x \in Cutoffs
        PROVE  Dry(x) \in PruneRuns(TRUE)
    <3>1. Call(Anyone, MockDeleteRunsOlderThan(tables.mock, x, TRUE), SqliteDeleteRunsOlderThan(tables.sqlite, x, TRUE),
                          PostgresDeleteRunsOlderThan(tables.postgres, x, TRUE)) \in PruneRuns(TRUE)
      BY <2>2
    <3> QED  BY <1>4, <3>1
  <2> QED  BY <2>3, <2>4, <2>5
<1>6. ASSUME NEW x \in Cutoffs
      PROVE  /\ dry(x).table = t
             /\ Value(dry(x).answer) = Cardinality(rows(x))
             /\ real(x).table = t \ rows(x)
             /\ Value(real(x).answer) = Cardinality(rows(x))
             /\ Cardinality(rows(x)) \in Nat /\ Cardinality(t) \in Nat
             /\ Cardinality(t \ rows(x)) = Cardinality(t) - Cardinality(rows(x))
  <2>1. rows(x) \subseteq t
    BY DEF Older
  <2> HIDE DEF rows
  <2> QED  BY <1>2, <2>1, PruneIs
<1> HIDE DEF rows, dry, real
<1>7. \A x \in Cutoffs : /\ Dry(x).by = Anyone /\ Dry(x).mock = dry(x)
                /\ Dry(x).sqlite = dry(x) /\ Dry(x).postgres = dry(x)
                /\ Real(x).by = Anyone /\ Real(x).sqlite = real(x)
  BY DEF Call
<1> HIDE DEF Dry, Real
<1>8. ASSUME NEW c \in Retention(TRUE)
      PROVE  NoChange(c)
  <2>1. PICK x \in Cutoffs : c = Dry(x)
    BY <1>3, <1>5, <1>8
  <2>2. c.mock.table = t /\ c.sqlite.table = t /\ c.postgres.table = t
    BY <1>6, <1>7, <2>1
  <2> QED  BY <1>1, <2>2 DEF NoChange
<1>9. ASSUME NEW c \in Retention(FALSE)
      PROVE  Honest(c)
  <2>1. PICK x \in Cutoffs : c = Real(x)
    BY <1>3, <1>5, <1>9
  <2> DEFINE d == Dry(x)
             p == real(x)
             e == dry(x)
             k == Cardinality(rows(x))
  <2>2. d \in Retention(TRUE)
    BY <1>3, <1>5
  <2>3. /\ Value(e.answer) = k /\ Value(p.answer) = k
        /\ p.table = t \ rows(x) /\ k \in Nat /\ Cardinality(t) \in Nat
        /\ Cardinality(t \ rows(x)) = Cardinality(t) - k
    BY <1>6
  <2>4. c.by = Anyone /\ c.sqlite = p /\ d.by = Anyone /\ d.sqlite = e
    BY <1>7, <2>1
  <2> HIDE DEF d, p, e, k
  <2>5. /\ CountOf(c.sqlite.answer) = k /\ CountOf(d.sqlite.answer) = k
        /\ Listable(tables.sqlite) = t /\ Listable(c.sqlite.table) = t \ rows(x)
    BY <2>3, <2>4 DEF CountOf, Listable
  <2>6. Cardinality(Listable(tables.sqlite)) - Cardinality(Listable(c.sqlite.table)) = CountOf(c.sqlite.answer)
    BY <2>3, <2>5
  <2> QED  BY <2>2, <2>4, <2>5, <2>6 DEF Honest
<1> QED
  BY <1>8, <1>9

\* Retention of facts.
LEMMA PruneFactsHonest ==
  ASSUME RowsOK, kind = "facts"
  PROVE  /\ \A c \in Retention(TRUE) : NoChange(c)
         /\ \A c \in Retention(FALSE) : Honest(c)
<1> DEFINE t == tables.sqlite
           Ids(n, x) == {r.fact.id : r \in Expired(t, n, x)}
           Mids(n, x) == {f.id : f \in {g \in MockActive(tables.mock) : Owns(n, g) /\ g.time < x}}
<1>1. Good("facts", t) /\ tables.postgres = t /\ DOMAIN tables = {"mock", "sqlite", "postgres"}
  BY RowTablesAre DEF RowsOK
<1>2. \A dry : Retention(dry) = PruneFacts(dry)
  BY DEF Retention
<1>3. ASSUME NEW n, NEW x
      PROVE  /\ SqliteDeleteFactsOlderThan(t, n, x, TRUE)
                  = Result(Ok([count |-> Cardinality(Ids(n, x)), ids |-> {}]), t)
             /\ SqliteDeleteFactsOlderThan(t, n, x, FALSE)
                  = Result(Ok([count |-> Cardinality(Expired(t, n, x)), ids |-> Ids(n, x)]),
                           Marked(t, Expired(t, n, x)))
             /\ MockDeleteFactsOlderThan(tables.mock, n, x, TRUE)
                  = Result(Ok([count |-> Cardinality(Mids(n, x)), ids |-> {}]), tables.mock)
             /\ \A dry : PostgresDeleteFactsOlderThan(t, n, x, dry) = SqliteDeleteFactsOlderThan(t, n, x, dry)
  BY DEF SqliteDeleteFactsOlderThan, MockDeleteFactsOlderThan, PostgresDeleteFactsOlderThan, Expired, Marked
<1> DEFINE C(n, x, dry) == Call(ByTenant(n), MockDeleteFactsOlderThan(tables.mock, n, x, dry),
                                SqliteDeleteFactsOlderThan(tables.sqlite, n, x, dry),
                                PostgresDeleteFactsOlderThan(tables.postgres, n, x, dry))
<1>4. /\ \A c \in Retention(TRUE) : \E n \in Tenant, x \in Cutoffs : c = C(n, x, TRUE)
      /\ \A c \in Retention(FALSE) : \E n \in Tenant, x \in Cutoffs : c = C(n, x, FALSE)
      /\ \A n \in Tenant, x \in Cutoffs : C(n, x, TRUE) \in Retention(TRUE)
  <2>1. ASSUME NEW b \in BOOLEAN, NEW c \in PruneFacts(b)
        PROVE  \E n \in Tenant, x \in Cutoffs : c = C(n, x, b)
    BY <2>1 DEF PruneFacts
  <2>2. ASSUME NEW b \in BOOLEAN, NEW n \in Tenant, NEW x \in Cutoffs
        PROVE  C(n, x, b) \in PruneFacts(b)
    BY DEF PruneFacts
  <2> HIDE DEF C
  <2>3. Retention(TRUE) = PruneFacts(TRUE) /\ Retention(FALSE) = PruneFacts(FALSE)
    BY <1>2
  <2> QED  BY <2>1, <2>2, <2>3
<1> HIDE DEF Ids, Mids
<1>5. ASSUME NEW n, NEW x, NEW dry
      PROVE  /\ C(n, x, dry).by = ByTenant(n)
             /\ C(n, x, dry).mock = MockDeleteFactsOlderThan(tables.mock, n, x, dry)
             /\ C(n, x, dry).sqlite = SqliteDeleteFactsOlderThan(t, n, x, dry)
             /\ C(n, x, dry).postgres = SqliteDeleteFactsOlderThan(t, n, x, dry)
  BY <1>1, <1>3 DEF Call
<1> HIDE DEF C
<1>6. ASSUME NEW c \in Retention(TRUE)
      PROVE  NoChange(c)
  <2>1. PICK n \in Tenant, x \in Cutoffs : c = C(n, x, TRUE)
    BY <1>4, <1>6
  <2>2. /\ c.mock = MockDeleteFactsOlderThan(tables.mock, n, x, TRUE)
        /\ c.sqlite = SqliteDeleteFactsOlderThan(t, n, x, TRUE)
        /\ c.postgres = SqliteDeleteFactsOlderThan(t, n, x, TRUE)
    BY <1>5, <2>1
  <2>3. c.mock.table = tables.mock /\ c.sqlite.table = t /\ c.postgres.table = t
    <3> DEFINE m == c.mock
               s == c.sqlite
               p == c.postgres
               v == Ok([count |-> Cardinality(Ids(n, x)), ids |-> {}])
               w == Ok([count |-> Cardinality(Mids(n, x)), ids |-> {}])
    <3>1. m = Result(w, tables.mock) /\ s = Result(v, t) /\ p = Result(v, t)
      BY <1>3, <2>2
    <3> HIDE DEF m, s, p, v, w
    <3>2. m.table = tables.mock /\ s.table = t /\ p.table = t
      BY ONLY <3>1 DEF Result
    <3> QED  BY <3>2 DEF m, s, p
  <2> QED  BY <1>1, <2>3 DEF NoChange
<1>7. ASSUME NEW c \in Retention(FALSE)
      PROVE  Honest(c)
  <2>1. PICK n \in Tenant, x \in Cutoffs : c = C(n, x, FALSE)
    BY <1>4, <1>7
  <2> DEFINE rows == Expired(t, n, x)
             F == {r.fact : r \in rows}
             d == C(n, x, TRUE)
  <2>2. d \in Retention(TRUE)
    BY <1>4
  <2>3. /\ c.by = ByTenant(n) /\ d.by = ByTenant(n)
        /\ c.sqlite = SqliteDeleteFactsOlderThan(t, n, x, FALSE)
        /\ d.sqlite = SqliteDeleteFactsOlderThan(t, n, x, TRUE)
    BY <1>5, <2>1
  <2> HIDE DEF d
  <2>4. /\ Value(c.sqlite.answer) = [count |-> Cardinality(rows), ids |-> Ids(n, x)]
        /\ Value(d.sqlite.answer) = [count |-> Cardinality(Ids(n, x)), ids |-> {}]
        /\ c.sqlite.table = Marked(t, rows)
    <3> DEFINE v == [count |-> Cardinality(rows), ids |-> Ids(n, x)]
               w == [count |-> Cardinality(Ids(n, x)), ids |-> {}]
    <3>1. c.sqlite = Result(Ok(v), Marked(t, rows)) /\ d.sqlite = Result(Ok(w), t)
      BY <1>3, <2>3
    <3> HIDE DEF v, w
    <3>2. c.sqlite.answer = Ok(v) /\ d.sqlite.answer = Ok(w) /\ c.sqlite.table = Marked(t, rows)
      BY ONLY <3>1, ResultIs
    <3>3. Value(c.sqlite.answer) = v /\ Value(d.sqlite.answer) = w
      BY <3>2, AnswerIs
    <3> QED  BY <3>2, <3>3 DEF v, w
  <2>5. rows \subseteq {r \in t : ~r.deleted} /\ F \subseteq Active(t)
    BY DEF Expired, Active
  <2> HIDE DEF rows
  <2>6. /\ Cardinality(rows) \in Nat /\ Cardinality(Ids(n, x)) = Cardinality(rows)
        /\ Cardinality(F) = Cardinality(rows)
    BY <1>1, <2>5, ExpiredIds DEF Ids, rows
  <2>7. Active(Marked(t, rows)) = Active(t) \ F
    BY <1>1, <2>5, MarkedTable
  <2>8. IsFiniteSet(Active(t)) /\ Cardinality(Active(t)) \in Nat
    BY <1>1, ActiveIs
  <2>9. Active(t) \cap F = F
    BY <2>5
  <2> HIDE DEF F
  <2>10. Cardinality(Active(t) \ F) = Cardinality(Active(t)) - Cardinality(F)
    BY <2>8, <2>9, FS_Difference
  <2>11. CountOf(c.sqlite.answer) = Cardinality(rows) /\ CountOf(d.sqlite.answer) = Cardinality(rows)
    BY <2>4, <2>6 DEF CountOf
  <2>12. Listable(t) = Active(t) /\ Listable(c.sqlite.table) = Active(t) \ F
    BY <2>4, <2>7 DEF Listable
  <2>13. Cardinality(Listable(t)) - Cardinality(Listable(c.sqlite.table)) = CountOf(c.sqlite.answer)
    BY <2>6, <2>8, <2>10, <2>11, <2>12
  <2> QED  BY <2>2, <2>3, <2>11, <2>13 DEF Honest
<1> QED
  BY <1>6, <1>7

\* apply_provider_usage_retention: a dry run changes nothing, a real run deletes what the
\* dry run has matched, and a second real run finds nothing.
Truthful(t, org, cutoff) ==
  LET dry  == ApplyProviderUsageRetention(t, org, cutoff, TRUE)
      real == ApplyProviderUsageRetention(t, org, cutoff, FALSE)
  IN  /\ dry.table = t
      /\ real.answer = [matched |-> dry.answer.matched, deleted |-> dry.answer.matched]
      /\ Cardinality(real.table) = Cardinality(t) - real.answer.deleted
      /\ ApplyProviderUsageRetention(real.table, org, cutoff, FALSE).answer
           = [matched |-> 0, deleted |-> 0]

\* The retention of usage is truthful, with and without a cutoff.
LEMMA UsageRetentionHonest ==
  ASSUME NEW t, IsFiniteSet(t), NEW org, NEW cutoff, NEW x, cutoff = {} \/ cutoff = {x}
  PROVE  Truthful(t, org, cutoff)
<1> DEFINE dry  == ApplyProviderUsageRetention(t, org, cutoff, TRUE)
           real == ApplyProviderUsageRetention(t, org, cutoff, FALSE)
<1>0. dry = ApplyProviderUsageRetention(t, org, cutoff, TRUE) /\ real = ApplyProviderUsageRetention(t, org, cutoff, FALSE)
  OBVIOUS
<1> HIDE DEF dry, real
<1> SUFFICES /\ dry.table = t
             /\ real.answer = [matched |-> dry.answer.matched, deleted |-> dry.answer.matched]
             /\ Cardinality(real.table) = Cardinality(t) - real.answer.deleted
             /\ ApplyProviderUsageRetention(real.table, org, cutoff, FALSE).answer
                  = [matched |-> 0, deleted |-> 0]
  BY DEF Truthful, dry, real
<1>1. CASE cutoff = {}
  <2>1. \A u, b : ApplyProviderUsageRetention(u, org, cutoff, b) = Result([matched |-> 0, deleted |-> 0], u)
    BY <1>1 DEF ApplyProviderUsageRetention
  <2> DEFINE z == [matched |-> 0, deleted |-> 0]
  <2>4. /\ \A u : ApplyProviderUsageRetention(u, org, cutoff, TRUE) = Result(z, u)
        /\ \A u : ApplyProviderUsageRetention(u, org, cutoff, FALSE) = Result(z, u)
    BY <2>1
  <2>5. z.matched = 0 /\ z.deleted = 0
    OBVIOUS
  <2> HIDE DEF z
  <2>2. /\ dry.table = t /\ real.table = t /\ dry.answer = z /\ real.answer = z
        /\ ApplyProviderUsageRetention(real.table, org, cutoff, FALSE).answer = z
    <3>1. dry = Result(z, t) /\ real = Result(z, t)
      BY <1>0, <2>4
    <3>2. dry.table = t /\ real.table = t /\ dry.answer = z /\ real.answer = z
      BY <3>1 DEF Result
    <3>3. ApplyProviderUsageRetention(real.table, org, cutoff, FALSE) = Result(z, t)
      BY <2>4, <3>2
    <3> DEFINE again == ApplyProviderUsageRetention(real.table, org, cutoff, FALSE)
    <3>4. again = Result(z, t)
      BY <3>3
    <3> HIDE DEF again
    <3>5. again.answer = z
      BY ONLY <3>4 DEF Result
    <3> QED  BY <3>2, <3>5 DEF again
  <2>3. Cardinality(t) \in Nat
    BY FS_CardinalityType
  <2>6. z = [matched |-> dry.answer.matched, deleted |-> dry.answer.matched]
    BY <2>2, <2>5 DEF z
  <2>7. real.answer.deleted = 0 /\ Cardinality(real.table) = Cardinality(t)
    BY <2>2, <2>5
  <2>8. Cardinality(t) = Cardinality(t) - 0
    BY <2>3
  <2> QED  BY <2>2, <2>6, <2>7, <2>8 DEF z
<1>2. CASE cutoff = {x}
  <2> DEFINE Old(u) == {v \in Older(u, x) : v.org = org}
  <2>1. (CHOOSE c \in cutoff : TRUE) = x /\ cutoff # {}
    BY <1>2
  <2>2. ASSUME NEW u, IsFiniteSet(u)
        PROVE  /\ ApplyProviderUsageRetention(u, org, cutoff, TRUE)
                    = Result([matched |-> Cardinality(Old(u)), deleted |-> 0], u)
               /\ ApplyProviderUsageRetention(u, org, cutoff, FALSE)
                    = Result([matched |-> Cardinality(Old(u)), deleted |-> Cardinality(Old(u))], u \ Old(u))
               /\ Cardinality(u \ Old(u)) = Cardinality(u) - Cardinality(Old(u))
    <3> DEFINE count == SqliteDeleteUsageOlderThan(u, org, x, TRUE)
               delete == SqliteDeleteUsageOlderThan(count.table, org, x, FALSE)
    <3>1. count = Prune(u, Old(u), TRUE) /\ Old(u) \subseteq u
      BY DEF SqliteDeleteUsageOlderThan, Older
    <3> DEFINE rows == Old(u)
    <3>2. SqliteDeleteUsageOlderThan(u, org, x, FALSE) = Prune(u, rows, FALSE)
      BY DEF SqliteDeleteUsageOlderThan
    <3> HIDE DEF Old
    <3>3. /\ Prune(u, rows, TRUE).table = u /\ Value(Prune(u, rows, TRUE).answer) = Cardinality(rows)
          /\ Prune(u, rows, FALSE).table = u \ rows
          /\ Value(Prune(u, rows, FALSE).answer) = Cardinality(rows)
          /\ Cardinality(u \ rows) = Cardinality(u) - Cardinality(rows)
      BY <2>2, <3>1, PruneIs
    <3>4. count.table = u /\ Value(count.answer) = Cardinality(rows)
      BY <3>1, <3>3
    <3>5. delete.table = u \ rows /\ Value(delete.answer) = Cardinality(rows)
      BY <3>2, <3>3, <3>4
    <3>6. /\ ApplyProviderUsageRetention(u, org, cutoff, TRUE)
               = Result([matched |-> Value(count.answer), deleted |-> 0], count.table)
          /\ ApplyProviderUsageRetention(u, org, cutoff, FALSE)
               = Result([matched |-> Value(count.answer), deleted |-> Value(delete.answer)], delete.table)
      BY <2>1 DEF ApplyProviderUsageRetention
    <3> QED  BY <3>3, <3>4, <3>5, <3>6
  <2>3. Old(t \ Old(t)) = {}
    BY DEF Older
  <2> HIDE DEF Old
  <2> DEFINE k == Cardinality(Old(t))
             v == [matched |-> k, deleted |-> 0]
             w == [matched |-> k, deleted |-> k]
             z == [matched |-> 0, deleted |-> 0]
  <2>4. /\ dry = Result(v, t) /\ real = Result(w, t \ Old(t))
        /\ Cardinality(t \ Old(t)) = Cardinality(t) - k
    BY <1>0, <2>2
  <2>5. IsFiniteSet(t \ Old(t)) /\ Cardinality({}) = 0
    BY FS_Difference, FS_EmptySet
  <2>6. ApplyProviderUsageRetention(t \ Old(t), org, cutoff, FALSE) = Result(z, (t \ Old(t)) \ Old(t \ Old(t)))
    BY <2>2, <2>3, <2>5
  <2>7. v.matched = k /\ w.deleted = k
    OBVIOUS
  <2> HIDE DEF v, w, z, k
  <2>8. /\ dry.answer = v /\ dry.table = t /\ real.answer = w /\ real.table = t \ Old(t)
        /\ ApplyProviderUsageRetention(t \ Old(t), org, cutoff, FALSE).answer = z
    <3> DEFINE again == ApplyProviderUsageRetention(t \ Old(t), org, cutoff, FALSE)
               rest == (t \ Old(t)) \ Old(t \ Old(t))
    <3>1. again = Result(z, rest)
      BY <2>6
    <3> HIDE DEF again, rest
    <3>2. again.answer = z
      BY ONLY <3>1 DEF Result
    <3>3. dry.answer = v /\ dry.table = t /\ real.answer = w /\ real.table = t \ Old(t)
      BY ONLY <2>4 DEF Result
    <3> QED  BY <3>2, <3>3 DEF again
  <2>9. w = [matched |-> dry.answer.matched, deleted |-> dry.answer.matched]
    BY <2>7, <2>8 DEF w
  <2> QED  BY <2>4, <2>7, <2>8, <2>9 DEF z
<1> QED
  BY <1>1, <1>2

\* Retention tells the truth.
LEMMA RetentionHonest ==
  ASSUME StoresInv
  PROVE  DryRunHonest
<1> SUFFICES ASSUME kind # "vectors" PROVE DryRunHonest
  BY DEF DryRunHonest
<1>1. RowsOK
  BY PortIs
<1>2. /\ \A c \in Retention(TRUE) : NoChange(c)
      /\ \A c \in Retention(FALSE) : Honest(c)
  <2>1. CASE kind = "facts"   BY <1>1, <2>1, PruneFactsHonest
  <2>2. CASE kind = "events"  BY <1>1, <2>2, PruneEventsHonest
  <2>3. CASE kind = "usage"   BY <1>1, <2>3, PruneUsageHonest
  <2>4. CASE kind = "runs"    BY <1>1, <2>4, PruneRunsHonest
  <2>5. CASE kind \notin {"facts", "events", "usage", "runs"}
    BY <2>5 DEF Retention
  <2> QED  BY <2>1, <2>2, <2>3, <2>4, <2>5
<1>3. ASSUME kind = "usage", NEW org \in Org, NEW cutoff \in {{}} \cup {{c} : c \in Cutoffs}
      PROVE  LET dry  == ApplyProviderUsageRetention(tables.sqlite, org, cutoff, TRUE)
                 real == ApplyProviderUsageRetention(tables.sqlite, org, cutoff, FALSE)
             IN  /\ dry.table = tables.sqlite
                 /\ real.answer = [matched |-> dry.answer.matched,
                                   deleted |-> dry.answer.matched]
                 /\ Cardinality(real.table) = Cardinality(tables.sqlite) - real.answer.deleted
                 /\ ApplyProviderUsageRetention(real.table, org, cutoff, FALSE).answer
                      = [matched |-> 0, deleted |-> 0]
  <2>1. IsFiniteSet(tables.sqlite)
    BY <1>1, RowTablesAre DEF Good
  <2>2. PICK x : cutoff = {} \/ cutoff = {x}
    BY <1>3
  <2>3. Truthful(tables.sqlite, org, cutoff)
    BY <2>1, <2>2, UsageRetentionHonest
  <2> QED  BY <2>3 DEF Truthful
<1>4. ASSUME NEW c \in Retention(FALSE)
      PROVE  LET count == IF kind = "facts" THEN Value(c.sqlite.answer).count ELSE Value(c.sqlite.answer)
             IN  /\ Cardinality(Listable(tables.sqlite)) - Cardinality(Listable(c.sqlite.table)) = count
                 /\ \E d \in Retention(TRUE) :
                      /\ d.by = c.by
                      /\ IF kind = "facts" THEN Value(d.sqlite.answer).count = count
                                           ELSE Value(d.sqlite.answer) = count
  BY <1>2 DEF Honest, CountOf
<1> QED
  BY <1>2, <1>3, <1>4 DEF DryRunHonest, NoChange

\* Every number the program reports (count_facts_by_org, query_usage, the daily buckets,
\* the retention calls and their dry runs) agrees with the rows.
THEOREM NumbersAreTrue == StoresSpec => []SummariesMatch
<1>1. ASSUME StoresInv
      PROVE  SummariesMatch
  BY <1>1, TotalsAgree, CountsAgree, RetentionHonest DEF SummariesMatch
<1> QED
  BY <1>1, StoresInvariant, PTL
=============================================================================
