--------------------------- MODULE StartupProofs ---------------------------
(***************************************************************************)
(* Startup for any processes, deployments, databases, crashes and          *)
(* redeployments: SchemaSound, ReadyMeansMigrated and WiringSound.         *)
(***************************************************************************)
EXTENDS Startup, TLAPS

Name == {"postgres", "file", "private"}
JobKind == {"memory_usage_snapshot", "provider_usage_retention", "memory_retention"}
Proc == [pc : Running \cup {"down"}, todo : Seq(Name), work : SUBSET Version,
         clean : BOOLEAN, jobs : SUBSET JobKind, busy : BOOLEAN]

\* While a shared database is being checked, and once everything is wired.
Checking == {"ensure", "seed", "seeding", "plan", "apply", "tables"}
Wired == {"keys", "bind", "serving", "draining"}

\* What loading leaves: nothing, or validated settings in which numbers are numbers.
SettingsOK(s) ==
  s = Refused \/ /\ DOMAIN s = Fields /\ validate(s)
                 /\ \A f \in DOMAIN NumberDefaults \cup DOMAIN FloatDefaults : s[f] \in Int
DeployOK(x) ==
  SettingsOK(x.settings) /\ \E n \in {0} \cup Version : DOMAIN x.release = 1 .. n

\* A process and its deployment.
ProcOK(p, x) ==
  /\ p \in Proc
  /\ p.pc = "down" => p = Down
  /\ p.pc # "down" => x.settings # Refused
  /\ p.work \subseteq DOMAIN x.release
  /\ p.todo # << >> <=> p.pc \in Checking \cup {"connect"}
  /\ p.pc \in Checking => /\ Head(p.todo) \in Shared
                          /\ storage_migration_mode(x.settings) # "disabled"
  /\ p.jobs = {} \/ p.jobs \subseteq Jobs(x.settings)
  /\ p.pc \in Wired => context_cache_config_valid(x.settings)
  /\ p.pc \notin {"seeding", "apply"} => p.work = {}

\* The database has every migration of the release, as the release has it.
Migrated(rel, d) ==
  \A v \in DOMAIN rel : v \in DOMAIN d.rows /\ d.rows[v] = rel[v]

\* What a process may rely on in a database that it has checked.
Passed(clean, x, d) ==
  /\ clean => Migrated(x.release, d)
  /\ x.settings.database_require_clean_migrations => required_tables \subseteq d.made

Done(p, x) == (Elements(ToCheck(x.settings)) \ Elements(p.todo)) \cap Shared

\* A process and the databases.  What is left to seed or to apply has no gap
\* before it that is not recorded, and what is left to seed was made.
Covered(p, x, dbs) ==
  /\ p.pc \in {"seeding", "apply"} =>
       \A v \in p.work : \A u \in 1 .. v - 1 :
         u \in p.work \/ u \in DOMAIN dbs[Head(p.todo)].rows
  /\ p.pc = "seeding" => p.work \subseteq dbs[Head(p.todo)].made
  /\ p.pc = "tables" /\ p.clean => Migrated(x.release, dbs[Head(p.todo)])
  /\ p.pc # "down" /\ storage_migration_mode(x.settings) # "disabled" =>
       \A d \in Done(p, x) : Passed(p.clean, x, dbs[d])

StartInv ==
  /\ \A i \in Process : DeployOK(deploy[i])
  /\ DOMAIN proc = Process
  /\ \A i \in Process : ProcOK(proc[i], deploy[i])
  /\ \A i \in Process : Covered(proc[i], deploy[i], db)
  /\ DOMAIN db = Shared /\ \A d \in Shared : DatabaseOK(db[d])
  /\ faults \in 0 .. MaxFaults /\ redeploys \in 0 .. MaxRedeploys

-----------------------------------------------------------------------------
\* What is loaded is fit to run with, or refused.
LEMMA LoadedOK ==
  ASSUME NEW d, DeploymentOK(d)
  PROVE  DeployOK(Deployed(d))
<1> DEFINE s == load_settings(d.env)
<1>1. SettingsOK(s)
  <2> SUFFICES ASSUME s # Refused PROVE SettingsOK(s)
    BY DEF SettingsOK
  <2>1. /\ s = FromEnv(d.env) /\ validate(FromEnv(d.env))
    BY DEF load_settings
  <2>2. DOMAIN s = Fields
    BY <2>1 DEF FromEnv
  <2>3. ASSUME NEW f \in DOMAIN NumberDefaults \cup DOMAIN FloatDefaults
        PROVE  s[f] \in Int
    <3>1. f \in Fields
      BY <2>3 DEF Fields, Variables
    <3>2. s[f] = ReadValue(d.env, f)
      BY <2>1, <3>1 DEF FromEnv
    <3>3. f \notin {"event_backend", "context_cache_backend", "context_cache_enabled"}
      BY <2>3 DEF NumberDefaults, FloatDefaults
    <3>4. CASE f \in DOMAIN NumberDefaults
      <4>a. /\ f \notin DOMAIN FloatDefaults /\ f \notin On \cup Off /\ f \notin Optional
        BY <3>4 DEF NumberDefaults, FloatDefaults, On, Off, Optional
      <4>b. /\ f \notin DOMAIN EnumDefaults /\ f \notin DOMAIN TextDefaults
            /\ f \notin DOMAIN ListDefaults
        BY <3>4 DEF NumberDefaults, EnumDefaults, TextDefaults, ListDefaults
      <4>1. s[f] = read_env_or(d.env, f, NumberDefaults[f])
        BY <3>2, <3>3, <3>4, <4>a, <4>b DEF ReadValue
      <4>2. NumberDefaults[f] \in Int
        BY <3>4 DEF NumberDefaults
      <4>3. QED
        BY <3>4, <4>1, <4>2 DEF read_env_or, Set, DeploymentOK
    <3>5. CASE f \notin DOMAIN NumberDefaults /\ f \in DOMAIN FloatDefaults
      <4>a. /\ f \notin On \cup Off /\ f \notin Optional
        BY <3>5 DEF FloatDefaults, On, Off, Optional
      <4>b. /\ f \notin DOMAIN EnumDefaults /\ f \notin DOMAIN TextDefaults
            /\ f \notin DOMAIN ListDefaults
        BY <3>5 DEF FloatDefaults, EnumDefaults, TextDefaults, ListDefaults
      <4>1. s[f] = read_env_or(d.env, f, FloatDefaults[f])
        BY <3>2, <3>3, <3>5, <4>a, <4>b DEF ReadValue
      <4>2. FloatDefaults[f] \in Int
        BY <3>5 DEF FloatDefaults
      <4>3. QED
        BY <3>5, <4>1, <4>2 DEF read_env_or, Set, DeploymentOK
    <3>6. QED
      BY <2>3, <3>4, <3>5
  <2>4. QED
    BY <2>1, <2>2, <2>3 DEF SettingsOK
<1>2. QED
  BY <1>1 DEF DeployOK, Deployed, DeploymentOK

\* The elements of a list that is worked off.
LEMMA ElementsTail ==
  ASSUME NEW S, NEW s \in Seq(S), s # << >>
  PROVE  /\ Head(s) \in S /\ Tail(s) \in Seq(S)
         /\ Elements(s) \subseteq {Head(s)} \cup Elements(Tail(s))
         /\ Elements(Tail(s)) \subseteq Elements(s)
         /\ Len(s) = 1 <=> Tail(s) = << >>
<1>1. \A i \in DOMAIN s : i = 1 \/ /\ i - 1 \in DOMAIN Tail(s)
                                   /\ Tail(s)[i - 1] = s[i]
  OBVIOUS
<1>2. \A i \in DOMAIN Tail(s) : i + 1 \in DOMAIN s /\ Tail(s)[i] = s[i + 1]
  OBVIOUS
<1>3. Head(s) \in S /\ Tail(s) \in Seq(S) /\ Head(s) = s[1]
  OBVIOUS
<1>4. Elements(s) \subseteq {Head(s)} \cup Elements(Tail(s))
  BY <1>1, <1>3 DEF Elements
<1>5. Elements(Tail(s)) \subseteq Elements(s)
  BY <1>2 DEF Elements
<1>6. Len(s) = 1 <=> Tail(s) = << >>
  <2>1. Len(s) \in Nat /\ Len(Tail(s)) = Len(s) - 1
    OBVIOUS
  <2>2. \A t \in Seq(S) : Len(t) = 0 <=> t = << >>
    OBVIOUS
  <2>3. Tail(s) \in Seq(S)
    BY <1>3
  <2>4. Len(Tail(s)) = 0 <=> Tail(s) = << >>
    BY <2>2, <2>3
  <2>5. Len(Tail(s)) = 0 <=> Len(s) = 1
    BY <2>1
  <2>6. QED
    BY <2>4, <2>5
<1>7. QED
  BY <1>3, <1>4, <1>5, <1>6

\* What the startup checks look at.
LEMMA ToCheckIsList ==
  ASSUME NEW s
  PROVE  ToCheck(s) \in Seq(Name)
<1> DEFINE a == IF UsesBackend(s, "postgres") THEN <<"postgres">> ELSE << >>
           b == IF UsesBackend(s, "sqlite") THEN <<Sqlite(s)>> ELSE << >>
<1>1. a \in Seq(Name) /\ b \in Seq(Name)
  <2>1. Sqlite(s) \in Name
    BY DEF Name, Sqlite
  <2>2. << >> \in Seq(Name) /\ \A n \in Name : <<n>> \in Seq(Name)
    OBVIOUS
  <2>3. QED
    BY <2>1, <2>2 DEF Name
<1>2. ToCheck(s) = a \o b
  BY DEF ToCheck
<1> HIDE DEF a, b
<1>3. QED
  BY <1>1, <1>2

\* The first of some versions.
LEMMA FirstIsLeast ==
  ASSUME NEW S \in SUBSET Version, S # {}
  PROVE  First(S) \in S /\ \A w \in S : First(S) <= w
<1>1. \E v \in S : \A w \in S : v <= w
  <2>1. \A w \in S : w \in {1, 2, 3, 4, 5, 6, 7, 8, 9}
    BY DEF Version
  <2>2. QED
    BY <2>1, SMT
<1>2. QED
  BY <1>1 DEF First

\* A database only gains rows and tables.
Grows(d, e) ==
  /\ d.made \subseteq e.made
  /\ \A v \in DOMAIN d.rows : v \in DOMAIN e.rows /\ e.rows[v] = d.rows[v]

\* What a process relies on stays true while others migrate.
LEMMA CoveredGrows ==
  ASSUME NEW p, NEW x, ProcOK(p, x), NEW dbs, NEW dbs2, Covered(p, x, dbs),
         \A d \in Shared : Grows(dbs[d], dbs2[d])
  PROVE  Covered(p, x, dbs2)
<1>1. \A d \in Shared : \A rel : Migrated(rel, dbs[d]) => Migrated(rel, dbs2[d])
  BY DEF Grows, Migrated
<1>2. \A d \in Done(p, x) : d \in Shared
  BY DEF Done
<1>3. \A d \in Shared : \A clean : Passed(clean, x, dbs[d]) => Passed(clean, x, dbs2[d])
  BY <1>1 DEF Grows, Passed
<1>4. p.pc \in {"seeding", "apply", "tables"} => Head(p.todo) \in Shared
  BY DEF ProcOK, Checking
<1>5. QED
  BY <1>1, <1>2, <1>3, <1>4 DEF Covered, Grows

\* A step of one process, whatever it does to the databases.
LEMMA ProcStep ==
  ASSUME StartInv, NEW i \in Process, NEW p, Becomes(i, p), Quiet,
         DOMAIN db' = Shared,
         \A d \in Shared : DatabaseOK(db'[d]) /\ Grows(db[d], db'[d]),
         ProcOK(p, deploy[i]), Covered(p, deploy[i], db')
  PROVE  StartInv'
<1>1. deploy' = deploy /\ Process' = Process /\ faults' = faults /\ redeploys' = redeploys
  BY DEF Quiet, Process
<1>2. DOMAIN proc' = Process /\ \A j \in Process : proc'[j] = IF j = i THEN p ELSE proc[j]
  BY DEF Becomes, StartInv
<1>3. ASSUME NEW j \in Process
      PROVE  ProcOK(proc'[j], deploy[j]) /\ Covered(proc'[j], deploy[j], db')
  <2>1. CASE j = i
    BY <1>2, <2>1
  <2>2. CASE j # i
    <3>1. proc'[j] = proc[j]
      BY <1>2, <2>2
    <3>2. ProcOK(proc[j], deploy[j]) /\ Covered(proc[j], deploy[j], db)
      BY DEF StartInv
    <3>3. Covered(proc[j], deploy[j], db')
      BY <3>2, CoveredGrows
    <3>4. QED
      BY <3>1, <3>2, <3>3
  <2>3. QED
    BY <2>1, <2>2
<1>4. QED
  BY <1>1, <1>2, <1>3 DEF StartInv

\* A step that leaves the databases alone.
LEMMA StillStep ==
  ASSUME StartInv, NEW i \in Process, NEW p, Becomes(i, p), Quiet, UNCHANGED db,
         ProcOK(p, deploy[i]), Covered(p, deploy[i], db)
  PROVE  StartInv'
<1>1. \A d \in Shared : Grows(db[d], db'[d])
  BY DEF Grows
<1>2. DOMAIN db' = Shared /\ \A d \in Shared : DatabaseOK(db'[d])
  BY DEF StartInv
<1>3. Covered(p, deploy[i], db')
  OBVIOUS
<1>4. QED
  BY <1>1, <1>2, <1>3, ProcStep

\* The parts of the idle record.
LEMMA DownOK ==
  ASSUME NEW x, NEW dbs
  PROVE  ProcOK(Down, x) /\ Covered(Down, x, dbs)
<1>1. Down \in Proc
  BY DEF Down, Proc, Running
<1>2. QED
  BY <1>1 DEF Down, ProcOK, Covered, Checking, Wired

\* A process that ends.
LEMMA EndsOK ==
  ASSUME StartInv, NEW i \in Process, Ends(i), Quiet, UNCHANGED db
  PROVE  StartInv'
<1>1. Becomes(i, Down)
  BY DEF Ends, Becomes
<1>2. ProcOK(Down, deploy[i]) /\ Covered(Down, deploy[i], db)
  BY DownOK
<1>3. QED
  BY <1>1, <1>2, StillStep

\* A process that has checked its current database goes on to the next one.
LEMMA NextDatabaseOK ==
  ASSUME NEW p, NEW x, NEW dbs, ProcOK(p, x), Covered(p, x, dbs),
         p.pc \in Checking \cup {"connect"}, NEW clean \in BOOLEAN,
         storage_migration_mode(x.settings) # "disabled" /\ Head(p.todo) \in Shared =>
           Passed(p.clean /\ clean, x, dbs[Head(p.todo)])
  PROVE  /\ ProcOK(NextDatabase(p, clean), x)
         /\ Covered(NextDatabase(p, clean), x, dbs)
<1> DEFINE q == NextDatabase(p, clean)
<1>1. /\ p \in Proc /\ p.todo \in Seq(Name) /\ p.todo # << >>
      /\ p.pc # "down" /\ p.clean \in BOOLEAN
  BY DEF ProcOK, Proc, Checking
<1>2. /\ q.todo = Tail(p.todo) /\ q.clean = (p.clean /\ clean) /\ q.work = {}
      /\ q.jobs = p.jobs /\ q.busy = p.busy
      /\ q.pc = IF Len(p.todo) = 1 THEN "wire" ELSE "connect"
  BY <1>1 DEF NextDatabase, Proc
<1>3. q \in Proc
  <2>1. Tail(p.todo) \in Seq(Name)
    BY <1>1, ElementsTail
  <2>2. QED
    BY <1>1, <2>1 DEF NextDatabase, Proc, Running
<1>4. q.todo # << >> <=> q.pc = "connect"
  BY <1>1, <1>2, ElementsTail
<1>5. q.pc \in {"wire", "connect"}
  BY <1>2
<1> HIDE DEF q
<1>6. ProcOK(q, x)
  <2>1. p.jobs = {} \/ p.jobs \subseteq Jobs(x.settings)
    BY DEF ProcOK
  <2>2. x.settings # Refused
    BY <1>1 DEF ProcOK
  <2>3. QED
    BY <1>2, <1>3, <1>4, <1>5, <2>1, <2>2 DEF ProcOK, Checking, Wired
<1>7. ASSUME storage_migration_mode(x.settings) # "disabled", NEW d \in Done(q, x)
      PROVE  Passed(q.clean, x, dbs[d])
  <2>1. d \in Done(p, x) \/ (d = Head(p.todo) /\ d \in Shared)
    BY <1>1, <1>2, <1>7, ElementsTail DEF Done
  <2>2. CASE d \in Done(p, x)
    <3>1. Passed(p.clean, x, dbs[d])
      BY <1>1, <1>7, <2>2 DEF Covered
    <3>2. QED
      BY <1>2, <3>1 DEF Passed
  <2>3. CASE d = Head(p.todo) /\ d \in Shared
    BY <1>2, <1>7, <2>3
  <2>4. QED
    BY <2>1, <2>2, <2>3
<1>8. Covered(q, x, dbs)
  BY <1>5, <1>7 DEF Covered
<1>9. QED
  BY <1>6, <1>8 DEF q

\* A process that goes on with the same list, report and jobs, and with nothing
\* to seed or to apply.
LEMMA MoveOK ==
  ASSUME NEW p, NEW x, NEW dbs, ProcOK(p, x), Covered(p, x, dbs), p.pc # "down",
         NEW q \in Proc, q.todo = p.todo, q.jobs \in {p.jobs, {}}, q.work = {},
         q.clean => p.clean,
         q.pc \in Running,
         p.pc \in Checking \cup {"connect"} <=> q.pc \in Checking \cup {"connect"},
         q.pc \in Checking => Head(p.todo) \in Shared
                              /\ storage_migration_mode(x.settings) # "disabled",
         q.pc \in Wired => context_cache_config_valid(x.settings),
         q.pc = "tables" /\ q.clean => Migrated(x.release, dbs[Head(p.todo)])
  PROVE  ProcOK(q, x) /\ Covered(q, x, dbs)
<1>1. ProcOK(q, x)
  BY DEF ProcOK, Running
<1>2. Done(q, x) = Done(p, x)
  BY DEF Done
<1>3. Covered(q, x, dbs)
  BY <1>2 DEF Covered, Passed, Running
<1>4. QED
  BY <1>1, <1>3

\* A process that starts.
LEMMA StartOK ==
  ASSUME StartInv, NEW i \in Process, Start(i)
  PROVE  StartInv'
<1> DEFINE x == deploy[i]
           todo == ToCheck(settings(i))
           p == [Down EXCEPT !.todo = todo, !.pc = IF todo = << >> THEN "wire" ELSE "connect"]
<1>1. x.settings # Refused /\ Becomes(i, p) /\ UNCHANGED db /\ Quiet
  BY DEF Start, settings
<1>2. todo \in Seq(Name)
  BY ToCheckIsList
<1>3. /\ p.todo = todo /\ p.work = {} /\ p.jobs = {}
      /\ p.pc = IF todo = << >> THEN "wire" ELSE "connect"
  BY DEF Down
<1>4. p \in Proc
  BY <1>2 DEF Down, Proc, Running
<1>5. todo = ToCheck(x.settings)
  BY DEF settings
<1> HIDE DEF p, todo, x
<1>6. ProcOK(p, x)
  BY <1>1, <1>3, <1>4 DEF ProcOK, Checking, Wired
<1>7. Done(p, x) = {}
  BY <1>3, <1>5 DEF Done
<1>8. Covered(p, x, db)
  BY <1>3, <1>7 DEF Covered
<1>9. QED
  BY <1>1, <1>6, <1>8, StillStep DEF x

\* Connecting, and the whole check of a private database.
LEMMA ConnectOK ==
  ASSUME StartInv, NEW i \in Process, Connect(i)
  PROVE  StartInv'
<1> DEFINE x == deploy[i]
           p == proc[i]
           mode == storage_migration_mode(x.settings)
<1>1. /\ p.pc = "connect" /\ UNCHANGED db /\ Quiet
      /\ \/ Ends(i)
         \/ mode = "disabled" /\ Becomes(i, NextDatabase(p, TRUE))
         \/ mode # "disabled" /\ Head(p.todo) # "private" /\ Goto(i, "ensure")
         \/ Head(p.todo) = "private" /\ Becomes(i, NextDatabase(p, mode = "auto"))
  BY DEF Connect, settings, Current
<1>2. ProcOK(p, x) /\ Covered(p, x, db)
  BY DEF StartInv
<1>3. p \in Proc /\ p.todo # << >> /\ p.todo \in Seq(Name) /\ p.work = {}
  BY <1>1, <1>2 DEF ProcOK, Proc
<1>4. CASE Ends(i)
  BY <1>1, <1>4, EndsOK
<1>5. CASE mode = "disabled" /\ Becomes(i, NextDatabase(p, TRUE))
  <2>1. ProcOK(NextDatabase(p, TRUE), x) /\ Covered(NextDatabase(p, TRUE), x, db)
    BY <1>1, <1>2, <1>5, NextDatabaseOK
  <2>2. QED
    BY <1>1, <1>5, <2>1, StillStep
<1>6. CASE mode # "disabled" /\ Head(p.todo) # "private" /\ Goto(i, "ensure")
  <2> DEFINE q == [p EXCEPT !.pc = "ensure"]
  <2>1. /\ q \in Proc /\ q.todo = p.todo /\ q.jobs = p.jobs /\ q.work = {}
        /\ q.clean = p.clean /\ q.pc = "ensure"
    BY <1>3 DEF Proc, Running
  <2>2. Becomes(i, q)
    BY <1>6 DEF Goto, Becomes
  <2>3. Head(p.todo) \in Shared
    BY <1>3, <1>6, ElementsTail DEF Name, Shared
  <2> HIDE DEF q
  <2>4. ProcOK(q, x) /\ Covered(q, x, db)
    BY <1>1, <1>2, <1>6, <2>1, <2>3, MoveOK DEF Checking, Running, Wired
  <2>5. QED
    BY <1>1, <2>2, <2>4, StillStep
<1>7. CASE Head(p.todo) = "private" /\ Becomes(i, NextDatabase(p, mode = "auto"))
  <2>1. Head(p.todo) \notin Shared
    BY <1>7 DEF Shared
  <2>2. /\ ProcOK(NextDatabase(p, mode = "auto"), x)
        /\ Covered(NextDatabase(p, mode = "auto"), x, db)
    BY <1>1, <1>2, <2>1, NextDatabaseOK
  <2>3. QED
    BY <1>1, <1>7, <2>2, StillStep
<1>8. QED
  BY <1>1, <1>4, <1>5, <1>6, <1>7

\* schema_migrations comes into being.
LEMMA EnsureTableOK ==
  ASSUME StartInv, NEW i \in Process, EnsureTable(i)
  PROVE  StartInv'
<1> DEFINE x == deploy[i]
           p == proc[i]
           q == [p EXCEPT !.pc = "seed"]
           c == Head(p.todo)
<1>1. /\ p.pc = "ensure" /\ Becomes(i, q) /\ Quiet
      /\ db' = [db EXCEPT ![c].tracked = TRUE]
  BY DEF EnsureTable, Current, Goto, Becomes
<1>2. ProcOK(p, x) /\ Covered(p, x, db) /\ DOMAIN db = Shared
      /\ \A d \in Shared : DatabaseOK(db[d])
  BY DEF StartInv
<1>3. /\ p \in Proc /\ p.work = {} /\ c \in Shared
      /\ storage_migration_mode(x.settings) # "disabled"
  BY <1>1, <1>2 DEF ProcOK, Checking
<1>4. /\ q \in Proc /\ q.todo = p.todo /\ q.jobs = p.jobs /\ q.work = {}
      /\ q.clean = p.clean /\ q.pc = "seed"
  BY <1>3 DEF Proc, Running
<1>5. /\ DOMAIN db' = Shared
      /\ \A d \in Shared : DatabaseOK(db'[d]) /\ Grows(db[d], db'[d])
  BY <1>1, <1>2, <1>3 DEF DatabaseOK, Grows
<1> HIDE DEF q
<1>6. ProcOK(q, x) /\ Covered(q, x, db)
  BY <1>1, <1>2, <1>3, <1>4, MoveOK DEF Checking, Running, Wired
<1>7. Covered(q, x, db')
  BY <1>5, <1>6, CoveredGrows
<1>8. QED
  BY <1>1, <1>5, <1>6, <1>7, ProcStep

\* A process that has read what it will seed or apply, or has one less to do.
LEMMA WorkOK ==
  ASSUME NEW p, NEW x, NEW dbs, ProcOK(p, x), Covered(p, x, dbs),
         p.pc \in Checking, NEW q \in Proc, q.todo = p.todo, q.jobs = p.jobs,
         q.clean = p.clean, q.pc \in {"seeding", "apply"},
         q.work \subseteq DOMAIN x.release,
         \A v \in q.work : \A u \in 1 .. v - 1 :
           u \in q.work \/ u \in DOMAIN dbs[Head(p.todo)].rows,
         q.pc = "seeding" => q.work \subseteq dbs[Head(p.todo)].made
  PROVE  ProcOK(q, x) /\ Covered(q, x, dbs)
<1>1. ProcOK(q, x)
  BY DEF ProcOK, Checking, Wired
<1>2. Done(q, x) = Done(p, x)
  BY DEF Done
<1>3. Covered(q, x, dbs)
  BY <1>2 DEF Covered, Checking
<1>4. QED
  BY <1>1, <1>3

\* A release has no gap.
LEMMA ReleaseInOrder ==
  ASSUME NEW x, DeployOK(x)
  PROVE  /\ DOMAIN x.release \subseteq Version
         /\ \A v \in DOMAIN x.release : \A u \in 1 .. v - 1 : u \in DOMAIN x.release
BY DEF DeployOK, Version

\* What sqlx's table says was made has no gap.
LEMMA ReadSeedsOK ==
  ASSUME StartInv, NEW i \in Process, ReadSeeds(i)
  PROVE  StartInv'
<1> DEFINE x == deploy[i]
           p == proc[i]
           c == Head(p.todo)
           W == Seeds(x.release, db[c])
           q == [p EXCEPT !.work = W, !.pc = "seeding"]
<1>1. p.pc = "seed" /\ Becomes(i, q) /\ UNCHANGED db /\ Quiet
  BY DEF ReadSeeds, Current, release
<1>2. ProcOK(p, x) /\ Covered(p, x, db) /\ DeployOK(x)
      /\ \A d \in Shared : DatabaseOK(db[d])
  BY DEF StartInv
<1>3. p \in Proc /\ c \in Shared
  BY <1>1, <1>2 DEF ProcOK, Checking
<1>4. DatabaseOK(db[c])
  BY <1>2, <1>3
<1>5. /\ W \subseteq DOMAIN x.release /\ W \subseteq db[c].made
      /\ \A v \in W : \A u \in 1 .. v - 1 : u \in W
  <2>1. CASE W = {}
    BY <2>1
  <2>2. CASE W = DOMAIN x.release \cap db[c].legacy
    <3>1. \A v \in db[c].legacy : \A u \in 1 .. v - 1 : u \in db[c].legacy
      BY <1>4 DEF DatabaseOK, InOrder, Version
    <3>2. db[c].legacy \subseteq db[c].made
      BY <1>4 DEF DatabaseOK
    <3> HIDE DEF W
    <3>3. QED
      BY <1>2, <2>2, <3>1, <3>2, ReleaseInOrder
  <2>3. QED
    BY <2>1, <2>2 DEF Seeds
<1>6. W \subseteq Version
  BY <1>2, <1>5, ReleaseInOrder
<1> HIDE DEF W
<1>7. /\ q \in Proc /\ q.todo = p.todo /\ q.jobs = p.jobs /\ q.work = W
      /\ q.clean = p.clean /\ q.pc = "seeding"
  BY <1>3, <1>6 DEF Proc, Running
<1> HIDE DEF q
<1>8. ProcOK(q, x) /\ Covered(q, x, db)
  BY <1>1, <1>2, <1>5, <1>7, WorkOK DEF Checking
<1>9. QED
  BY <1>1, <1>8, StillStep

\* What a release has and the rows do not: no gap that is not recorded.
LEMMA ReadPendingOK ==
  ASSUME StartInv, NEW i \in Process, ReadPending(i)
  PROVE  StartInv'
<1> DEFINE x == deploy[i]
           p == proc[i]
           c == Head(p.todo)
           W == Pending(x.release, db[c].rows)
           q == [p EXCEPT !.work = W, !.pc = "apply"]
<1>1. p.pc = "plan" /\ Becomes(i, q) /\ UNCHANGED db /\ Quiet
  BY DEF ReadPending, Current, release
<1>2. ProcOK(p, x) /\ Covered(p, x, db) /\ DeployOK(x)
  BY DEF StartInv
<1>3. p \in Proc
  BY <1>2 DEF ProcOK
<1>4. /\ W \subseteq DOMAIN x.release
      /\ \A v \in W : \A u \in 1 .. v - 1 : u \in W \/ u \in DOMAIN db[c].rows
  BY <1>2, ReleaseInOrder DEF Pending
<1>5. W \subseteq Version
  BY <1>2, <1>4, ReleaseInOrder
<1> HIDE DEF W
<1>6. /\ q \in Proc /\ q.todo = p.todo /\ q.jobs = p.jobs /\ q.work = W
      /\ q.clean = p.clean /\ q.pc = "apply"
  BY <1>3, <1>5 DEF Proc, Running
<1> HIDE DEF q
<1>7. ProcOK(q, x) /\ Covered(q, x, db)
  BY <1>1, <1>2, <1>4, <1>6, WorkOK DEF Checking
<1>8. QED
  BY <1>1, <1>7, StillStep

\* The first version at hand, recorded in a database that has made it.
LEMMA RecordOK ==
  ASSUME NEW d, DatabaseOK(d), NEW v \in Version, NEW checksum, NEW e,
         DOMAIN e = DOMAIN d, e.made = d.made \cup {v}, e.legacy = d.legacy,
         e.rows = Recorded(d.rows, v, checksum),
         \A u \in 1 .. v - 1 : u \in DOMAIN d.rows
  PROVE  DatabaseOK(e) /\ Grows(d, e) /\ DOMAIN e.rows = DOMAIN d.rows \cup {v}
<1>1. /\ DOMAIN e.rows = DOMAIN d.rows \cup {v}
      /\ \A u \in DOMAIN d.rows : e.rows[u] = d.rows[u]
  BY DEF Recorded
<1>2. InOrder(DOMAIN e.rows)
  <2> SUFFICES ASSUME NEW w \in DOMAIN e.rows, NEW u \in 1 .. w PROVE u \in DOMAIN e.rows
    BY DEF InOrder
  <2>1. CASE w \in DOMAIN d.rows
    BY <1>1, <2>1 DEF DatabaseOK, InOrder
  <2>2. CASE w = v
    BY <1>1, <2>2 DEF Version
  <2>3. QED
    BY <1>1, <2>1, <2>2
<1>3. DatabaseOK(e)
  BY <1>1, <1>2 DEF DatabaseOK
<1>4. Grows(d, e)
  BY <1>1 DEF Grows
<1>5. QED
  BY <1>1, <1>3, <1>4

\* Seeding the first version left to seed leaves no gap behind it.
LEMMA SeedOneOK ==
  ASSUME StartInv, NEW i \in Process, SeedOne(i)
  PROVE  StartInv'
<1> DEFINE x == deploy[i]
           p == proc[i]
           c == Head(p.todo)
           v == First(p.work)
           e == Seeded(db[c], v, x.release[v])
           q == [p EXCEPT !.work = @ \ {v}]
<1>1. /\ p.pc = "seeding" /\ p.work # {} /\ Becomes(i, q) /\ Quiet
      /\ db' = [db EXCEPT ![c] = e]
  BY DEF SeedOne, Current, release
<1>2. /\ ProcOK(p, x) /\ Covered(p, x, db) /\ DOMAIN db = Shared
      /\ \A d \in Shared : DatabaseOK(db[d])
  BY DEF StartInv
<1>3. p \in Proc /\ c \in Shared /\ p.work \in SUBSET Version
  BY <1>1, <1>2 DEF ProcOK, Checking, Proc
<1>4. v \in p.work /\ v \in Version /\ \A u \in 1 .. v - 1 : u \notin p.work
  BY <1>1, <1>3, FirstIsLeast DEF Version
<1>5. /\ \A u \in 1 .. v - 1 : u \in DOMAIN db[c].rows
      /\ v \in db[c].made
  BY <1>1, <1>2, <1>4 DEF Covered
<1>6. DatabaseOK(e) /\ Grows(db[c], e) /\ DOMAIN e.rows = DOMAIN db[c].rows \cup {v}
  <2>1. DatabaseOK(db[c])
    BY <1>2, <1>3
  <2>2. db[c].made \cup {v} = db[c].made
    BY <1>5
  <2>3. /\ DOMAIN e = DOMAIN db[c] /\ e.made = db[c].made /\ e.legacy = db[c].legacy
        /\ e.rows = Recorded(db[c].rows, v, x.release[v])
    BY <2>1 DEF Seeded, DatabaseOK
  <2> DEFINE d == db[c]
             sum == x.release[v]
  <2>4. /\ DatabaseOK(d) /\ DOMAIN e = DOMAIN d /\ e.made = d.made \cup {v}
        /\ e.legacy = d.legacy /\ e.rows = Recorded(d.rows, v, sum)
        /\ \A u \in 1 .. v - 1 : u \in DOMAIN d.rows
    BY <1>5, <2>1, <2>2, <2>3
  <2> HIDE DEF e, v, d, sum
  <2>5. DatabaseOK(e) /\ Grows(d, e) /\ DOMAIN e.rows = DOMAIN d.rows \cup {v}
    BY <1>4, <2>4, RecordOK
  <2>6. QED
    BY <2>5 DEF d
<1> HIDE DEF v, e
<1>7. /\ q \in Proc /\ q.todo = p.todo /\ q.jobs = p.jobs /\ q.work = p.work \ {v}
      /\ q.clean = p.clean /\ q.pc = "seeding"
  BY <1>1, <1>3 DEF Proc
<1>8. /\ DOMAIN db' = Shared /\ db'[c] = e
      /\ \A d \in Shared : DatabaseOK(db'[d]) /\ Grows(db[d], db'[d])
  BY <1>1, <1>2, <1>3, <1>6 DEF Grows
<1> HIDE DEF q
<1>9. Covered(p, x, db')
  BY <1>2, <1>8, CoveredGrows
<1>10. ProcOK(q, x) /\ Covered(q, x, db')
  <2>1. \A w \in q.work : \A u \in 1 .. w - 1 : u \in q.work \/ u \in DOMAIN db'[c].rows
    BY <1>1, <1>6, <1>7, <1>8, <1>9 DEF Covered
  <2>2. q.work \subseteq DOMAIN x.release /\ q.work \subseteq db'[c].made
    BY <1>1, <1>2, <1>7, <1>9 DEF ProcOK, Covered
  <2>3. QED
    BY <1>1, <1>2, <1>7, <1>9, <2>1, <2>2, WorkOK DEF Checking
<1>11. QED
  BY <1>1, <1>8, <1>10, ProcStep

\* Nor does applying the first pending one; a lost race ends the process.
LEMMA ApplyOneOK ==
  ASSUME StartInv, NEW i \in Process, ApplyOne(i)
  PROVE  StartInv'
<1> DEFINE x == deploy[i]
           p == proc[i]
           c == Head(p.todo)
           v == First(p.work)
           e == Applied(db[c], v, x.release[v])
           q == [p EXCEPT !.work = @ \ {v}]
<1>1. /\ p.pc = "apply" /\ p.work # {} /\ Quiet
      /\ \/ Ends(i) /\ UNCHANGED db
         \/ Becomes(i, q) /\ db' = [db EXCEPT ![c] = e]
  BY DEF ApplyOne, Current, release
<1>2. /\ ProcOK(p, x) /\ Covered(p, x, db) /\ DOMAIN db = Shared
      /\ \A d \in Shared : DatabaseOK(db[d])
  BY DEF StartInv
<1>3. p \in Proc /\ c \in Shared /\ p.work \in SUBSET Version
  BY <1>1, <1>2 DEF ProcOK, Checking, Proc
<1>4. v \in p.work /\ v \in Version /\ \A u \in 1 .. v - 1 : u \notin p.work
  BY <1>1, <1>3, FirstIsLeast DEF Version
<1>5. \A u \in 1 .. v - 1 : u \in DOMAIN db[c].rows
  BY <1>1, <1>2, <1>4 DEF Covered
<1>6. DatabaseOK(e) /\ Grows(db[c], e) /\ DOMAIN e.rows = DOMAIN db[c].rows \cup {v}
  <2>1. DatabaseOK(db[c])
    BY <1>2, <1>3
  <2>2. /\ DOMAIN e = DOMAIN db[c] /\ e.made = db[c].made \cup {v}
        /\ e.legacy = db[c].legacy
        /\ e.rows = Recorded(db[c].rows, v, x.release[v])
    BY <2>1 DEF Applied, DatabaseOK
  <2> DEFINE d == db[c]
             sum == x.release[v]
  <2>3. /\ DatabaseOK(d) /\ DOMAIN e = DOMAIN d /\ e.made = d.made \cup {v}
        /\ e.legacy = d.legacy /\ e.rows = Recorded(d.rows, v, sum)
        /\ \A u \in 1 .. v - 1 : u \in DOMAIN d.rows
    BY <1>5, <2>1, <2>2
  <2> HIDE DEF e, v, d, sum
  <2>4. DatabaseOK(e) /\ Grows(d, e) /\ DOMAIN e.rows = DOMAIN d.rows \cup {v}
    BY <1>4, <2>3, RecordOK
  <2>5. QED
    BY <2>4 DEF d
<1> HIDE DEF v, e
<1>7. CASE Ends(i) /\ UNCHANGED db
  BY <1>1, <1>7, EndsOK
<1>8. CASE Becomes(i, q) /\ db' = [db EXCEPT ![c] = e]
  <2>1. /\ q \in Proc /\ q.todo = p.todo /\ q.jobs = p.jobs /\ q.work = p.work \ {v}
        /\ q.clean = p.clean /\ q.pc = "apply"
    BY <1>1, <1>3 DEF Proc
  <2>2. /\ DOMAIN db' = Shared /\ db'[c] = e
        /\ \A d \in Shared : DatabaseOK(db'[d]) /\ Grows(db[d], db'[d])
    BY <1>2, <1>3, <1>6, <1>8 DEF Grows
  <2> HIDE DEF q
  <2>3. Covered(p, x, db')
    BY <1>2, <2>2, CoveredGrows
  <2>4. \A w \in q.work : \A u \in 1 .. w - 1 : u \in q.work \/ u \in DOMAIN db'[c].rows
    BY <1>1, <1>6, <2>1, <2>2, <2>3 DEF Covered
  <2>5. q.work \subseteq DOMAIN x.release
    BY <1>2, <2>1 DEF ProcOK
  <2>6. ProcOK(q, x) /\ Covered(q, x, db')
    BY <1>1, <1>2, <2>1, <2>3, <2>4, <2>5, WorkOK DEF Checking
  <2>7. QED
    BY <1>1, <1>8, <2>2, <2>6, ProcStep
<1>9. QED
  BY <1>1, <1>7, <1>8

\* A clean report means that nothing of the release is missing or different.
LEMMA CleanMeansMigrated ==
  ASSUME NEW rel, NEW d, Clean(rel, d.rows)
  PROVE  Migrated(rel, d)
BY DEF Clean, Pending, ChecksumMismatch, Migrated

\* Both reports on the rows of the current database.
LEMMA ReportOK ==
  ASSUME StartInv, NEW i \in Process, Validate(i) \/ Revalidate(i)
  PROVE  StartInv'
<1> DEFINE x == deploy[i]
           p == proc[i]
           c == Head(p.todo)
           clean == Clean(x.release, db[c].rows)
           r == [p EXCEPT !.pc = "plan"]
           q == [p EXCEPT !.pc = "tables", !.clean = @ /\ clean]
<1>1. /\ p.pc \in {"seeding", "apply"} /\ p.work = {} /\ UNCHANGED db /\ Quiet
      /\ Ends(i) \/ Becomes(i, r) \/ Becomes(i, q)
  BY DEF Validate, Revalidate, Current, release, Goto
<1>2. ProcOK(p, x) /\ Covered(p, x, db)
  BY DEF StartInv
<1>3. /\ p \in Proc /\ c \in Shared /\ p.clean \in BOOLEAN
      /\ storage_migration_mode(x.settings) # "disabled"
  BY <1>1, <1>2 DEF ProcOK, Checking, Proc
<1>4. CASE Ends(i)
  BY <1>1, <1>4, EndsOK
<1>5. CASE Becomes(i, r)
  <2>1. /\ r \in Proc /\ r.todo = p.todo /\ r.jobs = p.jobs /\ r.work = {}
        /\ r.clean = p.clean /\ r.pc = "plan"
    BY <1>1, <1>3 DEF Proc, Running
  <2> HIDE DEF r
  <2>2. ProcOK(r, x) /\ Covered(r, x, db)
    BY <1>1, <1>2, <1>3, <2>1, MoveOK DEF Checking, Running, Wired
  <2>3. QED
    BY <1>1, <1>5, <2>2, StillStep
<1>6. CASE Becomes(i, q)
  <2>1. clean \in BOOLEAN /\ (clean => Migrated(x.release, db[c]))
    BY CleanMeansMigrated DEF Clean
  <2> HIDE DEF clean
  <2>2. /\ q \in Proc /\ q.todo = p.todo /\ q.jobs = p.jobs /\ q.work = {}
        /\ q.clean = (p.clean /\ clean) /\ q.pc = "tables"
    BY <1>1, <1>3, <2>1 DEF Proc, Running
  <2> HIDE DEF q
  <2>3. ProcOK(q, x) /\ Covered(q, x, db)
    BY <1>1, <1>2, <1>3, <2>1, <2>2, MoveOK DEF Checking, Running, Wired
  <2>4. QED
    BY <1>1, <1>6, <2>3, StillStep
<1>7. QED
  BY <1>1, <1>4, <1>5, <1>6

\* The check of the required tables ends that of the database.
LEMMA RequiredTablesOK ==
  ASSUME StartInv, NEW i \in Process, RequiredTables(i)
  PROVE  StartInv'
<1> DEFINE x == deploy[i]
           p == proc[i]
           c == Head(p.todo)
           complete == MissingTables(db[c]) = {}
<1>1. /\ p.pc = "tables" /\ UNCHANGED db /\ Quiet
      /\ \/ Ends(i)
         \/ /\ x.settings.database_require_clean_migrations => complete
            /\ Becomes(i, NextDatabase(p, complete))
  BY DEF RequiredTables, Current, settings
<1>2. ProcOK(p, x) /\ Covered(p, x, db)
  BY DEF StartInv
<1>3. CASE Ends(i)
  BY <1>1, <1>3, EndsOK
<1>4. CASE /\ x.settings.database_require_clean_migrations => complete
           /\ Becomes(i, NextDatabase(p, complete))
  <2>1. complete => required_tables \subseteq db[c].made
    BY DEF MissingTables
  <2>2. complete \in BOOLEAN
    OBVIOUS
  <2> HIDE DEF complete
  <2>3. Passed(p.clean /\ complete, x, db[c])
    BY <1>1, <1>2, <1>4, <2>1 DEF Passed, Covered
  <2>4. ProcOK(NextDatabase(p, complete), x) /\ Covered(NextDatabase(p, complete), x, db)
    BY <1>1, <1>2, <2>2, <2>3, NextDatabaseOK DEF Checking
  <2>5. QED
    BY <1>1, <1>4, <2>4, StillStep
<1>5. QED
  BY <1>1, <1>3, <1>4

\* Wiring leaves a process with a valid cache configuration and its own jobs.
LEMMA WireOK ==
  ASSUME StartInv, NEW i \in Process, Wire(i)
  PROVE  StartInv'
<1> DEFINE x == deploy[i]
           p == proc[i]
           jobs == IF settings(i).background_jobs_enabled THEN Jobs(settings(i)) ELSE {}
           q == [p EXCEPT !.pc = "keys", !.jobs = jobs]
<1>1. /\ p.pc = "wire" /\ UNCHANGED db /\ Quiet
      /\ Ends(i) \/ (Wires(x.settings) /\ Becomes(i, q))
  BY DEF Wire, settings
<1>2. ProcOK(p, x) /\ Covered(p, x, db)
  BY DEF StartInv
<1>3. CASE Ends(i)
  BY <1>1, <1>3, EndsOK
<1>4. CASE Wires(x.settings) /\ Becomes(i, q)
  <2>1. p \in Proc /\ p.todo = << >> /\ p.work = {} /\ x.settings # Refused
    BY <1>1, <1>2 DEF ProcOK, Checking
  <2>2. context_cache_config_valid(x.settings)
    BY <1>4 DEF Wires, CacheWires
  <2>3. jobs \in SUBSET JobKind /\ (jobs = {} \/ jobs \subseteq Jobs(x.settings))
    BY DEF Jobs, JobKind, settings
  <2> HIDE DEF jobs
  <2>4. /\ q \in Proc /\ q.todo = << >> /\ q.jobs = jobs /\ q.work = {}
        /\ q.clean = p.clean /\ q.pc = "keys"
    BY <2>1, <2>3 DEF Proc, Running
  <2> HIDE DEF q
  <2>5. ProcOK(q, x)
    BY <2>1, <2>2, <2>3, <2>4 DEF ProcOK, Checking, Wired
  <2>6. Done(q, x) = Done(p, x)
    BY <2>1, <2>4 DEF Done
  <2>7. Covered(q, x, db)
    BY <1>1, <1>2, <2>4, <2>6 DEF Covered
  <2>8. QED
    BY <1>1, <1>4, <2>5, <2>7, StillStep
<1>5. QED
  BY <1>1, <1>3, <1>4

\* From the key store to the end of the requests.
LEMMA ServeOK ==
  ASSUME StartInv, NEW i \in Process,
         OpenKeys(i) \/ Bind(i) \/ ShutdownSignal(i) \/ RequestsEnd(i)
  PROVE  StartInv'
<1> DEFINE x == deploy[i]
           p == proc[i]
<1>1. ProcOK(p, x) /\ Covered(p, x, db) /\ p \in Proc
  BY DEF StartInv, ProcOK
<1>2. \E q \in Proc : /\ Becomes(i, q) /\ q.todo = p.todo /\ q.jobs \in {p.jobs, {}}
                      /\ q.work = p.work /\ q.clean = p.clean /\ q.pc \in Wired
  <2>1. CASE OpenKeys(i)
    <3> DEFINE q == [p EXCEPT !.pc = "bind"]
    <3>1. Becomes(i, q)
      BY <2>1 DEF OpenKeys, Goto
    <3>2. /\ q \in Proc /\ q.todo = p.todo /\ q.jobs = p.jobs /\ q.work = p.work
          /\ q.clean = p.clean /\ q.pc = "bind"
      BY <1>1 DEF Proc, Running
    <3> HIDE DEF q
    <3>3. QED
      BY <3>1, <3>2 DEF Wired
  <2>2. CASE Bind(i)
    <3> DEFINE q == [p EXCEPT !.pc = "serving"]
    <3>1. Becomes(i, q)
      BY <2>2 DEF Bind, Goto
    <3>2. /\ q \in Proc /\ q.todo = p.todo /\ q.jobs = p.jobs /\ q.work = p.work
          /\ q.clean = p.clean /\ q.pc = "serving"
      BY <1>1 DEF Proc, Running
    <3> HIDE DEF q
    <3>3. QED
      BY <3>1, <3>2 DEF Wired
  <2>3. CASE ShutdownSignal(i)
    <3>1. PICK busy \in BOOLEAN :
            Becomes(i, [p EXCEPT !.pc = "draining", !.jobs = {}, !.busy = busy])
      BY <2>3 DEF ShutdownSignal
    <3> DEFINE q == [p EXCEPT !.pc = "draining", !.jobs = {}, !.busy = busy]
    <3>2. /\ q \in Proc /\ q.todo = p.todo /\ q.jobs = {} /\ q.work = p.work
          /\ q.clean = p.clean /\ q.pc = "draining"
      BY <1>1 DEF Proc, Running
    <3>3. Becomes(i, q)
      BY <3>1
    <3> HIDE DEF q
    <3>4. QED
      BY <3>2, <3>3 DEF Wired
  <2>4. CASE RequestsEnd(i)
    <3> DEFINE q == [p EXCEPT !.busy = FALSE]
    <3>1. Becomes(i, q) /\ p.pc = "draining"
      BY <2>4 DEF RequestsEnd
    <3>2. /\ q \in Proc /\ q.todo = p.todo /\ q.jobs = p.jobs /\ q.work = p.work
          /\ q.clean = p.clean /\ q.pc = "draining"
      BY <1>1, <3>1 DEF Proc
    <3> HIDE DEF q
    <3>3. QED
      BY <3>1, <3>2 DEF Wired
  <2>5. QED
    BY <2>1, <2>2, <2>3, <2>4
<1>3. PICK q \in Proc : /\ Becomes(i, q) /\ q.todo = p.todo /\ q.jobs \in {p.jobs, {}}
                        /\ q.work = p.work /\ q.clean = p.clean /\ q.pc \in Wired
  BY <1>2
<1>4. p.pc \in Wired /\ UNCHANGED db /\ Quiet
  BY DEF OpenKeys, Bind, ShutdownSignal, RequestsEnd, Wired
<1>5. p.work = {} /\ context_cache_config_valid(x.settings)
  BY <1>1, <1>4 DEF ProcOK, Wired
<1>6. ProcOK(q, x) /\ Covered(q, x, db)
  BY <1>1, <1>3, <1>4, <1>5, MoveOK DEF Checking, Running, Wired
<1>7. QED
  BY <1>3, <1>4, <1>6, StillStep

\* A crash.
LEMMA FaultOK ==
  ASSUME StartInv, NEW i \in Process, Fault(i)
  PROVE  StartInv'
<1>1. /\ UNCHANGED <<deploy, db, redeploys>> /\ faults' \in 0 .. MaxFaults
      /\ Process' = Process
  BY Deployments DEF Fault, StartInv, Process
<1>2. DOMAIN proc' = Process /\ \A j \in Process : proc'[j] = IF j = i THEN Down ELSE proc[j]
  BY DEF Fault, Ends, StartInv
<1>3. ProcOK(Down, deploy[i]) /\ Covered(Down, deploy[i], db)
  BY DownOK
<1>4. QED
  BY <1>1, <1>2, <1>3 DEF StartInv

\* A stopped process comes back as another deployment.
LEMMA RedeployOK ==
  ASSUME StartInv, NEW i \in Process, Redeploy(i)
  PROVE  StartInv'
<1>1. /\ proc[i].pc = "down" /\ redeploys' \in 0 .. MaxRedeploys
      /\ UNCHANGED <<proc, db, faults>>
  BY Deployments DEF Redeploy, StartInv
<1>2. PICK d \in Upgrades : deploy' = [deploy EXCEPT ![i] = Deployed(d)]
  BY DEF Redeploy
<1>3. Process' = Process /\ \A j \in Process : deploy'[j] = IF j = i THEN Deployed(d) ELSE deploy[j]
  BY <1>2 DEF Process
<1>4. DeployOK(Deployed(d))
  BY Deployments, LoadedOK
<1>5. proc[i] = Down
  BY <1>1 DEF StartInv, ProcOK
<1>6. ProcOK(Down, Deployed(d)) /\ Covered(Down, Deployed(d), db)
  BY DownOK
<1>7. \A j \in Process : DeployOK(deploy'[j])
  BY <1>3, <1>4 DEF StartInv
<1>8. \A j \in Process : ProcOK(proc[j], deploy'[j]) /\ Covered(proc[j], deploy'[j], db)
  BY <1>3, <1>5, <1>6 DEF StartInv
<1>9. QED
  BY <1>1, <1>3, <1>7, <1>8 DEF StartInv

\* StartInv holds at first.
LEMMA StartInit == Init => StartInv
<1> SUFFICES ASSUME Init PROVE StartInv
  OBVIOUS
<1>1. PICK f \in Fleets : deploy = [i \in DOMAIN f |-> Deployed(f[i])]
  BY DEF Init
<1>2. \A i \in Process : DeployOK(deploy[i])
  BY <1>1, Deployments, LoadedOK DEF Process
<1>3. DOMAIN proc = Process /\ \A i \in Process : proc[i] = Down
  BY DEF Init
<1>4. \A i \in Process : ProcOK(proc[i], deploy[i]) /\ Covered(proc[i], deploy[i], db)
  BY <1>3, DownOK
<1>5. DOMAIN db = Shared /\ \A d \in Shared : DatabaseOK(db[d])
  BY Deployments DEF Init
<1>6. faults \in 0 .. MaxFaults /\ redeploys \in 0 .. MaxRedeploys
  BY Deployments DEF Init
<1>7. QED
  BY <1>2, <1>3, <1>4, <1>5, <1>6 DEF StartInv

\* Every step keeps StartInv.
LEMMA StartStep == StartInv /\ [Next]_vars => StartInv'
<1> SUFFICES ASSUME StartInv, [Next]_vars PROVE StartInv'
  OBVIOUS
<1>1. CASE UNCHANGED vars
  BY <1>1 DEF vars, StartInv, Process
<1>2. ASSUME NEW i \in Process, Step(i)
      PROVE  StartInv'
  <2>1. ServerStops(i) \/ ShutdownTimeout(i) => StartInv'
    BY EndsOK DEF ServerStops, ShutdownTimeout
  <2>2. QED
    BY <1>2, <2>1, StartOK, ConnectOK, EnsureTableOK, ReadSeedsOK, SeedOneOK, ReportOK,
       ReadPendingOK, ApplyOneOK, RequiredTablesOK, WireOK, ServeOK DEF Step
<1>3. QED
  BY <1>1, <1>2, ServeOK, FaultOK, RedeployOK DEF Next

\* StartInv always holds.
LEMMA StartInvariant == Spec => []StartInv
<1>1. QED
  BY StartInit, StartStep, PTL DEF Spec

\* A recorded migration was made and none is skipped, whatever releases migrate
\* the same database at the same time, crash or take over from sqlx
\* (apply_pending_migrations, seed_from_sqlx_migrations).
THEOREM SchemaIsSound == Spec => []SchemaSound
<1>1. StartInv => SchemaSound
  <2> SUFFICES ASSUME StartInv PROVE SchemaSound
    OBVIOUS
  <2>1. RecordedMeansMade /\ MigrationsInOrder
    BY DEF StartInv, DatabaseOK, RecordedMeansMade, MigrationsInOrder
  <2>2. ASSUME NEW i \in Process
        PROVE  /\ proc[i].pc \in Running \cup {"down"}
               /\ settings(i) = Refused \/ DOMAIN settings(i) = Fields
               /\ proc[i].work \subseteq DOMAIN release(i)
               /\ proc[i].todo # << >> <=>
                    proc[i].pc \in {"connect", "ensure", "seed", "seeding", "plan",
                                    "apply", "tables"}
               /\ proc[i].jobs = {} \/ proc[i].jobs \subseteq Jobs(settings(i))
               /\ proc[i].clean \in BOOLEAN
    <3>1. ProcOK(proc[i], deploy[i]) /\ DeployOK(deploy[i])
      BY DEF StartInv
    <3>2. QED
      BY <3>1 DEF ProcOK, DeployOK, SettingsOK, Proc, Checking, settings, release
  <2>3. \A d \in Shared : db[d].made \subseteq Version /\ DOMAIN db[d].rows \subseteq Version
    BY DEF StartInv, DatabaseOK
  <2>4. TypeOK
    BY <2>2, <2>3 DEF TypeOK, StartInv
  <2>5. QED
    BY <2>1, <2>4 DEF SchemaSound
<1>2. QED
  BY <1>1, StartInvariant, PTL

\* A process that answers ready on /ready has its whole schema, with its own
\* checksums, in every shared database it uses, whatever other releases have
\* done to them since (run_storage_startup_checks, StartupReport).
THEOREM ReadyIsMigrated == Spec => []ReadyMeansMigrated
<1>1. StartInv => ReadyMeansMigrated
  <2> SUFFICES ASSUME StartInv, NEW i \in Process,
                      proc[i].pc = "serving", proc[i].clean,
                      storage_migration_mode(settings(i)) # "disabled",
                      NEW d \in Elements(ToCheck(settings(i))) \cap Shared,
                      NEW v \in DOMAIN release(i)
               PROVE  /\ v \in DOMAIN db[d].rows /\ db[d].rows[v] = release(i)[v]
                      /\ v \in db[d].made
    BY DEF ReadyMeansMigrated
  <2>1. ProcOK(proc[i], deploy[i]) /\ Covered(proc[i], deploy[i], db) /\ DatabaseOK(db[d])
    BY DEF StartInv
  <2>2. proc[i].todo = << >>
    BY <2>1 DEF ProcOK, Checking
  <2>3. d \in Done(proc[i], deploy[i])
    BY <2>2 DEF Done, Elements, settings
  <2>4. Migrated(release(i), db[d])
    BY <2>1, <2>3 DEF Covered, Passed, settings, release
  <2>5. QED
    BY <2>1, <2>4 DEF Migrated, DatabaseOK
<1>2. QED
  BY <1>1, StartInvariant, PTL

\* Each retry waits at least a millisecond and no longer than the maximum, whatever
\* the jitter and the multiplier.
LEMMA BackoffBounded ==
  ASSUME NEW p, p.initial_backoff \in Int, p.max_backoff \in Int, p.multiplier \in Int,
         p.initial_backoff > 0, p.max_backoff >= p.initial_backoff,
         NEW n \in Retries, NEW percent \in Int
  PROVE  Backoff(p, percent, n) \in 1 .. p.max_backoff
<1> DEFINE factor == IF Less(p.multiplier, 100) \/ p.multiplier = NaN THEN 100 ELSE p.multiplier
           grown == (p.initial_backoff * Powers(factor)[n]) \div Powers(100)[n]
           delay == Higher(Lower(grown, p.max_backoff), 1)
           jitter == IF p.jitter_enabled THEN (delay * percent) \div 100 ELSE 0
<1>1. factor \in Int
  OBVIOUS
<1> HIDE DEF factor
<1>2. Powers(factor)[n] \in Int /\ Powers(100)[n] \in {1, 100, 10000}
  <2>1. n = 1 \/ n = 2 \/ n = 3
    BY DEF Retries
  <2>2. factor * factor \in Int /\ 100 * 100 = 10000
    BY <1>1
  <2>3. QED
    BY <1>1, <2>1, <2>2 DEF Powers
<1>3. \A a \in Int, b \in {1, 100, 10000} : a \div b \in Int
  OBVIOUS
<1>4. \A a, b \in Int : a * b \in Int
  OBVIOUS
<1>5. grown \in Int
  BY <1>2, <1>3, <1>4
<1> HIDE DEF grown
<1>6. delay \in Int
  BY <1>5 DEF Higher, Lower
<1> HIDE DEF delay
<1>7. jitter \in Int
  BY <1>3, <1>4, <1>6
<1> HIDE DEF jitter
<1>8. Higher(Lower(delay + jitter, p.max_backoff), 1) \in 1 .. p.max_backoff
  BY <1>6, <1>7 DEF Higher, Lower
<1>9. QED
  BY <1>8 DEF Backoff, factor, grown, delay, jitter

\* The settings of a process that runs were validated.
LEMMA RunningSettings ==
  ASSUME StartInv, NEW i \in Process, proc[i].pc \in Running
  PROVE  /\ validate(settings(i))
         /\ \A f \in DOMAIN NumberDefaults \cup DOMAIN FloatDefaults :
              settings(i)[f] \in Int
<1>1. ProcOK(proc[i], deploy[i]) /\ DeployOK(deploy[i])
  BY DEF StartInv
<1>2. settings(i) # Refused
  BY <1>1 DEF ProcOK, Running, settings
<1>3. QED
  BY <1>1, <1>2 DEF DeployOK, SettingsOK, settings

\* Validated settings keep the delays and attempts of both retry policies bounded.
LEMMA PoliciesBounded ==
  ASSUME NEW s, validate(s),
         \A f \in DOMAIN NumberDefaults \cup DOMAIN FloatDefaults : s[f] \in Int,
         NEW n \in Retries, NEW percent \in {0, 25}
  PROVE  LET calls == provider_execution_policy(s)
             jobs == background_job_retry_policy(s)
         IN  /\ backoff_duration(calls, percent, n) \in 1 .. calls.max_backoff
             /\ calculate_background_job_backoff(jobs, percent, n) \in 1 .. jobs.max_backoff
<1> DEFINE calls == provider_execution_policy(s)
           jobs == background_job_retry_policy(s)
<1>1. /\ s.provider_initial_backoff_ms \in Int /\ s.provider_max_backoff_ms \in Int
      /\ s.background_job_initial_backoff_ms \in Int
      /\ s.background_job_max_backoff_ms \in Int
  BY DEF NumberDefaults
<1>2. s.provider_backoff_multiplier \in Int /\ s.background_job_backoff_multiplier \in Int
  BY DEF FloatDefaults
<1>3. /\ s.provider_initial_backoff_ms > 0
      /\ s.provider_max_backoff_ms >= s.provider_initial_backoff_ms
  BY DEF validate, ProviderPolicyValid, AllPositive, ProviderTimes
<1>4. /\ s.background_job_initial_backoff_ms > 0
      /\ s.background_job_max_backoff_ms >= s.background_job_initial_backoff_ms
  BY DEF validate, JobTimesValid, AllPositive, JobTimes
<1>5. /\ calls.initial_backoff = s.provider_initial_backoff_ms
      /\ calls.max_backoff = s.provider_max_backoff_ms
      /\ calls.multiplier = s.provider_backoff_multiplier
  BY DEF provider_execution_policy
<1>6. /\ jobs.initial_backoff = s.background_job_initial_backoff_ms
      /\ jobs.max_backoff = s.background_job_max_backoff_ms
      /\ jobs.multiplier = s.background_job_backoff_multiplier
  BY DEF background_job_retry_policy
<1> HIDE DEF calls, jobs
<1>7. Backoff(calls, percent, n) \in 1 .. calls.max_backoff
  BY <1>1, <1>2, <1>3, <1>5, BackoffBounded
<1>8. Backoff(jobs, percent, n) \in 1 .. jobs.max_backoff
  BY <1>1, <1>2, <1>4, <1>6, BackoffBounded
<1>9. QED
  BY <1>7, <1>8 DEF backoff_duration, calculate_background_job_backoff, calls, jobs

\* A guarded call is tried at most four times.
LEMMA AttemptsBounded ==
  ASSUME NEW s, validate(s), s.provider_guardrails_enabled,
         \A f \in DOMAIN NumberDefaults : s[f] \in Int
  PROVE  provider_total_attempts(provider_execution_policy(s)) <= 4
<1>1. s.provider_max_retries \in Int /\ s.provider_max_retries_per_call \in Int
  BY DEF NumberDefaults
<1>2. s.provider_max_retries_per_call <= 3
  BY DEF validate, GuardrailsValid, MaxSafeProviderRetries
<1>3. provider_execution_policy(s).max_retries =
        Lower(s.provider_max_retries, s.provider_max_retries_per_call)
  BY DEF provider_execution_policy
<1>4. QED
  BY <1>1, <1>2, <1>3 DEF Lower, provider_total_attempts

\* Stores on checked databases find their tables, processes over the same facts
\* take their job locks in the same place, and what Settings::validate and the
\* wiring let through keeps every delay, attempt and cache within its range
\* (AppState::initialize_with_shutdown).
THEOREM WiringIsSound == Spec => []WiringSound
<1>1. StartInv => StoresHaveTables
  <2> SUFFICES ASSUME StartInv, NEW i \in Process,
                      proc[i].pc \in {"keys", "bind", "serving", "draining"},
                      storage_migration_mode(settings(i)) # "disabled",
                      settings(i).database_require_clean_migrations,
                      NEW v \in DOMAIN Tables,
                      NEW d \in Elements(ToCheck(settings(i))) \cap Shared
               PROVE  v \in db[d].made
    BY DEF StoresHaveTables
  <2>1. ProcOK(proc[i], deploy[i]) /\ Covered(proc[i], deploy[i], db)
    BY DEF StartInv
  <2>2. proc[i].todo = << >>
    BY <2>1 DEF ProcOK, Checking
  <2>3. d \in Done(proc[i], deploy[i])
    BY <2>2 DEF Done, Elements, settings
  <2>4. required_tables \subseteq db[d].made
    BY <2>1, <2>3 DEF Covered, Passed, settings
  <2>5. QED
    BY <2>4 DEF required_tables
<1>2. JobsShareLocks
  <2>1. \A s : s.background_job_lock_enabled =>
          StoreDatabase(s).background_job_locks = DatabaseOf(s, s.fact_backend)
    BY DEF StoreDatabase, create_background_job_lock_store
  <2>2. QED
    BY <2>1 DEF JobsShareLocks
<1>3. StartInv => SettingsBounded
  <2> SUFFICES ASSUME StartInv, NEW i \in Process, proc[i].pc \in Running
               PROVE  LET s == settings(i)
                          calls == provider_execution_policy(s)
                          jobs == background_job_retry_policy(s)
                      IN  /\ \A n \in Retries, percent \in {0, 25} :
                               /\ backoff_duration(calls, percent, n) \in 1 .. calls.max_backoff
                               /\ calculate_background_job_backoff(jobs, percent, n)
                                    \in 1 .. jobs.max_backoff
                          /\ s.provider_guardrails_enabled => provider_total_attempts(calls) <= 4
                          /\ ~s.background_job_retries_enabled => job_total_attempts(jobs) = 1
                          /\ proc[i].pc = "serving" /\ s.context_cache_enabled =>
                               /\ s.context_cache_ttl_seconds > 0
                               /\ s.context_cache_max_entries > 0
                               /\ s.context_cache_stampede_protection_enabled =>
                                    s.context_cache_lock_timeout_seconds > 0
    BY DEF SettingsBounded
  <2> DEFINE s == settings(i)
             calls == provider_execution_policy(s)
             jobs == background_job_retry_policy(s)
  <2>1. /\ validate(s)
        /\ \A f \in DOMAIN NumberDefaults \cup DOMAIN FloatDefaults : s[f] \in Int
    BY RunningSettings
  <2>2. \A n \in Retries, percent \in {0, 25} :
          /\ backoff_duration(calls, percent, n) \in 1 .. calls.max_backoff
          /\ calculate_background_job_backoff(jobs, percent, n) \in 1 .. jobs.max_backoff
    BY <2>1, PoliciesBounded
  <2>3. s.provider_guardrails_enabled => provider_total_attempts(calls) <= 4
    BY <2>1, AttemptsBounded
  <2>4. ~s.background_job_retries_enabled => job_total_attempts(jobs) = 1
    BY DEF job_total_attempts, background_job_retry_policy
  <2>5. proc[i].pc = "serving" => context_cache_config_valid(s)
    <3>1. ProcOK(proc[i], deploy[i])
      BY DEF StartInv
    <3>2. QED
      BY <3>1 DEF ProcOK, Wired, settings
  <2>6. proc[i].pc = "serving" /\ s.context_cache_enabled =>
          /\ s.context_cache_ttl_seconds > 0
          /\ s.context_cache_max_entries > 0
          /\ s.context_cache_stampede_protection_enabled =>
               s.context_cache_lock_timeout_seconds > 0
    BY <2>5 DEF context_cache_config_valid
  <2>7. QED
    BY <2>2, <2>3, <2>4, <2>6
<1>4. StartInv => WiringSound
  BY <1>1, <1>2, <1>3 DEF WiringSound
<1>5. QED
  BY <1>4, StartInvariant, PTL
=============================================================================
