---------------------------- MODULE ApiGateProofs ----------------------------
(***************************************************************************)
(* Who acts in database mode, the finality of a lock-out, the bound of the *)
(* rate limiter, the bound on how far the memory quota can be overshot and *)
(* the truth of undisturbed reports: for every kind of traffic and every   *)
(* number of requests, organisations, users and keys.                      *)
(***************************************************************************)
EXTENDS ApiGate, FiniteSetTheorems, TLAPS

-----------------------------------------------------------------------------
(* Sums as cardinalities.                                                  *)

\* The cells of a table with f[x] cells in the column of x.
Cells(f, S) == UNION {{x} \X (1 .. f[x]) : x \in S}

\* A column has as many cells as it is high.
LEMMA ColumnSize ==
  ASSUME NEW x, NEW n \in Nat
  PROVE  IsFiniteSet({x} \X (1 .. n)) /\ Cardinality({x} \X (1 .. n)) = n
<1>1. IsFiniteSet({x}) /\ Cardinality({x}) = 1
  BY FS_Singleton
<1>2. IsFiniteSet(1 .. n) /\ Cardinality(1 .. n) = n
  BY FS_Interval
<1>3. Cardinality({x} \X (1 .. n)) = 1 * n
  BY <1>1, <1>2, FS_Product
<1>4. IsFiniteSet({x} \X (1 .. n))
  BY <1>1, <1>2, FS_Product
<1>5. 1 * n = n
  OBVIOUS
<1>6. QED
  BY <1>3, <1>4, <1>5

\* A finite table has finitely many cells.
LEMMA CellsFinite ==
  ASSUME NEW S, IsFiniteSet(S), NEW f \in [S -> Nat]
  PROVE  IsFiniteSet(Cells(f, S)) /\ Cardinality(Cells(f, S)) \in Nat
<1> DEFINE Col(x) == {x} \X (1 .. f[x])
           T == {Col(x) : x \in S}
           g == [x \in S |-> Col(x)]
<1>1. g \in Surjection(S, T)
  BY DEF Surjection
<1>2. IsFiniteSet(T)
  BY <1>1, FS_Surjection
<1>3. \A x \in S : IsFiniteSet(Col(x))
  BY ColumnSize
<1>4. \A C \in T : IsFiniteSet(C)
  BY <1>3
<1>5. IsFiniteSet(UNION T)
  BY <1>2, <1>4, FS_UNION
<1>6. QED
  BY <1>5, FS_CardinalityType DEF Cells

\* The columns other than that of x.
Besides(f, S, x) == Cells(f, S \ {x})

\* One column apart, a table is the rest of it and that column.
LEMMA CellsSplit ==
  ASSUME NEW S, IsFiniteSet(S), NEW f \in [S -> Nat], NEW x \in S
  PROVE  /\ Cardinality(Cells(f, S)) = Cardinality(Besides(f, S, x)) + f[x]
         /\ Cardinality(Besides(f, S, x)) \in Nat
<1> DEFINE A == Besides(f, S, x)
           B == {x} \X (1 .. f[x])
<1>1. Cells(f, S) = A \cup B
  BY DEF Besides, Cells
<1>2. A \cap B = {}
  BY DEF Besides, Cells
<1>3. IsFiniteSet(Cells(f, S))
  BY CellsFinite
<1>4. A \in SUBSET Cells(f, S)
  BY <1>1
<1>5. IsFiniteSet(A)
  BY <1>3, <1>4, FS_Subset
<1>6. IsFiniteSet(B) /\ Cardinality(B) = f[x]
  BY ColumnSize
<1>7. Cardinality(A) \in Nat
  BY <1>5, FS_CardinalityType
<1> HIDE DEF A, B
<1>8. Cardinality(A \cup B) = Cardinality(A) + Cardinality(B) - Cardinality(A \cap B)
  BY <1>5, <1>6, FS_Union
<1>9. Cardinality(A \cap B) = 0
  BY <1>2, FS_EmptySet
<1>10. f[x] \in Nat
  OBVIOUS
<1>11. QED
  BY <1>1, <1>6, <1>7, <1>8, <1>9, <1>10 DEF A

\* Changing one column changes the number of cells by what the column changes.
LEMMA CellsUpdate ==
  ASSUME NEW S, IsFiniteSet(S), NEW f \in [S -> Nat], NEW g \in [S -> Nat],
         NEW x \in S, \A y \in S : y # x => g[y] = f[y]
  PROVE  Cardinality(Cells(g, S)) = Cardinality(Cells(f, S)) - f[x] + g[x]
<1>1. Besides(g, S, x) = Besides(f, S, x)
  BY DEF Besides, Cells
<1>2. /\ Cardinality(Cells(f, S)) = Cardinality(Besides(f, S, x)) + f[x]
      /\ Cardinality(Besides(f, S, x)) \in Nat
  BY CellsSplit
<1>3. Cardinality(Cells(g, S)) = Cardinality(Besides(g, S, x)) + g[x]
  BY CellsSplit
<1>4. f[x] \in Nat /\ g[x] \in Nat
  OBVIOUS
<1>5. QED
  BY <1>1, <1>2, <1>3, <1>4

\* Columns that are at most b high make at most b cells each.
LEMMA CellsBound ==
  ASSUME NEW S, IsFiniteSet(S), NEW f \in [S -> Nat], NEW b \in Nat,
         \A x \in S : f[x] <= b
  PROVE  Cardinality(Cells(f, S)) <= Cardinality(S) * b
<1>1. Cells(f, S) \in SUBSET (S \X (1 .. b))
  BY DEF Cells
<1>2. IsFiniteSet(1 .. b) /\ Cardinality(1 .. b) = b
  BY FS_Interval
<1>3. IsFiniteSet(S \X (1 .. b)) /\ Cardinality(S \X (1 .. b)) = Cardinality(S) * b
  BY <1>2, FS_Product
<1>4. QED
  BY <1>1, <1>3, FS_Subset
-----------------------------------------------------------------------------
(* How a step moves a request.                                             *)

\* Request q goes on as c; reports of an organisation may be torn by that.
To(q, c) ==
  \/ req' = [req EXCEPT ![q] = c]
  \/ \E o : Change(o, [req EXCEPT ![q] = c])

\* Nothing of a request changes but, perhaps, the history variable torn.
Tears(a, b) == a = b \/ a = [b EXCEPT !.torn = TRUE]

\* An idle slot is a slot.
LEMMA IdleSlot == Idle \in Slot
<1>1. NoLimits \in Limits
  BY DEF NoLimits, Limits
<1>2. NoUse \in Use
  BY DEF NoUse, Use
<1>3. "idle" \in Pc /\ None \in Token /\ {} \in SUBSET QuotaKind
  BY DEF Pc, Token
<1>4. QED
  BY <1>1, <1>2, <1>3 DEF Slot, Idle

\* The fields of an idle slot.
LEMMA IdleFields ==
  /\ Idle.pc = "idle" /\ Idle.org = None /\ Idle.auth = None /\ Idle.dead = {}
  /\ Idle.name = None /\ Idle.user = None /\ Idle.use.mine = None
  /\ Idle.torn = FALSE
BY DEF Idle, NoUse

\* Tearing a report keeps every other field of the request.
LEMMA TearsFields ==
  ASSUME NEW b \in Slot, NEW a, Tears(a, b)
  PROVE  /\ a \in Slot /\ a.pc = b.pc /\ a.org = b.org /\ a.auth = b.auth
         /\ a.dead = b.dead /\ a.name = b.name /\ a.user = b.user
         /\ a.limits = b.limits /\ a.use = b.use /\ a.left = b.left
<1>1. CASE a = b
  BY <1>1
<1>2. CASE a = [b EXCEPT !.torn = TRUE]
  BY <1>2 DEF Slot
<1>3. QED
  BY <1>1, <1>2 DEF Tears

\* What a move of q does to the table of requests.
LEMMA ToSlots ==
  ASSUME req \in [Request -> Slot], NEW q \in Request, NEW c \in Slot, To(q, c)
  PROVE  /\ req' \in [Request -> Slot]
         /\ Tears(req'[q], c)
         /\ \A p \in Request : p # q => Tears(req'[p], req[p])
<1> DEFINE next == [req EXCEPT ![q] = c]
<1>1. next \in [Request -> Slot]
  OBVIOUS
<1>2. CASE req' = next
  BY <1>1, <1>2 DEF Tears
<1>3. ASSUME NEW o, Change(o, next)
      PROVE  /\ req' \in [Request -> Slot]
             /\ \A p \in Request : Tears(req'[p], next[p])
  <2>1. \A p \in Request : Tears(req'[p], next[p])
    BY <1>3 DEF Change, Tears
  <2>2. DOMAIN req' = Request /\ req' = [p \in Request |-> req'[p]]
    BY <1>3 DEF Change
  <2>3. \A p \in Request : req'[p] \in Slot
    <3> HIDE DEF next
    <3> QED BY <1>1, <2>1, TearsFields
  <2>4. QED
    BY <2>1, <2>2, <2>3
<1>4. QED
  BY <1>2, <1>3 DEF To

-----------------------------------------------------------------------------
(* Which routes lead where.                                                *)

Early == {"idle", "auth", "tenant", "limit", "handler"}
Removers == {"delete_user_memory", "forget_user", "apply_retention"}

\* What is known of a request by where it is.
Named(r) ==
  /\ r.pc # "idle" => r.org \in Org
  /\ r.pc \in Early => r.name = None
  /\ r.pc = "read_own_plan" => r.name = "get_org_plan"
  /\ r.pc = "get_org_plan" => r.name \in {"add_memory"} \cup Reports
  /\ r.pc \in {"count_users", "count_org", "count_user", "daily_usage"}
       => r.name \in {"add_memory", "get_org_quotas"}
  /\ r.pc = "answer" => r.name \in Reports
  /\ r.pc = "extract" => r.name = "add_memory"
  /\ r.pc = "import" => r.name = "import_user_data"
  /\ r.pc = "insert" => r.name \in {"add_memory", "import_user_data"}
  /\ r.pc = "remove" => r.name \in Removers
  /\ r.pc = "revoke_key" => r.name = "revoke_api_key"
  /\ r.pc \in {"read_plan", "upsert_plan", "reread_plan"} => r.name = "upsert_org_plan"
  /\ r.pc = "delete_plan" => r.name = "delete_org_plan"
  /\ r.pc = "insert_key" =>
       /\ r.name = "create_api_key"
       /\ r.auth = None \/ "admin_write" \in r.auth.scopes
  /\ r.pc \in Early \cup {"read_own_plan", "get_org_plan", "count_users", "count_org"}
       => r.use.mine = None
  /\ r.name \in {"add_memory", "import_user_data"} \cup Removers => r.user \in User
  /\ r.pc = "count_user" => r.user \in User

\* The routes that go on after their scope check, and how.
Routed(q, name, next) ==
  \/ name = "add_memory" /\ next = "get_org_plan"
  \/ name \in Removers /\ next = "remove"
  \/ name = "import_user_data" /\ next = "import"
  \/ name = "create_api_key" /\ next = "insert_key" /\ Scoped(q, {"admin_write"})
  \/ name = "revoke_api_key" /\ next = "revoke_key"
  \/ name = "get_org_plan" /\ next = "read_own_plan"
  \/ name = "upsert_org_plan" /\ next = "read_plan"
  \/ name = "delete_org_plan" /\ next = "delete_plan"
  \/ name = "get_org_quotas" /\ next = "get_org_plan"

\* A handler answers at once, or goes on as its route says.
LEMMA DispatchStep ==
  ASSUME NEW q \in Request, Dispatch(q)
  PROVE  /\ req[q].pc = "handler"
         /\ UNCHANGED <<world, windows, tables, arrivals, ghosts>>
         /\ \/ Reply(q)
            \/ \E name, next : \E u \in traffic.users \cup
                                 (IF name = "get_org_quotas" THEN {None} ELSE {}) :
                 /\ Routed(q, name, next)
                 /\ req' = [req EXCEPT ![q].pc = next, ![q].name = name, ![q].user = u]
<1>1. PICK name, scopes, next :
        /\ Handler(q, name, scopes, next)
        /\ \/ next = "reply"
           \/ name = "create_api_key" /\ next = "insert_key" /\ scopes = {"admin_write"}
           \/ Routed(q, name, next)
  BY DEF Dispatch, Routed, Removers,
    add_memory, search_memory, list_user_memories, delete_user_memory, build_context,
    list_user_memory_events, forget_user, export_user_data, import_user_data,
    apply_retention, create_api_key, list_api_keys, revoke_api_key, get_org_plan,
    upsert_org_plan, delete_org_plan, get_org_quotas, get_org_summary, list_org_users,
    search_org_memory_events, get_context_cache_metrics, get_provider_guardrails,
    get_provider_usage, get_provider_usage_daily, get_org_usage_dashboard,
    query_memory_usage_snapshots, get_background_jobs, query_background_job_runs,
    run_background_job, apply_background_job_run_retention,
    apply_provider_usage_retention, create_memory_usage_snapshot
<1>2. /\ req[q].pc = "handler"
      /\ UNCHANGED <<world, windows, tables, arrivals, ghosts>>
  BY <1>1 DEF Handler
<1>3. CASE Reply(q)
  BY <1>2, <1>3
<1>4. CASE ~Reply(q)
  <2>1. PICK u \in traffic.users \cup (IF name = "get_org_quotas" THEN {None} ELSE {}) :
          req' = [req EXCEPT ![q].pc = next, ![q].name = name, ![q].user = u]
    BY <1>1, <1>4 DEF Handler
  <2>2. Scoped(q, scopes) /\ next # "reply"
    BY <1>1, <1>4 DEF Handler
  <2>3. Routed(q, name, next)
    BY <1>1, <2>2 DEF Routed
  <2>4. QED
    BY <1>2, <2>1, <2>3
<1>5. QED
  BY <1>3, <1>4

-----------------------------------------------------------------------------
(* The inductive invariant of types and places.                            *)
GInv == TypeOK /\ \A q \in Request : Named(req[q])

\* A request that is answered and one that has not arrived are the same.
LEMMA IdleNamed == Named(Idle)
BY IdleFields, NoneApart DEF Named, Early, Removers, Route

\* The request of q goes on: who it is stays; authentication comes once, from
\* an active key in database mode, and then the tenant check.
Continues(q, c) ==
  /\ req[q].pc # "idle" /\ c.pc # "idle"
  /\ c.org = req[q].org /\ c.dead = req[q].dead
  /\ \/ /\ req[q].pc = "auth" /\ c.pc = "tenant"
        /\ \/ /\ settings.auth = "database"
              /\ \E k \in Key :
                   /\ keys[k].status = "active"
                   /\ c.auth = [key |-> k, org |-> keys[k].org,
                                scopes |-> keys[k].scopes]
           \/ settings.auth # "database" /\ c.auth = req[q].auth
     \/ /\ req[q].pc # "auth" /\ c.pc \notin {"auth", "tenant"}
        /\ c.auth = req[q].auth
        /\ req[q].pc = "tenant" => OrgMatches(q)

\* Where a step leads a request.
Lands(q) ==
  \E c \in Slot : To(q, c) /\ Named(c) /\ (c = Idle \/ Continues(q, c))

\* An answered request is idle.
LEMMA ReplyLands == ASSUME NEW q \in Request, Reply(q) PROVE Lands(q)
BY IdleSlot, IdleNamed DEF Reply, Lands, To

\* The settings of the process are settings of the traffic.
LEMMA SettingsType ==
  ASSUME TypeOK
  PROVE  /\ settings.auth \in {"off", "dev", "database"}
         /\ settings.limits \in Limits
         /\ settings.enabled \in BOOLEAN /\ settings.usage_store \in BOOLEAN
BY TrafficOK DEF TypeOK

\* A step that only moves the program counter.
LEMMA GotoLands ==
  ASSUME GInv, NEW q \in Request, NEW p \in Pc, Goto(q, p),
         \/ req[q].pc = "auth" /\ p = "tenant" /\ settings.auth # "database"
         \/ req[q].pc = "tenant" /\ p = "limit" /\ OrgMatches(q)
         \/ req[q].pc = "limit" /\ p = "handler"
         \/ req[q].pc = "read_plan" /\ p = "upsert_plan"
  PROVE  Lands(q)
<1> DEFINE r == req[q]
           c == [r EXCEPT !.pc = p]
<1>1. r \in Slot /\ Named(r)
  BY DEF GInv, TypeOK
<1>2. c \in Slot
  BY <1>1 DEF Slot
<1>3. /\ c.pc = p /\ c.org = r.org /\ c.auth = r.auth /\ c.dead = r.dead
      /\ c.name = r.name /\ c.user = r.user /\ c.use = r.use
  BY <1>1 DEF Slot
<1>4. To(q, c)
  BY DEF Goto, To
<1> HIDE DEF c
<1>5. Named(c)
  BY <1>1, <1>3, NoneApart DEF Named, Early, Removers, Route
<1>6. Continues(q, c)
  BY <1>3 DEF Continues
<1>7. QED
  BY <1>2, <1>4, <1>5, <1>6 DEF Lands

\* Authentication in database mode: the context of an active key, or 401.
LEMMA DatabaseLands ==
  ASSUME GInv, NEW q \in Request, req[q].pc = "auth", settings.auth = "database",
         ValidateDatabase(q)
  PROVE  Lands(q)
<1> DEFINE found == FindByHash(Hash(settings.pepper, req[q].token))
           r == req[q]
<1>1. CASE Reply(q)
  BY <1>1, ReplyLands
<1>2. CASE ~Reply(q)
  <2>1. PICK k \in found :
          req' = [req EXCEPT ![q].pc = "tenant",
                    ![q].auth = [key |-> k, org |-> keys[k].org, scopes |-> keys[k].scopes]]
    BY <1>2 DEF ValidateDatabase
  <2> DEFINE a == [key |-> k, org |-> keys[k].org, scopes |-> keys[k].scopes]
             c == [r EXCEPT !.pc = "tenant", !.auth = a]
  <2>2. k \in Key /\ keys[k].status = "active"
    BY DEF FindByHash
  <2>3. keys[k] \in KeyRows
    BY <2>2 DEF GInv, TypeOK, Unused
  <2>4. a \in Context
    BY <2>2, <2>3 DEF Context, KeyRows
  <2>5. r \in Slot /\ Named(r) /\ "tenant" \in Pc
    BY DEF GInv, TypeOK, Pc
  <2> HIDE DEF a
  <2>6. c \in Slot
    BY <2>4, <2>5 DEF Slot
  <2>7. /\ c.pc = "tenant" /\ c.org = r.org /\ c.auth = a /\ c.dead = r.dead
        /\ c.name = r.name /\ c.user = r.user /\ c.use = r.use
    BY <2>5 DEF Slot
  <2>8. To(q, c)
    <3>1. req' = [req EXCEPT ![q].pc = "tenant", ![q].auth = a]
      BY <2>1 DEF a
    <3>2. req' = [req EXCEPT ![q] = c]
      BY <3>1, <2>5 DEF GInv, TypeOK, Slot
    <3>3. QED
      BY <3>2 DEF To
  <2> HIDE DEF c
  <2>9. Named(c)
    BY <2>5, <2>7, NoneApart DEF Named, Early, Removers, Route
  <2>10. Continues(q, c)
    BY <2>2, <2>7 DEF Continues, a
  <2>11. QED
    BY <2>6, <2>8, <2>9, <2>10 DEF Lands
<1>3. QED
  BY <1>1, <1>2

\* A handler that goes on does so with the name of its route.
LEMMA DispatchLands ==
  ASSUME GInv, NEW q \in Request, Dispatch(q)
  PROVE  Lands(q)
<1> DEFINE r == req[q]
<1>1. CASE Reply(q)
  BY <1>1, ReplyLands
<1>2. CASE ~Reply(q)
  <2>0. traffic.users \subseteq User
    BY TrafficOK DEF GInv, TypeOK
  <2>1. PICK name, next : \E u \in traffic.users \cup
                                (IF name = "get_org_quotas" THEN {None} ELSE {}) :
          /\ Routed(q, name, next)
          /\ req' = [req EXCEPT ![q].pc = next, ![q].name = name, ![q].user = u]
    BY <1>2, DispatchStep
  <2>2. PICK u \in User \cup {None} :
          /\ name # "get_org_quotas" => u \in User
          /\ req' = [req EXCEPT ![q].pc = next, ![q].name = name, ![q].user = u]
    BY <2>0, <2>1
  <2> DEFINE c == [r EXCEPT !.pc = next, !.name = name, !.user = u]
  <2>3. r \in Slot /\ Named(r) /\ r.pc = "handler"
    BY DispatchStep DEF GInv, TypeOK
  <2>4. next \in Pc /\ name \in Route /\ next \notin Early
    BY <2>1 DEF Routed, Removers, Pc, Early, Route
  <2>5. c \in Slot
    BY <2>2, <2>3, <2>4 DEF Slot
  <2>6. /\ c.pc = next /\ c.org = r.org /\ c.auth = r.auth /\ c.dead = r.dead
        /\ c.name = name /\ c.user = u /\ c.use = r.use
    BY <2>3 DEF Slot
  <2>7. To(q, c)
    <3>1. req' = [req EXCEPT ![q] = c]
      BY <2>2, <2>3 DEF GInv, TypeOK, Slot
    <3>2. QED
      BY <3>1 DEF To
  <2> HIDE DEF c
  <2>8. Named(c)
    BY <2>1, <2>2, <2>3, <2>6, NoneApart
       DEF Named, Early, Removers, Routed, Scoped, Reports
  <2>9. Continues(q, c)
    BY <2>3, <2>4, <2>6 DEF Continues, Early
  <2>10. QED
    BY <2>5, <2>7, <2>8, <2>9 DEF Lands
<1>3. QED
  BY <1>1, <1>2

\* The counts that the quota service reads are natural numbers.
LEMMA CountsNat ==
  ASSUME TypeOK, NEW o \in Org
  PROVE  Total(o) \in Nat /\ Users(o) \in Nat
<1>1. Facts(o) = Cells(memories[o], User)
  BY DEF Facts, Cells
<1>2. memories[o] \in [User -> Nat] /\ IsFiniteSet(User)
  BY TrafficOK DEF TypeOK
<1>3. Total(o) \in Nat
  BY <1>1, <1>2, CellsFinite DEF Total
<1>4. {u \in User : memories[o][u] > 0} \in SUBSET User
  OBVIOUS
<1>5. Users(o) \in Nat
  BY <1>2, <1>4, FS_Subset, FS_CardinalityType DEF Users
<1>6. QED
  BY <1>3, <1>5

\* The limits in force and the usage of the day are well typed.
LEMMA LimitsType ==
  ASSUME TypeOK, NEW o \in Org
  PROVE  /\ ResolveLimits(o).limits \in Limits
         /\ ResolveLimits(o).source \in {"org_plan", "global_config", None}
         /\ DailyUsage(o).requests \in Nat /\ DailyUsage(o).tokens \in Nat
<1>1. plans[o] \in Plan \cup {None} /\ used[o] \in Nat
  BY DEF TypeOK
<1>2. plans[o] # None => plans[o].limits \in Limits
  BY <1>1 DEF Plan
<1>3. /\ ResolveLimits(o).limits \in Limits
      /\ ResolveLimits(o).source \in {"org_plan", "global_config", None}
  BY <1>2, SettingsType DEF ResolveLimits
<1>4. used[o] * CallTokens \in Nat
  BY <1>1, TrafficOK
<1>5. QED
  BY <1>1, <1>3, <1>4 DEF DailyUsage

\* A request that is past its tenant check goes on as c.
LEMMA GoesOn ==
  ASSUME NEW q \in Request, NEW c \in Slot, To(q, c), Named(c),
         req[q].pc \notin {"idle", "auth", "tenant"},
         c.pc \notin {"idle", "auth", "tenant"},
         c.org = req[q].org, c.dead = req[q].dead, c.auth = req[q].auth
  PROVE  Lands(q)
BY DEF Lands, Continues

\* The reads of the quota service stay on the route of their request.
LEMMA ReadsLand ==
  ASSUME GInv, NEW q \in Request,
         ReadOwnPlan(q) \/ ReadPlan(q) \/ CountUsers(q) \/ CountOrg(q) \/ CountUser(q)
  PROVE  Lands(q)
<1> DEFINE r == req[q]
<1>1. /\ r \in Slot /\ Named(r) /\ r.org \in Org /\ r.use \in Use
      /\ req \in [Request -> Slot]
  <2>1. r.pc # "idle"
    BY DEF ReadOwnPlan, ReadPlan, CountUsers, CountOrg, CountUser
  <2>2. QED
    BY <2>1 DEF GInv, TypeOK, Slot
<1>2. ASSUME ReadOwnPlan(q) PROVE Lands(q)
  <2> DEFINE c == [r EXCEPT !.pc = "get_org_plan", !.plan = plans[r.org]]
  <2>1. plans[r.org] \in Plan \cup {None} /\ "get_org_plan" \in Pc
    BY <1>1 DEF GInv, TypeOK, Pc
  <2>2. c \in Slot
    BY <1>1, <2>1 DEF Slot
  <2>3. To(q, c)
    <3>1. req' = [req EXCEPT ![q] = c]
      BY <1>1, <1>2 DEF ReadOwnPlan, Slot
    <3>2. QED
      BY <3>1 DEF To
  <2>4. /\ c.pc = "get_org_plan" /\ c.org = r.org /\ c.auth = r.auth
        /\ c.dead = r.dead /\ c.name = r.name /\ c.user = r.user /\ c.use = r.use
    BY <1>1 DEF Slot
  <2>5. r.pc = "read_own_plan"
    BY <1>2 DEF ReadOwnPlan
  <2> HIDE DEF c
  <2>6. Named(c)
    BY <1>1, <2>4, <2>5 DEF Named, Early, Removers, Reports
  <2>7. QED
    BY <2>2, <2>3, <2>4, <2>5, <2>6, GoesOn
<1>3. ASSUME ReadPlan(q) PROVE Lands(q)
  <2>1. PICK l \in Limits, s \in {"org_plan", "global_config", None},
             p \in {"answer", "count_users"} :
          /\ p = "answer" <=> r.name = "get_org_plan"
          /\ req' = [req EXCEPT ![q].limits = l, ![q].source = s, ![q].pc = p]
    BY <1>1, <1>3, LimitsType DEF ReadPlan, GInv
  <2> DEFINE c == [r EXCEPT !.limits = l, !.source = s, !.pc = p]
  <2>2. p \in Pc
    BY DEF Pc
  <2>3. c \in Slot
    BY <1>1, <2>2 DEF Slot
  <2>4. To(q, c)
    <3>1. req' = [req EXCEPT ![q] = c]
      BY <1>1, <2>1 DEF Slot
    <3>2. QED
      BY <3>1 DEF To
  <2>5. /\ c.pc = p /\ c.org = r.org /\ c.auth = r.auth
        /\ c.dead = r.dead /\ c.name = r.name /\ c.user = r.user /\ c.use = r.use
    BY <1>1 DEF Slot
  <2>6. r.pc = "get_org_plan"
    BY <1>3 DEF ReadPlan
  <2> HIDE DEF c
  <2>7. Named(c)
    BY <1>1, <2>1, <2>5, <2>6 DEF Named, Early, Removers, Reports
  <2>8. QED
    BY <2>3, <2>4, <2>5, <2>6, <2>7, GoesOn
<1>4. ASSUME CountUsers(q) PROVE Lands(q)
  <2> DEFINE n == Users(r.org)
             v == [r.use EXCEPT !.users = n]
             c == [r EXCEPT !.pc = "count_org", !.use = v]
  <2>1. n \in Nat /\ "count_org" \in Pc
    BY <1>1, CountsNat DEF GInv, Pc
  <2>2. req' = [req EXCEPT ![q].pc = "count_org", ![q].use.users = n]
        /\ r.pc = "count_users"
    BY <1>4 DEF CountUsers
  <2> HIDE DEF n
  <2>3. v \in Use /\ v.mine = r.use.mine
    BY <1>1, <2>1 DEF Use
  <2>4. req' = [req EXCEPT ![q] = c]
    BY <1>1, <2>2 DEF Slot, Use
  <2> HIDE DEF v
  <2>5. c \in Slot
    BY <1>1, <2>1, <2>3 DEF Slot
  <2>6. /\ c.pc = "count_org" /\ c.org = r.org /\ c.auth = r.auth
        /\ c.dead = r.dead /\ c.name = r.name /\ c.user = r.user /\ c.use = v
    BY <1>1 DEF Slot
  <2>7. To(q, c)
    BY <2>4 DEF To
  <2> HIDE DEF c
  <2>8. Named(c)
    BY <1>1, <2>2, <2>3, <2>6 DEF Named, Early, Removers, Reports
  <2>9. QED
    BY <2>2, <2>5, <2>6, <2>7, <2>8, GoesOn
<1>5. ASSUME CountOrg(q) PROVE Lands(q)
  <2> DEFINE n == Total(r.org)
             p == IF r.user = None THEN "daily_usage" ELSE "count_user"
             v == [r.use EXCEPT !.total = n]
             c == [r EXCEPT !.use = v, !.pc = p]
  <2>1. n \in Nat /\ p \in Pc
    BY <1>1, CountsNat DEF GInv, Pc
  <2>2. req' = [req EXCEPT ![q].use.total = n, ![q].pc = p] /\ r.pc = "count_org"
    BY <1>5 DEF CountOrg
  <2>3. p \in {"daily_usage", "count_user"} /\ (p = "count_user" => r.user \in User)
    BY <1>1 DEF Slot
  <2> HIDE DEF n, p
  <2>4. v \in Use
    BY <1>1, <2>1 DEF Use
  <2>5. req' = [req EXCEPT ![q] = c]
    BY <1>1, <2>2 DEF Slot, Use
  <2> HIDE DEF v
  <2>6. c \in Slot
    BY <1>1, <2>1, <2>4 DEF Slot
  <2>7. /\ c.pc = p /\ c.org = r.org /\ c.auth = r.auth
        /\ c.dead = r.dead /\ c.name = r.name /\ c.user = r.user /\ c.use = v
    BY <1>1 DEF Slot
  <2>8. To(q, c)
    BY <2>5 DEF To
  <2> HIDE DEF c
  <2>9. Named(c)
    BY <1>1, <2>2, <2>3, <2>7 DEF Named, Early, Removers, Reports
  <2>10. QED
    BY <2>2, <2>3, <2>6, <2>7, <2>8, <2>9, GoesOn
<1>6. ASSUME CountUser(q) PROVE Lands(q)
  <2> DEFINE n == memories[r.org][r.user]
             v == [r.use EXCEPT !.mine = n]
             c == [r EXCEPT !.pc = "daily_usage", !.use = v]
  <2>1. r.pc = "count_user" /\ r.user \in User
    BY <1>1, <1>6 DEF CountUser, Named
  <2>2. n \in Nat /\ "daily_usage" \in Pc
    BY <1>1, <2>1 DEF GInv, TypeOK, Pc
  <2>3. req' = [req EXCEPT ![q].pc = "daily_usage", ![q].use.mine = n]
    BY <1>6 DEF CountUser
  <2> HIDE DEF n
  <2>4. v \in Use
    BY <1>1, <2>2 DEF Use
  <2>5. req' = [req EXCEPT ![q] = c]
    BY <1>1, <2>3 DEF Slot, Use
  <2> HIDE DEF v
  <2>6. c \in Slot
    BY <1>1, <2>2, <2>4 DEF Slot
  <2>7. /\ c.pc = "daily_usage" /\ c.org = r.org /\ c.auth = r.auth
        /\ c.dead = r.dead /\ c.name = r.name /\ c.user = r.user /\ c.use = v
    BY <1>1 DEF Slot
  <2>8. To(q, c)
    BY <2>5 DEF To
  <2> HIDE DEF c
  <2>9. Named(c)
    BY <1>1, <2>1, <2>7 DEF Named, Early, Removers, Reports
  <2>10. QED
    BY <2>1, <2>6, <2>7, <2>8, <2>9, GoesOn
<1>7. QED
  BY <1>2, <1>3, <1>4, <1>5, <1>6

\* What the checks report is a set of kinds of violations.
LEMMA ViolationsType ==
  ASSUME NEW lim, NEW use
  PROVE  Violations(lim, use) \in SUBSET QuotaKind
BY DEF Violations, MemoryViolations, ProviderViolations, QuotaKind

\* The usage that the last read completes.
LEMMA DayType ==
  ASSUME TypeOK, NEW o \in Org, NEW v \in Use
  PROVE  LET w == [v EXCEPT !.requests = DailyUsage(o).requests,
                            !.tokens = DailyUsage(o).tokens]
         IN  /\ w \in Use /\ w.mine = v.mine /\ w.total = v.total
             /\ w.users = v.users /\ w.requests = DailyUsage(o).requests
<1> DEFINE a == DailyUsage(o).requests
           b == DailyUsage(o).tokens
<1>1. a \in Nat /\ b \in Nat
  BY LimitsType
<1> HIDE DEF a, b
<1>2. QED
  BY <1>1 DEF Use, a, b

\* The last read of the quota service decides where its request goes on.
LEMMA DailyLands ==
  ASSUME GInv, NEW q \in Request, ReadDailyUsage(q)
  PROVE  Lands(q)
<1> DEFINE r == req[q]
           w == [r.use EXCEPT !.requests = DailyUsage(r.org).requests,
                              !.tokens = DailyUsage(r.org).tokens]
<1>1. /\ r \in Slot /\ Named(r) /\ r.org \in Org /\ r.use \in Use
      /\ req \in [Request -> Slot] /\ r.pc = "daily_usage"
  <2>1. r.pc = "daily_usage"
    BY DEF ReadDailyUsage
  <2>2. QED
    BY <2>1 DEF GInv, TypeOK, Slot
<1>2. w \in Use
  BY <1>1, DayType DEF GInv
<1>3. ASSUME Reply(q) PROVE Lands(q)
  BY <1>3, ReplyLands
<1>4. ASSUME NEW s \in SUBSET QuotaKind, r.name = "get_org_quotas",
             req' = [req EXCEPT ![q].pc = "answer", ![q].use = w, ![q].says = s]
      PROVE  Lands(q)
  <2> DEFINE c == [r EXCEPT !.pc = "answer", !.use = w, !.says = s]
  <2> HIDE DEF w
  <2>1. "answer" \in Pc
    BY DEF Pc
  <2>2. c \in Slot
    BY <1>1, <1>2, <2>1 DEF Slot
  <2>3. req' = [req EXCEPT ![q] = c]
    BY <1>1, <1>4 DEF Slot
  <2>4. To(q, c)
    BY <2>3 DEF To
  <2>5. /\ c.pc = "answer" /\ c.org = r.org /\ c.auth = r.auth
        /\ c.dead = r.dead /\ c.name = r.name /\ c.user = r.user
    BY <1>1 DEF Slot
  <2> HIDE DEF c
  <2>6. Named(c)
    BY <1>1, <1>4, <2>5 DEF Named, Early, Removers, Reports
  <2>7. QED
    BY <1>1, <2>2, <2>4, <2>5, <2>6, GoesOn
<1>5. ASSUME r.name = "add_memory",
             req' = [req EXCEPT ![q] =
                  [r EXCEPT !.pc = "extract", !.limits = NoLimits, !.source = None,
                            !.use = NoUse]]
      PROVE  Lands(q)
  <2> DEFINE c == [r EXCEPT !.pc = "extract", !.limits = NoLimits, !.source = None,
                            !.use = NoUse]
  <2>1. "extract" \in Pc /\ NoLimits \in Limits /\ NoUse \in Use
    BY DEF Pc, NoLimits, Limits, NoUse, Use
  <2>2. c \in Slot
    BY <1>1, <2>1 DEF Slot
  <2>3. To(q, c)
    BY <1>5 DEF To
  <2>4. /\ c.pc = "extract" /\ c.org = r.org /\ c.auth = r.auth
        /\ c.dead = r.dead /\ c.name = r.name /\ c.user = r.user
    BY <1>1 DEF Slot
  <2> HIDE DEF c
  <2>5. Named(c)
    BY <1>1, <1>5, <2>4 DEF Named, Early, Removers, Reports
  <2>6. QED
    BY <1>1, <2>2, <2>3, <2>4, <2>5, GoesOn
<1>6. QED
  <2>1. CASE r.name = "get_org_quotas"
    <3> DEFINE s == IF settings.enabled THEN Violations(r.limits, w) ELSE {}
    <3>1. s \in SUBSET QuotaKind
      BY ViolationsType
    <3>2. req' = [req EXCEPT ![q].pc = "answer", ![q].use = w, ![q].says = s]
      BY <2>1 DEF ReadDailyUsage
    <3> HIDE DEF s, w
    <3>3. QED
      BY <2>1, <3>1, <3>2, <1>4
  <2>2. CASE r.name # "get_org_quotas"
    <3>1. /\ r.name = "add_memory"
          /\ \/ Reply(q)
             \/ req' = [req EXCEPT ![q] =
                  [r EXCEPT !.pc = "extract", !.limits = NoLimits, !.source = None,
                            !.use = NoUse]]
      BY <2>2 DEF ReadDailyUsage
    <3>2. QED
      BY <3>1, <1>3, <1>5
  <2>3. QED
    BY <2>1, <2>2

\* The provider has answered, or an import begins: n facts are left to insert.
LEMMA FillLands ==
  ASSUME GInv, NEW q \in Request, NEW n \in Nat,
         req[q].pc \in {"extract", "import"},
         Change(req[q].org, [req EXCEPT ![q].pc = "insert", ![q].left = n])
  PROVE  Lands(q)
<1> DEFINE r == req[q]
           c == [r EXCEPT !.pc = "insert", !.left = n]
<1>1. r \in Slot /\ Named(r) /\ req \in [Request -> Slot] /\ "insert" \in Pc
  BY DEF GInv, TypeOK, Pc
<1>2. c \in Slot
  BY <1>1 DEF Slot
<1>3. [req EXCEPT ![q].pc = "insert", ![q].left = n] = [req EXCEPT ![q] = c]
  BY <1>1 DEF Slot
<1>4. To(q, c)
  BY <1>3 DEF To
<1>5. /\ c.pc = "insert" /\ c.org = r.org /\ c.auth = r.auth
      /\ c.dead = r.dead /\ c.name = r.name /\ c.user = r.user
  BY <1>1 DEF Slot
<1> HIDE DEF c
<1>6. Named(c)
  BY <1>1, <1>5 DEF Named, Early, Removers, Reports
<1>7. QED
  BY <1>1, <1>2, <1>4, <1>5, <1>6, GoesOn

\* An insert leaves its request inserting, or ends it.
LEMMA InsertLands ==
  ASSUME GInv, NEW q \in Request, Insert(q)
  PROVE  Lands(q)
<1> DEFINE r == req[q]
<1>1. r \in Slot /\ Named(r) /\ req \in [Request -> Slot] /\ r.pc = "insert"
  BY DEF GInv, TypeOK, Insert
<1>2. CASE Reply(q)
  BY <1>2, ReplyLands
<1>3. CASE r.left > 0 /\ Change(r.org, [req EXCEPT ![q].left = @ - 1])
  <2> DEFINE n == r.left - 1
             c == [r EXCEPT !.left = n]
  <2>1. n \in Nat
    BY <1>1, <1>3 DEF Slot
  <2>2. [req EXCEPT ![q].left = @ - 1] = [req EXCEPT ![q] = c]
    BY <1>1 DEF Slot
  <2> HIDE DEF n
  <2>3. c \in Slot
    BY <1>1, <2>1 DEF Slot
  <2>4. To(q, c)
    BY <1>3, <2>2 DEF To
  <2>5. /\ c.pc = r.pc /\ c.org = r.org /\ c.auth = r.auth
        /\ c.dead = r.dead /\ c.name = r.name /\ c.user = r.user
    BY <1>1 DEF Slot
  <2> HIDE DEF c
  <2>6. Named(c)
    BY <1>1, <2>5 DEF Named, Early, Removers, Reports
  <2>7. QED
    BY <1>1, <2>3, <2>4, <2>5, <2>6, GoesOn
<1>4. QED
  BY <1>2, <1>3 DEF Insert

\* A plan that is stored is read again, one that is refused is answered.
LEMMA UpsertLands ==
  ASSUME GInv, NEW q \in Request, UpsertWrite(q)
  PROVE  Lands(q)
<1> DEFINE r == req[q]
           c == [r EXCEPT !.pc = "reread_plan"]
<1>1. /\ r \in Slot /\ Named(r) /\ req \in [Request -> Slot]
      /\ r.pc = "upsert_plan" /\ "reread_plan" \in Pc
  BY DEF GInv, TypeOK, UpsertWrite, Pc
<1>2. CASE Reply(q)
  BY <1>2, ReplyLands
<1>3. CASE Change(r.org, [req EXCEPT ![q].pc = "reread_plan"])
  <2>1. c \in Slot
    BY <1>1 DEF Slot
  <2>2. To(q, c)
    BY <1>3 DEF To
  <2>3. /\ c.pc = "reread_plan" /\ c.org = r.org /\ c.auth = r.auth
        /\ c.dead = r.dead /\ c.name = r.name /\ c.user = r.user
    BY <1>1 DEF Slot
  <2> HIDE DEF c
  <2>4. Named(c)
    BY <1>1, <2>3 DEF Named, Early, Removers, Reports
  <2>5. QED
    BY <1>1, <2>1, <2>2, <2>3, <2>4, GoesOn
<1>4. QED
  BY <1>2, <1>3 DEF UpsertWrite

\* Every step of a request leads it to a place of its route.
LEMMA StepLands ==
  ASSUME GInv, NEW q \in Request, Step(q)
  PROVE  Lands(q)
<1>0. /\ {"tenant", "limit", "handler", "upsert_plan"} \subseteq Pc
  BY DEF Pc
<1>1. CASE RequireApiKey(q)
  <2>1. req[q].pc = "auth"
    BY <1>1 DEF RequireApiKey
  <2>2. CASE settings.auth = "database"
    <3>1. ValidateDatabase(q)
      BY <1>1, <2>2, SettingsType DEF RequireApiKey
    <3>2. QED
      BY <2>1, <2>2, <3>1, DatabaseLands
  <2>3. CASE settings.auth # "database"
    <3>1. Goto(q, "tenant") \/ Reply(q)
      BY <1>1, <2>3, SettingsType DEF RequireApiKey, ValidateDev, GInv
    <3>2. QED
      BY <1>0, <2>1, <2>3, <3>1, GotoLands, ReplyLands
  <2>4. QED
    BY <2>2, <2>3
<1>2. CASE RequireOrganization(q)
  BY <1>0, <1>2, GotoLands, ReplyLands DEF RequireOrganization
<1>3. CASE EnforceRateLimit(q)
  <2>1. req[q].pc = "limit" /\ (Goto(q, "handler") \/ Reply(q))
    BY <1>3 DEF EnforceRateLimit
  <2>2. QED
    BY <1>0, <2>1, GotoLands, ReplyLands
<1>4. CASE Dispatch(q)
  BY <1>4, DispatchLands
<1>5. CASE ReadOwnPlan(q) \/ ReadPlan(q) \/ CountUsers(q) \/ CountOrg(q) \/ CountUser(q)
  BY <1>5, ReadsLand
<1>6. CASE ReadDailyUsage(q)
  BY <1>6, DailyLands
<1>7. CASE Extract(q) \/ ImportStart(q)
  <2>1. PICK n \in 0 .. MaxFacts :
          Change(req[q].org, [req EXCEPT ![q].pc = "insert", ![q].left = n])
    BY <1>7 DEF Extract, ImportStart
  <2>2. n \in Nat /\ req[q].pc \in {"extract", "import"}
    BY <1>7, TrafficOK DEF Extract, ImportStart
  <2>3. QED
    BY <2>1, <2>2, FillLands
<1>8. CASE Insert(q)
  BY <1>8, InsertLands
<1>9. CASE Remove(q) \/ DeletePlan(q)
  <2>1. Change(req[q].org, [req EXCEPT ![q] = Idle])
    BY <1>9 DEF Remove, DeletePlan
  <2>2. To(q, Idle)
    BY <2>1 DEF To
  <2>3. QED
    BY <2>2, IdleSlot, IdleNamed DEF Lands
<1>10. CASE InsertKey(q) \/ RevokeKey(q) \/ Answer(q) \/ UpsertReread(q) \/ Fail(q)
  BY <1>10, ReplyLands DEF InsertKey, RevokeKey, Answer, UpsertReread, Fail
<1>11. CASE UpsertRead(q)
  BY <1>0, <1>11, GotoLands DEF UpsertRead
<1>12. CASE UpsertWrite(q)
  BY <1>12, UpsertLands
<1>13. QED
  BY <1>1, <1>2, <1>3, <1>4, <1>5, <1>6, <1>7, <1>8, <1>9, <1>10, <1>11, <1>12
     DEF Step

-----------------------------------------------------------------------------
(* What a step does to what requests share.                                *)

\* Which step changes which table.
LEMMA Frames ==
  ASSUME NEW q \in Request, Step(q)
  PROVE  /\ UNCHANGED <<traffic, settings, now, arrivals>>
         /\ EnforceRateLimit(q) \/ UNCHANGED <<windows, admitted>>
         /\ InsertKey(q) \/ RevokeKey(q) \/ UNCHANGED keys
         /\ UpsertWrite(q) \/ DeletePlan(q) \/ UNCHANGED plans
         /\ ImportStart(q) \/ Insert(q) \/ Remove(q) \/ UNCHANGED memories
         /\ Extract(q) \/ UNCHANGED used
         /\ Insert(q) \/ UNCHANGED imported
<1> USE DEF world, tables, ghosts
<1>1. CASE Dispatch(q)
  BY <1>1, DispatchStep
<1>2. CASE RequireApiKey(q) \/ RequireOrganization(q) \/ EnforceRateLimit(q)
  BY <1>2 DEF RequireApiKey, RequireOrganization, EnforceRateLimit
<1>3. CASE ReadOwnPlan(q) \/ ReadPlan(q) \/ CountUsers(q) \/ CountOrg(q) \/ CountUser(q)
           \/ ReadDailyUsage(q) \/ Answer(q)
  BY <1>3 DEF ReadOwnPlan, ReadPlan, CountUsers, CountOrg, CountUser, ReadDailyUsage,
              Answer
<1>4. CASE Extract(q) \/ ImportStart(q) \/ Insert(q) \/ Remove(q)
  BY <1>4 DEF Extract, ImportStart, Insert, Remove
<1>5. CASE InsertKey(q) \/ RevokeKey(q) \/ UpsertRead(q) \/ UpsertWrite(q)
           \/ UpsertReread(q) \/ DeletePlan(q) \/ Fail(q)
  BY <1>5 DEF InsertKey, RevokeKey, UpsertRead, UpsertWrite, UpsertReread, DeletePlan,
              Fail
<1>6. QED
  BY <1>1, <1>2, <1>3, <1>4, <1>5 DEF Step

\* Pruning keeps entries as they are, and drops only old ones.
LEMMA PrunedKeeps ==
  ASSUME TypeOK
  PROVE  /\ DOMAIN Pruned \subseteq DOMAIN windows
         /\ \A o \in DOMAIN Pruned : Pruned[o] = windows[o]
         /\ \A o \in DOMAIN windows \ DOMAIN Pruned :
              ~(now - windows[o].start < 2 * Window)
BY DEF Pruned

\* The entry that the limiter works on is an entry of now or before.
LEMMA EntryType ==
  ASSUME TypeOK, NEW o
  PROVE  Entry(o) \in [start : 0 .. now, count : Nat]
<1>1. CASE o \in DOMAIN Pruned /\ now - Pruned[o].start < Window
  BY <1>1, PrunedKeeps DEF Entry, TypeOK
<1>2. CASE ~(o \in DOMAIN Pruned /\ now - Pruned[o].start < Window)
  <2>1. [start |-> now, count |-> 0] \in [start : 0 .. now, count : Nat]
    BY DEF TypeOK
  <2>2. QED
    BY <1>2, <2>1 DEF Entry
<1>3. QED
  BY <1>1, <1>2

\* What the limiter stores for o, and what it leaves.
LEMMA StoreType ==
  ASSUME TypeOK, NEW o \in Org, NEW e \in [start : 0 .. now, count : Nat]
  PROVE  /\ DOMAIN Store(o, e) \subseteq Org
         /\ Store(o, e)[o] = e
         /\ \A x \in DOMAIN Store(o, e) :
              /\ Store(o, e)[x] \in [start : 0 .. now, count : Nat]
              /\ x # o => x \in DOMAIN Pruned /\ Store(o, e)[x] = windows[x]
         /\ DOMAIN Store(o, e) = DOMAIN Pruned \cup {o}
<1>1. DOMAIN Pruned \subseteq Org
  BY PrunedKeeps DEF TypeOK
<1>2. \A p \in DOMAIN Pruned : Pruned[p] = windows[p]
                               /\ Pruned[p] \in [start : 0 .. now, count : Nat]
  BY PrunedKeeps DEF TypeOK
<1>3. QED
  BY <1>1, <1>2 DEF Store

\* The limiter keeps its entries and the history well typed.
LEMMA LimiterType ==
  ASSUME TypeOK, NEW q \in Request, req[q].org \in Org, EnforceRateLimit(q)
  PROVE  /\ DOMAIN windows' \subseteq Org
         /\ \A o \in DOMAIN windows' : windows'[o] \in [start : 0 .. now, count : Nat]
         /\ admitted' \in [Org -> Seq([at : Nat, start : Nat, nth : Nat])]
<1> DEFINE o == req[q].org
           e == Entry(o)
           E == [start : 0 .. now, count : Nat]
<1>1. e \in E
  BY EntryType
<1>2. CASE UNCHANGED <<windows, admitted>>
  BY <1>2 DEF TypeOK
<1>3. CASE windows' = Store(o, e) /\ UNCHANGED admitted
  <2> HIDE DEF e
  <2> QED BY <1>1, <1>3, StoreType DEF TypeOK
<1>4. CASE /\ windows' = Store(o, [e EXCEPT !.count = @ + 1])
           /\ admitted' = [admitted EXCEPT ![o] =
                Append(@, [at |-> now, start |-> e.start, nth |-> e.count + 1])]
  <2>1. e.start \in Nat /\ e.count + 1 \in Nat /\ now \in Nat
    BY <1>1 DEF TypeOK
  <2>2. [e EXCEPT !.count = @ + 1] \in E
    BY <1>1, <2>1
  <2>3. \A p \in DOMAIN windows' : windows'[p] \in E
    BY <1>4, <2>2, StoreType
  <2>4. DOMAIN windows' \subseteq Org
    BY <1>4, <2>2, StoreType
  <2> DEFINE x == [at |-> now, start |-> e.start, nth |-> e.count + 1]
             X == [at : Nat, start : Nat, nth : Nat]
  <2>5. x \in X
    BY <2>1
  <2>6. admitted[o] \in Seq(X)
    BY DEF TypeOK
  <2>7. Append(admitted[o], x) \in Seq(X)
    <3> HIDE DEF x, X
    <3> QED BY <2>5, <2>6
  <2>8. admitted' \in [Org -> Seq(X)]
    <3> HIDE DEF x
    <3> QED BY <1>4, <2>7 DEF TypeOK, x
  <2>9. QED
    BY <2>3, <2>4, <2>8
<1>5. QED
  BY <1>2, <1>3, <1>4 DEF EnforceRateLimit

\* Creating and revoking keep the table of keys well typed.
LEMMA KeysType ==
  ASSUME TypeOK, NEW q \in Request, req[q].org \in Org, InsertKey(q) \/ RevokeKey(q)
  PROVE  keys' \in [Key -> KeyRows \cup {Unused}]
<1>1. CASE UNCHANGED keys
  BY <1>1 DEF TypeOK
<1>2. CASE InsertKey(q) /\ ~UNCHANGED keys
  <2>1. PICK k \in Key, s \in traffic.grants :
          keys' = [keys EXCEPT ![k] = KeyRow(req[q].org, Hash(ResolvePepper, k), s)]
    BY <1>2 DEF InsertKey
  <2>2. ResolvePepper \in Pepper \cup {"dev-mode-pepper"}
    <3>1. ResolvePepper # None
      BY <1>2 DEF InsertKey
    <3>2. settings.pepper \in Pepper
      BY DEF TypeOK, Pepper
    <3>3. QED
      BY <3>1, <3>2 DEF ResolvePepper
  <2>3. s \subseteq Scope
    BY TrafficOK DEF TypeOK
  <2>4. Hash(ResolvePepper, k) \in (Pepper \cup {"dev-mode-pepper"}) \X Key
    BY <2>2 DEF Hash
  <2>5. KeyRow(req[q].org, Hash(ResolvePepper, k), s) \in KeyRows
    BY <2>3, <2>4 DEF KeyRow, KeyRows
  <2>6. QED
    BY <2>1, <2>5 DEF TypeOK
<1>3. CASE RevokeKey(q) /\ ~UNCHANGED keys
  <2>1. PICK k \in Key : /\ keys[k].status = "active"
                         /\ keys' = [keys EXCEPT ![k].status = "revoked"]
    BY <1>3 DEF RevokeKey
  <2>2. keys[k] \in KeyRows
    BY <2>1 DEF TypeOK, Unused
  <2>3. [keys[k] EXCEPT !.status = "revoked"] \in KeyRows
    BY <2>2 DEF KeyRows
  <2>4. QED
    BY <2>1, <2>3 DEF TypeOK
<1>4. QED
  BY <1>1, <1>2, <1>3

\* Only plans without negative limits are stored.
LEMMA PlansType ==
  ASSUME TypeOK, NEW q \in Request, UpsertWrite(q) \/ DeletePlan(q)
  PROVE  plans' \in [Org -> Plan \cup {None}]
<1>1. CASE UNCHANGED plans
  BY <1>1 DEF TypeOK
<1>2. CASE DeletePlan(q)
  BY <1>2 DEF DeletePlan, TypeOK
<1>3. CASE UpsertWrite(q) /\ ~UNCHANGED plans
  <2>1. PICK b \in traffic.plans, active \in BOOLEAN :
          /\ ~PlanRefused(b)
          /\ plans' = [plans EXCEPT ![req[q].org] = [active |-> active, limits |-> b.limits]]
    BY <1>3 DEF UpsertWrite
  <2>2. b \in PlanBody
    BY TrafficOK DEF TypeOK
  <2>3. b.limits \in [org : Int, user : Int, users : Int, requests : Int, tokens : Int]
    BY <2>2 DEF PlanBody
  <2>4. ~Negative(b.limits)
    BY <2>1 DEF PlanRefused
  <2>5. b.limits \in Limits
    BY <2>3, <2>4 DEF Negative, Limits
  <2>6. [active |-> active, limits |-> b.limits] \in Plan
    BY <2>5 DEF Plan
  <2>7. QED
    BY <2>1, <2>6 DEF TypeOK
<1>4. QED
  BY <1>1, <1>2, <1>3

\* Facts are counted in natural numbers.
LEMMA MemoriesType ==
  ASSUME GInv, NEW q \in Request, ImportStart(q) \/ Insert(q) \/ Remove(q)
  PROVE  /\ memories' \in [Org -> [User -> Nat]]
         /\ imported' \in [Org -> Nat]
<1> DEFINE r == req[q]
<1>1. /\ memories \in [Org -> [User -> Nat]] /\ imported \in [Org -> Nat]
      /\ r.org \in Org /\ r.user \in User
  <2>1. r.pc \in {"import", "insert", "remove"}
    BY DEF ImportStart, Insert, Remove
  <2>2. QED
    BY <2>1 DEF GInv, TypeOK, Named
<1>2. memories[r.org][r.user] \in Nat /\ imported[r.org] \in Nat
  BY <1>1
<1>3. CASE ImportStart(q)
  BY <1>1, <1>3 DEF ImportStart, ghosts
<1>4. CASE Insert(q)
  <2>1. memories' \in [Org -> [User -> Nat]]
    BY <1>1, <1>2, <1>4 DEF Insert
  <2>2. imported' \in [Org -> Nat]
    BY <1>1, <1>2, <1>4 DEF Insert
  <2>3. QED
    BY <2>1, <2>2
<1>5. CASE Remove(q)
  <2>1. PICK n \in Kept(r.name, memories[r.org][r.user]) :
          memories' = [memories EXCEPT ![r.org][r.user] = n]
    BY <1>5 DEF Remove
  <2>2. r.name \in Removers
    BY <1>5 DEF Remove, GInv, Named
  <2>3. n \in Nat
    BY <1>2, <2>1, <2>2 DEF Kept, Removers
  <2>4. QED
    BY <1>1, <1>5, <2>1, <2>3 DEF Remove, ghosts
<1>6. QED
  BY <1>3, <1>4, <1>5

-----------------------------------------------------------------------------
(* Types and places.                                                       *)

\* The fields of an arriving request.
LEMMA ArriveSlot ==
  ASSUME TypeOK, NEW q \in Request, Arrive(q)
  PROVE  \E c \in Slot :
           /\ req' = [req EXCEPT ![q] = c] /\ Named(c)
           /\ c.pc = "auth" /\ c.org \in Org /\ c.auth = None /\ c.name = None
           /\ c.dead = {d \in Key : keys[d].status = "revoked"}
<1>1. PICK o \in traffic.orgs, k \in traffic.tokens :
        req' = [req EXCEPT ![q] =
          [Idle EXCEPT !.pc = "auth", !.org = o, !.token = k,
                       !.dead = {d \in Key : keys[d].status = "revoked"}]]
  BY DEF Arrive
<1> DEFINE D == {d \in Key : keys[d].status = "revoked"}
           c == [Idle EXCEPT !.pc = "auth", !.org = o, !.token = k, !.dead = D]
<1>2. o \in Org /\ k \in Token /\ D \in SUBSET Key /\ "auth" \in Pc
  BY TrafficOK DEF TypeOK, Token, Pc
<1> HIDE DEF D
<1>3. c \in Slot
  BY <1>2, IdleSlot DEF Slot
<1>4. /\ c.pc = "auth" /\ c.org = o /\ c.dead = D /\ c.auth = Idle.auth
      /\ c.name = Idle.name /\ c.user = Idle.user /\ c.use = Idle.use
  BY IdleSlot DEF Slot
<1>5. req' = [req EXCEPT ![q] = c]
  BY <1>1 DEF D
<1> HIDE DEF c
<1>6. Named(c)
  BY <1>2, <1>4, IdleFields, NoneApart DEF Named, Early, Removers, Reports, Route
<1>7. QED
  BY <1>2, <1>3, <1>4, <1>5, <1>6, IdleFields DEF D

\* Being torn does not move a request.
LEMMA TearsNamed ==
  ASSUME NEW b \in Slot, NEW a, Tears(a, b), Named(b)
  PROVE  Named(a)
BY TearsFields DEF Named

\* Every slot stays one, and where its route allows it to be.
LEMMA SlotsStep ==
  ASSUME GInv, [Next]_vars
  PROVE  req' \in [Request -> Slot] /\ \A q \in Request : Named(req'[q])
<1>0. req \in [Request -> Slot] /\ \A q \in Request : Named(req[q])
  BY DEF GInv, TypeOK
<1>1. ASSUME NEW q \in Request, Step(q)
      PROVE  req' \in [Request -> Slot] /\ \A p \in Request : Named(req'[p])
  <2>1. PICK c \in Slot : To(q, c) /\ Named(c)
    BY <1>1, StepLands DEF Lands
  <2>2. /\ req' \in [Request -> Slot] /\ Tears(req'[q], c)
        /\ \A p \in Request : p # q => Tears(req'[p], req[p])
    BY <1>0, <2>1, ToSlots
  <2>3. ASSUME NEW p \in Request PROVE Named(req'[p])
    <3>1. req[p] \in Slot
      BY <1>0
    <3>2. QED
      BY <1>0, <2>1, <2>2, <3>1, TearsNamed
  <2>4. QED
    BY <2>2, <2>3
<1>2. ASSUME NEW q \in Request, Arrive(q)
      PROVE  req' \in [Request -> Slot] /\ \A p \in Request : Named(req'[p])
  <2>1. PICK c \in Slot : req' = [req EXCEPT ![q] = c] /\ Named(c)
    BY <1>2, ArriveSlot DEF GInv
  <2>2. QED
    BY <1>0, <2>1
<1>3. CASE Tick \/ UNCHANGED vars
  BY <1>0, <1>3 DEF Tick, vars
<1>4. CASE Midnight
  <2>1. \A p \in Request : Tears(req'[p], req[p])
    BY <1>4 DEF Midnight, Tears
  <2>2. \A p \in Request : req[p] \in Slot
    BY <1>0
  <2>3. \A p \in Request : req'[p] \in Slot /\ Named(req'[p])
    BY <1>0, <2>1, <2>2, TearsFields, TearsNamed
  <2>4. DOMAIN req' = Request /\ req' = [p \in Request |-> req'[p]]
    BY <1>4 DEF Midnight
  <2>5. QED
    BY <2>3, <2>4
<1>5. CASE Restart
  BY <1>5, IdleSlot, IdleNamed DEF Restart
<1>6. QED
  BY <1>1, <1>2, <1>3, <1>4, <1>5 DEF Next

\* Types and places at the start.
LEMMA GInvInit == Init => GInv
<1> SUFFICES ASSUME Init PROVE GInv
  OBVIOUS
<1>1. req \in [Request -> Slot] /\ \A q \in Request : req[q] = Idle
  BY IdleSlot DEF Init
<1>2. \A q \in Request : Named(req[q]) /\ req[q].pc = "idle"
  BY <1>1, IdleNamed, IdleFields
<1>3. keys \in [Key -> KeyRows \cup {Unused}]
  BY TrafficOK DEF Init
<1>4. DOMAIN windows = {}
  BY DEF Init, NoWindows
<1>5. admitted \in [Org -> Seq([at : Nat, start : Nat, nth : Nat])]
  BY DEF Init
<1>6. QED
  BY <1>1, <1>2, <1>3, <1>4, <1>5 DEF GInv, TypeOK, Init

\* Types and places are kept by every step.
LEMMA GInvStep == GInv /\ [Next]_vars => GInv'
<1> SUFFICES ASSUME GInv, [Next]_vars PROVE GInv'
  OBVIOUS
<1>0. req' \in [Request -> Slot] /\ \A q \in Request : Named(req'[q])
  BY SlotsStep
<1>1. \A q \in Request : req'[q].pc # "idle" => req'[q].org \in Org
  BY <1>0 DEF Named
<1>2. ASSUME NEW q \in Request, Step(q)
      PROVE  TypeOK'
  <2>0. req[q].org \in Org
    <3>1. req[q].pc # "idle"
      <4>1. CASE Dispatch(q)
        BY <4>1, DispatchStep
      <4>2. CASE ~Dispatch(q)
        BY <4>2, <1>2 DEF Step, RequireApiKey, RequireOrganization, EnforceRateLimit,
          ReadOwnPlan, ReadPlan, CountUsers, CountOrg, CountUser, ReadDailyUsage,
          Answer, Extract, ImportStart, Insert, Remove, InsertKey, RevokeKey,
          UpsertRead, UpsertWrite, UpsertReread, DeletePlan, Fail
      <4>3. QED
        BY <4>1, <4>2
    <3>2. QED
      BY <3>1 DEF GInv, TypeOK
  <2>1. UNCHANGED <<traffic, settings, now, arrivals>>
    BY <1>2, Frames
  <2>2. /\ DOMAIN windows' \subseteq Org
        /\ \A o \in DOMAIN windows' : windows'[o] \in [start : 0 .. now, count : Nat]
        /\ admitted' \in [Org -> Seq([at : Nat, start : Nat, nth : Nat])]
    <3>1. CASE EnforceRateLimit(q)
      BY <2>0, <3>1, LimiterType DEF GInv
    <3>2. CASE UNCHANGED <<windows, admitted>>
      BY <3>2 DEF GInv, TypeOK
    <3>3. QED
      BY <1>2, <3>1, <3>2, Frames
  <2>3. keys' \in [Key -> KeyRows \cup {Unused}]
    <3>1. CASE InsertKey(q) \/ RevokeKey(q)
      BY <2>0, <3>1, KeysType DEF GInv
    <3>2. CASE UNCHANGED keys
      BY <3>2 DEF GInv, TypeOK
    <3>3. QED
      BY <1>2, <3>1, <3>2, Frames
  <2>4. plans' \in [Org -> Plan \cup {None}]
    <3>1. CASE UpsertWrite(q) \/ DeletePlan(q)
      BY <3>1, PlansType DEF GInv
    <3>2. CASE UNCHANGED plans
      BY <3>2 DEF GInv, TypeOK
    <3>3. QED
      BY <1>2, <3>1, <3>2, Frames
  <2>5. memories' \in [Org -> [User -> Nat]] /\ imported' \in [Org -> Nat]
    <3>1. CASE ImportStart(q) \/ Insert(q) \/ Remove(q)
      BY <3>1, MemoriesType
    <3>2. CASE UNCHANGED <<memories, imported>>
      BY <3>2 DEF GInv, TypeOK
    <3>3. QED
      BY <1>2, <3>1, <3>2, Frames
  <2>6. used' \in [Org -> Nat]
    <3>1. CASE Extract(q)
      BY <2>0, <3>1 DEF Extract, GInv, TypeOK
    <3>2. CASE UNCHANGED used
      BY <3>2 DEF GInv, TypeOK
    <3>3. QED
      BY <1>2, <3>1, <3>2, Frames
  <2>7. QED
    BY <1>0, <1>1, <2>1, <2>2, <2>3, <2>4, <2>5, <2>6 DEF GInv, TypeOK
<1>3. ASSUME NEW q \in Request, Arrive(q)
      PROVE  TypeOK'
  <2>1. UNCHANGED <<world, windows, tables, ghosts>> /\ arrivals' = arrivals + 1
    BY <1>3 DEF Arrive
  <2>2. QED
    BY <1>0, <1>1, <2>1 DEF world, tables, ghosts, GInv, TypeOK
<1>4. CASE Tick
  <2>1. now' \in Nat /\ \A o \in DOMAIN windows : windows[o] \in [start : 0 .. now', count : Nat]
    BY <1>4 DEF Tick, GInv, TypeOK
  <2>2. QED
    BY <1>0, <1>1, <1>4, <2>1 DEF Tick, tables, ghosts, GInv, TypeOK
<1>5. CASE Midnight
  BY <1>0, <1>1, <1>5 DEF Midnight, world, ghosts, GInv, TypeOK
<1>6. CASE Restart
  <2>1. DOMAIN windows' = {} /\ admitted' \in [Org -> Seq([at : Nat, start : Nat, nth : Nat])]
    BY <1>6 DEF Restart, NoWindows
  <2>2. QED
    BY <1>0, <1>1, <1>6, <2>1 DEF Restart, tables, GInv, TypeOK
<1>7. CASE UNCHANGED vars
  BY <1>0, <1>1, <1>7 DEF vars, GInv, TypeOK
<1>8. ASSUME NEW q \in Request, Step(q) \/ Arrive(q)
      PROVE  GInv'
  BY <1>0, <1>2, <1>3, <1>8 DEF GInv
<1>9. QED
  BY <1>4, <1>5, <1>6, <1>7, <1>8 DEF Next

-----------------------------------------------------------------------------
(* Keys.                                                                   *)

\* What a request may do with a key, given the table of keys.
KeyOK(r, ks, mode) ==
  /\ \A d \in r.dead : ks[d].status = "revoked"
  /\ r.auth # None => r.auth.key \notin r.dead
  /\ mode = "database" =>
       /\ r.pc \notin {"idle", "auth"} => r.auth # None
       /\ r.pc \notin {"idle", "auth", "tenant"} => r.auth.org = r.org

\* The inductive invariant: the keys that were revoked when a request arrived
\* still are, so none of them can authenticate it.
KInv == \A q \in Request : KeyOK(req[q], keys, settings.auth)

\* An idle slot acts with no key.
LEMMA IdleKey == ASSUME NEW ks, NEW m PROVE KeyOK(Idle, ks, m)
BY IdleFields DEF KeyOK

\* No step takes a revocation back.
LEMMA RevokedStays ==
  ASSUME GInv, [Next]_vars, NEW d \in Key, keys[d].status = "revoked"
  PROVE  keys'[d].status = "revoked"
<1>0. keys \in [Key -> KeyRows \cup {Unused}]
  BY DEF GInv, TypeOK
<1>1. ASSUME NEW q \in Request, InsertKey(q)
      PROVE  keys'[d].status = "revoked"
  <2>1. keys[d] # Unused
    BY DEF Unused
  <2>2. QED
    BY <1>0, <1>1, <2>1 DEF InsertKey
<1>2. ASSUME NEW q \in Request, RevokeKey(q)
      PROVE  keys'[d].status = "revoked"
  BY <1>0, <1>2 DEF RevokeKey
<1>3. ASSUME NEW q \in Request, Step(q)
      PROVE  keys'[d].status = "revoked"
  BY <1>1, <1>2, <1>3, Frames
<1>4. CASE (\E q \in Request : Arrive(q)) \/ Tick \/ Midnight \/ Restart \/ UNCHANGED vars
  BY <1>4 DEF Arrive, Tick, Midnight, Restart, vars, tables
<1>5. QED
  BY <1>3, <1>4 DEF Next

\* Every step keeps what requests may do with keys.
LEMMA KInvStep == GInv /\ KInv /\ [Next]_vars => KInv'
<1> SUFFICES ASSUME GInv, KInv, [Next]_vars,
                    NEW p \in Request
             PROVE  KeyOK(req'[p], keys', settings'.auth)
  BY DEF KInv
<1>0. /\ req \in [Request -> Slot] /\ KeyOK(req[p], keys, settings.auth)
      /\ req[p] \in Slot
  BY DEF GInv, TypeOK, KInv
<1>1. ASSUME NEW c \in Slot, KeyOK(c, keys, settings.auth), Tears(req'[p], c),
             UNCHANGED settings
      PROVE  KeyOK(req'[p], keys', settings'.auth)
  <2>1. c.dead \subseteq Key
    BY DEF Slot
  <2>2. \A d \in c.dead : keys'[d].status = "revoked"
    BY <1>1, <2>1, RevokedStays DEF KeyOK
  <2>3. QED
    BY <1>1, <2>2, TearsFields DEF KeyOK
<1>2. ASSUME Tears(req'[p], req[p]), UNCHANGED settings
      PROVE  KeyOK(req'[p], keys', settings'.auth)
  BY <1>0, <1>1, <1>2
<1>3. ASSUME NEW q \in Request, Step(q)
      PROVE  KeyOK(req'[p], keys', settings'.auth)
  <2>1. PICK c \in Slot : To(q, c) /\ (c = Idle \/ Continues(q, c))
    BY <1>3, StepLands DEF Lands
  <2>2. /\ Tears(req'[q], c) /\ UNCHANGED settings
        /\ p # q => Tears(req'[p], req[p])
    BY <1>0, <1>3, <2>1, ToSlots, Frames
  <2>3. CASE p # q
    BY <1>2, <2>2, <2>3
  <2>4. CASE p = q
    <3>1. CASE c = Idle
      BY <1>1, <2>2, <2>4, <3>1, IdleKey
    <3>2. CASE Continues(q, c)
      <4>1. KeyOK(c, keys, settings.auth)
        <5>0. KeyOK(req[q], keys, settings.auth) /\ c.dead = req[q].dead
          BY <1>0, <2>4, <3>2 DEF Continues
        <5>1. ASSUME NEW k \in Key, c.pc = "tenant", keys[k].status = "active",
                     c.auth = [key |-> k, org |-> keys[k].org, scopes |-> keys[k].scopes]
              PROVE  KeyOK(c, keys, settings.auth)
          <6>1. keys[k] \in KeyRows
            BY <5>1 DEF GInv, TypeOK, Unused
          <6>2. keys[k].org \in Org /\ keys[k].scopes \in SUBSET Scope
            BY <6>1 DEF KeyRows
          <6>3. c.auth \in Context
            BY <5>1, <6>2 DEF Context
          <6>4. c.auth # None /\ c.auth.key = k
            BY <5>1, <6>3, NoneApart
          <6>5. QED
            BY <5>0, <5>1, <6>4 DEF KeyOK
        <5>2. CASE req[q].pc = "auth" /\ c.pc = "tenant" /\ settings.auth # "database"
                   /\ c.auth = req[q].auth
          BY <5>0, <5>2 DEF KeyOK
        <5>3. CASE /\ req[q].pc \notin {"idle", "auth"} /\ c.pc \notin {"auth", "tenant"}
                   /\ c.auth = req[q].auth /\ c.org = req[q].org
                   /\ req[q].pc = "tenant" => OrgMatches(q)
          BY <5>0, <5>3 DEF KeyOK, OrgMatches
        <5>4. QED
          BY <3>2, <5>1, <5>2, <5>3 DEF Continues
      <4>2. QED
        BY <1>1, <2>2, <2>4, <4>1
    <3>3. QED
      BY <2>1, <3>1, <3>2
  <2>5. QED
    BY <2>3, <2>4
<1>4. ASSUME NEW q \in Request, Arrive(q)
      PROVE  KeyOK(req'[p], keys', settings'.auth)
  <2>1. UNCHANGED <<keys, settings>>
    BY <1>4 DEF Arrive, world, tables
  <2>2. PICK c \in Slot :
           /\ req' = [req EXCEPT ![q] = c]
           /\ c.pc = "auth" /\ c.auth = None
           /\ c.dead = {d \in Key : keys[d].status = "revoked"}
    BY <1>4, ArriveSlot DEF GInv
  <2>3. KeyOK(c, keys, settings.auth)
    BY <2>2 DEF KeyOK
  <2>4. QED
    BY <1>0, <2>1, <2>2, <2>3
<1>5. CASE Tick \/ UNCHANGED vars
  BY <1>0, <1>5 DEF Tick, vars, tables
<1>6. CASE Midnight
  <2>1. Tears(req'[p], req[p]) /\ UNCHANGED settings
    BY <1>6 DEF Midnight, Tears, world
  <2>2. QED
    BY <1>2, <2>1
<1>7. CASE Restart
  BY <1>7, IdleKey DEF Restart
<1>8. QED
  BY <1>3, <1>4, <1>5, <1>6, <1>7 DEF Next

\* For every traffic, every set of keys and every number of requests: a request
\* that acts in database mode does so with the context of a key of the
\* organisation it names, never of one that was revoked when it arrived,
\* whatever was looked up, created, revoked or restarted in between.
THEOREM KeysAreRespected == Spec => []KeysRespected
<1>1. Init => KInv
  BY IdleKey DEF Init, KInv
<1>2. GInv /\ KInv => KeysRespected
  BY DEF GInv, KInv, KeyOK, KeysRespected, NoAnonymousRequest, Anonymous, RevokedKeysStayOut
<1>3. QED
  BY <1>1, <1>2, GInvInit, GInvStep, KInvStep, PTL DEF Spec

-----------------------------------------------------------------------------
(* A lock-out is final.                                                    *)

\* The key that a request creates is of an organisation that has an admin.
LEMMA CreatorIsAdmin ==
  ASSUME GInv, KInv, NEW o \in Org, LockedOut(o), NEW q \in Request, InsertKey(q)
  PROVE  req[q].org # o
<1>1. req[q].pc = "insert_key" /\ settings.auth = "database"
  BY DEF InsertKey, LockedOut
<1>2. req[q].auth # None /\ req[q].auth.org = req[q].org
  BY <1>1 DEF KInv, KeyOK
<1>3. "admin_write" \in req[q].auth.scopes
  BY <1>1, <1>2 DEF GInv, Named
<1>4. ~Admin(req[q].auth, o)
  BY <1>2 DEF LockedOut
<1>5. QED
  BY <1>2, <1>3, <1>4 DEF Admin

\* No step gives a locked-out organisation an active admin key.
LEMMA NoNewAdminKey ==
  ASSUME GInv, KInv, NEW o \in Org, LockedOut(o), NEW q \in Request, Step(q),
         NEW k \in Key, keys'[k].status = "active"
  PROVE  ~Admin(keys'[k], o)
<1>0. keys \in [Key -> KeyRows \cup {Unused}]
  BY DEF GInv, TypeOK
<1>1. CASE keys'[k] = keys[k]
  BY <1>1 DEF LockedOut
<1>2. CASE keys'[k] # keys[k] /\ InsertKey(q)
  <2>1. PICK d \in Key, s \in traffic.grants :
          keys' = [keys EXCEPT ![d] = KeyRow(req[q].org, Hash(ResolvePepper, d), s)]
    BY <1>2 DEF InsertKey
  <2>2. keys'[k] = KeyRow(req[q].org, Hash(ResolvePepper, d), s)
    BY <1>0, <1>2, <2>1
  <2>3. keys'[k].org = req[q].org
    BY <2>2 DEF KeyRow
  <2>4. QED
    BY <1>2, <2>3, CreatorIsAdmin DEF Admin
<1>3. CASE keys'[k] # keys[k] /\ RevokeKey(q)
  <2>1. PICK d \in Key : /\ keys[d].status = "active"
                         /\ keys' = [keys EXCEPT ![d].status = "revoked"]
    BY <1>3 DEF RevokeKey
  <2>2. keys'[k] = [keys[k] EXCEPT !.status = "revoked"] /\ keys[k].status = "active"
    BY <1>0, <1>3, <2>1
  <2>3. keys[k] \in KeyRows
    BY <1>0, <2>2 DEF Unused
  <2>4. keys'[k].status = "revoked"
    BY <2>2, <2>3 DEF KeyRows
  <2>5. QED
    BY <2>4
<1>4. QED
  BY <1>1, <1>2, <1>3, Frames

\* No step authenticates a request with an admin key of such an organisation.
LEMMA NoNewAdmin ==
  ASSUME GInv, NEW o \in Org, LockedOut(o), NEW q \in Request, Step(q),
         NEW p \in Request, req'[p].auth # None
  PROVE  ~Admin(req'[p].auth, o)
<1>0. req \in [Request -> Slot] /\ req[p] \in Slot
  BY DEF GInv, TypeOK
<1>1. PICK c \in Slot : To(q, c) /\ (c = Idle \/ Continues(q, c))
  BY StepLands DEF Lands
<1>2. /\ Tears(req'[q], c)
      /\ p # q => Tears(req'[p], req[p])
  BY <1>0, <1>1, ToSlots
<1>3. CASE p # q
  BY <1>0, <1>2, <1>3, TearsFields DEF LockedOut
<1>4. CASE p = q
  <2>1. c.auth = req'[p].auth
    BY <1>2, <1>4, TearsFields
  <2>2. CASE c.auth = req[q].auth
    BY <2>1, <2>2 DEF LockedOut
  <2>3. CASE \E k \in Key :
               /\ keys[k].status = "active"
               /\ c.auth = [key |-> k, org |-> keys[k].org, scopes |-> keys[k].scopes]
    BY <2>1, <2>3 DEF LockedOut, Admin
  <2>4. QED
    BY <1>1, <2>1, <2>2, <2>3, IdleFields DEF Continues
<1>5. QED
  BY <1>3, <1>4

\* One step keeps a locked-out organisation locked out.
LEMMA LockoutStep ==
  ASSUME GInv, KInv, [Next]_vars, NEW o \in Org, LockedOut(o), settings' = settings
  PROVE  LockedOut(o)'
<1>0. req \in [Request -> Slot]
  BY DEF GInv, TypeOK
<1>1. ASSUME NEW q \in Request, Step(q)
      PROVE  LockedOut(o)'
  BY <1>1, NoNewAdmin, NoNewAdminKey DEF LockedOut
<1>2. ASSUME UNCHANGED keys,
             \A p \in Request : req'[p].auth \in {None, req[p].auth}
      PROVE  LockedOut(o)'
  BY <1>2 DEF LockedOut
<1>3. ASSUME NEW q \in Request, Arrive(q)
      PROVE  LockedOut(o)'
  <2>1. PICK c \in Slot : req' = [req EXCEPT ![q] = c] /\ c.auth = None
    BY <1>3, ArriveSlot DEF GInv
  <2>2. UNCHANGED keys
    BY <1>3 DEF Arrive, tables
  <2>3. QED
    BY <1>0, <1>2, <2>1, <2>2
<1>4. CASE Tick \/ UNCHANGED vars
  BY <1>2, <1>4 DEF Tick, vars, tables
<1>5. CASE Midnight
  <2>1. \A p \in Request : Tears(req'[p], req[p])
    BY <1>5 DEF Midnight, Tears
  <2>2. \A p \in Request : req[p] \in Slot
    BY <1>0
  <2>3. \A p \in Request : req'[p].auth = req[p].auth
    BY <2>1, <2>2, TearsFields
  <2>4. QED
    BY <1>2, <1>5, <2>3 DEF Midnight
<1>6. CASE Restart
  BY <1>2, <1>6, IdleFields DEF Restart, tables
<1>7. QED
  BY <1>1, <1>3, <1>4, <1>5, <1>6 DEF Next

\* For every set of keys and every traffic: in database mode an organisation
\* whose last admin key is revoked, and for which no admin's request is left in
\* flight, never again has an active admin key or an admin's request: no route
\* lends one, neither its own requests nor those of other organisations.
THEOREM LockoutIsFinal == Spec => LockoutFinal
<1>1. Init => GInv /\ KInv
  BY GInvInit, IdleKey DEF Init, KInv
<1>2. GInv /\ KInv /\ [Next]_vars
        => [\A o \in Org : LockedOut(o) /\ settings' = settings => LockedOut(o)']_vars
  BY LockoutStep
<1>3. QED
  BY <1>1, <1>2, GInvStep, KInvStep, PTL DEF Spec, LockoutFinal

-----------------------------------------------------------------------------
(* The rate limiter.                                                       *)

\* Event e was admitted in its window, as one of the places of that window.
InWindow(e) ==
  /\ e.nth \in 1 .. RequestsPerWindow
  /\ e.start <= e.at /\ e.at < e.start + Window

\* Event e is before what entry w admits next: one of the places that w has
\* counted, or of a window that is over when that of w begins.
Before(e, w) ==
  \/ e.start = w.start /\ e.nth <= w.count
  \/ e.start + Window <= w.start

\* What an organisation without an entry counts on next: a window from now.
Fresh(t) == [start |-> t, count |-> 0]

\* Two events have different places in one window, or windows that do not overlap.
Apart(d, e) ==
  \/ d.start = e.start /\ d.nth # e.nth
  \/ d.start + Window <= e.start
  \/ e.start + Window <= d.start

\* The inductive invariant of the limiter for the events a of an organisation
\* whose entry is w.
WindowOK(a, w) ==
  /\ \A i \in DOMAIN a : InWindow(a[i]) /\ Before(a[i], w)
  /\ \A i, j \in DOMAIN a : i # j => Apart(a[i], a[j])

Current(o) == IF o \in DOMAIN windows THEN windows[o] ELSE Fresh(now)
WInv == \A o \in Org : WindowOK(admitted[o], Current(o))

Event == [at : Nat, start : Nat, nth : Nat]
Entries == [start : Nat, count : Nat]

\* A later window keeps the order of events: the entry may be dropped or reset
\* when its window is over.
LEMMA Later ==
  ASSUME NEW a \in Seq(Event), NEW v \in Entries, NEW w \in Entries,
         WindowOK(a, v),
         (w.start = v.start /\ v.count <= w.count) \/ v.start + Window <= w.start
  PROVE  WindowOK(a, w)
<1>1. ASSUME NEW i \in DOMAIN a PROVE Before(a[i], w)
  <2>1. a[i] \in Event
    OBVIOUS
  <2>2. a[i].start \in Nat /\ a[i].nth \in Nat /\ v.start \in Nat /\ v.count \in Nat
        /\ w.start \in Nat /\ w.count \in Nat /\ Window \in Nat \ {0}
    BY <2>1, TrafficOK DEF Event, Entries
  <2>3. Before(a[i], v)
    BY DEF WindowOK
  <2>4. QED
    BY <2>2, <2>3 DEF Before
<1>2. QED
  BY <1>1 DEF WindowOK

\* Entry(o) is the entry of o, or one of a window that begins when that is over.
LEMMA EntryLater ==
  ASSUME TypeOK, NEW o \in Org
  PROVE  LET v == Current(o)
             w == Entry(o)
         IN  /\ v \in Entries /\ w \in Entries
             /\ w = v \/ v.start + Window <= w.start
             /\ w.start <= now /\ now < w.start + Window
<1>0. now \in Nat /\ Window \in Nat \ {0}
  BY TrafficOK DEF TypeOK
<1>1. Fresh(now) \in Entries /\ Fresh(now).start = now /\ Fresh(now).count = 0
  BY <1>0 DEF Fresh, Entries
<1>2. CASE o \in DOMAIN windows
  <2>1. windows[o].start \in 0 .. now /\ windows[o].count \in Nat /\ windows[o] \in Entries
    BY <1>0, <1>2 DEF TypeOK, Entries
  <2>2. Current(o) = windows[o]
    BY <1>2 DEF Current
  <2>3. CASE o \in DOMAIN Pruned /\ now - Pruned[o].start < Window
    BY <1>0, <2>1, <2>2, <2>3, PrunedKeeps DEF Entry
  <2>4. CASE ~(o \in DOMAIN Pruned /\ now - Pruned[o].start < Window)
    <3>1. Entry(o) = Fresh(now)
      BY <2>4 DEF Entry, Fresh
    <3>2. ~(now - windows[o].start < Window)
      BY <1>0, <1>2, <2>1, <2>4, PrunedKeeps
    <3>3. QED
      BY <1>0, <1>1, <2>1, <2>2, <3>1, <3>2
  <2>5. QED
    BY <2>3, <2>4
<1>3. CASE o \notin DOMAIN windows
  <2>1. o \notin DOMAIN Pruned
    BY <1>3, PrunedKeeps
  <2>2. Entry(o) = Fresh(now) /\ Current(o) = Fresh(now)
    BY <1>3, <2>1 DEF Entry, Current, Fresh
  <2>3. QED
    BY <1>0, <1>1, <2>2
<1>4. QED
  BY <1>2, <1>3

\* One more event, at the next place of the entry.
LEMMA AdmitOK ==
  ASSUME NEW a \in Seq(Event), NEW w \in Entries, WindowOK(a, w), NEW n \in Nat,
         w.start <= n, n < w.start + Window, w.count < RequestsPerWindow,
         NEW v \in Entries, v.start = w.start, v.count = w.count + 1
  PROVE  WindowOK(Append(a, [at |-> n, start |-> w.start, nth |-> w.count + 1]), v)
<1> DEFINE e == [at |-> n, start |-> w.start, nth |-> w.count + 1]
           b == Append(a, e)
<1>0. w.start \in Nat /\ w.count \in Nat /\ v.start \in Nat /\ v.count \in Nat
      /\ RequestsPerWindow \in Nat /\ Window \in Nat \ {0}
  BY TrafficOK DEF Entries
<1>1. e \in Event /\ e.at = n /\ e.start = w.start /\ e.nth = w.count + 1
  BY <1>0 DEF Event
<1>2. InWindow(e) /\ Before(e, v)
  BY <1>0, <1>1 DEF InWindow, Before
<1>3. ASSUME NEW i \in DOMAIN a
      PROVE  InWindow(a[i]) /\ Before(a[i], v) /\ Apart(a[i], e) /\ Apart(e, a[i])
  <2>0. a[i] \in Event
    OBVIOUS
  <2>1. a[i].start \in Nat /\ a[i].nth \in Nat
    BY <2>0 DEF Event
  <2>2. InWindow(a[i]) /\ Before(a[i], w)
    BY DEF WindowOK
  <2> HIDE DEF e
  <2>3. QED
    BY <1>0, <1>1, <2>1, <2>2 DEF Before, Apart
<1> HIDE DEF e
<1>4. /\ DOMAIN b = 1 .. Len(a) + 1 /\ DOMAIN a = 1 .. Len(a) /\ Len(a) \in Nat
      /\ b[Len(a) + 1] = e
      /\ \A i \in DOMAIN a : b[i] = a[i]
  BY <1>1
<1> HIDE DEF b
<1>5. ASSUME NEW i \in DOMAIN b
      PROVE  \/ i \in DOMAIN a /\ b[i] = a[i]
             \/ i = Len(a) + 1 /\ b[i] = e
  <2>1. i \in 1 .. Len(a) + 1
    BY <1>4
  <2>2. i \in 1 .. Len(a) \/ i = Len(a) + 1
    BY <1>4, <2>1
  <2>3. QED
    BY <1>4, <2>2
<1>6. \A i \in DOMAIN b : InWindow(b[i]) /\ Before(b[i], v)
  BY <1>2, <1>3, <1>5
<1>7. ASSUME NEW i \in DOMAIN b, NEW j \in DOMAIN b, i # j
      PROVE  Apart(b[i], b[j])
  <2>1. CASE i \in DOMAIN a /\ j \in DOMAIN a
    BY <1>4, <1>7, <2>1 DEF WindowOK
  <2>2. CASE i \in DOMAIN a /\ j \notin DOMAIN a
    BY <1>3, <1>5, <2>2
  <2>3. CASE i \notin DOMAIN a
    BY <1>3, <1>5, <1>7, <2>3
  <2>4. QED
    BY <2>1, <2>2, <2>3
<1>8. WindowOK(b, v)
  BY <1>6, <1>7 DEF WindowOK
<1>9. QED
  BY <1>8 DEF b, e

\* What the limiter leaves of the entries when it stores that of o.
LEMMA Stored ==
  ASSUME TypeOK, NEW o \in Org, NEW v, v \in [start : 0 .. now, count : Nat]
  PROVE  /\ o \in DOMAIN Store(o, v) /\ Store(o, v)[o] = v
         /\ DOMAIN Store(o, v) = DOMAIN Pruned \cup {o}
BY PrunedKeeps DEF Store

\* A step of the limiter for organisation o keeps the invariant.
LEMMA LimiterStep ==
  ASSUME GInv, WInv, NEW q \in Request, EnforceRateLimit(q), UNCHANGED now,
         NEW p \in Org, NEW o \in Org, req[q].org = o
  PROVE  WindowOK(admitted'[p], Current(p)')
<1> DEFINE w == Entry(o)
<1>0. /\ now \in Nat /\ Window \in Nat \ {0} /\ RequestsPerWindow \in Nat
      /\ admitted \in [Org -> Seq(Event)]
      /\ TypeOK
  BY TrafficOK DEF EnforceRateLimit, GInv, TypeOK, Event
<1>1. /\ Current(o) \in Entries /\ w \in Entries
      /\ w = Current(o) \/ Current(o).start + Window <= w.start
      /\ w.start <= now /\ now < w.start + Window
  BY <1>0, EntryLater
<1>2. w \in [start : 0 .. now, count : Nat]
  BY <1>0, EntryType
<1>3. WindowOK(admitted[o], w)
  <2>1. WindowOK(admitted[o], Current(o)) /\ admitted[o] \in Seq(Event)
    BY <1>0 DEF WInv
  <2>2. CASE w = Current(o)
    BY <2>1, <2>2
  <2>3. CASE Current(o).start + Window <= w.start
    <3> HIDE DEF w
    <3> QED BY <1>1, <2>1, <2>3, Later
  <2>4. QED
    BY <1>1, <2>2, <2>3
<1>4. WindowOK(admitted[p], Current(p)) /\ admitted[p] \in Seq(Event)
  BY <1>0 DEF WInv
<1>5. CASE UNCHANGED <<windows, admitted>>
  BY <1>4, <1>5 DEF Current
<1>6. ASSUME NEW v \in [start : 0 .. now, count : Nat], windows' = Store(o, v),
             p # o, admitted'[p] = admitted[p]
      PROVE  WindowOK(admitted'[p], Current(p)')
  <2>1. /\ \A x \in DOMAIN Pruned : x # o => windows'[x] = windows[x]
        /\ DOMAIN windows' = DOMAIN Pruned \cup {o}
    <3>1. v \in [start : 0 .. now, count : Nat] /\ TypeOK
      BY <1>0
    <3>2. DOMAIN Store(o, v) = DOMAIN Pruned \cup {o}
      BY <3>1, Stored
    <3>3. \A x \in DOMAIN Pruned : x # o => Store(o, v)[x] = windows[x]
      BY <1>0, PrunedKeeps DEF Store
    <3>4. QED
      BY <1>6, <3>2, <3>3
  <2>2. CASE p \in DOMAIN Pruned \/ p \notin DOMAIN windows
    <3>1. Current(p)' = Current(p)
      BY <1>0, <1>6, <2>1, <2>2, PrunedKeeps DEF Current
    <3>2. QED
      BY <1>4, <1>6, <3>1
  <2>3. CASE p \in DOMAIN windows /\ p \notin DOMAIN Pruned
    <3>1. windows[p] \in Entries /\ windows[p].start \in Nat
          /\ ~(now - windows[p].start < 2 * Window)
      BY <1>0, <2>3, PrunedKeeps DEF TypeOK, Entries
    <3>2. windows[p].start + Window <= now
      BY <1>0, <3>1
    <3>3. Current(p) = windows[p] /\ Current(p)' = Fresh(now)
      BY <1>6, <2>1, <2>3 DEF Current
    <3>4. Fresh(now) \in Entries /\ Fresh(now).start = now
      BY <1>0 DEF Fresh, Entries
    <3>5. QED
      BY <1>4, <1>6, <3>1, <3>2, <3>3, <3>4, Later
  <2>4. QED
    BY <2>2, <2>3
<1>7. ASSUME NEW v \in [start : 0 .. now, count : Nat], windows' = Store(o, v)
      PROVE  Current(o)' = v
  <2>1. v \in [start : 0 .. now, count : Nat] /\ TypeOK
    BY <1>0
  <2>2. o \in DOMAIN Store(o, v) /\ Store(o, v)[o] = v
    BY <2>1, Stored
  <2>3. QED
    BY <1>7, <2>2 DEF Current
<1>8. CASE windows' = Store(o, w) /\ UNCHANGED admitted
  <2> HIDE DEF w
  <2> QED BY <1>2, <1>3, <1>6, <1>7, <1>8
<1>9. CASE /\ windows' = Store(o, [w EXCEPT !.count = @ + 1]) /\ ~Limited(w)
           /\ admitted' = [admitted EXCEPT ![o] =
                Append(@, [at |-> now, start |-> w.start, nth |-> w.count + 1])]
  <2> DEFINE v == [w EXCEPT !.count = @ + 1]
             e == [at |-> now, start |-> w.start, nth |-> w.count + 1]
  <2> HIDE DEF w
  <2>1. w.start \in 0 .. now /\ w.count \in Nat
    BY <1>2
  <2>2. v \in [start : 0 .. now, count : Nat] /\ v.start = w.start /\ v.count = w.count + 1
    BY <1>2, <2>1
  <2>3. v \in Entries
    BY <1>0, <2>1, <2>2 DEF Entries
  <2>4. w.count < RequestsPerWindow
    BY <1>0, <1>9, <2>1 DEF Limited
  <2>5. windows' = Store(o, v)
    BY <1>9
  <2> HIDE DEF v
  <2>6. WindowOK(Append(admitted[o], e), v)
    BY <1>0, <1>1, <1>3, <2>2, <2>3, <2>4, AdmitOK
  <2>7. admitted' = [admitted EXCEPT ![o] = Append(admitted[o], e)]
    BY <1>9
  <2> HIDE DEF e
  <2>8. CASE p = o
    BY <1>0, <1>7, <2>2, <2>5, <2>6, <2>7, <2>8
  <2>9. CASE p # o
    BY <1>0, <1>6, <2>2, <2>5, <2>7, <2>9
  <2>10. QED
    BY <2>8, <2>9
<1>10. QED
  BY <1>5, <1>8, <1>9 DEF EnforceRateLimit

\* Every step keeps the order of the events of the limiter.
LEMMA WInvStep == GInv /\ WInv /\ [Next]_vars => WInv'
<1> SUFFICES ASSUME GInv, WInv, [Next]_vars, NEW p \in Org
             PROVE  WindowOK(admitted'[p], Current(p)')
  BY DEF WInv
<1>0. /\ WindowOK(admitted[p], Current(p)) /\ admitted[p] \in Seq(Event)
      /\ now \in Nat
  BY DEF WInv, GInv, TypeOK, Event
<1>1. CASE UNCHANGED <<windows, admitted, now>>
  BY <1>0, <1>1 DEF Current
<1>2. ASSUME NEW q \in Request, Step(q)
      PROVE  WindowOK(admitted'[p], Current(p)')
  <2>1. CASE EnforceRateLimit(q)
    <3>1. req[q].org \in Org /\ UNCHANGED now
      BY <1>2, <2>1, Frames DEF EnforceRateLimit, GInv, TypeOK
    <3>2. QED
      BY <2>1, <3>1, LimiterStep
  <2>2. CASE UNCHANGED <<windows, admitted, now>>
    BY <1>1, <2>2
  <2>3. QED
    BY <1>2, <2>1, <2>2, Frames
<1>3. CASE Tick
  <2>1. now' = now + 1 /\ UNCHANGED <<windows, admitted>>
    BY <1>3 DEF Tick, ghosts
  <2>2. CASE p \in DOMAIN windows
    BY <1>0, <2>1, <2>2 DEF Current
  <2>3. CASE p \notin DOMAIN windows
    <3>1. Current(p) = Fresh(now) /\ Current(p)' = Fresh(now + 1)
      BY <2>1, <2>3 DEF Current
    <3>2. ASSUME NEW i \in DOMAIN admitted[p]
          PROVE  Before(admitted[p][i], Fresh(now + 1))
      <4>1. admitted[p][i] \in Event
        BY <1>0
      <4>2. admitted[p][i].start \in Nat /\ Window \in Nat \ {0}
        BY <4>1, TrafficOK DEF Event
      <4>3. Before(admitted[p][i], Fresh(now)) /\ InWindow(admitted[p][i])
        BY <1>0, <3>1 DEF WindowOK
      <4>4. QED
        BY <1>0, <4>2, <4>3, TrafficOK DEF Before, Fresh, InWindow
    <3>3. QED
      BY <1>0, <2>1, <3>1, <3>2 DEF WindowOK
  <2>4. QED
    BY <2>2, <2>3
<1>4. CASE Restart
  <2>1. DOMAIN admitted'[p] = {}
    BY <1>4 DEF Restart
  <2>2. QED
    BY <2>1 DEF WindowOK
<1>5. CASE (\E q \in Request : Arrive(q)) \/ Midnight \/ UNCHANGED vars
  BY <1>1, <1>5 DEF Arrive, Midnight, vars, world, ghosts
<1>6. QED
  BY <1>2, <1>3, <1>4, <1>5 DEF Next

\* A window and an interval as long that share a moment begin less than a
\* window apart.
LEMMA Overlap ==
  ASSUME NEW t \in Nat, NEW b \in Nat, NEW n \in Nat, NEW W \in Nat,
         t <= n, n < t + W, b <= n, n < b + W
  PROVE  t < b + W /\ b < t + W
OBVIOUS

\* Two of them that begin on the same side of the interval's begin are less
\* than a window apart.
LEMMA SameSide ==
  ASSUME NEW t \in Nat, NEW b \in Nat, NEW c \in Nat, NEW W \in Nat,
         b < t <=> c < t, t < b + W, t < c + W, b < t + W, c < t + W
  PROVE  ~(b + W <= c) /\ ~(c + W <= b)
OBVIOUS

\* The events in an interval as long as a window have places in two windows.
LEMMA TwoWindows ==
  ASSUME NEW a \in Seq(Event), NEW w, WindowOK(a, w), NEW t \in Nat
  PROVE  Cardinality({i \in DOMAIN a : a[i].at \in t .. (t + Window - 1)})
           <= 2 * RequestsPerWindow
<1> DEFINE S == {i \in DOMAIN a : a[i].at \in t .. (t + Window - 1)}
           T == (1 .. 2) \X (1 .. RequestsPerWindow)
           f == [i \in S |-> <<IF a[i].start < t THEN 1 ELSE 2, a[i].nth>>]
<1>0. RequestsPerWindow \in Nat /\ Window \in Nat \ {0}
  BY TrafficOK
<1>1. \A n \in Nat : IsFiniteSet(1 .. n) /\ Cardinality(1 .. n) = n
  BY FS_Interval
<1>2. /\ IsFiniteSet(1 .. 2) /\ Cardinality(1 .. 2) = 2
      /\ IsFiniteSet(1 .. RequestsPerWindow)
      /\ Cardinality(1 .. RequestsPerWindow) = RequestsPerWindow
  BY <1>0, <1>1
<1>3. IsFiniteSet(T) /\ Cardinality(T) = 2 * RequestsPerWindow
  <2> DEFINE A == 1 .. 2
             B == 1 .. RequestsPerWindow
  <2> HIDE DEF A, B
  <2>1. IsFiniteSet(A \X B) /\ Cardinality(A \X B) = Cardinality(A) * Cardinality(B)
    BY <1>2, FS_Product DEF A, B
  <2>2. QED
    BY <1>2, <2>1 DEF A, B
<1>4. \A i \in S : f[i] \in T
  BY DEF WindowOK, InWindow
<1>5. ASSUME NEW i \in S, NEW j \in S, f[i] = f[j]
      PROVE  i = j
  <2>1. a[i] \in Event /\ a[j] \in Event
    OBVIOUS
  <2>2. /\ a[i].start \in Nat /\ a[i].at \in Nat /\ a[i].nth \in Nat
        /\ a[j].start \in Nat /\ a[j].at \in Nat /\ a[j].nth \in Nat
    BY <2>1 DEF Event
  <2>3. InWindow(a[i]) /\ InWindow(a[j]) /\ (i # j => Apart(a[i], a[j]))
    BY DEF WindowOK
  <2>4. a[i].nth = a[j].nth /\ (a[i].start < t <=> a[j].start < t)
    BY <1>5
  <2>5. a[i].at \in t .. (t + Window - 1) /\ a[j].at \in t .. (t + Window - 1)
    OBVIOUS
  <2>6. /\ t <= a[i].at /\ a[i].at < t + Window /\ t <= a[j].at /\ a[j].at < t + Window
        /\ a[i].start <= a[i].at /\ a[i].at < a[i].start + Window
        /\ a[j].start <= a[j].at /\ a[j].at < a[j].start + Window
    BY <1>0, <2>2, <2>3, <2>5 DEF InWindow
  <2>7. ~(a[i].start + Window <= a[j].start) /\ ~(a[j].start + Window <= a[i].start)
    <3>1. /\ t < a[i].start + Window /\ t < a[j].start + Window
          /\ a[i].start < t + Window /\ a[j].start < t + Window
      BY <1>0, <2>2, <2>6, Overlap
    <3>2. QED
      BY <1>0, <2>2, <2>4, <3>1, SameSide
  <2>8. QED
    BY <2>3, <2>4, <2>7 DEF Apart
<1>6. f \in Injection(S, T)
  BY <1>4, <1>5 DEF Injection, IsInjective
<1> HIDE DEF S, T, f
<1>7. Cardinality(S) <= Cardinality(T)
  BY <1>3, <1>6, FS_Injection
<1>8. QED
  BY <1>3, <1>7 DEF S

\* For every window length, limit and map size: the limiter lets at most twice
\* its limit through in any interval as long as a window, across resets,
\* pruning and restarts of other windows.
THEOREM SlidingIsBound == Spec => []SlidingBound
<1>1. Init => WInv
  BY DEF Init, WInv, WindowOK
<1>2. GInv /\ WInv => SlidingBound
  <2> SUFFICES ASSUME GInv, WInv, NEW o \in Org, NEW t \in 0 .. MaxNow
               PROVE  Cardinality({i \in DOMAIN admitted[o] :
                                     admitted[o][i].at \in t .. (t + Window - 1)})
                        <= 2 * RequestsPerWindow
    BY DEF SlidingBound
  <2>1. admitted[o] \in Seq(Event) /\ WindowOK(admitted[o], Current(o)) /\ t \in Nat
    BY TrafficOK DEF GInv, TypeOK, WInv, Event
  <2>2. QED
    BY <2>1, TwoWindows
<1>3. QED
  BY <1>1, <1>2, GInvInit, GInvStep, WInvStep, PTL DEF Spec

-----------------------------------------------------------------------------
(* What the steps of the quota service write into their request.           *)

\* The places between the plan of an organisation and the decision.
Reading == {"count_users", "count_org", "count_user", "daily_usage"}

\* The steps after which the place of a request says more than its name.
Tells(q) ==
  \/ ReadOwnPlan(q) \/ ReadPlan(q) \/ CountUsers(q) \/ CountOrg(q) \/ CountUser(q)
  \/ ReadDailyUsage(q) \/ Extract(q) \/ ImportStart(q) \/ Insert(q)

\* A request after q's reading step: what it is stays, and nobody else moves.
SameCaller(q) ==
  /\ req'[q].org = req[q].org /\ req'[q].name = req[q].name
  /\ req'[q].user = req[q].user /\ req'[q].torn = req[q].torn
  /\ \A p \in Request : p # q => req'[p] = req[p]

\* A step of the program counter keeps the name.
LEMMA GotoFields ==
  ASSUME req \in [Request -> Slot], NEW q \in Request, NEW pc, Goto(q, pc)
  PROVE  req'[q].pc = pc /\ req'[q].name = req[q].name
<1>1. req[q] \in Slot
  OBVIOUS
<1>2. req'[q] = [req[q] EXCEPT !.pc = pc]
  BY DEF Goto
<1>3. QED
  BY <1>1, <1>2 DEF Slot

\* Every other step leads to a place where nothing is counted, inserted or
\* answered.
LEMMA QuietStep ==
  ASSUME GInv, NEW q \in Request, Step(q), ~Tells(q)
  PROVE  /\ req'[q].pc \notin Reading \cup {"extract", "insert", "answer"}
         /\ req'[q].pc = "get_org_plan" => req'[q].name # "get_org_plan"
<1> USE DEF Reading
<1>0. req \in [Request -> Slot] /\ req[q] \in Slot
  BY DEF GInv, TypeOK
<1>1. CASE Reply(q)
  <2>1. req'[q] = Idle
    BY <1>0, <1>1 DEF Reply
  <2>2. QED
    BY <2>1, IdleFields
<1>2. CASE Goto(q, "tenant") \/ Goto(q, "limit") \/ Goto(q, "handler")
           \/ Goto(q, "upsert_plan")
  BY <1>0, <1>2, GotoFields
<1>3. CASE RequireApiKey(q) /\ ~Reply(q) /\ ~Goto(q, "tenant")
  <2>1. PICK a : req' = [req EXCEPT ![q].pc = "tenant", ![q].auth = a]
    BY <1>3, SettingsType DEF RequireApiKey, ValidateDev, ValidateDatabase, GInv
  <2>2. req'[q] = [req[q] EXCEPT !.pc = "tenant", !.auth = a]
    BY <1>0, <2>1
  <2>3. req'[q].pc = "tenant"
    BY <1>0, <2>2 DEF Slot
  <2>4. QED
    BY <2>3
<1>4. CASE Dispatch(q) /\ ~Reply(q)
  <2>1. PICK name, next :
          \E u \in traffic.users \cup (IF name = "get_org_quotas" THEN {None} ELSE {}) :
            /\ Routed(q, name, next)
            /\ req' = [req EXCEPT ![q].pc = next, ![q].name = name, ![q].user = u]
    BY <1>4, DispatchStep
  <2>2. PICK u : req'[q] = [req[q] EXCEPT !.pc = next, !.name = name, !.user = u]
    BY <1>0, <2>1
  <2>3. req'[q].pc = next /\ req'[q].name = name
    BY <1>0, <2>2 DEF Slot
  <2>4. QED
    BY <2>1, <2>3 DEF Routed
<1>5. CASE Remove(q) \/ DeletePlan(q)
  <2>1. Change(req[q].org, [req EXCEPT ![q] = Idle])
    BY <1>5 DEF Remove, DeletePlan
  <2>2. To(q, Idle)
    BY <2>1 DEF To
  <2>3. Tears(req'[q], Idle)
    BY <1>0, <2>2, IdleSlot, ToSlots
  <2>4. req'[q].pc = "idle"
    BY <2>3, IdleSlot, IdleFields, TearsFields
  <2>5. QED
    BY <2>4
<1>6. CASE UpsertWrite(q) /\ ~Reply(q)
  <2> DEFINE c == [req[q] EXCEPT !.pc = "reread_plan"]
  <2>1. Change(req[q].org, [req EXCEPT ![q] = c])
    BY <1>6 DEF UpsertWrite
  <2>2. c \in Slot /\ c.pc = "reread_plan"
    BY <1>0 DEF Slot, Pc
  <2>3. To(q, c)
    BY <2>1 DEF To
  <2> HIDE DEF c
  <2>4. req'[q].pc = "reread_plan"
    BY <1>0, <2>2, <2>3, ToSlots, TearsFields
  <2>5. QED
    BY <2>4
<1>7. CASE RequireOrganization(q) \/ EnforceRateLimit(q) \/ UpsertRead(q)
  BY <1>1, <1>2, <1>7 DEF RequireOrganization, EnforceRateLimit, UpsertRead
<1>8. CASE InsertKey(q) \/ RevokeKey(q) \/ Answer(q) \/ UpsertReread(q) \/ Fail(q)
  BY <1>1, <1>8 DEF InsertKey, RevokeKey, Answer, UpsertReread, Fail
<1>9. QED
  BY <1>1, <1>2, <1>3, <1>4, <1>5, <1>6, <1>7, <1>8 DEF Step, Tells

\* The route get_org_plan has read the plan.
LEMMA ReadOwnPlanFields ==
  ASSUME GInv, NEW q \in Request, ReadOwnPlan(q)
  PROVE  /\ SameCaller(q) /\ req[q].pc = "read_own_plan" /\ req'[q].pc = "get_org_plan"
         /\ req'[q].plan = plans[req[q].org]
<1>1. req[q] \in Slot
  BY DEF GInv, TypeOK
<1> DEFINE v == plans[req[q].org]
<1>2. /\ req'[q] = [req[q] EXCEPT !.pc = "get_org_plan", !.plan = v]
      /\ \A p \in Request : p # q => req'[p] = req[p]
  BY DEF ReadOwnPlan, GInv, TypeOK
<1> HIDE DEF v
<1>3. SameCaller(q) /\ req'[q].pc = "get_org_plan" /\ req'[q].plan = v
  BY <1>1, <1>2 DEF Slot, SameCaller
<1>4. QED
  BY <1>3 DEF ReadOwnPlan, v

\* The limits in force are in the request.
LEMMA ReadPlanFields ==
  ASSUME GInv, NEW q \in Request, ReadPlan(q)
  PROVE  /\ SameCaller(q) /\ req[q].pc = "get_org_plan" /\ req[q].org \in Org
         /\ req'[q].pc = IF req[q].name = "get_org_plan" THEN "answer" ELSE "count_users"
         /\ req'[q].limits = ResolveLimits(req[q].org).limits
         /\ req'[q].source = ResolveLimits(req[q].org).source
         /\ req'[q].plan = req[q].plan /\ req'[q].use = req[q].use
<1>1. req[q] \in Slot /\ req[q].org \in Org /\ req[q].pc = "get_org_plan"
  BY DEF GInv, TypeOK, ReadPlan
<1> DEFINE l == ResolveLimits(req[q].org).limits
           s == ResolveLimits(req[q].org).source
           p == IF req[q].name = "get_org_plan" THEN "answer" ELSE "count_users"
<1>2. /\ req'[q] = [req[q] EXCEPT !.limits = l, !.source = s, !.pc = p]
      /\ \A x \in Request : x # q => req'[x] = req[x]
  BY DEF ReadPlan, GInv, TypeOK
<1> HIDE DEF l, s, p
<1>3. /\ SameCaller(q) /\ req'[q].pc = p /\ req'[q].limits = l /\ req'[q].source = s
      /\ req'[q].plan = req[q].plan /\ req'[q].use = req[q].use
  BY <1>1, <1>2 DEF Slot, SameCaller
<1>4. QED
  BY <1>1, <1>3 DEF l, s, p

\* The users are counted.
LEMMA CountUsersFields ==
  ASSUME GInv, NEW q \in Request, CountUsers(q)
  PROVE  /\ SameCaller(q) /\ req[q].pc = "count_users" /\ req'[q].pc = "count_org"
         /\ req'[q].limits = req[q].limits
         /\ req'[q].use = [req[q].use EXCEPT !.users = Users(req[q].org)]
<1>1. req[q] \in Slot /\ req[q].pc = "count_users"
  BY DEF GInv, TypeOK, CountUsers
<1> DEFINE v == [req[q].use EXCEPT !.users = Users(req[q].org)]
<1>2. /\ req'[q] = [req[q] EXCEPT !.pc = "count_org", !.use = v]
      /\ \A p \in Request : p # q => req'[p] = req[p]
  BY <1>1 DEF CountUsers, GInv, TypeOK, Slot, Use
<1> HIDE DEF v
<1>3. /\ SameCaller(q) /\ req'[q].pc = "count_org" /\ req'[q].limits = req[q].limits
      /\ req'[q].use = v
  BY <1>1, <1>2 DEF Slot, SameCaller
<1>4. QED
  BY <1>1, <1>3 DEF v

\* The facts of the organisation are counted.
LEMMA CountOrgFields ==
  ASSUME GInv, NEW q \in Request, CountOrg(q)
  PROVE  /\ SameCaller(q) /\ req[q].pc = "count_org" /\ req[q].org \in Org
         /\ req'[q].pc = IF req[q].user = None THEN "daily_usage" ELSE "count_user"
         /\ req'[q].limits = req[q].limits
         /\ req'[q].use = [req[q].use EXCEPT !.total = Total(req[q].org)]
<1>1. req[q] \in Slot /\ req[q].pc = "count_org" /\ req[q].org \in Org
  BY DEF GInv, TypeOK, CountOrg
<1> DEFINE v == [req[q].use EXCEPT !.total = Total(req[q].org)]
           x == IF req[q].user = None THEN "daily_usage" ELSE "count_user"
<1>2. /\ req'[q] = [req[q] EXCEPT !.use = v, !.pc = x]
      /\ \A p \in Request : p # q => req'[p] = req[p]
  BY <1>1 DEF CountOrg, GInv, TypeOK, Slot, Use
<1> HIDE DEF v, x
<1>3. /\ SameCaller(q) /\ req'[q].pc = x /\ req'[q].limits = req[q].limits
      /\ req'[q].use = v
  BY <1>1, <1>2 DEF Slot, SameCaller
<1>4. QED
  BY <1>1, <1>3 DEF v, x

\* The facts of the user are counted.
LEMMA CountUserFields ==
  ASSUME GInv, NEW q \in Request, CountUser(q)
  PROVE  /\ SameCaller(q) /\ req[q].pc = "count_user" /\ req'[q].pc = "daily_usage"
         /\ req'[q].limits = req[q].limits /\ req[q].user \in User
         /\ req'[q].use =
              [req[q].use EXCEPT !.mine = memories[req[q].org][req[q].user]]
<1>1. req[q] \in Slot /\ req[q].pc = "count_user" /\ req[q].user \in User
  BY DEF GInv, TypeOK, CountUser, Named
<1> DEFINE v == [req[q].use EXCEPT !.mine = memories[req[q].org][req[q].user]]
<1>2. /\ req'[q] = [req[q] EXCEPT !.pc = "daily_usage", !.use = v]
      /\ \A p \in Request : p # q => req'[p] = req[p]
  BY <1>1 DEF CountUser, GInv, TypeOK, Slot, Use
<1> HIDE DEF v
<1>3. /\ SameCaller(q) /\ req'[q].pc = "daily_usage" /\ req'[q].limits = req[q].limits
      /\ req'[q].use = v
  BY <1>1, <1>2 DEF Slot, SameCaller
<1>4. QED
  BY <1>1, <1>3 DEF v

\* The usage of q's request once that of the day is read.
FullUse(q) ==
  [req[q].use EXCEPT !.requests = DailyUsage(req[q].org).requests,
                     !.tokens = DailyUsage(req[q].org).tokens]

\* The last read: answered, refused, or off to the provider.
LEMMA ReadDailyUsageFields ==
  ASSUME GInv, NEW q \in Request, ReadDailyUsage(q)
  PROVE  /\ req[q].pc = "daily_usage" /\ req[q].org \in Org
         /\ \/ Reply(q)
            \/ /\ SameCaller(q) /\ req[q].name = "get_org_quotas"
               /\ req'[q].pc = "answer" /\ req'[q].limits = req[q].limits
               /\ req'[q].source = req[q].source
               /\ req'[q].use = FullUse(q)
               /\ req'[q].says = IF settings.enabled
                                 THEN Violations(req[q].limits, FullUse(q)) ELSE {}
            \/ /\ SameCaller(q) /\ req[q].name = "add_memory" /\ req'[q].pc = "extract"
               /\ settings.enabled => MemoryViolations(req[q].limits, FullUse(q), 1) = {}
<1> DEFINE r == req[q]
           w == FullUse(q)
           s == IF settings.enabled THEN Violations(r.limits, w) ELSE {}
<1>1. /\ r \in Slot /\ r.pc = "daily_usage" /\ r.org \in Org
      /\ req \in [Request -> Slot]
  BY DEF GInv, TypeOK, ReadDailyUsage
<1>2. CASE Reply(q)
  BY <1>1, <1>2
<1>3. CASE r.name = "get_org_quotas" /\ ~Reply(q)
  <2>1. req' = [req EXCEPT ![q].pc = "answer", ![q].use = w, ![q].says = s]
    BY <1>3 DEF ReadDailyUsage, FullUse
  <2> HIDE DEF w, s
  <2>2. /\ req'[q] = [r EXCEPT !.pc = "answer", !.use = w, !.says = s]
        /\ \A p \in Request : p # q => req'[p] = req[p]
    BY <1>1, <2>1
  <2>3. /\ SameCaller(q) /\ req'[q].pc = "answer" /\ req'[q].limits = r.limits
        /\ req'[q].source = r.source /\ req'[q].use = w /\ req'[q].says = s
    BY <1>1, <2>2 DEF Slot, SameCaller
  <2>4. QED
    BY <1>1, <1>3, <2>3 DEF s, w
<1>4. CASE r.name # "get_org_quotas" /\ ~Reply(q)
  <2>1. /\ r.name = "add_memory"
        /\ settings.enabled => MemoryViolations(r.limits, w, 1) = {}
        /\ req' = [req EXCEPT ![q] =
             [r EXCEPT !.pc = "extract", !.limits = NoLimits, !.source = None,
                       !.use = NoUse]]
    BY <1>4 DEF ReadDailyUsage, FullUse
  <2>2. /\ req'[q] = [r EXCEPT !.pc = "extract", !.limits = NoLimits, !.source = None,
                               !.use = NoUse]
        /\ \A p \in Request : p # q => req'[p] = req[p]
    BY <1>1, <2>1
  <2>3. SameCaller(q) /\ req'[q].pc = "extract"
    BY <1>1, <2>2 DEF Slot, SameCaller
  <2>4. QED
    BY <1>1, <2>1, <2>3
<1>5. QED
  BY <1>2, <1>3, <1>4

\* The provider has answered, or an import begins.
LEMMA FillFields ==
  ASSUME GInv, NEW q \in Request, Extract(q) \/ ImportStart(q)
  PROVE  /\ req'[q].pc = "insert" /\ req'[q].name = req[q].name
         /\ req'[q].org = req[q].org
         /\ req'[q].left \in 0 .. MaxFacts
         /\ Extract(q) => req[q].pc = "extract" /\ req[q].name = "add_memory"
         /\ ImportStart(q) => req[q].pc = "import" /\ req[q].name = "import_user_data"
<1> DEFINE r == req[q]
<1>1. PICK n \in 0 .. MaxFacts :
        Change(r.org, [req EXCEPT ![q].pc = "insert", ![q].left = n])
  BY DEF Extract, ImportStart
<1> DEFINE c == [r EXCEPT !.pc = "insert", !.left = n]
<1>2. r \in Slot /\ Named(r) /\ req \in [Request -> Slot] /\ "insert" \in Pc /\ n \in Nat
  BY TrafficOK DEF GInv, TypeOK, Pc
<1>3. c \in Slot /\ c.pc = "insert" /\ c.left = n /\ c.name = r.name /\ c.org = r.org
  BY <1>2 DEF Slot
<1>4. [req EXCEPT ![q].pc = "insert", ![q].left = n] = [req EXCEPT ![q] = c]
  BY <1>2 DEF Slot
<1>5. To(q, c)
  BY <1>1, <1>4 DEF To
<1> HIDE DEF c
<1>6. req'[q].pc = "insert" /\ req'[q].left = n /\ req'[q].name = r.name
      /\ req'[q].org = r.org
  BY <1>2, <1>3, <1>5, ToSlots, TearsFields
<1>7. QED
  BY <1>2, <1>6 DEF Extract, ImportStart, Named

\* One fact is inserted, or none is left.
LEMMA InsertFields ==
  ASSUME GInv, NEW q \in Request, Insert(q)
  PROVE  /\ req[q].pc = "insert" /\ req[q].org \in Org /\ req[q].user \in User
         /\ req[q].left \in Nat
         /\ \/ Reply(q) /\ UNCHANGED <<memories, imported>>
            \/ /\ req'[q].pc = "insert" /\ req'[q].name = req[q].name
               /\ req'[q].org = req[q].org
               /\ req[q].left > 0 /\ req'[q].left = req[q].left - 1
               /\ memories' = [memories EXCEPT ![req[q].org][req[q].user] = @ + 1]
               /\ imported' = IF req[q].name = "import_user_data"
                              THEN [imported EXCEPT ![req[q].org] = @ + 1] ELSE imported
<1> DEFINE r == req[q]
           n == r.left - 1
           c == [r EXCEPT !.left = n]
<1>1. /\ r \in Slot /\ Named(r) /\ req \in [Request -> Slot] /\ r.pc = "insert"
      /\ r.org \in Org /\ r.left \in Nat
  BY DEF GInv, TypeOK, Insert, Slot
<1>2. r.user \in User
  BY <1>1 DEF Named
<1>3. CASE Reply(q) /\ UNCHANGED <<memories, imported>>
  BY <1>1, <1>2, <1>3
<1>4. CASE /\ r.left > 0
           /\ memories' = [memories EXCEPT ![r.org][r.user] = @ + 1]
           /\ Change(r.org, [req EXCEPT ![q].left = @ - 1])
           /\ imported' = IF r.name = "import_user_data"
                          THEN [imported EXCEPT ![r.org] = @ + 1] ELSE imported
  <2>1. n \in Nat
    BY <1>1, <1>4
  <2>2. [req EXCEPT ![q].left = @ - 1] = [req EXCEPT ![q] = c]
    BY <1>1 DEF Slot
  <2> HIDE DEF n
  <2>3. c \in Slot /\ c.pc = r.pc /\ c.left = n /\ c.name = r.name /\ c.org = r.org
    BY <1>1, <2>1 DEF Slot
  <2>4. To(q, c)
    BY <1>4, <2>2 DEF To
  <2> HIDE DEF c
  <2>5. req'[q].pc = "insert" /\ req'[q].left = n /\ req'[q].name = r.name
        /\ req'[q].org = r.org
    BY <1>1, <2>3, <2>4, ToSlots, TearsFields
  <2>6. QED
    BY <1>1, <1>2, <1>4, <2>5 DEF n
<1>5. QED
  BY <1>3, <1>4 DEF Insert

-----------------------------------------------------------------------------
(* How far the memory quota can be overshot.                               *)

\* What request r can still add to organisation o after its quota check, or
\* after the count on which that check is going to let it pass.
Pot(r, o) ==
  IF r.name # "add_memory" \/ r.org # o THEN 0
  ELSE IF \/ r.pc = "extract"
          \/ r.pc \in {"count_user", "daily_usage"} /\ r.use.total < r.limits.org
       THEN MaxFacts
  ELSE IF r.pc = "insert" THEN r.left ELSE 0
Pots(o) == [q \in Request |-> Pot(req[q], o)]
Pending(o) == Cardinality(Cells(Pots(o), Request))

\* The limit that a request was given is one of the quotas, and what it inserts
\* is no more than a request can add.
Rated(r) ==
  /\ r.pc \in Reading => r.limits.org \in Quotas
  /\ r.pc = "insert" => r.left <= MaxFacts

\* The inductive invariant: the facts of an organisation and those on their way
\* stay together within the bound, so there is room for what is pending.
Enforced == (\A s \in traffic.settings : s.enabled) /\ 0 \notin Quotas
Slack == Cardinality(Request) * MaxFacts
Room(o) == \E m \in Quotas : Total(o) + Pending(o) <= m - 1 + Slack + imported[o]
OInv ==
  /\ \A q \in Request : Rated(req[q])
  /\ \A o \in Org : plans[o] # None => plans[o].limits.org \in Quotas
  /\ Enforced => \A o \in Org : Room(o)

\* What a request can still add is a number of facts that one request can add.
LEMMA PotType ==
  ASSUME NEW r \in Slot, Rated(r), NEW o
  PROVE  Pot(r, o) \in Nat /\ Pot(r, o) <= MaxFacts
<1>1. MaxFacts \in Nat /\ r.left \in Nat
  BY TrafficOK DEF Slot
<1>2. QED
  BY <1>1 DEF Pot, Rated

\* Nothing is pending for a request where it counts, inserts and extracts nothing.
LEMMA NoPot ==
  ASSUME NEW r, NEW o, r.pc \notin {"count_user", "daily_usage", "extract", "insert"}
  PROVE  Pot(r, o) = 0
BY DEF Pot

\* Being torn changes nothing of what a request can add.
LEMMA TearsPot ==
  ASSUME NEW b \in Slot, NEW a, Tears(a, b), NEW o
  PROVE  Pot(a, o) = Pot(b, o) /\ (Rated(b) => Rated(a))
BY TearsFields DEF Pot, Rated

\* The quotas are integers, and those of the settings are natural numbers.
LEMMA QuotasType ==
  ASSUME TypeOK
  PROVE  Quotas \subseteq Int /\ settings.limits.org \in Quotas
         /\ settings.limits.org \in Nat
<1>1. ASSUME NEW s \in traffic.settings
      PROVE  s.limits.org \in Nat
  BY TrafficOK DEF TypeOK, Limits
<1>2. ASSUME NEW b \in traffic.plans
      PROVE  b.limits.org \in Int
  <2>1. b \in PlanBody
    BY TrafficOK DEF TypeOK
  <2>2. QED
    BY <2>1 DEF PlanBody
<1>3. QED
  BY <1>1, <1>2 DEF Quotas, TypeOK

\* What is pending, as a number.
LEMMA PendingType ==
  ASSUME GInv, OInv, NEW o \in Org
  PROVE  /\ Pots(o) \in [Request -> Nat]
         /\ Pending(o) \in Nat /\ Pending(o) <= Slack /\ Slack \in Nat
<1>1. \A q \in Request : Pot(req[q], o) \in Nat /\ Pot(req[q], o) <= MaxFacts
  BY PotType DEF GInv, TypeOK, OInv
<1>2. Pots(o) \in [Request -> Nat] /\ \A q \in Request : Pots(o)[q] <= MaxFacts
  BY <1>1 DEF Pots
<1>3. IsFiniteSet(Request) /\ MaxFacts \in Nat
  BY TrafficOK
<1>4. Pending(o) \in Nat
  BY <1>2, <1>3, CellsFinite DEF Pending
<1>5. Pending(o) <= Slack
  BY <1>2, <1>3, CellsBound DEF Pending, Slack
<1>6. Cardinality(Request) \in Nat
  BY <1>3, FS_CardinalityType
<1>7. Slack \in Nat
  BY <1>3, <1>6 DEF Slack
<1>8. QED
  BY <1>2, <1>4, <1>5, <1>7

\* A limit that is handed out is one of the quotas.
LEMMA ResolvedQuota ==
  ASSUME TypeOK, OInv, NEW o \in Org
  PROVE  ResolveLimits(o).limits.org \in Quotas
BY QuotasType DEF ResolveLimits, OInv

\* A plan is stored with one of the quotas.
LEMMA PlanQuotas ==
  ASSUME GInv, OInv, NEW q \in Request, Step(q), NEW o \in Org, plans'[o] # None
  PROVE  plans'[o].limits.org \in Quotas
<1>0. plans \in [Org -> Plan \cup {None}]
  BY DEF GInv, TypeOK
<1>1. CASE plans'[o] = plans[o]
  BY <1>1 DEF OInv
<1>2. CASE plans'[o] # plans[o] /\ UpsertWrite(q)
  <2>1. PICK b \in traffic.plans, active \in BOOLEAN :
          plans' = [plans EXCEPT ![req[q].org] = [active |-> active, limits |-> b.limits]]
    BY <1>2 DEF UpsertWrite
  <2>2. plans'[o] = [active |-> active, limits |-> b.limits]
    BY <1>0, <1>2, <2>1
  <2>3. QED
    BY <2>2 DEF Quotas
<1>3. CASE plans'[o] # plans[o] /\ DeletePlan(q)
  BY <1>0, <1>3 DEF DeletePlan
<1>4. QED
  BY <1>1, <1>2, <1>3, Frames

\* Every step of a request leaves it rated.
LEMMA RatedStep ==
  ASSUME GInv, OInv, NEW q \in Request, Step(q)
  PROVE  Rated(req'[q])
<1>0. /\ Rated(req[q]) /\ TypeOK /\ MaxFacts \in Nat
      /\ \A r : r.pc \notin Reading \cup {"insert"} => Rated(r)
  BY TrafficOK DEF GInv, OInv, Rated
<1>1. CASE ReadOwnPlan(q)
  BY <1>0, <1>1, ReadOwnPlanFields DEF Reading
<1>2. CASE ReadPlan(q)
  <2>1. /\ req'[q].pc \in {"answer", "count_users"}
        /\ req'[q].limits.org \in Quotas
    BY <1>0, <1>2, ReadPlanFields, ResolvedQuota
  <2>2. QED
    BY <2>1 DEF Rated
<1>3. CASE CountUsers(q) \/ CountOrg(q) \/ CountUser(q)
  <2>1. /\ req'[q].pc \in Reading /\ req[q].pc \in Reading
        /\ req'[q].limits = req[q].limits
    BY <1>3, CountUsersFields, CountOrgFields, CountUserFields DEF Reading
  <2>2. QED
    BY <1>0, <2>1 DEF Rated, Reading
<1>4. ASSUME Reply(q) PROVE Rated(req'[q])
  <2>1. req'[q].pc = "idle"
    BY <1>4, IdleFields DEF Reply, GInv, TypeOK
  <2>2. QED
    BY <1>0, <2>1 DEF Reading
<1>5. CASE ReadDailyUsage(q)
  BY <1>0, <1>4, <1>5, ReadDailyUsageFields DEF Reading
<1>6. CASE Extract(q) \/ ImportStart(q)
  BY <1>0, <1>6, FillFields DEF Rated, Reading
<1>7. CASE Insert(q)
  <2>1. CASE Reply(q)
    BY <1>4, <2>1
  <2>2. CASE ~Reply(q)
    <3>1. req'[q].pc = "insert" /\ req'[q].left = req[q].left - 1
          /\ req[q].pc = "insert" /\ req[q].left \in Nat
      BY <1>7, <2>2, InsertFields
    <3>2. req[q].left <= MaxFacts
      BY <1>0, <3>1 DEF Rated
    <3>3. QED
      BY <1>0, <3>1, <3>2 DEF Rated, Reading
  <2>3. QED
    BY <2>1, <2>2
<1>8. CASE ~Tells(q)
  BY <1>0, <1>8, QuietStep
<1>9. QED
  BY <1>1, <1>2, <1>3, <1>5, <1>6, <1>7, <1>8 DEF Tells

\* The kind of traffic, and with it the set of quotas, is fixed.
LEMMA TrafficStays == [Next]_vars => UNCHANGED traffic
<1>1. ASSUME NEW q \in Request, Step(q) PROVE UNCHANGED traffic
  BY <1>1, Frames
<1>2. QED
  BY <1>1 DEF Next, Tick, Midnight, Restart, Arrive, vars, world

\* Every step leaves every request rated.
LEMMA RatedAll ==
  ASSUME GInv, OInv, [Next]_vars
  PROVE  \A p \in Request : Rated(req'[p])
<1>0. /\ req \in [Request -> Slot] /\ \A p \in Request : Rated(req[p]) /\ req[p] \in Slot
  BY DEF GInv, TypeOK, OInv
<1>2. ASSUME NEW p \in Request, Tears(req'[p], req[p]) PROVE Rated(req'[p])
  BY <1>0, <1>2, TearsPot
<1>3. ASSUME NEW r, r.pc \in {"idle", "auth"} PROVE Rated(r)
  BY <1>3 DEF Rated, Reading
<1>4. ASSUME NEW q \in Request, Step(q)
      PROVE  \A p \in Request : Rated(req'[p])
  <2>1. PICK c \in Slot : To(q, c)
    BY <1>4, StepLands DEF Lands
  <2>2. QED
    BY <1>0, <1>2, <1>4, <2>1, ToSlots, RatedStep
<1>5. ASSUME NEW q \in Request, Arrive(q)
      PROVE  \A p \in Request : Rated(req'[p])
  <2>1. PICK c \in Slot : req' = [req EXCEPT ![q] = c] /\ c.pc = "auth"
    BY <1>5, ArriveSlot DEF GInv
  <2>2. QED
    BY <1>0, <1>3, <2>1
<1>6. CASE Tick \/ UNCHANGED vars
  BY <1>0, <1>6 DEF Tick, vars
<1>7. CASE Midnight
  BY <1>2, <1>7 DEF Midnight, Tears
<1>8. CASE Restart
  BY <1>3, <1>8, IdleFields DEF Restart
<1>9. QED
  BY <1>4, <1>5, <1>6, <1>7, <1>8 DEF Next

\* What is pending after the request of q has moved.
LEMMA PendingMoves ==
  ASSUME GInv, OInv, [Next]_vars, NEW o \in Org, NEW q \in Request,
         \A p \in Request : p # q => Pot(req'[p], o) = Pot(req[p], o)
  PROVE  /\ Pending(o)' = Pending(o) - Pot(req[q], o) + Pot(req'[q], o)
         /\ Pending(o)' \in Nat /\ Pending(o)' <= Slack
         /\ Pot(req[q], o) \in Nat /\ Pot(req'[q], o) \in Nat
<1>0. Pots(o) \in [Request -> Nat] /\ IsFiniteSet(Request) /\ MaxFacts \in Nat
  BY PendingType, TrafficOK
<1>1. \A p \in Request : Pot(req'[p], o) \in Nat /\ Pot(req'[p], o) <= MaxFacts
  <2>1. \A p \in Request : req'[p] \in Slot /\ Rated(req'[p])
    BY SlotsStep, RatedAll
  <2>2. QED
    BY <2>1, PotType
<1> DEFINE f == Pots(o)
           g == [p \in Request |-> Pot(req'[p], o)]
<1>2. g \in [Request -> Nat] /\ \A p \in Request : g[p] <= MaxFacts
  BY <1>1
<1>3. /\ \A p \in Request : p # q => g[p] = f[p]
      /\ f[q] = Pot(req[q], o) /\ g[q] = Pot(req'[q], o)
  BY DEF Pots
<1>4. Pending(o)' = Cardinality(Cells(g, Request)) /\ Pending(o) = Cardinality(Cells(f, Request))
  BY DEF Pending, Pots, Cells
<1> HIDE DEF f, g
<1>5. Cardinality(Cells(g, Request)) = Cardinality(Cells(f, Request)) - f[q] + g[q]
  BY <1>0, <1>2, <1>3, CellsUpdate DEF f
<1>6. Cardinality(Cells(g, Request)) <= Slack
  BY <1>0, <1>2, CellsBound DEF Slack
<1>7. Cardinality(Cells(g, Request)) \in Nat
  BY <1>0, <1>2, CellsFinite
<1>8. f[q] \in Nat /\ g[q] \in Nat
  BY <1>0, <1>2 DEF f
<1>9. QED
  BY <1>3, <1>4, <1>5, <1>6, <1>7, <1>8

\* The facts of an organisation after one user's count has changed.
LEMMA TotalMoves ==
  ASSUME TypeOK, NEW x \in Org, NEW u \in User, NEW n \in Nat,
         memories' = [memories EXCEPT ![x][u] = n], NEW o \in Org
  PROVE  Total(o)' = IF o = x THEN Total(o) - memories[o][u] + n ELSE Total(o)
<1>0. memories \in [Org -> [User -> Nat]] /\ IsFiniteSet(User)
  BY TrafficOK DEF TypeOK
<1> DEFINE f == memories[o]
           g == memories'[o]
<1>1. f \in [User -> Nat]
  BY <1>0
<1>2. g = IF o = x THEN [f EXCEPT ![u] = n] ELSE f
  BY <1>0
<1>3. Total(o) = Cardinality(Cells(f, User)) /\ Total(o)' = Cardinality(Cells(g, User))
  BY DEF Total, Facts, Cells
<1> HIDE DEF f, g
<1>4. CASE o # x
  BY <1>2, <1>3, <1>4
<1>5. CASE o = x
  <2>1. /\ g \in [User -> Nat] /\ g[u] = n
        /\ \A y \in User : y # u => g[y] = f[y]
    BY <1>1, <1>2, <1>5
  <2>2. Cardinality(Cells(g, User)) = Cardinality(Cells(f, User)) - f[u] + g[u]
    BY <1>0, <1>1, <2>1, CellsUpdate
  <2>3. QED
    BY <1>3, <1>5, <2>1, <2>2 DEF f
<1>6. QED
  BY <1>4, <1>5

\* The facts of an organisation after a step: one more by an insert, otherwise
\* no more than before.
LEMMA TotalStep ==
  ASSUME GInv, NEW q \in Request, Step(q), NEW o \in Org
  PROVE  /\ Total(o) \in Nat /\ Total(o)' \in Nat
         /\ imported[o] \in Nat /\ imported'[o] \in Nat
         /\ \/ Total(o)' <= Total(o) /\ imported'[o] = imported[o]
            \/ /\ Insert(q) /\ ~Reply(q) /\ req[q].org = o
               /\ Total(o)' = Total(o) + 1
               /\ imported'[o] = IF req[q].name = "import_user_data"
                                 THEN imported[o] + 1 ELSE imported[o]
<1>0. Total(o) \in Nat /\ imported[o] \in Nat /\ TypeOK
  BY CountsNat DEF GInv, TypeOK
<1>1. Total(o)' \in Nat /\ imported'[o] \in Nat
  <2>1. TypeOK'
    BY GInvStep DEF GInv, Next
  <2>2. /\ memories' \in [Org -> [User -> Nat]] /\ imported' \in [Org -> Nat]
        /\ IsFiniteSet(User)
    BY <2>1, TrafficOK DEF TypeOK
  <2>3. Total(o)' = Cardinality(Cells(memories'[o], User))
    BY DEF Total, Facts, Cells
  <2>4. QED
    BY <2>2, <2>3, CellsFinite
<1>2. CASE UNCHANGED <<memories, imported>>
  <2>1. Total(o)' = Total(o)
    BY <1>2 DEF Total, Facts
  <2>2. QED
    BY <1>0, <1>1, <1>2, <2>1
<1>3. ASSUME NEW n \in Nat, req[q].org \in Org, req[q].user \in User,
             n <= memories[req[q].org][req[q].user],
             memories' = [memories EXCEPT ![req[q].org][req[q].user] = n],
             UNCHANGED imported
      PROVE  Total(o)' <= Total(o) /\ imported'[o] = imported[o]
  <2>1. Total(o)' = IF o = req[q].org THEN Total(o) - memories[o][req[q].user] + n
                    ELSE Total(o)
    BY <1>0, <1>3, TotalMoves
  <2>2. memories[req[q].org][req[q].user] \in Nat
    BY <1>0, <1>3 DEF TypeOK
  <2>3. QED
    BY <1>0, <1>3, <2>1, <2>2
<1>4. CASE ImportStart(q) \/ Remove(q)
  <2>1. /\ req[q].org \in Org /\ req[q].user \in User /\ UNCHANGED imported
        /\ memories[req[q].org][req[q].user] \in Nat
    <3>1. req[q].pc \in {"import", "remove"}
      BY <1>4 DEF ImportStart, Remove
    <3>2. req[q].org \in Org /\ req[q].user \in User
      BY <3>1 DEF GInv, TypeOK, Named
    <3>3. memories[req[q].org][req[q].user] \in Nat
      BY <1>0, <3>2 DEF TypeOK
    <3>4. UNCHANGED imported
      BY <1>4 DEF ImportStart, Remove, ghosts
    <3>5. QED
      BY <3>2, <3>3, <3>4
  <2>2. \/ UNCHANGED memories
        \/ \E n \in 0 .. memories[req[q].org][req[q].user] :
             memories' = [memories EXCEPT ![req[q].org][req[q].user] = n]
    <3>1. CASE ImportStart(q)
      BY <2>1, <3>1 DEF ImportStart
    <3>2. CASE Remove(q)
      <4>1. PICK n \in Kept(req[q].name, memories[req[q].org][req[q].user]) :
              memories' = [memories EXCEPT ![req[q].org][req[q].user] = n]
        BY <3>2 DEF Remove
      <4>2. req[q].name \in Removers
        BY <3>2 DEF Remove, GInv, Named
      <4>3. n \in 0 .. memories[req[q].org][req[q].user]
        BY <2>1, <4>1, <4>2 DEF Kept, Removers
      <4>4. QED
        BY <4>1, <4>3
    <3>3. QED
      BY <1>4, <3>1, <3>2
  <2>3. CASE UNCHANGED memories
    BY <1>2, <2>1, <2>3
  <2>4. ASSUME NEW n \in 0 .. memories[req[q].org][req[q].user],
               memories' = [memories EXCEPT ![req[q].org][req[q].user] = n]
        PROVE  Total(o)' <= Total(o) /\ imported'[o] = imported[o]
    <3>1. n \in Nat /\ n <= memories[req[q].org][req[q].user]
      BY <2>1
    <3>2. QED
      BY <1>3, <2>1, <2>4, <3>1
  <2>5. QED
    BY <1>0, <1>1, <2>2, <2>3, <2>4
<1>5. CASE Insert(q)
  <2>1. CASE UNCHANGED <<memories, imported>>
    BY <1>2, <2>1
  <2>2. CASE ~UNCHANGED <<memories, imported>>
    <3> DEFINE r == req[q]
               n == memories[r.org][r.user] + 1
    <3>1. /\ r.org \in Org /\ r.user \in User
          /\ memories' = [memories EXCEPT ![r.org][r.user] = @ + 1]
          /\ imported' = IF r.name = "import_user_data"
                         THEN [imported EXCEPT ![r.org] = @ + 1] ELSE imported
          /\ req'[q].pc = "insert"
      BY <1>5, <2>2, InsertFields
    <3>2. memories[r.org][r.user] \in Nat /\ n \in Nat
      BY <1>0, <3>1 DEF TypeOK
    <3>3. memories' = [memories EXCEPT ![r.org][r.user] = n]
      BY <1>0, <3>1 DEF TypeOK
    <3> HIDE DEF n
    <3>4. Total(o)' = IF o = r.org THEN Total(o) - memories[o][r.user] + n ELSE Total(o)
      <4> DEFINE x == r.org
                 u == r.user
      <4> HIDE DEF x, u
      <4>1. x \in Org /\ u \in User /\ memories' = [memories EXCEPT ![x][u] = n]
        BY <3>1, <3>3 DEF x, u
      <4>2. Total(o)' = IF o = x THEN Total(o) - memories[o][u] + n ELSE Total(o)
        BY <1>0, <3>2, <4>1, TotalMoves
      <4>3. QED
        BY <4>2 DEF x, u
    <3>5. imported'[o] = IF o = r.org /\ r.name = "import_user_data"
                         THEN imported[o] + 1 ELSE imported[o]
      BY <1>0, <3>1 DEF TypeOK
    <3>6. ~Reply(q)
      BY <3>1, IdleFields DEF Reply, GInv, TypeOK
    <3>7. CASE o = r.org
      <4>1. Total(o)' = Total(o) + 1
        BY <1>0, <3>2, <3>4, <3>7 DEF n
      <4>2. QED
        BY <1>0, <1>1, <1>5, <3>5, <3>6, <3>7, <4>1
    <3>8. CASE o # r.org
      BY <1>0, <1>1, <3>4, <3>5, <3>8
    <3>9. QED
      BY <3>7, <3>8
  <2>3. QED
    BY <2>1, <2>2
<1>6. QED
  BY <1>2, <1>4, <1>5, Frames DEF ImportStart, Remove

\* The quota check lets a request pass only below the limit.
LEMMA PassesBelow ==
  ASSUME NEW lim, NEW use, lim.org \in Nat, lim.org # 0, use.total \in Nat,
         MemoryViolations(lim, use, 1) = {}
  PROVE  use.total < lim.org
<1>1. "MemoriesPerOrg" \notin {kind \in {"MemoriesPerOrg"} : Over(lim.org, use.total, 1)}
  BY DEF MemoryViolations
<1>2. ~Over(lim.org, use.total, 1)
  BY <1>1
<1>3. QED
  BY <1>2 DEF Over

\* No step gives a request more to add, except the count that finds room.
LEMMA PotFalls ==
  ASSUME GInv, OInv, Enforced, NEW q \in Request, Step(q), NEW o \in Org
  PROVE  \/ Pot(req'[q], o) <= Pot(req[q], o)
         \/ CountOrg(q) /\ req[q].org = o /\ Total(o) < req[q].limits.org
<1>0. /\ req[q] \in Slot /\ Rated(req[q]) /\ MaxFacts \in Nat /\ TypeOK
      /\ req[q].use \in Use /\ req[q].limits.org \in Nat /\ req[q].use.total \in Nat
  BY TrafficOK DEF GInv, TypeOK, OInv, Slot, Limits, Use
<1>1. Pot(req[q], o) \in Nat
  BY <1>0, PotType
<1>2. ASSUME req'[q].pc \notin {"count_user", "daily_usage", "extract", "insert"}
      PROVE  Pot(req'[q], o) <= Pot(req[q], o)
  BY <1>1, <1>2, NoPot
<1>3. ASSUME Reply(q) PROVE Pot(req'[q], o) <= Pot(req[q], o)
  <2>1. req'[q].pc = "idle"
    BY <1>3, IdleFields DEF Reply, GInv, TypeOK
  <2>2. QED
    BY <1>2, <2>1
<1>4. CASE ReadOwnPlan(q) \/ ReadPlan(q) \/ CountUsers(q)
  BY <1>2, <1>4, ReadOwnPlanFields, ReadPlanFields, CountUsersFields
<1>5. CASE CountOrg(q)
  <2>1. /\ req'[q].pc \in {"daily_usage", "count_user"} /\ req'[q].name = req[q].name
        /\ req'[q].org = req[q].org /\ req'[q].limits = req[q].limits
        /\ req'[q].use = [req[q].use EXCEPT !.total = Total(req[q].org)]
    BY <1>5, CountOrgFields DEF SameCaller
  <2>2. req'[q].use.total = Total(req[q].org)
    <3> DEFINE n == Total(req[q].org)
    <3> HIDE DEF n
    <3>1. req'[q].use = [req[q].use EXCEPT !.total = n]
      BY <2>1 DEF n
    <3>2. req'[q].use.total = n
      BY <1>0, <3>1 DEF Use
    <3>3. QED
      BY <3>2 DEF n
  <2>3. CASE req[q].org = o /\ Total(o) < req[q].limits.org
    BY <1>5, <2>3
  <2>4. CASE ~(req[q].org = o /\ Total(o) < req[q].limits.org)
    <3>1. Pot(req'[q], o) = 0
      BY <2>1, <2>2, <2>4 DEF Pot
    <3>2. QED
      BY <1>1, <3>1
  <2>5. QED
    BY <2>3, <2>4
<1>6. CASE CountUser(q)
  <2>1. /\ req'[q].pc = "daily_usage" /\ req[q].pc = "count_user"
        /\ req'[q].name = req[q].name
        /\ req'[q].org = req[q].org /\ req'[q].limits = req[q].limits
        /\ req'[q].use = [req[q].use EXCEPT !.mine = memories[req[q].org][req[q].user]]
    BY <1>6, CountUserFields DEF SameCaller
  <2>2. req'[q].use.total = req[q].use.total
    BY <1>0, <2>1 DEF Use
  <2>3. Pot(req'[q], o) = Pot(req[q], o)
    BY <2>1, <2>2 DEF Pot
  <2>4. QED
    BY <1>1, <2>3
<1>7. CASE ReadDailyUsage(q)
  <2>1. CASE /\ SameCaller(q) /\ req[q].name = "add_memory" /\ req'[q].pc = "extract"
             /\ settings.enabled => MemoryViolations(req[q].limits, FullUse(q), 1) = {}
    <3>1. settings.enabled
      BY <1>0 DEF Enforced, TypeOK
    <3>2. req[q].pc = "daily_usage" /\ req[q].org \in Org
      BY <1>7, ReadDailyUsageFields
    <3>3. FullUse(q).total = req[q].use.total
      BY <1>0, <3>2, DayType DEF FullUse
    <3>4. req[q].limits.org # 0
      BY <1>0, <3>2 DEF Rated, Reading, Enforced
    <3>5. req[q].use.total < req[q].limits.org
      BY <1>0, <2>1, <3>1, <3>3, <3>4, PassesBelow
    <3>6. Pot(req[q], o) = Pot(req'[q], o)
      BY <2>1, <3>2, <3>5 DEF Pot, SameCaller
    <3>7. QED
      BY <1>1, <3>6
  <2>2. QED
    BY <1>2, <1>3, <1>7, <2>1, ReadDailyUsageFields
<1>8. CASE Extract(q)
  <2>1. /\ req'[q].pc = "insert" /\ req[q].pc = "extract" /\ req'[q].name = req[q].name
        /\ req'[q].org = req[q].org /\ req'[q].left \in 0 .. MaxFacts
    BY <1>8, FillFields
  <2>2. QED
    BY <1>0, <2>1 DEF Pot
<1>9. CASE ImportStart(q)
  <2>1. req'[q].name = "import_user_data"
    BY <1>9, FillFields
  <2>2. Pot(req'[q], o) = 0
    BY <2>1 DEF Pot
  <2>3. QED
    BY <1>1, <2>2
<1>10. CASE Insert(q)
  <2>1. CASE Reply(q)
    BY <1>3, <2>1
  <2>2. CASE ~Reply(q)
    <3>1. /\ req'[q].pc = "insert" /\ req[q].pc = "insert" /\ req'[q].name = req[q].name
          /\ req'[q].org = req[q].org /\ req'[q].left = req[q].left - 1
          /\ req[q].left \in Nat
      BY <1>10, <2>2, InsertFields
    <3>2. QED
      BY <3>1 DEF Pot
  <2>3. QED
    BY <2>1, <2>2
<1>11. CASE ~Tells(q)
  BY <1>2, <1>11, QuietStep DEF Reading
<1>12. QED
  BY <1>4, <1>5, <1>6, <1>7, <1>8, <1>9, <1>10, <1>11 DEF Tells

\* The numbers of the bound, before and after a step of q.
LEMMA RoomNumbers ==
  ASSUME GInv, OInv, NEW q \in Request, Step(q), NEW o \in Org
  PROVE  /\ Total(o) \in Nat /\ Total(o)' \in Nat
         /\ imported[o] \in Nat /\ imported'[o] \in Nat
         /\ Pending(o) \in Nat /\ Pending(o)' \in Nat /\ Slack \in Nat
         /\ Pending(o)' <= Slack
         /\ Pot(req[q], o) \in Nat /\ Pot(req'[q], o) \in Nat
         /\ Pending(o)' = Pending(o) - Pot(req[q], o) + Pot(req'[q], o)
         /\ Quotas \subseteq Int
<1>1. [Next]_vars
  BY DEF Next
<1>2. \A p \in Request : p # q => Pot(req'[p], o) = Pot(req[p], o)
  <2>1. PICK c \in Slot : To(q, c)
    BY StepLands DEF Lands
  <2>2. \A p \in Request : p # q => Tears(req'[p], req[p]) /\ req[p] \in Slot
    BY <2>1, ToSlots DEF GInv, TypeOK
  <2>3. QED
    BY <2>2, TearsPot
<1>3. QED
  BY <1>1, <1>2, PendingMoves, PendingType, TotalStep, QuotasType DEF GInv

\* A step of a request leaves room for what is pending.
LEMMA RoomStep ==
  ASSUME GInv, OInv, Enforced, NEW q \in Request, Step(q), NEW o \in Org
  PROVE  \E m \in Quotas : Total(o)' + Pending(o)' <= m - 1 + Slack + imported'[o]
<1> DEFINE T == Total(o)
           U == Total(o)'
           P == Pending(o)
           R == Pending(o)'
           I == imported[o]
           J == imported'[o]
           a == Pot(req[q], o)
           b == Pot(req'[q], o)
<1>0. /\ T \in Nat /\ U \in Nat /\ P \in Nat /\ R \in Nat /\ I \in Nat /\ J \in Nat
      /\ a \in Nat /\ b \in Nat /\ Slack \in Nat /\ R <= Slack /\ R = P - a + b
      /\ Quotas \subseteq Int
  BY RoomNumbers
<1>1. PICK m \in Quotas : T + P <= m - 1 + Slack + I
  BY DEF OInv, Room
<1>2. CASE CountOrg(q) /\ req[q].org = o /\ Total(o) < req[q].limits.org
  <2>1. req[q].pc = "count_org" /\ UNCHANGED <<memories, imported>>
    BY <1>2 DEF CountOrg, tables, ghosts
  <2>2. U = T
    BY <2>1 DEF Total, Facts
  <2>3. req[q].limits.org \in Quotas
    BY <2>1 DEF OInv, Rated, Reading
  <2> DEFINE n == req[q].limits.org
  <2>4. n \in Int /\ T < n
    BY <1>0, <1>2, <2>3
  <2> HIDE DEF T, U, P, R, I, J, a, b, n
  <2>5. U + R <= n - 1 + Slack + J
    BY <1>0, <2>2, <2>4
  <2>6. QED
    BY <2>3, <2>5 DEF n, U, R, J
<1>3. CASE b <= a /\ U <= T /\ J = I
  <2> HIDE DEF T, U, P, R, I, J, a, b
  <2>1. m \in Int
    BY <1>0
  <2>2. U + R <= m - 1 + Slack + J
    BY <1>0, <1>1, <1>3, <2>1
  <2>3. QED
    BY <2>2 DEF U, R, J
<1>4. CASE /\ Insert(q) /\ ~Reply(q) /\ req[q].org = o /\ U = T + 1
           /\ J = IF req[q].name = "import_user_data" THEN I + 1 ELSE I
  <2>1. /\ req'[q].pc = "insert" /\ req[q].pc = "insert" /\ req'[q].name = req[q].name
        /\ req'[q].org = req[q].org /\ req'[q].left = req[q].left - 1
        /\ req[q].left \in Nat
    BY <1>4, InsertFields
  <2>2. req[q].name \in {"add_memory", "import_user_data"}
    BY <2>1 DEF GInv, Named
  <2>3. \/ req[q].name = "import_user_data" /\ a = 0 /\ b = 0
        \/ req[q].name = "add_memory" /\ b = a - 1
    BY <1>4, <2>1, <2>2 DEF Pot
  <2>4. m \in Int
    BY <1>0
  <2> HIDE DEF T, U, P, R, I, J, a, b
  <2>5. U + R <= m - 1 + Slack + J
    BY <1>0, <1>1, <1>4, <2>3, <2>4
  <2>6. QED
    BY <2>5 DEF U, R, J
<1>5. QED
  BY <1>2, <1>3, <1>4, PotFalls, TotalStep

\* At the start nothing is stored and nothing is pending.
LEMMA OInvInit == Init => OInv
<1> SUFFICES ASSUME Init PROVE OInv
  OBVIOUS
<1>0. GInv /\ TypeOK
  BY GInvInit DEF GInv
<1>1. \A q \in Request : req[q] = Idle
  BY DEF Init
<1>2. \A q \in Request : Rated(req[q])
  BY <1>1, IdleFields DEF Rated, Reading
<1>3. \A o \in Org : plans[o] = None
  BY DEF Init
<1>4. ASSUME Enforced, NEW o \in Org PROVE Room(o)
  <2>1. settings.limits.org \in Quotas /\ settings.limits.org \in Nat \ {0}
    BY <1>0, <1>4, QuotasType DEF Enforced
  <2>2. Facts(o) = {}
    BY DEF Init, Facts
  <2>3. Total(o) = 0
    BY <2>2, FS_EmptySet DEF Total
  <2>4. Cells(Pots(o), Request) = {}
    BY <1>1, IdleFields DEF Cells, Pots, Pot
  <2>5. Pending(o) = 0
    BY <2>4, FS_EmptySet DEF Pending
  <2>6. imported[o] = 0
    BY DEF Init
  <2>7. Slack \in Nat
    BY TrafficOK, FS_CardinalityType DEF Slack
  <2>8. Total(o) + Pending(o) <= settings.limits.org - 1 + Slack + imported[o]
    BY <2>1, <2>3, <2>5, <2>6, <2>7
  <2>9. QED
    BY <2>1, <2>8 DEF Room
<1>5. QED
  BY <1>2, <1>3, <1>4 DEF OInv

\* Every step leaves room for what is pending.
LEMMA OInvStep == GInv /\ OInv /\ [Next]_vars => OInv'
<1> SUFFICES ASSUME GInv, OInv, [Next]_vars PROVE OInv'
  OBVIOUS
<1>0. traffic' = traffic /\ Quotas' = Quotas /\ (Enforced' <=> Enforced)
  BY TrafficStays DEF Quotas, Enforced
<1>1. \A p \in Request : Rated(req[p])'
  BY <1>0, RatedAll DEF Rated, Reading
<1>2. \A o \in Org : plans'[o] # None => plans'[o].limits.org \in Quotas
  <2>1. ASSUME NEW q \in Request, Step(q)
        PROVE  \A o \in Org : plans'[o] # None => plans'[o].limits.org \in Quotas
    BY <2>1, PlanQuotas
  <2>2. CASE UNCHANGED plans
    BY <2>2 DEF OInv
  <2>3. CASE (\E q \in Request : Arrive(q)) \/ Tick \/ Midnight \/ Restart \/ UNCHANGED vars
    BY <2>2, <2>3 DEF Arrive, Tick, Midnight, Restart, vars, tables
  <2>4. QED
    BY <2>1, <2>3 DEF Next
<1>3. ASSUME Enforced, NEW o \in Org
      PROVE  \E m \in Quotas : Total(o)' + Pending(o)' <= m - 1 + Slack + imported'[o]
  <2>0. /\ Total(o) \in Nat /\ Pending(o) \in Nat /\ imported[o] \in Nat
        /\ Slack \in Nat /\ Quotas \subseteq Int
    BY CountsNat, PendingType, QuotasType DEF GInv, TypeOK
  <2>1. PICK m \in Quotas : Total(o) + Pending(o) <= m - 1 + Slack + imported[o]
    BY <1>3 DEF OInv, Room
  <2>2. ASSUME NEW q \in Request, Step(q)
        PROVE  \E n \in Quotas : Total(o)' + Pending(o)' <= n - 1 + Slack + imported'[o]
    BY <1>3, <2>2, RoomStep
  <2>3. ASSUME UNCHANGED <<memories, imported>>, Pending(o)' = Pending(o)
        PROVE  \E n \in Quotas : Total(o)' + Pending(o)' <= n - 1 + Slack + imported'[o]
    <3>1. Total(o)' = Total(o)
      BY <2>3 DEF Total, Facts
    <3>2. QED
      BY <2>1, <2>3, <3>1
  <2>4. ASSUME NEW q \in Request, Arrive(q)
        PROVE  Pending(o)' = Pending(o)
    <3>1. PICK c \in Slot : req' = [req EXCEPT ![q] = c] /\ c.pc = "auth"
      BY <2>4, ArriveSlot DEF GInv
    <3>2. req[q].pc = "idle"
      BY <2>4 DEF Arrive
    <3>3. \A p \in Request : Pot(req'[p], o) = Pot(req[p], o)
      BY <3>1, <3>2, NoPot DEF GInv, TypeOK
    <3>4. QED
      BY <3>3 DEF Pending, Pots
  <2>5. ASSUME Midnight PROVE Pending(o)' = Pending(o)
    <3>1. \A p \in Request : Tears(req'[p], req[p]) /\ req[p] \in Slot
      BY <2>5 DEF Midnight, Tears, GInv, TypeOK
    <3>2. \A p \in Request : Pot(req'[p], o) = Pot(req[p], o)
      BY <3>1, TearsPot
    <3>3. QED
      BY <3>2 DEF Pending, Pots
  <2>6. CASE Restart
    <3>1. Total(o)' = Total(o) /\ imported'[o] = imported[o]
      BY <2>6 DEF Restart, tables, Total, Facts
    <3>2. \A p \in Request : Pot(req'[p], o) = 0
      BY <2>6, IdleFields DEF Restart, Pot
    <3>3. Cells(Pots(o), Request)' = {}
      BY <3>2 DEF Cells, Pots
    <3>4. Pending(o)' = 0
      BY <3>3, FS_EmptySet DEF Pending
    <3>5. m \in Int
      BY <2>0
    <3>6. Total(o)' + Pending(o)' <= m - 1 + Slack + imported'[o]
      BY <2>0, <2>1, <3>1, <3>4, <3>5
    <3>7. QED
      BY <3>6
  <2>7. CASE Tick \/ UNCHANGED vars
    <3>1. UNCHANGED <<memories, imported, req>>
      BY <2>7 DEF Tick, vars, tables, ghosts
    <3>2. Pending(o)' = Pending(o)
      BY <3>1 DEF Pending, Pots
    <3>3. QED
      BY <2>3, <3>1, <3>2
  <2>8. CASE (\E q \in Request : Arrive(q)) \/ Midnight
    <3>1. UNCHANGED <<memories, imported>>
      BY <2>8 DEF Arrive, Midnight, tables, ghosts
    <3>2. QED
      BY <2>3, <2>4, <2>5, <2>8, <3>1
  <2>9. QED
    BY <2>2, <2>6, <2>7, <2>8 DEF Next
<1>4. Enforced' => \A o \in Org : Room(o)'
  BY <1>0, <1>3 DEF Room, Slack
<1>5. QED
  BY <1>0, <1>1, <1>2, <1>4 DEF OInv

\* For every number of requests in flight and every traffic: as long as quotas
\* are enforced, an organisation exceeds a memory quota by no more than what
\* each request in flight adds after its own check, and by the imports.
THEOREM OvershootIsBounded == Spec => []OvershootBounded
<1>1. GInv /\ OInv => OvershootBounded
  <2> SUFFICES ASSUME GInv, OInv, Enforced, NEW o \in Org
               PROVE  \E limit \in Quotas :
                        Total(o) <= limit - 1 + Cardinality(Request) * MaxFacts + imported[o]
    BY DEF OvershootBounded, Enforced
  <2>1. PICK m \in Quotas : Total(o) + Pending(o) <= m - 1 + Slack + imported[o]
    BY DEF OInv, Room
  <2>2. /\ Total(o) \in Nat /\ Pending(o) \in Nat /\ imported[o] \in Nat
        /\ Slack \in Nat /\ m \in Int
    BY CountsNat, PendingType, QuotasType DEF GInv, TypeOK
  <2>3. Total(o) <= m - 1 + Slack + imported[o]
    BY <2>1, <2>2
  <2>4. QED
    BY <2>3 DEF Slack
<1>2. QED
  BY <1>1, GInvInit, GInvStep, OInvInit, OInvStep, PTL DEF Spec

-----------------------------------------------------------------------------
(* Reports tell the truth.                                                 *)

\* The limits in force under plan pl and settings st.
Lim(pl, st) ==
  IF pl = None THEN st.limits ELSE IF pl.active THEN pl.limits ELSE st.limits

\* What report r has read so far is what its organisation has: plan pl, the
\* facts mem of its users, us provider calls this day, under settings st.
Steady(r, pl, mem, us, st) ==
  /\ r.name = "get_org_plan" =>
       /\ r.pc \in {"get_org_plan", "answer"} => r.plan = pl
       /\ r.pc = "answer" => r.limits = Lim(pl, st) /\ (r.source = "org_plan" => pl # None)
  /\ r.name = "get_org_quotas" =>
       /\ r.pc \in Reading \cup {"answer"} => r.limits = Lim(pl, st)
       /\ r.pc \in {"count_user", "daily_usage", "answer"} =>
            r.use.total = Cardinality(Cells(mem, User))
       /\ r.pc \in {"daily_usage", "answer"} =>
            r.use.mine = IF r.user = None THEN None ELSE mem[r.user]
       /\ r.pc = "answer" =>
            /\ r.use.requests = IF st.usage_store THEN us ELSE 0
            /\ r.says = IF st.enabled THEN Violations(r.limits, r.use) ELSE {}

\* The inductive invariant: a report that no change has torn is steady.
RInv ==
  \A q \in Request :
    LET o == req[q].org IN
    req[q].name \in Reports /\ ~req[q].torn
      => Steady(req[q], plans[o], memories[o], used[o], settings)

\* The tables in the terms of Steady.
LEMMA SteadyTerms ==
  ASSUME TypeOK, NEW o \in Org
  PROVE  /\ ResolveLimits(o).limits = Lim(plans[o], settings)
         /\ ResolveLimits(o).source = "org_plan" => plans[o] # None
         /\ Total(o) = Cardinality(Cells(memories[o], User))
         /\ DailyUsage(o).requests = IF settings.usage_store THEN used[o] ELSE 0
         /\ InForce(o) = Lim(plans[o], settings)
         /\ Lim(plans[o], settings) \in Limits
<1>1. /\ ResolveLimits(o).limits = Lim(plans[o], settings)
      /\ ResolveLimits(o).source = "org_plan" => plans[o] # None
      /\ InForce(o) = Lim(plans[o], settings)
  BY DEF ResolveLimits, Lim, InForce
<1>2. Total(o) = Cardinality(Cells(memories[o], User))
  BY DEF Total, Facts, Cells
<1>3. DailyUsage(o).requests = IF settings.usage_store THEN used[o] ELSE 0
  BY DEF DailyUsage
<1>4. QED
  BY <1>1, <1>2, <1>3, LimitsType

\* A change of what the quotas of an organisation are about tears its reports:
\* one that is not torn has still the tables it reads from.
LEMMA TornByChange ==
  ASSUME GInv, NEW q \in Request, NEW c \in Slot, Change(req[q].org, [req EXCEPT ![q] = c]),
         NEW p \in Request, req'[p].name \in Reports, ~req'[p].torn
  PROVE  req'[p].org # req[q].org
<1> DEFINE next == [req EXCEPT ![q] = c]
<1>1. next[p] \in Slot
  BY DEF GInv, TypeOK
<1>2. req'[p] = IF next[p].org = req[q].org /\ next[p].name \in Reports
                THEN [next[p] EXCEPT !.torn = TRUE] ELSE next[p]
  BY DEF Change
<1> HIDE DEF next
<1>3. CASE next[p].org = req[q].org /\ next[p].name \in Reports
  <2>1. req'[p].torn = TRUE
    BY <1>1, <1>2, <1>3 DEF Slot
  <2>2. QED
    BY <2>1
<1>4. CASE ~(next[p].org = req[q].org /\ next[p].name \in Reports)
  BY <1>2, <1>4
<1>5. QED
  BY <1>3, <1>4

\* The steps that change such a table do it by such a change, for the
\* organisation of their request.
LEMMA ChangesTear ==
  ASSUME GInv, NEW q \in Request, Step(q)
  PROVE  \/ UNCHANGED <<plans, memories, used>>
         \/ /\ \E c \in Slot : Change(req[q].org, [req EXCEPT ![q] = c])
            /\ req[q].org \in Org
            /\ \A o \in Org : o # req[q].org =>
                 /\ plans'[o] = plans[o] /\ memories'[o] = memories[o]
                 /\ used'[o] = used[o]
<1> DEFINE r == req[q]
<1>0. /\ r \in Slot /\ req \in [Request -> Slot] /\ plans \in [Org -> Plan \cup {None}]
      /\ memories \in [Org -> [User -> Nat]] /\ used \in [Org -> Nat]
  BY DEF GInv, TypeOK
<1>1. CASE UpsertWrite(q) /\ ~UNCHANGED plans
  <2> DEFINE c == [r EXCEPT !.pc = "reread_plan"]
  <2>1. PICK v : /\ plans' = [plans EXCEPT ![r.org] = v]
                 /\ Change(r.org, [req EXCEPT ![q].pc = "reread_plan"])
                 /\ UNCHANGED <<memories, used>>
    BY <1>1 DEF UpsertWrite
  <2>2. c \in Slot /\ r.org \in Org
    BY <1>0, <1>1 DEF Slot, Pc, UpsertWrite, GInv, TypeOK
  <2>3. Change(r.org, [req EXCEPT ![q] = c])
    BY <2>1
  <2>4. QED
    BY <1>0, <2>1, <2>2, <2>3
<1>2. CASE DeletePlan(q) \/ Remove(q)
  <2>1. /\ Change(r.org, [req EXCEPT ![q] = Idle]) /\ UNCHANGED used
        /\ r.org \in Org
    BY <1>2 DEF DeletePlan, Remove, GInv, TypeOK
  <2>2. \A o \in Org : o # r.org => plans'[o] = plans[o] /\ memories'[o] = memories[o]
    BY <1>0, <1>2 DEF DeletePlan, Remove
  <2>3. QED
    BY <2>1, <2>2, IdleSlot
<1>3. CASE Extract(q) \/ ImportStart(q)
  <2>1. PICK n \in 0 .. MaxFacts :
          Change(r.org, [req EXCEPT ![q].pc = "insert", ![q].left = n])
    BY <1>3 DEF Extract, ImportStart
  <2> DEFINE c == [r EXCEPT !.pc = "insert", !.left = n]
  <2>2. c \in Slot /\ r.org \in Org
    <3>1. n \in Nat /\ "insert" \in Pc
      BY TrafficOK DEF Pc
    <3>2. c \in Slot
      BY <1>0, <3>1 DEF Slot
    <3>3. r.pc # "idle"
      BY <1>3 DEF Extract, ImportStart
    <3>4. r.org \in Org
      BY <3>3 DEF GInv, TypeOK
    <3>5. QED
      BY <3>2, <3>4
  <2>3. [req EXCEPT ![q].pc = "insert", ![q].left = n] = [req EXCEPT ![q] = c]
    BY <1>0 DEF Slot
  <2>4. Change(r.org, [req EXCEPT ![q] = c])
    BY <2>1, <2>3
  <2>5. \A o \in Org : o # r.org => /\ plans'[o] = plans[o] /\ memories'[o] = memories[o]
                                    /\ used'[o] = used[o]
    BY <1>0, <1>3 DEF Extract, ImportStart
  <2>6. QED
    BY <2>2, <2>4, <2>5
<1>4. CASE Insert(q) /\ ~UNCHANGED memories
  <2> DEFINE n == r.left - 1
             c == [r EXCEPT !.left = n]
  <2>1. /\ r.left > 0 /\ Change(r.org, [req EXCEPT ![q].left = @ - 1])
        /\ memories' = [memories EXCEPT ![r.org][r.user] = @ + 1]
        /\ UNCHANGED <<plans, used>> /\ r.pc = "insert"
    BY <1>4 DEF Insert
  <2>2. n \in Nat /\ r.org \in Org
    <3>1. r.left \in Nat
      BY <1>0 DEF Slot
    <3>2. r.org \in Org
      BY <2>1 DEF GInv, TypeOK
    <3>3. QED
      BY <2>1, <3>1, <3>2
  <2>3. [req EXCEPT ![q].left = @ - 1] = [req EXCEPT ![q] = c]
    BY <1>0 DEF Slot
  <2> HIDE DEF n
  <2>4. c \in Slot
    BY <1>0, <2>2 DEF Slot
  <2>5. Change(r.org, [req EXCEPT ![q] = c])
    BY <2>1, <2>3
  <2> HIDE DEF c
  <2>6. \A o \in Org : o # r.org => memories'[o] = memories[o]
    BY <1>0, <2>1
  <2>7. QED
    BY <2>1, <2>2, <2>4, <2>5, <2>6
<1>5. CASE Insert(q) /\ UNCHANGED memories
  BY <1>5 DEF Insert
<1>6. CASE UpsertWrite(q) /\ UNCHANGED plans
  BY <1>6 DEF UpsertWrite
<1>7. QED
  BY <1>1, <1>2, <1>3, <1>4, <1>5, <1>6, Frames

\* The tables of a report that is not torn after a step.
LEMMA TablesStand ==
  ASSUME GInv, NEW q \in Request, Step(q), NEW p \in Request,
         req'[p].name \in Reports, ~req'[p].torn, req'[p].org \in Org
  PROVE  LET o == req'[p].org IN
         /\ plans'[o] = plans[o] /\ memories'[o] = memories[o] /\ used'[o] = used[o]
         /\ settings' = settings
BY ChangesTear, TornByChange, Frames

\* A reading step leaves its own report steady.
LEMMA OwnReport ==
  ASSUME GInv, RInv, NEW q \in Request, Step(q),
         req'[q].name \in Reports, ~req'[q].torn, req'[q].org \in Org
  PROVE  LET o == req'[q].org IN
         Steady(req'[q], plans[o], memories[o], used[o], settings)
<1> DEFINE r == req[q]
           s == req'[q]
           o == s.org
           pl == plans[o]
           mem == memories[o]
           us == used[o]
<1>0. r \in Slot /\ r.use \in Use /\ Named(r) /\ TypeOK
  BY DEF GInv, TypeOK, Slot
<1>1. ASSUME SameCaller(q)
      PROVE  /\ s.org = r.org /\ s.name = r.name /\ s.user = r.user
             /\ Steady(r, pl, mem, us, settings)
  BY <1>1 DEF SameCaller, RInv
<1>2. CASE ReadOwnPlan(q)
  <2>1. /\ SameCaller(q) /\ r.pc = "read_own_plan" /\ s.pc = "get_org_plan"
        /\ s.plan = plans[r.org]
    BY <1>2, ReadOwnPlanFields
  <2>2. r.name = "get_org_plan"
    BY <1>0, <2>1 DEF Named
  <2>3. QED
    BY <1>1, <2>1, <2>2 DEF Steady
<1>3. CASE ReadPlan(q)
  <2>1. /\ SameCaller(q) /\ r.pc = "get_org_plan" /\ r.org \in Org
        /\ s.pc = IF r.name = "get_org_plan" THEN "answer" ELSE "count_users"
        /\ s.limits = ResolveLimits(r.org).limits
        /\ s.source = ResolveLimits(r.org).source
        /\ s.plan = r.plan
    BY <1>3, ReadPlanFields
  <2>2. /\ s.limits = Lim(pl, settings) /\ (s.source = "org_plan" => pl # None)
    BY <1>0, <1>1, <2>1, SteadyTerms
  <2>3. r.name = "get_org_plan" => s.plan = pl
    BY <1>1, <2>1 DEF Steady
  <2> HIDE DEF pl, mem, us
  <2>4. Steady(s, pl, mem, us, settings)
    BY <1>1, <2>1, <2>2, <2>3 DEF Steady, Reading
  <2>5. QED
    BY <2>4 DEF pl, mem, us
<1>4. CASE CountUsers(q)
  <2>1. /\ SameCaller(q) /\ r.pc = "count_users" /\ s.pc = "count_org"
        /\ s.limits = r.limits
    BY <1>4, CountUsersFields
  <2>2. r.name # "get_org_plan"
    BY <1>0, <2>1 DEF Named
  <2>3. QED
    BY <1>1, <2>1, <2>2 DEF Steady, Reading
<1>5. CASE CountOrg(q)
  <2>1. /\ SameCaller(q) /\ r.pc = "count_org" /\ r.org \in Org
        /\ s.pc = IF r.user = None THEN "daily_usage" ELSE "count_user"
        /\ s.limits = r.limits
        /\ s.use = [r.use EXCEPT !.total = Total(r.org)]
    BY <1>5, CountOrgFields
  <2>2. r.name # "get_org_plan" /\ r.use.mine = None
    BY <1>0, <2>1 DEF Named
  <2>3. s.use.total = Cardinality(Cells(mem, User)) /\ s.use.mine = None
    <3> DEFINE n == Total(r.org)
    <3>1. s.use = [r.use EXCEPT !.total = n]
      BY <2>1
    <3>2. n = Cardinality(Cells(mem, User))
      BY <1>0, <1>1, <2>1, SteadyTerms
    <3> HIDE DEF n
    <3>3. s.use.total = n /\ s.use.mine = r.use.mine
      BY <1>0, <3>1 DEF Use
    <3>4. QED
      BY <2>2, <3>2, <3>3
  <2> HIDE DEF pl, mem, us
  <2>4. s.limits = Lim(pl, settings) \/ s.name # "get_org_quotas"
    BY <1>1, <2>1 DEF Steady, Reading
  <2>5. Steady(s, pl, mem, us, settings)
    BY <1>1, <2>1, <2>2, <2>3, <2>4 DEF Steady, Reading
  <2>6. QED
    BY <2>5 DEF pl, mem, us
<1>6. CASE CountUser(q)
  <2>1. /\ SameCaller(q) /\ r.pc = "count_user" /\ s.pc = "daily_usage"
        /\ s.limits = r.limits /\ r.user \in User
        /\ s.use = [r.use EXCEPT !.mine = memories[r.org][r.user]]
    BY <1>6, CountUserFields
  <2>2. r.name # "get_org_plan" /\ r.user # None
    BY <1>0, <2>1, NoneApart DEF Named
  <2>3. s.use.mine = mem[s.user] /\ s.use.total = r.use.total
    <3> DEFINE n == memories[r.org][r.user]
    <3>1. s.use = [r.use EXCEPT !.mine = n]
      BY <2>1
    <3>2. n = mem[s.user]
      BY <1>1, <2>1
    <3> HIDE DEF n
    <3>3. s.use.mine = n /\ s.use.total = r.use.total
      BY <1>0, <3>1 DEF Use
    <3>4. QED
      BY <3>2, <3>3
  <2> HIDE DEF pl, mem, us
  <2>4. \/ s.name # "get_org_quotas"
        \/ s.limits = Lim(pl, settings) /\ s.use.total = Cardinality(Cells(mem, User))
    BY <1>1, <2>1, <2>3 DEF Steady, Reading
  <2>5. Steady(s, pl, mem, us, settings)
    BY <1>1, <2>1, <2>2, <2>3, <2>4 DEF Steady, Reading
  <2>6. QED
    BY <2>5 DEF pl, mem, us
<1>7. ASSUME Reply(q) PROVE FALSE
  <2>1. s = Idle
    BY <1>7 DEF Reply, GInv, TypeOK
  <2>2. QED
    BY <2>1, IdleFields, NoneApart DEF Reports, Route
<1>8. CASE ReadDailyUsage(q)
  <2>1. /\ SameCaller(q) /\ r.name = "get_org_quotas" /\ r.pc = "daily_usage"
        /\ r.org \in Org /\ s.pc = "answer" /\ s.limits = r.limits
        /\ s.use = FullUse(q)
        /\ s.says = IF settings.enabled THEN Violations(r.limits, FullUse(q)) ELSE {}
    BY <1>7, <1>8, ReadDailyUsageFields DEF SameCaller, Reports
  <2>2. /\ s.use.total = r.use.total /\ s.use.mine = r.use.mine
        /\ s.use.requests = IF settings.usage_store THEN us ELSE 0
    <3>1. /\ FullUse(q).total = r.use.total /\ FullUse(q).mine = r.use.mine
          /\ FullUse(q).requests = DailyUsage(r.org).requests
      BY <1>0, <2>1, DayType DEF FullUse
    <3>2. QED
      BY <1>0, <1>1, <2>1, <3>1, SteadyTerms
  <2> HIDE DEF pl, mem, us
  <2>3. /\ s.limits = Lim(pl, settings) /\ s.use.total = Cardinality(Cells(mem, User))
        /\ s.use.mine = IF r.user = None THEN None ELSE mem[r.user]
    BY <1>1, <2>1, <2>2 DEF Steady, Reading
  <2>4. Steady(s, pl, mem, us, settings)
    BY <1>1, <2>1, <2>2, <2>3 DEF Steady, Reading
  <2>5. QED
    BY <2>4 DEF pl, mem, us
<1>9. CASE Extract(q) \/ ImportStart(q) \/ Insert(q)
  <2>1. req[q].pc \in {"extract", "import", "insert"} /\ s.name = r.name
    BY <1>7, <1>9, FillFields, InsertFields
  <2>2. r.name \in {"add_memory", "import_user_data"}
    BY <1>0, <2>1 DEF Named
  <2>3. QED
    BY <2>1, <2>2 DEF Reports
<1>10. CASE ~Tells(q)
  BY <1>10, QuietStep DEF Steady, Reading
<1>11. QED
  BY <1>2, <1>3, <1>4, <1>5, <1>6, <1>8, <1>9, <1>10 DEF Tells

\* Every step leaves the reports that it does not tear steady.
LEMMA RInvStep == GInv /\ RInv /\ [Next]_vars => RInv'
<1> SUFFICES ASSUME GInv, RInv, [Next]_vars, NEW p \in Request,
                    req'[p].name \in Reports, ~req'[p].torn
             PROVE  LET o == req'[p].org IN
                    Steady(req'[p], plans'[o], memories'[o], used'[o], settings')
  BY DEF RInv
<1> DEFINE o == req'[p].org
<1>0. req \in [Request -> Slot] /\ req[p] \in Slot
  BY DEF GInv, TypeOK
<1>1. req'[p].pc # "idle" /\ o \in Org
  <2>1. Named(req'[p])
    BY SlotsStep
  <2>2. req'[p].name # None
    BY NoneApart DEF Reports, Route
  <2>3. QED
    BY <2>1, <2>2 DEF Named, Early
<1>2. ASSUME Tears(req'[p], req[p])
      PROVE  /\ req'[p] = req[p]
             /\ Steady(req'[p], plans[o], memories[o], used[o], settings)
  <2>1. req'[p] = req[p]
    <3>1. CASE req'[p] = [req[p] EXCEPT !.torn = TRUE]
      <4>1. req'[p].torn = TRUE
        BY <1>0, <3>1 DEF Slot
      <4>2. QED
        BY <4>1
    <3>2. QED
      BY <1>2, <3>1 DEF Tears
  <2>2. QED
    BY <2>1 DEF RInv
<1>3. ASSUME NEW q \in Request, Step(q)
      PROVE  Steady(req'[p], plans'[o], memories'[o], used'[o], settings')
  <2>1. /\ plans'[o] = plans[o] /\ memories'[o] = memories[o] /\ used'[o] = used[o]
        /\ settings' = settings
    BY <1>1, <1>3, TablesStand
  <2>2. Steady(req'[p], plans[o], memories[o], used[o], settings)
    <3>1. CASE p = q
      BY <1>1, <1>3, <3>1, OwnReport
    <3>2. CASE p # q
      <4>1. PICK c \in Slot : To(q, c)
        BY <1>3, StepLands DEF Lands
      <4>2. Tears(req'[p], req[p])
        BY <1>0, <3>2, <4>1, ToSlots
      <4>3. QED
        BY <1>2, <4>2
    <3>3. QED
      BY <3>1, <3>2
  <2>3. QED
    BY <2>1, <2>2
<1>4. ASSUME NEW q \in Request, Arrive(q)
      PROVE  Steady(req'[p], plans'[o], memories'[o], used'[o], settings')
  <2>1. PICK c \in Slot : req' = [req EXCEPT ![q] = c] /\ c.name = None
    BY <1>4, ArriveSlot DEF GInv
  <2>2. p # q
    BY <1>0, <2>1, NoneApart DEF Reports, Route
  <2>3. req'[p] = req[p]
    BY <1>0, <2>1, <2>2
  <2>4. UNCHANGED <<plans, memories, used, settings>>
    BY <1>4 DEF Arrive, tables, world
  <2>5. QED
    BY <1>2, <2>3, <2>4 DEF Tears
<1>5. CASE Tick \/ UNCHANGED vars
  <2>1. UNCHANGED <<plans, memories, used, settings, req>>
    BY <1>5 DEF Tick, vars, tables
  <2>2. QED
    BY <1>2, <2>1 DEF Tears
<1>6. CASE Midnight
  <2>1. req'[p] = IF req[p].name \in Reports THEN [req[p] EXCEPT !.torn = TRUE]
                  ELSE req[p]
    BY <1>6 DEF Midnight
  <2>2. req'[p].torn = TRUE \/ req'[p].name \notin Reports
    BY <1>0, <2>1 DEF Slot
  <2>3. QED
    BY <2>2
<1>7. CASE Restart
  <2>1. req'[p] = Idle
    BY <1>7 DEF Restart
  <2>2. QED
    BY <1>1, <2>1, IdleFields
<1>8. QED
  BY <1>3, <1>4, <1>5, <1>6, <1>7 DEF Next

\* What the checks say about numbers.
LEMMA SaysBeyond ==
  ASSUME NEW lim \in Limits, NEW use \in Use
  PROVE  /\ "MemoriesPerOrg" \in Violations(lim, use) <=> Beyond(lim.org, use.total)
         /\ "DailyProviderRequests" \in Violations(lim, use)
              <=> Beyond(lim.requests, use.requests)
         /\ use.mine # None =>
              ("MemoriesPerUser" \in Violations(lim, use) <=> Beyond(lim.user, use.mine))
         /\ Violations(lim, use) \ {"DailyProviderRequests", "DailyProviderTokens"} # {}
              => MemoryViolations(lim, use, 1) # {}
<1>0. /\ lim.org \in Nat /\ lim.user \in Nat /\ lim.users \in Nat /\ lim.requests \in Nat
      /\ use.total \in Nat /\ use.mine \in Nat \cup {None} /\ use.requests \in Nat
      /\ use.users \in Nat
  BY DEF Limits, Use
<1>1. ASSUME NEW l \in Nat, NEW n \in Nat
      PROVE  /\ Over(l, n, 0) <=> Beyond(l, n)
             /\ Over(l, n, 0) => Over(l, n, 1)
  BY DEF Over, Beyond
<1>2. "MemoriesPerOrg" \in Violations(lim, use) <=> Over(lim.org, use.total, 0)
  BY DEF Violations, MemoryViolations, ProviderViolations
<1>3. "DailyProviderRequests" \in Violations(lim, use) <=> Over(lim.requests, use.requests, 0)
  BY DEF Violations, MemoryViolations, ProviderViolations
<1>4. use.mine # None =>
        ("MemoriesPerUser" \in Violations(lim, use) <=> Over(lim.user, use.mine, 0))
  BY DEF Violations, MemoryViolations, ProviderViolations
<1>5. ASSUME NEW k \in MemoryViolations(lim, use, 0)
      PROVE  k \in MemoryViolations(lim, use, 1)
  <2>1. CASE k = "MemoriesPerOrg"
    <3>1. Over(lim.org, use.total, 0)
      BY <2>1 DEF MemoryViolations
    <3>2. Over(lim.org, use.total, 1)
      BY <1>0, <1>1, <3>1
    <3>3. QED
      BY <2>1, <3>2 DEF MemoryViolations
  <2>2. CASE k = "MemoriesPerUser"
    <3>1. use.mine # None /\ Over(lim.user, use.mine, 0)
      BY <2>2 DEF MemoryViolations
    <3>2. Over(lim.user, use.mine, 1)
      BY <1>0, <1>1, <3>1
    <3>3. QED
      BY <2>2, <3>1, <3>2 DEF MemoryViolations
  <2>3. CASE k = "UsersPerOrg"
    BY <2>3 DEF MemoryViolations
  <2>4. QED
    BY <2>1, <2>2, <2>3 DEF MemoryViolations
<1>6. Violations(lim, use) \ {"DailyProviderRequests", "DailyProviderTokens"}
        \subseteq MemoryViolations(lim, use, 0)
  BY DEF Violations, ProviderViolations
<1>7. QED
  BY <1>0, <1>1, <1>2, <1>3, <1>4, <1>5, <1>6

\* A steady report that is ready to be sent tells the truth.
LEMMA SteadyTrue == GInv /\ RInv => ReportTrue
<1> SUFFICES ASSUME GInv, RInv, NEW q \in Request, req[q].pc = "answer", ~req[q].torn
             PROVE  LET r == req[q]
                        lim == InForce(r.org)
                    IN
      /\ r.name = "get_org_quotas" /\ settings.enabled =>
           /\ "MemoriesPerOrg" \in r.says <=> Beyond(lim.org, Total(r.org))
           /\ "DailyProviderRequests" \in r.says <=>
                settings.usage_store /\ Beyond(lim.requests, used[r.org])
           /\ r.user # None =>
                /\ "MemoriesPerUser" \in r.says <=>
                     Beyond(lim.user, memories[r.org][r.user])
                /\ r.says \ {"DailyProviderRequests", "DailyProviderTokens"} # {} =>
                     MemoryViolations(lim, [r.use EXCEPT !.total = Total(r.org)], 1) # {}
      /\ r.name = "get_org_plan" =>
           /\ r.source = "org_plan" => r.plan # None
           /\ r.limits = lim /\ r.plan = plans[r.org]
  BY DEF ReportTrue
<1> DEFINE r == req[q]
           o == r.org
           lim == InForce(o)
<1>1. /\ r \in Slot /\ o \in Org /\ r.use \in Use /\ TypeOK /\ r.name \in Reports
      /\ r.user \in User \cup {None}
  BY DEF GInv, TypeOK, Slot, Named
<1>2. Steady(r, plans[o], memories[o], used[o], settings)
  BY <1>1 DEF RInv
<1>3. /\ lim = Lim(plans[o], settings) /\ lim \in Limits
      /\ Total(o) = Cardinality(Cells(memories[o], User))
  BY <1>1, SteadyTerms
<1>4. ASSUME r.name = "get_org_plan"
      PROVE  /\ r.source = "org_plan" => r.plan # None
             /\ r.limits = lim /\ r.plan = plans[o]
  BY <1>2, <1>3, <1>4 DEF Steady
<1>5. ASSUME r.name = "get_org_quotas", settings.enabled
      PROVE  /\ "MemoriesPerOrg" \in r.says <=> Beyond(lim.org, Total(o))
             /\ "DailyProviderRequests" \in r.says <=>
                  settings.usage_store /\ Beyond(lim.requests, used[o])
             /\ r.user # None =>
                  /\ "MemoriesPerUser" \in r.says <=> Beyond(lim.user, memories[o][r.user])
                  /\ r.says \ {"DailyProviderRequests", "DailyProviderTokens"} # {} =>
                       MemoryViolations(lim, [r.use EXCEPT !.total = Total(o)], 1) # {}
  <2>1. /\ r.limits = lim /\ r.use.total = Total(o)
        /\ r.use.mine = IF r.user = None THEN None ELSE memories[o][r.user]
        /\ r.use.requests = IF settings.usage_store THEN used[o] ELSE 0
        /\ r.says = Violations(lim, r.use)
    BY <1>2, <1>3, <1>5 DEF Steady, Reading
  <2> HIDE DEF lim
  <2>2. /\ "MemoriesPerOrg" \in r.says <=> Beyond(lim.org, r.use.total)
        /\ "DailyProviderRequests" \in r.says <=> Beyond(lim.requests, r.use.requests)
        /\ r.use.mine # None =>
              ("MemoriesPerUser" \in r.says <=> Beyond(lim.user, r.use.mine))
        /\ r.says \ {"DailyProviderRequests", "DailyProviderTokens"} # {}
              => MemoryViolations(lim, r.use, 1) # {}
    BY <1>1, <1>3, <2>1, SaysBeyond
  <2>3. [r.use EXCEPT !.total = Total(o)] = r.use
    <3>1. [r.use EXCEPT !.total = r.use.total] = r.use
      BY <1>1 DEF Use
    <3>2. QED
      BY <2>1, <3>1
  <2>4. r.user # None => r.use.mine # None /\ r.use.mine = memories[o][r.user]
    <3>1. r.user # None => memories[o][r.user] \in Nat
      BY <1>1 DEF TypeOK
    <3>2. QED
      BY <2>1, <3>1, NoneApart
  <2>5. Beyond(lim.requests, r.use.requests)
          <=> settings.usage_store /\ Beyond(lim.requests, used[o])
    <3>1. lim.requests \in Nat
      BY <1>3 DEF Limits
    <3>2. ~Beyond(lim.requests, 0)
      BY <3>1 DEF Beyond
    <3>3. QED
      BY <2>1, <3>2
  <2>6. QED
    BY <2>1, <2>2, <2>3, <2>4, <2>5
<1>6. QED
  BY <1>4, <1>5

\* For every interleaving of requests: a quota or plan report during which
\* nothing of its organisation changed names a limit exactly when the
\* organisation is beyond it, and shows the plan next to the limits in force.
THEOREM ReportsAreTrue == Spec => []ReportTrue
<1>1. Init => RInv
  <2> SUFFICES ASSUME Init, NEW q \in Request PROVE req[q].name \notin Reports
    BY DEF RInv
  <2>1. req[q] = Idle
    BY DEF Init
  <2>2. QED
    BY <2>1, IdleFields, NoneApart DEF Reports, Route
<1>2. QED
  BY <1>1, GInvInit, GInvStep, RInvStep, SteadyTrue, PTL DEF Spec
====
