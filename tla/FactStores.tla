----------------------------- MODULE FactStores -----------------------------
(***************************************************************************)
(* The three implementations of the FactStore port.  The mock keeps a map   *)
(* of facts and a set of deleted ids; SQLite and Postgres keep one table    *)
(* with a deleted_at column.  Each operator maps a table and the arguments  *)
(* of a call to its answer and the table afterwards.                        *)
(***************************************************************************)
EXTENDS StoreCommon

MockFacts == [facts |-> {}, deleted |-> {}]
SqlFacts  == {}

(***************************************************************************)
(* MockFactStore                                                            *)
(***************************************************************************)
MockHas(t, id) == \E f \in t.facts : f.id = id

MockInsertFact(t, tenant, fact) ==
  IF ~Owns(tenant, fact) THEN Result(Err("Forbidden"), t)
  ELSE IF MockHas(t, fact.id) THEN Result(Err("Conflict"), t)
  ELSE Result(Ok(fact), [facts |-> t.facts \cup {fact}, deleted |-> t.deleted])

MockUpdateFact(t, tenant, fact) ==
  LET old == {f \in t.facts : f.id = fact.id}
  IN  IF ~Owns(tenant, fact) THEN Result(Err("Forbidden"), t)
      ELSE IF old = {} THEN Result(Err("NotFound"), t)
      ELSE IF \E f \in old : ~Owns(tenant, f) THEN Result(Err("Forbidden"), t)
      ELSE Result(Ok(fact), [facts |-> (t.facts \ old) \cup {fact}, deleted |-> t.deleted])

MockActive(t) == {f \in t.facts : f.id \notin t.deleted}

MockGetFact(t, tenant, id) ==
  Ok({f \in MockActive(t) : f.id = id /\ Owns(tenant, f)})

MockSearchFacts(t, q) ==
  Ok(Newest({f \in t.facts :
               /\ Owns(q.tenant, f)
               /\ q.deleted \/ f.id \notin t.deleted
               /\ \A types \in q.types : f.type \in types
               /\ \A text \in q.text : TextContains(f.text, text)
               /\ IsAfterCursor(f, q.cursor)},
            PageFetchLimit(q.limit)))

MockSoftDeleteFact(t, tenant, id) ==
  LET old == {f \in t.facts : f.id = id}
  IN  IF old = {} THEN Result(Err("NotFound"), t)
      ELSE IF \E f \in old : ~Owns(tenant, f) THEN Result(Err("Forbidden"), t)
      ELSE Result(Ok("deleted"), [facts |-> t.facts, deleted |-> t.deleted \cup {id}])

MockDeleteUserData(t, tenant) ==
  LET left == Others(t.facts, tenant)
  IN  Result(Ok("deleted"),
             [facts |-> left, deleted |-> t.deleted \cap {f.id : f \in left}])

MockDeleteFactsOlderThan(t, tenant, cutoff, dry) ==
  LET ids == {f.id : f \in {g \in MockActive(t) : Owns(tenant, g) /\ g.time < cutoff}}
  IN  IF dry THEN Result(Ok([count |-> Cardinality(ids), ids |-> {}]), t)
             ELSE Result(Ok([count |-> Cardinality(ids), ids |-> ids]),
                         [facts |-> t.facts, deleted |-> t.deleted \cup ids])

MockCountFactsByOrg(t, org) == Cardinality({f \in MockActive(t) : f.org = org})

MockCountFactsByUser(t, tenant) == Cardinality({f \in MockActive(t) : Owns(tenant, f)})

MockCountUsersByOrg(t, org) == Cardinality({f.user : f \in {g \in MockActive(t) : g.org = org}})

\* One row per user of the organisation: its active facts and the newest of them.
UserSummaries(facts, org) ==
  LET mine == {f \in facts : f.org = org}
      Of(u) == {f \in mine : f.user = u}
  IN  {[id    |-> u,
        count |-> Cardinality(Of(u)),
        time  |-> CHOOSE m \in {f.time : f \in Of(u)} : \A f \in Of(u) : f.time <= m]
         : u \in {f.user : f \in mine}}

MockListUsersByOrg(t, q) ==
  Ok(Newest({u \in UserSummaries(MockActive(t), q.org) : IsAfterCursor(u, q.cursor)},
            PageFetchLimit(q.limit)))

(***************************************************************************)
(* SqliteFactStore.  A row is a fact with the flag `deleted'.               *)
(***************************************************************************)
Stored(fact) == [fact |-> fact, deleted |-> FALSE]

Active(t) == {r.fact : r \in {s \in t : ~s.deleted}}

\* The rows an UPDATE ... WHERE id, org, user AND deleted_at IS NULL affects.
SqlTarget(t, tenant, id) ==
  {r \in t : r.fact.id = id /\ Owns(tenant, r.fact) /\ ~r.deleted}

SqliteInsertFact(t, tenant, fact) ==
  IF ~Owns(tenant, fact) THEN Result(Err("Forbidden"), t)
  ELSE IF \E r \in t : r.fact.id = fact.id /\ Owns(tenant, r.fact)
       THEN Result(Err("Conflict"), t)
  ELSE IF \E r \in t : r.fact.id = fact.id
       THEN Result(Err("StorageError"), t)    \* the primary key
  ELSE Result(Ok(fact), t \cup {Stored(fact)})

SqliteUpdateFact(t, tenant, fact) ==
  LET rows == SqlTarget(t, tenant, fact.id)
  IN  IF ~Owns(tenant, fact) THEN Result(Err("Forbidden"), t)
      ELSE IF rows = {} THEN Result(Err("NotFound"), t)
      ELSE Result(Ok(fact), (t \ rows) \cup {Stored(fact)})

SqliteGetFact(t, tenant, id) ==
  Ok({f \in Active(t) : f.id = id /\ Owns(tenant, f)})

\* An empty list of memory types is no filter here; the mock finds nothing for it.
SqliteSearchFacts(t, q) ==
  Ok(Newest({f \in {r.fact : r \in {s \in t : q.deleted \/ ~s.deleted}} :
               /\ Owns(q.tenant, f)
               /\ \A types \in q.types : types = {} \/ f.type \in types
               /\ \A text \in q.text : SqliteLike(f.text, text)
               /\ PushSqliteCursor(f, q.cursor)},
            PageFetchLimit(q.limit)))

SqliteSoftDeleteFact(t, tenant, id) ==
  LET rows == SqlTarget(t, tenant, id)
  IN  IF rows = {} THEN Result(Err("NotFound"), t)
      ELSE Result(Ok("deleted"),
                  (t \ rows) \cup {[r EXCEPT !.deleted = TRUE] : r \in rows})

SqliteDeleteUserData(t, tenant) ==
  Result(Ok("deleted"), {r \in t : ~Owns(tenant, r.fact)})

\* Mutant: facts that are already deleted are counted again.
SqliteDeleteFactsOlderThanRecounts(t, tenant, cutoff, dry) ==
  LET rows == {r \in t : Owns(tenant, r.fact) /\ r.fact.time < cutoff}
      ids == {r.fact.id : r \in rows}
  IN  IF dry THEN Result(Ok([count |-> Cardinality(ids), ids |-> {}]), t)
      ELSE Result(Ok([count |-> Cardinality(ids), ids |-> ids]),
                  (t \ rows) \cup {[r EXCEPT !.deleted = TRUE] : r \in rows})

SqliteDeleteFactsOlderThan(t, tenant, cutoff, dry) ==
  LET rows == {r \in t : Owns(tenant, r.fact) /\ ~r.deleted /\ r.fact.time < cutoff}
      ids == {r.fact.id : r \in rows}
  IN  IF dry THEN Result(Ok([count |-> Cardinality(ids), ids |-> {}]), t)
      ELSE Result(Ok([count |-> Cardinality(rows), ids |-> ids]),
                  (t \ rows) \cup {[r EXCEPT !.deleted = TRUE] : r \in rows})

SqliteCountFactsByOrg(t, org) == Cardinality({f \in Active(t) : f.org = org})

SqliteCountFactsByUser(t, tenant) == Cardinality({f \in Active(t) : Owns(tenant, f)})

SqliteCountUsersByOrg(t, org) == Cardinality({f.user : f \in {g \in Active(t) : g.org = org}})

SqliteListUsersByOrg(t, q) ==
  Ok(Newest({u \in UserSummaries(Active(t), q.org) : PushSqliteCursor(u, q.cursor)},
            PageFetchLimit(q.limit)))

(***************************************************************************)
(* PostgresFactStore: the statements are SQLite's, with one difference.     *)
(***************************************************************************)
PostgresInsertFact(t, tenant, fact)  == SqliteInsertFact(t, tenant, fact)
PostgresUpdateFact(t, tenant, fact)  == SqliteUpdateFact(t, tenant, fact)
PostgresGetFact(t, tenant, id)       == SqliteGetFact(t, tenant, id)
PostgresSoftDeleteFact(t, tenant, id) == SqliteSoftDeleteFact(t, tenant, id)
PostgresDeleteUserData(t, tenant)    == SqliteDeleteUserData(t, tenant)
PostgresDeleteFactsOlderThan(t, tenant, cutoff, dry) ==
  SqliteDeleteFactsOlderThan(t, tenant, cutoff, dry)
PostgresCountFactsByOrg(t, org)      == SqliteCountFactsByOrg(t, org)
PostgresCountFactsByUser(t, tenant)  == SqliteCountFactsByUser(t, tenant)
PostgresCountUsersByOrg(t, org)      == SqliteCountUsersByOrg(t, org)

PostgresSearchFacts(t, q) ==
  Ok(Newest({f \in {r.fact : r \in {s \in t : q.deleted \/ ~s.deleted}} :
               /\ Owns(q.tenant, f)
               /\ \A types \in q.types : types = {} \/ f.type \in types
               /\ \A text \in q.text : PostgresLike(f.text, text)
               /\ PushPostgresCursor(f, q.cursor)},
            PageFetchLimit(q.limit)))

\* With a cursor the statement has four placeholders and is given five values:
\* the server refuses to bind it.
PostgresListUsersByOrg(t, q) ==
  IF q.cursor # NoCursor
  THEN Err("StorageError")
  ELSE Ok(Newest(UserSummaries(Active(t), q.org), PageFetchLimit(q.limit)))
=============================================================================
