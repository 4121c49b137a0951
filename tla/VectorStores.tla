---------------------------- MODULE VectorStores ----------------------------
(***************************************************************************)
(* The three implementations of the VectorStore port.  A point has an id of *)
(* its own (a fresh UUID for every upsert), the fact it stands for, the     *)
(* length of its embedding and its similarity to the query, `score'.        *)
(***************************************************************************)
EXTENDS StoreCommon

CONSTANT Dimensions    \* the configured length of embeddings

PointsOf(t, tenant, fact) == {p \in t : p.fact = fact /\ Owns(tenant, p)}

\* The n best points; equal scores come in any order, here by id.
Better(a, b) == a.score > b.score \/ (a.score = b.score /\ a.id > b.id)

Best(points, n) ==
  AtMost(Sorted(points, {p \in points \X points : Better(p[1], p[2])}), n)

(***************************************************************************)
(* MockVectorStore: a map from point ids, with no notion of dimensions.     *)
(***************************************************************************)
MockUpsertVector(t, tenant, p) ==
  IF Owns(tenant, p)
  THEN Result(Ok("stored"), {o \in t : o.id # p.id} \cup {p})
  ELSE Result(Err("Forbidden"), t)

MockSearchVectors(t, q) ==
  Ok(Best({p \in t : /\ Owns(q.tenant, p)
                     /\ \A types \in q.types : p.type \in types
                     /\ \A m \in q.metadata : p.metadata = m}, q.limit))

MockDeleteByFactId(t, tenant, fact) ==
  IF PointsOf(t, tenant, fact) = {}
  THEN Result(Err("NotFound"), t)
  ELSE Result(Ok("deleted"), t \ PointsOf(t, tenant, fact))

MockDeleteByUser(t, tenant) == Result(Ok("deleted"), Others(t, tenant))

(***************************************************************************)
(* QdrantVectorStore.  The upsert first deletes the fact's points.          *)
(***************************************************************************)

\* Mutant: the fact's earlier points are left in the collection.
QdrantUpsertVectorKeeps(t, tenant, p) ==
  IF Owns(tenant, p) /\ p.length = Dimensions
  THEN Result(Ok("stored"), {o \in t : o.id # p.id} \cup {p})
  ELSE Result(Err("ValidationError"), t)

QdrantUpsertVector(t, tenant, p) ==
  IF ~Owns(tenant, p) THEN Result(Err("Forbidden"), t)
  ELSE IF p.length # Dimensions THEN Result(Err("ValidationError"), t)
  ELSE Result(Ok("stored"),
              {o \in t \ PointsOf(t, tenant, p.fact) : o.id # p.id} \cup {p})

\* metadata_filter is ignored, and an empty list of types is no filter.
QdrantSearchVectors(t, q) ==
  IF q.length # Dimensions
  THEN Err("ValidationError")
  ELSE Ok(Best({p \in t : /\ Owns(q.tenant, p)
                          /\ \A types \in q.types : types = {} \/ p.type \in types},
               q.limit))

QdrantDeleteByFactId(t, tenant, fact) ==
  IF PointsOf(t, tenant, fact) = {}
  THEN Result(Err("NotFound"), t)
  ELSE Result(Ok("deleted"), t \ PointsOf(t, tenant, fact))

QdrantDeleteByUser(t, tenant) == Result(Ok("deleted"), Others(t, tenant))

(***************************************************************************)
(* LanceDbVectorStore.  The fact's rows are deleted before the record is    *)
(* turned into a batch, which is where its length is checked; the table has *)
(* no unique column.                                                        *)
(***************************************************************************)
LanceUpsertVector(t, tenant, p) ==
  LET left == t \ PointsOf(t, tenant, p.fact)
  IN  IF ~Owns(tenant, p) THEN Result(Err("Forbidden"), t)
      ELSE IF p.length # Dimensions THEN Result(Err("ValidationError"), left)
      ELSE Result(Ok("stored"), left \cup {p})

LanceSearchVectors(t, q) ==
  IF q.length # Dimensions
  THEN Err("ValidationError")
  ELSE Ok(Best({p \in t : /\ Owns(q.tenant, p)
                          /\ \A types \in q.types : types = {} \/ p.type \in types},
               q.limit))

LanceDeleteByFactId(t, tenant, fact) ==
  IF PointsOf(t, tenant, fact) = {}
  THEN Result(Err("NotFound"), t)
  ELSE Result(Ok("deleted"), t \ PointsOf(t, tenant, fact))

LanceDeleteByUser(t, tenant) == Result(Ok("deleted"), Others(t, tenant))
=============================================================================
