---------------------------- MODULE StoreCommon ----------------------------
(***************************************************************************)
(* What all stores of memcore-storage share: answers, tenants, keyword      *)
(* filters and keyset pagination in descending order.                       *)
(*                                                                         *)
(* A table is a set of rows with an `id' and a `time', the column it is     *)
(* sorted by.  Ids and times are numbers: only their order matters.  An     *)
(* optional value is a set of at most one element.                          *)
(***************************************************************************)
EXTENDS Integers, Sequences, FiniteSets, SequencesExt, Sorting

CONSTANT Wildcards    \* the texts that, read as a LIKE pattern, match any text

Ok(v)  == [ok |-> {v}, error |-> {}]
Err(e) == [ok |-> {}, error |-> {e}]

Value(answer) == CHOOSE v \in answer.ok : TRUE

\* What a call answers and the table it leaves behind.
Result(answer, table) == [answer |-> answer, table |-> table]

(***************************************************************************)
(* Tenants                                                                 *)
(***************************************************************************)
Owns(tenant, row) == row.org = tenant.org /\ row.user = tenant.user

Others(table, tenant) == {r \in table : ~Owns(tenant, r)}

(***************************************************************************)
(* Keyword filters.  The mocks look for the needle as it is; the databases  *)
(* put it into a pattern without escaping % and _.                          *)
(***************************************************************************)
TextContains(hay, needle) == hay = needle

SqliteLike(hay, needle) == hay = needle \/ needle \in Wildcards

PostgresLike(hay, needle) == hay = needle \/ needle \in Wildcards

(***************************************************************************)
(* Pagination.  A cursor is the sort value and the id of a page's last row. *)
(***************************************************************************)
NoCursor == <<>>

CursorOf(row) == <<row.time, row.id>>

PageFetchLimit(limit) == limit + 1

\* Mutant: the tie between equal sort values is dropped.
IsAfterCursorNoTie(row, cursor) == cursor # NoCursor => row.time < cursor[1]

IsAfterCursor(row, cursor) ==
  cursor # NoCursor => \/ row.time < cursor[1]
                       \/ row.time = cursor[1] /\ row.id < cursor[2]

\* Mutant: a row with the cursor's sort value is taken whatever its id.
PushSqliteCursorInclusive(row, cursor) == cursor # NoCursor => row.time <= cursor[1]

PushSqliteCursor(row, cursor) ==
  cursor # NoCursor => \/ row.time < cursor[1]
                       \/ row.time = cursor[1] /\ row.id < cursor[2]

PushPostgresCursor(row, cursor) ==
  cursor # NoCursor => \/ row.time < cursor[1]
                       \/ row.time = cursor[1] /\ row.id < cursor[2]

NewerRow(a, b) == a.time > b.time \/ (a.time = b.time /\ a.id > b.id)

\* ORDER BY time DESC, id DESC
NewestFirst(rows) == Sorted(rows, {p \in rows \X rows : NewerRow(p[1], p[2])})

\* ... LIMIT n
AtMost(s, n) == SubSeq(s, 1, IF Len(s) < n THEN Len(s) ELSE n)

Newest(rows, n) == AtMost(NewestFirst(rows), n)

\* Mutant: the cursor points at the extra row, which the next page then skips.
BuildPageOvershoot(items, limit) ==
  IF Len(items) > limit
  THEN [items |-> SubSeq(items, 1, limit), next |-> CursorOf(items[limit + 1])]
  ELSE [items |-> items, next |-> NoCursor]

BuildPage(items, limit) ==
  IF Len(items) > limit
  THEN [items |-> SubSeq(items, 1, limit), next |-> CursorOf(items[limit])]
  ELSE [items |-> items, next |-> NoCursor]
=============================================================================
