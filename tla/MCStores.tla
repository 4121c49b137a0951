------------------------------ MODULE MCStores ------------------------------
EXTENDS Stores

MCTenants == {[org |-> 1, user |-> 1], [org |-> 1, user |-> 2], [org |-> 2, user |-> 1]}

\* Rows of three ids.  The ids 1 and 2 belong to one user, at equal or different
\* times; the id 3 to another user or organisation.
MCFactRows ==
  {[id |-> i, org |-> 1, user |-> 1, type |-> 1, text |-> x, time |-> m] : i \in {1, 2}, x \in {7}, m \in {1, 2}}
  \cup {[id |-> 3, org |-> o, user |-> 2, type |-> 2, text |-> 8, time |-> 1] : o \in {1, 2}}
  \cup {[id |-> 3, org |-> 1, user |-> 1, type |-> 2, text |-> 8, time |-> 2]}
MCEventRows ==
  {[id |-> i, org |-> 1, user |-> 1, fact |-> 1, operation |-> "add", text |-> 7, time |-> m] : i \in {1, 2}, m \in {1, 2}}
  \cup {[id |-> i, org |-> o, user |-> 2, fact |-> 2, operation |-> "delete", text |-> 8, time |-> i - 2] : i \in {3, 4}, o \in {1, 2}}
MCUsageRows ==
  {[id |-> i, org |-> 1, user |-> {1}, provider |-> "a", status |-> "success", marks |-> {},
    tokens |-> {3}, cost |-> {}, time |-> m] : i \in {1, 2}, m \in {1, 2}}
  \cup {[id |-> i, org |-> o, user |-> {}, provider |-> "b", status |-> "error",
         marks |-> {"timed_out", "fallback"}, tokens |-> {}, cost |-> {2}, time |-> i - 2] : i \in {3, 4}, o \in {1, 2}}
MCRunRows == {[id |-> i, kind |-> k, status |-> "failed", time |-> m] : i \in 1 .. 3, k \in {"a"}, m \in {1, 2}}
MCSnapshotRows == {[id |-> i, org |-> o, time |-> m] : i \in 1 .. 3, o \in {1, 2}, m \in {1, 2}}
MCKeyRows == {[id |-> i, org |-> o, hash |-> i, revoked |-> FALSE, time |-> m] : i \in 1 .. 3, o \in {1, 2}, m \in {1, 2}}
MCPlanRows == {[org |-> o, tier |-> t, created |-> c, updated |-> c] : o \in {1, 2}, t \in {"free", "pro"}, c \in {1, 2}}
MCPoints ==
  {[id |-> i, fact |-> f, org |-> 1, user |-> 1, type |-> 1, metadata |-> 1, length |-> n, score |-> i]
     : i \in {1, 2}, f \in {1, 2}, n \in {2, 3}}
  \cup {[id |-> 3, fact |-> 1, org |-> 1, user |-> 2, type |-> 1, metadata |-> 1, length |-> 2, score |-> 1]}

MCQueries ==
  LET base == {Query(n, l, c) : n \in MCTenants, l \in {1, 2}, c \in {NoCursor, <<1, 2>>, <<2, 2>>}}
  IN  base
      \cup {[q EXCEPT !.text = {7}, !.deleted = TRUE, !.revoked = FALSE] : q \in base}
      \cup {[q EXCEPT !.text = {9}, !.types = {{1}}, !.operation = {"add"}, !.provider = {"b"}] : q \in base}
      \cup {[q EXCEPT !.after = {2}, !.fact = {2}, !.user = {2}, !.types = {{}}] : q \in base}
      \cup {[q EXCEPT !.before = {2}, !.kind = {"b"}] : q \in base}
=============================================================================
