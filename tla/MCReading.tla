----------------------------- MODULE MCReading -----------------------------
(***************************************************************************)
(* Reading for a user in each of two organisations and four memories, with *)
(* two slots for requests.                                                 *)
(***************************************************************************)
EXTENDS Reading

MCTypeOf == [a |-> "profile", b |-> "task", c |-> "preference"]
MCImportance == [a |-> 90, b |-> 60, c |-> 60]
MCChars == [a |-> 30, b |-> 60, c |-> 220]
MCOrgOf == [t1 |-> "o1", t2 |-> "o2"]

MCQueryChars == [x |-> 8, y |-> 12]
MCSim == [x |-> [a |-> 90, b |-> 40, c |-> 70], y |-> [a |-> 10, b |-> 80, c |-> 80]]
MCMatch == [x |-> {"b"}, y |-> {"a", "c"}]

Opt(format, sections, types, max, mode, header) ==
  [format |-> format, sections |-> sections, types |-> types, max |-> max,
   reserved |-> 10, mode |-> mode, summary |-> 20, header |-> header]

\* Budgets that hold everything, a part, a short memory only, and nothing; the
\* last one is refused.
MCOptions ==
  {Opt("plain_text", FALSE, FALSE, 30, "disabled", TRUE),
   Opt("plain_text", TRUE, TRUE, 60, "simple_extractive", TRUE),
   Opt("plain_text", TRUE, FALSE, 130, "disabled", TRUE),
   Opt("markdown", TRUE, TRUE, 52, "provider_summary", TRUE),
   Opt("json", TRUE, FALSE, 100, "simple_extractive", FALSE),
   Opt("plain_text", FALSE, FALSE, 10, "disabled", TRUE)}

MCParts == {<<12>>, <<300, 20>>}

Fact(t, c, age) == [st |-> "active", t |-> t, c |-> c, age |-> age]
Gone(t, c, age) == [st |-> "deleted", t |-> t, c |-> c, age |-> age]

\* Two memories of t1 and one of t2; a third one of t1 was being deleted when
\* the request ended between the row and the points.
Facts == [f \in Id |-> CASE f = 1 -> Fact("t1", "a", 400)
                         [] f = 2 -> Gone("t1", "b", 10)
                         [] f = 3 -> Fact("t1", "c", 3)
                         [] f = 4 -> Fact("t2", "b", 1)
                         [] OTHER -> NoFact]

PointOf(f) == [f |-> f, t |-> Facts[f].t, c |-> Facts[f].c, by |-> 1]

\* Two updates of fact 3 have overlapped and both have left their point.
Late == [PointOf(3) EXCEPT !.c = "a", !.by = 2]

\* The client of t1 holds an export of the time before.
MCTable ==
  {[facts |-> Facts, vectors |-> {PointOf(f) : f \in 1..4} \cup {Late},
    dumps |-> {[t |-> "t1", facts |-> <<[f |-> 2, c |-> "b", age |-> 10],
                                        [f |-> 1, c |-> "a", age |-> 400]>>]}]}

Find(op, t, q, types, limit) ==
  [op |-> op, t |-> t, q |-> q, types |-> types, limit |-> limit]
Load(dry) == [op |-> "import", t |-> "t1", dry |-> dry]
Change(op, f, c) == [op |-> op, t |-> "t1", f |-> f, c |-> c]
Count(op, orgs) == [op |-> op, t |-> "t1", orgs |-> orgs]
Job(op, orgs, cutoff) == [op |-> op, t |-> "t1", orgs |-> orgs, cutoff |-> cutoff]

MCInput ==
  {Find("search", "t1", "x", {}, 2), Find("search", "t1", "y", {"profile"}, 1),
   Find("search", "t2", "x", {}, 1), Find("search", "t2", "x", {}, 0),
   Find("context", "t1", "y", {"profile", "preference"}, 3),
   Find("context", "t2", "x", {}, 21),
   [op |-> "export", t |-> "t1", deleted |-> TRUE],
   Load(FALSE), Load(TRUE),
   Change("update", 1, "c"), Change("delete", 1, "a"),
   Count("summary", <<"o1">>), Count("snapshot", <<"o1">>),
   Count("dashboard", <<"o1">>), Job("job", <<"o1", "o2">>, 1),
   Job("purge", <<"o1", "o2">>, 1), Job("purge", <<"o1">>, 0), Job("job", <<>>, 1),
   Job("job", <<"o1", "o1">>, 1)}

=============================================================================
