--------------------------- MODULE MCMemoryEngine ---------------------------
(* MemoryEngine on small instances: an old active fact 1 and, in some of   *)
(* the tables, a soft-deleted fact 2 or a second fact with its content; an *)
(* export that carries both.  A lookup for deduplication lists one fact.   *)
EXTENDS MemoryEngine, TLC

CONSTANTS a, b

FactOf(st, c, old) == [st |-> st, c |-> c, old |-> old]

Table(second) == [f \in Id |-> CASE f = 1 -> FactOf("active", a, TRUE)
                                 [] f = 2 -> second
                                 [] OTHER -> NoFact]
Tables == {Table(NoFact), Table(FactOf("deleted", b, FALSE)),
           Table(FactOf("active", a, FALSE))}

Types == [c \in Content |-> "fact"]

Symmetry == Permutations(Request)

Export == {[id |-> 1, c |-> a, old |-> TRUE], [id |-> 2, c |-> b, old |-> FALSE]}
=============================================================================
