--------------------------- MODULE MCContextCache ---------------------------
(* ContextCache on small instances: two keys where entries compete for the *)
(* capacity or share the index, one where the locks are of interest.       *)
EXTENDS ContextCache

CONSTANTS k1, k2

Cfg(backend, stampede, swr, keys, faults) ==
  [backend |-> backend, stampede |-> stampede, swr |-> swr, keys |-> keys,
   faults |-> faults]

AllConfigs == {Cfg("memory", TRUE, TRUE, {k1}, TRUE),
               Cfg("redis", TRUE, FALSE, {k1}, TRUE),
               Cfg("memory", FALSE, TRUE, {k1, k2}, TRUE),
               Cfg("redis", FALSE, FALSE, {k1, k2}, FALSE)}
=============================================================================
