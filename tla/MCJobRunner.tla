----------------------------- MODULE MCJobRunner -----------------------------
(***************************************************************************)
(* Instances of JobRunner for TLC.  Two memcore-api instances; the clock   *)
(* of i2 runs one tick ahead.  An interval of 3 ticks outlasts the lease   *)
(* of 2, as the default interval (a day) outlasts the default TTL (5 min). *)
(***************************************************************************)
EXTENDS JobRunner, TLC

CONSTANTS i1, i2, m1

MCSkew == [i \in Instance |-> IF i = i2 THEN 1 ELSE 0]

MCInterval == [k \in Kind |-> 3]

MCIntervalShort == [k \in Kind |-> 2]

MCBackoff == [n \in 1..MaxAttempts |-> 1]

\* Manual requests are served by i1.
MCHome == [t \in ManualTask |-> i1]
=============================================================================
