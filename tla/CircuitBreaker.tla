--------------------------- MODULE CircuitBreaker ---------------------------
(***************************************************************************)
(* One entry of ProviderCircuitBreaker: what each of its operations, a     *)
(* critical section of the map's mutex, makes of the entry of a key.       *)
(* opened_at is kept as the time `wait' that is left of reset_timeout.     *)
(***************************************************************************)
EXTENDS Integers

CONSTANTS BreakerEnabled,     \* CircuitBreakerConfig::enabled
          FailureThreshold,
          ResetTimeout,       \* in ticks
          HalfOpenMaxCalls

ASSUME BreakerConstants ==    \* validate_circuit_breaker_config
  /\ BreakerEnabled \in BOOLEAN
  /\ FailureThreshold \in Nat \ {0}
  /\ ResetTimeout \in Nat \ {0}
  /\ HalfOpenMaxCalls \in Nat \ {0}

Circuit == [state : {"closed", "open", "half_open"}, failures : Nat,
            wait : 0..ResetTimeout, probes : Nat]

NewCircuit == [state |-> "closed", failures |-> 0, wait |-> 0, probes |-> 0]

\* An entry that the operations can leave behind: it opens at the threshold,
\* and becomes half-open only when a call takes its first probe slot.
CircuitOK(e) ==
  /\ e.state = "closed" => e.failures < FailureThreshold
  /\ e.state = "half_open" => e.probes \in 1..HalfOpenMaxCalls

-----------------------------------------------------------------------------
\* maybe_transition_open_to_half_open.
MaybeHalfOpen(e) ==
  IF e.state = "open" /\ e.wait = 0
  THEN [e EXCEPT !.state = "half_open", !.probes = 0] ELSE e

\* check_allow: its verdict, and what it does to the entry.
Allows(e) ==
  \/ ~BreakerEnabled
  \/ MaybeHalfOpen(e).state = "closed"
  \/ /\ MaybeHalfOpen(e).state = "half_open"
     /\ MaybeHalfOpen(e).probes < HalfOpenMaxCalls

\* Mutant of CheckAllow: a probe does not take a slot.
CheckAllowUncounted(e) == IF BreakerEnabled THEN MaybeHalfOpen(e) ELSE e

CheckAllow(e) ==
  IF ~BreakerEnabled THEN e
  ELSE LET f == MaybeHalfOpen(e) IN
       IF Allows(e) /\ f.state = "half_open"
       THEN [f EXCEPT !.probes = @ + 1] ELSE f

RecordSuccess(e) == IF BreakerEnabled THEN NewCircuit ELSE e

Opened(e) == [e EXCEPT !.state = "open", !.wait = ResetTimeout, !.probes = 0]

\* Mutant of RecordFailure: a failed probe leaves the circuit half-open.
RecordFailureForgiving(e) ==
  IF BreakerEnabled /\ e.state = "closed"
  THEN LET f == [e EXCEPT !.failures = @ + 1] IN
       IF f.failures >= FailureThreshold THEN Opened(f) ELSE f
  ELSE e

\* A failure counts in a closed circuit, reopens a half-open one, and means
\* nothing to an open one.
RecordFailure(e) ==
  CASE ~BreakerEnabled \/ e.state = "open" -> e
    [] BreakerEnabled /\ e.state = "half_open" -> Opened(e)
    [] BreakerEnabled /\ e.state = "closed" ->
         LET f == [e EXCEPT !.failures = @ + 1] IN
         IF f.failures >= FailureThreshold THEN Opened(f) ELSE f

Cooled(e) == [e EXCEPT !.wait = IF @ > 0 THEN @ - 1 ELSE 0]
=============================================================================
