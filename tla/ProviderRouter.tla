--------------------------- MODULE ProviderRouter ---------------------------
(***************************************************************************)
(* ProviderFallbackRouter::execute_with_fallback, called by concurrent     *)
(* requests of one process, with all that they share: the circuits, the    *)
(* guardrails' call budget and set of used providers, and the process-wide *)
(* ProviderCallSourceSlot.  An operation stands for a capability and an    *)
(* operation_name with its list of candidates.                             *)
(*                                                                         *)
(* A request is anything that sets the slot, runs and clears it again: an  *)
(* HTTP request inside apply_provider_test_source, or a background job     *)
(* inside CallSourceTaggedJob::run_once.  A provider answers an attempt    *)
(* with success, with an error that is_provider_health_failure (a timeout  *)
(* is one, and so is a retryable error that exhausted its retries), or     *)
(* with one that is not.  Metrics and usage events decide nothing here and *)
(* are left out.                                                           *)
(***************************************************************************)
EXTENDS CircuitBreaker, Sequences, FiniteSets

CONSTANTS Request,
          Provider,
          Real,             \* the providers with is_real_provider_name
          Operation,
          Candidates,       \* [Operation -> Seq(Provider)], providers_to_try
          TotalAttempts,    \* ProviderExecutionPolicy::total_attempts
          TestMode,         \* ProviderTestMode
          RealCallsEnabled,
          MaxCallsPerRun,
          Source,           \* the ProviderCallSources in use
          BlockedSource,    \* those for which real providers are not allowed
          CanBeFatal,       \* do providers answer with non-health errors?
          CanDrop           \* are request futures dropped at an await?

ASSUME RouterConstants ==
  /\ IsFiniteSet(Request)
  /\ Real \subseteq Provider
  /\ Candidates \in [Operation -> Seq(Provider)]
  /\ \A o \in Operation : Candidates[o] # << >>
  /\ Operation # {}
  /\ TotalAttempts \in Nat \ {0}
  /\ TestMode \in {"mock_only", "single_real", "multi_real", "production"}
  /\ RealCallsEnabled \in BOOLEAN
  /\ MaxCallsPerRun \in Nat \ {0}        \* ProviderGuardrailConfig::validate
  /\ "api" \in Source
  /\ BlockedSource \subseteq Source
  /\ CanBeFatal \in BOOLEAN
  /\ CanDrop \in BOOLEAN

VARIABLES source,      \* ProviderCallSourceSlot
          circuits,    \* [Key -> Circuit]
          usedCalls,   \* ProviderCallBudget::used_calls
          usedReal,    \* used_real_providers
          req,         \* [Request -> ...]: where each request is
          made,        \* history: real-provider calls begun
          sent,        \* history: attempts of those calls
          contacted,   \* history: the real providers they went to
          leaked       \* history: circuits that a call has left half-open
                       \* without reporting

vars == <<source, circuits, usedCalls, usedReal, req, made, sent, contacted,
          leaked>>

\* circuit_key.
Key == Operation \X Provider

PC == {"idle", "handler", "guard", "load", "cas", "check", "attempt", "backoff"}

Req == [pc  : PC,
        tag : Source,              \* what the request put into the slot
        src : Source,              \* call_source, read from the slot
        big : BOOLEAN,             \* over max_input_chars or, outside
                                   \* production, max_output_tokens
        op  : Operation,
        at  : Nat,                 \* index of the candidate
        seen : Nat,                \* what try_consume loaded
        tries : Nat]               \* attempts of execute_provider_call

Fresh == [pc |-> "idle", tag |-> "api", src |-> "api", big |-> FALSE,
          op |-> CHOOSE o \in Operation : TRUE, at |-> 1, seen |-> 0,
          tries |-> 0]

TypeOK ==
  /\ source \in Source
  /\ circuits \in [Key -> Circuit]
  /\ usedCalls \in Nat
  /\ usedReal \subseteq Real
  /\ req \in [Request -> Req]
  /\ \A r \in Request : req[r].at \in 1..Len(Candidates[req[r].op])
  /\ made \in Nat /\ sent \in Nat
  /\ contacted \subseteq Real
  /\ leaked \subseteq Key

Init ==
  /\ source = "api"
  /\ circuits = [k \in Key |-> NewCircuit]
  /\ usedCalls = 0
  /\ usedReal = {}
  /\ req = [r \in Request |-> Fresh]
  /\ made = 0 /\ sent = 0
  /\ contacted = {} /\ leaked = {}

-----------------------------------------------------------------------------
At(r) == Candidates[req[r].op][req[r].at]

KeyOf(r) == <<req[r].op, At(r)>>

Becomes(r, c) == req' = [req EXCEPT ![r] = c]

\* execute_with_fallback returns to the handler.
Return(r) == Becomes(r, [Fresh EXCEPT !.pc = "handler", !.tag = req[r].tag])

\* The next candidate, if fallback is enabled and there is one.
Fallback(r) ==
  IF req[r].at < Len(Candidates[req[r].op])
  THEN Becomes(r, [req[r] EXCEPT !.pc = "guard", !.at = @ + 1,
                                 !.seen = 0, !.tries = 0])
  ELSE Return(r)

history == <<made, sent, contacted, leaked>>

\* The call ends and its circuit is not told: a probe's slot stays taken.
Unreported(r) ==
  leaked' = leaked \cup {k \in {KeyOf(r)} : circuits[k].state = "half_open"}

-----------------------------------------------------------------------------
(* The wrappers that tag a request in the process-wide slot.               *)

Start(r, tag) ==
  /\ req[r].pc = "idle"
  /\ source' = tag
  /\ Becomes(r, [Fresh EXCEPT !.pc = "handler", !.tag = tag])
  /\ UNCHANGED <<circuits, usedCalls, usedReal, history>>

Respond(r) ==
  /\ req[r].pc = "handler"
  /\ source' = "api"
  /\ Becomes(r, Fresh)
  /\ UNCHANGED <<circuits, usedCalls, usedReal, history>>

\* The client goes away, or the job times out, and the future is dropped
\* where it waits for a provider: nothing is cleared or recorded.
Drop(r) ==
  /\ CanDrop
  /\ req[r].pc \in {"handler", "attempt", "backoff"}
  /\ Becomes(r, Fresh)
  /\ IF req[r].pc = "handler" THEN UNCHANGED leaked ELSE Unreported(r)
  /\ UNCHANGED <<source, circuits, usedCalls, usedReal, made, sent, contacted>>

-----------------------------------------------------------------------------
(* execute_with_fallback.                                                  *)

\* A provider call of the handler: the slot is read once for all candidates.
CallProvider(r, op, big) ==
  /\ req[r].pc = "handler"
  /\ Becomes(r, [req[r] EXCEPT !.pc = "guard", !.src = source, !.op = op,
                               !.big = big])
  /\ UNCHANGED <<source, circuits, usedCalls, usedReal, history>>

\* Mutant of Refused: single_real looks at the providers already contacted.
RefusedByContact(r) ==
  \/ ~RealCallsEnabled
  \/ TestMode = "mock_only"
  \/ req[r].src \in BlockedSource
  \/ req[r].big
  \/ TestMode = "single_real" /\ contacted \notin {{}, {At(r)}}

\* check_provider_call up to the critical section of used_real_providers.
Refused(r) ==
  \/ ~RealCallsEnabled
  \/ TestMode = "mock_only"
  \/ req[r].src \in BlockedSource
  \/ req[r].big
  \/ TestMode = "single_real" /\ usedReal \notin {{}, {At(r)}}

\* A refusal ends the whole call: no fallback.
Guard(r) ==
  /\ req[r].pc = "guard"
  /\ \/ /\ At(r) \notin Real
        /\ Becomes(r, [req[r] EXCEPT !.pc = "check"])
        /\ UNCHANGED usedReal
     \/ /\ At(r) \in Real
        /\ Refused(r)
        /\ Return(r)
        /\ UNCHANGED usedReal
     \/ /\ At(r) \in Real
        /\ ~Refused(r)
        /\ usedReal' = usedReal \cup {At(r)}
        /\ Becomes(r, [req[r] EXCEPT !.pc = "load"])
  /\ UNCHANGED <<source, circuits, usedCalls, history>>

\* Mutant of LoadBudget: an exhausted budget is asked again and again.
LoadBudgetInsists(r) ==
  /\ req[r].pc = "load"
  /\ IF usedCalls >= MaxCallsPerRun
     THEN Becomes(r, [req[r] EXCEPT !.pc = "guard"])
     ELSE Becomes(r, [req[r] EXCEPT !.pc = "cas", !.seen = usedCalls])
  /\ UNCHANGED <<source, circuits, usedCalls, usedReal, history>>

\* try_consume: the load, or call_budget_exhausted.
LoadBudget(r) ==
  /\ req[r].pc = "load"
  /\ IF usedCalls >= MaxCallsPerRun
     THEN Return(r)
     ELSE Becomes(r, [req[r] EXCEPT !.pc = "cas", !.seen = usedCalls])
  /\ UNCHANGED <<source, circuits, usedCalls, usedReal, history>>

\* Mutant of CasBudget: a plain store.
CasBudgetBlind(r) ==
  /\ req[r].pc = "cas"
  /\ usedCalls' = req[r].seen + 1
  /\ Becomes(r, [req[r] EXCEPT !.pc = "check"])
  /\ UNCHANGED <<source, circuits, usedReal, history>>

\* try_consume: the compare-and-exchange, or once more around its loop.
CasBudget(r) ==
  /\ req[r].pc = "cas"
  /\ IF usedCalls = req[r].seen
     THEN /\ usedCalls' = usedCalls + 1
          /\ Becomes(r, [req[r] EXCEPT !.pc = "check"])
     ELSE /\ Becomes(r, [req[r] EXCEPT !.pc = "load"])
          /\ UNCHANGED usedCalls
  /\ UNCHANGED <<source, circuits, usedReal, history>>

Admit(r) ==
  /\ req[r].pc = "check"
  /\ Allows(circuits[KeyOf(r)])
  /\ circuits' = [circuits EXCEPT ![KeyOf(r)] = CheckAllow(@)]
  /\ Becomes(r, [req[r] EXCEPT !.pc = "attempt", !.tries = 1])
  /\ IF At(r) \in Real
     THEN /\ made' = made + 1 /\ sent' = sent + 1
          /\ contacted' = contacted \cup {At(r)}
          /\ UNCHANGED leaked
     ELSE UNCHANGED history
  /\ UNCHANGED <<source, usedCalls, usedReal>>

\* "provider call blocked by open circuit"
Block(r) ==
  /\ req[r].pc = "check"
  /\ ~Allows(circuits[KeyOf(r)])
  /\ circuits' = [circuits EXCEPT ![KeyOf(r)] = CheckAllow(@)]
  /\ Fallback(r)
  /\ UNCHANGED <<source, usedCalls, usedReal, history>>

-----------------------------------------------------------------------------
(* execute_provider_call, and what the router makes of its outcome.        *)

Succeed(r) ==
  /\ req[r].pc = "attempt"
  /\ circuits' = [circuits EXCEPT ![KeyOf(r)] = RecordSuccess(@)]
  /\ Return(r)
  /\ UNCHANGED <<source, usedCalls, usedReal, history>>

Retry(r) ==
  /\ req[r].pc = "attempt"
  /\ req[r].tries < TotalAttempts
  /\ Becomes(r, [req[r] EXCEPT !.pc = "backoff"])
  /\ UNCHANGED <<source, circuits, usedCalls, usedReal, history>>

RetryAttempt(r) ==
  /\ req[r].pc = "backoff"
  /\ Becomes(r, [req[r] EXCEPT !.pc = "attempt", !.tries = @ + 1])
  /\ sent' = IF At(r) \in Real THEN sent + 1 ELSE sent
  /\ UNCHANGED <<source, circuits, usedCalls, usedReal, made, contacted, leaked>>

\* A retry-exhausted failure counts against the provider; then the fallback.
Exhausted(r) ==
  /\ req[r].pc = "attempt"
  /\ req[r].tries >= TotalAttempts
  /\ circuits' = [circuits EXCEPT ![KeyOf(r)] = RecordFailure(@)]
  /\ Fallback(r)
  /\ UNCHANGED <<source, usedCalls, usedReal, history>>

\* An error that says nothing about the provider's health is returned as it
\* is: no retry, no fallback, and nothing recorded in the circuit.
Fatal(r) ==
  /\ CanBeFatal
  /\ req[r].pc = "attempt"
  /\ Return(r)
  /\ Unreported(r)
  /\ UNCHANGED <<source, circuits, usedCalls, usedReal, made, sent, contacted>>

\* Time passes for the open circuits.
Tick ==
  /\ \E k \in Key : circuits[k].wait > 0
  /\ circuits' = [k \in Key |-> Cooled(circuits[k])]
  /\ UNCHANGED <<source, usedCalls, usedReal, req, history>>

-----------------------------------------------------------------------------
\* A provider call from the guard to its result.
Step(r) ==
  \/ Guard(r) \/ LoadBudget(r) \/ CasBudget(r) \/ Admit(r) \/ Block(r)
  \/ Succeed(r) \/ Retry(r) \/ RetryAttempt(r) \/ Exhausted(r) \/ Fatal(r)

Next ==
  \/ \E r \in Request :
       \/ \E tag \in Source : Start(r, tag)
       \/ Respond(r)
       \/ Drop(r)
       \/ \E op \in Operation, big \in BOOLEAN : CallProvider(r, op, big)
       \/ Step(r)
  \/ Tick

Spec == Init /\ [][Next]_vars

\* A task that can run does, and the timeout of execute_provider_call ends
\* every attempt.
FairSpec == Spec /\ \A r \in Request : WF_vars(Step(r))

-----------------------------------------------------------------------------
\* The guardrails' promise: in one run of the process at most
\* MaxCallsPerRun real-provider calls are begun, however concurrent requests
\* race for the budget in try_consume.
BudgetRespected == made <= usedCalls /\ usedCalls <= MaxCallsPerRun

\* The retries of execute_provider_call multiply that by total_attempts() at
\* most.
AttemptsBounded == sent <= made * TotalAttempts

\* "single_real mode allows only one real provider per process", whatever the
\* operations that race for the first call.
SingleRealRespected ==
  TestMode = "single_real" => \A p, q \in contacted : p = q

\* Every circuit is one its operations can leave behind: never closed at the
\* threshold, never half-open without a probe slot taken or with too many.
CircuitsOK == \A k \in Key : CircuitOK(circuits[k])

\* A call is refused ("provider circuit is open") only if the circuit is
\* open or a call that will decide a half-open one is in flight; or if a
\* call has left it half-open without reporting, after an error that says
\* nothing of the provider's health or because its request was dropped.
RefusalJustified ==
  [][\A r \in Request :
       Block(r) =>
         \/ circuits'[KeyOf(r)].state = "open"
         \/ KeyOf(r) \in leaked
         \/ \E q \in Request : /\ KeyOf(q) = KeyOf(r)
                               /\ req[q].pc \in {"attempt", "backoff"}]_vars

\* A half-open circuit of a primary provider is decided, because its probe comes back and closes
\* or reopens it; only a call that never reports can leave it so.
HalfOpenSettles ==
  \A k \in {<<o, Candidates[o][1]>> : o \in Operation} :
    circuits[k].state = "half_open" /\ k \notin leaked
      ~> circuits[k].state # "half_open" \/ k \in leaked

\* Every provider call returns to its handler, through retries, fallbacks,
\* the race for the budget and refusals.
CallsReturn ==
  \A r \in Request :
    req[r].pc \notin {"idle", "handler"} ~> req[r].pc \in {"idle", "handler"}

\* The circuits are ones the breaker's operations can leave behind, and no call
\* is sent more often than its retry policy says.
RouterSound == TypeOK /\ CircuitsOK /\ AttemptsBounded

\* What has begun is decided: calls return and probes settle their circuit.
RouterSettles == HalfOpenSettles /\ CallsReturn
=============================================================================
