------------------------ MODULE ProviderRouterProofs ------------------------
(***************************************************************************)
(* The guardrails and the circuits for every number of requests,           *)
(* providers, operations and retries.  The inductive invariants rest on    *)
(* the first one:                                                          *)
(*   Shape     types, circuits, and a loaded budget that was not           *)
(*             exhausted;                                                  *)
(*   Claims    a request past the guard has its provider in usedReal;      *)
(*   Budget    calls begun plus calls paid for but not begun are paid for; *)
(*   Decided   a half-open circuit has a call in flight, or was left so by *)
(*             a call that did not report;                                 *)
(*   Attempts  attempts made plus attempts that calls in flight may still  *)
(*             make belong to calls that were begun.                       *)
(***************************************************************************)
EXTENDS ProviderRouter, FiniteSetTheorems, TLAPS

\* What Shape says of one request.
RecOK(c) ==
  /\ c \in Req
  /\ c.at \in 1..Len(Candidates[c.op])
  /\ c.pc = "cas" => c.seen < MaxCallsPerRun
  /\ c.pc \in {"idle", "handler"} => c.at = 1

Shape ==
  /\ source \in Source
  /\ circuits \in [Key -> Circuit]
  /\ CircuitsOK
  /\ usedCalls \in Nat
  /\ usedReal \subseteq Real
  /\ req \in [Request -> Req]
  /\ \A r \in Request : RecOK(req[r])
  /\ made \in Nat /\ sent \in Nat
  /\ contacted \subseteq Real
  /\ leaked \subseteq Key

-----------------------------------------------------------------------------
(* The entry of a circuit.                                                 *)

\* check_allow leaves a circuit that its operations can leave behind.
LEMMA CheckAllowOK ==
  ASSUME NEW e \in Circuit, CircuitOK(e)
  PROVE  CheckAllow(e) \in Circuit /\ CircuitOK(CheckAllow(e))
<1> DEFINE f == MaybeHalfOpen(e)
<1>1. /\ f \in Circuit
      /\ f.state = "closed" => f.failures < FailureThreshold
      /\ f.state = "half_open" => f.probes \in 0..HalfOpenMaxCalls
      /\ f = e \/ f.probes = 0
  <2>1. CASE e.state = "open" /\ e.wait = 0
    <3>1. f = [e EXCEPT !.state = "half_open", !.probes = 0]
      BY <2>1 DEF MaybeHalfOpen
    <3>2. /\ e.failures \in Nat /\ e.wait \in 0..ResetTimeout
          /\ f = [state |-> "half_open", failures |-> e.failures,
                  wait |-> e.wait, probes |-> 0]
      BY <3>1 DEF Circuit
    <3> HIDE DEF f
    <3>3. f \in Circuit
      BY <3>2 DEF Circuit
    <3> QED
      BY <3>2, <3>3, BreakerConstants
  <2>2. CASE ~(e.state = "open" /\ e.wait = 0)
    <3>1. f = e
      BY <2>2 DEF MaybeHalfOpen
    <3> HIDE DEF f
    <3> QED
      BY <3>1, BreakerConstants DEF Circuit, CircuitOK
  <2> QED
    BY <2>1, <2>2
<1>2. CASE ~BreakerEnabled
  BY <1>2 DEF CheckAllow
<1>3. CASE BreakerEnabled /\ Allows(e) /\ f.state = "half_open"
  <2>1. CheckAllow(e) = [f EXCEPT !.probes = @ + 1]
    BY <1>3 DEF CheckAllow
  <2>2. f.probes < HalfOpenMaxCalls
    BY <1>3 DEF Allows
  <2> HIDE DEF f
  <2> QED
    BY <1>1, <1>3, <2>1, <2>2, BreakerConstants DEF Circuit, CircuitOK
<1>4. CASE BreakerEnabled /\ ~(Allows(e) /\ f.state = "half_open")
  <2>1. CheckAllow(e) = f
    BY <1>4 DEF CheckAllow
  <2>2. f.state = "half_open" => ~(f.probes < HalfOpenMaxCalls)
    BY <1>4 DEF Allows
  <2> HIDE DEF f
  <2> QED
    BY <1>1, <2>1, <2>2, BreakerConstants DEF Circuit, CircuitOK
<1> QED
  BY <1>2, <1>3, <1>4

\* record_success does, too.
LEMMA RecordSuccessOK ==
  ASSUME NEW e \in Circuit, CircuitOK(e)
  PROVE  RecordSuccess(e) \in Circuit /\ CircuitOK(RecordSuccess(e))
BY BreakerConstants DEF Circuit, CircuitOK, RecordSuccess, NewCircuit

\* An opened circuit waits for the reset timeout.
LEMMA OpenedOK ==
  ASSUME NEW e \in Circuit
  PROVE  Opened(e) \in Circuit /\ CircuitOK(Opened(e))
<1> DEFINE f == Opened(e)
<1>w. PICK w \in 0..ResetTimeout : w = ResetTimeout
  BY BreakerConstants
<1>a. e.failures \in Nat
  BY DEF Circuit
<1>b. f = [e EXCEPT !.state = "open", !.wait = w, !.probes = 0]
  BY <1>w DEF Opened
<1> HIDE DEF f
<1>0. f = [state |-> "open", failures |-> e.failures, wait |-> w,
           probes |-> 0]
  BY <1>b DEF Circuit
<1>1. f \in Circuit /\ f.state = "open"
  BY <1>w, <1>a, <1>0 DEF Circuit
<1>2. CircuitOK(f)
  BY <1>1 DEF CircuitOK
<1> QED
  BY <1>1, <1>2 DEF f

\* record_failure does, too.
LEMMA RecordFailureOK ==
  ASSUME NEW e \in Circuit, CircuitOK(e)
  PROVE  RecordFailure(e) \in Circuit /\ CircuitOK(RecordFailure(e))
<1>1. CASE ~BreakerEnabled \/ e.state = "open"
  BY <1>1 DEF Circuit, RecordFailure
<1>2. CASE BreakerEnabled /\ e.state = "half_open"
  <2>1. RecordFailure(e) = Opened(e)
    BY <1>2 DEF RecordFailure
  <2> QED
    BY <2>1, OpenedOK
<1>3. CASE BreakerEnabled /\ e.state = "closed"
  <2> DEFINE f == [e EXCEPT !.failures = @ + 1]
  <2>1. RecordFailure(e) = IF f.failures >= FailureThreshold
                           THEN Opened(f) ELSE f
    BY <1>3 DEF RecordFailure, Circuit
  <2>2. f \in Circuit /\ f.state = "closed"
    BY <1>3 DEF Circuit
  <2> HIDE DEF f
  <2> QED
    BY <2>1, <2>2, OpenedOK, BreakerConstants DEF Circuit, CircuitOK
<1> QED
  BY <1>1, <1>2, <1>3, BreakerConstants DEF Circuit

\* And so does the passing of time.
LEMMA CooledOK ==
  ASSUME NEW e \in Circuit, CircuitOK(e)
  PROVE  Cooled(e) \in Circuit /\ CircuitOK(Cooled(e))
BY BreakerConstants DEF Circuit, CircuitOK, Cooled

-----------------------------------------------------------------------------
(* The record of a request.                                                *)

\* The record of a request that calls no provider.
LEMMA FreshOK ==
  /\ RecOK(Fresh)
  /\ Fresh.pc = "idle"
  /\ \A t \in Source, p \in {"idle", "handler"} :
       /\ RecOK([Fresh EXCEPT !.pc = p, !.tag = t])
       /\ [Fresh EXCEPT !.pc = p, !.tag = t].pc = p
<1>1. \E o \in Operation : TRUE
  BY RouterConstants
<1>2. Fresh.op \in Operation
  BY <1>1 DEF Fresh
<1>3. Len(Candidates[Fresh.op]) \in Nat \ {0}
  BY <1>2, RouterConstants
<1>4. Fresh \in Req
  BY <1>2, RouterConstants DEF Fresh, Req, PC
<1>5. 1 \in 1..Len(Candidates[Fresh.op])
  BY <1>3
<1>6. Fresh.at = 1 /\ Fresh.pc = "idle"
  BY DEF Fresh
<1> QED
  BY <1>4, <1>5, <1>6 DEF RecOK, Req, PC

\* Return takes a request back to its handler.
LEMMA ReturnStep ==
  ASSUME Shape, NEW r \in Request, Return(r)
  PROVE  \E c : /\ RecOK(c) /\ c.pc = "handler"
                /\ req' = [req EXCEPT ![r] = c]
<1>1. req[r].tag \in Source
  BY DEF Shape, Req
<1> DEFINE c == [Fresh EXCEPT !.pc = "handler", !.tag = req[r].tag]
<1>2. RecOK(c) /\ c.pc = "handler"
  BY <1>1, FreshOK
<1> QED
  BY <1>2 DEF Return, Becomes

\* Fallback takes it there or to the guard of the next candidate.
LEMMA FallbackStep ==
  ASSUME Shape, NEW r \in Request, Fallback(r)
  PROVE  \E c : /\ RecOK(c) /\ c.pc \in {"handler", "guard"}
                /\ req' = [req EXCEPT ![r] = c]
<1>1. CASE req[r].at < Len(Candidates[req[r].op])
  <2>1. req[r] \in Req /\ req[r].at \in Nat
    BY DEF Shape, Req
  <2>0. PICK n \in Nat : n = req[r].at + 1
    BY <2>1
  <2> DEFINE c == [req[r] EXCEPT !.pc = "guard", !.at = n,
                                 !.seen = 0, !.tries = 0]
  <2>2. c \in Req /\ c.pc = "guard" /\ c.at = req[r].at + 1
        /\ c.op = req[r].op
    BY <2>0, <2>1 DEF Req, PC
  <2>3. req[r].op \in Operation
    BY <2>1 DEF Req
  <2>4. Len(Candidates[req[r].op]) \in Nat
    BY <2>3, RouterConstants
  <2>5. c.at \in 1..Len(Candidates[c.op])
    BY <1>1, <2>1, <2>2, <2>4
  <2>6. req' = [req EXCEPT ![r] = c]
    BY <1>1, <2>0 DEF Fallback, Becomes
  <2> HIDE DEF c
  <2> QED
    BY <2>2, <2>5, <2>6 DEF RecOK
<1>2. CASE ~(req[r].at < Len(Candidates[req[r].op]))
  BY <1>2, ReturnStep DEF Fallback
<1> QED
  BY <1>1, <1>2

\* The circuit a request is concerned with exists.
LEMMA KeyOfKey ==
  ASSUME Shape, NEW r \in Request
  PROVE  KeyOf(r) \in Key /\ At(r) \in Provider
<1>1. req[r].op \in Operation /\ req[r].at \in 1..Len(Candidates[req[r].op])
  BY DEF Shape, RecOK, Req
<1>2. Candidates[req[r].op] \in Seq(Provider)
  BY <1>1, RouterConstants
<1>3. At(r) \in Provider
  BY <1>1, <1>2 DEF At
<1> QED
  BY <1>1, <1>3 DEF KeyOf, Key

-----------------------------------------------------------------------------
(* Shape.                                                                  *)

\* A step that gives one request a good record keeps the records good.
LEMMA RecFrame ==
  ASSUME Shape, NEW r \in Request, NEW c, RecOK(c),
         req' = [req EXCEPT ![r] = c]
  PROVE  req' \in [Request -> Req] /\ \A q \in Request : RecOK(req'[q])
<1>1. c \in Req
  BY DEF RecOK
<1>2. req \in [Request -> Req] /\ \A q \in Request : RecOK(req[q])
  BY DEF Shape
<1>3. \A q \in Request : req'[q] = IF q = r THEN c ELSE req[q]
  BY <1>2
<1> QED
  BY <1>1, <1>2, <1>3

\* A step that replaces one circuit by a good one keeps the circuits good.
LEMMA CircuitFrame ==
  ASSUME Shape, NEW k \in Key, NEW e \in Circuit, CircuitOK(e),
         circuits' = [circuits EXCEPT ![k] = e]
  PROVE  circuits' \in [Key -> Circuit] /\ CircuitsOK'
<1>1. circuits \in [Key -> Circuit]
  BY DEF Shape
<1>2. \A j \in Key : circuits'[j] = IF j = k THEN e ELSE circuits[j]
  BY <1>1
<1>3. \A j \in Key : CircuitOK(circuits'[j])
  BY <1>2 DEF Shape, CircuitsOK
<1> QED
  BY <1>1, <1>3 DEF CircuitsOK

\* What a request does to the circuits keeps them good.
LEMMA CircuitStep ==
  ASSUME Shape, NEW r \in Request,
         \/ circuits' = [circuits EXCEPT ![KeyOf(r)] = CheckAllow(@)]
         \/ circuits' = [circuits EXCEPT ![KeyOf(r)] = RecordSuccess(@)]
         \/ circuits' = [circuits EXCEPT ![KeyOf(r)] = RecordFailure(@)]
  PROVE  circuits' \in [Key -> Circuit] /\ CircuitsOK'
<1>1. KeyOf(r) \in Key
  BY KeyOfKey
<1>2. circuits[KeyOf(r)] \in Circuit /\ CircuitOK(circuits[KeyOf(r)])
  BY <1>1 DEF Shape, CircuitsOK
<1>3. PICK e \in Circuit : /\ CircuitOK(e)
                           /\ circuits' = [circuits EXCEPT ![KeyOf(r)] = e]
  BY <1>2, CheckAllowOK, RecordSuccessOK, RecordFailureOK
<1> QED
  BY <1>1, <1>3, CircuitFrame

\* Every request's step gives it a good record, and says where it is then.
LEMMA RecStep ==
  ASSUME Shape, NEW r \in Request,
         \/ \E tag \in Source : Start(r, tag)
         \/ Respond(r)
         \/ Drop(r)
         \/ \E op \in Operation, big \in BOOLEAN : CallProvider(r, op, big)
         \/ Step(r)
  PROVE  \E c : /\ RecOK(c)
                /\ req' = [req EXCEPT ![r] = c]
                /\ \/ c.pc \in {"idle", "handler", "guard"}
                   \/ /\ c.pc \in {"load", "cas", "check", "attempt", "backoff"}
                      /\ c.op = req[r].op /\ c.at = req[r].at
<1> DEFINE Moved(c) == /\ RecOK(c)
                       /\ req' = [req EXCEPT ![r] = c]
                       /\ \/ c.pc \in {"idle", "handler", "guard"}
                          \/ /\ c.pc \in {"load", "cas", "check", "attempt",
                                         "backoff"}
                             /\ c.op = req[r].op /\ c.at = req[r].at
<1> SUFFICES \E c : Moved(c)
  OBVIOUS
<1>0. req[r] \in Req /\ RecOK(req[r])
  BY DEF Shape
<1>a. /\ req[r].at \in Nat /\ req[r].tries \in Nat
      /\ req[r].op \in Operation
  BY <1>0 DEF Req
<1>b. ASSUME NEW p \in {"check", "load", "attempt", "backoff"},
             NEW n \in Nat,
             \/ Becomes(r, [req[r] EXCEPT !.pc = p])
             \/ Becomes(r, [req[r] EXCEPT !.pc = p, !.tries = n])
      PROVE  \E c : Moved(c)
  <2>1. PICK c : /\ req' = [req EXCEPT ![r] = c]
                 /\ \/ c = [req[r] EXCEPT !.pc = p]
                    \/ c = [req[r] EXCEPT !.pc = p, !.tries = n]
    BY <1>b DEF Becomes
  <2>2. c \in Req
    BY <1>0, <2>1 DEF Req, PC
  <2>3. c.pc = p /\ c.op = req[r].op /\ c.at = req[r].at
    BY <1>0, <2>1 DEF Req
  <2>4. RecOK(c)
    BY <1>0, <2>2, <2>3 DEF RecOK
  <2> QED
    BY <2>1, <2>3, <2>4
<1>1. ASSUME NEW tag \in Source, Start(r, tag)
      PROVE  \E c : Moved(c)
  <2> DEFINE c == [Fresh EXCEPT !.pc = "handler", !.tag = tag]
  <2>1. RecOK(c) /\ c.pc = "handler"
    BY FreshOK
  <2>2. req' = [req EXCEPT ![r] = c]
    BY <1>1 DEF Start, Becomes
  <2> HIDE DEF c
  <2> QED
    BY <2>1, <2>2
<1>2. CASE Respond(r) \/ Drop(r)
  BY <1>2, FreshOK DEF Respond, Drop, Becomes
<1>3. ASSUME NEW op \in Operation, NEW big \in BOOLEAN,
             CallProvider(r, op, big)
      PROVE  \E c : Moved(c)
  <2> DEFINE c == [req[r] EXCEPT !.pc = "guard", !.src = source, !.op = op,
                                 !.big = big]
  <2>1. req[r].at = 1
    BY <1>0, <1>3 DEF RecOK, CallProvider
  <2>2. source \in Source
    BY DEF Shape
  <2>3. c \in Req /\ c.pc = "guard" /\ c.at = 1 /\ c.op = op
    BY <1>0, <2>1, <2>2 DEF Req, PC
  <2>4. req' = [req EXCEPT ![r] = c]
    BY <1>3 DEF CallProvider, Becomes
  <2>5. Len(Candidates[op]) \in Nat \ {0}
    BY RouterConstants
  <2> HIDE DEF c
  <2>6. RecOK(c)
    BY <2>3, <2>5 DEF RecOK
  <2> QED
    BY <2>3, <2>4, <2>6
<1>4. CASE Guard(r)
  <2>1. CASE Return(r)
    BY <2>1, ReturnStep
  <2>2. CASE \/ Becomes(r, [req[r] EXCEPT !.pc = "check"])
             \/ Becomes(r, [req[r] EXCEPT !.pc = "load"])
    BY <2>2, <1>b
  <2> QED
    BY <1>4, <2>1, <2>2 DEF Guard
<1>5. CASE LoadBudget(r)
  <2>1. CASE usedCalls >= MaxCallsPerRun
    BY <1>5, <2>1, ReturnStep DEF LoadBudget
  <2>2. CASE ~(usedCalls >= MaxCallsPerRun)
    <3> DEFINE c == [req[r] EXCEPT !.pc = "cas", !.seen = usedCalls]
    <3>1. usedCalls \in Nat
      BY DEF Shape
    <3>2. c \in Req /\ c.pc = "cas" /\ c.at = req[r].at /\ c.op = req[r].op
          /\ c.seen = usedCalls
      BY <1>0, <3>1 DEF Req, PC
    <3>3. req' = [req EXCEPT ![r] = c]
      BY <1>5, <2>2 DEF LoadBudget, Becomes
    <3> HIDE DEF c
    <3>4. RecOK(c)
      BY <1>0, <2>2, <3>1, <3>2, RouterConstants DEF RecOK
    <3> QED
      BY <3>2, <3>3, <3>4
  <2> QED
    BY <2>1, <2>2
<1>6. CASE CasBudget(r)
  BY <1>6, <1>b DEF CasBudget
<1>7. CASE Admit(r)
  BY <1>7, <1>b DEF Admit
<1>8. CASE Block(r) \/ Exhausted(r)
  BY <1>8, FallbackStep DEF Block, Exhausted
<1>9. CASE Succeed(r) \/ Fatal(r)
  BY <1>9, ReturnStep DEF Succeed, Fatal
<1>10. CASE Retry(r)
  BY <1>10, <1>b DEF Retry
<1>11. CASE RetryAttempt(r)
  <2>1. req[r].tries + 1 \in Nat
    BY <1>a
  <2>2. Becomes(r, [req[r] EXCEPT !.pc = "attempt",
                                  !.tries = req[r].tries + 1])
    BY <1>11 DEF RetryAttempt
  <2> QED
    BY <2>1, <2>2, <1>b
<1> QED
  BY <1>1, <1>2, <1>3, <1>4, <1>5, <1>6, <1>7, <1>8, <1>9, <1>10, <1>11
     DEF Step

\* Shape is inductive.
LEMMA ShapeStep == Shape /\ [Next]_vars => Shape'
<1> SUFFICES ASSUME Shape, [Next]_vars PROVE Shape'
  OBVIOUS
<1>1. CASE UNCHANGED vars
  BY <1>1 DEF Shape, CircuitsOK, vars
<1>2. CASE Tick
  <2>1. \A k \in Key : /\ Cooled(circuits[k]) \in Circuit
                        /\ CircuitOK(Cooled(circuits[k]))
    BY CooledOK DEF Shape, CircuitsOK
  <2>2. circuits' = [k \in Key |-> Cooled(circuits[k])]
    BY <1>2 DEF Tick
  <2>3. circuits' \in [Key -> Circuit] /\ CircuitsOK'
    BY <2>1, <2>2 DEF CircuitsOK
  <2> QED
    BY <1>2, <2>3 DEF Shape, Tick, history
<1>3. ASSUME NEW r \in Request,
             \/ \E tag \in Source : Start(r, tag)
             \/ Respond(r)
             \/ Drop(r)
             \/ \E op \in Operation, big \in BOOLEAN : CallProvider(r, op, big)
             \/ Step(r)
      PROVE  Shape'
  <2>1. req' \in [Request -> Req] /\ \A q \in Request : RecOK(req'[q])
    <3>1. PICK c : RecOK(c) /\ req' = [req EXCEPT ![r] = c]
      BY <1>3, RecStep
    <3> QED
      BY <3>1, RecFrame
  <2>2. circuits' \in [Key -> Circuit] /\ CircuitsOK'
    <3>1. CASE UNCHANGED circuits
      BY <3>1 DEF Shape, CircuitsOK
    <3>2. CASE Admit(r) \/ Block(r) \/ Succeed(r) \/ Exhausted(r)
      BY <3>2, CircuitStep DEF Admit, Block, Succeed, Exhausted
    <3> QED
      BY <1>3, <3>1, <3>2 DEF Step, Start, Respond, Drop, CallProvider, Guard,
         LoadBudget, CasBudget, Retry, RetryAttempt, Fatal
  <2>3. source' \in Source
    <3>1. source \in Source /\ "api" \in Source
      BY RouterConstants DEF Shape
    <3> QED
      BY <1>3, <3>1 DEF Step, Start, Respond, Drop, CallProvider, Guard,
         LoadBudget, CasBudget, Admit, Block, Succeed, Exhausted, Retry,
         RetryAttempt, Fatal
  <2>4. usedCalls' \in Nat
    <3>1. usedCalls \in Nat
      BY DEF Shape
    <3>2. usedCalls' = usedCalls \/ usedCalls' = usedCalls + 1
      BY <1>3 DEF Step, Start, Respond, Drop, CallProvider, Guard,
         LoadBudget, CasBudget, Admit, Block, Succeed, Exhausted, Retry,
         RetryAttempt, Fatal
    <3> QED
      BY <3>1, <3>2
  <2>5. usedReal' \subseteq Real
    <3>1. usedReal \subseteq Real
      BY DEF Shape
    <3>2. \/ usedReal' = usedReal
          \/ At(r) \in Real /\ usedReal' = usedReal \cup {At(r)}
      BY <1>3 DEF Step, Start, Respond, Drop, CallProvider, Guard,
         LoadBudget, CasBudget, Admit, Block, Succeed, Exhausted, Retry,
         RetryAttempt, Fatal
    <3> QED
      BY <3>1, <3>2
  <2>6. made' \in Nat /\ sent' \in Nat /\ contacted' \subseteq Real
    <3>1. made \in Nat /\ sent \in Nat /\ contacted \subseteq Real
      BY DEF Shape
    <3>2. CASE UNCHANGED <<made, sent, contacted>>
      BY <3>1, <3>2
    <3>3. CASE Admit(r)
      BY <3>1, <3>2, <3>3 DEF Admit, history
    <3>4. CASE RetryAttempt(r)
      BY <3>1, <3>4 DEF RetryAttempt
    <3> QED
      BY <1>3, <3>2, <3>3, <3>4 DEF Step, Start, Respond, Drop,
         CallProvider, Guard, LoadBudget, CasBudget, Block, Succeed,
         Exhausted, Retry, Fatal, history
  <2>7. leaked' \subseteq Key
    <3>1. leaked \subseteq Key /\ KeyOf(r) \in Key
      BY KeyOfKey DEF Shape
    <3>2. CASE Unreported(r)
      BY <3>1, <3>2 DEF Unreported
    <3>3. CASE UNCHANGED leaked
      BY <3>1, <3>3
    <3> QED
      BY <1>3, <3>2, <3>3 DEF Step, Start, Respond, Drop, CallProvider, Guard,
         LoadBudget, CasBudget, Admit, Block, Succeed, Exhausted, Retry,
         RetryAttempt, Fatal, history
  <2> QED
    BY <2>1, <2>2, <2>3, <2>4, <2>5, <2>6, <2>7 DEF Shape
<1> QED
  BY <1>1, <1>2, <1>3 DEF Next

\* Initially no request is anywhere and every circuit is new.
LEMMA ShapeInit == Init => Shape
<1> SUFFICES ASSUME Init PROVE Shape
  OBVIOUS
<1>1. NewCircuit \in Circuit /\ CircuitOK(NewCircuit)
  BY BreakerConstants DEF Circuit, CircuitOK, NewCircuit
<1>2. circuits \in [Key -> Circuit] /\ CircuitsOK
  BY <1>1 DEF Init, CircuitsOK
<1>3. Fresh \in Req /\ RecOK(Fresh)
  BY FreshOK DEF RecOK
<1>4. req \in [Request -> Req] /\ \A r \in Request : RecOK(req[r])
  BY <1>3 DEF Init
<1> QED
  BY <1>2, <1>4, RouterConstants DEF Init, Shape

\* Type correctness, and every circuit one that its operations can leave
\* behind (ProviderCircuitBreaker), with requests dropped anywhere.
THEOREM RouterTypeCorrect == Spec => [](TypeOK /\ CircuitsOK)
<1>1. Shape => TypeOK /\ CircuitsOK
  BY DEF Shape, TypeOK, RecOK
<1> QED
  BY ShapeInit, ShapeStep, <1>1, PTL DEF Spec

-----------------------------------------------------------------------------
(* Claims: single_real.                                                    *)

Past == {"load", "cas", "check", "attempt", "backoff"}

Claims ==
  /\ contacted \subseteq usedReal
  /\ \A r \in Request :
       req[r].pc \in Past /\ At(r) \in Real => At(r) \in usedReal
  /\ TestMode = "single_real" => \A p, q \in usedReal : p = q

\* check_provider_call adds a real provider to used_real_providers in the
\* critical section that refuses a second one, and the request goes on with
\* the provider it claimed there.
LEMMA ClaimsStep == Shape /\ Claims /\ [Next]_vars => Claims'
<1> SUFFICES ASSUME Shape, Claims, [Next]_vars PROVE Claims'
  OBVIOUS
<1>1. CASE UNCHANGED vars
  BY <1>1 DEF Claims, At, vars
<1>2. CASE Tick
  BY <1>2 DEF Claims, At, Tick, history
<1>3. ASSUME NEW r \in Request,
             \/ \E tag \in Source : Start(r, tag)
             \/ Respond(r)
             \/ Drop(r)
             \/ \E op \in Operation, big \in BOOLEAN : CallProvider(r, op, big)
             \/ Step(r)
      PROVE  Claims'
  <2>1. PICK c : /\ RecOK(c)
                 /\ req' = [req EXCEPT ![r] = c]
                 /\ c.pc \in Past => c.op = req[r].op /\ c.at = req[r].at
    BY <1>3, RecStep DEF Past
  <2>2. \A q \in Request : req'[q] = IF q = r THEN c ELSE req[q]
    BY <2>1 DEF Shape
  <2>3. \A q \in Request : q # r => req'[q].pc = req[q].pc /\ At(q)' = At(q)
    BY <2>2 DEF At
  <2>4. req'[r].pc \in Past => At(r)' = At(r)
    BY <2>1, <2>2 DEF At
  <2>5. \/ usedReal' = usedReal
        \/ /\ At(r) \in Real /\ ~Refused(r)
           /\ usedReal' = usedReal \cup {At(r)}
    BY <1>3 DEF Step, Start, Respond, Drop, CallProvider, Guard,
       LoadBudget, CasBudget, Admit, Block, Succeed, Exhausted, Retry,
       RetryAttempt, Fatal
  <2>6. TestMode = "single_real" => \A p, q \in usedReal' : p = q
    BY <2>5 DEF Claims, Refused
  <2>7. req'[r].pc \in Past /\ At(r) \in Real => At(r) \in usedReal'
    <3>1. CASE req[r].pc \in Past
      BY <3>1, <2>5 DEF Claims
    <3>2. CASE req[r].pc \notin Past
      <4>1. CASE Guard(r)
        <5>1. CASE Return(r)
          <6>1. PICK d : d.pc = "handler" /\ req' = [req EXCEPT ![r] = d]
            BY <5>1, ReturnStep
          <6>2. req'[r].pc = "handler"
            BY <6>1 DEF Shape
          <6> QED
            BY <6>2 DEF Past
        <5> QED
          BY <4>1, <5>1 DEF Guard
      <4>2. CASE ~Guard(r)
        <5>1. \/ \E tag \in Source : Start(r, tag)
              \/ Respond(r) \/ Drop(r)
              \/ \E op \in Operation, big \in BOOLEAN :
                   CallProvider(r, op, big)
          BY <1>3, <3>2, <4>2 DEF Step, Past, LoadBudget, CasBudget, Admit,
             Block, Succeed, Retry, RetryAttempt, Exhausted, Fatal
        <5>2. CASE \E tag \in Source : Start(r, tag)
          BY <5>2, FreshOK DEF Start, Becomes, Shape, Past
        <5>3. CASE Respond(r) \/ Drop(r)
          BY <5>3, FreshOK DEF Respond, Drop, Becomes, Shape, Past
        <5>4. CASE \E op \in Operation, big \in BOOLEAN :
                     CallProvider(r, op, big)
          BY <5>4 DEF CallProvider, Becomes, Shape, Req, Past
        <5> QED
          BY <5>1, <5>2, <5>3, <5>4
      <4> QED
        BY <4>1, <4>2
    <3> QED
      BY <3>1, <3>2
  <2>8. \A q \in Request :
          req'[q].pc \in Past /\ At(q)' \in Real => At(q)' \in usedReal'
    BY <2>3, <2>4, <2>5, <2>7 DEF Claims
  <2>9. contacted' \subseteq usedReal'
    <3>1. CASE UNCHANGED contacted
      BY <3>1, <2>5 DEF Claims
    <3>2. CASE Admit(r)
      <4>1. At(r) \in Real => At(r) \in usedReal
        BY <3>2 DEF Admit, Claims, Past
      <4> QED
        BY <3>1, <3>2, <4>1 DEF Admit, Claims, history
    <3> QED
      BY <1>3, <3>1, <3>2 DEF Step, Start, Respond, Drop, CallProvider,
         Guard, LoadBudget, CasBudget, Block, Succeed, Exhausted, Retry,
         RetryAttempt, Fatal, history
  <2> QED
    BY <2>6, <2>8, <2>9 DEF Claims
<1> QED
  BY <1>1, <1>2, <1>3 DEF Next

\* single_real: one process contacts one real provider, however many
\* operations and requests race for the first call.
THEOREM SingleReal == Spec => []SingleRealRespected
<1>1. Init => Claims
  BY FreshOK DEF Init, Claims, Past
<1>2. Claims => SingleRealRespected
  BY DEF Claims, SingleRealRespected
<1> QED
  BY ShapeInit, ShapeStep, ClaimsStep, <1>1, <1>2, PTL DEF Spec

-----------------------------------------------------------------------------
(* Budget.                                                                 *)

\* The calls paid for and not yet begun: after try_consume and before
\* check_allow.
Pending == {r \in Request : req[r].pc = "check" /\ At(r) \in Real}

Budget == /\ made + Cardinality(Pending) <= usedCalls
          /\ usedCalls <= MaxCallsPerRun

\* compare_exchange pays for a call only if nobody else spent the budget
\* since the load that found some of it left.
LEMMA BudgetStep == Shape /\ Budget /\ [Next]_vars => Budget'
<1> SUFFICES ASSUME Shape, Budget, [Next]_vars PROVE Budget'
  OBVIOUS
<1>a. /\ IsFiniteSet(Pending) /\ Cardinality(Pending) \in Nat
      /\ IsFiniteSet(Pending') /\ Cardinality(Pending') \in Nat
  <2>1. Pending \subseteq Request /\ Pending' \subseteq Request
    BY DEF Pending
  <2> QED
    BY <2>1, RouterConstants, FS_Subset, FS_CardinalityType
<1>b. /\ made \in Nat /\ usedCalls \in Nat /\ MaxCallsPerRun \in Nat
      /\ made + Cardinality(Pending) <= usedCalls
      /\ usedCalls <= MaxCallsPerRun
  BY RouterConstants DEF Shape, Budget
<1>c. ASSUME Pending' \subseteq Pending, UNCHANGED <<made, usedCalls>>
      PROVE  Budget'
  <2>1. Cardinality(Pending') <= Cardinality(Pending)
    BY <1>a, <1>c, FS_Subset
  <2>2. made + Cardinality(Pending') <= usedCalls
    BY <1>a, <1>b, <2>1
  <2> QED
    BY <1>b, <1>c, <2>2 DEF Budget
<1>1. CASE UNCHANGED vars
  <2>1. Pending' = Pending
    BY <1>1 DEF Pending, At, vars
  <2> QED
    BY <1>1, <1>c, <2>1 DEF vars
<1>2. CASE Tick
  <2>1. Pending' = Pending
    BY <1>2 DEF Pending, At, Tick
  <2> QED
    BY <1>2, <1>c, <2>1 DEF Tick, history
<1>3. ASSUME NEW r \in Request,
             \/ \E tag \in Source : Start(r, tag)
             \/ Respond(r)
             \/ Drop(r)
             \/ \E op \in Operation, big \in BOOLEAN : CallProvider(r, op, big)
             \/ Step(r)
      PROVE  Budget'
  <2>1. PICK c : /\ RecOK(c)
                 /\ req' = [req EXCEPT ![r] = c]
                 /\ c.pc = "check" => c.op = req[r].op /\ c.at = req[r].at
    BY <1>3, RecStep
  <2>2. \A q \in Request : req'[q] = IF q = r THEN c ELSE req[q]
    BY <2>1 DEF Shape
  <2>3. /\ \A q \in Request : q # r => (q \in Pending' <=> q \in Pending)
        /\ r \in Pending' => req'[r].pc = "check" /\ At(r) \in Real
    BY <2>1, <2>2 DEF Pending, At
  <2>4. Pending' \subseteq Request /\ Pending \subseteq Request
    BY DEF Pending
  <2>5. CASE CasBudget(r)
    <3>1. CASE usedCalls = req[r].seen
      <4>1. usedCalls' = usedCalls + 1 /\ made' = made
        BY <2>5, <3>1 DEF CasBudget, history
      <4>2. usedCalls < MaxCallsPerRun
        <5>1. RecOK(req[r]) /\ req[r].pc = "cas"
          BY <2>5 DEF CasBudget, Shape
        <5> QED
          BY <3>1, <5>1 DEF RecOK
      <4>3. Pending' \subseteq Pending \cup {r}
        BY <2>3, <2>4
      <4>4. /\ IsFiniteSet(Pending \cup {r})
            /\ Cardinality(Pending \cup {r}) \in Nat
            /\ Cardinality(Pending \cup {r}) <= Cardinality(Pending) + 1
        <5>1. /\ IsFiniteSet(Pending \cup {r})
              /\ \/ Cardinality(Pending \cup {r}) = Cardinality(Pending)
                 \/ Cardinality(Pending \cup {r}) = Cardinality(Pending) + 1
          BY <1>a, FS_AddElement
        <5> QED
          BY <1>a, <5>1
      <4>5. Cardinality(Pending') <= Cardinality(Pending) + 1
        <5>1. Cardinality(Pending') <= Cardinality(Pending \cup {r})
          BY <4>3, <4>4, FS_Subset
        <5> QED
          BY <1>a, <4>4, <5>1
      <4>6. /\ made + Cardinality(Pending') <= usedCalls + 1
            /\ usedCalls + 1 <= MaxCallsPerRun
        BY <1>a, <1>b, <4>2, <4>5
      <4> QED
        BY <4>1, <4>6 DEF Budget
    <3>2. CASE usedCalls # req[r].seen
      <4>1. req' = [req EXCEPT ![r] = [req[r] EXCEPT !.pc = "load"]]
        BY <2>5, <3>2 DEF CasBudget, Becomes
      <4>2. req'[r].pc = "load"
        BY <4>1 DEF Shape, Req
      <4>3. Pending' \subseteq Pending
        BY <2>3, <2>4, <4>2
      <4> QED
        BY <1>c, <2>5, <3>2, <4>3 DEF CasBudget, history
    <3> QED
      BY <3>1, <3>2
  <2>6. CASE Admit(r)
    <3>1. req'[r].pc = "attempt"
      BY <2>6 DEF Admit, Becomes, Shape, Req
    <3>2. r \notin Pending'
      BY <2>3, <3>1
    <3>3. CASE At(r) \in Real
      <4>1. r \in Pending
        BY <2>6, <3>3 DEF Admit, Pending
      <4>2. Pending' \subseteq Pending \ {r}
        BY <2>3, <2>4, <3>2
      <4>3. /\ IsFiniteSet(Pending \ {r})
            /\ Cardinality(Pending \ {r}) = Cardinality(Pending) - 1
        BY <1>a, <4>1, FS_RemoveElement
      <4>4. Cardinality(Pending') <= Cardinality(Pending) - 1
        <5>1. Cardinality(Pending') <= Cardinality(Pending \ {r})
          BY <4>2, <4>3, FS_Subset
        <5> QED
          BY <4>3, <5>1
      <4>5. made' = made + 1 /\ usedCalls' = usedCalls
        BY <2>6, <3>3 DEF Admit
      <4>6. (made + 1) + Cardinality(Pending') <= usedCalls
        BY <1>a, <1>b, <4>4
      <4> QED
        BY <1>b, <4>5, <4>6 DEF Budget
    <3>4. CASE At(r) \notin Real
      <4>1. Pending' \subseteq Pending
        BY <2>3, <2>4, <3>2
      <4> QED
        BY <1>c, <2>6, <3>4, <4>1 DEF Admit, history
    <3> QED
      BY <3>3, <3>4
  <2>7. CASE Guard(r)
    <3>1. CASE Return(r)
      <4>1. PICK d : d.pc = "handler" /\ req' = [req EXCEPT ![r] = d]
        BY <3>1, ReturnStep
      <4>2. req'[r].pc = "handler"
        BY <4>1 DEF Shape
      <4>3. Pending' \subseteq Pending
        BY <2>3, <2>4, <4>2
      <4> QED
        BY <1>c, <2>7, <4>3 DEF Guard, history
    <3>2. CASE At(r) \notin Real
      <4>1. Pending' \subseteq Pending
        BY <2>3, <2>4, <3>2
      <4> QED
        BY <1>c, <2>7, <4>1 DEF Guard, history
    <3>3. CASE Becomes(r, [req[r] EXCEPT !.pc = "load"])
      <4>1. req'[r].pc = "load"
        BY <3>3 DEF Becomes, Shape, Req
      <4>2. Pending' \subseteq Pending
        BY <2>3, <2>4, <4>1
      <4> QED
        BY <1>c, <2>7, <4>2 DEF Guard, history
    <3> QED
      BY <2>7, <3>1, <3>2, <3>3 DEF Guard
  <2>8. CASE ~(CasBudget(r) \/ Admit(r) \/ Guard(r))
    <3>1. UNCHANGED <<made, usedCalls>>
      BY <1>3, <2>8 DEF Step, Start, Respond, Drop, CallProvider,
         LoadBudget, Block, Succeed, Exhausted, Retry, RetryAttempt, Fatal,
         history
    <3>2. req'[r].pc # "check"
      <4>1. CASE \E tag \in Source : Start(r, tag)
        BY <4>1, FreshOK DEF Start, Becomes, Shape
      <4>2. CASE Respond(r) \/ Drop(r)
        BY <4>2, FreshOK DEF Respond, Drop, Becomes, Shape
      <4>3. CASE \E op \in Operation, big \in BOOLEAN :
                   CallProvider(r, op, big)
        BY <4>3 DEF CallProvider, Becomes, Shape, Req
      <4>4. CASE LoadBudget(r)
        <5>1. CASE Return(r)
          BY <5>1, ReturnStep DEF Shape
        <5>2. CASE Becomes(r, [req[r] EXCEPT !.pc = "cas",
                                             !.seen = usedCalls])
          BY <5>2 DEF Becomes, Shape, Req
        <5> QED
          BY <4>4, <5>1, <5>2 DEF LoadBudget
      <4>5. CASE Block(r) \/ Exhausted(r)
        BY <4>5, FallbackStep DEF Block, Exhausted, Shape
      <4>6. CASE Succeed(r) \/ Fatal(r)
        BY <4>6, ReturnStep DEF Succeed, Fatal, Shape
      <4>7. CASE Retry(r)
        BY <4>7 DEF Retry, Becomes, Shape, Req
      <4>8. CASE RetryAttempt(r)
        BY <4>8 DEF RetryAttempt, Becomes, Shape, Req
      <4> QED
        BY <1>3, <2>8, <4>1, <4>2, <4>3, <4>4, <4>5, <4>6, <4>7, <4>8
           DEF Step
    <3>3. Pending' \subseteq Pending
      BY <2>3, <2>4, <3>2
    <3> QED
      BY <1>c, <3>1, <3>3
  <2> QED
    BY <2>5, <2>6, <2>7, <2>8
<1> QED
  BY <1>1, <1>2, <1>3 DEF Next

\* try_consume never sells more than max_calls_per_run calls, however many
\* requests race for them.
THEOREM CallBudget == Spec => []BudgetRespected
<1>1. Init => Budget
  <2> SUFFICES ASSUME Init PROVE Budget
    OBVIOUS
  <2>1. Pending = {}
    BY FreshOK DEF Init, Pending
  <2>2. Cardinality(Pending) = 0
    BY <2>1, FS_EmptySet
  <2> QED
    BY <2>2, RouterConstants DEF Init, Budget
<1>2. Shape /\ Budget => BudgetRespected
  <2> SUFFICES ASSUME Shape, Budget PROVE BudgetRespected
    OBVIOUS
  <2>1. Cardinality(Pending) \in Nat
    <3>1. Pending \subseteq Request
      BY DEF Pending
    <3> QED
      BY <3>1, RouterConstants, FS_Subset, FS_CardinalityType
  <2> QED
    BY <2>1, RouterConstants DEF Shape, Budget, BudgetRespected
<1> QED
  BY ShapeInit, ShapeStep, BudgetStep, <1>1, <1>2, PTL DEF Spec

-----------------------------------------------------------------------------
(* Settling: what refuses a call.                                          *)

\* Request r is between check_allow and the outcome of its call.
InFlight(r) == req[r].pc \in {"attempt", "backoff"}

\* A half-open circuit has a call in flight that will decide it, unless a
\* call has left it so without reporting.
Decided ==
  \A k \in Key : circuits[k].state = "half_open" /\ k \notin leaked =>
                   \E q \in Request : InFlight(q) /\ KeyOf(q) = k

\* A breaker that is not enabled leaves every circuit closed.
Inert == ~BreakerEnabled => \A k \in Key : circuits[k].state = "closed"

\* check_allow refuses a call when the circuit is, and stays, open or
\* half-open: the call that finds it cooled takes the first probe slot.
LEMMA RefusedState ==
  ASSUME NEW e \in Circuit, ~Allows(e)
  PROVE  /\ BreakerEnabled
         /\ \/ CheckAllow(e).state = "open"
            \/ CheckAllow(e) = e /\ e.state = "half_open"
<1>1. BreakerEnabled
  BY DEF Allows
<1>2. CASE e.state = "open" /\ e.wait = 0
  <2> DEFINE f == [e EXCEPT !.state = "half_open", !.probes = 0]
  <2>1. MaybeHalfOpen(e) = f
    BY <1>2 DEF MaybeHalfOpen
  <2>2. f.state = "half_open" /\ f.probes = 0
    BY DEF Circuit
  <2>3. 0 < HalfOpenMaxCalls
    BY BreakerConstants
  <2>4. Allows(e)
    BY <2>1, <2>2, <2>3 DEF Allows
  <2> QED
    BY <2>4
<1>3. CASE ~(e.state = "open" /\ e.wait = 0)
  <2>1. MaybeHalfOpen(e) = e
    BY <1>3 DEF MaybeHalfOpen
  <2>2. CheckAllow(e) = e
    BY <1>1, <2>1 DEF CheckAllow
  <2>3. e.state # "closed"
    BY <2>1 DEF Allows
  <2> QED
    BY <1>1, <2>2, <2>3 DEF Circuit
<1> QED
  BY <1>2, <1>3

\* An outcome that is reported closes a half-open circuit or opens it.
LEMMA ReportedState ==
  ASSUME NEW e \in Circuit, BreakerEnabled
  PROVE  /\ RecordSuccess(e).state # "half_open"
         /\ RecordFailure(e).state # "half_open"
<1>1. RecordSuccess(e).state = "closed"
  BY DEF RecordSuccess, NewCircuit
<1>2. CASE e.state = "open"
  BY <1>1, <1>2 DEF RecordFailure
<1>3. \A f \in Circuit : Opened(f).state = "open"
  BY DEF Opened, Circuit
<1>4. CASE e.state = "half_open"
  BY <1>1, <1>3, <1>4 DEF RecordFailure
<1>5. CASE e.state = "closed"
  <2> DEFINE f == [e EXCEPT !.failures = @ + 1]
  <2>1. f \in Circuit /\ f.state = "closed"
    BY <1>5 DEF Circuit
  <2>2. RecordFailure(e) = Opened(f) \/ RecordFailure(e) = f
    BY <1>5 DEF RecordFailure
  <2> HIDE DEF f
  <2> QED
    BY <1>1, <1>3, <2>1, <2>2
<1> QED
  BY <1>1, <1>2, <1>4, <1>5 DEF Circuit

\* Without the breaker, no operation touches an entry.
LEMMA InertOps ==
  ASSUME ~BreakerEnabled, NEW e
  PROVE  CheckAllow(e) = e /\ RecordSuccess(e) = e /\ RecordFailure(e) = e
BY DEF CheckAllow, RecordSuccess, RecordFailure

\* A step of request r concerns its own circuit only, and tells the others
\* and their calls nothing.
LEMMA OtherCircuits ==
  ASSUME Shape, NEW r \in Request,
         \/ \E tag \in Source : Start(r, tag)
         \/ Respond(r)
         \/ Drop(r)
         \/ \E op \in Operation, big \in BOOLEAN : CallProvider(r, op, big)
         \/ Step(r)
  PROVE  /\ \A q \in Request \ {r} : /\ InFlight(q)' = InFlight(q)
                                     /\ KeyOf(q)' = KeyOf(q)
         /\ \A k \in Key \ {KeyOf(r)} : circuits'[k] = circuits[k]
         /\ leaked \subseteq leaked'
<1>1. PICK c : req' = [req EXCEPT ![r] = c]
  BY RecStep
<1>2. \A q \in Request \ {r} : req'[q] = req[q]
  BY <1>1 DEF Shape
<1>3. \A q \in Request \ {r} : InFlight(q)' = InFlight(q) /\ KeyOf(q)' = KeyOf(q)
  BY <1>2 DEF InFlight, KeyOf, At
<1>4. \/ UNCHANGED circuits
      \/ circuits' = [circuits EXCEPT ![KeyOf(r)] = CheckAllow(@)]
      \/ circuits' = [circuits EXCEPT ![KeyOf(r)] = RecordSuccess(@)]
      \/ circuits' = [circuits EXCEPT ![KeyOf(r)] = RecordFailure(@)]
  BY DEF Step, Start, Respond, Drop, CallProvider, Guard, LoadBudget,
     CasBudget, Admit, Block, Succeed, Exhausted, Retry, RetryAttempt, Fatal
<1>5. \A k \in Key \ {KeyOf(r)} : circuits'[k] = circuits[k]
  BY <1>4 DEF Shape
<1>6. Unreported(r) \/ UNCHANGED leaked
  BY DEF Step, Start, Respond, Drop, CallProvider, Guard, LoadBudget,
     CasBudget, Admit, Block, Succeed, Exhausted, Retry, RetryAttempt, Fatal,
     history
<1>7. leaked \subseteq leaked'
  BY <1>6 DEF Unreported
<1> QED
  BY <1>3, <1>5, <1>7

\* Every call that ends with a half-open circuit has reported, or is
\* remembered as one that has not.
LEMMA DecidedStep ==
  Shape /\ Decided /\ Inert /\ [Next]_vars => Decided' /\ Inert'
<1> SUFFICES ASSUME Shape, Decided, Inert, [Next]_vars PROVE Decided' /\ Inert'
  OBVIOUS
<1>1. CASE UNCHANGED vars
  BY <1>1 DEF Decided, Inert, InFlight, KeyOf, At, vars
<1>2. CASE Tick
  <2>1. \A k \in Key : circuits'[k].state = circuits[k].state
    BY <1>2 DEF Tick, Cooled, Shape, Circuit
  <2>2. leaked' = leaked /\ req' = req
    BY <1>2 DEF Tick, history
  <2> QED
    BY <2>1, <2>2 DEF Decided, Inert, InFlight, KeyOf, At
<1>3. ASSUME NEW r \in Request,
             \/ \E tag \in Source : Start(r, tag)
             \/ Respond(r)
             \/ Drop(r)
             \/ \E op \in Operation, big \in BOOLEAN : CallProvider(r, op, big)
             \/ Step(r)
      PROVE  Decided' /\ Inert'
  <2> DEFINE key == KeyOf(r)
  <2>a. key \in Key
    BY KeyOfKey
  <2>b. circuits[key] \in Circuit
    BY <2>a DEF Shape
  <2>c. req[r] \in Req
    BY DEF Shape
  <2>1. /\ \A q \in Request \ {r} : /\ InFlight(q)' = InFlight(q)
                                    /\ KeyOf(q)' = KeyOf(q)
        /\ \A k \in Key \ {key} : circuits'[k] = circuits[k]
        /\ leaked \subseteq leaked'
    BY <1>3, OtherCircuits
  <2>2. Inert'
    <3> SUFFICES ASSUME ~BreakerEnabled, NEW k \in Key
                 PROVE  circuits'[k].state = "closed"
      BY DEF Inert
    <3>1. \/ UNCHANGED circuits
          \/ circuits' = [circuits EXCEPT ![key] = CheckAllow(@)]
          \/ circuits' = [circuits EXCEPT ![key] = RecordSuccess(@)]
          \/ circuits' = [circuits EXCEPT ![key] = RecordFailure(@)]
      BY <1>3 DEF Step, Start, Respond, Drop, CallProvider, Guard, LoadBudget,
         CasBudget, Admit, Block, Succeed, Exhausted, Retry, RetryAttempt, Fatal
    <3>2. circuits'[k] = circuits[k]
      BY <3>1, InertOps DEF Shape
    <3> QED
      BY <3>2 DEF Inert
  <2>3. ASSUME InFlight(r), ~(InFlight(r)' /\ key' = key),
               circuits'[key].state = "half_open", key \notin leaked'
        PROVE  FALSE
    <3>1. CASE Drop(r) \/ Fatal(r)
      <4>1. Unreported(r) /\ circuits' = circuits
        BY <2>3, <3>1 DEF Drop, Fatal, InFlight
      <4> QED
        BY <2>3, <4>1 DEF Unreported
    <3>2. CASE Succeed(r) \/ Exhausted(r)
      <4>1. \/ circuits'[key] = RecordSuccess(circuits[key])
            \/ circuits'[key] = RecordFailure(circuits[key])
        BY <2>a, <3>2 DEF Succeed, Exhausted, Shape
      <4>2. CASE BreakerEnabled
        BY <2>3, <2>b, <4>1, <4>2, ReportedState
      <4>3. CASE ~BreakerEnabled
        BY <2>3, <2>2, <2>a, <4>3 DEF Inert
      <4> QED
        BY <4>2, <4>3
    <3>3. CASE Retry(r) \/ RetryAttempt(r)
      <4>1. /\ req'[r].pc \in {"attempt", "backoff"}
            /\ req'[r].op = req[r].op /\ req'[r].at = req[r].at
        <5>1. PICK d : /\ req' = [req EXCEPT ![r] = d]
                       /\ \/ d = [req[r] EXCEPT !.pc = "backoff"]
                          \/ d = [req[r] EXCEPT !.pc = "attempt",
                                                !.tries = @ + 1]
          BY <3>3 DEF Retry, RetryAttempt, Becomes
        <5>2. req'[r] = d
          BY <5>1 DEF Shape
        <5> QED
          BY <2>c, <5>1, <5>2 DEF Req
      <4> QED
        BY <2>3, <4>1 DEF InFlight, KeyOf, At
    <3> QED
      BY <1>3, <2>3, <3>1, <3>2, <3>3 DEF Step, InFlight, Start, Respond,
         CallProvider, Guard, LoadBudget, CasBudget, Admit, Block
  <2>4. ASSUME ~InFlight(r), circuits'[key].state = "half_open",
               circuits'[key] # circuits[key]
        PROVE  InFlight(r)' /\ key' = key
    <3>1. CASE Admit(r)
      <4>1. /\ req'[r].pc = "attempt"
            /\ req'[r].op = req[r].op /\ req'[r].at = req[r].at
        BY <2>c, <3>1 DEF Admit, Becomes, Shape, Req
      <4> QED
        BY <4>1 DEF InFlight, KeyOf, At
    <3>2. CASE Block(r)
      <4>1. circuits'[key] = CheckAllow(circuits[key]) /\ ~Allows(circuits[key])
        BY <2>a, <3>2 DEF Block, Shape
      <4> QED
        BY <2>4, <2>b, <4>1, RefusedState
    <3>3. UNCHANGED circuits \/ Admit(r) \/ Block(r)
      BY <1>3, <2>4 DEF Step, InFlight, Start, Respond, Drop, CallProvider,
         Guard, LoadBudget, CasBudget, Succeed, Exhausted, Retry, RetryAttempt,
         Fatal
    <3> QED
      BY <2>4, <3>1, <3>2, <3>3
  <2>5. ASSUME NEW k \in Key, circuits'[k].state = "half_open", k \notin leaked'
        PROVE  \E q \in Request : InFlight(q)' /\ KeyOf(q)' = k
    <3>1. CASE k # key
      <4>1. circuits[k].state = "half_open" /\ k \notin leaked
        BY <2>1, <2>5, <3>1
      <4>2. PICK q \in Request : InFlight(q) /\ KeyOf(q) = k
        BY <4>1 DEF Decided
      <4> QED
        BY <2>1, <3>1, <4>2
    <3>2. CASE k = key /\ ~(InFlight(r)' /\ key' = key)
      <4>1. ~InFlight(r)
        BY <2>3, <2>5, <3>2
      <4>2. circuits'[key] = circuits[key]
        BY <2>4, <2>5, <3>2, <4>1
      <4>3. circuits[k].state = "half_open" /\ k \notin leaked
        BY <2>1, <2>5, <3>2, <4>2
      <4>4. PICK q \in Request : InFlight(q) /\ KeyOf(q) = k
        BY <4>3 DEF Decided
      <4>5. q # r
        BY <4>1, <4>4
      <4> QED
        BY <2>1, <4>4, <4>5
    <3>3. CASE k = key /\ InFlight(r)' /\ key' = key
      BY <3>3
    <3> QED
      BY <3>1, <3>2, <3>3
  <2> QED
    BY <2>2, <2>5 DEF Decided
<1> QED
  BY <1>1, <1>2, <1>3 DEF Next

\* What a refusal rests on in the state it is made in.
LEMMA BlockIsJustified ==
  ASSUME Shape, Decided, NEW r \in Request, Block(r)
  PROVE  \/ circuits'[KeyOf(r)].state = "open"
         \/ KeyOf(r) \in leaked
         \/ \E q \in Request : /\ KeyOf(q) = KeyOf(r)
                               /\ req[q].pc \in {"attempt", "backoff"}
<1>1. KeyOf(r) \in Key /\ circuits[KeyOf(r)] \in Circuit
  BY KeyOfKey DEF Shape
<1>2. circuits'[KeyOf(r)] = CheckAllow(circuits[KeyOf(r)])
  BY <1>1 DEF Block, Shape
<1>3. \/ circuits'[KeyOf(r)].state = "open"
      \/ circuits[KeyOf(r)].state = "half_open"
  BY <1>1, <1>2, RefusedState DEF Block
<1> QED
  BY <1>1, <1>3 DEF Decided, InFlight

\* "provider circuit is open" is said of an open circuit, or of a half-open
\* one that a call in flight is about to decide or that a call has left so
\* without reporting: a breaker never refuses for ever for no reason.
THEOREM RefusalsAreJustified == Spec => RefusalJustified
<1>1. Init => Decided /\ Inert
  <2>1. NewCircuit.state = "closed"
    BY DEF NewCircuit
  <2> QED
    BY <2>1 DEF Init, Decided, Inert
<1>2. Shape /\ Decided /\ [Next]_vars =>
        [\A r \in Request :
           Block(r) =>
             \/ circuits'[KeyOf(r)].state = "open"
             \/ KeyOf(r) \in leaked
             \/ \E q \in Request : /\ KeyOf(q) = KeyOf(r)
                                   /\ req[q].pc \in {"attempt", "backoff"}]_vars
  BY BlockIsJustified
<1> QED
  BY ShapeInit, ShapeStep, DecidedStep, <1>1, <1>2, PTL DEF Spec, RefusalJustified

-----------------------------------------------------------------------------
(* Attempts: what a call in flight may still send.                         *)

\* A request in flight has made an attempt, and waits to make another one
\* only while its retry policy allows one more.
TriesOK ==
  \A r \in Request :
    /\ InFlight(r) => req[r].tries \in 1..TotalAttempts
    /\ req[r].pc = "backoff" => req[r].tries < TotalAttempts

\* The attempts, numbered, that real calls in flight have not made yet.
Ahead(r) ==
  IF InFlight(r) /\ At(r) \in Real
  THEN {i \in 1..TotalAttempts : i > req[r].tries} ELSE {}

Slots == {s \in Request \X (1..TotalAttempts) : s[2] \in Ahead(s[1])}

\* Every attempt made or still ahead belongs to a call that was begun.
Attempts == TriesOK /\ sent + Cardinality(Slots) <= made * TotalAttempts

\* The attempts ahead can be counted.
LEMMA SlotsFinite ==
  /\ IsFiniteSet(Slots) /\ Cardinality(Slots) \in Nat
  /\ IsFiniteSet(Slots') /\ Cardinality(Slots') \in Nat
<1>1. IsFiniteSet(1..TotalAttempts)
  BY RouterConstants, FS_Interval
<1>2. IsFiniteSet(Request \X (1..TotalAttempts))
  BY <1>1, RouterConstants, FS_Product
<1>3. /\ Slots \subseteq Request \X (1..TotalAttempts)
      /\ Slots' \subseteq Request \X (1..TotalAttempts)
  BY DEF Slots
<1> QED
  BY <1>2, <1>3, FS_Subset, FS_CardinalityType

\* Only the attempts of a request that moves change.
LEMMA SlotsFrame ==
  ASSUME NEW r \in Request,
         \A q \in Request \ {r} : Ahead(q)' = Ahead(q)
  PROVE  /\ Ahead(r)' \subseteq Ahead(r) => Slots' \subseteq Slots
         /\ Slots' \subseteq Slots \cup ({r} \X Ahead(r)')
         /\ Ahead(r)' \subseteq Ahead(r) =>
              \A i \in 1..TotalAttempts :
                i \notin Ahead(r)' => Slots' \subseteq Slots \ {<<r, i>>}
BY DEF Slots

\* One attempt more for each call begun, at most TotalAttempts of them.
LEMMA OneCallMore ==
  ASSUME NEW s \in Nat, NEW m \in Nat, NEW n \in Nat, NEW n2 \in Nat,
         NEW t \in Nat \ {0}, s + n <= m * t, n2 <= n + (t - 1)
  PROVE  (s + 1) + n2 <= (m + 1) * t
<1>1. (m + 1) * t = m * t + t
  OBVIOUS
<1>2. m * t \in Nat
  OBVIOUS
<1> QED
  BY <1>1, <1>2

\* After check_allow a call has all its attempts but one ahead of it.
LEMMA NewCallSlots ==
  ASSUME NEW r \in Request, Slots' \subseteq Slots \cup ({r} \X Ahead(r)'),
         Ahead(r)' \subseteq 2..TotalAttempts
  PROVE  Cardinality(Slots') <= Cardinality(Slots) + (TotalAttempts - 1)
<1> DEFINE N == {r} \X (2..TotalAttempts)
<1>0. TotalAttempts \in Nat /\ TotalAttempts >= 1
  BY RouterConstants
<1>1. IsFiniteSet({r}) /\ Cardinality({r}) = 1
  BY FS_Singleton
<1>2. IsFiniteSet(2..TotalAttempts) /\
      Cardinality(2..TotalAttempts) = TotalAttempts - 1
  <2>1. 2 \in Int /\ TotalAttempts \in Int
    BY <1>0
  <2>2. /\ IsFiniteSet(2..TotalAttempts)
        /\ Cardinality(2..TotalAttempts) =
             IF 2 > TotalAttempts THEN 0 ELSE TotalAttempts - 2 + 1
    BY <2>1, FS_Interval
  <2> QED
    BY <1>0, <2>2
<1>3. IsFiniteSet(N) /\ Cardinality(N) = 1 * (TotalAttempts - 1)
  <2> DEFINE A == {r}  B == 2..TotalAttempts
  <2>1. IsFiniteSet(A) /\ IsFiniteSet(B) /\ N = A \X B
        /\ Cardinality(A) = 1 /\ Cardinality(B) = TotalAttempts - 1
    BY <1>1, <1>2
  <2> HIDE DEF A, B, N
  <2>2. IsFiniteSet(A \X B) /\ Cardinality(A \X B) = Cardinality(A) * Cardinality(B)
    BY <2>1, FS_Product
  <2> QED
    BY <2>1, <2>2
<1>4. Slots' \subseteq Slots \cup N
  <2> {r} \X Ahead(r)' \subseteq N
    OBVIOUS
  <2> QED
    OBVIOUS
<1> HIDE DEF N
<1>5. IsFiniteSet(Slots \cup N) /\
      Cardinality(Slots \cup N) =
        Cardinality(Slots) + Cardinality(N) - Cardinality(Slots \cap N)
  BY <1>3, SlotsFinite, FS_Union
<1>6. Cardinality(Slots \cap N) \in Nat
  <2>1. IsFiniteSet(Slots \cap N)
    BY SlotsFinite, FS_Subset
  <2> QED
    BY <2>1, FS_CardinalityType
<1>7. Cardinality(Slots') <= Cardinality(Slots \cup N)
  BY <1>4, <1>5, FS_Subset
<1> QED
  BY <1>0, <1>3, <1>5, <1>6, <1>7, SlotsFinite

\* A step that begins no attempt and puts none ahead.
LEMMA AttemptsKept ==
  ASSUME Attempts, TriesOK', Slots' \subseteq Slots,
         UNCHANGED <<made, sent>>, Shape
  PROVE  Attempts'
<1>1. Cardinality(Slots') <= Cardinality(Slots)
  BY SlotsFinite, FS_Subset
<1>2. /\ sent \in Nat /\ made \in Nat /\ TotalAttempts \in Nat
      /\ sent + Cardinality(Slots) <= made * TotalAttempts
  BY RouterConstants DEF Shape, Attempts
<1>3. made * TotalAttempts \in Nat
  BY <1>2
<1>4. sent + Cardinality(Slots') <= made * TotalAttempts
  BY <1>1, <1>2, <1>3, SlotsFinite
<1> QED
  BY <1>4 DEF Attempts

\* A step that leaves r with the record c.
LEMMA TriesFrame ==
  ASSUME Shape, TriesOK, NEW r \in Request, NEW c,
         req' = [req EXCEPT ![r] = c],
         c.pc \in {"attempt", "backoff"} => c.tries \in 1..TotalAttempts,
         c.pc = "backoff" => c.tries < TotalAttempts
  PROVE  TriesOK' /\ \A q \in Request \ {r} : Ahead(q)' = Ahead(q)
<1>1. \A q \in Request : req'[q] = IF q = r THEN c ELSE req[q]
  BY DEF Shape
<1> QED
  BY <1>1 DEF TriesOK, InFlight, Ahead, At

\* execute_provider_call makes total_attempts() attempts at most: it gives up
\* after the last, and the count starts again only with another call.
LEMMA AttemptsStep == Shape /\ Attempts /\ [Next]_vars => Attempts'
<1> SUFFICES ASSUME Shape, Attempts, [Next]_vars PROVE Attempts'
  OBVIOUS
<1>0. TriesOK
  BY DEF Attempts
<1>1. CASE UNCHANGED <<req, made, sent>>
  <2>1. Slots' = Slots /\ TriesOK'
    BY <1>0, <1>1 DEF Slots, Ahead, InFlight, At, TriesOK
  <2> QED
    BY <1>1, <2>1, AttemptsKept
<1>2. ASSUME NEW r \in Request,
             \/ \E tag \in Source : Start(r, tag)
             \/ Respond(r)
             \/ Drop(r)
             \/ \E op \in Operation, big \in BOOLEAN : CallProvider(r, op, big)
             \/ Step(r)
      PROVE  Attempts'
  <2>0. req[r] \in Req /\ req[r].tries \in Nat
    BY DEF Shape, Req
  <2>1. CASE Admit(r)
    <3>1. PICK c : /\ req' = [req EXCEPT ![r] = c]
                   /\ c = [req[r] EXCEPT !.pc = "attempt", !.tries = 1]
      BY <2>1 DEF Admit, Becomes
    <3>2. /\ c.pc = "attempt" /\ c.tries = 1
          /\ c.op = req[r].op /\ c.at = req[r].at
      BY <2>0, <3>1 DEF Req
    <3>3. TriesOK' /\ \A q \in Request \ {r} : Ahead(q)' = Ahead(q)
      <4>1. 1 \in 1..TotalAttempts
        BY RouterConstants
      <4> QED
        BY <1>0, <3>1, <3>2, <4>1, TriesFrame
    <3>4. req'[r] = c
      BY <3>1 DEF Shape
    <3>5. At(r)' = At(r)
      BY <3>2, <3>4 DEF At
    <3>6. CASE At(r) \in Real
      <4>1. Ahead(r)' \subseteq 2..TotalAttempts
        BY <3>2, <3>4, RouterConstants DEF Ahead
      <4>2. Slots' \subseteq Slots \cup ({r} \X Ahead(r)')
        BY <3>3, SlotsFrame
      <4>3. Cardinality(Slots') <= Cardinality(Slots) + (TotalAttempts - 1)
        BY <4>1, <4>2, NewCallSlots
      <4>4. made' = made + 1 /\ sent' = sent + 1
        BY <2>1, <3>6 DEF Admit
      <4>5. /\ sent \in Nat /\ made \in Nat /\ TotalAttempts \in Nat \ {0}
            /\ sent + Cardinality(Slots) <= made * TotalAttempts
        BY RouterConstants DEF Shape, Attempts
      <4>6. (sent + 1) + Cardinality(Slots') <= (made + 1) * TotalAttempts
        BY <4>3, <4>5, SlotsFinite, OneCallMore
      <4> QED
        BY <3>3, <4>4, <4>6 DEF Attempts
    <3>7. CASE At(r) \notin Real
      <4>1. Ahead(r)' = {}
        BY <3>5, <3>7 DEF Ahead
      <4>2. Slots' \subseteq Slots
        BY <3>3, <4>1, SlotsFrame
      <4> QED
        BY <2>1, <3>3, <3>7, <4>2, AttemptsKept DEF Admit, history
    <3> QED
      BY <3>6, <3>7
  <2>2. CASE RetryAttempt(r)
    <3>0. PICK n : n = req[r].tries + 1
      OBVIOUS
    <3>1. PICK c : /\ req' = [req EXCEPT ![r] = c]
                   /\ c = [req[r] EXCEPT !.pc = "attempt", !.tries = n]
      BY <2>2, <3>0 DEF RetryAttempt, Becomes
    <3>2. /\ c.pc = "attempt" /\ c.tries = n
          /\ c.op = req[r].op /\ c.at = req[r].at
      BY <2>0, <3>1 DEF Req
    <3>a. /\ req[r].tries < TotalAttempts /\ InFlight(r)
          /\ TotalAttempts \in Nat
      BY <1>0, <2>2, RouterConstants DEF RetryAttempt, TriesOK, InFlight
    <3>b. n \in 1..TotalAttempts
      BY <2>0, <3>0, <3>a
    <3>3. TriesOK' /\ \A q \in Request \ {r} : Ahead(q)' = Ahead(q)
      BY <1>0, <3>1, <3>2, <3>b, TriesFrame
    <3>4. req'[r] = c
      BY <3>1 DEF Shape
    <3>5. At(r)' = At(r)
      BY <3>2, <3>4 DEF At
    <3>6. Ahead(r)' \subseteq Ahead(r)
      BY <2>0, <3>0, <3>2, <3>4, <3>5, <3>a DEF Ahead
    <3>7. CASE At(r) \in Real
      <4>1. n \notin Ahead(r)' /\ n \in Ahead(r)
        BY <2>0, <3>0, <3>2, <3>4, <3>7, <3>a, <3>b DEF Ahead
      <4>2. Slots' \subseteq Slots \ {<<r, n>>}
        BY <3>3, <3>6, <3>b, <4>1, SlotsFrame
      <4>3. <<r, n>> \in Slots
        BY <3>b, <4>1 DEF Slots
      <4>4. Cardinality(Slots') <= Cardinality(Slots) - 1
        <5>1. /\ IsFiniteSet(Slots \ {<<r, n>>})
              /\ Cardinality(Slots \ {<<r, n>>}) = Cardinality(Slots) - 1
          BY <4>3, SlotsFinite, FS_RemoveElement
        <5>2. Cardinality(Slots') <= Cardinality(Slots \ {<<r, n>>})
          BY <4>2, <5>1, FS_Subset
        <5> QED
          BY <5>1, <5>2
      <4>5. sent' = sent + 1 /\ made' = made
        BY <2>2, <3>7 DEF RetryAttempt
      <4>6. /\ sent \in Nat /\ made \in Nat /\ TotalAttempts \in Nat
            /\ sent + Cardinality(Slots) <= made * TotalAttempts
        BY RouterConstants DEF Shape, Attempts
      <4>7. made * TotalAttempts \in Nat
        BY <4>6
      <4>8. (sent + 1) + Cardinality(Slots') <= made * TotalAttempts
        BY <4>4, <4>6, <4>7, SlotsFinite
      <4> QED
        BY <3>3, <4>5, <4>8 DEF Attempts
    <3>8. CASE At(r) \notin Real
      <4>1. Slots' \subseteq Slots
        BY <3>3, <3>6, SlotsFrame
      <4> QED
        BY <2>2, <3>3, <3>8, <4>1, AttemptsKept DEF RetryAttempt
    <3> QED
      BY <3>7, <3>8
  <2>3. CASE Retry(r)
    <3>1. PICK c : /\ req' = [req EXCEPT ![r] = c]
                   /\ c = [req[r] EXCEPT !.pc = "backoff"]
      BY <2>3 DEF Retry, Becomes
    <3>2. /\ c.pc = "backoff" /\ c.tries = req[r].tries
          /\ c.op = req[r].op /\ c.at = req[r].at
      BY <2>0, <3>1 DEF Req
    <3>3. InFlight(r) /\ req[r].tries < TotalAttempts
      BY <2>3 DEF Retry, InFlight
    <3>4. TriesOK' /\ \A q \in Request \ {r} : Ahead(q)' = Ahead(q)
      <4>1. req[r].tries \in 1..TotalAttempts
        BY <1>0, <3>3 DEF TriesOK
      <4> QED
        BY <1>0, <3>1, <3>2, <3>3, <4>1, TriesFrame
    <3>5. req'[r] = c
      BY <3>1 DEF Shape
    <3>6. Ahead(r)' \subseteq Ahead(r)
      BY <3>2, <3>3, <3>5 DEF Ahead, At
    <3>7. Slots' \subseteq Slots
      BY <3>4, <3>6, SlotsFrame
    <3> QED
      BY <2>3, <3>4, <3>7, AttemptsKept DEF Retry, history
  <2>4. CASE ~(Admit(r) \/ RetryAttempt(r) \/ Retry(r))
    <3>1. UNCHANGED <<made, sent>>
      BY <1>2, <2>4 DEF Step, Start, Respond, Drop, CallProvider, Guard,
         LoadBudget, CasBudget, Block, Succeed, Exhausted, Fatal, history
    <3>2. PICK c : req' = [req EXCEPT ![r] = c] /\ ~(c.pc \in {"attempt", "backoff"})
      <4>1. PICK d : RecOK(d) /\ req' = [req EXCEPT ![r] = d]
        BY <1>2, RecStep
      <4>2. req'[r] = d
        BY <4>1 DEF Shape
      <4>a. ASSUME NEW p \in {"handler", "guard", "load", "cas", "check"},
                   NEW n, NEW e, e = [req[r] EXCEPT !.pc = p]
                            \/ e = [req[r] EXCEPT !.pc = p, !.seen = n],
                   Becomes(r, e)
            PROVE  d.pc = p
        <5>1. e.pc = p
          BY <2>0, <4>a DEF Req
        <5>2. req'[r] = e
          BY <4>a DEF Becomes, Shape
        <5> QED
          BY <4>2, <5>1, <5>2
      <4>3. CASE \E tag \in Source : Start(r, tag)
        <5>1. d.pc = "handler"
          BY <4>2, <4>3, FreshOK DEF Start, Becomes, Shape
        <5> QED
          BY <4>1, <5>1
      <4>4. CASE Respond(r) \/ Drop(r)
        <5>1. d.pc = "idle"
          BY <4>2, <4>4, FreshOK DEF Respond, Drop, Becomes, Shape
        <5> QED
          BY <4>1, <5>1
      <4>5. CASE \E op \in Operation, big \in BOOLEAN :
                   CallProvider(r, op, big)
        <5>1. d.pc = "guard"
          <6>1. PICK o \in Operation, b \in BOOLEAN :
                  req' = [req EXCEPT ![r] =
                            [req[r] EXCEPT !.pc = "guard", !.src = source,
                                           !.op = o, !.big = b]]
            BY <4>5 DEF CallProvider, Becomes
          <6>2. d = [req[r] EXCEPT !.pc = "guard", !.src = source,
                                   !.op = o, !.big = b]
            BY <4>2, <6>1 DEF Shape
          <6> QED
            BY <2>0, <6>2 DEF Req
        <5> QED
          BY <4>1, <5>1
      <4>6. CASE Return(r) \/ Fallback(r)
        <5>1. d.pc \in {"handler", "guard"}
          BY <4>2, <4>6, ReturnStep, FallbackStep DEF Shape
        <5> QED
          BY <4>1, <5>1
      <4>7. CASE Guard(r)
        <5>1. \/ Return(r)
              \/ Becomes(r, [req[r] EXCEPT !.pc = "check"])
              \/ Becomes(r, [req[r] EXCEPT !.pc = "load"])
          BY <4>7 DEF Guard
        <5>2. Return(r) \/ d.pc \in {"check", "load"}
          BY <5>1, <4>a
        <5> QED
          BY <4>1, <4>6, <5>2
      <4>8. CASE LoadBudget(r) \/ CasBudget(r)
        <5>1. \/ Return(r)
              \/ Becomes(r, [req[r] EXCEPT !.pc = "cas", !.seen = usedCalls])
              \/ Becomes(r, [req[r] EXCEPT !.pc = "check"])
              \/ Becomes(r, [req[r] EXCEPT !.pc = "load"])
          BY <4>8 DEF LoadBudget, CasBudget
        <5>2. Return(r) \/ d.pc \in {"cas", "check", "load"}
          BY <5>1, <4>a
        <5> QED
          BY <4>1, <4>6, <5>2
      <4> QED
        BY <1>2, <2>4, <4>3, <4>4, <4>5, <4>6, <4>7, <4>8
           DEF Step, Block, Succeed, Exhausted, Fatal
    <3>3. TriesOK' /\ \A q \in Request \ {r} : Ahead(q)' = Ahead(q)
      BY <1>0, <3>2, TriesFrame
    <3>4. req'[r] = c
      BY <3>2 DEF Shape
    <3>5. Ahead(r)' = {}
      BY <3>2, <3>4 DEF Ahead, InFlight
    <3>6. Slots' \subseteq Slots
      BY <3>3, <3>5, SlotsFrame
    <3> QED
      BY <3>1, <3>3, <3>6, AttemptsKept
  <2> QED
    BY <2>1, <2>2, <2>3, <2>4
<1> QED
  BY <1>1, <1>2 DEF Next, Tick, history, vars

\* The circuits are ones the breaker can leave behind and nothing is sent
\* more often than the retry policy says: what a call that was paid for once
\* may cost is total_attempts() attempts, with any number of calls in flight.
THEOREM RouterIsSound == Spec => []RouterSound
<1>1. Init => Attempts
  <2> SUFFICES ASSUME Init PROVE Attempts
    OBVIOUS
  <2>1. \A r \in Request : ~InFlight(r) /\ req[r].pc # "backoff"
    BY FreshOK DEF Init, InFlight
  <2>2. Slots = {}
    BY <2>1 DEF Slots, Ahead
  <2>3. Cardinality(Slots) = 0
    BY <2>2, FS_EmptySet
  <2>4. made = 0 /\ sent = 0
    BY DEF Init
  <2> QED
    BY <2>1, <2>3, <2>4, RouterConstants DEF Attempts, TriesOK
<1>2. Shape /\ Attempts => RouterSound
  <2> SUFFICES ASSUME Shape, Attempts PROVE RouterSound
    OBVIOUS
  <2>1. TypeOK /\ CircuitsOK
    BY DEF Shape, TypeOK, RecOK
  <2>2. /\ sent \in Nat /\ made \in Nat /\ TotalAttempts \in Nat
        /\ sent + Cardinality(Slots) <= made * TotalAttempts
    BY RouterConstants DEF Shape, Attempts
  <2>3. made * TotalAttempts \in Nat
    BY <2>2
  <2>4. sent <= made * TotalAttempts
    BY <2>2, <2>3, SlotsFinite
  <2> QED
    BY <2>1, <2>4 DEF RouterSound, AttemptsBounded
<1> QED
  BY ShapeInit, ShapeStep, AttemptsStep, <1>1, <1>2, PTL DEF Spec

=============================================================================
