-------------------------- MODULE SagaRunner_proofs --------------------------
(* Proofs about SagaRunner: the retry budgets from the inductive invariant *)
(* IInv, and that it implements the error flow of the README.              *)
EXTENDS SagaRunner, TLAPS

USE RouteAssumption, RetryAssumption, RejectionAssumption

(* An action that ends the handling of m calls no function.                *)
LEMMA EndStep ==
  ASSUME IInv, NEW m \in Messages, NEW how \in Ends, End(m, how),
         asleep' \in [Messages -> BOOLEAN], ~asleep'[m],
         \A n \in Messages : n # m => asleep'[n] = asleep[n]
  PROVE  /\ at' \in [Messages -> {"queued"} \cup Functions \cup Ends]
         /\ attempt' \in [Messages -> 0 .. MaxRetries]
         /\ calls' \in [Messages -> [Functions -> Nat]]
         /\ CallsCounted' /\ RetryBudget' /\ HookAfterBudget'
<1> USE DEF IInv, TypeOK, End
<1>1. /\ at' \in [Messages -> {"queued"} \cup Functions \cup Ends]
      /\ attempt' \in [Messages -> 0 .. MaxRetries]
      /\ calls' \in [Messages -> [Functions -> Nat]]
  BY DEF Ends
<1>2. CallsCounted'
  BY DEF CallsCounted, Ends
<1>3. RetryBudget' /\ HookAfterBudget'
  BY DEF RetryBudget, HookAfterBudget
<1> QED
  BY <1>1, <1>2, <1>3

(* A call of function f that fits its budget and comes in its turn.        *)
LEMMA CallStep ==
  ASSUME IInv, NEW m \in Messages, NEW f \in Functions, NEW n \in 0 .. MaxRetries,
         Call(m, f, n),
         asleep' \in [Messages -> BOOLEAN], ~asleep'[m],
         \A x \in Messages : x # m => asleep'[x] = asleep[x],
         calls[m][f] = n,
         f \in {"hook", "plain"} => n = 0,
         f = "handler" => calls[m]["onFail"] = 0,
         f # "plain" => calls[m]["hook"] = 0,
         f = "plain" => \A g \in Functions : calls[m][g] = 0,
         f = "hook" => \/ calls[m]["onFail"] = MaxRetries + 1
                       \/ /\ calls[m]["onFail"] = 0
                          /\ calls[m]["handler"] = MaxRetries + 1
  PROVE  /\ at' \in [Messages -> {"queued"} \cup Functions \cup Ends]
         /\ attempt' \in [Messages -> 0 .. MaxRetries]
         /\ calls' \in [Messages -> [Functions -> Nat]]
         /\ CallsCounted' /\ RetryBudget' /\ HookAfterBudget'
<1> USE DEF IInv, TypeOK, Call, Functions
<1>1. /\ at' \in [Messages -> {"queued"} \cup Functions \cup Ends]
      /\ attempt' \in [Messages -> 0 .. MaxRetries]
      /\ calls' \in [Messages -> [Functions -> Nat]]
  OBVIOUS
<1>2. \A x \in Messages : x # m =>
        at'[x] = at[x] /\ attempt'[x] = attempt[x] /\ calls'[x] = calls[x]
  OBVIOUS
<1>3. /\ at'[m] = f /\ attempt'[m] = n /\ calls'[m][f] = n + 1
      /\ \A g \in Functions : g # f => calls'[m][g] = calls[m][g]
  OBVIOUS
<1>4. CallsCounted'
  <2> SUFFICES ASSUME NEW x \in Messages, x = m
      PROVE /\ at'[x] = "queued" => \A g \in Functions : calls'[x][g] = 0
            /\ at'[x] = "handler" => /\ calls'[x]["handler"] = attempt'[x] + 1
                                     /\ calls'[x]["onFail"] = 0
                                     /\ calls'[x]["hook"] = 0
            /\ at'[x] = "onFail" => /\ calls'[x]["onFail"] = attempt'[x] + 1
                                    /\ calls'[x]["hook"] = 0
            /\ asleep'[x] => at'[x] \in {"handler", "onFail"} /\ attempt'[x] < MaxRetries
    BY <1>2 DEF CallsCounted
  <2> QED
    BY <1>3
<1>5. RetryBudget'
  <2> SUFFICES ASSUME NEW x \in Messages, x = m
      PROVE /\ calls'[x]["handler"] <= MaxRetries + 1
            /\ calls'[x]["onFail"] <= MaxRetries + 1
            /\ calls'[x]["hook"] <= 1
            /\ calls'[x]["plain"] <= 1
    BY <1>2 DEF RetryBudget
  <2> QED
    BY <1>3 DEF RetryBudget
<1>6. HookAfterBudget'
  <2> SUFFICES ASSUME NEW x \in Messages, x = m, calls'[x]["hook"] > 0
      PROVE calls'[x][IF calls'[x]["onFail"] > 0 THEN "onFail" ELSE "handler"] = MaxRetries + 1
    BY <1>2 DEF HookAfterBudget
  <2> QED
    BY <1>3
<1> QED
  BY <1>1, <1>4, <1>5, <1>6

-----------------------------------------------------------------------------

(* Initially nothing has been delivered.                                   *)
LEMMA InitInductive == Init => IInv
<1> SUFFICES ASSUME Init PROVE IInv
  OBVIOUS
<1>1. TypeOK
  BY DEF Init, TypeOK
<1>2. CallsCounted
  BY DEF Init, CallsCounted, Functions
<1>3. RetryBudget /\ HookAfterBudget
  BY DEF Init, RetryBudget, HookAfterBudget, Functions
<1> QED
  BY <1>1, <1>2, <1>3 DEF IInv

(* An error that no retry answers: the next function gets its turn.        *)
LEMMA FatalInductive ==
  ASSUME IInv, NEW m \in Messages, Fatal(m), UNCHANGED <<producer, asleep, emitted>>
  PROVE  IInv'
<1> USE DEF IInv
<1>1. ~asleep[m] /\ asleep' = asleep /\ asleep \in [Messages -> BOOLEAN]
  BY DEF Fatal, Running, TypeOK
<1>2. rejections' \in 0 .. MaxRejections
  BY DEF Fatal, TypeOK
<1>3. CASE \E how \in Ends : End(m, how)
  BY <1>1, <1>2, <1>3, EndStep DEF TypeOK
<1>4. CASE at[m] = "handler" /\ Call(m, "onFail", 0)
  <2>1. calls[m]["onFail"] = 0 /\ calls[m]["hook"] = 0
    BY <1>4 DEF CallsCounted
  <2>2. "onFail" \in Functions /\ 0 \in 0 .. MaxRetries
    BY DEF Functions
  <2> QED
    BY <1>1, <1>2, <1>4, <2>1, <2>2, CallStep DEF TypeOK
<1> QED
  BY <1>3, <1>4 DEF Fatal, Running, Ends

(* An error that is retried, or that exhausts the budget of its function.  *)
LEMMA ThrowRetryableInductive ==
  ASSUME IInv, NEW m \in Messages, ThrowRetryable(m)
  PROVE  IInv'
<1> USE DEF IInv
<1>1. /\ at[m] \in {"handler", "onFail"} /\ ~asleep[m]
      /\ UNCHANGED <<producer, emitted, rejections>>
      /\ asleep \in [Messages -> BOOLEAN]
  BY DEF ThrowRetryable, Running, TypeOK
<1>2. CASE attempt[m] < MaxRetries
  <2>1. asleep' = [asleep EXCEPT ![m] = TRUE] /\ UNCHANGED <<at, attempt, calls>>
    BY <1>2 DEF ThrowRetryable
  <2>2. TypeOK'
    BY <1>1, <2>1 DEF TypeOK
  <2>3. CallsCounted' /\ RetryBudget' /\ HookAfterBudget'
    BY <1>1, <1>2, <2>1 DEF CallsCounted, RetryBudget, HookAfterBudget, TypeOK
  <2> QED
    BY <2>2, <2>3
<1>3. CASE ~(attempt[m] < MaxRetries)
  <2>1. Exhausted(m) /\ asleep' = asleep /\ attempt[m] = MaxRetries
    <3>1. Exhausted(m) /\ asleep' = asleep
      BY <1>3, Zenon DEF ThrowRetryable
    <3>2. attempt[m] \in 0 .. MaxRetries
      BY DEF TypeOK
    <3>3. attempt[m] = MaxRetries
      BY <1>3, <3>2
    <3> QED
      BY <3>1, <3>3
  <2>2. CASE End(m, "logged")
    BY <1>1, <2>1, <2>2, EndStep DEF TypeOK, Ends
  <2>3. CASE Call(m, "hook", 0)
    <3>1. /\ calls[m]["hook"] = 0
          /\ \/ calls[m]["onFail"] = MaxRetries + 1
             \/ calls[m]["onFail"] = 0 /\ calls[m]["handler"] = MaxRetries + 1
      BY <1>1, <2>1 DEF CallsCounted
    <3>2. "hook" \in Functions /\ 0 \in 0 .. MaxRetries
      BY DEF Functions
    <3>3. asleep' \in [Messages -> BOOLEAN] /\ ~asleep'[m]
      BY <1>1, <2>1
    <3>4. /\ at' \in [Messages -> {"queued"} \cup Functions \cup Ends]
          /\ attempt' \in [Messages -> 0 .. MaxRetries]
          /\ calls' \in [Messages -> [Functions -> Nat]]
          /\ CallsCounted' /\ RetryBudget' /\ HookAfterBudget'
      <4> HIDE DEF IInv
      <4> QED
        BY <2>1, <2>3, <3>1, <3>2, <3>3, CallStep
    <3>5. TypeOK'
      BY <1>1, <3>3, <3>4 DEF TypeOK
    <3> QED
      BY <3>4, <3>5
  <2> QED
    BY <2>1, <2>2, <2>3 DEF Exhausted
<1> QED
  BY <1>2, <1>3

(* A backoff that is over calls the same function for its next attempt.    *)
LEMMA WakeInductive ==
  ASSUME IInv, NEW m \in Messages, Wake(m)
  PROVE  IInv'
<1> USE DEF IInv
<1>1. /\ at[m] \in {"handler", "onFail"}
      /\ attempt[m] + 1 \in 0 .. MaxRetries
      /\ calls[m][at[m]] = attempt[m] + 1
      /\ calls[m]["hook"] = 0
      /\ at[m] = "handler" => calls[m]["onFail"] = 0
  BY DEF Wake, CallsCounted, TypeOK
<1>2. /\ asleep' = [asleep EXCEPT ![m] = FALSE]
      /\ Call(m, at[m], attempt[m] + 1)
      /\ UNCHANGED <<producer, emitted, rejections>>
      /\ asleep \in [Messages -> BOOLEAN]
  BY DEF Wake, TypeOK
<1>3. at[m] \in Functions /\ at[m] \notin {"hook", "plain"}
  BY <1>1 DEF Functions
<1> QED
  BY <1>1, <1>2, <1>3, CallStep DEF TypeOK

(* A message that is delivered starts with nothing called.                 *)
LEMMA DeliverInductive ==
  ASSUME IInv, NEW m \in Messages, Deliver(m) \/ Redeliver(m)
  PROVE  IInv'
<1> USE DEF IInv
<1>1. CASE Deliver(m)
  <2>1. /\ \A f \in Functions : calls[m][f] = 0
        /\ ~asleep[m] /\ asleep' = asleep /\ asleep \in [Messages -> BOOLEAN]
        /\ UNCHANGED <<producer, emitted, rejections>>
    BY <1>1 DEF Deliver, CallsCounted, TypeOK
  <2>2. \/ \E f \in {"handler", "plain"} : Call(m, f, 0)
        \/ End(m, "skipped")
    BY <1>1 DEF Deliver, Routes
  <2>3. CASE End(m, "skipped")
    BY <2>1, <2>3, EndStep DEF TypeOK, Ends
  <2>4. ASSUME NEW f \in {"handler", "plain"}, Call(m, f, 0) PROVE IInv'
    <3>1. f \in Functions /\ "onFail" \in Functions /\ "hook" \in Functions
      BY DEF Functions
    <3> QED
      BY <2>1, <2>4, <3>1, CallStep DEF TypeOK
  <2> QED
    BY <2>2, <2>3, <2>4
<1>2. CASE Redeliver(m)
  <2>1. TypeOK'
    BY <1>2 DEF Redeliver, TypeOK
  <2>2. CallsCounted' /\ RetryBudget' /\ HookAfterBudget'
    BY <1>2 DEF Redeliver, TypeOK, CallsCounted, RetryBudget, HookAfterBudget, Functions
  <2> QED
    BY <2>1, <2>2
<1> QED
  BY <1>1, <1>2

(* Publishing, and the stop of the producer, concern no call.              *)
LEMMA PublishInductive ==
  ASSUME IInv, \/ Stop
               \/ \E m \in Messages : Emit(m) \/ EmitInContext(m)
  PROVE  IInv'
<1> USE DEF IInv
<1>1. UNCHANGED <<at, asleep, attempt, calls, rejections>>
  BY DEF Stop, Emit, EmitInContext, Publish
<1>2. producer' \in {"open", "closed"}
  BY DEF Stop, Emit, EmitInContext, Publish, TypeOK
<1>3. emitted' \in [Messages -> Emissions \cup {NoEmission}]
  <2>1. CASE Stop
    BY <2>1 DEF Stop, TypeOK
  <2>2. ASSUME NEW m \in Messages, NEW e \in Emissions, Publish(m, e)
        PROVE  emitted' \in [Messages -> Emissions \cup {NoEmission}]
    BY <2>2 DEF Publish, TypeOK
  <2>3. \A m \in Messages, h \in {"none", "compensation"} : Emitted(m, h) \in Emissions
    BY DEF Emitted, Emissions, Hints
  <2>4. \A h \in {"none", "compensation"} :
          /\ [via |-> "context", hint |-> h, saga |-> "own"] \in Emissions
          /\ [via |-> "parent", hint |-> h, saga |-> "parent"] \in Emissions
    BY DEF Emissions, Hints
  <2> QED
    BY <2>1, <2>2, <2>3, <2>4 DEF Emit, EmitInContext
<1> QED
  BY <1>1, <1>2, <1>3 DEF TypeOK, CallsCounted, RetryBudget, HookAfterBudget

(* Every step keeps the inductive invariant.                               *)
LEMMA IInvStep == IInv /\ [Next]_vars => IInv'
<1> SUFFICES ASSUME IInv, [Next]_vars PROVE IInv'
  OBVIOUS
<1>1. ASSUME NEW m \in Messages, Return(m) PROVE IInv'
  BY <1>1, EndStep DEF Return, Running, Ends, IInv, TypeOK
<1>2. ASSUME NEW m \in Messages, ThrowFatal(m) PROVE IInv'
  BY <1>2, FatalInductive DEF ThrowFatal, IInv, TypeOK
<1>3. ASSUME NEW m \in Messages, EmitFails(m) PROVE IInv'
  BY <1>3, FatalInductive DEF EmitFails, IInv, TypeOK
<1>4. CASE UNCHANGED vars
  BY <1>4 DEF vars, IInv, TypeOK, CallsCounted, RetryBudget, HookAfterBudget
<1> QED
  BY <1>1, <1>2, <1>3, <1>4, ThrowRetryableInductive, WakeInductive,
     DeliverInductive, PublishInductive DEF Next

(* The inductive invariant holds in every reachable state.                 *)
THEOREM Invariance == Spec => []IInv
BY InitInductive, IInvStep, PTL DEF Spec

(* The variables of the runner always have their types.                    *)
THEOREM TypeCorrect == Spec => []TypeOK
<1>1. IInv => TypeOK
  BY DEF IInv
<1> QED
  BY <1>1, Invariance, PTL

(* executeWithRetry never exceeds the budget of the handler or of onFail.  *)
THEOREM BudgetsKept == Spec => []RetryBudget
<1>1. IInv => RetryBudget
  BY DEF IInv
<1> QED
  BY <1>1, Invariance, PTL

(* onRetryExhausted is called after a whole budget and never before.       *)
THEOREM HookComesLast == Spec => []HookAfterBudget
<1>1. IInv => HookAfterBudget
  BY DEF IInv
<1> QED
  BY <1>1, Invariance, PTL

-----------------------------------------------------------------------------

USE DEF RouteHasOnFail, RouteHasHook, RouteIsFork, RouteIsFinal

(* A step that takes one message from one phase of the flow to another.    *)
LEMMA MoveStep ==
  ASSUME IInv, NEW m \in Messages, NEW to,
         \A n \in Messages : n # m => at'[n] = at[n],
         FlowOf(m)' = to, UNCHANGED emitted
  PROVE  Flow!Move(m, FlowOf(m), to)
BY DEF Flow!Move, FlowOf

(* A step that leaves every message where it is is a stutter of the flow.  *)
LEMMA SameFlow ==
  ASSUME \A m \in Messages : at'[m] = at[m]
  PROVE  UNCHANGED [m \in Messages |-> FlowOf(m)]
BY DEF FlowOf

(* Which steps of the flow the handling of a message takes.                *)
LEMMA FatalRefines ==
  ASSUME IInv, NEW m \in Messages, Fatal(m), UNCHANGED emitted
  PROVE  Flow!Next
<1> USE DEF IInv
<1>1. \A n \in Messages : n # m => at'[n] = at[n]
  BY DEF Fatal, Call, End, TypeOK
<1>2. CASE at[m] = "handler" /\ RouteOf[m].onFail
  <2>1. FlowOf(m) = "handle" /\ FlowOf(m)' = "compensate"
    BY <1>2 DEF Fatal, Running, Call, FlowOf, TypeOK
  <2> QED
    BY <1>1, <1>2, <2>1, MoveStep DEF Flow!Next, Flow!Fail
<1>3. CASE at[m] = "handler" /\ ~RouteOf[m].onFail
  <2>1. FlowOf(m) = "handle" /\ FlowOf(m)' = "done"
    BY <1>3 DEF Fatal, Running, End, FlowOf, TypeOK
  <2> QED
    BY <1>1, <2>1, MoveStep DEF Flow!Next, Flow!Finish
<1>4. CASE at[m] = "onFail"
  <2>1. FlowOf(m) = "compensate" /\ FlowOf(m)' = "done"
    BY <1>4 DEF Fatal, Running, End, FlowOf, TypeOK
  <2> QED
    BY <1>1, <2>1, MoveStep DEF Flow!Next, Flow!Finish
<1>5. CASE at[m] \in {"hook", "plain"}
  <2>1. FlowOf(m) \in {"exhausted", "plain"} /\ FlowOf(m)' = "rejected"
    BY <1>5 DEF Fatal, Running, End, FlowOf, TypeOK
  <2> QED
    BY <1>1, <2>1, MoveStep DEF Flow!Next, Flow!Unprotected
<1> QED
  BY <1>2, <1>3, <1>4, <1>5 DEF Fatal, Running

(* A retryable error: a retry is a stutter, the last one a step.           *)
LEMMA ThrowRetryableRefines ==
  ASSUME IInv, NEW m \in Messages, ThrowRetryable(m)
  PROVE  Flow!Next \/ UNCHANGED [n \in Messages |-> FlowOf(n)]
<1> USE DEF IInv
<1>1. at[m] \in {"handler", "onFail"} /\ UNCHANGED emitted
  BY DEF ThrowRetryable, Running
<1>2. CASE UNCHANGED at
  BY <1>2, SameFlow
<1>3. CASE Exhausted(m)
  <2>1. \A n \in Messages : n # m => at'[n] = at[n]
    BY <1>3 DEF Exhausted, Call, End, TypeOK
  <2>2. FlowOf(m) \in {"handle", "compensate"}
    BY <1>1 DEF FlowOf
  <2>3. CASE RouteOf[m].hook
    <3>1. FlowOf(m)' = "exhausted"
      BY <1>3, <2>3 DEF Exhausted, Call, FlowOf, TypeOK
    <3> QED
      BY <1>1, <2>1, <2>2, <2>3, <3>1, MoveStep DEF Flow!Next, Flow!Exhaust
  <2>4. CASE ~RouteOf[m].hook
    <3>1. FlowOf(m)' = "done"
      BY <1>3, <2>4 DEF Exhausted, End, FlowOf, TypeOK
    <3> QED
      BY <1>1, <2>1, <2>2, <3>1, MoveStep DEF Flow!Next, Flow!Finish
  <2> QED
    BY <2>3, <2>4
<1> QED
  BY <1>2, <1>3, Zenon DEF ThrowRetryable

(* A delivery.                                                             *)
LEMMA DeliverRefines ==
  ASSUME IInv, NEW m \in Messages, Deliver(m)
  PROVE  Flow!Next
<1> USE DEF IInv
<1>1. UNCHANGED emitted /\ \A n \in Messages : n # m => at'[n] = at[n]
  BY DEF Deliver, Call, End, TypeOK, Routes
<1>2. FlowOf(m) = "queued"
  BY DEF Deliver, FlowOf
<1>3. FlowOf(m)' \in {"handle", "plain", "done"}
  BY DEF Deliver, Call, End, FlowOf, TypeOK, Routes
<1> QED
  BY <1>1, <1>2, <1>3, MoveStep DEF Flow!Next, Flow!Begin

(* A return of the function at work.                                       *)
LEMMA ReturnRefines ==
  ASSUME IInv, NEW m \in Messages, Return(m)
  PROVE  Flow!Next
<1> USE DEF IInv
<1>1. UNCHANGED emitted /\ \A n \in Messages : n # m => at'[n] = at[n]
  BY DEF Return, End, TypeOK
<1>2. FlowOf(m) \in {"handle", "compensate", "exhausted", "plain"}
  BY DEF Return, Running, Functions, FlowOf
<1>3. FlowOf(m)' = "done"
  BY DEF Return, End, FlowOf, TypeOK
<1> QED
  BY <1>1, <1>2, <1>3, MoveStep DEF Flow!Next, Flow!Finish, Flow!Unprotected

(* A redelivery.                                                           *)
LEMMA RedeliverRefines ==
  ASSUME IInv, NEW m \in Messages, Redeliver(m)
  PROVE  Flow!Next
<1> USE DEF IInv
<1>1. UNCHANGED emitted /\ \A n \in Messages : n # m => at'[n] = at[n]
  BY DEF Redeliver, TypeOK
<1>2. FlowOf(m) = "rejected" /\ FlowOf(m)' = "queued"
  BY DEF Redeliver, FlowOf, TypeOK
<1> QED
  BY <1>1, <1>2, MoveStep DEF Flow!Next, Flow!Redeliver

(* A publication: by a function that works on the message, and marked as   *)
(* the options of its route say when it goes through the given emit.       *)
LEMMA PublishRefines ==
  ASSUME NEW m \in Messages, Emit(m) \/ EmitInContext(m)
  PROVE  Flow!Next
<1>1. FlowOf(m) \in {"handle", "compensate", "exhausted"} /\ UNCHANGED at
  BY DEF Emit, EmitInContext, Publish, Running, Functions, FlowOf
<1>2. PICK e \in Emissions :
        /\ e.via = "emit" => Flow!Marked(m, e)
        /\ emitted' = [emitted EXCEPT ![m] = e]
  <2>1. ASSUME NEW h \in {"none", "compensation"}
        PROVE  Emitted(m, h) \in Emissions /\ Flow!Marked(m, Emitted(m, h))
    BY DEF Emitted, Emissions, Hints, Flow!Marked
  <2>2. ASSUME NEW h \in {"none", "compensation"}
        PROVE  /\ [via |-> "context", hint |-> h, saga |-> "own"] \in Emissions
               /\ [via |-> "parent", hint |-> h, saga |-> "parent"] \in Emissions
    BY DEF Emissions, Hints
  <2>3. CASE Emit(m)
    BY <2>1, <2>3 DEF Emit, Publish
  <2>4. CASE EmitInContext(m)
    BY <2>2, <2>4 DEF EmitInContext, Publish
  <2> QED
    BY <2>3, <2>4
<1>3. UNCHANGED [n \in Messages |-> FlowOf(n)]
  BY <1>1, SameFlow
<1>4. Flow!Publish(m)
  BY <1>1, <1>2, <1>3 DEF Flow!Publish
<1> QED
  BY <1>4 DEF Flow!Next

(* SagaRunner implements the error flow that the README draws, and marks   *)
(* what is published as its options say.                                   *)
THEOREM Refinement == Spec => ImplementsErrorFlow
<1>1. Init => Flow!Init
  BY DEF Init, Flow!Init, FlowOf
<1>2. IInv /\ [Next]_vars => [Flow!Next]_Flow!vars
  <2> SUFFICES ASSUME IInv, [Next]_vars
               PROVE  Flow!Next \/ UNCHANGED <<[m \in Messages |-> FlowOf(m)], emitted>>
    BY DEF Flow!vars
  <2>1. CASE UNCHANGED <<at, emitted>>
    BY <2>1, SameFlow
  <2>2. ASSUME NEW m \in Messages, ThrowRetryable(m) PROVE UNCHANGED emitted
    BY <2>2 DEF ThrowRetryable
  <2>3. ASSUME NEW m \in Messages, Wake(m) PROVE UNCHANGED <<at, emitted>>
    BY <2>3 DEF Wake, Call, IInv, TypeOK
  <2>4. ASSUME NEW m \in Messages, ThrowFatal(m) \/ EmitFails(m)
        PROVE  Fatal(m) /\ UNCHANGED emitted
    BY <2>4 DEF ThrowFatal, EmitFails
  <2>5. CASE Stop
    BY <2>1, <2>5 DEF Stop
  <2>6. CASE UNCHANGED vars
    BY <2>1, <2>6 DEF vars
  <2> QED
    BY <2>1, <2>2, <2>3, <2>4, <2>5, <2>6, FatalRefines, ThrowRetryableRefines,
       PublishRefines, DeliverRefines, ReturnRefines, RedeliverRefines DEF Next
<1> QED
  BY <1>1, <1>2, Invariance, PTL DEF Spec, Flow!Spec, ImplementsErrorFlow

=============================================================================
