----------------------------- MODULE SagaRunner -----------------------------
(***************************************************************************)
(* SagaRunner.handleMessage (saga-core/src/runner/saga-runner.ts): routing *)
(* of a message, the retry loop around the handler, onFail and             *)
(* onRetryExhausted, and the emit function they are given.                 *)
(*                                                                         *)
(* Several messages are in progress at once (the lanes of the transport):  *)
(* the runner keeps no state between them, and they share the producer of  *)
(* the transport, which SagaRunner.stop disconnects before the consumer    *)
(* has finished (KafkaTransport.disconnect).                               *)
(*                                                                         *)
(* External: participants.  Their functions emit any number of events,     *)
(* through the emit they are given or through the publisher and the saga   *)
(* context, await what they emit, and return, throw SagaRetryableError or  *)
(* throw anything else.  Payloads, tracing and logging are left out, and   *)
(* so is the length of a backoff: only its order matters here.             *)
(***************************************************************************)
EXTENDS Integers

CONSTANTS
    Messages,       \* messages handed over by the transport
    RouteOf,        \* for each message, what its topic is routed to
    MaxRetries,     \* RunnerOptions.retryPolicy.maxRetries
    MaxRejections   \* bound on redeliveries and on failures of the broker

(* What handleMessage decides from the route entry and the parser: the     *)
(* saga handler gets messages that parse as saga events, the plain handler *)
(* those that do not; "none" is everything else.                           *)
Routes == [kind : {"saga", "plain", "none"}, final : BOOLEAN, fork : BOOLEAN,
           onFail : BOOLEAN, hook : BOOLEAN]

ASSUME RouteAssumption == RouteOf \in [Messages -> Routes]
ASSUME RetryAssumption == MaxRetries \in Nat
ASSUME RejectionAssumption == MaxRejections \in Nat

VARIABLES
    producer,   \* "open", or "closed" by SagaRunner.stop
    at,         \* which function of the participant works on a message
    asleep,     \* is the retry loop between two attempts
    attempt,    \* the attempt counter of executeWithRetry
    calls,      \* history: calls of each function in this delivery
    emitted,    \* history: the last event that was published for a message
    rejections  \* redeliveries and broker failures so far

vars == <<producer, at, asleep, attempt, calls, emitted, rejections>>

Functions == {"handler", "onFail", "hook", "plain"}
Ends == {"done", "logged", "skipped", "rejected"}
Hints == {"none", "compensation", "final", "fork"}

Emissions == [via : {"emit", "context", "parent"}, hint : Hints,
              saga : {"own", "sub", "parent"}]
NoEmission == [via |-> "emit", hint |-> "none", saga |-> "none"]

TypeOK ==
    /\ producer \in {"open", "closed"}
    /\ at \in [Messages -> {"queued"} \cup Functions \cup Ends]
    /\ asleep \in [Messages -> BOOLEAN]
    /\ attempt \in [Messages -> 0 .. MaxRetries]
    /\ calls \in [Messages -> [Functions -> Nat]]
    /\ emitted \in [Messages -> Emissions \cup {NoEmission}]
    /\ rejections \in 0 .. MaxRejections

Init ==
    /\ producer = "open"
    /\ at = [m \in Messages |-> "queued"]
    /\ asleep = [m \in Messages |-> FALSE]
    /\ attempt = [m \in Messages |-> 0]
    /\ calls = [m \in Messages |-> [f \in Functions |-> 0]]
    /\ emitted = [m \in Messages |-> NoEmission]
    /\ rejections = 0

-----------------------------------------------------------------------------

(* A function of the participant is running for message m.                 *)
Running(m, f) == at[m] = f /\ ~asleep[m]

(* Function f is called for m: with a fresh attempt counter, except by the *)
(* retry loop itself.                                                      *)
Call(m, f, n) ==
    /\ at' = [at EXCEPT ![m] = f]
    /\ attempt' = [attempt EXCEPT ![m] = n]
    /\ calls' = [calls EXCEPT ![m][f] = @ + 1]

(* handleMessage ends for m: the transport takes m as handled, unless      *)
(* handleMessage has thrown.                                               *)
End(m, how) ==
    /\ at' = [at EXCEPT ![m] = how]
    /\ attempt' = [attempt EXCEPT ![m] = 0]
    /\ UNCHANGED calls

(* handleMessage: parse, look the route up, call the handler for the kind. *)
Deliver(m) ==
    /\ at[m] = "queued"
    /\ CASE RouteOf[m].kind = "saga" -> Call(m, "handler", 0)
         [] RouteOf[m].kind = "plain" -> Call(m, "plain", 0)
         [] OTHER -> End(m, "skipped")
    /\ UNCHANGED <<producer, asleep, emitted, rejections>>

-----------------------------------------------------------------------------
(* What the emit given to handler, onFail and onRetryExhausted does to the *)
(* hint of an event: a fork starts a sub-saga per event, a final handler   *)
(* overwrites the hint.                                                    *)
Emitted(m, hint) ==
    IF RouteOf[m].fork THEN [via |-> "emit", hint |-> "fork", saga |-> "sub"]
    ELSE [via |-> "emit", hint |-> IF RouteOf[m].final THEN "final" ELSE hint,
          saga |-> "own"]

Publish(m, event) ==
    /\ producer = "open"
    /\ emitted' = [emitted EXCEPT ![m] = event]
    /\ UNCHANGED <<producer, at, asleep, attempt, calls, rejections>>

Emit(m) ==
    /\ \E f \in Functions \ {"plain"} : Running(m, f)
    /\ \E hint \in {"none", "compensation"} : Publish(m, Emitted(m, hint))

(* SagaPublisher.emit and emitToParent, called by a function that runs in  *)
(* the context of the message: they do not know about fork and final.      *)
EmitInContext(m) ==
    /\ \E f \in Functions \ {"plain"} : Running(m, f)
    /\ \E hint \in {"none", "compensation"} :
         \/ Publish(m, [via |-> "context", hint |-> hint, saga |-> "own"])
         \/ Publish(m, [via |-> "parent", hint |-> hint, saga |-> "parent"])

-----------------------------------------------------------------------------

(* The function returns: executeWithRetry and everything above it return.  *)
Return(m) ==
    /\ \E f \in Functions : Running(m, f)
    /\ End(m, "done")
    /\ UNCHANGED <<producer, asleep, emitted, rejections>>

(* Mutant: without a hook, the error goes up to the transport.             *)
Mutant_ExhaustedThrows(m) ==
    IF RouteOf[m].hook THEN Call(m, "hook", 0) ELSE End(m, "rejected")

(* callOnRetryExhausted, after the last attempt of handler or onFail.      *)
Exhausted(m) ==
    IF RouteOf[m].hook THEN Call(m, "hook", 0) ELSE End(m, "logged")

(* executeWithRetry: SagaRetryableError sleeps and tries again while the   *)
(* policy of the runner allows, whatever the maxRetries of the error.      *)
ThrowRetryable(m) ==
    /\ \E f \in {"handler", "onFail"} : Running(m, f)
    /\ IF attempt[m] < MaxRetries
       THEN /\ asleep' = [asleep EXCEPT ![m] = TRUE]
            /\ UNCHANGED <<at, attempt, calls>>
       ELSE /\ Exhausted(m)
            /\ UNCHANGED asleep
    /\ UNCHANGED <<producer, emitted, rejections>>

(* Mutant: the backoff of onFail is never over.                            *)
Mutant_WakeHandlerOnly(m) ==
    /\ asleep[m] /\ at[m] = "handler"
    /\ asleep' = [asleep EXCEPT ![m] = FALSE]
    /\ Call(m, at[m], attempt[m] + 1)
    /\ UNCHANGED <<producer, emitted, rejections>>

(* The backoff is over: the same function is called again.                 *)
Wake(m) ==
    /\ asleep[m]
    /\ asleep' = [asleep EXCEPT ![m] = FALSE]
    /\ Call(m, at[m], attempt[m] + 1)
    /\ UNCHANGED <<producer, emitted, rejections>>

(* Mutant: an error of onFail goes to onFail again.                        *)
Mutant_FatalLoopsOnFail(m) ==
    /\ Running(m, "handler") \/ Running(m, "onFail")
    /\ IF RouteOf[m].onFail THEN Call(m, "onFail", 0) ELSE End(m, "logged")
    /\ UNCHANGED rejections

(* Mutant: any error of onFail counts as exhausted.                        *)
Mutant_FatalExhausts(m) ==
    /\ Running(m, "handler") \/ Running(m, "onFail")
    /\ IF RouteOf[m].onFail /\ at[m] = "handler" THEN Call(m, "onFail", 0) ELSE Exhausted(m)
    /\ UNCHANGED rejections

(* runWithRetry: any other error of the handler goes to onFail when there  *)
(* is one; an error of onFail, or with no onFail, is logged.               *)
Fatal(m) ==
    \/ /\ Running(m, "handler")
       /\ IF RouteOf[m].onFail THEN Call(m, "onFail", 0) ELSE End(m, "logged")
       /\ UNCHANGED rejections
    \/ /\ Running(m, "onFail")
       /\ End(m, "logged")
       /\ UNCHANGED rejections
    \/ /\ Running(m, "hook") \/ Running(m, "plain")
       /\ rejections < MaxRejections
       /\ rejections' = rejections + 1
       /\ End(m, "rejected")

ThrowFatal(m) ==
    /\ Fatal(m)
    /\ UNCHANGED <<producer, asleep, emitted>>

(* The producer is closed: awaiting an emit throws its error, which is not *)
(* a SagaRetryableError.                                                   *)
EmitFails(m) ==
    /\ producer = "closed"
    /\ at[m] # "plain"
    /\ Fatal(m)
    /\ UNCHANGED <<producer, asleep, emitted>>

(* handleMessage threw: the batch of the transport fails, and the message  *)
(* is delivered again, from scratch.                                       *)
Redeliver(m) ==
    /\ at[m] = "rejected"
    /\ at' = [at EXCEPT ![m] = "queued"]
    /\ calls' = [calls EXCEPT ![m] = [f \in Functions |-> 0]]
    /\ UNCHANGED <<producer, asleep, attempt, emitted, rejections>>

(* SagaRunner.stop: the transport disconnects its producer first, and only *)
(* then waits for the consumer and the messages that are in progress.      *)
Stop ==
    /\ producer = "open"
    /\ producer' = "closed"
    /\ UNCHANGED <<at, asleep, attempt, calls, emitted, rejections>>

-----------------------------------------------------------------------------
Next ==
    \/ \E m \in Messages :
         \/ Deliver(m)
         \/ Emit(m)
         \/ EmitInContext(m)
         \/ Return(m)
         \/ ThrowRetryable(m)
         \/ Wake(m)
         \/ ThrowFatal(m)
         \/ EmitFails(m)
         \/ Redeliver(m)
    \/ Stop

Spec == Init /\ [][Next]_vars

(* Timers fire, the transport delivers again, and a function of a          *)
(* participant ends in one of its three ways.                              *)
Ended(m) == Return(m) \/ ThrowRetryable(m) \/ ThrowFatal(m) \/ EmitFails(m)

Fairness ==
    \A m \in Messages :
        /\ WF_vars(Deliver(m))
        /\ WF_vars(Ended(m))
        /\ WF_vars(Wake(m))
        /\ WF_vars(Redeliver(m))

FairSpec == Spec /\ Fairness

-----------------------------------------------------------------------------

(* handler and onFail are tried at most MaxRetries + 1 times in a delivery *)
(* each, on independent budgets, and the hook is called once.              *)
RetryBudget ==
    \A m \in Messages :
        /\ calls[m]["handler"] <= MaxRetries + 1
        /\ calls[m]["onFail"] <= MaxRetries + 1
        /\ calls[m]["hook"] <= 1
        /\ calls[m]["plain"] <= 1

(* onRetryExhausted runs only when the function it stands for, onFail if   *)
(* it was reached and the handler otherwise, has used its whole budget.    *)
HookAfterBudget ==
    \A m \in Messages :
        calls[m]["hook"] > 0 =>
            LET f == IF calls[m]["onFail"] > 0 THEN "onFail" ELSE "handler"
            IN calls[m][f] = MaxRetries + 1

(* Every message gets to an end, and stays there: no retry loop, backoff   *)
(* or chain of handler, onFail and hook goes on for ever, and a hook that  *)
(* throws a bounded number of times delays the message, it does not lose   *)
(* it.                                                                     *)
MessagesEnd == \A m \in Messages : <>[](at[m] \in Ends \ {"rejected"})

(* The flow of the README, of which retries are stutters: what follows     *)
(* what, what may be published meanwhile and how it is marked.             *)
FlowOf(m) ==
    CASE at[m] = "handler" -> "handle"
      [] at[m] = "onFail" -> "compensate"
      [] at[m] = "hook" -> "exhausted"
      [] at[m] \in {"done", "logged", "skipped"} -> "done"
      [] OTHER -> at[m]

RouteHasOnFail(m) == RouteOf[m].onFail
RouteHasHook(m) == RouteOf[m].hook
RouteIsFork(m) == RouteOf[m].fork
RouteIsFinal(m) == RouteOf[m].final

Flow == INSTANCE SagaErrorFlow WITH
            flow <- [m \in Messages |-> FlowOf(m)],
            event <- emitted,
            HasOnFail <- RouteHasOnFail, HasHook <- RouteHasHook,
            IsFork <- RouteIsFork, IsFinal <- RouteIsFinal,
            Events <- Emissions, NoEvent <- NoEmission
ImplementsErrorFlow == Flow!Spec

-----------------------------------------------------------------------------
(* Why RetryBudget and HookAfterBudget hold: the calls of the function     *)
(* that is at work are its attempts, and what comes after it has not been  *)
(* called yet.                                                             *)
CallsCounted ==
    \A m \in Messages :
        /\ at[m] = "queued" => \A f \in Functions : calls[m][f] = 0
        /\ at[m] = "handler" => /\ calls[m]["handler"] = attempt[m] + 1
                                /\ calls[m]["onFail"] = 0
                                /\ calls[m]["hook"] = 0
        /\ at[m] = "onFail" => /\ calls[m]["onFail"] = attempt[m] + 1
                               /\ calls[m]["hook"] = 0
        /\ asleep[m] => at[m] \in {"handler", "onFail"} /\ attempt[m] < MaxRetries

IInv == TypeOK /\ CallsCounted /\ RetryBudget /\ HookAfterBudget
=============================================================================
