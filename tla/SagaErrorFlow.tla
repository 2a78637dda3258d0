---------------------------- MODULE SagaErrorFlow ----------------------------
(***************************************************************************)
(* The error flow that saga-core promises a participant for each message   *)
(* it is handed (saga-core/README.md, "Error flow"), with the retries      *)
(* hidden: a handler succeeds, is exhausted, or fails; only a failure is   *)
(* compensated; what compensates never goes back to the handler; only the  *)
(* exhaustion hook, or a plain handler, can give the message back to the   *)
(* transport, which delivers it again.                                     *)
(*                                                                         *)
(* Events are published for a message while one of these functions works   *)
(* on it.  Those of the emit that they are given carry the hint that the   *)
(* options of the handler add to all of them (saga-nestjs/README.md,       *)
(* SagaParticipantOptions), whichever function it is; of what a function   *)
(* publishes by other means nothing is promised.                           *)
(***************************************************************************)
CONSTANTS
    Messages,           \* messages handed to the runner
    HasOnFail(_),       \* does the participant of the message define onFail
    HasHook(_),         \* does it define onRetryExhausted
    IsFork(_),          \* does its handler start a sub-saga per event
    IsFinal(_),         \* or end the saga with every event
    Events,             \* what may be published: via what, with which hint, of which saga
    NoEvent             \* nothing yet

VARIABLES
    flow,               \* where the error flow of each message is
    event               \* the event that was last published for each message

vars == <<flow, event>>

Phases == {"queued", "handle", "plain", "compensate", "exhausted", "done", "rejected"}

Move(m, from, to) ==
    /\ flow[m] = from
    /\ flow' = [flow EXCEPT ![m] = to]
    /\ UNCHANGED event

Init ==
    /\ flow = [m \in Messages |-> "queued"]
    /\ event = [m \in Messages |-> NoEvent]

(* A message with no handler for its kind is skipped.                      *)
Begin(m) == \E to \in {"handle", "plain", "done"} : Move(m, "queued", to)

(* The handler or the compensation succeeds, or fails with nothing left    *)
(* to call: logged, and done.                                              *)
Finish(m) ==
    \/ Move(m, "handle", "done")
    \/ Move(m, "compensate", "done")

Fail(m) == HasOnFail(m) /\ Move(m, "handle", "compensate")

Exhaust(m) ==
    /\ HasHook(m)
    /\ Move(m, "handle", "exhausted") \/ Move(m, "compensate", "exhausted")

Unprotected(m) ==
    \E from \in {"exhausted", "plain"}, to \in {"done", "rejected"} : Move(m, from, to)

Redeliver(m) == Move(m, "rejected", "queued")

Marked(m, e) ==
    /\ e.saga = "sub" <=> IsFork(m)
    /\ IsFork(m) => e.hint = "fork"
    /\ IsFinal(m) /\ ~IsFork(m) => e.hint = "final"

Publish(m) ==
    /\ flow[m] \in {"handle", "compensate", "exhausted"}
    /\ \E e \in Events :
         /\ e.via = "emit" => Marked(m, e)
         /\ event' = [event EXCEPT ![m] = e]
    /\ UNCHANGED flow

Next ==
    \E m \in Messages :
        \/ Begin(m) \/ Finish(m) \/ Fail(m) \/ Exhaust(m) \/ Unprotected(m) \/ Redeliver(m)
        \/ Publish(m)

Spec == Init /\ [][Next]_vars
=============================================================================
