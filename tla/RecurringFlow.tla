--------------------------- MODULE RecurringFlow ---------------------------
(***************************************************************************)
(* The recurring flow of the order-saga example: a charge is attempted by  *)
(* a chain of participants (plan, plan order, order, payment); a failed    *)
(* attempt can be retried by a client until maxAttempts, then the plan is  *)
(* suspended; a successful one starts the next cycle and a product.        *)
(*                                                                         *)
(* The records are in memory and keyed by ids of the payload, and no       *)
(* message says which attempt it belongs to.  Handlers are steps at the    *)
(* end of their sleep, as in TelecomFlows.                                 *)
(*                                                                         *)
(* Left out: sagaId, amounts, names, dates, the cycle number, orderType    *)
(* (hasPendingChanges is never set) and the list endpoints.                *)
(***************************************************************************)
EXTENDS FlowBus

CONSTANTS Maxes,        \* values of maxAttempts; 0 is a query that is no number
          MaxRequests,  \* bound: POST billing and POST retry together
          MaxFaults     \* bound: redeliveries, requests that fail halfway and restarts together

ASSUME MaxesAssumption == Maxes \subseteq Nat
ASSUME BoundsAssumption == MaxRequests \in Nat /\ MaxFaults \in Nat

VARIABLES recurring,    \* the record of the cycle
          plan,         \* status of its plan
          items,        \* statuses of the other records: orders, payments, products, provisions
          next,         \* the records of next cycles
          todo,         \* handlers suspended in an await
          requests,     \* POSTs so far
          faults        \* faults so far

vars == <<bus, handled, recurring, plan, items, next, todo, requests, faults>>

NoRecord == [status |-> "NONE", attempts |-> 0, max |-> 0]
Statuses == {"NONE", "SCHEDULED", "PROCESSING", "CAPTURE_FAILED", "FAILED", "COMPLETED"}

(* Requests of clients *)

\* start publishes in a new root saga; when that fails the client gets an error, and the
\* attempt stays counted.
Start(fail) ==
  /\ requests < MaxRequests /\ requests' = requests + 1
  /\ \/ /\ bus' = bus \cup {[id |-> <<requests'>>, topic |-> "rf.recurring.updated.processing",
                             hint |-> "none", saga |-> <<<<requests'>>>>, item |-> <<>>, order |-> <<>>,
                             fail |-> fail]}
        /\ UNCHANGED faults
     \/ /\ faults < MaxFaults /\ faults' = faults + 1 /\ UNCHANGED bus
  /\ UNCHANGED <<handled, items, next, todo>>

IncrementAttempt == [recurring EXCEPT !.attempts = @ + 1, !.status = "PROCESSING"]

TriggerBilling ==
  \E fail \in BOOLEAN, max \in Maxes :
    /\ requests = 0
    /\ plan' = "ACTIVE"
    /\ recurring' = [status |-> "PROCESSING", attempts |-> 1, max |-> max]
    /\ Start(fail)

\* Mutant: the status is not checked.
Mutant_RetryAnytime ==
  \E fail \in BOOLEAN :
    /\ recurring.status \in {"CAPTURE_FAILED", "PROCESSING"}
    /\ recurring' = IncrementAttempt
    /\ Start(fail) /\ UNCHANGED plan

RetryRecurring ==
  \E fail \in BOOLEAN :
    /\ recurring.status = "CAPTURE_FAILED"
    /\ recurring' = IncrementAttempt
    /\ Start(fail) /\ UNCHANGED plan

(* Participants *)

\* What a handler leaves alone unless it says otherwise.
Rest == UNCHANGED <<requests, faults>>

Forward(topic, to, hint) ==
  \E m \in bus :
    /\ Arrives(m, topic) /\ HandledNow(m)
    /\ Publish(m, <<Same(m, to, hint)>>)
    /\ Rest /\ UNCHANGED <<recurring, plan, items, next, todo>>

SetItem(id, status) ==
  items' = [i \in DOMAIN items \cup {id} |-> IF i = id THEN status ELSE items[i]]

UpdateItem(id, status) == items' = [i \in DOMAIN items |-> IF i = id THEN status ELSE items[i]]

RecurringProcessing == Forward("rf.recurring.updated.processing", "rf.plan.order.requested", "none")

\* A record with a new id, announced by the message that carries it as its item, or as its order.
PlanOrderRequested ==
  \E m \in bus :
    /\ Arrives(m, "rf.plan.order.requested") /\ HandledNow(m)
    /\ SetItem(NewId(m, 1), "PENDING")
    /\ Publish(m, <<[Same(m, "rf.plan-ordering.order.created", "none") EXCEPT !.item = NewId(m, 1)]>>)
    /\ Rest /\ UNCHANGED <<recurring, plan, next, todo>>

OrderPlanOrderCreated ==
  \E m \in bus :
    /\ Arrives(m, "rf.plan-ordering.order.created") /\ HandledNow(m)
    /\ SetItem(NewId(m, 1), "PENDING")
    /\ Publish(m, <<[Same(m, "rf.ordering.order.created", "none") EXCEPT !.order = NewId(m, 1)]>>)
    /\ Rest /\ UNCHANGED <<recurring, plan, next, todo>>

\* Mutant: no return after the failure.
Mutant_PaymentFallsThrough ==
  \E m \in bus :
    /\ Arrives(m, "rf.ordering.order.created") /\ HandledNow(m)
    /\ SetItem(NewId(m, 1), IF m.fail THEN "FAILED" ELSE "SUCCESS")
    /\ \/ m.fail /\ Publish(m, <<Same(m, "rf.payment.created.failed", "compensation"),
                                 Same(m, "rf.payment.created.success", "none")>>)
       \/ ~m.fail /\ Publish(m, <<Same(m, "rf.payment.created.success", "none")>>)
    /\ Rest /\ UNCHANGED <<recurring, plan, next, todo>>

\* The payment is created with the id of the message that announces it.
PaymentManagement ==
  \E m \in bus :
    /\ Arrives(m, "rf.ordering.order.created") /\ HandledNow(m)
    /\ \/ m.fail /\ SetItem(NewId(m, 1), "FAILED")
                 /\ Publish(m, <<Same(m, "rf.payment.created.failed", "compensation")>>)
       \/ ~m.fail /\ SetItem(NewId(m, 1), "SUCCESS")
                  /\ Publish(m, <<Same(m, "rf.payment.created.success", "none")>>)
    /\ Rest /\ UNCHANGED <<recurring, plan, next, todo>>

\* id names the field with the id of the record.
UpdateAndForward(topic, id, status, to, hint) ==
  \E m \in bus :
    /\ Arrives(m, topic) /\ HandledNow(m)
    /\ UpdateItem(m[id], status)
    /\ Publish(m, <<Same(m, to, hint)>>)
    /\ Rest /\ UNCHANGED <<recurring, plan, next, todo>>

PaymentSuccess == UpdateAndForward("rf.payment.created.success", "order", "COMPLETED",
                                   "rf.ordering.order.updated.completed", "none")
PaymentFailed  == UpdateAndForward("rf.payment.created.failed", "order", "PAYMENT_FAILED",
                                   "rf.ordering.order.updated.payment-failed", "compensation")
OrderingCompleted     == UpdateAndForward("rf.ordering.order.updated.completed", "item", "COMPLETED",
                                          "rf.plan-ordering.order.updated.completed", "none")
OrderingPaymentFailed == UpdateAndForward("rf.ordering.order.updated.payment-failed", "item", "PAYMENT_FAILED",
                                          "rf.plan-ordering.order.updated.payment-failed", "compensation")

SetStatus(status) ==
  recurring' = IF recurring = NoRecord THEN recurring ELSE [recurring EXCEPT !.status = status]

\* The final event, then the next cycle in a child saga; its record is created after the await.
RecurringCompleted ==
  \E m \in bus :
    /\ Arrives(m, "rf.plan-ordering.order.updated.completed") /\ HandledNow(m)
    /\ SetStatus("COMPLETED")
    /\ Publish(m, <<Same(m, "rf.recurring.completed", "final"),
                    Child(m, "rf.recurring.created", "fork", 2)>>)
    /\ todo' = todo \cup {[do |-> "next", msg |-> m.id, id |-> NewId(m, 2)]}
    /\ Rest /\ UNCHANGED <<plan, items, next>>

NextCycle ==
  \E t \in todo :
    /\ t.do = "next"
    /\ next' = next \cup {t.id} /\ todo' = todo \ {t}
    /\ Rest /\ UNCHANGED <<bus, handled, recurring, plan, items>>

\* Mutant: one attempt too many.
Mutant_ExhaustedLate == recurring.max # 0 /\ recurring.attempts > recurring.max

AttemptsExhausted == recurring.max # 0 /\ recurring.attempts >= recurring.max

\* Mutant: the failure of the last attempt is not published.
Mutant_FailureUnpublished ==
  \E m \in bus :
    /\ Arrives(m, "rf.plan-ordering.order.updated.payment-failed") /\ HandledNow(m)
    /\ \/ recurring = NoRecord /\ UNCHANGED <<bus, recurring>>
       \/ recurring # NoRecord /\ AttemptsExhausted /\ SetStatus("FAILED") /\ UNCHANGED bus
       \/ /\ recurring # NoRecord /\ ~AttemptsExhausted
          /\ SetStatus("CAPTURE_FAILED")
          /\ Publish(m, <<Same(m, "rf.recurring.updated.capture-failed", "final")>>)
    /\ Rest /\ UNCHANGED <<plan, items, next, todo>>

RecurringPaymentFailed ==
  \E m \in bus :
    /\ Arrives(m, "rf.plan-ordering.order.updated.payment-failed") /\ HandledNow(m)
    /\ \/ recurring = NoRecord /\ UNCHANGED <<bus, recurring>>
       \/ /\ recurring # NoRecord /\ AttemptsExhausted
          /\ SetStatus("FAILED")
          /\ Publish(m, <<Same(m, "rf.recurring.updated.failed", "compensation")>>)
       \/ /\ recurring # NoRecord /\ ~AttemptsExhausted
          /\ SetStatus("CAPTURE_FAILED")
          /\ Publish(m, <<Same(m, "rf.recurring.updated.capture-failed", "final")>>)
    /\ Rest /\ UNCHANGED <<plan, items, next, todo>>

RecurringFailed ==
  \E m \in bus :
    /\ Arrives(m, "rf.recurring.updated.failed") /\ HandledNow(m)
    /\ plan' = IF plan = "NONE" THEN plan ELSE "SUSPENDED"
    /\ Publish(m, <<Same(m, "rf.plan.suspended", "final")>>)
    /\ Rest /\ UNCHANGED <<recurring, items, next, todo>>

\* ACKNOWLEDGED and PENDING are written in one go.
RecurringCreated ==
  \E m \in bus :
    /\ Arrives(m, "rf.recurring.created") /\ HandledNow(m)
    /\ SetItem(NewId(m, 1), "PENDING")
    /\ Publish(m, <<[Same(m, "rf.product.updated.pending", "none") EXCEPT !.item = NewId(m, 1)]>>)
    /\ Rest /\ UNCHANGED <<recurring, plan, next, todo>>

\* The provision is created, the carrier is called (a second sleep), then it is complete.
Provision ==
  \E m \in bus :
    /\ Arrives(m, "rf.product.updated.pending") /\ HandledNow(m)
    /\ LET id == m.id \o <<0, faults>> IN
         /\ SetItem(id, "PENDING")
         /\ todo' = todo \cup {[do |-> "provision", msg |-> m.id, id |-> id]}
    /\ Rest /\ UNCHANGED <<bus, recurring, plan, next>>

Provisioned ==
  \E t \in todo :
    /\ t.do = "provision"
    /\ UpdateItem(t.id, "COMPLETED")
    /\ \E m \in bus : m.id = t.msg /\ Publish(m, <<Same(m, "rf.provision.completed", "none")>>)
    /\ todo' = todo \ {t}
    /\ Rest /\ UNCHANGED <<handled, recurring, plan, next>>

ProvisionCompleted ==
  UpdateAndForward("rf.provision.completed", "item", "ACTIVE", "rf.product.activated", "final")

(* Faults: at most MaxFaults of them *)

Redeliver ==
  \E id \in handled :
    /\ faults < MaxFaults /\ faults' = faults + 1
    /\ handled' = handled \ {id}
    /\ UNCHANGED <<bus, recurring, plan, items, next, todo, requests>>

\* The process restarts with empty stores; the messages of suspended handlers come again.
Restart ==
  /\ requests > 0 /\ faults < MaxFaults /\ faults' = faults + 1
  /\ recurring' = NoRecord /\ plan' = "NONE" /\ items' = [i \in {} |-> "PENDING"] /\ next' = {}
  /\ handled' = handled \ {t.msg : t \in todo} /\ todo' = {}
  /\ UNCHANGED <<bus, requests>>

Init ==
  /\ bus = {} /\ handled = {} /\ todo = {} /\ requests = 0 /\ faults = 0
  /\ recurring = NoRecord /\ plan = "NONE" /\ items = [i \in {} |-> "PENDING"] /\ next = {}

Participants ==
  \/ RecurringProcessing \/ PlanOrderRequested \/ OrderPlanOrderCreated \/ PaymentManagement
  \/ PaymentSuccess \/ PaymentFailed \/ OrderingCompleted \/ OrderingPaymentFailed
  \/ RecurringCompleted \/ NextCycle \/ RecurringPaymentFailed \/ RecurringFailed
  \/ RecurringCreated \/ Provision \/ Provisioned \/ ProvisionCompleted

Next == TriggerBilling \/ RetryRecurring \/ Participants \/ Redeliver \/ Restart

Spec == Init /\ [][Next]_vars

\* Fairness: the consumers keep running and awaits return; clients and faults owe nothing.
FairSpec == Spec /\ WF_vars(Participants)

---------------------------------------------------------------------------
(* Properties *)

\* Type invariant.
TypeOK ==
  /\ recurring \in [status : Statuses, attempts : Nat, max : Maxes \cup {0}]
  /\ plan \in {"NONE", "ACTIVE", "SUSPENDED"}
  /\ requests \in Nat /\ faults \in Nat

\* No interleaving of retries with failures that come late or twice starts more attempts than
\* maxAttempts (POST retry checks only the status, and the status is decided elsewhere).
AttemptsWithinMax == recurring.max # 0 => recurring.attempts <= recurring.max

Charging == {"rf.recurring.updated.processing", "rf.plan.order.requested", "rf.plan-ordering.order.created",
             "rf.ordering.order.created"}
ToCharge == {m \in bus : m.topic \in Charging /\ m.id \notin handled}
Charged  == Topic("rf.payment.created.success")

\* A cycle is charged once, and only one attempt is on its way to the payment at any time,
\* unless a message is delivered twice: then a late failure of an old attempt can reopen it.
ChargedOnce == faults = 0 => Cardinality(Charged) + Cardinality(ToCharge) <= 1

\* A plan is suspended only when the attempts are used up, and without redelivery only when
\* no attempt was paid: nothing a customer paid for is taken away.
SuspendedUnpaid ==
  plan = "SUSPENDED" /\ recurring # NoRecord =>
    /\ AttemptsExhausted
    /\ faults = 0 => Charged = {} /\ next = {}

\* An attempt that is being processed ends, unless its request was never published or the
\* process restarted; a failed cycle suspends its plan, and a paid one activates a product.
AttemptsEnd ==
  /\ recurring.status = "PROCESSING" ~> recurring.status # "PROCESSING" \/ faults > 0
  /\ recurring.status = "FAILED" ~> plan = "SUSPENDED" \/ recurring = NoRecord
  /\ Charged # {} ~> Topic("rf.product.activated") # {}
=============================================================================
