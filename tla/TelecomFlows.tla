--------------------------- MODULE TelecomFlows ---------------------------
(***************************************************************************)
(* The telecom flows of the order-saga example: upgrade of a plan, SIM     *)
(* swap, activation of lines in bulk, provisioning of a device and one     *)
(* cycle of recurring billing.  Each is a chain of participants that hand  *)
(* a request on by messages and write its record in an in-memory store.    *)
(*                                                                         *)
(* Messages go over FlowBus.  A participant sleeps first, so its handler   *)
(* is one step at the end of the sleep: it writes the record and publishes.*)
(* What comes after the await of a publication runs later, when the        *)
(* message may have been handled already: it is an element of todo.        *)
(*                                                                         *)
(* Left out: customers, plans, amounts, numbers, time stamps, the cycle    *)
(* number and the list endpoints, which only read.                         *)
(***************************************************************************)
EXTENDS FlowBus

CONSTANTS Lines,        \* the numbers of lines a client asks for; 0 is a query that is no number
          MaxFaults     \* bound: redeliveries, failed heartbeats and restarts together

ASSUME LinesAssumption == Lines \subseteq 0..10
ASSUME FaultsAssumption == MaxFaults \in Nat

VARIABLES todo,         \* handlers and requests suspended in an await: what they do next
          store,        \* id of a record -> [status, total, completed]
          faults,       \* faults so far
          missed,       \* history: records that an update did not find
          late,         \* history: records whose outcome was written over
          broken        \* history: records whose handler ended in an error

vars == <<bus, handled, todo, store, faults, missed, late, broken>>

Statuses == {"REQUESTED", "ELIGIBLE", "APPROVED", "MIGRATING", "COMPLETED", "ROLLED_BACK",
             "PENDING", "TRIGGERED", "FAILED", "IN_PROGRESS", "PROVISIONED", "ACTIVE"}
Settled  == {"COMPLETED", "ROLLED_BACK", "FAILED", "ACTIVE"}
Sims     == {"ok", "fail", "transient"}

(* Handlers *)

Handled(m) == HandledNow(m) /\ UNCHANGED <<faults, broken>>

Rest(do, m, rec, n, status) ==
  [do |-> do, msg |-> m, rec |-> rec, n |-> n, status |-> status, run |-> faults]

(* The stores *)

Create(id, status, total) ==
  /\ store' = [r \in DOMAIN store \cup {id} |->
                 IF r = id THEN [status |-> status, total |-> total, completed |-> 0]
                           ELSE store[r]]
  /\ UNCHANGED <<missed, late>>

Found(id) == id \in DOMAIN store

\* An update of a record that is not there changes nothing, and nobody looks at its result.
Missed(id) == missed' = missed \cup {id} /\ UNCHANGED <<store, late>>

UpdateStatus(id, status) ==
  \/ ~Found(id) /\ Missed(id)
  \/ /\ Found(id)
     /\ store' = [store EXCEPT ![id].status = status]
     /\ late' = IF store[id].status \in Settled /\ status \notin Settled THEN late \cup {id} ELSE late
     /\ UNCHANGED missed

NoUpdate == UNCHANGED <<store, missed, late>>

(* Requests of clients.  Bound: one request; two of them share no record and no saga. *)

Main == <<1>>

Request(topic, status, total, sim) ==
  /\ bus = {}
  /\ bus' = {[id |-> Main, topic |-> topic, hint |-> "none", saga |-> <<Main>>,
              rec |-> Main, item |-> <<>>, lines |-> total, sim |-> sim]}
  /\ todo' = {Rest("create", <<>>, Main, total, status)}
  /\ NoUpdate /\ UNCHANGED <<handled, faults, broken>>

TriggerRecurring      == \E sim \in Sims : Request("recurring.triggered", "TRIGGERED", 0, sim)
TriggerSimSwap        == Request("sim-swap.requested", "PENDING", 0, "ok")
TriggerBulkActivation == \E n \in Lines : Request("bulk-activation.requested", "PENDING", n, "ok")
TriggerUpgrade        == \E sim \in {"ok", "fail"} : Request("upgrade.requested", "REQUESTED", 0, sim)
TriggerProvisioning   == Request("device-provisioning.requested", "REQUESTED", 0, "ok")

\* The statement after the await of start, and after that of startChild in PlanOrderCompleted.
StoreRecord ==
  \E t \in todo :
    /\ t.do = "create"
    /\ Create(t.rec, t.status, t.n)
    /\ todo' = todo \ {t}
    /\ UNCHANGED <<bus, handled, faults, broken>>

(* Participants that write one status and hand on one message; id names the field with the id *)
(* of the record.                                                                            *)

Advance(topic, id, status, next, hint) ==
  \E m \in bus :
    /\ Arrives(m, topic)
    /\ UpdateStatus(m[id], status)
    /\ Publish(m, <<Same(m, next, hint)>>)
    /\ Handled(m) /\ UNCHANGED todo

Forward(topic, next, hint) ==
  \E m \in bus :
    /\ Arrives(m, topic)
    /\ Publish(m, <<Same(m, next, hint)>>)
    /\ Handled(m) /\ NoUpdate /\ UNCHANGED todo

(* Upgrade of a plan *)

UpgradeEligibility == Advance("upgrade.requested", "rec", "ELIGIBLE", "upgrade.eligible", "none")

\* The final event of the upgrade, then the migration in a child saga; MIGRATING is written
\* when both are acknowledged.
UpgradeApproval ==
  \E m \in bus :
    /\ Arrives(m, "upgrade.eligible")
    /\ UpdateStatus(m.rec, "APPROVED")
    /\ Publish(m, <<Same(m, "upgrade.approved", "final"),
                 Child(m, "migration.started", "none", 2)>>)
    /\ todo' = todo \cup {Rest("update", m.id, m.rec, 0, "MIGRATING")}
    /\ Handled(m)

UpgradeMigrates ==
  \E t \in todo :
    /\ t.do = "update"
    /\ UpdateStatus(t.rec, t.status)
    /\ todo' = todo \ {t}
    /\ UNCHANGED <<bus, handled, faults, broken>>

MigrationProvisioning == Forward("migration.started", "migration.provisioned", "none")

MigrationActivation ==
  \E m \in bus :
    /\ Arrives(m, "migration.provisioned")
    /\ \/ m.sim = "fail" /\ NoUpdate /\ Publish(m, <<Same(m, "migration.activation-failed", "compensation")>>)
       \/ m.sim # "fail" /\ UpdateStatus(m.rec, "COMPLETED")
                         /\ Publish(m, <<Same(m, "migration.activated", "final")>>)
    /\ Handled(m) /\ UNCHANGED todo

\* Mutant: the rollback does not update the record.
Mutant_RollbackForwards == Forward("migration.activation-failed", "migration.rolled-back", "final")

MigrationRollback ==
  Advance("migration.activation-failed", "rec", "ROLLED_BACK", "migration.rolled-back", "final")

(* SIM swap: a sub-saga, then the parent again *)

SimSwapFork ==
  \E m \in bus :
    /\ Arrives(m, "sim-swap.requested")
    /\ Publish(m, <<Child(m, "portability.validation.requested", "fork", 1)>>)
    /\ Handled(m) /\ NoUpdate /\ UNCHANGED todo

NumberPortability == Forward("portability.validation.requested", "portability.validated", "final")

PortabilityValidated ==
  \E m \in bus :
    /\ Arrives(m, "portability.validated")
    /\ UpdateStatus(m.rec, "COMPLETED")
    /\ Publish(m, <<ToParent(m, "sim-swap.completed", "final")>>)
    /\ Handled(m) /\ UNCHANGED todo

(* Activation in bulk: a sub-saga per line, and their completions counted *)

BulkActivationFork ==
  \E m \in bus :
    /\ Arrives(m, "bulk-activation.requested")
    /\ Publish(m, [i \in 1..m.lines |-> Child(m, "line-activation.requested", "fork", i)])
    /\ Handled(m) /\ NoUpdate /\ UNCHANGED todo

LineActivation == Forward("line-activation.requested", "line-activation.completed", "final")

IncrementCompleted(id) ==
  LET n == store[id].completed + 1 IN
  store' = [store EXCEPT ![id].completed = n,
                         ![id].status = IF n >= store[id].total THEN "COMPLETED" ELSE @]

\* Mutant: the completion is announced one line early.
Mutant_CompletedEarly ==
  \E m \in bus :
    /\ Arrives(m, "line-activation.completed")
    /\ \/ ~Found(m.rec) /\ Missed(m.rec) /\ UNCHANGED bus
       \/ /\ Found(m.rec) /\ IncrementCompleted(m.rec) /\ UNCHANGED <<missed, late>>
          /\ IF store'[m.rec].completed + 1 >= store[m.rec].total
             THEN Publish(m, <<ToParent(m, "bulk-activation.completed", "final")>>)
             ELSE UNCHANGED bus
    /\ Handled(m) /\ UNCHANGED todo

LineActivationCompleted ==
  \E m \in bus :
    /\ Arrives(m, "line-activation.completed")
    /\ \/ ~Found(m.rec) /\ Missed(m.rec) /\ UNCHANGED bus
       \/ /\ Found(m.rec) /\ IncrementCompleted(m.rec) /\ UNCHANGED <<missed, late>>
          /\ IF store'[m.rec].completed >= store[m.rec].total
             THEN Publish(m, <<ToParent(m, "bulk-activation.completed", "final")>>)
             ELSE UNCHANGED bus
    /\ Handled(m) /\ UNCHANGED todo

(* Provisioning of a device: one handler that runs for long, with a heartbeat after each step *)

StepCount == 4

UpdateStep(id) == UpdateStatus(id, "IN_PROGRESS")

DeviceProvisioning ==
  \E m \in bus :
    /\ Arrives(m, "device-provisioning.requested")
    /\ UpdateStep(m.rec)
    /\ todo' = todo \cup {Rest("step", m.id, m.rec, 1, "IN_PROGRESS")}
    /\ Handled(m) /\ UNCHANGED bus

ProvisioningStep ==
  \E t \in todo :
    /\ t.do = "step"
    /\ \/ /\ t.n < StepCount
          /\ UpdateStep(t.rec)
          /\ todo' = (todo \ {t}) \cup {[t EXCEPT !.n = @ + 1]}
          /\ UNCHANGED bus
       \/ /\ t.n = StepCount
          /\ UpdateStatus(t.rec, "COMPLETED")
          /\ \E m \in bus : m.id = t.msg /\ Publish(m, <<Same(m, "device-provisioning.completed", "final")>>)
          /\ todo' = todo \ {t}
    /\ UNCHANGED <<handled, faults, broken>>

(* One cycle of recurring billing *)

PlanManagement     == Forward("recurring.triggered", "plan.order.requested", "none")
PlanOrderRequested == Forward("plan.order.requested", "order.requested", "none")

\* A new order, known by the id of the message that announces it.
OrderRequested ==
  \E m \in bus :
    /\ Arrives(m, "order.requested")
    /\ Create(NewId(m, 1), "PENDING", 0)
    /\ Publish(m, <<[Same(m, "order.created", "none") EXCEPT !.item = NewId(m, 1)]>>)
    /\ Handled(m) /\ UNCHANGED todo

\* Mutant: onRetryExhausted is not overridden.
Mutant_NoExhaustedHook ==
  \E m \in bus :
    /\ Arrives(m, "order.created")
    /\ \/ m.sim = "transient" /\ UNCHANGED bus
       \/ m.sim = "fail" /\ Publish(m, <<Same(m, "payment.rejected", "compensation")>>)
       \/ m.sim = "ok" /\ Publish(m, <<Same(m, "payment.approved", "none")>>)
    /\ Handled(m) /\ NoUpdate /\ UNCHANGED todo

\* The handler throws a retryable error three times (SagaRunner) before onRetryExhausted emits.
PaymentManagement ==
  \E m \in bus :
    /\ Arrives(m, "order.created")
    /\ \/ m.sim = "transient" /\ Publish(m, <<Same(m, "payment.rejected", "compensation")>>)
       \/ m.sim = "fail" /\ Publish(m, <<Same(m, "payment.rejected", "compensation")>>)
       \/ m.sim = "ok" /\ Publish(m, <<Same(m, "payment.approved", "none")>>)
    /\ Handled(m) /\ NoUpdate /\ UNCHANGED todo

PaymentApproved == Advance("payment.approved", "item", "COMPLETED", "order.completed", "none")
PaymentRejected == Advance("payment.rejected", "item", "FAILED", "order.failed", "compensation")
OrderCompletedBridge == Forward("order.completed", "plan.order.completed", "none")
OrderFailedBridge    == Forward("order.failed", "plan.order.failed", "compensation")

\* Mutant: the next cycle starts in the saga that has just ended.
Mutant_NextCycleSameSaga ==
  \E m \in bus :
    /\ Arrives(m, "plan.order.completed")
    /\ UpdateStatus(m.rec, "COMPLETED")
    /\ Publish(m, <<Same(m, "recurring.completed", "final"),
                    [Same(m, "recurring.created", "fork") EXCEPT !.rec = NewId(m, 2)]>>)
    /\ todo' = todo \cup {Rest("create", m.id, NewId(m, 2), 0, "COMPLETED")}
    /\ Handled(m)

\* The cycle ends and the next one starts in a child saga; its record is created when the
\* event of its creation is acknowledged.
PlanOrderCompleted ==
  \E m \in bus :
    /\ Arrives(m, "plan.order.completed")
    /\ UpdateStatus(m.rec, "COMPLETED")
    /\ Publish(m, <<Same(m, "recurring.completed", "final"),
                 [Child(m, "recurring.created", "fork", 2) EXCEPT !.rec = NewId(m, 2)]>>)
    /\ todo' = todo \cup {Rest("create", m.id, NewId(m, 2), 0, "COMPLETED")}
    /\ Handled(m)

PlanOrderFailed == Advance("plan.order.failed", "rec", "FAILED", "recurring.failed", "final")

RecurringCreated ==
  \E m \in bus :
    /\ Arrives(m, "recurring.created")
    /\ Create(NewId(m, 1), "PENDING", 0)
    /\ Publish(m, <<[Same(m, "product.activation.requested", "none") EXCEPT !.item = NewId(m, 1)]>>)
    /\ Handled(m) /\ UNCHANGED todo

MobileProductProvision ==
  Advance("product.activation.requested", "item", "PROVISIONED", "product.provisioned", "none")
ProductProvisioned == Advance("product.provisioned", "item", "ACTIVE", "product.activated", "final")

(* Faults: at most MaxFaults of them *)

\* A message whose offset was not committed comes again, also while its first handler runs.
Redeliver ==
  \E id \in handled :
    /\ faults < MaxFaults /\ faults' = faults + 1
    /\ handled' = handled \ {id}
    /\ UNCHANGED <<bus, todo, store, missed, late, broken>>

\* A heartbeat that rejects ends the handler: the runner logs the error, the message counts as handled.
HeartbeatThrows ==
  \E t \in todo :
    /\ t.do = "step"
    /\ faults < MaxFaults /\ faults' = faults + 1
    /\ todo' = todo \ {t} /\ broken' = broken \cup {t.rec}
    /\ UNCHANGED <<bus, handled, store, missed, late>>

\* The process restarts: records and suspended handlers are gone, the latter's messages come again.
Restart ==
  /\ bus # {} /\ faults < MaxFaults /\ faults' = faults + 1
  /\ handled' = handled \ {t.msg : t \in todo}
  /\ todo' = {} /\ store' = [r \in {} |-> [status |-> "FAILED", total |-> 0, completed |-> 0]]
  /\ UNCHANGED <<bus, missed, late, broken>>

Init ==
  /\ bus = {} /\ handled = {} /\ todo = {} /\ faults = 0
  /\ store = [r \in {} |-> [status |-> "FAILED", total |-> 0, completed |-> 0]]
  /\ missed = {} /\ late = {} /\ broken = {}

Trigger ==
  TriggerRecurring \/ TriggerSimSwap \/ TriggerBulkActivation \/ TriggerUpgrade \/ TriggerProvisioning

Participants ==
  \/ UpgradeEligibility \/ UpgradeApproval \/ UpgradeMigrates
  \/ MigrationProvisioning \/ MigrationActivation \/ MigrationRollback
  \/ SimSwapFork \/ NumberPortability \/ PortabilityValidated
  \/ BulkActivationFork \/ LineActivation \/ LineActivationCompleted
  \/ DeviceProvisioning \/ ProvisioningStep
  \/ PlanManagement \/ PlanOrderRequested \/ OrderRequested \/ PaymentManagement
  \/ PaymentApproved \/ PaymentRejected \/ OrderCompletedBridge \/ OrderFailedBridge
  \/ PlanOrderCompleted \/ PlanOrderFailed
  \/ RecurringCreated \/ MobileProductProvision \/ ProductProvisioned
  \/ StoreRecord

\* The system stops when everything is handled and no fault is left.
Next == Trigger \/ Participants \/ Redeliver \/ HeartbeatThrows \/ Restart

Spec == Init /\ [][Next]_vars

\* Fairness: consumers keep running, so a message that waits is handled and an await returns.
\* None for clients and faults.
FairSpec == Spec /\ WF_vars(Participants)

---------------------------------------------------------------------------
(* Properties *)

\* While nothing is redelivered or lost, the final event of a saga is its last: no participant
\* of the flow, in whatever order the completions of sub-sagas arrive, publishes in a saga that
\* has ended, and no saga ends twice (the hint "final" of saga-runner.ts and of the participants).
FinalIsLast ==
  [][faults' = 0 => ~ \E m \in bus, n \in bus' \ bus : m.hint = "final" /\ n.saga = m.saga]_vars

\* A bulk activation is announced complete only when each line forked for it has completed in
\* a sub-saga of its own, unless a redelivery was counted twice.
CompletionCoversLines ==
  faults = 0 /\ Topic("bulk-activation.completed") # {} =>
    /\ \A m \in Topic("line-activation.requested") :
         \E n \in Topic("line-activation.completed") : n.saga = m.saga /\ n.id \in handled
    /\ \A m \in Topic("bulk-activation.requested") : Cardinality(Topic("line-activation.requested")) = m.lines

\* Nothing waits: what is left can only be started by a client or a fault.
HandledTopics ==
  {"upgrade.requested", "upgrade.eligible", "migration.started", "migration.provisioned",
   "migration.activation-failed", "sim-swap.requested", "portability.validation.requested",
   "portability.validated", "bulk-activation.requested", "line-activation.requested",
   "line-activation.completed", "device-provisioning.requested", "recurring.triggered",
   "plan.order.requested", "order.requested", "order.created", "payment.approved",
   "payment.rejected", "order.completed", "order.failed", "plan.order.completed",
   "plan.order.failed", "recurring.created", "product.activation.requested", "product.provisioned"}
Quiet == todo = {} /\ \A m \in bus : m.topic \in HandledTopics => m.id \in handled
NoLines == \E m \in Topic("bulk-activation.requested") : m.lines = 0

\* When a flow has come to rest, each of its records shows an outcome.  A record that does not
\* was updated before it was created (the controllers create it after start), or had its
\* outcome written over by a statement that ran late (MIGRATING after COMPLETED), or its handler
\* was ended by a heartbeat, or is of a bulk activation of no line.
RestShowsOutcome ==
  Quiet => \A r \in DOMAIN store :
             store[r].status \in Settled \/ r \in missed \cup late \cup broken \/ NoLines

\* Every request ends with the last event of its flow, whatever is redelivered and whenever the
\* process restarts; only a bulk activation whose record an update missed never ends, and a
\* provisioning that a heartbeat ended.
Ends(requested, ends) ==
  (\E m \in Topic(requested) : TRUE) ~>
    \/ \E m \in bus : m.topic \in ends
    \/ NoLines \/ Main \in broken \/ (requested = "bulk-activation.requested" /\ Main \in missed)
FlowsEnd ==
  /\ Ends("upgrade.requested", {"migration.activated", "migration.rolled-back"})
  /\ Ends("sim-swap.requested", {"sim-swap.completed"})
  /\ Ends("bulk-activation.requested", {"bulk-activation.completed"})
  /\ Ends("device-provisioning.requested", {"device-provisioning.completed"})
  /\ Ends("recurring.triggered", {"product.activated", "recurring.failed"})
=============================================================================
