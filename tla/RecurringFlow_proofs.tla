------------------------- MODULE RecurringFlow_proofs -------------------------
(* Proofs about RecurringFlow: the types of the records, that a plan is    *)
(* not attempted more often than maxAttempts, that a cycle is charged once *)
(* and that a plan is suspended only when its attempts are used up.        *)
EXTENDS RecurringFlow, FiniteSetTheorems, TLAPS

USE MaxesAssumption, BoundsAssumption

(* The failure handler decides at the end of an attempt whether there may  *)
(* be another one: a cycle that can be retried has an attempt left.        *)
RetryHasAttempt ==
  recurring.status = "CAPTURE_FAILED" => recurring.max = 0 \/ recurring.attempts < recurring.max

IInv == TypeOK /\ AttemptsWithinMax /\ RetryHasAttempt

Cycles == [status : Statuses, attempts : Nat, max : Maxes \cup {0}]

-----------------------------------------------------------------------------
(* The numbers of a cycle.                                                 *)
LEMMA CycleNumbers ==
  ASSUME NEW cycle \in Cycles
  PROVE  cycle.attempts \in Nat /\ cycle.max \in Maxes \cup {0} /\ cycle.max \in Nat
<1>1. cycle.attempts \in Nat /\ cycle.max \in Maxes \cup {0}
  BY DEF Cycles
<1>2. Maxes \cup {0} \subseteq Nat
  OBVIOUS
<1> QED
  BY <1>1, <1>2

(* A new status leaves the attempts and their bound.                       *)
LEMMA StatusOnly ==
  ASSUME TypeOK, NEW status \in Statuses, SetStatus(status)
  PROVE  /\ recurring' \in Cycles
         /\ recurring'.attempts = recurring.attempts /\ recurring'.max = recurring.max
         /\ recurring'.status = status \/ recurring' = recurring
<1>1. recurring \in Cycles
  BY DEF TypeOK, Cycles
<1>2. CASE recurring = NoRecord
  BY <1>1, <1>2 DEF SetStatus
<1>3. CASE recurring # NoRecord
  <2>1. recurring' = [recurring EXCEPT !.status = status]
    BY <1>3 DEF SetStatus
  <2> QED
    BY <1>1, <2>1 DEF Cycles
<1> QED
  BY <1>2, <1>3

(* What the invariant says of the record, for the record of a next state.  *)
LEMMA RecordKeeps ==
  ASSUME IInv, recurring' \in Cycles, recurring'.attempts = recurring.attempts,
         recurring'.max = recurring.max,
         recurring'.status # "CAPTURE_FAILED" \/ recurring'.status = recurring.status
           \/ ~AttemptsExhausted
  PROVE  AttemptsWithinMax' /\ RetryHasAttempt'
<1>1. recurring \in Cycles
  BY DEF IInv, TypeOK, Cycles
<1>2. recurring.attempts \in Nat /\ recurring.max \in Nat
  BY <1>1, CycleNumbers
<1> QED
  BY <1>2 DEF IInv, AttemptsWithinMax, RetryHasAttempt, AttemptsExhausted

(* The counters of requests and faults.                                    *)
LEMMA StartCounts ==
  ASSUME TypeOK, NEW fail, Start(fail)
  PROVE  requests' \in Nat /\ faults' \in Nat
BY DEF TypeOK, Start

(* Every step keeps the invariant.                                         *)
LEMMA InvariantStep == IInv /\ [Next]_vars => IInv'
<1> SUFFICES ASSUME IInv, [Next]_vars PROVE IInv'
  OBVIOUS
<1>t. TypeOK /\ recurring \in Cycles
  BY DEF IInv, TypeOK, Cycles
<1>n. /\ recurring.attempts \in Nat /\ recurring.max \in Nat /\ recurring.max \in Maxes \cup {0}
  BY <1>t, CycleNumbers
<1>1. CASE TriggerBilling
  <2>1. PICK fail \in BOOLEAN, max \in Maxes :
          /\ plan' = "ACTIVE" /\ recurring' = [status |-> "PROCESSING", attempts |-> 1, max |-> max]
          /\ Start(fail)
    BY <1>1 DEF TriggerBilling
  <2>2. max \in Nat
    OBVIOUS
  <2>3. /\ recurring' \in Cycles /\ recurring'.status = "PROCESSING"
        /\ recurring'.attempts = 1 /\ recurring'.max = max
    BY <2>1 DEF Cycles, Statuses
  <2>4. TypeOK'
    BY <2>1, <2>3, <1>t, StartCounts DEF TypeOK, Cycles
  <2> QED
    BY <2>2, <2>3, <2>4 DEF IInv, AttemptsWithinMax, RetryHasAttempt
<1>2. CASE RetryRecurring
  <2>1. PICK fail \in BOOLEAN :
          /\ recurring.status = "CAPTURE_FAILED" /\ recurring' = IncrementAttempt
          /\ Start(fail) /\ UNCHANGED plan
    BY <1>2 DEF RetryRecurring
  <2>2. /\ recurring' \in Cycles /\ recurring'.status = "PROCESSING"
        /\ recurring'.attempts = recurring.attempts + 1 /\ recurring'.max = recurring.max
    <3>1. recurring' = [recurring EXCEPT !.attempts = recurring.attempts + 1, !.status = "PROCESSING"]
      BY <2>1 DEF IncrementAttempt
    <3>2. recurring.attempts + 1 \in Nat /\ "PROCESSING" \in Statuses
      BY <1>n DEF Statuses
    <3> QED
      BY <3>1, <3>2, <1>t DEF Cycles
  <2>3. TypeOK'
    BY <2>1, <2>2, <1>t, StartCounts DEF TypeOK, Cycles
  <2>4. recurring.max = 0 \/ recurring.attempts < recurring.max
    BY <2>1 DEF IInv, RetryHasAttempt
  <2> QED
    BY <2>2, <2>3, <2>4, <1>n DEF IInv, AttemptsWithinMax, RetryHasAttempt
<1>3. CASE RecurringCompleted
  <2>1. SetStatus("COMPLETED") /\ UNCHANGED <<plan, requests, faults>> /\ "COMPLETED" \in Statuses
    BY <1>3 DEF RecurringCompleted, Rest, Statuses
  <2>2. /\ recurring' \in Cycles
        /\ recurring'.attempts = recurring.attempts /\ recurring'.max = recurring.max
        /\ recurring'.status = "COMPLETED" \/ recurring' = recurring
    BY <2>1, <1>t, StatusOnly
  <2>3. AttemptsWithinMax' /\ RetryHasAttempt'
    BY <2>2, RecordKeeps
  <2> QED
    BY <2>1, <2>2, <2>3, <1>t DEF IInv, TypeOK, Cycles
<1>4. CASE RecurringPaymentFailed
  <2>1. UNCHANGED <<plan, requests, faults>>
    BY <1>4 DEF RecurringPaymentFailed, Rest
  <2>2. \/ UNCHANGED recurring
        \/ SetStatus("FAILED")
        \/ ~AttemptsExhausted /\ SetStatus("CAPTURE_FAILED")
    BY <1>4 DEF RecurringPaymentFailed
  <2>3. "FAILED" \in Statuses /\ "CAPTURE_FAILED" \in Statuses
    BY DEF Statuses
  <2>4. /\ recurring' \in Cycles
        /\ recurring'.attempts = recurring.attempts /\ recurring'.max = recurring.max
        /\ \/ recurring'.status = "FAILED" \/ recurring' = recurring
           \/ ~AttemptsExhausted
    BY <2>2, <2>3, <1>t, StatusOnly
  <2>5. AttemptsWithinMax' /\ RetryHasAttempt'
    BY <2>4, RecordKeeps
  <2> QED
    BY <2>1, <2>4, <2>5, <1>t DEF IInv, TypeOK, Cycles
<1>5. CASE RecurringFailed
  <2>1. UNCHANGED <<recurring, requests, faults>> /\ plan' \in {plan, "SUSPENDED"}
    BY <1>5 DEF RecurringFailed, Rest
  <2> QED
    BY <2>1, <1>t DEF IInv, TypeOK, AttemptsWithinMax, RetryHasAttempt
<1>6. CASE Restart
  <2>1. /\ recurring' = NoRecord /\ plan' = "NONE" /\ UNCHANGED requests /\ faults' = faults + 1
    BY <1>6 DEF Restart
  <2>2. recurring' \in Cycles /\ recurring'.max = 0 /\ recurring'.status = "NONE"
    BY <2>1 DEF NoRecord, Cycles, Statuses
  <2> QED
    BY <2>1, <2>2, <1>t DEF IInv, TypeOK, Cycles, AttemptsWithinMax, RetryHasAttempt
<1>7. CASE Redeliver
  <2>1. UNCHANGED <<recurring, plan, requests>> /\ faults' = faults + 1
    BY <1>7 DEF Redeliver
  <2> QED
    BY <2>1, <1>t DEF IInv, TypeOK, AttemptsWithinMax, RetryHasAttempt
<1>8. CASE UNCHANGED <<recurring, plan, requests, faults>>
  BY <1>8, <1>t DEF IInv, TypeOK, AttemptsWithinMax, RetryHasAttempt
<1>9. ASSUME \/ RecurringProcessing \/ PlanOrderRequested \/ OrderPlanOrderCreated \/ PaymentManagement
             \/ PaymentSuccess \/ PaymentFailed \/ OrderingCompleted \/ OrderingPaymentFailed
             \/ NextCycle \/ RecurringCreated \/ Provision \/ Provisioned \/ ProvisionCompleted
      PROVE  UNCHANGED <<recurring, plan, requests, faults>>
  BY <1>9 DEF RecurringProcessing, PlanOrderRequested, OrderPlanOrderCreated, PaymentManagement,
              PaymentSuccess, PaymentFailed, OrderingCompleted, OrderingPaymentFailed, NextCycle,
              RecurringCreated, Provision, Provisioned, ProvisionCompleted, Forward,
              UpdateAndForward, Rest
<1> QED
  BY <1>1, <1>2, <1>3, <1>4, <1>5, <1>6, <1>7, <1>8, <1>9 DEF Next, Participants, vars

(* The invariant holds at the start.                                       *)
LEMMA InvariantInit == Init => IInv
<1> SUFFICES ASSUME Init PROVE IInv
  OBVIOUS
<1>1. recurring = NoRecord /\ plan = "NONE" /\ requests = 0 /\ faults = 0
  BY DEF Init
<1>2. recurring \in Cycles /\ recurring.max = 0 /\ recurring.status = "NONE"
  BY <1>1 DEF NoRecord, Cycles, Statuses
<1> QED
  BY <1>1, <1>2 DEF IInv, TypeOK, Cycles, AttemptsWithinMax, RetryHasAttempt

(* The records keep their types, also when the process restarts without    *)
(* them and messages of the old ones still come.                           *)
THEOREM TypeCorrect == Spec => []TypeOK
<1>1. IInv => TypeOK
  BY DEF IInv
<1> QED
  BY <1>1, InvariantInit, InvariantStep, PTL DEF Spec

(* No plan has more attempts than maxAttempts allows, for every number of  *)
(* requests, redeliveries and restarts.                                    *)
THEOREM AttemptsAreBounded == Spec => []AttemptsWithinMax
<1>1. IInv => AttemptsWithinMax
  BY DEF IInv
<1> QED
  BY <1>1, InvariantInit, InvariantStep, PTL DEF Spec

-----------------------------------------------------------------------------
(* The way of an attempt: to the payment, and back with its result.        *)
PaidTopics == {"rf.payment.created.success", "rf.ordering.order.updated.completed",
               "rf.plan-ordering.order.updated.completed"}
UnpaidTopics == {"rf.payment.created.failed", "rf.ordering.order.updated.payment-failed",
                 "rf.plan-ordering.order.updated.payment-failed"}
AttemptTopics == Charging \cup PaidTopics \cup UnpaidTopics

OnTheWay == {m \in bus : m.topic \in AttemptTopics /\ m.id \notin handled}

(* The cycle can be retried, or has failed for good.                       *)
Over == {"CAPTURE_FAILED", "FAILED"}
GivenUp == Topic("rf.recurring.updated.failed") # {} \/ plan = "SUSPENDED"

(* A record with the fields of a message.                                  *)
IsMessage(m) ==
  m = [id |-> m.id, topic |-> m.topic, hint |-> m.hint, saga |-> m.saga,
       item |-> m.item, order |-> m.order, fail |-> m.fail]

(* What holds whatever is redelivered and whenever the process restarts:   *)
(* what follows a payment has one before it, and the records of a plan     *)
(* that is suspended are gone or say that the attempts are used up.        *)
FlowInv ==
  /\ \A m \in bus : IsMessage(m)
  /\ requests = 0 => bus = {} /\ recurring = NoRecord /\ plan = "NONE"
  /\ (\E m \in bus : m.topic \in PaidTopics) => Charged # {}
  /\ recurring # NoRecord /\ GivenUp => AttemptsExhausted

(* Without faults there is one attempt at a time, none when the cycle      *)
(* waits for a retry or has failed, and none after one was paid.           *)
OneAttempt ==
  /\ \A m, n \in OnTheWay : m = n
  /\ recurring.status \in Over => OnTheWay = {}
  /\ Charged # {} => /\ recurring.status \notin Over
                     /\ \A m \in OnTheWay : m.topic \in PaidTopics
                     /\ \A m, n \in Charged : m = n
  /\ GivenUp => recurring.status = "FAILED"
  /\ next # {} \/ (\E t \in todo : t.do = "next") => Charged # {}

AttemptInv == FlowInv /\ (faults = 0 => OneAttempt)

(* A handler of topic from hands a message on to topic to.                 *)
Sends(from, to) ==
  \E m \in bus : \E x :
    /\ m.topic = from /\ m.id \notin handled /\ handled' = handled \cup {m.id}
    /\ bus' = bus \cup {x} /\ IsMessage(x) /\ x.topic = to

(* The id is all that publishing changes of a message.                     *)
LEMMA PublishOne ==
  ASSUME NEW m, NEW y, IsMessage(y), Publish(m, <<y>>)
  PROVE  \E x : bus' = bus \cup {x} /\ IsMessage(x) /\ x.topic = y.topic
<1> DEFINE x == [y EXCEPT !.id = NewId(m, 1)]
<1>1. bus' = bus \cup {[<<y>>[i] EXCEPT !.id = NewId(m, i)] : i \in DOMAIN <<y>>}
  BY DEF Publish
<1>2. DOMAIN <<y>> = {1} /\ <<y>>[1] = y
  OBVIOUS
<1>3. bus' = bus \cup {x}
  <2> HIDE DEF NewId
  <2> QED
    BY <1>1, <1>2
<1>4. IsMessage(x) /\ x.topic = y.topic
  <2> HIDE DEF NewId
  <2> QED
    BY DEF IsMessage
<1> QED
  BY <1>3, <1>4

(* A message in the same saga, also with a new record.                     *)
LEMMA SameIsMessage ==
  ASSUME NEW m, IsMessage(m), NEW to, NEW hint
  PROVE  /\ IsMessage(Same(m, to, hint)) /\ Same(m, to, hint).topic = to
         /\ \A id : LET y == [Same(m, to, hint) EXCEPT !.item = id] IN IsMessage(y) /\ y.topic = to
         /\ \A id : LET y == [Same(m, to, hint) EXCEPT !.order = id] IN IsMessage(y) /\ y.topic = to
         /\ \A id : LET y == [Same(m, to, hint) EXCEPT !.saga = id] IN IsMessage(y) /\ y.topic = to
<1>1. IsMessage(Same(m, to, hint)) /\ Same(m, to, hint).topic = to
  <2>1. ASSUME NEW y, IsMessage(y)
        PROVE  /\ IsMessage([y EXCEPT !.topic = to]) /\ [y EXCEPT !.topic = to].topic = to
               /\ IsMessage([y EXCEPT !.hint = hint]) /\ [y EXCEPT !.hint = hint].topic = y.topic
    BY <2>1 DEF IsMessage
  <2>2. Same(m, to, hint) = [[m EXCEPT !.topic = to] EXCEPT !.hint = hint]
    BY DEF IsMessage, Same
  <2> QED
    BY <2>1, <2>2
<1>2. ASSUME NEW y, IsMessage(y), NEW id
      PROVE  /\ IsMessage([y EXCEPT !.item = id]) /\ [y EXCEPT !.item = id].topic = y.topic
             /\ IsMessage([y EXCEPT !.order = id]) /\ [y EXCEPT !.order = id].topic = y.topic
             /\ IsMessage([y EXCEPT !.saga = id]) /\ [y EXCEPT !.saga = id].topic = y.topic
  BY <1>2 DEF IsMessage
<1> QED
  BY <1>1, <1>2

(* What the participants of an attempt leave alone.                        *)
Unmoved == UNCHANGED <<recurring, plan, next, requests, faults>>

(* The two kinds of participants that hand one message on.                 *)
LEMMA ForwardSends ==
  ASSUME FlowInv, NEW topic, NEW to, NEW hint, Forward(topic, to, hint)
  PROVE  Sends(topic, to) /\ Unmoved /\ UNCHANGED todo
<1>1. PICK m \in bus : Arrives(m, topic) /\ HandledNow(m) /\ Publish(m, <<Same(m, to, hint)>>)
  BY DEF Forward
<1>2. IsMessage(Same(m, to, hint)) /\ Same(m, to, hint).topic = to
  BY SameIsMessage DEF FlowInv
<1>3. PICK x : bus' = bus \cup {x} /\ IsMessage(x) /\ x.topic = to
  BY <1>1, <1>2, PublishOne
<1> QED
  BY <1>1, <1>3 DEF Sends, Arrives, HandledNow, Forward, Rest, Unmoved

(* With an update of the record.                                           *)
LEMMA UpdateSends ==
  ASSUME FlowInv, NEW topic, NEW id, NEW status, NEW to, NEW hint,
         UpdateAndForward(topic, id, status, to, hint)
  PROVE  Sends(topic, to) /\ Unmoved /\ UNCHANGED todo
<1>1. PICK m \in bus : Arrives(m, topic) /\ HandledNow(m) /\ Publish(m, <<Same(m, to, hint)>>)
  BY DEF UpdateAndForward
<1>2. IsMessage(Same(m, to, hint)) /\ Same(m, to, hint).topic = to
  BY SameIsMessage DEF FlowInv
<1>3. PICK x : bus' = bus \cup {x} /\ IsMessage(x) /\ x.topic = to
  BY <1>1, <1>2, PublishOne
<1> QED
  BY <1>1, <1>3 DEF Sends, Arrives, HandledNow, UpdateAndForward, Rest, Unmoved

(* A step of an attempt: the message before it is handled, and the one     *)
(* after it is on the way.                                                 *)
LEMMA AttemptMoves ==
  ASSUME AttemptInv, NEW from \in AttemptTopics, NEW to \in AttemptTopics,
         Sends(from, to), Unmoved, UNCHANGED todo,
         from \in PaidTopics => to \in PaidTopics \ {"rf.payment.created.success"},
         to \in PaidTopics => from \in PaidTopics \/ to = "rf.payment.created.success"
  PROVE  AttemptInv'
<1>1. PICK m, x :
        /\ m \in bus /\ m.topic = from /\ m.id \notin handled /\ handled' = handled \cup {m.id}
        /\ bus' = bus \cup {x} /\ IsMessage(x) /\ x.topic = to
  BY DEF Sends
<1>2. to # "rf.recurring.updated.failed"
  BY DEF AttemptTopics, Charging, PaidTopics, UnpaidTopics
<1>3. Topic("rf.recurring.updated.failed")' = Topic("rf.recurring.updated.failed")
  BY <1>1, <1>2 DEF Topic
<1>4. Charged \subseteq Charged' /\ Charged' \subseteq Charged \cup {x}
  BY <1>1 DEF Charged, Topic
<1>5. FlowInv'
  <2>1. \A n \in bus' : IsMessage(n)
    BY <1>1 DEF AttemptInv, FlowInv
  <2>2. requests' # 0
    BY <1>1 DEF AttemptInv, FlowInv, Unmoved
  <2>3. (\E n \in bus' : n.topic \in PaidTopics) => Charged' # {}
    <3>1. CASE \E n \in bus : n.topic \in PaidTopics
      BY <3>1, <1>4 DEF AttemptInv, FlowInv
    <3>2. CASE x.topic = "rf.payment.created.success"
      BY <3>2, <1>1 DEF Charged, Topic
    <3> QED
      BY <3>1, <3>2, <1>1
  <2>4. recurring' # NoRecord /\ GivenUp' => AttemptsExhausted'
    BY <1>3 DEF AttemptInv, FlowInv, GivenUp, Unmoved, AttemptsExhausted
  <2> QED
    BY <2>1, <2>2, <2>3, <2>4 DEF FlowInv
<1>6. ASSUME faults' = 0 PROVE OneAttempt'
  <2>1. OneAttempt
    BY <1>6 DEF AttemptInv, Unmoved
  <2>2. m \in OnTheWay
    BY <1>1 DEF OnTheWay
  <2>3. OnTheWay' \subseteq {x}
    BY <1>1, <2>1, <2>2 DEF OnTheWay, OneAttempt
  <2>4. recurring'.status \notin Over
    BY <2>1, <2>2 DEF OneAttempt, Unmoved
  <2>5. Charged' # {} => x.topic \in PaidTopics /\ \A n, k \in Charged' : n = k
    <3>1. CASE Charged # {}
      <4>1. from \in PaidTopics
        BY <3>1, <1>1, <2>1, <2>2 DEF OneAttempt
      <4>2. x.topic \in PaidTopics \ {"rf.payment.created.success"}
        BY <4>1, <1>1
      <4>3. Charged' = Charged
        BY <4>2, <1>1 DEF Charged, Topic
      <4> QED
        BY <4>2, <4>3, <3>1, <2>1 DEF OneAttempt
    <3>2. CASE Charged = {}
      <4>1. Charged' # {} => x \in Charged'
        BY <3>2, <1>4
      <4>2. x \in Charged' => x.topic \in PaidTopics
        BY DEF Charged, Topic, PaidTopics
      <4> QED
        BY <4>1, <4>2, <3>2, <1>4
    <3> QED
      BY <3>1, <3>2
  <2>6. GivenUp' => recurring'.status = "FAILED"
    BY <2>1, <1>3 DEF OneAttempt, GivenUp, Unmoved
  <2>7. next' # {} \/ (\E t \in todo' : t.do = "next") => Charged' # {}
    BY <2>1, <1>4 DEF OneAttempt, Unmoved
  <2> QED
    BY <2>3, <2>4, <2>5, <2>6, <2>7 DEF OneAttempt
<1> QED
  BY <1>5, <1>6 DEF AttemptInv

(* A step beside the attempts: it publishes nothing of an attempt and no   *)
(* failure, and starts no next cycle.                                      *)
LEMMA AsideMoves ==
  ASSUME AttemptInv, NEW X, bus' = bus \cup X,
         \A x \in X : IsMessage(x) /\ x.topic \notin AttemptTopics /\ x.topic # "rf.recurring.updated.failed",
         requests' = 0 => X = {} /\ requests = 0,
         handled \subseteq handled', UNCHANGED <<recurring, plan, faults>>,
         next' # {} \/ (\E t \in todo' : t.do = "next") => next # {} \/ (\E t \in todo : t.do = "next")
  PROVE  AttemptInv'
<1>1. Topic("rf.recurring.updated.failed")' = Topic("rf.recurring.updated.failed")
  BY DEF Topic
<1>2. Charged' = Charged
  BY DEF Charged, Topic, AttemptTopics, PaidTopics
<1>3. OnTheWay' \subseteq OnTheWay
  BY DEF OnTheWay
<1>4. FlowInv'
  <2>1. \A n \in bus' : IsMessage(n)
    BY DEF AttemptInv, FlowInv
  <2>2. requests' = 0 => bus' = {} /\ recurring' = NoRecord /\ plan' = "NONE"
    BY DEF AttemptInv, FlowInv
  <2>3. (\E n \in bus' : n.topic \in PaidTopics) => Charged' # {}
    BY <1>2 DEF AttemptInv, FlowInv, AttemptTopics
  <2>4. recurring' # NoRecord /\ GivenUp' => AttemptsExhausted'
    BY <1>1 DEF AttemptInv, FlowInv, GivenUp, AttemptsExhausted
  <2> QED
    BY <2>1, <2>2, <2>3, <2>4 DEF FlowInv
<1>5. faults' = 0 => OneAttempt'
  BY <1>1, <1>2, <1>3 DEF AttemptInv, OneAttempt, GivenUp
<1> QED
  BY <1>4, <1>5 DEF AttemptInv

-----------------------------------------------------------------------------
(* The participants between the request and the payment, and back.         *)
LEMMA ChainKeeps ==
  ASSUME AttemptInv,
         \/ RecurringProcessing \/ PlanOrderRequested \/ OrderPlanOrderCreated \/ PaymentManagement
         \/ PaymentSuccess \/ PaymentFailed \/ OrderingCompleted \/ OrderingPaymentFailed
  PROVE  AttemptInv'
<1> USE DEF AttemptTopics, Charging, PaidTopics, UnpaidTopics
<1>f. FlowInv
  BY DEF AttemptInv
<1>1. CASE RecurringProcessing
  <2>1. /\ Sends("rf.recurring.updated.processing", "rf.plan.order.requested")
        /\ Unmoved /\ UNCHANGED todo
    BY <1>1, <1>f, ForwardSends DEF RecurringProcessing
  <2> QED
    BY <2>1, AttemptMoves
<1>2. CASE PlanOrderRequested
  <2>1. PICK m \in bus :
          /\ Arrives(m, "rf.plan.order.requested") /\ HandledNow(m)
          /\ Publish(m, <<[Same(m, "rf.plan-ordering.order.created", "none") EXCEPT !.item = NewId(m, 1)]>>)
          /\ Rest /\ UNCHANGED <<recurring, plan, next, todo>>
    BY <1>2 DEF PlanOrderRequested
  <2> DEFINE y == [Same(m, "rf.plan-ordering.order.created", "none") EXCEPT !.item = NewId(m, 1)]
  <2>2. IsMessage(y) /\ y.topic = "rf.plan-ordering.order.created"
    BY <1>f, SameIsMessage DEF FlowInv
  <2>3. PICK x : bus' = bus \cup {x} /\ IsMessage(x) /\ x.topic = y.topic
    BY <2>1, <2>2, PublishOne
  <2>4. /\ Sends("rf.plan.order.requested", "rf.plan-ordering.order.created")
        /\ Unmoved /\ UNCHANGED todo
    BY <2>1, <2>2, <2>3 DEF Sends, Arrives, HandledNow, Rest, Unmoved
  <2> QED
    BY <2>4, AttemptMoves
<1>3. CASE OrderPlanOrderCreated
  <2>1. PICK m \in bus :
          /\ Arrives(m, "rf.plan-ordering.order.created") /\ HandledNow(m)
          /\ Publish(m, <<[Same(m, "rf.ordering.order.created", "none") EXCEPT !.order = NewId(m, 1)]>>)
          /\ Rest /\ UNCHANGED <<recurring, plan, next, todo>>
    BY <1>3 DEF OrderPlanOrderCreated
  <2> DEFINE y == [Same(m, "rf.ordering.order.created", "none") EXCEPT !.order = NewId(m, 1)]
  <2>2. IsMessage(y) /\ y.topic = "rf.ordering.order.created"
    BY <1>f, SameIsMessage DEF FlowInv
  <2>3. PICK x : bus' = bus \cup {x} /\ IsMessage(x) /\ x.topic = y.topic
    BY <2>1, <2>2, PublishOne
  <2>4. /\ Sends("rf.plan-ordering.order.created", "rf.ordering.order.created")
        /\ Unmoved /\ UNCHANGED todo
    BY <2>1, <2>2, <2>3 DEF Sends, Arrives, HandledNow, Rest, Unmoved
  <2> QED
    BY <2>4, AttemptMoves
<1>4. CASE PaymentManagement
  <2>1. PICK m \in bus :
          /\ Arrives(m, "rf.ordering.order.created") /\ HandledNow(m)
          /\ \/ Publish(m, <<Same(m, "rf.payment.created.failed", "compensation")>>)
             \/ Publish(m, <<Same(m, "rf.payment.created.success", "none")>>)
          /\ Rest /\ UNCHANGED <<recurring, plan, next, todo>>
    BY <1>4 DEF PaymentManagement
  <2>2. ASSUME NEW to, NEW hint, Publish(m, <<Same(m, to, hint)>>)
        PROVE  Sends("rf.ordering.order.created", to) /\ Unmoved /\ UNCHANGED todo
    <3>1. IsMessage(Same(m, to, hint)) /\ Same(m, to, hint).topic = to
      BY <1>f, SameIsMessage DEF FlowInv
    <3>2. PICK x : bus' = bus \cup {x} /\ IsMessage(x) /\ x.topic = to
      BY <2>2, <3>1, PublishOne
    <3> QED
      BY <2>1, <3>2 DEF Sends, Arrives, HandledNow, Rest, Unmoved
  <2>3. CASE Publish(m, <<Same(m, "rf.payment.created.failed", "compensation")>>)
    <3>1. Sends("rf.ordering.order.created", "rf.payment.created.failed") /\ Unmoved /\ UNCHANGED todo
      BY <2>2, <2>3
    <3> QED
      BY <3>1, AttemptMoves
  <2>4. CASE Publish(m, <<Same(m, "rf.payment.created.success", "none")>>)
    <3>1. Sends("rf.ordering.order.created", "rf.payment.created.success") /\ Unmoved /\ UNCHANGED todo
      BY <2>2, <2>4
    <3> QED
      BY <3>1, AttemptMoves
  <2> QED
    BY <2>1, <2>3, <2>4
<1>5. CASE PaymentSuccess
  <2>1. /\ Sends("rf.payment.created.success", "rf.ordering.order.updated.completed")
        /\ Unmoved /\ UNCHANGED todo
    BY <1>5, <1>f, UpdateSends DEF PaymentSuccess
  <2> QED
    BY <2>1, AttemptMoves
<1>6. CASE PaymentFailed
  <2>1. /\ Sends("rf.payment.created.failed", "rf.ordering.order.updated.payment-failed")
        /\ Unmoved /\ UNCHANGED todo
    BY <1>6, <1>f, UpdateSends DEF PaymentFailed
  <2> QED
    BY <2>1, AttemptMoves
<1>7. CASE OrderingCompleted
  <2>1. /\ Sends("rf.ordering.order.updated.completed", "rf.plan-ordering.order.updated.completed")
        /\ Unmoved /\ UNCHANGED todo
    BY <1>7, <1>f, UpdateSends DEF OrderingCompleted
  <2> QED
    BY <2>1, AttemptMoves
<1>8. CASE OrderingPaymentFailed
  <2>1. /\ Sends("rf.ordering.order.updated.payment-failed", "rf.plan-ordering.order.updated.payment-failed")
        /\ Unmoved /\ UNCHANGED todo
    BY <1>8, <1>f, UpdateSends DEF OrderingPaymentFailed
  <2> QED
    BY <2>1, AttemptMoves
<1> QED
  BY <1>1, <1>2, <1>3, <1>4, <1>5, <1>6, <1>7, <1>8

(* The participants of the next cycle.                                     *)
LEMMA AsideKeeps ==
  ASSUME AttemptInv, RecurringCreated \/ Provision \/ Provisioned \/ ProvisionCompleted \/ NextCycle
  PROVE  AttemptInv'
<1> USE DEF AttemptTopics, Charging, PaidTopics, UnpaidTopics
<1>f. FlowInv
  BY DEF AttemptInv
<1>r. \A m \in bus : requests # 0
  BY DEF AttemptInv, FlowInv
<1>1. CASE RecurringCreated
  <2>1. PICK m \in bus :
          /\ HandledNow(m)
          /\ Publish(m, <<[Same(m, "rf.product.updated.pending", "none") EXCEPT !.item = NewId(m, 1)]>>)
          /\ Rest /\ UNCHANGED <<recurring, plan, next, todo>>
    BY <1>1 DEF RecurringCreated
  <2> DEFINE y == [Same(m, "rf.product.updated.pending", "none") EXCEPT !.item = NewId(m, 1)]
  <2>2. IsMessage(y) /\ y.topic = "rf.product.updated.pending"
    BY <1>f, SameIsMessage DEF FlowInv
  <2>3. PICK x : bus' = bus \cup {x} /\ IsMessage(x) /\ x.topic = y.topic
    BY <2>1, <2>2, PublishOne
  <2> DEFINE X == {x}
  <2>4. bus' = bus \cup X /\ \A n \in X : IsMessage(n) /\ n.topic = "rf.product.updated.pending"
    BY <2>2, <2>3
  <2>5. UNCHANGED <<recurring, plan, next, todo, requests, faults>> /\ handled \subseteq handled' /\ requests # 0
    BY <2>1, <1>r DEF HandledNow, Rest
  <2> HIDE DEF X
  <2> QED
    BY <2>4, <2>5, AsideMoves
<1>2. CASE Provision
  <2>1. PICK m, t :
          /\ m \in bus /\ HandledNow(m) /\ todo' = todo \cup {t} /\ t.do = "provision"
          /\ Rest /\ UNCHANGED <<bus, recurring, plan, next>>
    <3>1. PICK m \in bus : /\ HandledNow(m)
                           /\ todo' = todo \cup {[do |-> "provision", msg |-> m.id, id |-> m.id \o <<0, faults>>]}
                           /\ Rest /\ UNCHANGED <<bus, recurring, plan, next>>
      BY <1>2 DEF Provision
    <3> QED
      BY <3>1
  <2> DEFINE X == {}
  <2>2. bus' = bus \cup X /\ \A n \in X : FALSE
    BY <2>1
  <2>3. /\ UNCHANGED <<recurring, plan, next, requests, faults>> /\ handled \subseteq handled' /\ requests # 0
        /\ (\E k \in todo' : k.do = "next") => \E k \in todo : k.do = "next"
    BY <2>1, <1>r DEF HandledNow, Rest
  <2> HIDE DEF X
  <2> QED
    BY <2>2, <2>3, AsideMoves
<1>3. CASE Provisioned
  <2>1. PICK m, t :
          /\ m \in bus /\ Publish(m, <<Same(m, "rf.provision.completed", "none")>>)
          /\ todo' = todo \ {t}
          /\ Rest /\ UNCHANGED <<handled, recurring, plan, next>>
    BY <1>3 DEF Provisioned
  <2>2. LET y == Same(m, "rf.provision.completed", "none")
        IN  IsMessage(y) /\ y.topic = "rf.provision.completed"
    BY <1>f, <2>1, SameIsMessage DEF FlowInv
  <2>3. PICK x : bus' = bus \cup {x} /\ IsMessage(x) /\ x.topic = "rf.provision.completed"
    BY <2>1, <2>2, PublishOne
  <2> DEFINE X == {x}
  <2>4. bus' = bus \cup X /\ \A n \in X : IsMessage(n) /\ n.topic = "rf.provision.completed"
    BY <2>3
  <2>5. UNCHANGED <<recurring, plan, next, handled, requests, faults>> /\ todo' \subseteq todo /\ requests # 0
    BY <2>1, <1>r DEF Rest
  <2> HIDE DEF X
  <2> QED
    BY <2>4, <2>5, AsideMoves
<1>4. CASE ProvisionCompleted
  <2>1. Sends("rf.provision.completed", "rf.product.activated") /\ Unmoved /\ UNCHANGED todo
    BY <1>4, <1>f, UpdateSends DEF ProvisionCompleted
  <2>2. PICK m, x :
          /\ m \in bus /\ handled' = handled \cup {m.id} /\ bus' = bus \cup {x} /\ IsMessage(x)
          /\ x.topic = "rf.product.activated"
    BY <2>1 DEF Sends
  <2> DEFINE X == {x}
  <2>3. bus' = bus \cup X /\ \A n \in X : IsMessage(n) /\ n.topic = "rf.product.activated"
    BY <2>2
  <2>4. UNCHANGED <<recurring, plan, next, todo, requests, faults>> /\ handled \subseteq handled' /\ requests # 0
    BY <2>1, <2>2, <1>r DEF Unmoved
  <2> HIDE DEF X
  <2> QED
    BY <2>3, <2>4, AsideMoves
<1>5. CASE NextCycle
  <2>1. PICK t \in todo : t.do = "next" /\ todo' = todo \ {t} /\ Rest /\ UNCHANGED <<bus, handled, recurring, plan>>
    BY <1>5 DEF NextCycle
  <2> DEFINE X == {}
  <2>2. bus' = bus \cup X /\ \A n \in X : FALSE
    BY <2>1
  <2>3. UNCHANGED <<recurring, plan, handled, requests, faults>> /\ \E k \in todo : k.do = "next"
    BY <2>1 DEF Rest
  <2> HIDE DEF X
  <2> QED
    BY <2>2, <2>3, AsideMoves
<1> QED
  BY <1>1, <1>2, <1>3, <1>4, <1>5

-----------------------------------------------------------------------------
(* What start publishes, or does not, and what it leaves alone.            *)
LEMMA StartMoves ==
  ASSUME TypeOK, NEW fail, Start(fail)
  PROVE  /\ requests' # 0 /\ UNCHANGED <<handled, next, todo>>
         /\ \/ faults' # 0 /\ UNCHANGED bus
            \/ \E x : /\ bus' = bus \cup {x} /\ IsMessage(x) /\ x.topic = "rf.recurring.updated.processing"
                      /\ UNCHANGED faults
<1>1. requests' # 0 /\ UNCHANGED <<handled, next, todo>>
  BY DEF Start, TypeOK
<1>2. CASE faults' = faults + 1 /\ UNCHANGED bus
  BY <1>1, <1>2 DEF TypeOK
<1>3. CASE bus' = bus \cup {[id |-> <<requests'>>, topic |-> "rf.recurring.updated.processing",
                             hint |-> "none", saga |-> <<<<requests'>>>>, item |-> <<>>, order |-> <<>>,
                             fail |-> fail]} /\ UNCHANGED faults
  <2> DEFINE x == [id |-> <<requests'>>, topic |-> "rf.recurring.updated.processing",
                   hint |-> "none", saga |-> <<<<requests'>>>>, item |-> <<>>, order |-> <<>>,
                   fail |-> fail]
  <2>1. IsMessage(x) /\ x.topic = "rf.recurring.updated.processing"
    BY DEF IsMessage
  <2> QED
    BY <1>1, <1>3, <2>1
<1> QED
  BY <1>2, <1>3 DEF Start

(* A request starts an attempt, when none is on its way or was paid.       *)
LEMMA RequestKeeps ==
  ASSUME TypeOK, AttemptInv, NEW fail, Start(fail),
         recurring' # NoRecord /\ GivenUp' => AttemptsExhausted',
         faults = 0 => OnTheWay = {} /\ Charged = {} /\ ~GivenUp,
         recurring'.status \notin Over, plan' # "SUSPENDED" \/ UNCHANGED plan
  PROVE  AttemptInv'
<1> USE DEF AttemptTopics, Charging, PaidTopics, UnpaidTopics
<1>1. CASE UNCHANGED bus /\ faults' # 0
  <2>1. requests' # 0 /\ Charged' = Charged
    BY <1>1, StartMoves DEF Charged, Topic
  <2>2. FlowInv'
    BY <1>1, <2>1 DEF AttemptInv, FlowInv
  <2> QED
    BY <1>1, <2>2 DEF AttemptInv
<1>2. ASSUME NEW x, bus' = bus \cup {x}, IsMessage(x), x.topic = "rf.recurring.updated.processing",
             UNCHANGED faults
      PROVE  AttemptInv'
  <2>1. requests' # 0 /\ UNCHANGED <<handled, next, todo>>
    BY StartMoves
  <2>2. /\ Charged' = Charged
        /\ Topic("rf.recurring.updated.failed")' = Topic("rf.recurring.updated.failed")
        /\ OnTheWay' \subseteq OnTheWay \cup {x}
    BY <1>2, <2>1 DEF Charged, Topic, OnTheWay
  <2>3. FlowInv'
    BY <1>2, <2>1, <2>2 DEF AttemptInv, FlowInv
  <2>4. faults = 0 => OneAttempt'
    BY <2>1, <2>2 DEF AttemptInv, OneAttempt, GivenUp
  <2> QED
    BY <1>2, <2>3, <2>4 DEF AttemptInv
<1> QED
  BY <1>1, <1>2, StartMoves

(* The first request finds nothing there.                                  *)
LEMMA TriggerKeeps == ASSUME TypeOK, AttemptInv, TriggerBilling PROVE AttemptInv'
<1>1. PICK fail \in BOOLEAN, max \in Maxes :
        /\ requests = 0 /\ plan' = "ACTIVE"
        /\ recurring' = [status |-> "PROCESSING", attempts |-> 1, max |-> max] /\ Start(fail)
  BY DEF TriggerBilling
<1>2. bus = {} /\ plan = "NONE"
  BY <1>1 DEF AttemptInv, FlowInv
<1>3. OnTheWay = {} /\ Charged = {} /\ ~GivenUp /\ Topic("rf.recurring.updated.failed") = {}
  BY <1>2 DEF OnTheWay, Charged, GivenUp, Topic
<1>4. ~GivenUp'
  <2>1. \A x : x.topic = "rf.recurring.updated.processing" => x.topic # "rf.recurring.updated.failed"
    OBVIOUS
  <2>2. Topic("rf.recurring.updated.failed")' = {}
    BY <1>1, <1>2, <2>1, StartMoves DEF Topic
  <2> QED
    BY <1>1, <2>2 DEF GivenUp
<1>5. recurring'.status \notin Over /\ plan' # "SUSPENDED"
  BY <1>1 DEF Over
<1> QED
  BY <1>1, <1>3, <1>4, <1>5, RequestKeeps

(* A retry finds the attempt before it over, and unpaid.                   *)
LEMMA RetryKeeps == ASSUME TypeOK, AttemptInv, RetryRecurring PROVE AttemptInv'
<1>1. PICK fail \in BOOLEAN : /\ recurring.status = "CAPTURE_FAILED" /\ recurring' = IncrementAttempt
                              /\ Start(fail) /\ UNCHANGED plan
  BY DEF RetryRecurring
<1>2. recurring \in Cycles /\ recurring.attempts \in Nat /\ recurring.max \in Nat
  BY CycleNumbers DEF TypeOK, Cycles
<1>3. recurring' = [recurring EXCEPT !.attempts = recurring.attempts + 1, !.status = "PROCESSING"]
  BY <1>1 DEF IncrementAttempt
<1>4. /\ recurring'.status = "PROCESSING" /\ recurring'.max = recurring.max
      /\ recurring'.attempts = recurring.attempts + 1
  BY <1>2, <1>3 DEF Cycles
<1>5. AttemptsExhausted => AttemptsExhausted'
  BY <1>2, <1>4 DEF AttemptsExhausted
<1>6. recurring # NoRecord
  BY <1>1 DEF NoRecord
<1>7. GivenUp' <=> GivenUp
  <2>1. Topic("rf.recurring.updated.failed")' = Topic("rf.recurring.updated.failed")
    BY <1>1, StartMoves DEF Topic
  <2> QED
    BY <1>1, <2>1 DEF GivenUp
<1>8. faults = 0 => OnTheWay = {} /\ Charged = {} /\ ~GivenUp
  BY <1>1 DEF AttemptInv, OneAttempt, Over
<1>9. recurring' # NoRecord /\ GivenUp' => AttemptsExhausted'
  BY <1>5, <1>6, <1>7 DEF AttemptInv, FlowInv
<1>10. recurring'.status \notin Over
  BY <1>4 DEF Over
<1> QED
  BY <1>1, <1>8, <1>9, <1>10, RequestKeeps

-----------------------------------------------------------------------------
(* The end of an attempt: the one that was on its way is handled.          *)
LEMMA EndOfAttempt ==
  ASSUME AttemptInv, faults = 0, NEW m \in bus, m.topic \in AttemptTopics, m.id \notin handled,
         handled' = handled \cup {m.id}, NEW X, bus' = bus \cup X,
         \A x \in X : x.topic \notin AttemptTopics
  PROVE  /\ OnTheWay' = {} /\ Charged' = Charged
         /\ recurring.status \notin Over /\ ~GivenUp
         /\ Charged # {} => m.topic \in PaidTopics
         /\ \A n, k \in Charged : n = k
<1>1. OneAttempt /\ m \in OnTheWay
  BY DEF AttemptInv, OnTheWay
<1>2. OnTheWay' = {}
  BY <1>1 DEF OneAttempt, OnTheWay
<1>3. Charged' = Charged
  BY DEF Charged, Topic, AttemptTopics, PaidTopics
<1> QED
  BY <1>1, <1>2, <1>3 DEF OneAttempt, Over

(* Two messages are published with ids of their own.                       *)
LEMMA PublishTwo ==
  ASSUME NEW m, NEW y, NEW z, IsMessage(y), IsMessage(z), Publish(m, <<y, z>>)
  PROVE  \E X : /\ bus' = bus \cup X
                /\ \A x \in X : IsMessage(x) /\ x.topic \in {y.topic, z.topic}
<1> DEFINE X == {[<<y, z>>[i] EXCEPT !.id = NewId(m, i)] : i \in DOMAIN <<y, z>>}
<1>1. bus' = bus \cup X
  BY DEF Publish
<1>2. DOMAIN <<y, z>> = {1, 2} /\ <<y, z>>[1] = y /\ <<y, z>>[2] = z
  OBVIOUS
<1>3. ASSUME NEW n, IsMessage(n), NEW id
      PROVE  IsMessage([n EXCEPT !.id = id]) /\ [n EXCEPT !.id = id].topic = n.topic
  BY <1>3 DEF IsMessage
<1> HIDE DEF NewId
<1>4. \A x \in X : x = [y EXCEPT !.id = NewId(m, 1)] \/ x = [z EXCEPT !.id = NewId(m, 2)]
  <2> TAKE x \in X
  <2>1. PICK i \in {1, 2} : x = [<<y, z>>[i] EXCEPT !.id = NewId(m, i)]
    BY <1>2
  <2>2. CASE i = 1
    BY <1>2, <2>1, <2>2
  <2>3. CASE i = 2
    BY <1>2, <2>1, <2>3
  <2> QED
    BY <2>1, <2>2, <2>3
<1> DEFINE a == [y EXCEPT !.id = NewId(m, 1)]
           b == [z EXCEPT !.id = NewId(m, 2)]
<1>5. IsMessage(a) /\ a.topic = y.topic /\ IsMessage(b) /\ b.topic = z.topic
  BY <1>3
<1>6. \A x \in X : x = a \/ x = b
  BY <1>4
<1> HIDE DEF a, b, X
<1>7. \A x \in X : IsMessage(x) /\ x.topic \in {y.topic, z.topic}
  BY <1>5, <1>6
<1> QED
  BY <1>1, <1>7

(* Handlers at the end of an attempt keep the invariant, if what they do   *)
(* to the record and the plan fits.                                        *)
LEMMA EndKeeps ==
  ASSUME AttemptInv, NEW m \in bus, m.topic \in AttemptTopics, m.id \notin handled,
         handled' = handled \cup {m.id}, NEW X, bus' = bus \cup X,
         \A x \in X : IsMessage(x) /\ x.topic \notin AttemptTopics,
         UNCHANGED <<plan, next, requests, faults>>,
         recurring' # NoRecord /\ GivenUp' => AttemptsExhausted',
         faults = 0 /\ GivenUp' => recurring'.status = "FAILED",
         Charged # {} /\ faults = 0 /\ m.topic \in PaidTopics => recurring'.status \notin Over,
         (\E t \in todo' : t.do = "next") => m.topic \in PaidTopics \/ \E t \in todo : t.do = "next"
  PROVE  AttemptInv'
<1>1. Charged' = Charged
  BY DEF Charged, Topic, AttemptTopics, PaidTopics
<1>2. FlowInv'
  <2>1. requests' # 0
    BY DEF AttemptInv, FlowInv
  <2>2. (\E n \in bus' : n.topic \in PaidTopics) => Charged' # {}
    BY <1>1 DEF AttemptInv, FlowInv, AttemptTopics
  <2> QED
    BY <2>1, <2>2 DEF AttemptInv, FlowInv
<1>3. ASSUME faults = 0 PROVE OneAttempt'
  <2>1. /\ OnTheWay' = {} /\ recurring.status \notin Over /\ ~GivenUp
        /\ Charged # {} => m.topic \in PaidTopics
        /\ \A n, k \in Charged : n = k
    BY <1>3, EndOfAttempt
  <2>2. m.topic \in PaidTopics => Charged # {}
    BY DEF AttemptInv, FlowInv
  <2>3. next' # {} \/ (\E t \in todo' : t.do = "next") => Charged' # {}
    BY <1>1, <1>3, <2>2 DEF AttemptInv, OneAttempt
  <2> QED
    BY <1>1, <1>3, <2>1, <2>3 DEF OneAttempt
<1> QED
  BY <1>2, <1>3 DEF AttemptInv

(* The end of a paid attempt.                                              *)
LEMMA CompletedKeeps == ASSUME TypeOK, AttemptInv, RecurringCompleted PROVE AttemptInv'
<1>1. PICK m \in bus :
        /\ Arrives(m, "rf.plan-ordering.order.updated.completed") /\ HandledNow(m)
        /\ SetStatus("COMPLETED")
        /\ Publish(m, <<Same(m, "rf.recurring.completed", "final"),
                        Child(m, "rf.recurring.created", "fork", 2)>>)
        /\ todo' = todo \cup {[do |-> "next", msg |-> m.id, id |-> NewId(m, 2)]}
        /\ Rest /\ UNCHANGED <<plan, items, next>>
  BY DEF RecurringCompleted
<1> DEFINE y == Same(m, "rf.recurring.completed", "final")
           z == Child(m, "rf.recurring.created", "fork", 2)
<1>2. IsMessage(y) /\ IsMessage(z) /\ y.topic = "rf.recurring.completed" /\ z.topic = "rf.recurring.created"
  <2>1. IsMessage(m)
    BY DEF AttemptInv, FlowInv
  <2>2. z = [Same(m, "rf.recurring.created", "fork") EXCEPT
               !.saga = Append(Same(m, "rf.recurring.created", "fork").saga, NewId(m, 2))]
    BY DEF Child
  <2>3. IsMessage(y) /\ y.topic = "rf.recurring.completed"
    BY <2>1, SameIsMessage
  <2> DEFINE w == Same(m, "rf.recurring.created", "fork")
  <2>4. \A id : IsMessage([w EXCEPT !.saga = id]) /\ [w EXCEPT !.saga = id].topic = "rf.recurring.created"
    BY <2>1, SameIsMessage
  <2> HIDE DEF w, y, z
  <2>5. z = [w EXCEPT !.saga = Append(w.saga, NewId(m, 2))]
    BY <2>2 DEF w
  <2> QED
    BY <2>3, <2>4, <2>5
<1>3. PICK X : bus' = bus \cup X /\ \A x \in X : IsMessage(x) /\ x.topic \in {y.topic, z.topic}
  BY <1>1, <1>2, PublishTwo
<1> HIDE DEF y, z
<1>4. /\ m.topic \in AttemptTopics /\ m.topic \in PaidTopics
      /\ \A x \in X : /\ IsMessage(x) /\ x.topic \notin AttemptTopics
                      /\ x.topic # "rf.recurring.updated.failed"
  BY <1>1, <1>2, <1>3 DEF Arrives, AttemptTopics, Charging, PaidTopics, UnpaidTopics
<1>5. /\ recurring'.attempts = recurring.attempts /\ recurring'.max = recurring.max
      /\ recurring'.status = "COMPLETED" \/ recurring' = recurring
      /\ recurring = NoRecord => recurring' = NoRecord
  BY <1>1, StatusOnly DEF Statuses, SetStatus
<1>6. GivenUp' <=> GivenUp
  BY <1>1, <1>3, <1>4 DEF GivenUp, Topic
<1>7. recurring' # NoRecord /\ GivenUp' => AttemptsExhausted'
  BY <1>5, <1>6 DEF AttemptInv, FlowInv, AttemptsExhausted
<1>8. ASSUME faults = 0 PROVE ~GivenUp' /\ recurring'.status \notin Over
  BY <1>1, <1>3, <1>4, <1>5, <1>6, <1>8, EndOfAttempt DEF Arrives, HandledNow, Over
<1>9. /\ handled' = handled \cup {m.id} /\ m.id \notin handled
      /\ UNCHANGED <<plan, next, requests, faults>>
  BY <1>1 DEF Arrives, HandledNow, Rest
<1> QED
  BY <1>3, <1>4, <1>7, <1>8, <1>9, EndKeeps

(* The end of an attempt that was not paid.                                *)
LEMMA PaymentFailedKeeps == ASSUME TypeOK, AttemptInv, RecurringPaymentFailed PROVE AttemptInv'
<1>1. PICK m \in bus :
        /\ Arrives(m, "rf.plan-ordering.order.updated.payment-failed") /\ HandledNow(m)
        /\ \/ recurring = NoRecord /\ UNCHANGED <<bus, recurring>>
           \/ /\ recurring # NoRecord /\ AttemptsExhausted
              /\ SetStatus("FAILED")
              /\ Publish(m, <<Same(m, "rf.recurring.updated.failed", "compensation")>>)
           \/ /\ recurring # NoRecord /\ ~AttemptsExhausted
              /\ SetStatus("CAPTURE_FAILED")
              /\ Publish(m, <<Same(m, "rf.recurring.updated.capture-failed", "final")>>)
        /\ Rest /\ UNCHANGED <<plan, items, next, todo>>
  BY DEF RecurringPaymentFailed
<1>2. /\ m.topic \in AttemptTopics /\ m.topic \notin PaidTopics
      /\ handled' = handled \cup {m.id} /\ m.id \notin handled
      /\ UNCHANGED <<plan, next, requests, faults, todo>>
  BY <1>1 DEF Arrives, HandledNow, Rest, AttemptTopics, Charging, PaidTopics, UnpaidTopics
<1>3. \A to, hint : LET y == Same(m, to, hint) IN IsMessage(y) /\ y.topic = to
  BY SameIsMessage DEF AttemptInv, FlowInv
<1>4. ASSUME NEW X, bus' = bus \cup X,
             \A x \in X : IsMessage(x) /\ x.topic \notin AttemptTopics,
             faults = 0 => recurring.status \notin Over /\ ~GivenUp,
             recurring' # NoRecord /\ GivenUp' => AttemptsExhausted',
             faults = 0 /\ GivenUp' => recurring'.status = "FAILED"
      PROVE  AttemptInv'
  BY <1>2, <1>4, EndKeeps
<1>5. CASE recurring = NoRecord /\ UNCHANGED <<bus, recurring>>
  <2> DEFINE X == {}
  <2>1. bus' = bus \cup X /\ \A x \in X : FALSE
    BY <1>5
  <2> HIDE DEF X
  <2>2. GivenUp' <=> GivenUp
    BY <1>2, <1>5 DEF GivenUp, Topic
  <2>3. faults = 0 => recurring.status \notin Over /\ ~GivenUp
    BY <1>2, <2>1, EndOfAttempt
  <2> QED
    BY <1>4, <1>5, <2>1, <2>2, <2>3
<1>6. CASE /\ recurring # NoRecord /\ AttemptsExhausted /\ SetStatus("FAILED")
           /\ Publish(m, <<Same(m, "rf.recurring.updated.failed", "compensation")>>)
  <2>1. PICK x : bus' = bus \cup {x} /\ IsMessage(x) /\ x.topic = "rf.recurring.updated.failed"
    BY <1>3, <1>6, PublishOne
  <2> DEFINE X == {x}
  <2>2. bus' = bus \cup X /\ \A n \in X : IsMessage(n) /\ n.topic \notin AttemptTopics
    BY <2>1 DEF AttemptTopics, Charging, PaidTopics, UnpaidTopics
  <2> HIDE DEF X
  <2>3. /\ recurring'.attempts = recurring.attempts /\ recurring'.max = recurring.max
        /\ recurring'.status = "FAILED"
    <3>1. recurring' = [recurring EXCEPT !.status = "FAILED"] /\ recurring \in Cycles
      BY <1>6 DEF SetStatus, TypeOK, Cycles
    <3> QED
      BY <3>1 DEF Cycles
  <2>4. AttemptsExhausted'
    BY <1>6, <2>3 DEF AttemptsExhausted
  <2>5. faults = 0 => recurring.status \notin Over /\ ~GivenUp
    BY <1>2, <2>2, EndOfAttempt
  <2> QED
    BY <1>4, <2>2, <2>3, <2>4, <2>5
<1>7. CASE /\ recurring # NoRecord /\ ~AttemptsExhausted /\ SetStatus("CAPTURE_FAILED")
           /\ Publish(m, <<Same(m, "rf.recurring.updated.capture-failed", "final")>>)
  <2>1. PICK x : bus' = bus \cup {x} /\ IsMessage(x) /\ x.topic = "rf.recurring.updated.capture-failed"
    BY <1>3, <1>7, PublishOne
  <2> DEFINE X == {x}
  <2>2. bus' = bus \cup X /\ \A n \in X : /\ IsMessage(n) /\ n.topic \notin AttemptTopics
                                         /\ n.topic # "rf.recurring.updated.failed"
    BY <2>1 DEF AttemptTopics, Charging, PaidTopics, UnpaidTopics
  <2> HIDE DEF X
  <2>3. ~GivenUp
    BY <1>7 DEF AttemptInv, FlowInv
  <2>4. ~GivenUp'
    BY <1>2, <2>2, <2>3 DEF GivenUp, Topic
  <2>5. faults = 0 => recurring.status \notin Over /\ ~GivenUp
    BY <1>2, <2>2, EndOfAttempt
  <2> QED
    BY <1>4, <2>2, <2>4, <2>5
<1> QED
  BY <1>1, <1>5, <1>6, <1>7

(* The suspension follows the failure of the cycle.                        *)
LEMMA FailedKeeps == ASSUME TypeOK, AttemptInv, RecurringFailed PROVE AttemptInv'
<1>1. PICK m \in bus :
        /\ Arrives(m, "rf.recurring.updated.failed") /\ HandledNow(m)
        /\ plan' = IF plan = "NONE" THEN plan ELSE "SUSPENDED"
        /\ Publish(m, <<Same(m, "rf.plan.suspended", "final")>>)
        /\ Rest /\ UNCHANGED <<recurring, items, next, todo>>
  BY DEF RecurringFailed
<1>2. /\ IsMessage(Same(m, "rf.plan.suspended", "final"))
      /\ Same(m, "rf.plan.suspended", "final").topic = "rf.plan.suspended"
  BY SameIsMessage DEF AttemptInv, FlowInv
<1>3. PICK x : bus' = bus \cup {x} /\ IsMessage(x) /\ x.topic = "rf.plan.suspended"
  BY <1>1, <1>2, PublishOne
<1>4. GivenUp /\ requests # 0 /\ requests' = requests
  BY <1>1 DEF Arrives, GivenUp, Topic, Rest, AttemptInv, FlowInv
<1>5. Charged' = Charged /\ OnTheWay' \subseteq OnTheWay
  BY <1>1, <1>3 DEF Charged, Topic, OnTheWay, HandledNow, AttemptTopics, Charging, PaidTopics, UnpaidTopics
<1>6. FlowInv'
  <2>1. (\E n \in bus' : n.topic \in PaidTopics) => Charged' # {}
    BY <1>3, <1>5 DEF AttemptInv, FlowInv, PaidTopics
  <2>2. \A n \in bus' : IsMessage(n)
    BY <1>3 DEF AttemptInv, FlowInv
  <2>3. recurring' # NoRecord /\ GivenUp' => AttemptsExhausted'
    BY <1>1, <1>4 DEF AttemptInv, FlowInv, AttemptsExhausted
  <2> QED
    BY <1>4, <2>1, <2>2, <2>3 DEF FlowInv
<1>7. faults' = 0 => OneAttempt'
  BY <1>1, <1>4, <1>5 DEF AttemptInv, OneAttempt, Rest
<1> QED
  BY <1>6, <1>7 DEF AttemptInv

(* A redelivery and a restart are faults, after which only what holds      *)
(* whatever goes wrong is left.                                            *)
LEMMA FaultKeeps == ASSUME TypeOK, AttemptInv, Redeliver \/ Restart PROVE AttemptInv'
<1>1. faults' # 0 /\ UNCHANGED <<bus, requests>>
  BY DEF Redeliver, Restart, TypeOK
<1>2. CASE UNCHANGED <<recurring, plan>>
  BY <1>1, <1>2 DEF AttemptInv, FlowInv, Charged, Topic, GivenUp, AttemptsExhausted
<1>3. CASE requests > 0 /\ recurring' = NoRecord
  BY <1>1, <1>3 DEF AttemptInv, FlowInv, Charged, Topic
<1> QED
  BY <1>2, <1>3 DEF Redeliver, Restart

(* Every step keeps the invariant of attempts, and it holds at the start.  *)
LEMMA AttemptStep == TypeOK /\ AttemptInv /\ [Next]_vars => AttemptInv'
<1> SUFFICES ASSUME TypeOK, AttemptInv, [Next]_vars PROVE AttemptInv'
  OBVIOUS
<1>1. CASE UNCHANGED vars
  BY <1>1 DEF vars, AttemptInv, FlowInv, OneAttempt, OnTheWay, Charged, Topic, GivenUp, AttemptsExhausted
<1> QED
  BY <1>1, TriggerKeeps, RetryKeeps, ChainKeeps, AsideKeeps, CompletedKeeps, PaymentFailedKeeps,
     FailedKeeps, FaultKeeps DEF Next, Participants

(* Nothing is on its way at the start.                                     *)
LEMMA AttemptInit == Init => AttemptInv
BY DEF Init, AttemptInv, FlowInv, OneAttempt, OnTheWay, Charged, Topic, GivenUp, Over, NoRecord

(* A cycle is charged once, and one attempt is on its way at any time, for *)
(* every number of requests and whatever maxAttempts is.                   *)
THEOREM ChargedAtMostOnce == Spec => []ChargedOnce
<1>1. AttemptInv => ChargedOnce
  <2> SUFFICES ASSUME AttemptInv, faults = 0
               PROVE  Cardinality(Charged) + Cardinality(ToCharge) <= 1
    BY DEF ChargedOnce
  <2>1. OneAttempt
    BY DEF AttemptInv
  <2>2. \A m, n \in Charged : m = n
    BY <2>1 DEF OneAttempt
  <2>3. ToCharge \subseteq OnTheWay /\ \A m, n \in ToCharge : m = n
    BY <2>1 DEF OneAttempt, ToCharge, OnTheWay, AttemptTopics
  <2>4. Charged = {} \/ ToCharge = {}
    <3>1. \A m \in ToCharge : m.topic \notin PaidTopics
      BY DEF ToCharge, Charging, PaidTopics
    <3> QED
      BY <2>1, <2>3, <3>1 DEF OneAttempt
  <2>5. ASSUME NEW S, \A m, n \in S : m = n PROVE Cardinality(S) \in {0, 1} /\ (S = {} => Cardinality(S) = 0)
    <3>1. CASE S = {}
      BY <3>1, FS_EmptySet
    <3>2. CASE S # {}
      <4>1. PICK m \in S : TRUE
        BY <3>2
      <4>2. S = {m}
        BY <2>5
      <4> QED
        BY <4>2, FS_Singleton
    <3> QED
      BY <3>1, <3>2
  <2>6. Cardinality(Charged) \in {0, 1} /\ (Charged = {} => Cardinality(Charged) = 0)
    BY <2>2, <2>5
  <2>7. Cardinality(ToCharge) \in {0, 1} /\ (ToCharge = {} => Cardinality(ToCharge) = 0)
    BY <2>3, <2>5
  <2> QED
    BY <2>4, <2>6, <2>7
<1> QED
  BY <1>1, AttemptInit, AttemptStep, TypeCorrect, PTL DEF Spec

(* A suspended plan has used up its attempts, also after redeliveries and  *)
(* restarts; without them, none of its attempts was paid.                  *)
THEOREM SuspensionIsUnpaid == Spec => []SuspendedUnpaid
<1>1. AttemptInv => SuspendedUnpaid
  <2> SUFFICES ASSUME AttemptInv, plan = "SUSPENDED", recurring # NoRecord
               PROVE  AttemptsExhausted /\ (faults = 0 => Charged = {} /\ next = {})
    BY DEF SuspendedUnpaid
  <2>1. GivenUp
    BY DEF GivenUp
  <2> QED
    BY <2>1 DEF AttemptInv, FlowInv, OneAttempt, Over
<1> QED
  BY <1>1, AttemptInit, AttemptStep, TypeCorrect, PTL DEF Spec
=============================================================================
