--------------------------- MODULE Transport_proofs ---------------------------
(***************************************************************************)
(* Proofs about the transport of a service.                                *)
(*                                                                         *)
(* Its consumption of a partition (KafkaTransport): type correctness, the  *)
(* safety invariants from the inductive invariant IInv, and that it        *)
(* implements KeyedDelivery.  Its lifecycle (ServiceStart): types, that    *)
(* disconnect knows the only consumer that runs, and that every handler is *)
(* routed.  The two share no variable: the theorems of each half are about *)
(* its own specification alone.                                            *)
(***************************************************************************)
EXTENDS KafkaTransport, ServiceStart, WellFoundedInduction, TLAPS

USE LogAssumption, KeyAssumption, FaultAssumption

(* A step keeps the types.                                                 *)
LEMMA TypeStep == TypeOK /\ [Next]_vars => TypeOK'
<1> SUFFICES ASSUME TypeOK, [Next]_vars PROVE TypeOK'
  OBVIOUS
<1> USE DEF TypeOK, Offsets, Status, LaneState, consumerVars, callVars
<1>1. ASSUME NEW i \in Invocations, NEW hi \in Offsets, StartBatch(i, hi)
      PROVE  TypeOK'
  BY <1>1 DEF StartBatch
<1>2. ASSUME NEW i \in Invocations, NEW k \in Keys, HandlerReturns(i, k)
      PROVE  TypeOK'
  BY <1>2 DEF HandlerReturns
<1>3. ASSUME NEW i \in Invocations, NEW k \in Keys, HeartbeatReturns(i, k)
      PROVE  TypeOK'
  BY <1>3 DEF HeartbeatReturns
<1>4. ASSUME NEW i \in Invocations, NEW k \in Keys, FailLane(i, k)
      PROVE  TypeOK'
  BY <1>4 DEF FailLane
<1>5. ASSUME NEW i \in Invocations, BatchResolves(i)
      PROVE  TypeOK'
  <2>1. abandoned' \in SUBSET Offsets
    <3>1. Batch(i) \subseteq Offsets
      BY DEF Batch
    <3> QED
      BY <1>5, <3>1 DEF BatchResolves
  <2>2. position' \in 0 .. LogEnd
    BY <1>5 DEF BatchResolves
  <2> QED
    BY <1>5, <2>1, <2>2 DEF BatchResolves
<1>6. ASSUME NEW i \in Invocations, CommitResolved(i)
      PROVE  TypeOK'
  BY <1>6 DEF CommitResolved
<1>7. ASSUME NEW i \in Invocations, Rejoin(i)
      PROVE  TypeOK'
  BY <1>7 DEF Rejoin
<1>8. CASE Stop
  BY <1>8 DEF Stop
<1>9. CASE Crash
  BY <1>9 DEF Crash
<1>10. CASE UNCHANGED vars
  BY <1>10 DEF vars
<1> QED
  BY <1>1, <1>2, <1>3, <1>4, <1>5, <1>6, <1>7, <1>8, <1>9, <1>10
     DEF Next, HandlerThrows, HeartbeatRejects

(* The variables of the consumption of a partition always have their types.*)
THEOREM TypeCorrect == Spec => []TypeOK
<1>1. Init => TypeOK
  BY DEF Init, TypeOK, Offsets, Status, LaneState
<1> QED
  BY <1>1, TypeStep, PTL DEF Spec

-----------------------------------------------------------------------------

(* The watermark of a tracker covers everything before it, once what the   *)
(* tracker counts is handled and what precedes the batch is covered.       *)
LEMMA WatermarkCovers ==
  ASSUME NEW i \in Invocations, NEW done, NEW w \in Int, NEW safe,
         IsWatermark(i, done, w), done \subseteq safe, TypeOK,
         \A o \in Offsets : o < first[i] => o \in safe
  PROVE  \A o \in Offsets : o < w + 1 => o \in safe
<1>1. first[i] \in Int
  BY DEF TypeOK, Offsets
<1> SUFFICES ASSUME NEW o \in Offsets, o < w + 1, ~(o < first[i])
             PROVE  o \in safe
  OBVIOUS
<1>2. o \in first[i] .. w
  BY <1>1 DEF Offsets
<1> QED
  BY <1>2 DEF IsWatermark

(* Initially nothing is committed, nothing is fetched and no lane runs.    *)
LEMMA InitInductive == Init => IInv
<1> SUFFICES ASSUME Init PROVE IInv
  OBVIOUS
<1>1. TypeOK
  BY DEF Init, TypeOK, Offsets, Status, LaneState
<1>2. CommittedCovered /\ PositionCovered /\ FirstCovered
  BY DEF Init, CommittedCovered, PositionCovered, FirstCovered, Offsets
<1>3. AbandonOnlyOnStop /\ KeyOrder /\ CompletedHandled
  BY DEF Init, AbandonOnlyOnStop, KeyOrder, CompletedHandled
<1>4. ReturnedLanesDone
  BY DEF Init, ReturnedLanesDone
<1> QED
  BY <1>1, <1>2, <1>3, <1>4 DEF IInv

(* A handler that returns handles the next message of its key, and moves   *)
(* the position only up to the watermark.                                  *)
LEMMA HandlerReturnsInductive ==
  ASSUME IInv, TypeOK', NEW i \in Invocations, NEW k \in Keys,
         HandlerReturns(i, k)
  PROVE  IInv'
<1> USE DEF IInv, consumerVars, callVars
<1>1. PICK o \in Offsets, w \in first[i] - 1 .. last[i] :
        /\ Current(i, k, o)
        /\ IsWatermark(i, completed[i] \cup {o}, w)
        /\ completed' = [completed EXCEPT ![i] = completed[i] \cup {o}]
        /\ handled' = handled \cup {o}
        /\ position' = IF w < first[i] THEN position ELSE w + 1
  BY DEF HandlerReturns
<1>2. /\ UNCHANGED <<running, committed, status, first, last, abandoned, faults>>
      /\ pc' = [pc EXCEPT ![i][k] = "beating"]
  BY DEF HandlerReturns
<1>3. /\ o \in first[i] .. last[i]
      /\ KeyOf[o] = k
      /\ \A p \in first[i] .. o : p < o /\ KeyOf[p] = k => p \in handled
  <2>1. first[i] \in Int /\ last[i] \in Int /\ o \in Int
    BY DEF TypeOK, Offsets
  <2> QED
    BY <1>1, <2>1 DEF Current, Group, Batch, CompletedHandled
<1>4. CompletedHandled'
  BY <1>1, <1>2 DEF CompletedHandled, TypeOK
<1>5. PositionCovered'
  <2>1. CASE w < first[i]
    BY <2>1, <1>1, <1>2 DEF PositionCovered, Covered
  <2>2. CASE ~(w < first[i])
    <3>1. completed[i] \cup {o} \subseteq handled' \cup abandoned'
      BY <1>1, <1>2 DEF CompletedHandled
    <3>2. \A p \in Offsets : p < first[i] => p \in handled' \cup abandoned'
      BY <1>1, <1>2 DEF FirstCovered, Covered
    <3>3. w \in Int
      BY DEF TypeOK, Offsets
    <3>4. \A p \in Offsets : p < w + 1 => p \in handled' \cup abandoned'
      BY <1>1, <3>1, <3>2, <3>3, WatermarkCovers
    <3> QED
      BY <2>2, <1>1, <3>4 DEF PositionCovered, Covered
  <2> QED
    BY <2>1, <2>2
<1>6. KeyOrder'
  <2> SUFFICES ASSUME NEW x \in handled', NEW p \in Offsets,
                      p < x, KeyOf[p] = KeyOf[x]
               PROVE  p \in handled' \cup abandoned'
    BY <1>1, <1>2 DEF KeyOrder, Covered
  <2>1. CASE x \in handled
    BY <2>1, <1>1, <1>2 DEF KeyOrder, Covered
  <2>2. CASE x = o
    <3>1. CASE p < first[i]
      BY <3>1, <1>1, <1>2 DEF FirstCovered, Covered
    <3>2. CASE ~(p < first[i])
      <4>1. p \in first[i] .. o
        BY <2>2, <3>2 DEF TypeOK, Offsets
      <4> QED
        BY <2>2, <4>1, <1>1, <1>3
    <3> QED
      BY <3>1, <3>2
  <2> QED
    BY <2>1, <2>2, <1>1
<1>7. CommittedCovered' /\ FirstCovered' /\ AbandonOnlyOnStop'
  BY <1>1, <1>2 DEF CommittedCovered, FirstCovered, AbandonOnlyOnStop, Covered
<1>8. ReturnedLanesDone'
  <2> SUFFICES ASSUME NEW j \in Invocations, NEW l \in Keys, running',
                      status'[j] = "running", pc'[j][l] = "returned"
               PROVE  Group(j, l)' \subseteq completed'[j]
    BY DEF ReturnedLanesDone
  <2>1. pc[j][l] = "returned"
    BY <1>2 DEF TypeOK
  <2>2. Group(j, l) \subseteq completed[j]
    BY <1>2, <2>1 DEF ReturnedLanesDone
  <2> QED
    BY <1>1, <1>2, <2>2 DEF TypeOK, Group, Batch
<1> QED
  BY <1>4, <1>5, <1>6, <1>7, <1>8

(* A new batch starts where everything before it is covered, with lanes    *)
(* that have returned only for keys that the batch does not hold.          *)
LEMMA StartBatchInductive ==
  ASSUME IInv, TypeOK', NEW i \in Invocations, NEW hi \in Offsets,
         StartBatch(i, hi)
  PROVE  IInv'
<1> USE DEF IInv, consumerVars, callVars, StartBatch
<1>1. CommittedCovered' /\ PositionCovered' /\ AbandonOnlyOnStop' /\ KeyOrder'
  BY DEF CommittedCovered, PositionCovered, AbandonOnlyOnStop, KeyOrder, Covered
<1>2. FirstCovered'
  BY DEF FirstCovered, PositionCovered, Covered, TypeOK
<1>3. CompletedHandled'
  BY DEF CompletedHandled, TypeOK
<1>4. ReturnedLanesDone'
  <2> SUFFICES ASSUME NEW j \in Invocations, NEW l \in Keys, running',
                      status'[j] = "running", pc'[j][l] = "returned"
               PROVE  Group(j, l)' \subseteq completed'[j]
    BY DEF ReturnedLanesDone
  <2>1. CASE j = i
    <3>1. \A o \in position .. hi : KeyOf[o] # l
      BY <2>1 DEF TypeOK
    <3>2. Group(j, l)' = {}
      BY <2>1, <3>1 DEF Group, Batch, TypeOK
    <3> QED
      BY <3>2
  <2>2. CASE j # i
    <3>1. Group(j, l) \subseteq completed[j]
      BY <2>2 DEF ReturnedLanesDone, TypeOK
    <3> QED
      BY <2>2, <3>1 DEF Group, Batch, TypeOK
  <2> QED
    BY <2>1, <2>2
<1> QED
  BY <1>1, <1>2, <1>3, <1>4

(* A lane that goes on after its heartbeat ends only when it has nothing   *)
(* left, or when the consumer was stopped.                                 *)
LEMMA HeartbeatReturnsInductive ==
  ASSUME IInv, TypeOK', NEW i \in Invocations, NEW k \in Keys,
         HeartbeatReturns(i, k)
  PROVE  IInv'
<1> USE DEF IInv, consumerVars, callVars, HeartbeatReturns
<1>1. /\ CommittedCovered' /\ PositionCovered' /\ AbandonOnlyOnStop'
      /\ KeyOrder' /\ FirstCovered' /\ CompletedHandled'
  BY DEF CommittedCovered, PositionCovered, AbandonOnlyOnStop, KeyOrder,
         FirstCovered, CompletedHandled, Covered
<1>2. ReturnedLanesDone'
  <2> SUFFICES ASSUME NEW j \in Invocations, NEW l \in Keys, running',
                      status'[j] = "running", pc'[j][l] = "returned"
               PROVE  Group(j, l) \subseteq completed[j]
    BY DEF ReturnedLanesDone, Group, Batch
  <2>1. CASE j = i /\ l = k
    BY <2>1 DEF TypeOK
  <2>2. CASE ~(j = i /\ l = k)
    BY <2>2 DEF ReturnedLanesDone, TypeOK
  <2> QED
    BY <2>1, <2>2
<1> QED
  BY <1>1, <1>2

(* A lane that throws rejects its invocation: it will not be taken for     *)
(* done.                                                                   *)
LEMMA FailLaneInductive ==
  ASSUME IInv, TypeOK', NEW i \in Invocations, NEW k \in Keys, FailLane(i, k)
  PROVE  IInv'
<1> USE DEF IInv, consumerVars, callVars, FailLane
<1>1. /\ CommittedCovered' /\ PositionCovered' /\ AbandonOnlyOnStop'
      /\ KeyOrder' /\ FirstCovered' /\ CompletedHandled'
  BY DEF CommittedCovered, PositionCovered, AbandonOnlyOnStop, KeyOrder,
         FirstCovered, CompletedHandled, Covered
<1>2. ReturnedLanesDone'
  <2> SUFFICES ASSUME NEW j \in Invocations, NEW l \in Keys, running',
                      status'[j] = "running", pc'[j][l] = "returned"
               PROVE  Group(j, l) \subseteq completed[j]
    BY DEF ReturnedLanesDone, Group, Batch
  <2>1. status[j] = "running" /\ pc[j][l] = "returned"
    BY DEF TypeOK
  <2> QED
    BY <2>1 DEF ReturnedLanesDone
<1> QED
  BY <1>1, <1>2

(* A batch that resolves has either handled all its messages, or gives the *)
(* rest up because the consumer was stopped.                               *)
LEMMA BatchResolvesInductive ==
  ASSUME IInv, TypeOK', NEW i \in Invocations, BatchResolves(i)
  PROVE  IInv'
<1> USE DEF IInv, BatchResolves
<1>1. PositionCovered'
  BY DEF PositionCovered, FirstCovered, Covered, Batch, TypeOK, Offsets
<1>2. CommittedCovered' /\ FirstCovered' /\ KeyOrder' /\ CompletedHandled'
  BY DEF CommittedCovered, FirstCovered, KeyOrder, CompletedHandled, Covered
<1>3. AbandonOnlyOnStop'
  <2> SUFFICES ASSUME running PROVE Batch(i) \subseteq handled
    BY DEF AbandonOnlyOnStop
  <2> SUFFICES ASSUME NEW o \in Batch(i) PROVE o \in handled
    OBVIOUS
  <2>1. o \in Offsets
    BY DEF Batch, TypeOK, Offsets
  <2>2. KeyOf[o] \in Keys /\ o \in Group(i, KeyOf[o])
    BY <2>1, KeyAssumption DEF Group
  <2> QED
    BY <2>2 DEF ReturnedLanesDone, CompletedHandled
<1>4. ReturnedLanesDone'
  BY DEF ReturnedLanesDone, Group, Batch, TypeOK
<1> QED
  BY <1>1, <1>2, <1>3, <1>4

(* KafkaJS commits its position, or goes back to what it had committed.    *)
LEMMA ConsumerStepInductive ==
  ASSUME IInv, TypeOK',
         \/ \E i \in Invocations : CommitResolved(i) \/ Rejoin(i)
         \/ Stop
         \/ Crash
  PROVE  IInv'
<1> USE DEF IInv, callVars
<1>1. ASSUME NEW i \in Invocations, CommitResolved(i) PROVE IInv'
  BY <1>1 DEF CommitResolved, CommittedCovered, PositionCovered, FirstCovered,
     AbandonOnlyOnStop, KeyOrder, CompletedHandled, ReturnedLanesDone,
     Covered, Group, Batch, TypeOK
<1>2. ASSUME NEW i \in Invocations, Rejoin(i) PROVE IInv'
  BY <1>2 DEF Rejoin, CommittedCovered, PositionCovered, FirstCovered,
     AbandonOnlyOnStop, KeyOrder, CompletedHandled, ReturnedLanesDone,
     Covered, Group, Batch, TypeOK
<1>3. CASE Stop
  BY <1>3 DEF Stop, CommittedCovered, PositionCovered, FirstCovered,
     AbandonOnlyOnStop, KeyOrder, CompletedHandled, ReturnedLanesDone,
     Covered, Group, Batch, TypeOK
<1>4. CASE Crash
  BY <1>4 DEF Crash, CommittedCovered, PositionCovered, FirstCovered,
     AbandonOnlyOnStop, KeyOrder, CompletedHandled, ReturnedLanesDone,
     Covered, Group, Batch, TypeOK
<1> QED
  BY <1>1, <1>2, <1>3, <1>4

(* Every step keeps the inductive invariant.                               *)
LEMMA IInvStep == IInv /\ [Next]_vars => IInv'
<1> SUFFICES ASSUME IInv, [Next]_vars PROVE IInv'
  OBVIOUS
<1>1. TypeOK'
  BY TypeStep DEF IInv
<1>2. CASE UNCHANGED vars
  BY <1>2 DEF vars, IInv, TypeOK, CommittedCovered, PositionCovered,
     FirstCovered, AbandonOnlyOnStop, KeyOrder, CompletedHandled,
     ReturnedLanesDone, Covered, Group, Batch
<1>3. CASE Next
  BY <1>1, <1>3, StartBatchInductive, HandlerReturnsInductive,
     HeartbeatReturnsInductive, FailLaneInductive, BatchResolvesInductive,
     ConsumerStepInductive DEF Next, HandlerThrows, HeartbeatRejects
<1> QED
  BY <1>2, <1>3

(* The inductive invariant holds in every reachable state.                 *)
THEOREM Invariance == Spec => []IInv
BY InitInductive, IInvStep, PTL DEF Spec

(* No offset is committed past a message that was neither handled nor      *)
(* given up by a stop (resolveOffset of the watermark, then the commit).   *)
THEOREM CommitsAreCovered == Spec => []CommittedCovered
<1>1. IInv => CommittedCovered
  BY DEF IInv
<1> QED
  BY <1>1, Invariance, PTL

(* A consumer that runs gives nothing up.                                  *)
THEOREM NothingAbandonedWhileRunning == Spec => []AbandonOnlyOnStop
<1>1. IInv => AbandonOnlyOnStop
  BY DEF IInv
<1> QED
  BY <1>1, Invariance, PTL

(* Messages of one key are first handled in the order of the log.          *)
THEOREM KeysInOrder == Spec => []KeyOrder
<1>1. IInv => KeyOrder
  BY DEF IInv
<1> QED
  BY <1>1, Invariance, PTL

-----------------------------------------------------------------------------

(* The initial state maps to the abstract one.                             *)
LEMMA InitRefines == Init => Delivery!Init
BY DEF Init, Delivery!Init

(* A handler that returns is an abstract Handle, or a stutter when the     *)
(* message had been handled before.                                        *)
LEMMA HandlerReturnsRefines ==
  ASSUME IInv, IInv', NEW i \in Invocations, NEW k \in Keys,
         HandlerReturns(i, k)
  PROVE  \E o \in Delivery!Offsets : Delivery!Handle(o)
<1>1. PICK o \in Offsets : Current(i, k, o) /\ handled' = handled \cup {o}
  BY DEF HandlerReturns
<1>2. UNCHANGED <<running, committed, abandoned>>
  BY DEF HandlerReturns
<1>3. ASSUME NEW p \in Offsets, p < o, KeyOf[p] = KeyOf[o]
      PROVE  p \in handled \cup abandoned
  <2>1. p \in handled' \cup abandoned'
    BY <1>1, <1>3 DEF IInv, KeyOrder, Covered
  <2> QED
    BY <1>1, <1>2, <1>3, <2>1 DEF Offsets
<1> QED
  BY <1>1, <1>2, <1>3 DEF Delivery!Handle, Delivery!Offsets, Delivery!Covered, Offsets

(* KafkaTransport delivers a partition as KeyedDelivery promises: at least *)
(* once, in order within a key, and giving up only when stopped.           *)
THEOREM Refinement == Spec => ImplementsDelivery
<1>1. IInv /\ IInv' /\ [Next]_vars => [Delivery!Next]_(Delivery!vars)
  <2> SUFFICES ASSUME IInv, IInv', [Next]_vars
               PROVE  Delivery!Next \/ UNCHANGED Delivery!vars
    OBVIOUS
  <2> USE DEF Delivery!vars, consumerVars, callVars
  <2>1. ASSUME NEW i \in Invocations, NEW hi \in Offsets, StartBatch(i, hi)
        PROVE  UNCHANGED Delivery!vars
    BY <2>1 DEF StartBatch
  <2>2. ASSUME NEW i \in Invocations, NEW k \in Keys, HandlerReturns(i, k)
        PROVE  Delivery!Next
    BY <2>2, HandlerReturnsRefines DEF Delivery!Next
  <2>3. ASSUME NEW i \in Invocations, NEW k \in Keys, HeartbeatReturns(i, k)
        PROVE  UNCHANGED Delivery!vars
    BY <2>3 DEF HeartbeatReturns
  <2>4. ASSUME NEW i \in Invocations, NEW k \in Keys, FailLane(i, k)
        PROVE  UNCHANGED Delivery!vars
    BY <2>4 DEF FailLane
  <2>5. ASSUME NEW i \in Invocations, BatchResolves(i)
        PROVE  Delivery!Next \/ UNCHANGED Delivery!vars
    <3>1. CASE running
      <4>1. abandoned = {} /\ abandoned' = {}
        BY <2>5, <3>1 DEF IInv, AbandonOnlyOnStop, BatchResolves
      <4> QED
        BY <2>5, <4>1 DEF BatchResolves
    <3>2. CASE ~running
      <4>1. Batch(i) \ handled \in SUBSET Delivery!Offsets
        BY DEF Batch, IInv, TypeOK, Offsets, Delivery!Offsets
      <4>2. Delivery!GiveUp(Batch(i) \ handled)
        BY <2>5, <3>2 DEF BatchResolves, Delivery!GiveUp
      <4> QED
        BY <4>1, <4>2 DEF Delivery!Next
    <3> QED
      BY <3>1, <3>2
  <2>6. ASSUME NEW i \in Invocations, CommitResolved(i)
        PROVE  Delivery!Next
    <3>1. position \in 0 .. LogEnd
      BY DEF IInv, TypeOK
    <3>2. Delivery!Acknowledge(position)
      BY <2>6 DEF CommitResolved, Delivery!Acknowledge, Delivery!Offsets,
                  Delivery!Covered, IInv, PositionCovered, Covered, Offsets
    <3> QED
      BY <3>1, <3>2 DEF Delivery!Next
  <2>7. ASSUME NEW i \in Invocations, Rejoin(i)
        PROVE  UNCHANGED Delivery!vars
    BY <2>7 DEF Rejoin
  <2>8. CASE Stop
    BY <2>8 DEF Stop, Delivery!Next, Delivery!Close
  <2>9. CASE Crash
    BY <2>9 DEF Crash
  <2>10. CASE UNCHANGED vars
    BY <2>10 DEF vars
  <2> QED
    BY <2>1, <2>2, <2>3, <2>4, <2>5, <2>6, <2>7, <2>8, <2>9, <2>10
       DEF Next, HandlerThrows, HeartbeatRejects
<1> QED
  BY <1>1, InitRefines, Invariance, PTL DEF Spec, Delivery!Spec, ImplementsDelivery

-----------------------------------------------------------------------------
(* Without a fault KafkaJS waits for one call at most, and a call that it  *)
(* does not wait for has no lane left.                                     *)
OneCall ==
    faults = 0 =>
        /\ \A i \in Invocations : \A k \in Keys :
              status[i] # "running" => pc[i][k] = "returned"
        /\ \A i, j \in Invocations : status[i] # "idle" /\ status[j] # "idle" => i = j

(* OneCall is inductive, given the types.                                  *)
LEMMA OneCallStep == TypeOK /\ OneCall /\ [Next]_vars => OneCall'
<1> SUFFICES ASSUME TypeOK, OneCall, [Next]_vars, faults' = 0
             PROVE  /\ \A i \in Invocations : \A k \in Keys :
                          status'[i] # "running" => pc'[i][k] = "returned"
                    /\ \A i, j \in Invocations : status'[i] # "idle" /\ status'[j] # "idle" => i = j
  BY DEF OneCall
<1> USE DEF consumerVars, callVars
<1>t. /\ status \in [Invocations -> Status] /\ pc \in [Invocations -> [Keys -> LaneState]]
      /\ faults \in Nat
  BY FaultAssumption DEF TypeOK
<1>o. ASSUME faults = 0
      PROVE  /\ \A i \in Invocations : \A k \in Keys :
                   status[i] # "running" => pc[i][k] = "returned"
             /\ \A i, j \in Invocations : status[i] # "idle" /\ status[j] # "idle" => i = j
  BY <1>o DEF OneCall
<1>1. ASSUME NEW i \in Invocations, NEW hi \in Offsets, StartBatch(i, hi)
      PROVE  /\ \A j \in Invocations : \A k \in Keys :
                   status'[j] # "running" => pc'[j][k] = "returned"
             /\ \A j, l \in Invocations : status'[j] # "idle" /\ status'[l] # "idle" => j = l
  <2>1. /\ faults = 0 /\ \A j \in Invocations : status[j] = "idle"
        /\ status' = [status EXCEPT ![i] = "running"]
        /\ \A j \in Invocations \ {i} : pc'[j] = pc[j]
    BY <1>1, <1>t DEF StartBatch, Waiting
  <2> QED
    BY <2>1, <1>t, <1>o
<1>2. ASSUME NEW i \in Invocations, NEW k \in Keys, HandlerReturns(i, k) \/ HeartbeatReturns(i, k)
      PROVE  /\ \A j \in Invocations : \A l \in Keys :
                   status'[j] # "running" => pc'[j][l] = "returned"
             /\ \A j, l \in Invocations : status'[j] # "idle" /\ status'[l] # "idle" => j = l
  <2>1. /\ faults = 0 /\ UNCHANGED status /\ pc[i][k] # "returned"
        /\ \A j \in Invocations \ {i} : pc'[j] = pc[j]
    BY <1>2, <1>t DEF HandlerReturns, HeartbeatReturns
  <2>2. status[i] = "running"
    BY <2>1, <1>o
  <2> QED
    BY <2>1, <2>2, <1>o
<1>3. ASSUME NEW i \in Invocations, BatchResolves(i) \/ CommitResolved(i)
      PROVE  /\ \A j \in Invocations : \A k \in Keys :
                   status'[j] # "running" => pc'[j][k] = "returned"
             /\ \A j, l \in Invocations : status'[j] # "idle" /\ status'[l] # "idle" => j = l
  <2>1. /\ faults = 0 /\ UNCHANGED pc /\ status[i] # "idle"
        /\ \A j \in Invocations \ {i} : status'[j] = status[j]
    BY <1>3, <1>t DEF BatchResolves, CommitResolved
  <2>2. \A k \in Keys : pc[i][k] = "returned"
    BY <1>3, <2>1, <1>o DEF BatchResolves, CommitResolved
  <2>3. \A j \in Invocations \ {i} : status'[j] = "idle"
    BY <2>1, <1>o
  <2> QED
    BY <2>1, <2>2, <2>3, <1>o
<1>4. ASSUME \/ \E i \in Invocations, k \in Keys : HandlerThrows(i, k) \/ HeartbeatRejects(i, k)
             \/ \E i \in Invocations : Rejoin(i)
             \/ Crash
      PROVE  FALSE
  <2>1. faults' = faults + 1
    BY <1>4 DEF HandlerThrows, HeartbeatRejects, FailLane, Rejoin, Crash
  <2> QED
    BY <2>1, <1>t
<1>5. CASE Stop \/ UNCHANGED vars
  BY <1>5, <1>o DEF Stop, vars
<1> QED
  BY <1>1, <1>2, <1>3, <1>4, <1>5 DEF Next

(* Handlers of one key overlap only after a fault, for every log and any   *)
(* number of calls.                                                        *)
THEOREM OverlapIsOfFaults == Spec => []OverlapNeedsFault
<1>1. Init => OneCall
  BY DEF Init, OneCall
<1>2. TypeOK /\ OneCall => OverlapNeedsFault
  <2> SUFFICES ASSUME TypeOK, OneCall, NEW i \in Invocations, NEW j \in Invocations, NEW k \in Keys,
                      i # j, pc[i][k] = "handling", pc[j][k] = "handling", ~(faults > 0)
               PROVE  FALSE
    BY DEF OverlapNeedsFault
  <2>1. faults = 0
    BY FaultAssumption DEF TypeOK
  <2>2. status[i] = "running" /\ status[j] = "running"
    BY <2>1 DEF OneCall
  <2> QED
    BY <2>1, <2>2 DEF OneCall
<1> QED
  BY <1>1, <1>2, TypeCorrect, OneCallStep, PTL DEF Spec

-----------------------------------------------------------------------------
(* The lifecycle of a service.                                             *)
USE AttemptsAssumption, AutoCreateAssumption, ParticipantsAssumption

Attempts == 1 .. MaxAttempts
States == {"none", "new", "connected", "subscribed", "running", "disconnected"}

(* Outside an attempt there is no consumer to know, and none runs; within  *)
(* one, the consumer of the attempt is known and does not run yet; only a  *)
(* start that ended well leaves one running.                               *)
AttemptKnown ==
  /\ start \in {"register", "connect", "topics", "attempt", "backoff", "failed"} =>
       current = 0 /\ Running = {}
  /\ start \in {"starting", "clean"} =>
       current = attempt /\ Running = {} /\ consumers[attempt] \in DOMAIN Steps
  /\ Running \subseteq {current}
  /\ start = "backoff" => attempt < MaxAttempts

(* A stop that is not early finds a start that takes no further step.      *)
StopKnown ==
  /\ stop # "none" /\ ~early => start \in Ended
  /\ stop = "done" /\ ~early => Running = {}

ServiceIInv == ServiceTypeOK /\ AttemptKnown /\ StopKnown

-----------------------------------------------------------------------------
(* What becomes of the running consumers when one consumer changes.        *)
LEMMA RunningAfter ==
  ASSUME ServiceTypeOK, NEW a \in Attempts, NEW state \in States, consumers' = [consumers EXCEPT ![a] = state]
  PROVE  /\ consumers' \in [Attempts -> States]
         /\ consumers'[a] = state
         /\ state = "running" => Running' \subseteq Running \cup {a}
         /\ state # "running" => Running' = Running \ {a}
<1>1. consumers \in [Attempts -> States]
  BY DEF ServiceTypeOK, Attempts, States
<1>2. consumers' \in [Attempts -> States] /\ consumers'[a] = state
  BY <1>1
<1>3. \A b \in Attempts : b # a => consumers'[b] = consumers[b]
  BY <1>1
<1>4. Running = {b \in Attempts : consumers[b] = "running"}
      /\ Running' = {b \in Attempts : consumers'[b] = "running"}
  BY DEF Running, Attempts
<1> QED
  BY <1>2, <1>3, <1>4

(* The consumers do not change.                                            *)
LEMMA RunningStays == UNCHANGED consumers => Running' = Running
BY DEF Running

(* The steps of a start before and between attempts.                       *)
LEMMA OutsideStep ==
  ASSUME ServiceIInv, Register \/ Route \/ Connect \/ EnsureTopicsExist \/ Fails \/ Backoff
  PROVE  ServiceIInv'
<1> USE DEF registration, kafka
<1>1. /\ UNCHANGED <<producer, consumers, current, stop, early>> \/ Connect
      /\ UNCHANGED <<consumers, current, stop, early>> /\ Running' = Running
  BY RunningStays DEF Register, Route, Connect, EnsureTopicsExist, Fails, Backoff
<1>2. producer' \in BOOLEAN
  BY <1>1 DEF ServiceIInv, ServiceTypeOK, Connect
<1>3. CASE Register
  BY <1>1, <1>2, <1>3 DEF Register, ServiceIInv, ServiceTypeOK, AttemptKnown, StopKnown, Ended
<1>4. CASE Route
  BY <1>1, <1>2, <1>4 DEF Route, ServiceIInv, ServiceTypeOK, AttemptKnown, StopKnown, Ended
<1>5. CASE Connect
  <2>1. start = "connect" /\ start' \in {"started", "topics", "attempt", "failed"} /\ UNCHANGED attempt
    BY <1>5 DEF Connect
  <2> QED
    BY <1>1, <1>2, <2>1 DEF ServiceIInv, ServiceTypeOK, AttemptKnown, StopKnown, Ended
<1>6. CASE EnsureTopicsExist
  BY <1>1, <1>2, <1>6 DEF EnsureTopicsExist, ServiceIInv, ServiceTypeOK, AttemptKnown, StopKnown, Ended
<1>7. CASE Fails
  BY <1>1, <1>2, <1>7 DEF Fails, ServiceIInv, ServiceTypeOK, AttemptKnown, StopKnown, Ended
<1>8. CASE Backoff
  <2>1. attempt + 1 \in 1 .. MaxAttempts
    BY <1>8 DEF Backoff, ServiceIInv, ServiceTypeOK, AttemptKnown
  <2> QED
    BY <1>1, <1>2, <1>8, <2>1 DEF Backoff, ServiceIInv, ServiceTypeOK, AttemptKnown, StopKnown, Ended
<1> QED
  BY <1>3, <1>4, <1>5, <1>6, <1>7, <1>8

(* The steps of an attempt.                                                *)
LEMMA AttemptStep ==
  ASSUME ServiceIInv, Try \/ Proceeds \/ Clean
  PROVE  ServiceIInv'
<1> USE DEF registration
<1>1. ServiceTypeOK /\ attempt \in Attempts /\ consumers[attempt] \in States
  BY DEF ServiceIInv, ServiceTypeOK, Attempts, States
<1>2. CASE Try
  <2>1. consumers' = [consumers EXCEPT ![attempt] = "new"] /\ "new" \in States
    BY <1>2 DEF Try, States
  <2>2. /\ consumers' \in [Attempts -> States] /\ consumers'[attempt] = "new"
        /\ Running' = Running \ {attempt}
    BY <1>1, <2>1, RunningAfter
  <2>3. Running' = {} /\ "new" \in DOMAIN Steps
    BY <1>2, <2>2 DEF Try, ServiceIInv, AttemptKnown, Steps
  <2>4. start = "attempt" /\ start' = "starting" /\ current' = attempt /\ UNCHANGED <<producer, attempt, stop, early>>
    BY <1>2 DEF Try
  <2> QED
    BY <2>2, <2>3, <2>4 DEF ServiceIInv, ServiceTypeOK, AttemptKnown, StopKnown, Ended, Attempts, States
<1>3. CASE Proceeds
  <2> DEFINE state == Steps[consumers[attempt]]
  <2>1. /\ start = "starting" /\ UNCHANGED <<producer, current, stop, early>>
        /\ consumers' = [consumers EXCEPT ![attempt] = state]
        /\ start' = IF state = "running" THEN "started" ELSE "starting"
        /\ attempt' = attempt
    BY <1>3 DEF Proceeds, AfterStep
  <2>2. current = attempt /\ Running = {} /\ consumers[attempt] \in DOMAIN Steps
    BY <2>1 DEF ServiceIInv, AttemptKnown
  <2>3. state \in {"connected", "subscribed", "running"}
    BY <2>2 DEF Steps
  <2> HIDE DEF state
  <2>4. state \in States /\ (state # "running" => state \in DOMAIN Steps)
    BY <2>3 DEF States, Steps
  <2>5. /\ consumers' \in [Attempts -> States] /\ consumers'[attempt] = state
        /\ state = "running" => Running' \subseteq {attempt}
        /\ state # "running" => Running' = {}
    BY <1>1, <2>1, <2>2, <2>4, RunningAfter
  <2>6. stop # "none" => early
    BY <2>1 DEF ServiceIInv, StopKnown, Ended
  <2> QED
    BY <2>1, <2>2, <2>4, <2>5, <2>6 DEF ServiceIInv, ServiceTypeOK, AttemptKnown, StopKnown, Ended, Attempts, States
<1>4. CASE Clean
  <2>1. PICK state \in {"disconnected", consumers[attempt]} :
          consumers' = [consumers EXCEPT ![attempt] = state]
    BY <1>4 DEF Clean
  <2>2. Running = {}
    BY <1>4 DEF Clean, ServiceIInv, AttemptKnown
  <2>3. consumers[attempt] # "running"
    BY <1>1, <2>2 DEF Running, Attempts
  <2>4. state \in States /\ state # "running"
    BY <1>1, <2>3 DEF States
  <2>5. consumers' \in [Attempts -> States] /\ Running' = {}
    BY <1>1, <2>1, <2>2, <2>4, RunningAfter
  <2>6. /\ start = "clean" /\ current' = 0 /\ UNCHANGED <<producer, attempt, stop, early>>
        /\ start' = IF attempt = MaxAttempts THEN "failed" ELSE "backoff"
    BY <1>4 DEF Clean
  <2>7. start' = "backoff" => attempt < MaxAttempts
    BY <1>1, <2>6 DEF Attempts
  <2> QED
    BY <2>5, <2>6, <2>7 DEF ServiceIInv, ServiceTypeOK, AttemptKnown, StopKnown, Ended, Attempts, States
<1> QED
  BY <1>2, <1>3, <1>4

(* The steps of a stop.                                                    *)
LEMMA StopStep ==
  ASSUME ServiceIInv, StopRunner \/ StopProducer \/ StopConsumer
  PROVE  ServiceIInv'
<1> USE DEF registration, kafka
<1>1. CASE StopRunner
  <2>1. /\ stop' = "producer" /\ early' = (start \notin Ended)
        /\ UNCHANGED <<start, producer, attempt, consumers, current>>
    BY <1>1 DEF StopRunner
  <2>2. early' \in BOOLEAN /\ (~early' => start \in Ended)
    BY <2>1
  <2>3. Running' = Running
    BY <2>1, RunningStays
  <2> QED
    BY <2>1, <2>2, <2>3 DEF ServiceIInv, ServiceTypeOK, AttemptKnown, StopKnown
<1>2. CASE StopProducer
  <2>1. /\ stop = "producer" /\ stop' \in {"consumer", "failed"} /\ producer' \in {producer, FALSE}
        /\ UNCHANGED <<start, attempt, consumers, current, early>>
    BY <1>2 DEF StopProducer
  <2>2. Running' = Running
    BY <2>1, RunningStays
  <2> QED
    BY <2>1, <2>2 DEF ServiceIInv, ServiceTypeOK, AttemptKnown, StopKnown
<1>3. CASE StopConsumer
  <2>1. stop = "consumer" /\ UNCHANGED <<start, producer, attempt, current, early>>
    BY <1>3 DEF StopConsumer
  <2>2. CASE stop' = "failed" /\ UNCHANGED consumers
    <3>1. Running' = Running
      BY <2>2, RunningStays
    <3> QED
      BY <2>1, <2>2, <3>1 DEF ServiceIInv, ServiceTypeOK, AttemptKnown, StopKnown
  <2>3. CASE stop' = "done" /\ current = 0 /\ UNCHANGED consumers
    <3>1. Running' = Running
      BY <2>3, RunningStays
    <3>2. Running = {}
      BY <2>3 DEF ServiceIInv, AttemptKnown, Running
    <3> QED
      BY <2>1, <2>3, <3>1, <3>2 DEF ServiceIInv, ServiceTypeOK, AttemptKnown, StopKnown
  <2>4. CASE /\ stop' = "done" /\ current # 0
             /\ consumers' = [consumers EXCEPT ![current] = "disconnected"]
    <3>1. ServiceTypeOK /\ current \in Attempts /\ "disconnected" \in States /\ "disconnected" \in DOMAIN Steps
      BY <2>4 DEF ServiceIInv, ServiceTypeOK, Attempts, States, Steps
    <3>2. /\ consumers' \in [Attempts -> States] /\ consumers'[current] = "disconnected"
          /\ Running' = Running \ {current}
      BY <2>4, <3>1, RunningAfter
    <3>3. Running' = {}
      BY <3>2 DEF ServiceIInv, AttemptKnown
    <3>4. start \in {"register", "connect", "topics", "attempt", "backoff", "failed"} => FALSE
      BY <2>4 DEF ServiceIInv, AttemptKnown
    <3>5. start \in {"starting", "clean"} => consumers'[attempt] \in DOMAIN Steps
      BY <3>1, <3>2 DEF ServiceIInv, AttemptKnown
    <3> QED
      BY <2>1, <2>4, <3>2, <3>3, <3>4, <3>5
      DEF ServiceIInv, ServiceTypeOK, AttemptKnown, StopKnown, Attempts, States
  <2> QED
    BY <1>3, <2>2, <2>3, <2>4 DEF StopConsumer, StoppedConsumer
<1> QED
  BY <1>1, <1>2, <1>3

(* Every step keeps the invariant.                                         *)
LEMMA InvariantStep == ServiceIInv /\ [ServiceNext]_serviceVars => ServiceIInv'
<1>1. ServiceIInv /\ UNCHANGED serviceVars => ServiceIInv'
  BY DEF serviceVars, registration, kafka, ServiceIInv, ServiceTypeOK, AttemptKnown, StopKnown, Running
<1> QED
  BY <1>1, OutsideStep, AttemptStep, StopStep DEF ServiceNext, Starts, Stops

(* The invariant holds at the start.                                       *)
LEMMA InvariantInit == ServiceInit => ServiceIInv
<1> SUFFICES ASSUME ServiceInit PROVE ServiceIInv
  OBVIOUS
<1>1. /\ start = "register" /\ attempt = 1 /\ current = 0 /\ stop = "none"
      /\ consumers = [a \in Attempts |-> "none"]
  BY DEF ServiceInit, Attempts
<1>2. producer \in BOOLEAN /\ early \in BOOLEAN
  BY Zenon DEF ServiceInit
<1>3. Running = {}
  BY <1>1 DEF Running, Attempts
<1> QED
  BY <1>1, <1>2, <1>3 DEF ServiceIInv, ServiceTypeOK, AttemptKnown, StopKnown, Attempts

(* The lifecycle keeps its types: the loop counts at most MaxAttempts.     *)
THEOREM ServiceTypeCorrect == ServiceSpec => []ServiceTypeOK
<1>1. ServiceIInv => ServiceTypeOK
  BY DEF ServiceIInv
<1> QED
  BY <1>1, InvariantInit, InvariantStep, PTL DEF ServiceSpec

(* A consumer that runs is the one that disconnect knows, and a stop after *)
(* the start leaves none, for every number of attempts and participants.   *)
THEOREM ConsumerIsKnown == ServiceSpec => []OneConsumerRuns
<1>1. ServiceIInv => OneConsumerRuns
  <2> SUFFICES ASSUME ServiceIInv PROVE OneConsumerRuns
    OBVIOUS
  <2>1. Running \subseteq {current} /\ 0 \notin Running
    BY DEF ServiceIInv, AttemptKnown, Running
  <2>2. Running # {} => current # 0
    BY <2>1
  <2>3. Running # {} => HealthCheck("Stable") = "up"
    BY <2>2 DEF HealthCheck, HealthyStates
  <2> QED
    BY <2>1, <2>3 DEF ServiceIInv, StopKnown, OneConsumerRuns
<1> QED
  BY <1>1, InvariantInit, InvariantStep, PTL DEF ServiceSpec

-----------------------------------------------------------------------------
(* What onModuleInit has registered: every participant it has passed that  *)
(* can be resolved and handles something.                                  *)
Registered ==
  /\ next \in 1 .. Len(Participants) + 1
  /\ registry \in Seq(Range(Participants))
  /\ \A i \in 1 .. next - 1 :
       declared[Participants[i]].resolves /\ Handlers(Participants[i]) # {} =>
         Participants[i] \in Range(registry)

(* A set of positions has a first one.                                     *)
LEMMA SmallestInSet ==
  ASSUME NEW T, T \subseteq Nat, T # {}
  PROVE  \E n \in T : \A k \in T : n <= k
<1>1. PICK n \in T : \A k \in T : <<k, n>> \notin OpToRel(<, Nat)
  BY NatLessThanWellFounded, WFMin
<1>2. \A k \in T : ~(k < n)
  BY <1>1 DEF OpToRel
<1> QED
  BY <1>2

(* What stands before the first place of a participant in the registry.    *)
LEMMA BeforeFirst ==
  ASSUME registry \in Seq(Range(Participants)), NEW p \in Range(registry)
  PROVE  \E n \in 1 .. Len(registry) :
            /\ registry[n] = p /\ Before(p) = {registry[i] : i \in 1 .. n - 1}
            /\ \A i \in 1 .. n - 1 : registry[i] # p
<1> DEFINE I == {i \in 1 .. Len(registry) : registry[i] = p}
<1>1. I \subseteq Nat /\ I # {}
  <2>1. DOMAIN registry = 1 .. Len(registry) /\ Len(registry) \in Nat
    OBVIOUS
  <2>2. PICK i \in DOMAIN registry : registry[i] = p
    BY DEF Range
  <2> QED
    BY <2>1, <2>2
<1>2. PICK n \in I : \A k \in I : n <= k
  BY <1>1, SmallestInSet
<1>3. Min(I) \in I /\ \A k \in I : Min(I) <= k
  BY <1>2 DEF Min
<1>4. Min(I) = n
  BY <1>1, <1>2, <1>3
<1>5. SelectInSeq(registry, LAMBDA q : q = p) = n
  BY <1>1, <1>4 DEF SelectInSeq
<1>6. \A i \in 1 .. n - 1 : registry[i] # p
  BY <1>2
<1> QED
  BY <1>5, <1>6 DEF Before

(* A registry that is not rejected has one participant for a handler.      *)
LEMMA OneForAHandler ==
  ASSUME registry \in Seq(Range(Participants)), \A p \in Range(registry) : ~Rejects(p),
         NEW p \in Range(registry), NEW q \in Range(registry),
         NEW h \in Handlers(p), h \in Handlers(q)
  PROVE  p = q
<1>1. PICK n \in 1 .. Len(registry) :
            /\ registry[n] = p /\ Before(p) = {registry[i] : i \in 1 .. n - 1}
            /\ \A i \in 1 .. n - 1 : registry[i] # p
  BY BeforeFirst
<1>2. PICK m \in 1 .. Len(registry) :
            /\ registry[m] = q /\ Before(q) = {registry[i] : i \in 1 .. m - 1}
            /\ \A i \in 1 .. m - 1 : registry[i] # q
  BY BeforeFirst
<1>3. p \notin Before(q) /\ q \notin Before(p)
  BY DEF Rejects
<1>4. n \in Nat /\ m \in Nat /\ n >= 1 /\ m >= 1
  OBVIOUS
<1>5. ~(n < m)
  <2> SUFFICES ASSUME n < m PROVE FALSE
    OBVIOUS
  <2>1. n \in 1 .. m - 1
    BY <1>4
  <2> QED
    BY <1>1, <1>2, <1>3, <2>1
<1>6. ~(m < n)
  <2> SUFFICES ASSUME m < n PROVE FALSE
    OBVIOUS
  <2>1. m \in 1 .. n - 1
    BY <1>4
  <2> QED
    BY <1>1, <1>2, <1>3, <2>1
<1> QED
  BY <1>1, <1>2, <1>4, <1>5, <1>6

(* The handlers of a participant are what was declared.                    *)
LEMMA HandlersStay == UNCHANGED declared => \A p : Handlers(p)' = Handlers(p)
BY DEF Handlers, SagaTopics, PlainTopics

(* Registering keeps Registered, and nothing else touches it.              *)
LEMMA RegisteredStep == Registered /\ [ServiceNext]_serviceVars => Registered'
<1> SUFFICES ASSUME Registered, [ServiceNext]_serviceVars PROVE Registered'
  OBVIOUS
<1> USE DEF registration, kafka
<1>1. CASE Register
  <2> DEFINE p == Participants[next]
             added == declared[p].resolves /\ Handlers(p) # {}
  <2>1. /\ next <= Len(Participants) /\ next' = next + 1 /\ UNCHANGED declared
        /\ registry' = IF added THEN Append(registry, p) ELSE registry
    BY <1>1 DEF Register
  <2>2. next \in 1 .. Len(Participants) /\ Len(Participants) \in Nat /\ p \in Range(Participants)
    BY <2>1 DEF Registered, Range
  <2>3. next' \in 1 .. Len(Participants) + 1
    BY <2>1, <2>2
  <2> HIDE DEF p, added
  <2>4. registry \in Seq(Range(Participants))
    BY DEF Registered
  <2>5. registry' \in Seq(Range(Participants))
    BY <2>1, <2>2, <2>4
  <2>6. Range(registry) \subseteq Range(registry') /\ (added => p \in Range(registry'))
    <3>1. CASE added
      <4>1. /\ DOMAIN registry = 1 .. Len(registry) /\ DOMAIN registry' = 1 .. Len(registry) + 1
            /\ registry'[Len(registry) + 1] = p /\ Len(registry) \in Nat
            /\ \A i \in 1 .. Len(registry) : registry'[i] = registry[i]
        BY <2>1, <2>2, <2>4, <3>1
      <4> QED
        BY <4>1 DEF Range
    <3>2. CASE ~added
      BY <2>1, <3>2
    <3> QED
      BY <3>1, <3>2
  <2>7. ASSUME NEW i \in 1 .. next' - 1,
               declared'[Participants[i]].resolves, Handlers(Participants[i])' # {}
        PROVE  Participants[i] \in Range(registry')
    <3>1. declared[Participants[i]].resolves /\ Handlers(Participants[i]) # {}
      BY <2>1, <2>7, HandlersStay
    <3>2. CASE i = next
      BY <2>6, <3>1, <3>2 DEF p, added
    <3>3. CASE i \in 1 .. next - 1
      BY <2>6, <3>1, <3>3 DEF Registered
    <3> QED
      BY <2>1, <2>2, <3>2, <3>3
  <2> QED
    BY <2>3, <2>5, <2>7 DEF Registered
<1>2. CASE UNCHANGED <<declared, next, registry>>
  <2>1. \A p : Handlers(p)' = Handlers(p)
    BY <1>2, HandlersStay
  <2> QED
    BY <1>2, <2>1 DEF Registered
<1>3. ASSUME ~Register PROVE UNCHANGED <<declared, next, registry>>
  BY <1>3 DEF ServiceNext, Starts, Stops, Route, Connect, EnsureTopicsExist, Try, Proceeds, Fails, Clean,
              Backoff, StopRunner, StopProducer, StopConsumer, serviceVars
<1> QED
  BY <1>1, <1>2, <1>3

(* The route map that a start builds from the registry is complete.        *)
LEMMA RouteStep ==
  ASSUME Registered, Route
  PROVE  EveryHandlerIsRouted'
<1>1. start = "register" /\ next > Len(Participants) /\ UNCHANGED declared
  BY DEF Route, registration
<1>2. CASE \E p \in Range(registry) : Rejects(p)
  BY <1>2 DEF Route, EveryHandlerIsRouted
<1>3. CASE ~ \E p \in Range(registry) : Rejects(p)
  <2>1. routes' = [h \in UNION {Handlers(p) : p \in Range(registry)} |->
                     CHOOSE p \in Range(registry) : h \in Handlers(p)]
    BY <1>3 DEF Route, BuildRouteMap
  <2>2. ASSUME NEW p \in Range(Participants), declared[p].resolves, NEW h \in Handlers(p)
        PROVE  h \in DOMAIN routes' /\ routes'[h] = p
    <3>1. PICK i \in 1 .. Len(Participants) : Participants[i] = p
      BY DEF Range
    <3>2. i \in 1 .. next - 1
      BY <1>1, <3>1 DEF Registered
    <3>3. p \in Range(registry)
      BY <2>2, <3>1, <3>2 DEF Registered
    <3>4. h \in UNION {Handlers(q) : q \in Range(registry)}
      BY <3>3
    <3>5. \A q \in Range(registry) : h \in Handlers(q) => q = p
      BY <1>3, <3>3, OneForAHandler DEF Registered
    <3>6. (CHOOSE q \in Range(registry) : h \in Handlers(q)) = p
      BY <3>3, <3>5
    <3> QED
      BY <2>1, <3>4, <3>6
  <2>3. \A p : Handlers(p)' = Handlers(p)
    BY <1>1, HandlersStay
  <2> QED
    BY <1>1, <2>2, <2>3 DEF EveryHandlerIsRouted
<1> QED
  BY <1>2, <1>3

(* No step after it changes the map.                                       *)
LEMMA RoutedStep == Registered /\ EveryHandlerIsRouted /\ [ServiceNext]_serviceVars => EveryHandlerIsRouted'
<1> SUFFICES ASSUME Registered, EveryHandlerIsRouted, [ServiceNext]_serviceVars PROVE EveryHandlerIsRouted'
  OBVIOUS
<1> USE DEF registration, kafka
<1>1. CASE Route
  BY <1>1, RouteStep
<1>2. ASSUME ~Route
      PROVE  /\ UNCHANGED <<declared, routes>>
             /\ start' \notin {"register", "failed"} => start \notin {"register", "failed"}
  BY <1>2 DEF ServiceNext, Starts, Stops, Register, Connect, EnsureTopicsExist, Try, Proceeds, Fails, Clean,
              Backoff, StopRunner, StopProducer, StopConsumer, serviceVars
<1>3. ASSUME UNCHANGED declared PROVE \A p : Handlers(p)' = Handlers(p)
  BY <1>3, HandlersStay
<1> QED
  BY <1>1, <1>2, <1>3 DEF EveryHandlerIsRouted

(* A start that goes on to Kafka has routed every handler, to the one      *)
(* participant that declares it, for every list of participants.           *)
THEOREM HandlersAreRouted == ServiceSpec => []EveryHandlerIsRouted
<1>1. ServiceInit => Registered /\ EveryHandlerIsRouted
  <2> SUFFICES ASSUME ServiceInit PROVE Registered /\ EveryHandlerIsRouted
    OBVIOUS
  <2>1. next = 1 /\ registry = <<>> /\ start = "register"
    BY DEF ServiceInit
  <2>2. Len(Participants) \in Nat
    OBVIOUS
  <2> QED
    BY <2>1, <2>2 DEF Registered, EveryHandlerIsRouted
<1> QED
  BY <1>1, RegisteredStep, RoutedStep, PTL DEF ServiceSpec
=============================================================================
