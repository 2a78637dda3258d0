--------------------------- MODULE KafkaTransport ---------------------------
(***************************************************************************)
(* Consumption of one partition by KafkaTransport.processBatch             *)
(* (saga-transport-kafka/src/kafka.transport.ts) with its                  *)
(* WatermarkTracker, over the KafkaJS 2.2.4 consumer that calls it.        *)
(*                                                                         *)
(* processBatch groups a batch by key and runs one lane (an async loop)    *)
(* per key: each lane hands its messages to the handler one at a time,     *)
(* marks each as completed, resolves the watermark offset and awaits a     *)
(* heartbeat.  Promise.all rejects with the first lane that fails, but it  *)
(* cancels nothing: the other lanes of that invocation go on as orphans    *)
(* while KafkaJS commits what was resolved, fetches from its position and  *)
(* invokes processBatch again.                                             *)
(*                                                                         *)
(* External, modelled from how the transport uses it (KafkaJS): position   *)
(* is the next offset to fetch and resolveOffset assigns it, so a late     *)
(* call can move it back; eachBatchAutoResolve keeps its default, TRUE, so *)
(* an eachBatch that returns normally resolves the last offset of its      *)
(* batch; resolved offsets are committed after a batch, whether it         *)
(* returned or threw; a rejoin of the group restarts from the committed    *)
(* offset.  isStale is about Consumer.seek, which the transport never      *)
(* calls: it is always FALSE.                                              *)
(*                                                                         *)
(* Left out: message contents, header conversion, fetch errors (a fetch    *)
(* that fails changes nothing here), other partitions (an invocation       *)
(* touches one), and another member taking the partition over for good.    *)
(***************************************************************************)
EXTENDS Integers, FiniteSets

CONSTANTS
    LogEnd,         \* number of messages in the partition
    Keys,           \* message keys; a missing key counts as a key, "__no_key__"
    KeyOf,          \* the key of the message at each offset
    Invocations,    \* slots for calls of processBatch; reused when they end
    MaxFaults       \* bound on throws, failed heartbeats, rejoins and crashes

Offsets == 0 .. LogEnd - 1

ASSUME LogAssumption == LogEnd \in Nat \ {0}
ASSUME KeyAssumption == KeyOf \in [Offsets -> Keys]
ASSUME FaultAssumption == MaxFaults \in Nat

VARIABLES
    running,    \* Runner.running of KafkaJS, what isRunning() returns
    position,   \* KafkaJS: next offset to fetch
    committed,  \* the consumer group's committed offset, kept by the broker
    status,     \* state of the eachBatch call of an invocation
    first,      \* first offset of the invocation's batch
    last,       \* last offset of the invocation's batch
    completed,  \* WatermarkTracker.completed of the invocation
    pc,         \* where each lane of the invocation is
    handled,    \* history: offsets whose handler returned at least once
    abandoned,  \* history: offsets resolved by the stop, never handled
    faults      \* faults so far, at most MaxFaults

consumerVars == <<running, position, committed>>
callVars == <<status, first, last>>
vars == <<running, position, committed, status, first, last, completed, pc,
          handled, abandoned, faults>>

(* "idle": no call, or a call that KafkaJS no longer waits for.            *)
Status == {"idle", "running", "resolved", "rejected"}

(* A lane awaits the handler, awaits the heartbeat, has returned (also     *)
(* when there was nothing to do) or has thrown.                            *)
LaneState == {"handling", "beating", "returned", "failed"}

TypeOK ==
    /\ running \in BOOLEAN
    /\ position \in 0 .. LogEnd
    /\ committed \in 0 .. LogEnd
    /\ status \in [Invocations -> Status]
    /\ first \in [Invocations -> Offsets]
    /\ last \in [Invocations -> Offsets]
    /\ completed \in [Invocations -> SUBSET Offsets]
    /\ pc \in [Invocations -> [Keys -> LaneState]]
    /\ handled \in SUBSET Offsets
    /\ abandoned \in SUBSET Offsets
    /\ faults \in 0 .. MaxFaults

-----------------------------------------------------------------------------

Batch(i) == first[i] .. last[i]

(* The messages of lane k of invocation i, in log order, and the one that  *)
(* is next: the least that the lane has not completed.                     *)
Group(i, k) == {o \in Batch(i) : KeyOf[o] = k}

(* Mutant: a group is handed to the handler in no particular order.        *)
Mutant_CurrentAny(i, k, o) == o \in Group(i, k) \ completed[i]

Current(i, k, o) ==
    /\ o \in Group(i, k) \ completed[i]
    /\ \A p \in Group(i, k) : p < o => p \in completed[i]

LaneEnded(i, k) == pc[i][k] \in {"returned", "failed"}

(* Mutant: the scan of the tracker goes on after a hole.                   *)
Mutant_WatermarkPastHole(i, done, w) ==
    \/ w \in done /\ \A o \in done : o <= w
    \/ w < first[i] /\ done = {}

(* Mutant: the scan returns the hole instead of the offset before it.      *)
Mutant_WatermarkAtHole(i, done, w) ==
    /\ first[i] <= w
    /\ first[i] .. w - 1 \subseteq done
    /\ w = last[i] \/ w \notin done

(* getCommittableOffset: w is the last offset of the longest completed     *)
(* prefix of the batch, or the offset before the batch when it is empty.   *)
IsWatermark(i, done, w) ==
    /\ first[i] .. w \subseteq done
    /\ w = last[i] \/ w + 1 \notin done

(* eachBatch calls that KafkaJS is waiting for: it starts no other.        *)
Waiting == {i \in Invocations : status[i] # "idle"}

(* A slot is free when its call is over and its last orphan has ended.     *)
Free(i) == status[i] = "idle" /\ \A k \in Keys : LaneEnded(i, k)

Init ==
    /\ running = TRUE
    /\ position = 0
    /\ committed = 0
    /\ status = [i \in Invocations |-> "idle"]
    /\ first = [i \in Invocations |-> 0]
    /\ last = [i \in Invocations |-> 0]
    /\ completed = [i \in Invocations |-> {}]
    /\ pc = [i \in Invocations |-> [k \in Keys |-> "returned"]]
    /\ handled = {}
    /\ abandoned = {}
    /\ faults = 0

-----------------------------------------------------------------------------
(* KafkaJS has fetched the messages position..hi and calls eachBatch:      *)
(* processBatch builds its tracker and its groups and, before its first    *)
(* await, calls the handler on the first message of every group.           *)
StartBatch(i, hi) ==
    /\ running
    /\ Waiting = {}
    /\ Free(i)
    /\ position <= hi
    /\ status' = [status EXCEPT ![i] = "running"]
    /\ first' = [first EXCEPT ![i] = position]
    /\ last' = [last EXCEPT ![i] = hi]
    /\ completed' = [completed EXCEPT ![i] = {}]
    /\ pc' = [pc EXCEPT ![i] =
                [k \in Keys |-> IF \E o \in position .. hi : KeyOf[o] = k
                                THEN "handling" ELSE "returned"]]
    /\ UNCHANGED <<consumerVars, handled, abandoned, faults>>

(* The handler returns: mark, resolve the watermark, await the heartbeat.  *)
HandlerReturns(i, k) ==
    /\ pc[i][k] = "handling"
    /\ \E o \in Offsets : \E w \in first[i] - 1 .. last[i] :
         LET done == completed[i] \cup {o} IN
         /\ Current(i, k, o)
         /\ IsWatermark(i, done, w)
         /\ completed' = [completed EXCEPT ![i] = done]
         /\ handled' = handled \cup {o}
         /\ position' = IF w < first[i] THEN position ELSE w + 1
    /\ pc' = [pc EXCEPT ![i][k] = "beating"]
    /\ UNCHANGED <<running, committed, callVars, abandoned, faults>>

(* Mutant: the loop ends after one message.                                *)
Mutant_HeartbeatEndsLane(i, k) ==
    /\ pc[i][k] = "beating"
    /\ pc' = [pc EXCEPT ![i][k] = "returned"]
    /\ UNCHANGED <<consumerVars, callVars, completed, handled, abandoned, faults>>

(* Mutant: a heartbeat on a consumer that stops is never answered.         *)
Mutant_HeartbeatHangs(i, k) ==
    /\ running
    /\ pc[i][k] = "beating"
    /\ pc' = [pc EXCEPT ![i][k] = IF Group(i, k) \subseteq completed[i]
                                 THEN "returned" ELSE "handling"]
    /\ UNCHANGED <<consumerVars, callVars, completed, handled, abandoned, faults>>

(* The heartbeat resolves: the loop goes on to the next message of the     *)
(* group, unless the consumer was stopped in the meantime.                 *)
HeartbeatReturns(i, k) ==
    /\ pc[i][k] = "beating"
    /\ pc' = [pc EXCEPT ![i][k] =
                IF running /\ ~(Group(i, k) \subseteq completed[i])
                THEN "handling" ELSE "returned"]
    /\ UNCHANGED <<consumerVars, callVars, completed, handled, abandoned, faults>>

(* Mutant: the error of a lane is caught within the lane.                  *)
Mutant_FailLaneCaught(i, k) ==
    /\ faults < MaxFaults
    /\ faults' = faults + 1
    /\ pc' = [pc EXCEPT ![i][k] = "returned"]
    /\ UNCHANGED <<consumerVars, callVars, completed, handled, abandoned>>

(* Lane k of invocation i throws.  The first such lane rejects the         *)
(* Promise.all, and with it eachBatch; later ones are not noticed.         *)
FailLane(i, k) ==
    /\ faults < MaxFaults
    /\ faults' = faults + 1
    /\ pc' = [pc EXCEPT ![i][k] = "failed"]
    /\ status' = [status EXCEPT ![i] = IF @ = "running" THEN "rejected" ELSE @]
    /\ UNCHANGED <<consumerVars, first, last, completed, handled, abandoned>>

HandlerThrows(i, k) ==
    /\ pc[i][k] = "handling"
    /\ FailLane(i, k)

HeartbeatRejects(i, k) ==
    /\ pc[i][k] = "beating"
    /\ FailLane(i, k)

-----------------------------------------------------------------------------
(* Mutant: the Promise.all is not awaited.                                 *)
Mutant_BatchNotAwaited(i) ==
    /\ status[i] = "running"
    /\ status' = [status EXCEPT ![i] = "resolved"]
    /\ position' = last[i] + 1
    /\ abandoned' = abandoned \cup (Batch(i) \ handled)
    /\ UNCHANGED <<running, committed, first, last, completed, pc, handled, faults>>

(* Every lane has returned, so processBatch has, and KafkaJS resolves the  *)
(* last offset of the batch: this is what the early return on a stop does  *)
(* to the messages it skips.                                               *)
BatchResolves(i) ==
    /\ status[i] = "running"
    /\ \A k \in Keys : pc[i][k] = "returned"
    /\ status' = [status EXCEPT ![i] = "resolved"]
    /\ position' = last[i] + 1
    /\ abandoned' = abandoned \cup (Batch(i) \ handled)
    /\ UNCHANGED <<running, committed, first, last, completed, pc, handled, faults>>

(* KafkaJS commits what is resolved; after a throw it then schedules a new *)
(* fetch, which goes on from position.                                     *)
CommitResolved(i) ==
    /\ status[i] \in {"resolved", "rejected"}
    /\ committed' = position
    /\ status' = [status EXCEPT ![i] = "idle"]
    /\ UNCHANGED <<running, position, first, last, completed, pc, handled,
                   abandoned, faults>>

(* The commit or the heartbeat after the batch, or the error of the batch, *)
(* says that the group rebalances: rejoin, nothing committed.              *)
Rejoin(i) ==
    /\ status[i] \in {"resolved", "rejected"}
    /\ running
    /\ faults < MaxFaults
    /\ faults' = faults + 1
    /\ position' = committed
    /\ status' = [status EXCEPT ![i] = "idle"]
    /\ UNCHANGED <<running, committed, first, last, completed, pc, handled, abandoned>>

(* SagaRunner.stop -> KafkaTransport.disconnect -> Consumer.disconnect.    *)
Stop ==
    /\ running
    /\ running' = FALSE
    /\ UNCHANGED <<position, committed, callVars, completed, pc, handled,
                   abandoned, faults>>

(* The process dies and is started again: only the broker remembers.       *)
Crash ==
    /\ running
    /\ faults < MaxFaults
    /\ faults' = faults + 1
    /\ position' = committed
    /\ status' = [i \in Invocations |-> "idle"]
    /\ pc' = [i \in Invocations |-> [k \in Keys |-> "returned"]]
    /\ UNCHANGED <<running, committed, first, last, completed, handled, abandoned>>

-----------------------------------------------------------------------------
Next ==
    \/ \E i \in Invocations, hi \in Offsets : StartBatch(i, hi)
    \/ \E i \in Invocations, k \in Keys :
         \/ HandlerReturns(i, k)
         \/ HeartbeatReturns(i, k)
         \/ HandlerThrows(i, k)
         \/ HeartbeatRejects(i, k)
    \/ \E i \in Invocations :
         \/ BatchResolves(i)
         \/ CommitResolved(i)
         \/ Rejoin(i)
    \/ Stop
    \/ Crash

Spec == Init /\ [][Next]_vars

(* The event loop runs what is ready, handlers and broker requests end,    *)
(* and KafkaJS keeps fetching; nobody has to fail, stop or crash.          *)
Fairness ==
    /\ WF_vars(\E i \in Invocations, hi \in Offsets : StartBatch(i, hi))
    /\ \A i \in Invocations :
         /\ \A k \in Keys : WF_vars(HandlerReturns(i, k)) /\ WF_vars(HeartbeatReturns(i, k))
         /\ WF_vars(BatchResolves(i))
         /\ WF_vars(CommitResolved(i))

FairSpec == Spec /\ Fairness

-----------------------------------------------------------------------------
(* What the consumption of a partition has to satisfy.                     *)

Covered(o) == o \in handled \cup abandoned

(* An offset below the committed one was handled, or was given up by the   *)
(* stop of the consumer: lanes that finish out of order, orphans that      *)
(* resolve late, rejoins and crashes never commit past work undone.        *)
CommittedCovered == \A o \in Offsets : o < committed => Covered(o)

(* Only a stopped consumer gives messages up: as long as it runs, a batch  *)
(* that returns normally has handled everything in it, whichever of its    *)
(* lanes ended when, with orphans of older batches at work on the same     *)
(* messages.  So the early return of the lanes, which KafkaJS takes for    *)
(* the end of their work, loses messages at a stop and at no other time.   *)
AbandonOnlyOnStop == running => abandoned = {}

(* A message is handled for the first time only after every earlier        *)
(* message of its key was: through retries, orphans and redeliveries.      *)
KeyOrder ==
    \A o \in handled : \A p \in Offsets :
        p < o /\ KeyOf[p] = KeyOf[o] => Covered(p)

(* Two handlers run on one key only when the lane of a rejected invocation *)
(* is still going while KafkaJS has moved on.                              *)
OverlapNeedsFault ==
    \A i, j \in Invocations : \A k \in Keys :
        /\ i # j
        /\ pc[i][k] = "handling"
        /\ pc[j][k] = "handling"
        => faults > 0

(* A consumer that is not stopped ends up having handled the whole log,    *)
(* every fault, orphan and step back of the position notwithstanding, and, *)
(* without faults, having it all committed.  After a fault an orphan may   *)
(* resolve the end of the log when no batch is left to commit it: then the *)
(* tail is delivered again on the next start, and is not lost.             *)
LogIsConsumed ==
    <>[](running => /\ position = LogEnd
                    /\ handled = Offsets
                    /\ faults = 0 => committed = LogEnd)

(* A stopped consumer drains: the calls in flight end and are committed.   *)
StopDrains == ~running ~> \A i \in Invocations : Free(i)

(* Why CommittedCovered, AbandonOnlyOnStop and KeyOrder hold: together     *)
(* with the four facts below they are inductive.                           *)

(* Everything before the position, which becomes the committed offset...   *)
PositionCovered == \A o \in Offsets : o < position => Covered(o)

(* ...and everything before the batch of any invocation, orphans included, *)
(* which may assign the position again.                                    *)
FirstCovered == \A i \in Invocations : \A o \in Offsets : o < first[i] => Covered(o)

(* A tracker counts only messages that were handled.                       *)
CompletedHandled == \A i \in Invocations : completed[i] \subseteq handled

(* While the consumer runs, a lane returns only with its group completed.  *)
ReturnedLanesDone ==
    \A i \in Invocations : \A k \in Keys :
        running /\ status[i] = "running" /\ pc[i][k] = "returned"
            => Group(i, k) \subseteq completed[i]

(* The inductive invariant: no interleaving of lanes, orphans, rejoins and *)
(* crashes breaks any of its parts.                                        *)
IInv ==
    /\ TypeOK
    /\ CommittedCovered
    /\ AbandonOnlyOnStop
    /\ KeyOrder
    /\ PositionCovered
    /\ FirstCovered
    /\ CompletedHandled
    /\ ReturnedLanesDone

(* What a saga transport promises.                                         *)
Delivery == INSTANCE KeyedDelivery
ImplementsDelivery == Delivery!Spec
=============================================================================
