--------------------------- MODULE Projector_proofs ---------------------------
(* Proofs about Projector: the types of offsets and jobs, that the log has *)
(* one row per event, that what is committed is projected, what the loop   *)
(* over a batch derives, that the two tables agree: on what is completed,  *)
(* on compensation that was read, and on the number of events; and that    *)
(* Projector implements ReadModel.                                         *)
EXTENDS Projector, FiniteSetTheorems, WellFoundedInduction, TLAPS

USE LogAssumption, SagaAssumption, WorkerAssumption, FaultsAssumption

(* What processBatch has behind it: the message is not of a saga, or is in *)
(* the log, or was lost with a failed transaction.                         *)
Covered(p, o) == SagaOf[Log[p][o]] # NoSaga => Log[p][o] \in Logged \cup lost

(* A batch starts behind covered messages; of its own messages, those that *)
(* are not covered are still to be written.                                *)
JobCovers(j) ==
    j.pc # "idle" =>
        /\ \A o \in 1 .. j.first - 1 : Covered(j.partition, o)
        /\ \A o \in j.first .. j.last :
              Covered(j.partition, o) \/ (o \in j.fresh /\ j.pc # "persisted")
        /\ j.pc = "resolved" => j.fresh = {}

PositionCovered == \A p \in Partitions : \A o \in 1 .. position[p] : Covered(p, o)

(* The inductive invariant: the fetch position, the commits, and every     *)
(* batch that is being processed, whether its worker still owns the        *)
(* partition or not.                                                       *)
IInv ==
    /\ TypeOK
    /\ PositionCovered
    /\ CommittedIsLogged
    /\ \A w \in Workers : JobCovers(job[w])

-----------------------------------------------------------------------------
(* A worker without a batch has a job of the right type.                   *)
LEMMA IdleIsJob == IsJob(Idle) /\ Idle.pc = "idle"
BY DEF Idle, IsJob, Phases, Moved

(* Prepared offsets are those of the batch.                                *)
LEMMA PreparedInBatch ==
  ASSUME NEW p, NEW lo \in Nat, NEW hi \in Nat
  PROVE  /\ Prepared(p, lo, hi) \subseteq lo .. hi
         /\ \A o \in lo .. hi : o \in Prepared(p, lo, hi) \/ SagaOf[Log[p][o]] = NoSaga
BY DEF Prepared, MessageAt

(* A step that releases a worker.                                          *)
LEMMA ReleaseTypes ==
  ASSUME TypeOK, NEW w \in Workers, Release(w)
  PROVE  /\ owner' \in [Partitions -> Workers \cup {NoWorker}]
         /\ job' = [v \in Workers |-> job'[v]]
         /\ \A v \in Workers : IsJob(job'[v])
         /\ job'[w] = Idle /\ \A v \in Workers \ {w} : job'[v] = job[v]
BY IdleIsJob DEF TypeOK, Release, Owns

(* What a step that moves a batch on makes of a job, and that it is one.   *)
LEMMA MoveTypes ==
  ASSUME TypeOK, NEW w \in Workers, job[w].pc # "idle", NEW pc \in Phases \ {"idle"},
         NEW fresh, fresh \subseteq job[w].fresh, NEW view,
         job' = [job EXCEPT ![w] = Moved(job[w], pc, fresh, view)]
  PROVE  /\ job' = [v \in Workers |-> job'[v]]
         /\ \A v \in Workers : IsJob(job'[v])
         /\ \A v \in Workers \ {w} : job'[v] = job[v]
         /\ job'[w].pc = pc /\ job'[w].fresh = fresh
         /\ job'[w].first = job[w].first /\ job'[w].last = job[w].last
         /\ job'[w].partition = job[w].partition
<1> DEFINE new == Moved(job[w], pc, fresh, view)
<1>1. IsJob(job[w])
  BY DEF TypeOK
<1>2. /\ new.pc = pc /\ new.fresh = fresh /\ new.view = view
      /\ new.first = job[w].first /\ new.last = job[w].last /\ new.partition = job[w].partition
  BY DEF Moved
<1>3. new = Moved(new, new.pc, new.fresh, new.view)
  BY DEF Moved
<1> HIDE DEF new
<1>4. IsJob(new)
  BY <1>1, <1>2, <1>3 DEF IsJob
<1>5. job'[w] = new /\ job' = [v \in Workers |-> job'[v]] /\ \A v \in Workers \ {w} : job'[v] = job[v]
  BY DEF TypeOK, new
<1>6. \A v \in Workers : IsJob(job'[v])
  BY <1>4, <1>5 DEF TypeOK
<1> QED
  BY <1>2, <1>5, <1>6

(* A step that ends a batch.                                               *)
LEMMA FinishTypes ==
  ASSUME TypeOK, NEW w \in Workers, NEW pc \in Phases \ {"idle"}, Finish(w, pc)
  PROVE  /\ job' = [v \in Workers |-> job'[v]]
         /\ \A v \in Workers : IsJob(job'[v])
         /\ \A v \in Workers \ {w} : job'[v] = job[v]
         /\ job'[w].pc = "resolved" /\ job'[w].fresh = {}
         /\ job'[w].first = job[w].first /\ job'[w].last = job[w].last
         /\ job'[w].partition = job[w].partition
<1>1. /\ job[w].pc # "idle" /\ "resolved" \in Phases \ {"idle"}
      /\ job' = [job EXCEPT ![w] = Moved(job[w], "resolved", {}, Idle.view)]
  BY DEF Finish, Phases
<1> QED
  BY <1>1, MoveTypes, {} \subseteq job[w].fresh

(* The three steps before the end of a batch: the messages that Dedupe     *)
(* leaves out are logged, Lookup and Persist leave none out.               *)
LEMMA StepJob ==
  ASSUME TypeOK, NEW w \in Workers, Dedupe(w) \/ Lookup(w) \/ Persist(w)
  PROVE  /\ job' = [v \in Workers |-> job'[v]]
         /\ \A v \in Workers : IsJob(job'[v])
         /\ \A v \in Workers \ {w} : job'[v] = job[v]
         /\ job'[w].first = job[w].first /\ job'[w].last = job[w].last
         /\ job'[w].partition = job[w].partition
         /\ job[w].pc # "idle"
         /\ job'[w].pc = "persisted" <=> Persist(w)
         /\ job'[w].pc = "resolved" => job'[w].fresh = {}
         /\ \A o \in job[w].fresh :
               o \in job'[w].fresh \/ MessageAt(job[w].partition, o) \in Logged
<1>1. CASE Dedupe(w)
  <2> DEFINE fresh == {o \in job[w].fresh : MessageAt(job[w].partition, o) \notin Logged}
             pc == IF fresh = {} THEN "resolved" ELSE "deduped"
  <2>1. /\ job[w].pc = "parsed" /\ pc \in Phases \ {"idle"} /\ fresh \subseteq job[w].fresh
        /\ pc # "persisted" /\ (pc = "resolved" => fresh = {})
        /\ job' = [job EXCEPT ![w] = Moved(job[w], pc, fresh, Idle.view)]
        /\ \A o \in job[w].fresh : o \in fresh \/ MessageAt(job[w].partition, o) \in Logged
    BY <1>1 DEF Dedupe, Phases
  <2>2. ~Persist(w)
    BY <2>1 DEF Persist
  <2> HIDE DEF fresh, pc
  <2>3. /\ job' = [v \in Workers |-> job'[v]]
        /\ \A v \in Workers : IsJob(job'[v])
        /\ \A v \in Workers \ {w} : job'[v] = job[v]
        /\ job'[w].pc = pc /\ job'[w].fresh = fresh
        /\ job'[w].first = job[w].first /\ job'[w].last = job[w].last
        /\ job'[w].partition = job[w].partition
    BY <2>1, MoveTypes
  <2> QED
    BY <2>1, <2>2, <2>3
<1>2. CASE Lookup(w)
  <2> DEFINE asked == {SagaOf[MessageAt(job[w].partition, o)] : o \in job[w].fresh}
             view == [s \in Sagas |-> IF s \in asked THEN sagaState[s].status ELSE NoView]
  <2>1. /\ job[w].pc = "deduped" /\ "derived" \in Phases \ {"idle"} /\ job[w].fresh \subseteq job[w].fresh
        /\ job' = [job EXCEPT ![w] = Moved(job[w], "derived", job[w].fresh, view)]
    BY <1>2 DEF Lookup, Phases
  <2>2. ~Persist(w)
    BY <2>1 DEF Persist
  <2> HIDE DEF view
  <2>3. /\ job' = [v \in Workers |-> job'[v]]
        /\ \A v \in Workers : IsJob(job'[v])
        /\ \A v \in Workers \ {w} : job'[v] = job[v]
        /\ job'[w].pc = "derived" /\ job'[w].fresh = job[w].fresh
        /\ job'[w].first = job[w].first /\ job'[w].last = job[w].last
        /\ job'[w].partition = job[w].partition
    BY <2>1, MoveTypes
  <2> QED
    BY <2>1, <2>2, <2>3
<1>3. CASE Persist(w)
  <2>1. /\ job[w].pc = "derived" /\ "persisted" \in Phases \ {"idle"} /\ job[w].fresh \subseteq job[w].fresh
        /\ job' = [job EXCEPT ![w] = Moved(job[w], "persisted", job[w].fresh, job[w].view)]
    BY <1>3 DEF Persist, Phases
  <2>2. /\ job' = [v \in Workers |-> job'[v]]
        /\ \A v \in Workers : IsJob(job'[v])
        /\ \A v \in Workers \ {w} : job'[v] = job[v]
        /\ job'[w].pc = "persisted" /\ job'[w].fresh = job[w].fresh
        /\ job'[w].first = job[w].first /\ job'[w].last = job[w].last
        /\ job'[w].partition = job[w].partition
    BY <2>1, MoveTypes
  <2> QED
    BY <1>3, <2>1, <2>2
<1> QED
  BY <1>1, <1>2, <1>3

(* What a batch is that a worker starts.                                   *)
LEMMA StartTypes ==
  ASSUME TypeOK, NEW w \in Workers, NEW p \in Partitions, NEW hi \in 1 .. Len(Log[p]), StartBatch(w, p, hi)
  PROVE  /\ job' = [v \in Workers |-> job'[v]]
         /\ \A v \in Workers : IsJob(job'[v])
         /\ \A v \in Workers \ {w} : job'[v] = job[v]
         /\ job'[w].partition = p /\ job'[w].first = position[p] + 1 /\ job'[w].last = hi
         /\ job'[w].fresh = Prepared(p, position[p] + 1, hi)
         /\ job'[w].pc \in {"parsed", "resolved"}
         /\ job'[w].pc = "resolved" => job'[w].fresh = {}
<1> DEFINE prepared == Prepared(p, position[p] + 1, hi)
           pc == IF prepared = {} THEN "resolved" ELSE "parsed"
           new == [pc |-> pc, partition |-> p, first |-> position[p] + 1, last |-> hi,
                   fresh |-> prepared, view |-> Idle.view]
<1>1. /\ position[p] \in Nat /\ hi \in Nat /\ hi <= Len(Log[p])
      /\ prepared \subseteq position[p] + 1 .. hi
  <2>1. Len(Log[p]) \in Nat
    OBVIOUS
  <2>2. position[p] \in Nat /\ hi \in Nat /\ hi <= Len(Log[p])
    BY <2>1 DEF TypeOK
  <2>3. position[p] + 1 \in Nat
    BY <2>2
  <2> QED
    BY <2>2, <2>3, PreparedInBatch
<1>2. job' = [job EXCEPT ![w] = new]
  BY DEF StartBatch
<1>3. pc \in {"parsed", "resolved"} /\ (pc = "resolved" => prepared = {})
  OBVIOUS
<1> HIDE DEF prepared, pc
<1>4. /\ new.pc = pc /\ new.fresh = prepared /\ new.partition = p
      /\ new.first = position[p] + 1 /\ new.last = hi
      /\ new = Moved(new, new.pc, new.fresh, new.view)
  BY DEF Moved
<1> HIDE DEF new
<1>5. IsJob(new)
  BY <1>1, <1>3, <1>4 DEF IsJob, Phases
<1>6. job'[w] = new /\ job' = [v \in Workers |-> job'[v]] /\ \A v \in Workers \ {w} : job'[v] = job[v]
  BY <1>2 DEF TypeOK
<1>7. \A v \in Workers : IsJob(job'[v])
  BY <1>5, <1>6 DEF TypeOK
<1> QED
  BY <1>3, <1>4, <1>6, <1>7 DEF prepared

(* A partition is fetched again from what is committed.                    *)
LEMMA RewindTypes ==
  ASSUME TypeOK, NEW p, position' = [position EXCEPT ![p] = committed[p]]
  PROVE  /\ position' \in [Partitions -> Nat]
         /\ \A q \in Partitions : position'[q] <= Len(Log[q])
         /\ \A q \in Partitions : position'[q] = position[q] \/ position'[q] = committed[q]
<1>1. position' = [q \in Partitions |-> IF q = p THEN committed[p] ELSE position[q]]
  BY DEF TypeOK
<1>2. \A q \in Partitions : position'[q] = position[q] \/ position'[q] = committed[q]
  BY <1>1
<1>3. \A q \in Partitions : position'[q] \in Nat /\ position'[q] <= Len(Log[q])
  BY <1>2 DEF TypeOK
<1> QED
  BY <1>1, <1>2, <1>3

(* Every step keeps the types.                                             *)
LEMMA TypeStep == TypeOK /\ [Next]_vars => TypeOK'
<1> SUFFICES ASSUME TypeOK, [Next]_vars PROVE TypeOK'
  OBVIOUS
<1> USE DEF offsets, tables
<1>1. ASSUME NEW w \in Workers, NEW p \in Partitions, NEW hi \in 1 .. Len(Log[p]), StartBatch(w, p, hi)
      PROVE  TypeOK'
  <2>1. /\ UNCHANGED <<position, committed, lost, raced, faults>>
        /\ owner' = [owner EXCEPT ![p] = w]
    BY <1>1 DEF StartBatch
  <2> QED
    BY <2>1, <1>1, StartTypes DEF TypeOK
<1>2. ASSUME NEW w \in Workers, Dedupe(w) PROVE TypeOK'
  BY <1>2, StepJob DEF Dedupe, TypeOK
<1>3. ASSUME NEW w \in Workers, Lookup(w) PROVE TypeOK'
  BY <1>3, StepJob DEF Lookup, TypeOK
<1>4. ASSUME NEW w \in Workers, Persist(w) PROVE TypeOK'
  BY <1>4, StepJob DEF Persist, TypeOK
<1>5. ASSUME NEW w \in Workers, PersistFails(w) PROVE TypeOK'
  <2>1. job' = [v \in Workers |-> job'[v]] /\ \A v \in Workers : IsJob(job'[v])
    BY <1>5, FinishTypes DEF PersistFails, Phases
  <2>2. IsJob(job[w]) /\ job[w].pc = "derived"
    BY <1>5 DEF TypeOK, PersistFails, Finish
  <2>3. \A o \in job[w].fresh : MessageAt(job[w].partition, o) \in Messages
    BY <2>2 DEF IsJob, MessageAt
  <2> QED
    BY <2>1, <2>3, <1>5 DEF PersistFails, TypeOK
<1>6. ASSUME NEW w \in Workers, Publish(w) PROVE TypeOK'
  <2>1. job' = [v \in Workers |-> job'[v]] /\ \A v \in Workers : IsJob(job'[v])
    BY <1>6, FinishTypes DEF Publish, Phases
  <2> QED
    BY <2>1, <1>6 DEF Publish, TypeOK
<1>7. ASSUME NEW w \in Workers, Commit(w) PROVE TypeOK'
  <2>1. IsJob(job[w]) /\ job[w].pc = "resolved"
    BY <1>7 DEF TypeOK, Commit
  <2> QED
    BY <2>1, <1>7, ReleaseTypes DEF Commit, TypeOK, IsJob
<1>8. ASSUME NEW w \in Workers, QueryFails(w) PROVE TypeOK'
  BY <1>8, ReleaseTypes DEF QueryFails, TypeOK
<1>9. ASSUME NEW w \in Workers, Crash(w) PROVE TypeOK'
  <2>1. position' \in [Partitions -> Nat] /\ \A p \in Partitions : position'[p] <= Len(Log[p])
    BY <1>9, RewindTypes DEF Crash, TypeOK
  <2> QED
    BY <2>1, <1>9, ReleaseTypes DEF Crash, TypeOK
<1>10. ASSUME NEW w \in Workers, Takeover(w) PROVE TypeOK'
  <2>1. position' \in [Partitions -> Nat] /\ \A p \in Partitions : position'[p] <= Len(Log[p])
    BY <1>10, RewindTypes DEF Takeover
  <2>2. owner' \in [Partitions -> Workers \cup {NoWorker}]
    BY <1>10 DEF Takeover, TypeOK
  <2> QED
    BY <2>1, <2>2, <1>10 DEF Takeover, TypeOK
<1>11. CASE UNCHANGED vars
  BY <1>11 DEF vars, TypeOK
<1> QED
  BY <1>1, <1>2, <1>3, <1>4, <1>5, <1>6, <1>7, <1>8, <1>9, <1>10, <1>11 DEF Next

(* The types hold at the start.                                            *)
LEMMA InitTypes == Init => TypeOK
<1> SUFFICES ASSUME Init PROVE TypeOK
  OBVIOUS
<1>1. \A p \in Partitions : Len(Log[p]) \in Nat
  OBVIOUS
<1>2. /\ position \in [Partitions -> Nat] /\ committed \in [Partitions -> Nat]
      /\ \A p \in Partitions : position[p] = 0 /\ committed[p] = 0
  BY DEF Init
<1>3. \A p \in Partitions : position[p] <= Len(Log[p]) /\ committed[p] <= Len(Log[p])
  BY <1>1, <1>2
<1>4. job = [w \in Workers |-> job[w]] /\ \A w \in Workers : job[w] = Idle
  <2> HIDE DEF Idle
  <2> QED
    BY DEF Init
<1>6. \A w \in Workers : IsJob(job[w])
  BY <1>4, IdleIsJob
<1>5. owner \in [Partitions -> Workers \cup {NoWorker}] /\ lost \subseteq Messages
  BY DEF Init
<1>7. raced \in BOOLEAN
  BY Zenon DEF Init
<1>8. faults = 0
  BY Zenon DEF Init
<1>9. faults \in 0 .. MaxFaults
  BY <1>8
<1> QED
  BY <1>2, <1>3, <1>4, <1>5, <1>6, <1>7, <1>9 DEF TypeOK

(* Positions and commits stay within their partition, and a batch within   *)
(* what its worker was given, whatever fails and whoever takes over.       *)
THEOREM TypeCorrect == Spec => []TypeOK
<1> QED
  BY InitTypes, TypeStep, PTL DEF Spec

-----------------------------------------------------------------------------
(* A set of offsets has a smallest one.                                    *)
LEMMA SmallestInSet ==
  ASSUME NEW T, T \subseteq Nat, T # {}
  PROVE  \E n \in T : \A k \in T : n <= k
<1>1. PICK n \in T : \A k \in T : <<k, n>> \notin OpToRel(<, Nat)
  BY NatLessThanWellFounded, WFMin
<1>2. \A k \in T : ~(k < n)
  BY <1>1 DEF OpToRel
<1> QED
  BY <1>2

(* Only Persist writes the log, and it only adds to it; lost grows too.    *)
LEMMA LogGrows ==
  ASSUME [Next]_vars
  PROVE  /\ (\E w \in Workers : Persist(w)) \/ UNCHANGED eventLog
         /\ eventLog \subseteq eventLog' /\ lost \subseteq lost'
<1> USE DEF tables, offsets
<1>1. ASSUME NEW w \in Workers, Persist(w)
      PROVE  eventLog \subseteq eventLog' /\ lost \subseteq lost'
  BY <1>1 DEF Persist, BulkInsert
<1>2. ASSUME NEW w \in Workers, PersistFails(w)
      PROVE  UNCHANGED eventLog /\ lost \subseteq lost'
  BY <1>2 DEF PersistFails
<1>3. ASSUME NEW w \in Workers,
             \/ \E p \in Partitions : \E hi \in 1 .. Len(Log[p]) : StartBatch(w, p, hi)
             \/ Dedupe(w) \/ Lookup(w) \/ Publish(w) \/ Commit(w)
             \/ QueryFails(w) \/ Crash(w) \/ Takeover(w)
      PROVE  UNCHANGED <<eventLog, lost>>
  BY <1>3 DEF StartBatch, Dedupe, Lookup, Publish, Commit, QueryFails, Crash, Takeover
<1>4. CASE UNCHANGED vars
  BY <1>4 DEF vars
<1> QED
  BY <1>1, <1>2, <1>3, <1>4 DEF Next

(* The rows that a batch inserts have one event each.                      *)
LEMMA RowsDiffer ==
  ASSUME NEW j, j.fresh \subseteq Nat, NEW row1 \in LogRows(j), NEW row2 \in LogRows(j),
         row1.event = row2.event
  PROVE  row1 = row2
<1> DEFINE Msg(o) == MessageAt(j.partition, o)
           First(o) == o \in j.fresh /\ \A n \in j.fresh : Msg(n) = Msg(o) => o <= n
           Row(o) == [event |-> Msg(o), before |-> StatusesAfter(j)[o - 1][SagaOf[Msg(o)]],
                      after |-> StatusesAfter(j)[o][SagaOf[Msg(o)]]]
<1>1. LogRows(j) = {Row(o) : o \in {o \in j.fresh : First(o)}}
  BY DEF LogRows
<1>2. \A o : Row(o).event = Msg(o)
  OBVIOUS
<1> HIDE DEF Row, Msg
<1>3. PICK o \in j.fresh, n \in j.fresh : First(o) /\ First(n) /\ row1 = Row(o) /\ row2 = Row(n)
  BY <1>1
<1>4. o <= n /\ n <= o
  BY <1>2, <1>3
<1> QED
  BY <1>3, <1>4

(* No message of a batch is left out: the first of its duplicates has a    *)
(* row, unless the event is in the log.                                    *)
LEMMA RowsCover ==
  ASSUME NEW j, j.fresh \subseteq Nat, NEW o \in j.fresh
  PROVE  \E row \in LogRows(j) : row.event = MessageAt(j.partition, o)
<1> DEFINE Msg(n) == MessageAt(j.partition, n)
           First(n) == n \in j.fresh /\ \A k \in j.fresh : Msg(k) = Msg(n) => n <= k
           Row(n) == [event |-> Msg(n), before |-> StatusesAfter(j)[n - 1][SagaOf[Msg(n)]],
                      after |-> StatusesAfter(j)[n][SagaOf[Msg(n)]]]
           Same == {n \in j.fresh : Msg(n) = Msg(o)}
<1>1. LogRows(j) = {Row(n) : n \in {n \in j.fresh : First(n)}}
  BY DEF LogRows
<1>2. \A n : Row(n).event = Msg(n)
  OBVIOUS
<1>3. Same \subseteq Nat /\ o \in Same
  OBVIOUS
<1>4. PICK n \in Same : \A k \in Same : n <= k
  BY <1>3, SmallestInSet
<1> HIDE DEF Row, Msg
<1>5. First(n) /\ Msg(n) = Msg(o)
  BY <1>4
<1> QED
  BY <1>1, <1>2, <1>5 DEF Msg

(* The new messages of a batch are told by their offsets.                  *)
LEMMA FreshAreOffsets ==
  ASSUME TypeOK, NEW w \in Workers
  PROVE  job[w].fresh \subseteq Nat
<1>1. IsJob(job[w])
  BY DEF TypeOK
<1> QED
  BY <1>1 DEF IsJob

(* What the transaction of a batch leaves in the log.                      *)
LEMMA PersistLogs ==
  ASSUME TypeOK, NEW w \in Workers, Persist(w)
  PROVE  \A o \in job[w].fresh : MessageAt(job[w].partition, o) \in Logged'
<1>1. job[w].fresh \subseteq Nat
  BY FreshAreOffsets
<1>2. eventLog' = eventLog \cup {row \in LogRows(job[w]) : row.event \notin Logged}
  BY DEF Persist, BulkInsert
<1> TAKE o \in job[w].fresh
<1>3. PICK row \in LogRows(job[w]) : row.event = MessageAt(job[w].partition, o)
  BY <1>1, RowsCover
<1> QED
  BY <1>2, <1>3 DEF Logged

(* OneRowPerEvent is inductive, given the types: an event is in the log    *)
(* once, whatever batches and workers insert it.                           *)
LEMMA OneRowStep == TypeOK /\ OneRowPerEvent /\ [Next]_vars => OneRowPerEvent'
<1> SUFFICES ASSUME TypeOK, OneRowPerEvent, [Next]_vars PROVE OneRowPerEvent'
  OBVIOUS
<1>1. CASE \E w \in Workers : Persist(w)
  <2>1. PICK w \in Workers : Persist(w)
    BY <1>1
  <2>2. eventLog' = eventLog \cup {row \in LogRows(job[w]) : row.event \notin Logged}
    BY <2>1 DEF Persist, BulkInsert
  <2>3. job[w].fresh \subseteq Nat
    BY FreshAreOffsets
  <2>4. \A row1, row2 \in LogRows(job[w]) : row1.event = row2.event => row1 = row2
    BY <2>3, RowsDiffer
  <2> QED
    BY <2>2, <2>4 DEF OneRowPerEvent, Logged
<1>2. CASE UNCHANGED eventLog
  BY <1>2 DEF OneRowPerEvent
<1> QED
  BY <1>1, <1>2, LogGrows

(* saga_event_log has one line per event, for every log, number of workers *)
(* and sequence of failures.                                               *)
THEOREM OneRow == Spec => []OneRowPerEvent
<1>1. Init => OneRowPerEvent
  BY DEF Init, OneRowPerEvent
<1> QED
  BY <1>1, TypeCorrect, OneRowStep, PTL DEF Spec

-----------------------------------------------------------------------------
(* What is covered stays covered.                                          *)
LEMMA CoveredStays ==
  ASSUME [Next]_vars, NEW p, NEW o, Covered(p, o)
  PROVE  Covered(p, o)'
BY LogGrows DEF Covered, Logged

(* A batch that nobody touches stays covered as it is.                     *)
LEMMA JobStays ==
  ASSUME [Next]_vars, NEW v, job'[v] = job[v], JobCovers(job[v])
  PROVE  JobCovers(job[v])'
BY CoveredStays DEF JobCovers

(* Positions and commits that stay where they were, for partition p.       *)
LEMMA OffsetsStay ==
  ASSUME IInv, [Next]_vars, NEW p \in Partitions,
         position'[p] = position[p] \/ position'[p] = committed[p],
         committed'[p] = committed[p]
  PROVE  /\ \A o \in 1 .. position'[p] : Covered(p, o)'
         /\ \A o \in 1 .. committed'[p] : Covered(p, o)'
<1>1. /\ \A o \in 1 .. position[p] : Covered(p, o)
      /\ \A o \in 1 .. committed[p] : Covered(p, o)
  BY DEF IInv, PositionCovered, CommittedIsLogged, Covered
<1> QED
  BY <1>1, CoveredStays

(* The invariant without the types, put together from its parts.           *)
LEMMA Assemble ==
  ASSUME \A p \in Partitions : /\ \A o \in 1 .. position'[p] : Covered(p, o)'
                               /\ \A o \in 1 .. committed'[p] : Covered(p, o)',
         \A v \in Workers : JobCovers(job[v])'
  PROVE  /\ PositionCovered' /\ CommittedIsLogged'
         /\ \A v \in Workers : JobCovers(job[v])'
BY DEF PositionCovered, CommittedIsLogged, Covered

(* A batch behind position[p] that is told by its parts.                   *)
LEMMA StartCovers ==
  ASSUME IInv, [Next]_vars, NEW w \in Workers, NEW p \in Partitions, NEW hi \in 1 .. Len(Log[p]),
         StartBatch(w, p, hi)
  PROVE  JobCovers(job[w])'
<1> DEFINE prepared == Prepared(p, position[p] + 1, hi)
<1>1. TypeOK
  BY DEF IInv
<1>2. /\ job'[w].partition = p /\ job'[w].first = position[p] + 1 /\ job'[w].last = hi
      /\ job'[w].fresh = prepared /\ job'[w].pc # "persisted"
      /\ job'[w].pc = "resolved" => job'[w].fresh = {}
  BY <1>1, StartTypes
<1>3. position[p] \in Nat /\ hi \in Nat
  <2>1. Len(Log[p]) \in Nat
    OBVIOUS
  <2> QED
    BY <1>1, <2>1 DEF TypeOK
<1>4. \A o \in 1 .. position[p] : Covered(p, o)'
  BY CoveredStays DEF IInv, PositionCovered
<1>5. \A o \in position[p] + 1 .. hi : o \in prepared \/ Covered(p, o)'
  <2>1. position[p] + 1 \in Nat
    BY <1>3
  <2> QED
    BY <1>3, <2>1, PreparedInBatch DEF Covered
<1>6. (position[p] + 1) - 1 = position[p]
  BY <1>3
<1> QED
  BY <1>2, <1>4, <1>5, <1>6 DEF JobCovers

(* A step of a batch that leaves out only what is covered by then.         *)
LEMMA MoveCovers ==
  ASSUME [Next]_vars, NEW w \in Workers, JobCovers(job[w]), job[w].pc # "idle",
         job'[w].first = job[w].first, job'[w].last = job[w].last,
         job'[w].partition = job[w].partition,
         job'[w].pc = "resolved" => job'[w].fresh = {},
         \A o \in job[w].fresh :
            job[w].pc = "persisted" \/ Covered(job[w].partition, o)'
            \/ (o \in job'[w].fresh /\ job'[w].pc # "persisted")
  PROVE  JobCovers(job[w])'
<1>1. \A o \in 1 .. job[w].first - 1 : Covered(job[w].partition, o)'
  BY CoveredStays DEF JobCovers
<1>2. \A o \in job[w].first .. job[w].last :
         Covered(job[w].partition, o)' \/ (o \in job'[w].fresh /\ job'[w].pc # "persisted")
  BY CoveredStays DEF JobCovers
<1> QED
  BY <1>1, <1>2 DEF JobCovers

(* A batch that is resolved is covered up to its end.                      *)
LEMMA ResolvedCovers ==
  ASSUME IInv, [Next]_vars, NEW w \in Workers, job[w].pc = "resolved",
         NEW p, p = job[w].partition, NEW last, last = job[w].last
  PROVE  \A o \in 1 .. last : Covered(p, o)'
<1>1. IsJob(job[w]) /\ JobCovers(job[w])
  BY DEF IInv, TypeOK
<1>2. /\ \A o \in 1 .. job[w].first - 1 : Covered(p, o)
      /\ \A o \in job[w].first .. job[w].last : Covered(p, o)
  BY <1>1 DEF JobCovers
<1>3. \A o \in 1 .. last : o \in 1 .. job[w].first - 1 \/ o \in job[w].first .. job[w].last
  BY <1>1 DEF IsJob
<1> QED
  BY <1>2, <1>3, CoveredStays

(* The idle worker has no batch to cover.                                  *)
LEMMA IdleCovers ==
  ASSUME NEW w, job'[w] = Idle
  PROVE  JobCovers(job[w])'
BY IdleIsJob DEF JobCovers

(* Every step keeps the invariant.                                         *)
LEMMA InvariantStep == IInv /\ [Next]_vars => IInv'
<1> SUFFICES ASSUME IInv, [Next]_vars PROVE IInv'
  OBVIOUS
<1> USE DEF tables, offsets
<1>t. TypeOK /\ TypeOK'
  BY TypeStep DEF IInv
<1>j. \A v \in Workers : JobCovers(job[v])
  BY DEF IInv
<1> SUFFICES /\ \A p \in Partitions : /\ \A o \in 1 .. position'[p] : Covered(p, o)'
                                     /\ \A o \in 1 .. committed'[p] : Covered(p, o)'
             /\ \A v \in Workers : JobCovers(job[v])'
  BY <1>t, Assemble DEF IInv
<1>1. ASSUME NEW w \in Workers, NEW p \in Partitions, NEW hi \in 1 .. Len(Log[p]), StartBatch(w, p, hi)
      PROVE  /\ \A q \in Partitions : /\ \A o \in 1 .. position'[q] : Covered(q, o)'
                                      /\ \A o \in 1 .. committed'[q] : Covered(q, o)'
             /\ \A v \in Workers : JobCovers(job[v])'
  <2>1. JobCovers(job[w])'
    BY <1>1, StartCovers
  <2>2. \A v \in Workers \ {w} : job'[v] = job[v]
    BY <1>1, <1>t, StartTypes
  <2>3. UNCHANGED <<position, committed>>
    BY <1>1 DEF StartBatch
  <2> QED
    BY <2>1, <2>2, <2>3, <1>j, JobStays, OffsetsStay
<1>2. ASSUME NEW w \in Workers, Dedupe(w) \/ Lookup(w) \/ Persist(w)
      PROVE  /\ \A q \in Partitions : /\ \A o \in 1 .. position'[q] : Covered(q, o)'
                                      /\ \A o \in 1 .. committed'[q] : Covered(q, o)'
             /\ \A v \in Workers : JobCovers(job[v])'
  <2>1. /\ \A v \in Workers \ {w} : job'[v] = job[v]
        /\ job'[w].first = job[w].first /\ job'[w].last = job[w].last
        /\ job'[w].partition = job[w].partition /\ job[w].pc # "idle"
        /\ job'[w].pc = "resolved" => job'[w].fresh = {}
    BY <1>2, <1>t, StepJob
  <2>2. \A o \in job[w].fresh :
           Covered(job[w].partition, o)' \/ (o \in job'[w].fresh /\ job'[w].pc # "persisted")
    <3>1. CASE Persist(w)
      <4>1. \A o \in job[w].fresh : MessageAt(job[w].partition, o) \in Logged'
        BY <3>1, <1>t, PersistLogs
      <4> QED
        BY <4>1, <2>1 DEF Covered, MessageAt
    <3>2. CASE ~Persist(w)
      <4>1. /\ job'[w].pc # "persisted"
            /\ \A o \in job[w].fresh : o \in job'[w].fresh \/ MessageAt(job[w].partition, o) \in Logged
        BY <3>2, <1>2, <1>t, StepJob
      <4>2. \A o \in job[w].fresh : o \in job'[w].fresh \/ Covered(job[w].partition, o)
        BY <4>1 DEF Covered, MessageAt
      <4> QED
        BY <4>1, <4>2, <2>1, CoveredStays
    <3> QED
      BY <3>1, <3>2
  <2>3. JobCovers(job[w])'
    BY <2>1, <2>2, <1>j, MoveCovers
  <2>4. UNCHANGED <<position, committed>>
    BY <1>2 DEF Dedupe, Lookup, Persist
  <2> QED
    BY <2>1, <2>3, <2>4, <1>j, JobStays, OffsetsStay
<1>3. ASSUME NEW w \in Workers, PersistFails(w) \/ Publish(w)
      PROVE  /\ \A q \in Partitions : /\ \A o \in 1 .. position'[q] : Covered(q, o)'
                                      /\ \A o \in 1 .. committed'[q] : Covered(q, o)'
             /\ \A v \in Workers : JobCovers(job[v])'
  <2>1. PICK pc \in Phases \ {"idle"} : Finish(w, pc)
    BY <1>3 DEF PersistFails, Publish, Phases
  <2>2. /\ \A v \in Workers \ {w} : job'[v] = job[v]
        /\ job'[w].first = job[w].first /\ job'[w].last = job[w].last
        /\ job'[w].partition = job[w].partition
        /\ job'[w].pc = "resolved" /\ job'[w].fresh = {}
    BY <2>1, <1>t, FinishTypes
  <2>3. \A o \in job[w].fresh : job[w].pc = "persisted" \/ Covered(job[w].partition, o)'
    BY <1>3, <2>2 DEF PersistFails, Publish, Finish, Covered, MessageAt
  <2>4. job[w].pc # "idle"
    BY <2>1 DEF Finish
  <2>5. JobCovers(job[w])'
    BY <2>2, <2>3, <2>4, <1>j, MoveCovers
  <2>6. UNCHANGED <<position, committed>>
    BY <1>3 DEF PersistFails, Publish
  <2> QED
    BY <2>2, <2>5, <2>6, <1>j, JobStays, OffsetsStay
<1>4. ASSUME NEW w \in Workers, Commit(w)
      PROVE  /\ \A q \in Partitions : /\ \A o \in 1 .. position'[q] : Covered(q, o)'
                                      /\ \A o \in 1 .. committed'[q] : Covered(q, o)'
             /\ \A v \in Workers : JobCovers(job[v])'
  <2>1. Release(w) /\ job[w].pc = "resolved"
    BY <1>4 DEF Commit
  <2>2. job'[w] = Idle /\ \A v \in Workers \ {w} : job'[v] = job[v]
    BY <2>1, <1>t, ReleaseTypes
  <2>3. \A v \in Workers : JobCovers(job[v])'
    BY <2>2, <1>j, JobStays, IdleCovers
  <2>4. ASSUME NEW q \in Partitions
        PROVE  \/ position'[q] = position[q] /\ committed'[q] = committed[q]
               \/ q = job[w].partition /\ position'[q] = job[w].last /\ committed'[q] = job[w].last
    BY <1>4, <1>t DEF Commit, TypeOK
  <2>5. \A q \in Partitions : q = job[w].partition =>
           \A o \in 1 .. job[w].last : Covered(q, o)'
    <3>1. ASSUME NEW q, q = job[w].partition, NEW last, last = job[w].last
          PROVE  \A o \in 1 .. last : Covered(q, o)'
      BY <3>1, <2>1, ResolvedCovers
    <3> QED
      BY <3>1
  <2>6. ASSUME NEW q \in Partitions
        PROVE  /\ \A o \in 1 .. position'[q] : Covered(q, o)'
               /\ \A o \in 1 .. committed'[q] : Covered(q, o)'
    <3>1. CASE position'[q] = position[q] /\ committed'[q] = committed[q]
      BY <3>1, OffsetsStay
    <3>2. CASE q = job[w].partition /\ position'[q] = job[w].last /\ committed'[q] = job[w].last
      BY <3>2, <2>5
    <3> QED
      BY <3>1, <3>2, <2>4
  <2> QED
    BY <2>3, <2>6
<1>5. ASSUME NEW w \in Workers, QueryFails(w) \/ Crash(w)
      PROVE  /\ \A q \in Partitions : /\ \A o \in 1 .. position'[q] : Covered(q, o)'
                                      /\ \A o \in 1 .. committed'[q] : Covered(q, o)'
             /\ \A v \in Workers : JobCovers(job[v])'
  <2>1. Release(w) /\ UNCHANGED committed
    BY <1>5 DEF QueryFails, Crash
  <2>2. job'[w] = Idle /\ \A v \in Workers \ {w} : job'[v] = job[v]
    BY <2>1, <1>t, ReleaseTypes
  <2>3. \A v \in Workers : JobCovers(job[v])'
    BY <2>2, <1>j, JobStays, IdleCovers
  <2>4. \A q \in Partitions : position'[q] = position[q] \/ position'[q] = committed[q]
    BY <1>5, <1>t, RewindTypes DEF QueryFails, Crash
  <2> QED
    BY <2>1, <2>3, <2>4, OffsetsStay
<1>6. ASSUME NEW w \in Workers, Takeover(w)
      PROVE  /\ \A q \in Partitions : /\ \A o \in 1 .. position'[q] : Covered(q, o)'
                                      /\ \A o \in 1 .. committed'[q] : Covered(q, o)'
             /\ \A v \in Workers : JobCovers(job[v])'
  <2>1. UNCHANGED <<committed, job>>
    BY <1>6 DEF Takeover
  <2>2. \A q \in Partitions : position'[q] = position[q] \/ position'[q] = committed[q]
    BY <1>6, <1>t, RewindTypes DEF Takeover
  <2> QED
    BY <2>1, <2>2, <1>j, JobStays, OffsetsStay
<1>7. CASE UNCHANGED vars
  BY <1>7, <1>j, JobStays, OffsetsStay DEF vars
<1> QED
  BY <1>1, <1>2, <1>3, <1>4, <1>5, <1>6, <1>7 DEF Next

(* Before the first batch nothing is committed and nobody is at work.      *)
LEMMA InitCovers == Init => IInv
<1> SUFFICES ASSUME Init PROVE IInv
  OBVIOUS
<1>1. \A w \in Workers : JobCovers(job[w])
  BY IdleIsJob DEF Init, JobCovers
<1>2. \A p \in Partitions : position[p] = 0 /\ committed[p] = 0
  BY DEF Init
<1> QED
  BY <1>1, <1>2, InitTypes DEF IInv, PositionCovered, CommittedIsLogged

(* What is committed is projected: no order of batches, failed queries,    *)
(* crashes and takeovers commits an event that is neither in the log nor   *)
(* was given up with its transaction.                                      *)
THEOREM CommitsAreProjected == Spec => []CommittedIsLogged
<1>1. IInv => CommittedIsLogged
  BY DEF IInv
<1> QED
  BY <1>1, InitCovers, InvariantStep, PTL DEF Spec

-----------------------------------------------------------------------------
(* What holds at the start of a range of numbers, and for each of them     *)
(* after the one before it, holds for all of them.                         *)
LEMMA ClimbsThrough ==
  ASSUME NEW a \in Nat, NEW b \in Nat, NEW T, a \in T,
         \A n \in a + 1 .. b : n - 1 \in T => n \in T
  PROVE  a .. b \subseteq T
<1> DEFINE Missed == {n \in a .. b : n \notin T}
<1> SUFFICES ASSUME Missed # {} PROVE FALSE
  OBVIOUS
<1>1. PICK n \in Missed : \A k \in Missed : n <= k
  BY SmallestInSet, Missed \subseteq Nat
<1>2. n \in a + 1 .. b /\ n - 1 \in a .. b /\ n \notin T
  BY <1>1
<1>3. n - 1 \notin Missed
  BY <1>1, <1>2
<1> QED
  BY <1>2, <1>3

(* LastOf returns the greatest of offsets that have a bound.               *)
LEMMA LastIsGreatest ==
  ASSUME NEW T, T \subseteq Nat, T # {}, NEW b \in Nat, \A n \in T : n <= b
  PROVE  LastOf(T) \in T /\ \A n \in T : n <= LastOf(T)
<1> DEFINE Bounds == {k \in Nat : \A n \in T : n <= k}
<1>1. b \in Bounds
  OBVIOUS
<1>2. PICK k \in Bounds : \A i \in Bounds : k <= i
  BY <1>1, SmallestInSet, Bounds \subseteq Nat
<1>3. k \in T
  <2> SUFFICES ASSUME k \notin T PROVE FALSE
    OBVIOUS
  <2>9. k \in Nat /\ \A n \in T : n \in Nat /\ n <= k /\ n # k
    BY <1>2
  <2>1. \A n \in T : n <= k - 1
    BY <2>9
  <2>2. PICK n \in T : TRUE
    OBVIOUS
  <2>3. k - 1 \in Nat
    BY <2>9, <2>2
  <2> QED
    BY <1>2, <2>1, <2>3
<1> QED
  BY <1>2, <1>3 DEF LastOf

(* One turn of the loop over a batch: the statuses after offset o, from    *)
(* those after the offset before it.                                       *)
Turn(j, after, o) ==
  IF o < j.first THEN j.view
  ELSE IF o \notin j.fresh THEN after[o - 1]
  ELSE LET m == MessageAt(j.partition, o)
       IN [after[o - 1] EXCEPT ![SagaOf[m]] = NextStatus(HintOf[m], @)]

(* The loop can be run to the end of a batch.                              *)
LEMMA LoopRuns ==
  ASSUME NEW j, j.first \in Nat \ {0}, j.last \in Nat
  PROVE  \E g : g = [o \in j.first - 1 .. j.last |-> Turn(j, g, o)]
<1> DEFINE Runs(k) == \E g : g = [o \in j.first - 1 .. k |-> Turn(j, g, o)]
           Stuck == {k \in Nat : ~Runs(k)}
<1> SUFFICES ASSUME Stuck # {} PROVE FALSE
  OBVIOUS
<1>1. PICK k \in Stuck : \A i \in Stuck : k <= i
  BY SmallestInSet, Stuck \subseteq Nat
<1>2. CASE k < j.first
  <2> DEFINE g == [o \in j.first - 1 .. k |-> j.view]
  <2>1. \A o \in j.first - 1 .. k : o < j.first
    BY <1>2
  <2>2. g = [o \in j.first - 1 .. k |-> Turn(j, g, o)]
    BY <2>1 DEF Turn
  <2> QED
    BY <2>2, <1>1
<1>3. CASE k >= j.first
  <2>1. k - 1 \in Nat /\ k - 1 \notin Stuck
    <3>1. k \in Nat /\ k - 1 \in Nat /\ ~(k <= k - 1)
      BY <1>3
    <3> HIDE DEF Stuck
    <3> QED
      BY <1>1, <3>1
  <2>2. PICK g : g = [o \in j.first - 1 .. k - 1 |-> Turn(j, g, o)]
    BY <2>1
  <2> DEFINE h == [o \in j.first - 1 .. k |-> IF o = k THEN Turn(j, g, k) ELSE g[o]]
  <2>3. \A o \in j.first .. k : o - 1 \in j.first - 1 .. k - 1 /\ h[o - 1] = g[o - 1]
    BY <1>1, <1>3
  <2>4. \A o \in j.first - 1 .. k : Turn(j, h, o) = Turn(j, g, o)
    <3> TAKE o \in j.first - 1 .. k
    <3>1. CASE o < j.first
      BY <3>1 DEF Turn
    <3>2. CASE h[o - 1] = g[o - 1]
      <4> HIDE DEF h
      <4> QED
        BY <3>2 DEF Turn
    <3> QED
      BY <2>3, <3>1, <3>2
  <2>5. \A o \in j.first - 1 .. k : h[o] = Turn(j, h, o)
    <3> TAKE o \in j.first - 1 .. k
    <3>1. CASE o = k
      BY <3>1, <2>4
    <3>2. CASE o # k
      <4>1. o \in j.first - 1 .. k - 1
        BY <3>2, <1>1
      <4>2. h[o] = g[o] /\ g[o] = Turn(j, g, o)
        BY <2>2, <3>2, <4>1
      <4> QED
        BY <4>2, <2>4
    <3> QED
      BY <3>1, <3>2
  <2>6. h = [o \in j.first - 1 .. k |-> Turn(j, h, o)]
    <3>1. h = [o \in j.first - 1 .. k |-> h[o]]
      OBVIOUS
    <3> HIDE DEF h
    <3> QED
      BY <2>5, <3>1
  <2>7. Runs(k)
    BY <2>6
  <2> QED
    BY <2>7, <1>1
<1>4. k \in Nat /\ j.first \in Nat
  OBVIOUS
<1> QED
  BY <1>2, <1>3, <1>4

(* What DeriveChangesCommand computes is the run of its loop.              *)
LEMMA StatusesEquation ==
  ASSUME NEW j, j.first \in Nat \ {0}, j.last \in Nat
  PROVE  StatusesAfter(j) = [o \in j.first - 1 .. j.last |-> Turn(j, StatusesAfter(j), o)]
<1>1. PICK g : g = [o \in j.first - 1 .. j.last |-> Turn(j, g, o)]
  BY LoopRuns
<1> QED
  BY <1>1 DEF StatusesAfter, Turn

(* A batch whose new messages are of sagas, and whose view is of statuses. *)
Derivable(j) ==
  /\ j.first \in Nat \ {0} /\ j.last \in Nat /\ j.fresh \subseteq j.first .. j.last
  /\ \A o \in j.fresh : SagaOf[MessageAt(j.partition, o)] \in Sagas
  /\ j.view \in [Sagas -> Statuses \cup {NoView}]

(* The new messages of a saga.                                             *)
FreshOf(j, s) == {o \in j.fresh : SagaOf[MessageAt(j.partition, o)] = s}

(* The message that ends its saga.                                         *)
IsFinal(j, o) == HintOf[MessageAt(j.partition, o)] = "final"

(* The statuses before the first message are those of the view; each turn  *)
(* changes the status of the saga of a new message, and no other.          *)
LEMMA StatusTurns ==
  ASSUME NEW j, Derivable(j)
  PROVE  LET after == StatusesAfter(j)
         IN /\ j.first - 1 <= j.last => after[j.first - 1] = j.view
            /\ \A o \in j.first - 1 .. j.last : after[o] \in [Sagas -> Statuses \cup {NoView}]
            /\ \A o \in j.first .. j.last, s \in Sagas :
                  after[o][s] = IF o \in FreshOf(j, s)
                                THEN NextStatus(HintOf[MessageAt(j.partition, o)], after[o - 1][s])
                                ELSE after[o - 1][s]
<1> DEFINE after == StatusesAfter(j)
           Views == [Sagas -> Statuses \cup {NoView}]
           Typed == {o \in j.first - 1 .. j.last : after[o] \in Views}
<1>1. /\ j.first \in Nat /\ j.first - 1 \in Nat /\ j.last \in Nat
      /\ \A o \in j.first - 1 .. j.last : after[o] = Turn(j, after, o)
  BY StatusesEquation DEF Derivable
<1> HIDE DEF after
<1>2. j.first - 1 <= j.last => after[j.first - 1] = j.view
  <2> SUFFICES ASSUME j.first - 1 <= j.last PROVE after[j.first - 1] = j.view
    OBVIOUS
  <2>1. j.first - 1 \in j.first - 1 .. j.last /\ j.first - 1 < j.first
    BY <1>1
  <2> QED
    BY <1>1, <2>1 DEF Turn
<1>3. \A hint, current : NextStatus(hint, current) \in Statuses
  BY DEF NextStatus, Statuses
<1>4. ASSUME NEW o \in j.first .. j.last, after[o - 1] \in Views
      PROVE  /\ after[o] \in Views
             /\ \A s \in Sagas :
                   after[o][s] = IF o \in FreshOf(j, s)
                                 THEN NextStatus(HintOf[MessageAt(j.partition, o)], after[o - 1][s])
                                 ELSE after[o - 1][s]
  <2> DEFINE m == MessageAt(j.partition, o)
             prev == after[o - 1]
  <2>1. o \in j.first - 1 .. j.last /\ ~(o < j.first)
    BY <1>1
  <2>2. after[o] = Turn(j, after, o)
    BY <1>1, <2>1
  <2>3. CASE o \notin j.fresh
    <3>1. after[o] = prev
      BY <2>1, <2>2, <2>3 DEF Turn
    <3>2. \A s \in Sagas : o \notin FreshOf(j, s)
      BY <2>3 DEF FreshOf
    <3> QED
      BY <3>1, <3>2, <1>4
  <2>4. CASE o \in j.fresh
    <3>1. after[o] = [prev EXCEPT ![SagaOf[m]] = NextStatus(HintOf[m], prev[SagaOf[m]])]
      BY <2>1, <2>2, <2>4 DEF Turn
    <3>2. SagaOf[m] \in Sagas /\ prev \in Views
      BY <2>4, <1>4 DEF Derivable
    <3>3. \A s \in Sagas : o \in FreshOf(j, s) <=> s = SagaOf[m]
      BY <2>4 DEF FreshOf
    <3> HIDE DEF m, prev
    <3>4. after[o] \in Views
      BY <3>1, <3>2, <1>3
    <3>5. \A s \in Sagas : after[o][s] = IF s = SagaOf[m] THEN NextStatus(HintOf[m], prev[s]) ELSE prev[s]
      BY <3>1, <3>2
    <3> QED
      BY <3>3, <3>4, <3>5 DEF m, prev
  <2> QED
    BY <2>3, <2>4
<1>5. j.first - 1 .. j.last \subseteq Typed
  <2>1. CASE j.first - 1 <= j.last
    <3>1. j.first - 1 \in Typed
      BY <1>1, <1>2, <2>1 DEF Derivable
    <3>2. \A o \in (j.first - 1) + 1 .. j.last : o - 1 \in Typed => o \in Typed
      BY <1>1, <1>4
    <3> HIDE DEF Typed
    <3> QED
      BY <1>1, <3>1, <3>2, ClimbsThrough
  <2>2. CASE ~(j.first - 1 <= j.last)
    BY <1>1, <2>2
  <2> QED
    BY <2>1, <2>2
<1>6. \A o \in j.first .. j.last : o - 1 \in j.first - 1 .. j.last
  BY <1>1
<1> QED
  BY <1>2, <1>4, <1>5, <1>6 DEF after

(* A status that is derived says COMPLETED exactly if the view does or a   *)
(* final message came before.                                              *)
LEMMA CompletedByFinal ==
  ASSUME NEW j, Derivable(j), NEW s \in Sagas, NEW o \in j.first - 1 .. j.last
  PROVE  StatusesAfter(j)[o][s] = "COMPLETED" <=>
            \/ j.view[s] = "COMPLETED"
            \/ \E n \in FreshOf(j, s) : n <= o /\ IsFinal(j, n)
<1> DEFINE after == StatusesAfter(j)
           Done(k) == j.view[s] = "COMPLETED" \/ \E n \in FreshOf(j, s) : n <= k /\ IsFinal(j, n)
           Good == {k \in j.first - 1 .. j.last : after[k][s] = "COMPLETED" <=> Done(k)}
<1>1. j.first - 1 \in Nat /\ j.last \in Nat /\ j.first \in Nat /\ FreshOf(j, s) \subseteq j.first .. j.last
  BY DEF Derivable, FreshOf
<1>2. /\ after[j.first - 1] = j.view
      /\ \A k \in j.first .. j.last :
            after[k][s] = IF k \in FreshOf(j, s)
                          THEN NextStatus(HintOf[MessageAt(j.partition, k)], after[k - 1][s])
                          ELSE after[k - 1][s]
  BY <1>1, StatusTurns
<1> HIDE DEF after
<1>3. j.first - 1 \in Good
  BY <1>1, <1>2
<1>4. ASSUME NEW k \in (j.first - 1) + 1 .. j.last, k - 1 \in Good PROVE k \in Good
  <2>1. k \in j.first .. j.last /\ k \in j.first - 1 .. j.last
    BY <1>1, <1>4
  <2>2. Done(k) <=> Done(k - 1) \/ (k \in FreshOf(j, s) /\ IsFinal(j, k))
    BY <1>1, <2>1
  <2>3. after[k][s] = "COMPLETED" <=> after[k - 1][s] = "COMPLETED" \/ (k \in FreshOf(j, s) /\ IsFinal(j, k))
    BY <1>2, <2>1 DEF NextStatus, IsFinal
  <2> QED
    BY <1>4, <2>1, <2>2, <2>3
<1> HIDE DEF Good
<1>5. j.first - 1 .. j.last \subseteq Good
  BY <1>1, <1>3, <1>4, ClimbsThrough
<1> QED
  BY <1>5 DEF Good, after

(* Compensation that was read is not given up by what a batch derives.     *)
LEMMA CompensationStays ==
  ASSUME NEW j, Derivable(j), NEW s \in Sagas, NEW o \in j.first - 1 .. j.last,
         j.view[s] = "COMPENSATING"
  PROVE  StatusesAfter(j)[o][s] \in {"COMPENSATING", "COMPLETED"}
<1> DEFINE after == StatusesAfter(j)
           Good == {k \in j.first - 1 .. j.last : after[k][s] \in {"COMPENSATING", "COMPLETED"}}
<1>1. j.first - 1 \in Nat /\ j.last \in Nat /\ j.first \in Nat
  BY DEF Derivable
<1>2. /\ after[j.first - 1] = j.view
      /\ \A k \in j.first .. j.last :
            after[k][s] = IF k \in FreshOf(j, s)
                          THEN NextStatus(HintOf[MessageAt(j.partition, k)], after[k - 1][s])
                          ELSE after[k - 1][s]
  BY <1>1, StatusTurns
<1> HIDE DEF after
<1>3. j.first - 1 \in Good
  BY <1>1, <1>2
<1>4. ASSUME NEW k \in (j.first - 1) + 1 .. j.last, k - 1 \in Good PROVE k \in Good
  <2>1. k \in j.first .. j.last /\ k \in j.first - 1 .. j.last
    BY <1>1, <1>4
  <2> QED
    BY <1>2, <1>4, <2>1 DEF NextStatus
<1> HIDE DEF Good
<1>5. j.first - 1 .. j.last \subseteq Good
  BY <1>1, <1>3, <1>4, ClimbsThrough
<1> QED
  BY <1>5 DEF Good, after

-----------------------------------------------------------------------------
(* What can become of the batch of a worker in one step.                   *)
LEMMA JobSteps ==
  ASSUME TypeOK, [Next]_vars, NEW v \in Workers
  PROVE  \/ job'[v] = job[v]
         \/ job'[v] = Idle
         \/ job'[v] = Moved(job[v], "resolved", {}, Idle.view)
         \/ \E p \in Partitions : \E hi \in 1 .. Len(Log[p]) : StartBatch(v, p, hi)
         \/ Dedupe(v) \/ Lookup(v) \/ Persist(v)
<1> USE DEF tables, offsets
<1>t. job = [w \in Workers |-> job[w]]
  BY DEF TypeOK
<1>1. ASSUME NEW w \in Workers,
             \/ \E p \in Partitions : \E hi \in 1 .. Len(Log[p]) : StartBatch(w, p, hi)
             \/ Dedupe(w) \/ Lookup(w) \/ Persist(w)
      PROVE  w = v \/ job'[v] = job[v]
  BY <1>1, <1>t, StartTypes, StepJob
<1>2. ASSUME NEW w \in Workers, PersistFails(w) \/ Publish(w)
      PROVE  job'[v] = job[v] \/ job'[v] = Moved(job[v], "resolved", {}, Idle.view)
  <2>1. job' = [job EXCEPT ![w] = Moved(job[w], "resolved", {}, Idle.view)]
    BY <1>2 DEF PersistFails, Publish, Finish
  <2> HIDE DEF Idle
  <2> QED
    BY <2>1, <1>t
<1>3. ASSUME NEW w \in Workers, Commit(w) \/ QueryFails(w) \/ Crash(w)
      PROVE  job'[v] = job[v] \/ job'[v] = Idle
  <2>1. Release(w)
    BY <1>3 DEF Commit, QueryFails, Crash
  <2> QED
    BY <2>1, ReleaseTypes
<1>4. ASSUME NEW w \in Workers, Takeover(w) PROVE job'[v] = job[v]
  BY <1>4 DEF Takeover
<1>5. CASE UNCHANGED vars
  BY <1>5 DEF vars
<1> QED
  BY <1>1, <1>2, <1>3, <1>4, <1>5 DEF Next

(* Only Persist writes saga_state.                                         *)
LEMMA StateWriter ==
  ASSUME [Next]_vars
  PROVE  (\E w \in Workers : Persist(w)) \/ UNCHANGED <<sagaState, eventLog>>
<1> USE DEF tables, offsets
<1>1. ASSUME NEW w \in Workers,
             \/ \E p \in Partitions : \E hi \in 1 .. Len(Log[p]) : StartBatch(w, p, hi)
             \/ Dedupe(w) \/ Lookup(w) \/ PersistFails(w) \/ Publish(w) \/ Commit(w)
             \/ QueryFails(w) \/ Crash(w) \/ Takeover(w)
      PROVE  UNCHANGED <<sagaState, eventLog>>
  BY <1>1 DEF StartBatch, Dedupe, Lookup, PersistFails, Publish, Commit, QueryFails, Crash, Takeover
<1>2. CASE UNCHANGED vars
  BY <1>2 DEF vars
<1> QED
  BY <1>1, <1>2 DEF Next

(* The offsets that count for a saga.                                      *)
LEMMA CountedOffsets ==
  ASSUME NEW j, Derivable(j), NEW s \in Sagas
  PROVE  /\ Counted(j, s) = {o \in FreshOf(j, s) : StatusesAfter(j)[o - 1][s] # "COMPLETED"}
         /\ Counted(j, s) \subseteq j.first .. j.last
         /\ IsFiniteSet(Counted(j, s)) /\ Cardinality(Counted(j, s)) \in Nat
         /\ Counted(j, s) # {} =>
               /\ LastOf(Counted(j, s)) \in Counted(j, s)
               /\ \A o \in Counted(j, s) : o <= LastOf(Counted(j, s))
<1>1. Counted(j, s) = {o \in FreshOf(j, s) : StatusesAfter(j)[o - 1][s] # "COMPLETED"}
  BY DEF Counted, FreshOf
<1>2. Counted(j, s) \subseteq j.first .. j.last /\ j.first \in Nat /\ j.last \in Nat
  BY <1>1 DEF Derivable, FreshOf
<1> HIDE DEF Counted
<1>3. IsFiniteSet(Counted(j, s)) /\ Cardinality(Counted(j, s)) \in Nat
  <2>1. IsFiniteSet(j.first .. j.last)
    BY <1>2, FS_Interval
  <2>2. IsFiniteSet(Counted(j, s))
    BY <1>2, <2>1, FS_Subset
  <2> QED
    BY <2>2, FS_CardinalityType
<1>4. Counted(j, s) \subseteq Nat /\ \A o \in Counted(j, s) : o <= j.last
  BY <1>2
<1> QED
  BY <1>1, <1>2, <1>3, <1>4, LastIsGreatest

(* The rows of saga_state, and what a batch knows: its new messages are of *)
(* sagas, and a saga that was COMPLETED when it was read still is.         *)
StatesOK ==
  /\ sagaState = [s \in Sagas |-> sagaState[s]]
  /\ \A s \in Sagas : sagaState[s].status \in Statuses \cup {NoView} /\ sagaState[s].count \in Nat

JobReads(j) ==
  /\ \A o \in j.fresh : SagaOf[MessageAt(j.partition, o)] \in Sagas
  /\ j.view \in [Sagas -> Statuses \cup {NoView}]

ViewHolds(j) == \A s \in Sagas : j.view[s] = "COMPLETED" => sagaState[s].status = "COMPLETED"

ReadInv ==
  /\ TypeOK /\ StatesOK
  /\ \A w \in Workers : JobReads(job[w]) /\ ViewHolds(job[w])

(* In the invariant every batch is one that the loop can be run over.      *)
LEMMA JobsDerivable == ASSUME ReadInv, NEW w \in Workers PROVE Derivable(job[w])
<1>1. IsJob(job[w]) /\ JobReads(job[w])
  BY DEF ReadInv, TypeOK
<1> QED
  BY <1>1 DEF IsJob, JobReads, Derivable

(* What a transaction makes of the row of a saga.                          *)
LEMMA PersistRow ==
  ASSUME ReadInv, NEW w \in Workers, Persist(w), NEW s \in Sagas
  PROVE  /\ Counted(job[w], s) = {} => sagaState'[s] = sagaState[s]
         /\ Counted(job[w], s) # {} =>
               LET o   == LastOf(Counted(job[w], s))
                   new == StatusesAfter(job[w])[o][s]
                   old == sagaState[s]
               IN /\ sagaState'[s].status = IF old.status = "COMPLETED" THEN old.status ELSE new
                  /\ sagaState'[s].ended = IF new = "COMPLETED" THEN MessageAt(job[w].partition, o)
                                           ELSE IF old.status = "COMPLETED" THEN old.ended ELSE "none"
                  /\ sagaState'[s].count = old.count + Cardinality(Counted(job[w], s))
                  /\ o \in Counted(job[w], s) /\ o \in job[w].first .. job[w].last
                  /\ new \in Statuses \cup {NoView}
<1>1. sagaState'[s] = IF Counted(job[w], s) = {} THEN sagaState[s] ELSE Upserted(job[w], s)
  BY DEF Persist
<1>2. Derivable(job[w])
  BY JobsDerivable
<1>3. Counted(job[w], s) # {} => /\ LastOf(Counted(job[w], s)) \in Counted(job[w], s)
                                 /\ LastOf(Counted(job[w], s)) \in job[w].first .. job[w].last
  BY <1>2, CountedOffsets
<1>4. \A o \in job[w].first .. job[w].last : StatusesAfter(job[w])[o][s] \in Statuses \cup {NoView}
  <2>1. \A o \in job[w].first .. job[w].last : o \in job[w].first - 1 .. job[w].last
    BY <1>2 DEF Derivable
  <2> QED
    BY <1>2, <2>1, StatusTurns
<1> QED
  BY <1>1, <1>3, <1>4 DEF Upserted

(* The rows keep their types, and COMPLETED is for good.                   *)
LEMMA StatesStep ==
  ASSUME ReadInv, [Next]_vars
  PROVE  /\ StatesOK'
         /\ \A s \in Sagas : sagaState[s].status = "COMPLETED" => sagaState'[s].status = "COMPLETED"
<1>1. CASE UNCHANGED sagaState
  BY <1>1 DEF ReadInv, StatesOK
<1>2. ASSUME NEW w \in Workers, Persist(w)
      PROVE  /\ StatesOK'
             /\ \A s \in Sagas : sagaState[s].status = "COMPLETED" => sagaState'[s].status = "COMPLETED"
  <2>1. sagaState' = [s \in Sagas |-> sagaState'[s]]
    BY <1>2 DEF Persist
  <2>2. ASSUME NEW s \in Sagas
        PROVE  /\ sagaState'[s].status \in Statuses \cup {NoView} /\ sagaState'[s].count \in Nat
               /\ sagaState[s].status = "COMPLETED" => sagaState'[s].status = "COMPLETED"
    <3>1. sagaState[s].status \in Statuses \cup {NoView} /\ sagaState[s].count \in Nat
      BY DEF ReadInv, StatesOK
    <3>2. CASE Counted(job[w], s) = {}
      BY <1>2, <3>1, <3>2, PersistRow
    <3>3. CASE Counted(job[w], s) # {}
      <4>1. Cardinality(Counted(job[w], s)) \in Nat
        BY JobsDerivable, CountedOffsets
      <4>2. sagaState'[s].count = sagaState[s].count + Cardinality(Counted(job[w], s))
        BY <1>2, <3>3, PersistRow
      <4>3. \/ sagaState'[s].status = sagaState[s].status
            \/ sagaState[s].status # "COMPLETED" /\ sagaState'[s].status \in Statuses \cup {NoView}
        BY <1>2, <3>3, PersistRow
      <4> QED
        BY <3>1, <4>1, <4>2, <4>3
    <3> QED
      BY <3>2, <3>3
  <2> QED
    BY <2>1, <2>2 DEF StatesOK
<1> QED
  BY <1>1, <1>2, StateWriter

(* What batches know is inductive.                                         *)
LEMMA ReadStep == ReadInv /\ [Next]_vars => ReadInv'
<1> SUFFICES ASSUME ReadInv, [Next]_vars PROVE ReadInv'
  OBVIOUS
<1>t. TypeOK /\ TypeOK'
  BY TypeStep DEF ReadInv
<1>s. /\ StatesOK'
      /\ \A s \in Sagas : sagaState[s].status = "COMPLETED" => sagaState'[s].status = "COMPLETED"
  BY StatesStep
<1>i. /\ Idle.fresh = {} /\ Idle.view \in [Sagas -> Statuses \cup {NoView}]
      /\ \A s \in Sagas : Idle.view[s] # "COMPLETED"
  BY DEF Idle, NoView, NoRow
<1> HIDE DEF Idle
<1> SUFFICES ASSUME NEW v \in Workers PROVE JobReads(job'[v]) /\ ViewHolds(job[v])'
  BY <1>t, <1>s DEF ReadInv, JobReads
<1>j. JobReads(job[v]) /\ ViewHolds(job[v]) /\ IsJob(job[v])
  BY DEF ReadInv, TypeOK
<1>1. CASE job'[v] = job[v]
  BY <1>1, <1>j, <1>s DEF JobReads, ViewHolds
<1>2. CASE job'[v] = Idle
  BY <1>2, <1>i DEF JobReads, ViewHolds
<1>3. CASE job'[v] = Moved(job[v], "resolved", {}, Idle.view)
  BY <1>3, <1>i DEF JobReads, ViewHolds, Moved
<1>4. ASSUME NEW p \in Partitions, NEW hi \in 1 .. Len(Log[p]), StartBatch(v, p, hi)
      PROVE  JobReads(job'[v]) /\ ViewHolds(job[v])'
  <2>1. job'[v].partition = p /\ job'[v].fresh = Prepared(p, position[p] + 1, hi)
    BY <1>4, <1>t, StartTypes
  <2>2. job'[v].view = Idle.view
    BY <1>4, <1>t DEF StartBatch, TypeOK
  <2>3. \A o \in Prepared(p, position[p] + 1, hi) : SagaOf[MessageAt(p, o)] \in Sagas
    <3>0. Len(Log[p]) \in Nat /\ Log[p] \in Seq(Messages)
      OBVIOUS
    <3>1. position[p] \in Nat /\ hi \in Nat /\ hi <= Len(Log[p])
      BY <3>0, <1>t DEF TypeOK
    <3>2. \A o \in position[p] + 1 .. hi : MessageAt(p, o) \in Messages
      BY <3>0, <3>1 DEF MessageAt
    <3>3. \A o \in Prepared(p, position[p] + 1, hi) :
             o \in position[p] + 1 .. hi /\ SagaOf[MessageAt(p, o)] # NoSaga
      BY DEF Prepared
    <3>4. \A m \in Messages : SagaOf[m] \in Sagas \cup {NoSaga}
      OBVIOUS
    <3> QED
      BY <3>2, <3>3, <3>4
  <2> QED
    BY <2>1, <2>2, <2>3, <1>i DEF JobReads, ViewHolds
<1>5. CASE Dedupe(v)
  <2>1. /\ job'[v].fresh \subseteq job[v].fresh /\ job'[v].view = Idle.view
        /\ job'[v].partition = job[v].partition
    BY <1>5, <1>t DEF Dedupe, TypeOK, Moved
  <2> QED
    BY <2>1, <1>i, <1>j DEF JobReads, ViewHolds
<1>6. CASE Lookup(v)
  <2> DEFINE asked == {SagaOf[MessageAt(job[v].partition, o)] : o \in job[v].fresh}
             view == [s \in Sagas |-> IF s \in asked THEN sagaState[s].status ELSE NoView]
  <2>1. /\ job'[v].fresh = job[v].fresh /\ job'[v].view = view
        /\ job'[v].partition = job[v].partition
    BY <1>6, <1>t DEF Lookup, TypeOK, Moved
  <2>2. view \in [Sagas -> Statuses \cup {NoView}]
    BY DEF ReadInv, StatesOK
  <2>3. \A s \in Sagas : view[s] = "COMPLETED" => sagaState[s].status = "COMPLETED"
    BY DEF NoView, NoRow
  <2> HIDE DEF view
  <2> QED
    BY <2>1, <2>2, <2>3, <1>j, <1>s DEF JobReads, ViewHolds
<1>7. CASE Persist(v)
  <2>1. job'[v].fresh = job[v].fresh /\ job'[v].view = job[v].view /\ job'[v].partition = job[v].partition
    BY <1>7, <1>t DEF Persist, TypeOK, Moved
  <2> QED
    BY <2>1, <1>j, <1>s DEF JobReads, ViewHolds
<1> QED
  BY <1>t, <1>1, <1>2, <1>3, <1>4, <1>5, <1>6, <1>7, JobSteps

(* Nobody has read anything at the start.                                  *)
LEMMA ReadInit == Init => ReadInv
<1> SUFFICES ASSUME Init PROVE ReadInv
  OBVIOUS
<1>1. \A w \in Workers : job[w] = Idle
  <2> HIDE DEF Idle
  <2> QED
    BY DEF Init
<1>2. /\ Idle.fresh = {} /\ Idle.view \in [Sagas -> Statuses \cup {NoView}]
      /\ \A s \in Sagas : Idle.view[s] # "COMPLETED"
  BY DEF Idle, NoView, NoRow
<1>3. StatesOK
  BY DEF Init, StatesOK, NoRow, NoView
<1> QED
  BY <1>1, <1>2, <1>3, InitTypes DEF ReadInv, JobReads, ViewHolds

(* Compensation is given up only by a batch that had read something else,  *)
(* for every log, number of workers and sequence of failures.              *)
THEOREM RegressionNeedsRace == Spec => RegressNeedsRace
<1>1. ASSUME ReadInv, [Next]_vars, NEW s \in Sagas,
             sagaState[s].status = "COMPENSATING", sagaState'[s].status = "RUNNING"
      PROVE  \E w \in Workers : /\ job[w].pc = "derived" /\ job'[w].pc = "persisted"
                                /\ job[w].view[s] # "COMPENSATING"
  <2>1. PICK w \in Workers : Persist(w)
    BY <1>1, StateWriter
  <2>2. job[w].pc = "derived" /\ job'[w].pc = "persisted"
    BY <1>1, <2>1 DEF Persist, ReadInv, TypeOK, Moved
  <2>3. job[w].view[s] # "COMPENSATING"
    <3> SUFFICES ASSUME job[w].view[s] = "COMPENSATING" PROVE FALSE
      OBVIOUS
    <3> DEFINE o == LastOf(Counted(job[w], s))
    <3>1. Counted(job[w], s) # {}
      BY <1>1, <2>1, PersistRow
    <3>2. sagaState'[s].status = StatusesAfter(job[w])[o][s] /\ o \in job[w].first .. job[w].last
      BY <1>1, <2>1, <3>1, PersistRow
    <3> HIDE DEF o
    <3>3. Derivable(job[w]) /\ o \in job[w].first - 1 .. job[w].last
      BY <1>1, <3>2, JobsDerivable DEF Derivable
    <3> QED
      BY <1>1, <3>2, <3>3, CompensationStays
  <2> QED
    BY <2>2, <2>3
<1>2. ReadInv /\ [Next]_vars =>
        [\A s \in Sagas :
          sagaState[s].status = "COMPENSATING" /\ sagaState'[s].status = "RUNNING" =>
              \E w \in Workers : /\ job[w].pc = "derived" /\ job'[w].pc = "persisted"
                                 /\ job[w].view[s] # "COMPENSATING"]_vars
  BY <1>1
<1> QED
  BY <1>2, ReadInit, ReadStep, PTL DEF Spec, RegressNeedsRace

-----------------------------------------------------------------------------
(* The final events of a saga that are in the log.                         *)
Finals(s) == {m \in Logged : SagaOf[m] = s /\ HintOf[m] = "final"}

(* What CompletedIsLogged says of one saga.                                *)
EndIsLogged(s) ==
  /\ sagaState[s].status = "COMPLETED" <=> Finals(s) # {}
  /\ sagaState[s].status = "COMPLETED" => sagaState[s].ended \in Finals(s)
  /\ sagaState[s].status # "COMPLETED" => sagaState[s].ended = "none"

(* CompletedIsLogged, saga by saga, before and after a step.               *)
LEMMA EndsLogged ==
  /\ CompletedIsLogged <=> \A s \in Sagas : EndIsLogged(s)
  /\ CompletedIsLogged' <=> \A s \in Sagas : EndIsLogged(s)'
<1>1. \A s \in Sagas : Finals(s) = {row.event : row \in {r \in RowsOf(s) : HintOf[r.event] = "final"}}
  BY DEF Finals, RowsOf, Logged
<1>2. \A s \in Sagas : Finals(s)' = {row.event : row \in {r \in RowsOf(s)' : HintOf[r.event] = "final"}}
  BY DEF Finals, RowsOf, Logged
<1> QED
  BY <1>1, <1>2 DEF CompletedIsLogged, EndIsLogged

(* A row is of a new message of its batch.                                 *)
LEMMA RowsAreFresh ==
  ASSUME NEW j, NEW row \in LogRows(j)
  PROVE  \E o \in j.fresh : row.event = MessageAt(j.partition, o)
BY DEF LogRows

(* A transaction logs the final messages of its batch.                     *)
LEMMA PersistFinals ==
  ASSUME TypeOK, NEW w \in Workers, Persist(w), NEW s
  PROVE  /\ \A m \in Finals(s)' : m \in Finals(s) \/ \E o \in FreshOf(job[w], s) :
                                      IsFinal(job[w], o) /\ m = MessageAt(job[w].partition, o)
         /\ Finals(s) \subseteq Finals(s)'
         /\ \A o \in FreshOf(job[w], s) :
               IsFinal(job[w], o) => MessageAt(job[w].partition, o) \in Finals(s)'
<1>1. eventLog' = eventLog \cup {row \in LogRows(job[w]) : row.event \notin Logged}
  BY DEF Persist, BulkInsert
<1>2. \A m \in Logged' : m \in Logged \/ \E o \in job[w].fresh : m = MessageAt(job[w].partition, o)
  BY <1>1, RowsAreFresh DEF Logged
<1>3. Logged \subseteq Logged' /\ \A o \in job[w].fresh : MessageAt(job[w].partition, o) \in Logged'
  BY <1>1, PersistLogs DEF Logged
<1> QED
  BY <1>2, <1>3 DEF Finals, FreshOf, IsFinal

(* A batch with a final message of a saga that was not completed when it   *)
(* was read counts the first of them.                                      *)
LEMMA FirstFinalCounts ==
  ASSUME NEW j, Derivable(j), NEW s \in Sagas, j.view[s] # "COMPLETED",
         NEW o \in FreshOf(j, s), IsFinal(j, o)
  PROVE  \E n \in Counted(j, s) : IsFinal(j, n)
<1> DEFINE Ends == {n \in FreshOf(j, s) : IsFinal(j, n)}
<1>1. Ends \subseteq j.first .. j.last /\ o \in Ends /\ j.first \in Nat \ {0} /\ j.last \in Nat
  BY DEF Derivable, FreshOf
<1>2. PICK n \in Ends : \A k \in Ends : n <= k
  BY <1>1, SmallestInSet, Ends \subseteq Nat, Ends # {}
<1>3. n - 1 \in j.first - 1 .. j.last /\ ~ \E k \in Ends : k <= n - 1
  BY <1>1, <1>2
<1>4. StatusesAfter(j)[n - 1][s] # "COMPLETED"
  BY <1>3, CompletedByFinal
<1> QED
  BY <1>2, <1>4, CountedOffsets

(* A batch that counts nothing for a saga has read it as completed, if it  *)
(* has new messages of it.                                                 *)
LEMMA NoneCounted ==
  ASSUME NEW j, Derivable(j), NEW s \in Sagas, Counted(j, s) = {}, NEW o \in FreshOf(j, s)
  PROVE  j.view[s] = "COMPLETED"
<1>1. FreshOf(j, s) \subseteq j.first .. j.last /\ j.first \in Nat \ {0} /\ j.last \in Nat
  BY DEF Derivable, FreshOf
<1>2. PICK n \in FreshOf(j, s) : \A k \in FreshOf(j, s) : n <= k
  BY <1>1, SmallestInSet, FreshOf(j, s) \subseteq Nat, FreshOf(j, s) # {}
<1>3. n - 1 \in j.first - 1 .. j.last /\ ~ \E k \in FreshOf(j, s) : k <= n - 1
  BY <1>1, <1>2
<1>4. StatusesAfter(j)[n - 1][s] = "COMPLETED"
  BY CountedOffsets
<1> QED
  BY <1>3, <1>4, CompletedByFinal

(* The status that a batch writes is COMPLETED if it has a final message   *)
(* that counts, and then its last one that counts is final.                *)
LEMMA LastDecides ==
  ASSUME NEW j, Derivable(j), NEW s \in Sagas, Counted(j, s) # {}
  PROVE  LET o == LastOf(Counted(j, s))
         IN /\ StatusesAfter(j)[o][s] = "COMPLETED" <=> IsFinal(j, o)
            /\ (\E n \in Counted(j, s) : IsFinal(j, n)) => IsFinal(j, o)
            /\ o \in FreshOf(j, s)
<1> DEFINE o == LastOf(Counted(j, s))
<1>1. /\ o \in Counted(j, s) /\ \A n \in Counted(j, s) : n <= o
      /\ Counted(j, s) \subseteq j.first .. j.last
      /\ \A n \in Counted(j, s) : n \in FreshOf(j, s) /\ StatusesAfter(j)[n - 1][s] # "COMPLETED"
  BY CountedOffsets
<1> HIDE DEF o
<1>2. o \in j.first .. j.last /\ o \in j.first - 1 .. j.last
  BY <1>1 DEF Derivable
<1>3. StatusesAfter(j)[o][s] = NextStatus(HintOf[MessageAt(j.partition, o)], StatusesAfter(j)[o - 1][s])
  BY <1>1, <1>2, StatusTurns
<1>4. StatusesAfter(j)[o][s] = "COMPLETED" <=> IsFinal(j, o)
  BY <1>1, <1>3 DEF NextStatus, IsFinal
<1>5. ASSUME NEW n \in Counted(j, s), IsFinal(j, n) PROVE StatusesAfter(j)[o][s] = "COMPLETED"
  BY <1>1, <1>2, <1>5, CompletedByFinal
<1> QED
  BY <1>1, <1>4, <1>5 DEF o

(* The two tables agree on completion after a transaction.                 *)
LEMMA EndPersists ==
  ASSUME ReadInv, NEW w \in Workers, Persist(w), NEW s \in Sagas, EndIsLogged(s)
  PROVE  EndIsLogged(s)'
<1> DEFINE j == job[w]
           o == LastOf(Counted(j, s))
           m == MessageAt(j.partition, o)
           new == StatusesAfter(j)[o][s]
<1>1. Derivable(j) /\ TypeOK /\ ViewHolds(j)
  BY JobsDerivable DEF ReadInv
<1>2. /\ \A e \in Finals(s)' : e \in Finals(s) \/ \E n \in FreshOf(j, s) : IsFinal(j, n)
      /\ Finals(s) \subseteq Finals(s)'
      /\ \A n \in FreshOf(j, s) : IsFinal(j, n) => MessageAt(j.partition, n) \in Finals(s)'
  BY <1>1, PersistFinals
<1>3. CASE Counted(j, s) = {}
  <2>1. sagaState'[s] = sagaState[s]
    BY <1>3, PersistRow
  <2>2. \A n \in FreshOf(j, s) : sagaState[s].status = "COMPLETED"
    BY <1>1, <1>3, NoneCounted DEF ViewHolds
  <2> QED
    BY <1>2, <2>1, <2>2 DEF EndIsLogged
<1>4. CASE Counted(j, s) # {}
  <2>1. /\ sagaState'[s].status = IF sagaState[s].status = "COMPLETED" THEN sagaState[s].status ELSE new
        /\ sagaState'[s].ended = IF new = "COMPLETED" THEN m
                                 ELSE IF sagaState[s].status = "COMPLETED" THEN sagaState[s].ended ELSE "none"
    BY <1>4, PersistRow
  <2>2. /\ new = "COMPLETED" <=> IsFinal(j, o)
        /\ (\E n \in Counted(j, s) : IsFinal(j, n)) => IsFinal(j, o)
        /\ o \in FreshOf(j, s)
    BY <1>1, <1>4, LastDecides
  <2>3. new = "COMPLETED" => m \in Finals(s)'
    BY <1>2, <2>2
  <2>4. sagaState[s].status # "COMPLETED" /\ (\E n \in FreshOf(j, s) : IsFinal(j, n)) => new = "COMPLETED"
    BY <1>1, <2>2, FirstFinalCounts DEF ViewHolds
  <2> HIDE DEF j, o, m, new
  <2> QED
    BY <1>2, <2>1, <2>3, <2>4 DEF EndIsLogged
<1> QED
  BY <1>3, <1>4

(* The empty tables agree.                                                 *)
LEMMA InitAgrees == Init => CompletedIsLogged
<1> SUFFICES ASSUME Init, NEW s \in Sagas PROVE EndIsLogged(s)
  BY EndsLogged
<1>1. sagaState[s].status = "none" /\ sagaState[s].ended = "none" /\ eventLog = {}
  BY DEF Init, NoRow
<1> QED
  BY <1>1 DEF EndIsLogged, Finals, Logged

(* CompletedIsLogged is inductive, given what the batches know.            *)
LEMMA AgreesStep == ReadInv /\ CompletedIsLogged /\ [Next]_vars => CompletedIsLogged'
<1> SUFFICES ASSUME ReadInv, CompletedIsLogged, [Next]_vars, NEW s \in Sagas
             PROVE  EndIsLogged(s)'
  BY EndsLogged
<1>1. EndIsLogged(s)
  BY EndsLogged
<1>2. CASE UNCHANGED <<sagaState, eventLog>>
  BY <1>1, <1>2 DEF EndIsLogged, Finals, Logged
<1> QED
  BY <1>1, <1>2, EndPersists, StateWriter

(* A saga is COMPLETED exactly when a final event of it is in the log, and *)
(* its end is one, for every log, number of workers and failures.          *)
THEOREM CompletionIsLogged == Spec => []CompletedIsLogged
<1> QED
  BY InitAgrees, AgreesStep, ReadInit, ReadStep, PTL DEF Spec

-----------------------------------------------------------------------------
(* What a worker has while no partition ever had two of them: it is the    *)
(* one that the group knows, and what it found missing in the log still is.*)
Owned(w) == job[w].pc # "idle" => owner[job[w].partition] = w

Unlogged(w) ==
  job[w].pc \in {"deduped", "derived"} =>
    \A o \in job[w].fresh : MessageAt(job[w].partition, o) \notin Logged

AloneInv == ~raced => \A w \in Workers : Owned(w) /\ (NoDuplicates => Unlogged(w))

(* Without takeovers, no other worker is given the partition of a worker   *)
(* that is at a batch.                                                     *)
LEMMA OwnedStep ==
  ASSUME TypeOK, [Next]_vars, ~raced', \A w \in Workers : Owned(w), NEW v \in Workers
  PROVE  Owned(v)'
<1> USE DEF tables, offsets
<1>t. /\ job = [w \in Workers |-> job[w]] /\ owner \in [Partitions -> Workers \cup {NoWorker}]
      /\ job[v].pc # "idle" => job[v].partition \in Partitions
  BY DEF TypeOK, IsJob
<1>1. ASSUME NEW w \in Workers, NEW p \in Partitions, NEW hi \in 1 .. Len(Log[p]), StartBatch(w, p, hi)
      PROVE  Owned(v)'
  <2>1. owner[p] = NoWorker /\ owner' = [owner EXCEPT ![p] = w]
    BY <1>1 DEF StartBatch
  <2>2. job'[w].partition = p /\ (v # w => job'[v] = job[v])
    BY <1>1, StartTypes
  <2>3. CASE v = w
    BY <2>1, <2>2, <2>3, <1>t DEF Owned
  <2>4. CASE v # w
    BY <2>1, <2>2, <2>4, <1>t DEF Owned
  <2> QED
    BY <2>3, <2>4
<1>2. ASSUME NEW w \in Workers, Dedupe(w) \/ Lookup(w) \/ Persist(w)
      PROVE  Owned(v)'
  <2>1. /\ job'[w].partition = job[w].partition /\ job[w].pc # "idle"
        /\ v # w => job'[v] = job[v]
    BY <1>2, StepJob
  <2>2. UNCHANGED owner
    BY <1>2 DEF Dedupe, Lookup, Persist
  <2> QED
    BY <2>1, <2>2 DEF Owned
<1>3. ASSUME NEW w \in Workers, PersistFails(w) \/ Publish(w)
      PROVE  Owned(v)'
  <2>1. PICK pc \in Phases \ {"idle"} : Finish(w, pc)
    BY <1>3 DEF PersistFails, Publish, Phases
  <2>2. job'[w].partition = job[w].partition /\ (v # w => job'[v] = job[v]) /\ job[w].pc # "idle"
    BY <2>1, FinishTypes DEF Finish
  <2>3. UNCHANGED owner
    BY <1>3 DEF PersistFails, Publish
  <2> QED
    BY <2>2, <2>3 DEF Owned
<1>4. ASSUME NEW w \in Workers, Commit(w) \/ QueryFails(w) \/ Crash(w)
      PROVE  Owned(v)'
  <2>1. Release(w)
    BY <1>4 DEF Commit, QueryFails, Crash
  <2>2. job'[w] = Idle /\ (v # w => job'[v] = job[v])
    BY <2>1, ReleaseTypes
  <2>3. CASE v = w
    BY <2>2, <2>3, IdleIsJob DEF Owned
  <2>4. CASE v # w
    <3>1. job[v].pc # "idle" => owner[job[v].partition] = v /\ job[v].partition \in Partitions
      BY <1>t DEF Owned
    <3>2. job[v].pc # "idle" => owner'[job[v].partition] = v
      BY <2>1, <2>4, <3>1, <1>t DEF Release, Owns
    <3> QED
      BY <2>2, <2>4, <3>2 DEF Owned
  <2> QED
    BY <2>3, <2>4
<1>5. ASSUME NEW w \in Workers, Takeover(w) PROVE FALSE
  BY <1>5 DEF Takeover
<1>6. CASE UNCHANGED vars
  BY <1>6 DEF vars, Owned
<1> QED
  BY <1>1, <1>2, <1>3, <1>4, <1>5, <1>6 DEF Next

(* An offset of a batch is one of its partition.                           *)
LEMMA FreshInLog ==
  ASSUME TypeOK, NEW w \in Workers, job[w].pc # "idle", NEW o \in job[w].fresh
  PROVE  job[w].partition \in Partitions /\ o \in 1 .. Len(Log[job[w].partition])
<1>1. IsJob(job[w])
  BY DEF TypeOK
<1>2. job[w].partition \in Partitions
  BY <1>1 DEF IsJob
<1>3. Len(Log[job[w].partition]) \in Nat
  BY <1>2
<1> QED
  BY <1>1, <1>2, <1>3 DEF IsJob

(* So nobody else writes what a worker found missing, if every event is    *)
(* sent once.                                                              *)
LEMMA UnloggedStep ==
  ASSUME TypeOK, [Next]_vars, NoDuplicates,
         \A w \in Workers : Owned(w) /\ Unlogged(w), NEW v \in Workers
  PROVE  Unlogged(v)'
<1> USE DEF tables, offsets
<1>t. job = [w \in Workers |-> job[w]]
  BY DEF TypeOK
<1>1. CASE job'[v] = job[v]
  <2>1. CASE UNCHANGED eventLog
    BY <1>1, <2>1 DEF Unlogged, Logged
  <2>2. ASSUME NEW w \in Workers, Persist(w) PROVE Unlogged(v)'
    <3>1. job[w].pc = "derived" /\ job'[w].pc = "persisted"
      BY <2>2, <1>t DEF Persist, Moved
    <3>2. CASE v = w
      BY <3>1, <3>2 DEF Unlogged
    <3>3. CASE v # w /\ job[v].pc \in {"deduped", "derived"}
      <4>1. job[v].partition # job[w].partition
        BY <3>1, <3>3 DEF Owned
      <4>2. eventLog' = eventLog \cup {row \in LogRows(job[w]) : row.event \notin Logged}
        BY <2>2 DEF Persist, BulkInsert
      <4>3. \A m \in Logged' : m \in Logged \/ \E n \in job[w].fresh : m = MessageAt(job[w].partition, n)
        BY <4>2, RowsAreFresh DEF Logged
      <4>4. ASSUME NEW o \in job[v].fresh, NEW n \in job[w].fresh
            PROVE  MessageAt(job[v].partition, o) # MessageAt(job[w].partition, n)
        <5>1. /\ job[v].partition \in Partitions /\ o \in 1 .. Len(Log[job[v].partition])
              /\ job[w].partition \in Partitions /\ n \in 1 .. Len(Log[job[w].partition])
          BY <3>1, <3>3, FreshInLog
        <5> QED
          BY <4>1, <5>1 DEF NoDuplicates, MessageAt
      <4>5. \A o \in job[v].fresh : MessageAt(job[v].partition, o) \notin Logged
        BY <3>3 DEF Unlogged
      <4> QED
        BY <1>1, <4>3, <4>4, <4>5 DEF Unlogged
    <3>4. CASE job[v].pc \notin {"deduped", "derived"}
      BY <1>1, <3>4 DEF Unlogged
    <3> QED
      BY <3>2, <3>3, <3>4
  <2> QED
    BY <2>1, <2>2, StateWriter
<1>2. CASE job'[v] = Idle
  BY <1>2 DEF Idle, Unlogged
<1>3. CASE job'[v] = Moved(job[v], "resolved", {}, Idle.view)
  BY <1>3 DEF Moved, Unlogged
<1>4. ASSUME NEW p \in Partitions, NEW hi \in 1 .. Len(Log[p]), StartBatch(v, p, hi)
      PROVE  Unlogged(v)'
  BY <1>4, StartTypes DEF Unlogged
<1>5. CASE Dedupe(v)
  <2>1. /\ job'[v].partition = job[v].partition /\ UNCHANGED eventLog
        /\ job'[v].fresh = {o \in job[v].fresh : MessageAt(job[v].partition, o) \notin Logged}
    BY <1>5, <1>t DEF Dedupe, Moved
  <2> QED
    BY <2>1 DEF Unlogged, Logged
<1>6. CASE Lookup(v)
  <2>1. /\ job[v].pc = "deduped" /\ job'[v].partition = job[v].partition /\ UNCHANGED eventLog
        /\ job'[v].fresh = job[v].fresh
    BY <1>6, <1>t DEF Lookup, Moved
  <2> QED
    BY <2>1 DEF Unlogged, Logged
<1>7. CASE Persist(v)
  BY <1>7, <1>t DEF Persist, Moved, Unlogged
<1> QED
  BY <1>1, <1>2, <1>3, <1>4, <1>5, <1>6, <1>7, JobSteps

(* That two workers were at a partition at a time is not forgotten.        *)
LEMMA RacedStays == [Next]_vars /\ raced => raced'
<1> SUFFICES ASSUME [Next]_vars, raced PROVE raced'
  OBVIOUS
<1> USE DEF tables, offsets
<1>1. ASSUME NEW w \in Workers,
             \/ \E p \in Partitions : \E hi \in 1 .. Len(Log[p]) : StartBatch(w, p, hi)
             \/ Dedupe(w) \/ Lookup(w) \/ Persist(w) \/ PersistFails(w) \/ Publish(w) \/ Commit(w)
             \/ QueryFails(w) \/ Crash(w)
      PROVE  UNCHANGED raced
  BY <1>1 DEF StartBatch, Dedupe, Lookup, Persist, PersistFails, Publish, Commit, QueryFails, Crash
<1>2. ASSUME NEW w \in Workers, Takeover(w) PROVE raced'
  BY <1>2 DEF Takeover
<1>3. CASE UNCHANGED vars
  BY <1>3 DEF vars
<1> QED
  BY <1>1, <1>2, <1>3 DEF Next

(* Both are inductive together.                                            *)
LEMMA AloneStep == TypeOK /\ AloneInv /\ [Next]_vars => AloneInv'
<1> SUFFICES ASSUME TypeOK, AloneInv, [Next]_vars, ~raced'
             PROVE  (\A w \in Workers : Owned(w) /\ (NoDuplicates => Unlogged(w)))'
  BY DEF AloneInv
<1>1. ~raced
  BY RacedStays
<1>2. \A w \in Workers : Owned(w) /\ (NoDuplicates => Unlogged(w))
  BY <1>1 DEF AloneInv
<1>3. NoDuplicates' <=> NoDuplicates
  BY DEF NoDuplicates
<1> QED
  BY <1>2, <1>3, OwnedStep, UnloggedStep

-----------------------------------------------------------------------------
(* The rows of a saga that CountOfLog counts.                              *)
CountedRows(s) == {row \in RowsOf(s) : row.before # "COMPLETED"}

(* The row of a message that counts for a saga.                            *)
RowAt(j, s, o) == [event  |-> MessageAt(j.partition, o),
                   before |-> StatusesAfter(j)[o - 1][s],
                   after  |-> StatusesAfter(j)[o][s]]

CountsAsRows(j, s) == {RowAt(j, s, o) : o \in Counted(j, s)}

(* There are as many of these rows as messages, or fewer if a message is   *)
(* in the batch twice.                                                     *)
LEMMA RowsOfCounted ==
  ASSUME NEW j, Derivable(j), NEW s \in Sagas
  PROVE  /\ IsFiniteSet(CountsAsRows(j, s)) /\ Cardinality(CountsAsRows(j, s)) \in Nat
         /\ Cardinality(CountsAsRows(j, s)) <= Cardinality(Counted(j, s))
         /\ (\A o, n \in Counted(j, s) : MessageAt(j.partition, o) = MessageAt(j.partition, n) => o = n)
              => Cardinality(CountsAsRows(j, s)) = Cardinality(Counted(j, s))
<1> DEFINE C == Counted(j, s)
           R == CountsAsRows(j, s)
           f == [o \in C |-> RowAt(j, s, o)]
<1>1. IsFiniteSet(C) /\ Cardinality(C) \in Nat
  BY CountedOffsets
<1>2. f \in Surjection(C, R)
  <2> HIDE DEF C
  <2> QED
    BY DEF Surjection, CountsAsRows, C
<1>3. \A o : RowAt(j, s, o).event = MessageAt(j.partition, o)
  BY DEF RowAt
<1>4. (\A o, n \in C : MessageAt(j.partition, o) = MessageAt(j.partition, n) => o = n)
        => f \in Injection(C, R)
  <2> HIDE DEF C
  <2>1. f \in [C -> R]
    BY DEF CountsAsRows, C
  <2> QED
    BY <2>1, <1>3 DEF Injection, IsInjective
<1> HIDE DEF C, R, f
<1>5. /\ IsFiniteSet(R) /\ Cardinality(R) <= Cardinality(C)
      /\ Cardinality(R) = Cardinality(C) <=> f \in Injection(C, R)
  BY <1>1, <1>2, FS_Surjection
<1>6. Cardinality(R) \in Nat
  BY <1>5, FS_CardinalityType
<1> QED
  BY <1>4, <1>5, <1>6 DEF C, R

(* The rows that a transaction adds and that count for a saga are rows of  *)
(* messages that count.                                                    *)
LEMMA NewRowsCount ==
  ASSUME ReadInv, NEW w \in Workers, Persist(w), NEW s \in Sagas
  PROVE  /\ CountedRows(s) \subseteq CountedRows(s)'
         /\ CountedRows(s)' \subseteq CountedRows(s) \cup CountsAsRows(job[w], s)
         /\ Unlogged(w) /\ NoDuplicates =>
               /\ CountsAsRows(job[w], s) \subseteq CountedRows(s)'
               /\ CountsAsRows(job[w], s) \cap CountedRows(s) = {}
               /\ \A o, n \in Counted(job[w], s) :
                     MessageAt(job[w].partition, o) = MessageAt(job[w].partition, n) => o = n
<1> DEFINE j == job[w]
<1>t. TypeOK /\ Derivable(j) /\ j.pc = "derived"
  BY JobsDerivable DEF ReadInv, Persist
<1>1. eventLog' = eventLog \cup {row \in LogRows(j) : row.event \notin Logged}
  BY DEF Persist, BulkInsert
<1>2. Counted(j, s) = {o \in FreshOf(j, s) : StatusesAfter(j)[o - 1][s] # "COMPLETED"}
  BY <1>t, CountedOffsets
<1>3. ASSUME NEW row \in LogRows(j), SagaOf[row.event] = s, row.before # "COMPLETED"
      PROVE  row \in CountsAsRows(j, s)
  <2>1. PICK o \in j.fresh : row = [event  |-> MessageAt(j.partition, o),
                                    before |-> StatusesAfter(j)[o - 1][SagaOf[MessageAt(j.partition, o)]],
                                    after  |-> StatusesAfter(j)[o][SagaOf[MessageAt(j.partition, o)]]]
    BY DEF LogRows
  <2>2. SagaOf[MessageAt(j.partition, o)] = s /\ row = RowAt(j, s, o)
    BY <1>3, <2>1 DEF RowAt
  <2>3. o \in Counted(j, s)
    BY <1>2, <1>3, <2>2 DEF FreshOf, RowAt
  <2> QED
    BY <2>2, <2>3 DEF CountsAsRows
<1>4. ASSUME Unlogged(w), NoDuplicates, NEW o \in Counted(j, s)
      PROVE  /\ RowAt(j, s, o) \in CountedRows(s)' /\ RowAt(j, s, o) \notin CountedRows(s)
             /\ \A n \in j.fresh : MessageAt(j.partition, n) = MessageAt(j.partition, o) => o = n
  <2>1. o \in j.fresh /\ SagaOf[MessageAt(j.partition, o)] = s /\ StatusesAfter(j)[o - 1][s] # "COMPLETED"
    BY <1>2 DEF FreshOf
  <2>2. \A n \in j.fresh : MessageAt(j.partition, n) = MessageAt(j.partition, o) => o = n
    BY <1>4, <1>t, <2>1, FreshInLog DEF NoDuplicates, MessageAt
  <2>3. o <= o
    BY <1>t, <2>1 DEF Derivable
  <2>4. RowAt(j, s, o) \in LogRows(j)
    BY <2>1, <2>2, <2>3 DEF LogRows, RowAt
  <2>5. /\ RowAt(j, s, o).event = MessageAt(j.partition, o)
        /\ RowAt(j, s, o).before # "COMPLETED"
    BY <2>1 DEF RowAt
  <2>6. MessageAt(j.partition, o) \notin Logged
    BY <1>4, <1>t, <2>1 DEF Unlogged
  <2> HIDE DEF j
  <2> QED
    BY <1>1, <2>1, <2>2, <2>4, <2>5, <2>6 DEF CountedRows, RowsOf, Logged
<1>5. CountedRows(s) \subseteq CountedRows(s)'
  BY <1>1 DEF CountedRows, RowsOf
<1>6. CountedRows(s)' \subseteq CountedRows(s) \cup CountsAsRows(j, s)
  BY <1>1, <1>3 DEF CountedRows, RowsOf
<1>7. Counted(j, s) \subseteq j.fresh
  BY <1>2 DEF FreshOf
<1> QED
  BY <1>4, <1>5, <1>6, <1>7 DEF CountsAsRows

(* What CountCoversLog says of one saga, with the finiteness it needs.     *)
CountFits(s) ==
  /\ IsFiniteSet(CountedRows(s))
  /\ sagaState[s].count >= Cardinality(CountedRows(s))
  /\ ~raced /\ NoDuplicates => sagaState[s].count = Cardinality(CountedRows(s))

(* A transaction adds to event_count what it adds to the log, or more.     *)
LEMMA CountPersists ==
  ASSUME ReadInv, AloneInv, NEW w \in Workers, Persist(w), NEW s \in Sagas, CountFits(s)
  PROVE  CountFits(s)'
<1> DEFINE old == CountedRows(s)
           now == CountedRows(s)'
           add == CountsAsRows(job[w], s)
           n == Cardinality(Counted(job[w], s))
<1>1. Derivable(job[w])
  BY JobsDerivable
<1>2. sagaState[s].count \in Nat /\ n \in Nat
  BY <1>1, CountedOffsets DEF ReadInv, StatesOK
<1>3. sagaState'[s].count = sagaState[s].count + n
  <2>1. CASE Counted(job[w], s) = {}
    <3>1. n = 0
      BY <2>1, FS_EmptySet
    <3> QED
      BY <1>2, <2>1, <3>1, PersistRow
  <2>2. CASE Counted(job[w], s) # {}
    BY <2>2, PersistRow
  <2> QED
    BY <2>1, <2>2
<1>4. /\ IsFiniteSet(add) /\ Cardinality(add) \in Nat /\ Cardinality(add) <= n
      /\ (\A o, k \in Counted(job[w], s) :
            MessageAt(job[w].partition, o) = MessageAt(job[w].partition, k) => o = k)
           => Cardinality(add) = n
  BY <1>1, RowsOfCounted
<1>5. IsFiniteSet(old) /\ Cardinality(old) \in Nat
  BY FS_CardinalityType DEF CountFits
<1>6. /\ old \subseteq now /\ now \subseteq old \cup add
      /\ Unlogged(w) /\ NoDuplicates =>
           /\ add \subseteq now /\ add \cap old = {}
           /\ \A o, k \in Counted(job[w], s) :
                 MessageAt(job[w].partition, o) = MessageAt(job[w].partition, k) => o = k
  BY NewRowsCount
<1>7. raced' = raced /\ (NoDuplicates' <=> NoDuplicates)
  BY DEF Persist, NoDuplicates
<1>8. ~raced /\ NoDuplicates => Unlogged(w)
  BY DEF AloneInv
<1>f. /\ sagaState[s].count >= Cardinality(old)
      /\ ~raced /\ NoDuplicates => sagaState[s].count = Cardinality(old)
  BY DEF CountFits
<1> HIDE DEF old, now, add, n
<1>9. /\ IsFiniteSet(old \cup add)
      /\ Cardinality(old \cup add) = Cardinality(old) + Cardinality(add) - Cardinality(old \cap add)
  BY <1>4, <1>5, FS_Union
<1>10. /\ IsFiniteSet(old \cap add) /\ Cardinality(old \cap add) \in Nat
       /\ old \cap add = {} => Cardinality(old \cap add) = 0
  <2>1. IsFiniteSet(old \cap add)
    BY <1>5, FS_Intersection
  <2> QED
    BY <2>1, FS_CardinalityType, FS_EmptySet
<1>11. IsFiniteSet(now) /\ Cardinality(now) <= Cardinality(old \cup add) /\ Cardinality(now) \in Nat
  <2>1. IsFiniteSet(now) /\ Cardinality(now) <= Cardinality(old \cup add)
    BY <1>6, <1>9, FS_Subset
  <2> QED
    BY <2>1, FS_CardinalityType
<1>12. sagaState'[s].count >= Cardinality(now)
  BY <1>2, <1>3, <1>4, <1>5, <1>9, <1>10, <1>11, <1>f
<1>13. ASSUME ~raced, NoDuplicates PROVE sagaState'[s].count = Cardinality(now)
  <2>1. now = old \cup add /\ old \cap add = {} /\ Cardinality(add) = n
    BY <1>4, <1>6, <1>8, <1>13
  <2> QED
    BY <1>2, <1>3, <1>4, <1>5, <1>9, <1>10, <1>13, <2>1, <1>f
<1> QED
  BY <1>7, <1>11, <1>12, <1>13 DEF CountFits, now

(* event_count is never less than the events of the log that the guard let *)
(* through, and exact unless two workers raced or an event was sent twice. *)
THEOREM CountIsCovered == Spec => []CountCoversLog
<1> DEFINE Fits == \A s \in Sagas : CountFits(s)
<1>1. Init => AloneInv /\ Fits
  <2> SUFFICES ASSUME Init PROVE AloneInv /\ Fits
    OBVIOUS
  <2>1. \A w \in Workers : job[w] = Idle
    <3> HIDE DEF Idle
    <3> QED
      BY DEF Init
  <2>2. AloneInv
    BY <2>1, IdleIsJob DEF AloneInv, Owned, Unlogged
  <2>3. \A s \in Sagas : sagaState[s].count = 0 /\ CountedRows(s) = {}
    BY DEF Init, NoRow, CountedRows, RowsOf
  <2>4. ASSUME NEW s \in Sagas PROVE CountFits(s)
    <3>1. sagaState[s].count = 0 /\ CountedRows(s) = {}
      BY <2>3
    <3>2. IsFiniteSet(CountedRows(s)) /\ Cardinality(CountedRows(s)) = 0
      BY <3>1, FS_EmptySet
    <3> QED
      BY <3>1, <3>2 DEF CountFits
  <2> QED
    BY <2>2, <2>4
<1>2. ReadInv /\ AloneInv /\ Fits /\ [Next]_vars => Fits'
  <2> SUFFICES ASSUME ReadInv, AloneInv, Fits, [Next]_vars, NEW s \in Sagas PROVE CountFits(s)'
    OBVIOUS
  <2>1. CASE \E w \in Workers : Persist(w)
    BY <2>1, CountPersists
  <2>2. CASE UNCHANGED <<sagaState, eventLog>>
    <3>1. raced => raced'
      BY RacedStays
    <3>2. CountedRows(s)' = CountedRows(s) /\ (NoDuplicates' <=> NoDuplicates)
      BY <2>2 DEF CountedRows, RowsOf, NoDuplicates
    <3> QED
      BY <2>2, <3>1, <3>2 DEF CountFits
  <2> QED
    BY <2>1, <2>2, StateWriter
<1>3. Fits => CountCoversLog
  BY DEF CountFits, CountCoversLog, CountOfLog, CountedRows
<1>4. ReadInv => TypeOK
  BY DEF ReadInv
<1> HIDE DEF Fits
<1> QED
  BY <1>1, <1>2, <1>3, <1>4, AloneStep, ReadInit, ReadStep, PTL DEF Spec

-----------------------------------------------------------------------------
(* Why offsets only move forward, whoever was at a partition before: the   *)
(* fetch position is what is committed, and the batch of the worker that   *)
(* the group knows begins right behind it.                                 *)
Behind(w) ==
  job[w].pc # "idle" /\ owner[job[w].partition] = w =>
    job[w].first = position[job[w].partition] + 1 /\ job[w].first <= job[w].last

OffsetInv == position = committed /\ \A w \in Workers : Behind(w)

(* OffsetInv is inductive, given the types.                                *)
LEMMA OffsetStep == TypeOK /\ OffsetInv /\ [Next]_vars => OffsetInv'
<1> SUFFICES ASSUME TypeOK, OffsetInv, [Next]_vars PROVE OffsetInv'
  OBVIOUS
<1> USE DEF tables, offsets
<1>t. /\ job = [w \in Workers |-> job[w]] /\ owner \in [Partitions -> Workers \cup {NoWorker}]
      /\ position \in [Partitions -> Nat] /\ committed = position
      /\ \A v \in Workers : Behind(v) /\ (job[v].pc # "idle" => job[v].partition \in Partitions)
  BY DEF TypeOK, IsJob, OffsetInv
<1>1. ASSUME NEW w \in Workers, NEW p \in Partitions, NEW hi \in 1 .. Len(Log[p]), StartBatch(w, p, hi)
      PROVE  OffsetInv'
  <2>1. /\ owner[p] = NoWorker /\ owner' = [owner EXCEPT ![p] = w] /\ position[p] < hi
        /\ UNCHANGED <<position, committed>>
    BY <1>1 DEF StartBatch
  <2>2. /\ job'[w].partition = p /\ job'[w].first = position[p] + 1 /\ job'[w].last = hi
        /\ \A v \in Workers \ {w} : job'[v] = job[v]
    BY <1>1, StartTypes
  <2>3. Len(Log[p]) \in Nat /\ position[p] \in Nat
    BY <1>t
  <2>4. Behind(w)'
    BY <2>1, <2>2, <2>3 DEF Behind
  <2>5. ASSUME NEW v \in Workers \ {w} PROVE Behind(v)'
    BY <2>1, <2>2, <1>t DEF Behind
  <2> QED
    BY <2>1, <2>4, <2>5, <1>t DEF OffsetInv
<1>2. ASSUME NEW w \in Workers, Dedupe(w) \/ Lookup(w) \/ Persist(w) \/ PersistFails(w) \/ Publish(w)
      PROVE  OffsetInv'
  <2>1. /\ \A v \in Workers \ {w} : job'[v] = job[v]
        /\ job'[w].first = job[w].first /\ job'[w].last = job[w].last
        /\ job'[w].partition = job[w].partition /\ job[w].pc # "idle"
    <3>1. CASE Dedupe(w) \/ Lookup(w) \/ Persist(w)
      BY <3>1, StepJob
    <3>2. CASE PersistFails(w) \/ Publish(w)
      <4>1. PICK pc \in Phases \ {"idle"} : Finish(w, pc)
        BY <3>2 DEF PersistFails, Publish, Phases
      <4> QED
        BY <4>1, FinishTypes DEF Finish
    <3> QED
      BY <1>2, <3>1, <3>2
  <2>2. UNCHANGED <<position, committed, owner>>
    BY <1>2 DEF Dedupe, Lookup, Persist, PersistFails, Publish
  <2>3. \A v \in Workers : Behind(v)'
    BY <2>1, <2>2, <1>t DEF Behind
  <2> QED
    BY <2>2, <2>3, <1>t DEF OffsetInv
<1>3. ASSUME NEW w \in Workers, Commit(w) \/ QueryFails(w) \/ Crash(w)
      PROVE  OffsetInv'
  <2>1. /\ Release(w) /\ job'[w] = Idle /\ \A v \in Workers \ {w} : job'[v] = job[v]
        /\ \A p \in Partitions : owner'[p] = owner[p] \/ owner'[p] = NoWorker
    BY <1>3, <1>t, ReleaseTypes DEF Commit, QueryFails, Crash, Release, Owns
  <2>2. /\ position' = committed'
        /\ \A p \in Partitions : position'[p] = position[p] \/ (Owns(w) /\ p = job[w].partition)
    BY <1>3, <1>t DEF Commit, QueryFails, Crash
  <2>3. Behind(w)'
    BY <2>1, IdleIsJob DEF Behind
  <2>4. ASSUME NEW v \in Workers \ {w} PROVE Behind(v)'
    BY <2>1, <2>2, <1>t DEF Behind, Owns
  <2> QED
    BY <2>2, <2>3, <2>4 DEF OffsetInv
<1>4. ASSUME NEW w \in Workers, Takeover(w) PROVE OffsetInv'
  <2>1. /\ UNCHANGED <<committed, job>> /\ position' = committed
        /\ \A p \in Partitions : owner'[p] = owner[p] \/ owner'[p] = NoWorker
    BY <1>4, <1>t DEF Takeover, Owns
  <2> QED
    BY <2>1, <1>t DEF OffsetInv, Behind
<1>5. CASE UNCHANGED vars
  BY <1>5, <1>t DEF vars, OffsetInv, Behind
<1> QED
  BY <1>1, <1>2, <1>3, <1>4, <1>5 DEF Next

(* The invariant of the refinement.                                        *)
PromiseInv == IInv /\ ReadInv /\ CompletedIsLogged /\ OffsetInv

(* A transaction records the new events of its batch, with the completion  *)
(* of the sagas that they end.                                             *)
LEMMA PersistRecords ==
  ASSUME PromiseInv, PromiseInv', NEW w \in Workers, Persist(w)
  PROVE  \E E \in SUBSET (Promise!Events \ Logged) : Promise!Record(E)
<1>0. PICK E : E = Logged' \ Logged
  OBVIOUS
<1>1. eventLog' = eventLog \cup {row \in LogRows(job[w]) : row.event \notin Logged}
  BY DEF Persist, BulkInsert
<1>2. Logged' = Logged \cup E
  BY <1>0, <1>1 DEF Logged
<1>3. ASSUME NEW m \in E PROVE m \in Messages /\ SagaOf[m] \in Sagas
  <2>1. PICK row \in LogRows(job[w]) : row.event = m
    BY <1>0, <1>1 DEF Logged
  <2>2. PICK o \in job[w].fresh : m = MessageAt(job[w].partition, o)
    BY <2>1, RowsAreFresh
  <2>3. job[w].pc # "idle" /\ TypeOK
    BY DEF Persist, PromiseInv, IInv
  <2>4. job[w].partition \in Partitions /\ o \in 1 .. Len(Log[job[w].partition])
    BY <2>3, FreshInLog
  <2>5. Log[job[w].partition] \in Seq(Messages)
    BY <2>4
  <2>6. m \in Messages
    BY <2>2, <2>4, <2>5 DEF MessageAt
  <2> QED
    BY <2>2, <2>6 DEF PromiseInv, ReadInv, JobReads
<1>4. E \in SUBSET (Promise!Events \ Logged)
  BY <1>0, <1>3 DEF Promise!Events, Messages
<1>5. \A s \in Sagas : /\ sagaState[s].status = "COMPLETED" <=> Finals(s) # {}
                       /\ sagaState'[s].status = "COMPLETED" <=> Finals(s)' # {}
  BY EndsLogged DEF PromiseInv, EndIsLogged
<1>6. \A s \in Sagas : Finals(s)' # {} <=> Finals(s) # {} \/ s \in Promise!EndedBy(E)
  BY <1>2 DEF Finals, Promise!EndedBy
<1>7. Promise!EndedBy(E) \subseteq Sagas
  BY <1>3, <1>4 DEF Promise!EndedBy
<1>8. {s \in Sagas : sagaState'[s].status = "COMPLETED"} =
        {s \in Sagas : sagaState[s].status = "COMPLETED"} \cup Promise!EndedBy(E)
  BY <1>5, <1>6, <1>7
<1>9. UNCHANGED <<committed, lost>>
  BY DEF Persist, offsets
<1>10. Promise!Record(E)
  BY <1>2, <1>8, <1>9 DEF Promise!Record
<1> QED
  BY <1>4, <1>10

(* The end of a batch acknowledges it, if the worker still has the         *)
(* partition.                                                              *)
LEMMA CommitAcknowledges ==
  ASSUME PromiseInv, PromiseInv', NEW w \in Workers, Commit(w), Owns(w)
  PROVE  \E p \in Partitions : \E n \in 1 .. Len(Log[p]) : Promise!Acknowledge(p, n)
<1> DEFINE p == job[w].partition
           n == job[w].last
<1>1. job[w].pc # "idle" /\ owner[p] = w /\ IsJob(job[w])
  BY DEF Commit, Owns, PromiseInv, IInv, TypeOK
<1>2. p \in Partitions /\ n \in Nat /\ n <= Len(Log[p]) /\ job[w].first \in Nat
  BY <1>1 DEF IsJob
<1>3. job[w].first = committed[p] + 1 /\ job[w].first <= n /\ committed[p] \in Nat
  BY <1>1, <1>2 DEF PromiseInv, OffsetInv, Behind, IInv, TypeOK
<1>4. n > committed[p] /\ n \in 1 .. Len(Log[p])
  <2>1. Len(Log[p]) \in Nat
    BY <1>2
  <2> HIDE DEF n, p
  <2> QED
    BY <1>2, <1>3, <2>1
<1>5. /\ committed' = [committed EXCEPT ![p] = n]
      /\ UNCHANGED <<sagaState, eventLog, lost>>
  BY DEF Commit, tables
<1>6. committed'[p] = n
  BY <1>2, <1>5 DEF PromiseInv, IInv, TypeOK
<1>7. UNCHANGED Logged
  BY <1>5 DEF Logged
<1>8. \A o \in 1 .. n : SagaOf[Log[p][o]] # NoSaga => Log[p][o] \in Logged \cup lost
  <2>1. \A o \in 1 .. committed'[p] : SagaOf[Log[p][o]] # NoSaga => Log[p][o] \in Logged' \cup lost'
    BY <1>2 DEF PromiseInv, IInv, CommittedIsLogged
  <2> HIDE DEF p, n
  <2> QED
    BY <2>1, <1>5, <1>6, <1>7
<1> HIDE DEF p, n
<1>9. Promise!Acknowledge(p, n)
  BY <1>4, <1>5, <1>7, <1>8 DEF Promise!Acknowledge, Promise!Events
<1> QED
  BY <1>2, <1>4, <1>9

(* The tables of the projector are the read model that its readers are     *)
(* promised: every step is a step of ReadModel or is not seen, whatever    *)
(* the batches, the order of their reads and writes, failures, crashes and *)
(* takeovers.                                                              *)
THEOREM Refinement == Spec => ImplementsReadModel
<1>1. Init => PromiseInv /\ Promise!Init
  <2> SUFFICES ASSUME Init PROVE PromiseInv /\ Promise!Init
    OBVIOUS
  <2>1. IInv
    BY InitCovers
  <2>2. ReadInv
    BY ReadInit
  <2>3. CompletedIsLogged
    BY InitAgrees
  <2>4. OffsetInv
    BY IdleIsJob DEF Init, OffsetInv, Behind
  <2>5. Promise!Init
    BY DEF Init, Promise!Init, Logged, NoRow
  <2> QED
    BY <2>1, <2>2, <2>3, <2>4, <2>5 DEF PromiseInv
<1>2. PromiseInv /\ [Next]_vars => PromiseInv'
  BY InvariantStep, ReadStep, AgreesStep, OffsetStep DEF PromiseInv, IInv
<1>3. PromiseInv /\ PromiseInv' /\ [Next]_vars => [Promise!Next]_(Promise!vars)
  <2> SUFFICES ASSUME PromiseInv, PromiseInv', [Next]_vars
               PROVE  Promise!Next \/ UNCHANGED <<sagaState, eventLog, committed, lost>>
    BY DEF Promise!vars, Logged
  <2> USE DEF tables, offsets
  <2>1. ASSUME NEW w \in Workers, Persist(w) PROVE Promise!Next
    BY <2>1, PersistRecords DEF Promise!Next
  <2>2. ASSUME NEW w \in Workers, PersistFails(w) PROVE Promise!Next
    <3>1. PICK E : lost' = lost \cup E /\ E \subseteq Promise!Events
      <4> DEFINE E == {MessageAt(job[w].partition, o) : o \in job[w].fresh}
      <4>1. lost' = lost \cup E
        BY <2>2 DEF PersistFails
      <4>2. job[w].pc # "idle" /\ TypeOK
        BY <2>2 DEF PersistFails, Finish, PromiseInv, IInv
      <4>3. ASSUME NEW o \in job[w].fresh PROVE MessageAt(job[w].partition, o) \in Promise!Events
        <5>1. job[w].partition \in Partitions /\ o \in 1 .. Len(Log[job[w].partition])
          BY <4>2, FreshInLog
        <5>2. Log[job[w].partition] \in Seq(Messages)
          BY <5>1
        <5>3. MessageAt(job[w].partition, o) \in Messages
          BY <5>1, <5>2 DEF MessageAt
        <5>4. SagaOf[MessageAt(job[w].partition, o)] \in Sagas
          BY DEF PromiseInv, ReadInv, JobReads
        <5> QED
          BY <5>3, <5>4 DEF Promise!Events, Messages
      <4>4. E \subseteq Promise!Events
        BY <4>3
      <4> HIDE DEF E
      <4> QED
        BY <4>1, <4>4
    <3>2. Promise!Lose(E)
      BY <3>1, <2>2 DEF PersistFails, Promise!Lose, Logged
    <3> QED
      BY <3>1, <3>2 DEF Promise!Next
  <2>3. ASSUME NEW w \in Workers, Commit(w)
        PROVE  Promise!Next \/ UNCHANGED <<sagaState, eventLog, committed, lost>>
    <3>1. CASE Owns(w)
      BY <2>3, <3>1, CommitAcknowledges DEF Promise!Next
    <3>2. CASE ~Owns(w)
      BY <2>3, <3>2 DEF Commit
    <3> QED
      BY <3>1, <3>2
  <2>4. ASSUME NEW w \in Workers,
               \/ \E p \in Partitions : \E hi \in 1 .. Len(Log[p]) : StartBatch(w, p, hi)
               \/ Dedupe(w) \/ Lookup(w) \/ Publish(w) \/ QueryFails(w) \/ Crash(w) \/ Takeover(w)
        PROVE  UNCHANGED <<sagaState, eventLog, committed, lost>>
    BY <2>4 DEF StartBatch, Dedupe, Lookup, Publish, QueryFails, Crash, Takeover
  <2>5. CASE UNCHANGED vars
    BY <2>5 DEF vars
  <2> QED
    BY <2>1, <2>2, <2>3, <2>4, <2>5 DEF Next
<1> QED
  BY <1>1, <1>2, <1>3, PTL DEF Spec, ImplementsReadModel, Promise!Spec
=============================================================================
