------------------------------ MODULE Projector ------------------------------
(***************************************************************************)
(* The read model of the monitor: KafkaProjectorService.processBatch and   *)
(* its commands (examples/monitor/backend/src/@core/saga), which turn the  *)
(* events of all sagas into the tables saga_state and saga_event_log.      *)
(* What becomes of the updates on Redis is in LivePages.                   *)
(*                                                                         *)
(* The events of one saga are spread over topics, whose partitions are     *)
(* consumed concurrently; the state that a batch derives its changes from  *)
(* is read before the transaction that writes them.                        *)
(*                                                                         *)
(* External: Postgres, where a transaction commits as a whole and the row  *)
(* of a saga that is being written is locked; KafkaJS, which runs one      *)
(* batch of a partition at a time, resolves the last offset of a batch     *)
(* that returned (eachBatchAutoResolve) and commits what is resolved; the  *)
(* consumer group, which may hand the partition of a member that does not  *)
(* answer to another one while the first is still at work.                 *)
(***************************************************************************)
EXTENDS Integers, Sequences, FiniteSets

CONSTANTS
    Workers,    \* slots for batches that are being processed
    Partitions, \* partitions of all topics
    Log,        \* for each partition, the messages in it
    Sagas,
    SagaOf,     \* for each message, its saga, or NoSaga without saga headers
    NoSaga,
    HintOf,     \* for each message, its hint; step, fork and none are "step"
    NoWorker,
    MaxFaults   \* bound on failures of queries, members and the broker

Messages == DOMAIN SagaOf
Hints == {"step", "compensation", "final"}

ASSUME LogAssumption == Log \in [Partitions -> Seq(Messages)]
ASSUME SagaAssumption == SagaOf \in [Messages -> Sagas \cup {NoSaga}] /\ NoSaga \notin Sagas
ASSUME HintAssumption == HintOf \in [Messages -> Hints]
ASSUME WorkerAssumption == NoWorker \notin Workers
ASSUME FaultsAssumption == MaxFaults \in Nat

VARIABLES
    position,   \* KafkaJS: messages of the partition before the next batch
    committed,  \* the broker: messages of the partition that are committed
    owner,      \* the worker that the group knows to be on the partition
    job,        \* the batch a worker is at, and what it has read so far
    sagaState,  \* table saga_state
    eventLog,   \* table saga_event_log
    lost,       \* history: messages of batches whose transaction failed
    raced,      \* history: has a partition had two workers at a time
    faults

tables == <<sagaState, eventLog>>
offsets == <<position, committed, owner>>
vars == <<position, committed, owner, job, sagaState, eventLog, lost, raced, faults>>

Statuses == {"RUNNING", "COMPENSATING", "COMPLETED"}

(* A row of saga_state, of which NoRow is the absence, and the status that *)
(* bulkLookup finds then.                                                  *)
NoRow == [status |-> "none", count |-> 0, last |-> "none", ended |-> "none"]
NoView == NoRow.status

(* A worker that has nothing to do.                                        *)
Idle == [pc |-> "idle", partition |-> "none", first |-> 1, last |-> 0,
         fresh |-> {}, view |-> [s \in Sagas |-> NoView]]

Init ==
    /\ position = [p \in Partitions |-> 0]
    /\ committed = [p \in Partitions |-> 0]
    /\ owner = [p \in Partitions |-> NoWorker]
    /\ job = [w \in Workers |-> Idle]
    /\ sagaState = [s \in Sagas |-> NoRow]
    /\ eventLog = {}
    /\ lost = {}
    /\ raced = FALSE
    /\ faults = 0

-----------------------------------------------------------------------------
(* Mutant: a step after compensation means running again.                  *)
Mutant_NextStatusForgets(hint, current) ==
    IF current = "COMPLETED" \/ hint = "final" THEN "COMPLETED"
    ELSE IF hint = "compensation" THEN "COMPENSATING" ELSE "RUNNING"

(* deriveStatus, and the guard of DeriveChangesCommand for sagas that are  *)
(* completed.                                                              *)
NextStatus(hint, current) ==
    IF current = "COMPLETED" \/ hint = "final" THEN "COMPLETED"
    ELSE IF current = "COMPENSATING" \/ hint = "compensation" THEN "COMPENSATING"
    ELSE "RUNNING"

MessageAt(p, o) == Log[p][o]

(* The loop of DeriveChangesCommand over the new messages of a batch: the  *)
(* statuses of all sagas after offset o.                                   *)
StatusesAfter(j) ==
    LET after[o \in j.first - 1 .. j.last] ==
            IF o < j.first THEN j.view
            ELSE IF o \notin j.fresh THEN after[o - 1]
            ELSE LET m == MessageAt(j.partition, o)
                 IN [after[o - 1] EXCEPT ![SagaOf[m]] = NextStatus(HintOf[m], @)]
    IN after

(* The rows for saga_event_log; of an event that is twice in the batch,    *)
(* the first row is inserted.                                              *)
LogRows(j) ==
    LET after == StatusesAfter(j)
        firsts == {o \in j.fresh : \A n \in j.fresh :
                      MessageAt(j.partition, n) = MessageAt(j.partition, o) => o <= n}
    IN {[event |-> MessageAt(j.partition, o),
         before |-> after[o - 1][SagaOf[MessageAt(j.partition, o)]],
         after |-> after[o][SagaOf[MessageAt(j.partition, o)]]] : o \in firsts}

(* The offsets of s in the batch that the guard lets through, and the last *)
(* of them, which has the values for saga_state.                           *)
Counted(j, s) ==
    {o \in j.fresh : /\ SagaOf[MessageAt(j.partition, o)] = s
                     /\ StatusesAfter(j)[o - 1][s] # "COMPLETED"}

LastOf(offs) == CHOOSE o \in offs : \A n \in offs : n <= o

(* Mutant: the upsert trusts the status that was derived.                  *)
Mutant_UpsertedOverwrites(j, s) ==
    LET offs == Counted(j, s)
        o == LastOf(offs)
        m == MessageAt(j.partition, o)
        new == StatusesAfter(j)[o][s]
        old == sagaState[s]
    IN [status |-> new,
        count |-> old.count + Cardinality(offs),
        last |-> IF old.status = "COMPLETED" THEN old.last ELSE m,
        ended |-> IF new = "COMPLETED" THEN m
                  ELSE IF old.status = "COMPLETED" THEN old.ended ELSE "none"]

(* Mutant: a batch counts as one event.                                    *)
Mutant_UpsertedCountsBatches(j, s) ==
    LET offs == Counted(j, s)
        o == LastOf(offs)
        m == MessageAt(j.partition, o)
        new == StatusesAfter(j)[o][s]
        old == sagaState[s]
    IN [status |-> IF old.status = "COMPLETED" THEN old.status ELSE new,
        count |-> old.count + 1,
        last |-> IF old.status = "COMPLETED" THEN old.last ELSE m,
        ended |-> IF new = "COMPLETED" THEN m
                  ELSE IF old.status = "COMPLETED" THEN old.ended ELSE "none"]

(* bulkUpsert of the row of s: the status of a completed saga stays, the   *)
(* end does not, and the count is incremented whatever the status.         *)
Upserted(j, s) ==
    LET offs == Counted(j, s)
        o == LastOf(offs)
        m == MessageAt(j.partition, o)
        new == StatusesAfter(j)[o][s]
        old == sagaState[s]
    IN [status |-> IF old.status = "COMPLETED" THEN old.status ELSE new,
        count |-> old.count + Cardinality(offs),
        last |-> IF old.status = "COMPLETED" THEN old.last ELSE m,
        ended |-> IF new = "COMPLETED" THEN m
                  ELSE IF old.status = "COMPLETED" THEN old.ended ELSE "none"]

-----------------------------------------------------------------------------
(* The next step of processBatch for a batch, with what it knows by then.  *)
Moved(j, pc, fresh, view) ==
    [pc |-> pc, partition |-> j.partition, first |-> j.first, last |-> j.last,
     fresh |-> fresh, view |-> view]

(* processBatch is about to return, and needs nothing it has read.         *)
Finish(w, from) ==
    /\ job[w].pc = from
    /\ job' = [job EXCEPT ![w] = Moved(job[w], "resolved", {}, Idle.view)]

(* ParseBatchCommand: the offsets of the messages that have saga headers.  *)
Prepared(p, lo, hi) == {o \in lo .. hi : SagaOf[MessageAt(p, o)] # NoSaga}

(* KafkaJS calls eachBatch.                                                *)
StartBatch(w, p, hi) ==
    /\ job[w] = Idle
    /\ owner[p] = NoWorker
    /\ position[p] < hi
    /\ hi <= Len(Log[p])
    /\ LET prepared == Prepared(p, position[p] + 1, hi)
       IN job' = [job EXCEPT ![w] =
                    [pc |-> IF prepared = {} THEN "resolved" ELSE "parsed", partition |-> p,
                     first |-> position[p] + 1, last |-> hi,
                     fresh |-> prepared, view |-> Idle.view]]
    /\ owner' = [owner EXCEPT ![p] = w]
    /\ UNCHANGED <<position, committed, tables, lost, raced, faults>>

(* bulkCheckExisting, and ON CONFLICT DO NOTHING in bulkInsert: an event   *)
(* that is in the log already.                                             *)
Logged == {row.event : row \in eventLog}

(* Mutant: the insert has no ON CONFLICT clause, and the log no key.       *)
Mutant_InsertsAgain(rows) == eventLog' = eventLog \cup rows

BulkInsert(rows) == eventLog' = eventLog \cup {row \in rows : row.event \notin Logged}

(* Mutant: a batch that was seen in part is taken as seen.                 *)
Mutant_DedupeSkipsBatch(w) ==
    /\ job[w].pc = "parsed"
    /\ LET fresh == {o \in job[w].fresh : MessageAt(job[w].partition, o) \notin Logged}
       IN job' = IF fresh = job[w].fresh
                 THEN [job EXCEPT ![w].pc = "deduped"]
                 ELSE [job EXCEPT ![w].fresh = {}, ![w].pc = "resolved"]
    /\ UNCHANGED <<offsets, tables, lost, raced, faults>>

(* DedupeEventsCommand: what is in the log already is left out.            *)
Dedupe(w) ==
    /\ job[w].pc = "parsed"
    /\ LET fresh == {o \in job[w].fresh : MessageAt(job[w].partition, o) \notin Logged}
           pc == IF fresh = {} THEN "resolved" ELSE "deduped"
       IN job' = [job EXCEPT ![w] = Moved(job[w], pc, fresh, Idle.view)]
    /\ UNCHANGED <<offsets, tables, lost, raced, faults>>

(* LookupStatesCommand; DeriveChangesCommand then works on what was read.  *)
Lookup(w) ==
    /\ job[w].pc = "deduped"
    /\ LET asked == {SagaOf[MessageAt(job[w].partition, o)] : o \in job[w].fresh}
           view == [s \in Sagas |-> IF s \in asked THEN sagaState[s].status ELSE NoView]
       IN job' = [job EXCEPT ![w] = Moved(job[w], "derived", job[w].fresh, view)]
    /\ UNCHANGED <<offsets, tables, lost, raced, faults>>

(* PersistBatchCommand: both tables in one transaction, in which an event  *)
(* that is in the log by now is not inserted again.                        *)
Persist(w) ==
    /\ job[w].pc = "derived"
    /\ job' = [job EXCEPT ![w] = Moved(job[w], "persisted", job[w].fresh, job[w].view)]
    /\ sagaState' = [s \in Sagas |->
                        IF Counted(job[w], s) = {} THEN sagaState[s]
                        ELSE Upserted(job[w], s)]
    /\ BulkInsert(LogRows(job[w]))
    /\ UNCHANGED <<offsets, lost, raced, faults>>

(* The transaction failed, for a deadlock after all retries: processBatch  *)
(* returns without resolving an offset.                                    *)
PersistFails(w) ==
    /\ faults < MaxFaults
    /\ faults' = faults + 1
    /\ Finish(w, "derived")
    /\ lost' = lost \cup {MessageAt(job[w].partition, o) : o \in job[w].fresh}
    /\ UNCHANGED <<offsets, tables, raced>>

(* PublishUpdatesCommand, whose errors are logged; then resolveOffset.     *)
Publish(w) ==
    /\ Finish(w, "persisted")
    /\ UNCHANGED <<offsets, tables, lost, raced, faults>>

-----------------------------------------------------------------------------
(* Is w the worker that the group knows, or one that was replaced?         *)
Owns(w) == job[w] # Idle /\ owner[job[w].partition] = w

Release(w) ==
    /\ owner' = IF Owns(w) THEN [owner EXCEPT ![job[w].partition] = NoWorker] ELSE owner
    /\ job' = [job EXCEPT ![w] = Idle]

(* eachBatch has returned: KafkaJS resolves the last offset of the batch,  *)
(* and commits it if w still owns the partition.                           *)
Commit(w) ==
    /\ job[w].pc = "resolved"
    /\ Release(w)
    /\ IF Owns(w)
       THEN /\ position' = [position EXCEPT ![job[w].partition] = job[w].last]
            /\ committed' = [committed EXCEPT ![job[w].partition] = job[w].last]
       ELSE UNCHANGED <<position, committed>>
    /\ UNCHANGED <<tables, lost, raced, faults>>

(* Mutant: the error of a query is caught in processBatch.                 *)
Mutant_QueryFailsQuietly(w) ==
    /\ faults < MaxFaults
    /\ faults' = faults + 1
    /\ job[w].pc \in {"parsed", "deduped"}
    /\ Finish(w, job[w].pc)
    /\ UNCHANGED <<offsets, tables, lost, raced>>

(* A query for dedupe or lookup fails: eachBatch throws, and KafkaJS       *)
(* fetches the batch again.                                                *)
QueryFails(w) ==
    /\ faults < MaxFaults
    /\ faults' = faults + 1
    /\ job[w].pc \in {"parsed", "deduped"}
    /\ Release(w)
    /\ UNCHANGED <<position, committed, tables, lost, raced>>

(* The process of w dies, at any point of the batch.                       *)
Crash(w) ==
    /\ faults < MaxFaults
    /\ faults' = faults + 1
    /\ job[w] # Idle
    /\ Release(w)
    /\ position' = IF Owns(w)
                   THEN [position EXCEPT ![job[w].partition] = committed[job[w].partition]]
                   ELSE position
    /\ UNCHANGED <<committed, tables, lost, raced>>

(* w has not sent a heartbeat for a session timeout, which it does only at *)
(* the end of a batch: the partition goes to another member.               *)
Takeover(w) ==
    /\ faults < MaxFaults
    /\ faults' = faults + 1
    /\ Owns(w)
    /\ owner' = [owner EXCEPT ![job[w].partition] = NoWorker]
    /\ position' = [position EXCEPT ![job[w].partition] = committed[job[w].partition]]
    /\ raced' = TRUE
    /\ UNCHANGED <<committed, job, tables, lost>>

-----------------------------------------------------------------------------
Next ==
    \E w \in Workers :
      \/ \E p \in Partitions : \E hi \in 1 .. Len(Log[p]) : StartBatch(w, p, hi)
      \/ Dedupe(w)
      \/ Lookup(w)
      \/ Persist(w)
      \/ PersistFails(w)
      \/ Publish(w)
      \/ Commit(w)
      \/ QueryFails(w)
      \/ Crash(w)
      \/ Takeover(w)

Spec == Init /\ [][Next]_vars

(* Queries are answered, and KafkaJS keeps fetching and committing.        *)
Fairness ==
    /\ \A p \in Partitions :
         WF_vars(\E w \in Workers : \E hi \in 1 .. Len(Log[p]) : StartBatch(w, p, hi))
    /\ \A w \in Workers :
         /\ WF_vars(Dedupe(w)) /\ WF_vars(Lookup(w)) /\ WF_vars(Persist(w))
         /\ WF_vars(Publish(w)) /\ WF_vars(Commit(w))

FairSpec == Spec /\ Fairness

-----------------------------------------------------------------------------
(* Types.  What the statuses of rows and views are worth is the subject of *)
(* the properties below.                                                   *)
Phases == {"idle", "parsed", "deduped", "derived", "persisted", "resolved"}

IsJob(j) ==
    /\ j = Moved(j, j.pc, j.fresh, j.view)
    /\ j.pc \in Phases /\ j.first \in Nat \ {0} /\ j.last \in Nat /\ j.fresh \subseteq j.first .. j.last
    /\ j.pc # "idle" => j.partition \in Partitions /\ j.last <= Len(Log[j.partition])

TypeOK ==
    /\ position \in [Partitions -> Nat] /\ committed \in [Partitions -> Nat]
    /\ \A p \in Partitions : position[p] <= Len(Log[p]) /\ committed[p] <= Len(Log[p])
    /\ owner \in [Partitions -> Workers \cup {NoWorker}]
    /\ job = [w \in Workers |-> job[w]] /\ \A w \in Workers : IsJob(job[w])
    /\ lost \subseteq Messages
    /\ raced \in BOOLEAN /\ faults \in 0 .. MaxFaults

RowsOf(s) == {row \in eventLog : SagaOf[row.event] = s}
AllEvents == {m \in UNION {{Log[p][o] : o \in 1 .. Len(Log[p])} : p \in Partitions} :
                SagaOf[m] # NoSaga}

(* saga_event_log is a timeline "with one line per event": no order of     *)
(* batches, crash or second worker logs an event twice.                    *)
OneRowPerEvent ==
    \A row1, row2 \in eventLog : row1.event = row2.event => row1 = row2

(* The two tables agree on completion, although a status that was read     *)
(* before the transaction may be old: a saga is COMPLETED exactly when one *)
(* of its final events is in the log, and its end is such an event.        *)
CompletedIsLogged ==
    \A s \in Sagas :
        LET finals == {row.event : row \in {r \in RowsOf(s) : HintOf[r.event] = "final"}}
        IN /\ sagaState[s].status = "COMPLETED" <=> finals # {}
           /\ sagaState[s].status = "COMPLETED" => sagaState[s].ended \in finals
           /\ sagaState[s].status # "COMPLETED" => sagaState[s].ended = "none"

(* event_count counts the events in the log that the guard let through:    *)
(* exactly, if no partition has had two workers and no producer has sent   *)
(* an event twice, and never less.                                         *)
NoDuplicates ==
    \A p, q \in Partitions : \A o \in 1 .. Len(Log[p]), n \in 1 .. Len(Log[q]) :
        Log[p][o] = Log[q][n] => p = q /\ o = n

CountOfLog(s) == Cardinality({row \in RowsOf(s) : row.before # "COMPLETED"})

CountCoversLog ==
    \A s \in Sagas :
        /\ sagaState[s].count >= CountOfLog(s)
        /\ ~raced /\ NoDuplicates => sagaState[s].count = CountOfLog(s)

(* What is committed is projected: an event behind the committed offset is *)
(* in the log, unless the transaction of its batch failed.                 *)
CommittedIsLogged ==
    \A p \in Partitions : \A o \in 1 .. committed[p] :
        SagaOf[Log[p][o]] # NoSaga => Log[p][o] \in Logged \cup lost

(* Readers of the tables see what ReadModel promises: a transaction adds   *)
(* events together with the completion of their sagas, nothing that was    *)
(* seen is taken back, and offsets only move forward, over what is in the  *)
(* log or was lost, whoever was at the batch.                              *)
Promise == INSTANCE ReadModel WITH
    recorded <- Logged,
    completed <- {s \in Sagas : sagaState[s].status = "COMPLETED"}

ImplementsReadModel == Promise!Spec

(* Compensation is given up only when another batch has changed the saga   *)
(* after this batch had looked it up.                                      *)
RegressNeedsRace ==
    [][\A s \in Sagas :
          sagaState[s].status = "COMPENSATING" /\ sagaState'[s].status = "RUNNING" =>
              \E w \in Workers : /\ job[w].pc = "derived" /\ job'[w].pc = "persisted"
                                 /\ job[w].view[s] # "COMPENSATING"]_vars

(* Every event ends up in the log, or in a batch whose transaction failed. *)
EventsAreProjected == <>[](AllEvents \subseteq Logged \cup lost)

(* "On transaction failure, do NOT resolve offset — let KafkaJS retry the  *)
(* batch" (KafkaProjectorService.processBatch): commits skip no event.     *)
FailedBatchIsRetried ==
    \A p \in Partitions : \A o \in 1 .. committed[p] :
        SagaOf[Log[p][o]] # NoSaga => Log[p][o] \in Logged
=============================================================================
