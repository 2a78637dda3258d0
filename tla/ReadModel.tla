------------------------------ MODULE ReadModel ------------------------------
(***************************************************************************)
(* What the projector of the monitor promises to those who read its        *)
(* tables: the events of all sagas are recorded, each with what it says of *)
(* the completion of its saga, and a consumer that comes back never finds  *)
(* an event behind its offset that is still to be recorded.                *)
(*                                                                         *)
(* How the messages are cut into batches, which workers are at them, what  *)
(* a worker had read before it wrote, and who is given a partition next is *)
(* the business of the projector that implements this module: here a set   *)
(* of new events is recorded in one step, a set of events may be given up, *)
(* and the offset of a partition moves forward.                            *)
(***************************************************************************)
EXTENDS Integers, Sequences

CONSTANTS
    Partitions, \* partitions of all topics
    Log,        \* for each partition, the messages in it
    SagaOf,     \* for each message, its saga, or NoSaga without saga headers
    NoSaga,
    HintOf      \* for each message, its hint

Events == {m \in DOMAIN SagaOf : SagaOf[m] # NoSaga}

(* The sagas that end with an event of E.                                  *)
EndedBy(E) == {SagaOf[m] : m \in {e \in E : HintOf[e] = "final"}}

VARIABLES
    recorded,   \* the events that are in the log of events
    completed,  \* the sagas that are shown as completed
    committed,  \* for each partition, the messages that are acknowledged
    lost        \* the events of writes that failed

vars == <<recorded, completed, committed, lost>>

Init ==
    /\ recorded = {}
    /\ completed = {}
    /\ committed = [p \in Partitions |-> 0]
    /\ lost = {}

(* New events are written, together with the completion of their sagas.    *)
Record(E) ==
    /\ recorded' = recorded \cup E
    /\ completed' = completed \cup EndedBy(E)
    /\ UNCHANGED <<committed, lost>>

(* A write fails: nothing of it is seen, and it is not tried again.        *)
Lose(E) ==
    /\ lost' = lost \cup E
    /\ UNCHANGED <<recorded, completed, committed>>

(* The offset of p moves forward to n, over messages that are of no saga,  *)
(* recorded or lost.                                                       *)
Acknowledge(p, n) ==
    /\ n > committed[p]
    /\ \A o \in 1 .. n : Log[p][o] \in Events => Log[p][o] \in recorded \cup lost
    /\ committed' = [committed EXCEPT ![p] = n]
    /\ UNCHANGED <<recorded, completed, lost>>

Next ==
    \/ \E E \in SUBSET (Events \ recorded) : Record(E)
    \/ \E E \in SUBSET Events : Lose(E)
    \/ \E p \in Partitions : \E n \in 1 .. Len(Log[p]) : Acknowledge(p, n)

Spec == Init /\ [][Next]_vars
=============================================================================
