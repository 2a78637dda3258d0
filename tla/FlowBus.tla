------------------------------ MODULE FlowBus ------------------------------
(***************************************************************************)
(* What the flows of the order-saga example see of the library and Kafka:  *)
(* a set of messages that only grows, in which a participant finds the     *)
(* messages of its topic in any order, and the sagas they belong to.       *)
(*                                                                         *)
(* This is the abstraction that KafkaTransport, SagaRunner and SagaLineage *)
(* justify: topics are consumed independently of each other, a handled     *)
(* message can be delivered again, and a saga is identified by its path    *)
(* from the root.                                                          *)
(***************************************************************************)
EXTENDS Naturals, FiniteSets, SequencesExt

VARIABLES bus,          \* every message ever published
          handled       \* ids of the messages whose handler has run

\* The ids of what the handlers of m publish: the id of m, which is their causation id, and a
\* number.  A saga has the id of the message that opens it, a record that of the message that
\* announces it.
NewId(m, i) == Append(m.id, i + Cardinality({n \in bus : Front(n.id) = m.id}))

Publish(m, ms) == bus' = bus \cup {[ms[i] EXCEPT !.id = NewId(m, i)] : i \in DOMAIN ms}

\* A message in the saga of m, about the same records; in a sub-saga (fork, startChild) that
\* opens with the i-th message published; in the parent (emitToParent).
Same(m, topic, hint)     == [m EXCEPT !.topic = topic, !.hint = hint]
Child(m, topic, hint, i) == [Same(m, topic, hint) EXCEPT !.saga = Append(@, NewId(m, i))]
ToParent(m, topic, hint) == [Same(m, topic, hint) EXCEPT !.saga = Front(@)]

\* m waits for the participant of its topic; its handler has run.
Arrives(m, topic) == m.topic = topic /\ m.id \notin handled
HandledNow(m)     == handled' = handled \cup {m.id}

Topic(t) == {m \in bus : m.topic = t}
=============================================================================
