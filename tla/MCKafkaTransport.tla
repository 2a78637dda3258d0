-------------------------- MODULE MCKafkaTransport --------------------------
(* Small instances of KafkaTransport: a log whose two keys interleave, and *)
(* which starts and ends with a message of the same key.                   *)
EXTENDS KafkaTransport

CONSTANTS a, b      \* the keys, as model values

MCKeys == {a, b}
MCKeyOf == [o \in Offsets |-> IF o % 3 = 0 THEN a ELSE b]
=============================================================================
