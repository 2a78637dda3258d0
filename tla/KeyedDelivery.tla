---------------------------- MODULE KeyedDelivery ----------------------------
(***************************************************************************)
(* What a saga transport promises to the application for one partition of  *)
(* a topic: at-least-once delivery (saga-core, custom transports) of a log *)
(* of messages, first handled in log order within each key.                *)
(*                                                                         *)
(* The log is immutable and the acknowledgement is a prefix of it.  How    *)
(* messages are batched, which handlers run together, what fails and what  *)
(* is delivered again is the business of the transport that implements     *)
(* this module: here a message is handled (possibly many times, of which   *)
(* only the first is a step), the acknowledged prefix moves, and, only     *)
(* once the consumer is closed, messages may be given up for good.         *)
(***************************************************************************)
EXTENDS Integers

CONSTANTS
    LogEnd,     \* number of messages in the partition
    Keys,       \* message keys (the saga tree a message belongs to)
    KeyOf       \* the key of the message at each offset

Offsets == 0 .. LogEnd - 1

VARIABLES
    running,    \* FALSE once the consumer has been asked to stop
    committed,  \* every offset below this one is acknowledged to the broker
    handled,    \* offsets whose handler has returned normally at least once
    abandoned   \* offsets acknowledged, or about to be, without being handled

vars == <<running, committed, handled, abandoned>>

Covered(o) == o \in handled \cup abandoned

Init ==
    /\ running = TRUE
    /\ committed = 0
    /\ handled = {}
    /\ abandoned = {}

(* The handler of message o returns for the first time.                    *)
Handle(o) ==
    /\ \A p \in Offsets : p < o /\ KeyOf[p] = KeyOf[o] => Covered(p)
    /\ handled' = handled \cup {o}
    /\ UNCHANGED <<running, committed, abandoned>>

(* The acknowledged prefix moves, forward or back, to one that is covered. *)
Acknowledge(n) ==
    /\ \A o \in Offsets : o < n => Covered(o)
    /\ committed' = n
    /\ UNCHANGED <<running, handled, abandoned>>

(* A closed consumer gives messages up: nobody will deliver them again.    *)
GiveUp(S) ==
    /\ ~running
    /\ S \cap handled = {}
    /\ abandoned' = abandoned \cup S
    /\ UNCHANGED <<running, committed, handled>>

Close ==
    /\ running
    /\ running' = FALSE
    /\ UNCHANGED <<committed, handled, abandoned>>

Next ==
    \/ \E o \in Offsets : Handle(o)
    \/ \E n \in 0 .. LogEnd : Acknowledge(n)
    \/ \E S \in SUBSET Offsets : GiveUp(S)
    \/ Close

Spec == Init /\ [][Next]_vars
=============================================================================
