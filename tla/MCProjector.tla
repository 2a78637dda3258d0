----------------------------- MODULE MCProjector -----------------------------
(* Small instances of Projector: a saga whose events are on two topics.    *)
EXTENDS Projector, TLC

(* Two workers: on different topics, or one beside another that has lost   *)
(* the same partition.                                                     *)
CONSTANTS w1, w2
MCWorkers == {w1, w2}

MCPartitions == {"orders", "payments"}
MCSagas == {"a", "b"}
MCSagaOf == "comp" :> "a" @@ "final" :> "a" @@ "step" :> "a" @@ "other" :> "b"
            @@ "noise" :> "nosaga"
MCHintOf == "comp" :> "compensation" @@ "final" :> "final" @@ "step" :> "step"
            @@ "other" :> "compensation" @@ "noise" :> "step"

(* Compensation and completion on one topic; on the other, a message of no *)
(* saga, a late step and an event of another saga.                         *)
MCLog == "orders" :> <<"comp", "final">> @@ "payments" :> <<"noise", "step", "other">>
=============================================================================
