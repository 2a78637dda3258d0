--------------------------- MODULE MCBuiltInMonitor ---------------------------
(* A saga and its child, for TLC. *)
EXTENDS BuiltInMonitor

MCParent == [s \in Sagas |-> IF s = "root" THEN NoSaga ELSE "root"]
=============================================================================
