---------------------------- MODULE MCSagaRunner ----------------------------
(* A small instance of SagaRunner: a message for each interesting mix of   *)
(* participant options, all in progress together.                          *)
EXTENDS SagaRunner, TLC

Route(kind, final, fork, onFail, hook) ==
    [kind |-> kind, final |-> final, fork |-> fork, onFail |-> onFail, hook |-> hook]

(* A final handler with both hooks, a fork with none, and the messages     *)
(* that are handled by a plain handler or by nobody.                       *)
MCMessages == {"final", "fork", "plain", "none"}
MCRouteOf ==
    "final" :> Route("saga", TRUE, FALSE, TRUE, TRUE) @@
    "fork" :> Route("saga", FALSE, TRUE, FALSE, FALSE) @@
    "plain" :> Route("plain", FALSE, FALSE, FALSE, FALSE) @@
    "none" :> Route("none", FALSE, FALSE, FALSE, FALSE)
=============================================================================
