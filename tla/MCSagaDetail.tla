---------------------------- MODULE MCSagaDetail ----------------------------
(* A saga, a saga forked by it, and one started by the fork.               *)
EXTENDS SagaTimeline

(* Events of three sagas on three topics: a fork, a sub-saga of it, an     *)
(* event back to the root that ends it, and a late one after a long gap.   *)
MCHistory == <<
    [saga |-> "a", parent |-> None, cause |-> 0, hint |-> "step", topic |-> "x", time |-> 0],
    [saga |-> "b", parent |-> "a", cause |-> 1, hint |-> "fork", topic |-> "y", time |-> 2],
    [saga |-> "c", parent |-> "b", cause |-> 2, hint |-> "step", topic |-> "z", time |-> 3],
    [saga |-> "b", parent |-> "a", cause |-> 2, hint |-> "final", topic |-> "x", time |-> 5],
    [saga |-> "c", parent |-> "b", cause |-> 3, hint |-> "step", topic |-> "y", time |-> 6],
    [saga |-> "a", parent |-> None, cause |-> 4, hint |-> "final", topic |-> "z", time |-> 20]>>
=============================================================================
