----------------------------- MODULE SagaTimeline -----------------------------
(***************************************************************************)
(* The timeline of the page of a saga: buildTimelineTree and what          *)
(* LiveDetail gives it (examples/monitor).                                 *)
(***************************************************************************)
EXTENDS SagaDetail

AllEvents == FlattenSeq([n \in DOMAIN pages |-> SetToSortSeq(pages[n].data, <)])

(* allTreeEvents of LiveDetail: without events of the tree, the pages.     *)
TimelineEvents == IF TreeEvents = {} THEN AllEvents ELSE SetToSortSeq(TreeEvents, <)

OfSaga(es, s) == SelectSeq(es, LAMBDA e : History[e].saga = s)

(* The child sagas of s that have an event among es, in their order.       *)
ChildrenOf(es, s) ==
    LET firsts == SelectSeq(es, LAMBDA e : /\ History[e].parent = s
                                           /\ Head(OfSaga(es, History[e].saga)) = e)
    IN [n \in DOMAIN firsts |-> History[firsts[n]].saga]

(* Mutant: a child whose cause is not in its parent saga is left out.      *)
Mutant_OrphansAreDropped(es, s) == <<>>

(* The child sagas that no event of s has caused.                          *)
Orphans(es, s) ==
    SelectSeq(ChildrenOf(es, s), LAMBDA c :
        \A e \in ToSet(OfSaga(es, s)) : History[Head(OfSaga(es, c))].cause # e)

RECURSIVE Bump(_)
Bump(node) ==
    [node EXCEPT !.depth = @ + 1, !.children = [n \in DOMAIN @ |-> Bump(@[n])]]

(* buildNodes: the events of a saga; child sagas hang below the event that *)
(* caused them, or else below the last event.  Of a child saga, all events *)
(* are nested under the first one.                                         *)
RECURSIVE Nodes(_, _, _, _)
Nodes(es, s, depth, isChild) ==
    LET own == OfSaga(es, s)
        kids == ChildrenOf(es, s)
        orphans == Orphans(es, s)
        of(children) == FlattenSeq([n \in DOMAIN children |->
                                       Nodes(es, children[n], depth + 1, TRUE)])
        caused(e) == SelectSeq(kids, LAMBDA c : History[Head(OfSaga(es, c))].cause = e)
        nodes == [n \in DOMAIN own |->
                     [event |-> own[n], depth |-> depth,
                      children |-> of(caused(own[n]))
                                   \o IF n = Len(own) THEN of(orphans) ELSE <<>>]]
    IN IF isChild /\ Len(nodes) > 1
       THEN <<[nodes[1] EXCEPT !.children =
                  [n \in 1 .. Len(nodes) - 1 |-> Bump(nodes[n + 1])] \o @]>>
       ELSE nodes

(* buildTimelineTree starts with the saga of the first event that has no   *)
(* parent, or else of the first event.                                     *)
TimelineRoot(es) ==
    LET roots == SelectSeq(es, LAMBDA e : IsRoot(History[e].saga))
    IN History[IF roots # <<>> THEN roots[1] ELSE es[1]].saga

Timeline(es) == IF es = <<>> THEN <<>> ELSE Nodes(es, TimelineRoot(es), 0, FALSE)

-----------------------------------------------------------------------------
(* The events of the timeline in the order of the page, with all that are  *)
(* above each of them.                                                     *)
RECURSIVE Shown(_, _)
Shown(nodes, above) ==
    FlattenSeq([n \in DOMAIN nodes |->
        <<[event |-> nodes[n].event, above |-> above]>>
        \o Shown(nodes[n].children, above \cup {nodes[n].event})])

(* If the list begins with the saga of the page and has no gap in the      *)
(* ancestry, each event is in the timeline once, below the event that has  *)
(* caused its saga, however deep sagas are nested and whichever of their   *)
(* events are not there yet.                                               *)
TimelineIsWhole ==
    LET es == TimelineEvents
        shown == Shown(Timeline(es), {})
        sagas == {History[e].saga : e \in ToSet(es)}
    IN es # <<>> /\ TimelineRoot(es) = viewed
       /\ (\A s \in sagas \ {viewed} : ParentOf(s) \in sagas) =>
          /\ Len(shown) = Len(es)
          /\ {node.event : node \in ToSet(shown)} = ToSet(es)
          /\ \A node \in ToSet(shown) :
                LET e == node.event
                    s == History[e].saga
                    cause == History[Head(OfSaga(es, s))].cause
                IN s # viewed /\ cause \in ToSet(OfSaga(es, ParentOf(s))) => cause \in node.above
=============================================================================
