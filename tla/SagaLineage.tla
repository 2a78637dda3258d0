----------------------------- MODULE SagaLineage -----------------------------
(***************************************************************************)
(* How sagas get their identity, and how it travels: SagaPublisher (start, *)
(* startChild, emit, emitToParent, forSaga), the context that              *)
(* AsyncLocalStorage carries, the headers built by buildOutboundMessage,   *)
(* SagaParser, and the fork layer of SagaRunner (saga-core/src).           *)
(*                                                                         *)
(* The state is the set of contexts in which user code may be running: one *)
(* is added by start, startChild and the callback of emitToParent, and one *)
(* by the handler of every message that is published.  User code runs in   *)
(* any of them, at any time and any number of times, until it ends, so     *)
(* messages may be handled late or in another order than they were sent.   *)
(*                                                                         *)
(* External: a bridge that hands a message of a saga on with what it says  *)
(* of the saga as W3C baggage, the form without saga headers that          *)
(* SagaParser falls back to.  (The library itself sends no such baggage:   *)
(* injectBaggage sets it on a context in which nothing runs.)  Left out:   *)
(* event and causation ids, names and descriptions, payloads.              *)
(***************************************************************************)
EXTENDS Naturals, Sequences, FiniteSets

CONSTANTS
    MaxSagas,   \* bound on the sagas that are created
    MaxContexts,  \* bound on the contexts that are alive at a time
    GivenKeys,  \* keys that user code may give
    NoKey       \* no key: undefined

ASSUME SagasAssumption == MaxSagas \in Nat /\ MaxContexts \in Nat
ASSUME KeysAssumption == NoKey \notin GivenKeys

Keys == GivenKeys \cup {NoKey}

(* Saga ids (UUIDs) are numbered in the order of their creation.           *)
Sagas == 1 .. MaxSagas
None == 0

VARIABLES
    contexts,   \* SagaContextData of all the code that may be running
    lineage,    \* history: the true ancestors of each saga, parent first
    startKey    \* history: the key that the root of each saga was given

vars == <<contexts, lineage, startKey>>

(* A context also says whether it is the one of a handler, which has an    *)
(* emit bound to its saga, and has two history fields: has a bridge        *)
(* dropped headers on the way here, and has user code given a key since    *)
(* the root was started.                                                   *)
Context == [sagaId : Sagas, rootSagaId : Sagas, parentSagaId : Sagas \cup {None},
            ancestorChain : Seq(Sagas), key : Keys,
            handler : BOOLEAN, bridged : BOOLEAN, rekeyed : BOOLEAN]

Init ==
    /\ contexts = {}
    /\ lineage = <<>>
    /\ startKey = <<>>

-----------------------------------------------------------------------------
(* "a ?? b" on keys.                                                       *)
Else(k, l) == IF k # NoKey THEN k ELSE l

HeadOrNone(chain) == IF chain = <<>> THEN None ELSE Head(chain)

(* buildOutboundMessage: headers exist only for what is defined, and the   *)
(* chain only when it is not empty; the message key defaults to the root.  *)
Message(c) ==
    LET present == {"saga-id", "saga-root-id"}
                   \cup (IF c.parentSagaId # None THEN {"saga-parent-id"} ELSE {})
                   \cup (IF c.ancestorChain # <<>> THEN {"saga-ancestor-chain"} ELSE {})
                   \cup (IF c.key # NoKey THEN {"saga-key"} ELSE {})
        value == [h \in {"saga-id", "saga-root-id", "saga-parent-id",
                         "saga-ancestor-chain", "saga-key"} |->
                     CASE h = "saga-id" -> c.sagaId
                       [] h = "saga-root-id" -> c.rootSagaId
                       [] h = "saga-parent-id" -> c.parentSagaId
                       [] h = "saga-ancestor-chain" -> c.ancestorChain
                       [] h = "saga-key" -> c.key]
    IN [headers |-> [h \in present |-> value[h]],
        key |-> IF c.key # NoKey THEN c.key ELSE c.rootSagaId]

(* The message without its saga headers, from a bridge that has written    *)
(* their baggage form.                                                     *)
Bridged(c) ==
    LET present == {"saga.id", "saga.root.id"}
                   \cup (IF c.parentSagaId # None THEN {"saga.parent.id"} ELSE {})
    IN [headers |-> [h \in {"baggage"} |->
                        [b \in present |->
                            IF b = "saga.id" THEN c.sagaId
                            ELSE IF b = "saga.root.id" THEN c.rootSagaId
                            ELSE c.parentSagaId]],
        key |-> c.rootSagaId]

Get(f, h, default) == IF h \in DOMAIN f THEN f[h] ELSE default

FromHeaders(h) ==
    [sagaId |-> h["saga-id"],
     rootSagaId |-> Get(h, "saga-root-id", h["saga-id"]),
     parentSagaId |-> Get(h, "saga-parent-id", None),
     ancestorChain |-> Get(h, "saga-ancestor-chain", <<>>),
     key |-> Get(h, "saga-key", NoKey)]

FromBaggage(b) ==
    [sagaId |-> b["saga.id"],
     rootSagaId |-> Get(b, "saga.root.id", b["saga.id"]),
     parentSagaId |-> Get(b, "saga.parent.id", None),
     ancestorChain |-> <<>>,
     key |-> NoKey]

(* SagaParser.parse: the headers when there is a saga-id, the baggage      *)
(* otherwise.  It yields the context of the handler of the message.        *)
Parse(message, isBridged, isRekeyed) ==
    LET h == message.headers
        event == IF "saga-id" \in DOMAIN h THEN FromHeaders(h) ELSE FromBaggage(h["baggage"])
    IN [sagaId |-> event.sagaId, rootSagaId |-> event.rootSagaId,
        parentSagaId |-> event.parentSagaId, ancestorChain |-> event.ancestorChain,
        key |-> event.key,
        handler |-> TRUE, bridged |-> isBridged, rekeyed |-> isRekeyed]

-----------------------------------------------------------------------------

(* A saga is created: its id is new, and its true ancestors are recorded.  *)
NewSaga == Len(lineage) + 1

Create(ancestors, key) ==
    /\ NewSaga <= MaxSagas
    /\ lineage' = Append(lineage, ancestors)
    /\ startKey' = Append(startKey, key)

(* Code begins to run in the new contexts.                                 *)
Enter(new) ==
    /\ contexts' = contexts \cup new
    /\ Cardinality(contexts') <= MaxContexts

(* SagaPublisher.publish of an event of context c, with the key given to   *)
(* emit, and the context of its handler.  new are contexts created with it.*)
Publish(c, key, new) ==
    LET event == [c EXCEPT !.key = Else(key, c.key),
                           !.rekeyed = c.rekeyed \/ key # NoKey]
    IN Enter(new \cup {Parse(Message(event), event.bridged, event.rekeyed)})

(* start outside of any context, or independent of the one it is in.       *)
RootContext(key) ==
    [sagaId |-> NewSaga, rootSagaId |-> NewSaga, parentSagaId |-> None,
     ancestorChain |-> <<>>, key |-> key,
     handler |-> FALSE, bridged |-> FALSE, rekeyed |-> FALSE]

Start(key) ==
    /\ Create(<<>>, key)
    /\ Enter({RootContext(key)})

(* Mutant: a child is the root of its own tree.                            *)
Mutant_ChildContextIsRoot(c, key) ==
    [sagaId |-> NewSaga, rootSagaId |-> NewSaga, parentSagaId |-> c.sagaId,
     ancestorChain |-> <<c.sagaId>> \o c.ancestorChain, key |-> Else(key, c.key),
     handler |-> FALSE, bridged |-> c.bridged, rekeyed |-> c.rekeyed \/ key # NoKey]

(* startChild, and start inside of a context.                              *)
ChildContext(c, key) ==
    [sagaId |-> NewSaga, rootSagaId |-> c.rootSagaId, parentSagaId |-> c.sagaId,
     ancestorChain |-> <<c.sagaId>> \o c.ancestorChain, key |-> Else(key, c.key),
     handler |-> FALSE, bridged |-> c.bridged, rekeyed |-> c.rekeyed \/ key # NoKey]

StartChild(c, key) ==
    /\ Create(<<c.sagaId>> \o lineage[c.sagaId], startKey[c.rootSagaId])
    /\ Enter({ChildContext(c, key)})

(* emit in the current context.                                            *)
Emit(c, key) ==
    /\ Publish(c, key, {})
    /\ UNCHANGED <<lineage, startKey>>

(* Mutant: the chain of the parent still holds the parent.                 *)
Mutant_ParentContextKeepsChain(c) ==
    [c EXCEPT !.sagaId = c.parentSagaId, !.handler = FALSE,
              !.parentSagaId = IF Len(c.ancestorChain) > 1 THEN c.ancestorChain[2] ELSE None]

(* The parent as emitToParent rebuilds it from the ancestor chain.         *)
ParentContext(c) ==
    LET chain == IF c.ancestorChain = <<>> THEN <<>> ELSE Tail(c.ancestorChain)
    IN [c EXCEPT !.sagaId = c.parentSagaId, !.parentSagaId = HeadOrNone(chain),
                 !.ancestorChain = chain, !.handler = FALSE]

EmitToParent(c, key) ==
    /\ c.parentSagaId # None
    /\ Publish(ParentContext(c), key, {})
    /\ UNCHANGED <<lineage, startKey>>

(* emitToParent with a callback, which runs in the context of the parent.  *)
RunInParent(c) ==
    /\ c.parentSagaId # None
    /\ Enter({ParentContext(c)})
    /\ UNCHANGED <<lineage, startKey>>

(* The emit of a handler with { fork: true }: a sub-saga for every event.  *)
ForkEmit(c, key) ==
    /\ c.handler
    /\ Create(<<c.sagaId>> \o lineage[c.sagaId], startKey[c.rootSagaId])
    /\ Publish(ChildContext(c, NoKey), key, {})

(* Mutant: the key of the context wins over that of the message.           *)
Mutant_EmitInsideAmbientKey(c, inner, innerKey) ==
    LET d == IF inner = "child" THEN ChildContext(c, innerKey) ELSE RootContext(innerKey)
    IN /\ c.handler
       /\ IF inner = "child"
          THEN Create(<<c.sagaId>> \o lineage[c.sagaId], startKey[c.rootSagaId])
          ELSE Create(<<>>, innerKey)
       /\ Publish([c EXCEPT !.key = Else(d.key, c.key),
                            !.rekeyed = c.rekeyed \/ d.rekeyed],
                  NoKey, {d})

(* The emit of a handler is bound to the saga of the handler, but takes a  *)
(* key that neither the caller nor the message has from the context it is  *)
(* called in: here the callback of start (independent) or startChild.      *)
EmitInside(c, inner, innerKey) ==
    LET d == IF inner = "child" THEN ChildContext(c, innerKey) ELSE RootContext(innerKey)
    IN /\ c.handler
       /\ IF inner = "child"
          THEN Create(<<c.sagaId>> \o lineage[c.sagaId], startKey[c.rootSagaId])
          ELSE Create(<<>>, innerKey)
       /\ Publish([c EXCEPT !.key = Else(c.key, d.key),
                            !.rekeyed = c.rekeyed \/ d.rekeyed],
                  NoKey, {d})

(* A message of context c is handled in the form that the bridge gives it. *)
Bridge(c) ==
    /\ Enter({Parse(Bridged(c), TRUE, c.rekeyed)})
    /\ UNCHANGED <<lineage, startKey>>

(* The code of context c, and the last handler of its messages, have ended. *)
Leave(c) ==
    /\ contexts' = contexts \ {c}
    /\ UNCHANGED <<lineage, startKey>>

Next ==
    \/ \E key \in Keys : Start(key)
    \/ \E c \in contexts :
         \/ \E key \in Keys :
              \/ StartChild(c, key)
              \/ Emit(c, key)
              \/ EmitToParent(c, key)
              \/ ForkEmit(c, key)
              \/ \E inner \in {"child", "independent"} : EmitInside(c, inner, key)
         \/ RunInParent(c)
         \/ Bridge(c)
         \/ Leave(c)

Spec == Init /\ [][Next]_vars

-----------------------------------------------------------------------------
Count == Len(lineage)

TypeOK ==
    /\ contexts \subseteq Context
    /\ Count <= MaxSagas
    /\ lineage \in Seq(Seq(Sagas))
    /\ startKey \in Seq(Keys)
    /\ Len(startKey) = Count

TrueRoot(s) == IF lineage[s] = <<>> THEN s ELSE lineage[s][Len(lineage[s])]

IsPrefixOf(s, t) == Len(s) <= Len(t) /\ \A n \in 1 .. Len(s) : s[n] = t[n]

(* Every piece of code, however deep in children, forks, parents and       *)
(* bridges, runs in a saga that exists and knows its true root: the key    *)
(* and the tree of everything it emits.                                    *)
RootIsTrue ==
    \A c \in contexts : c.sagaId <= Count /\ c.rootSagaId = TrueRoot(c.sagaId)

(* As long as headers are preserved, a context knows its whole ancestry,   *)
(* so emitToParent works again at every level ("multi-level bubbling").    *)
AncestryIsTrue ==
    \A c \in contexts : ~c.bridged =>
        /\ c.ancestorChain = lineage[c.sagaId]
        /\ c.parentSagaId = HeadOrNone(lineage[c.sagaId])

(* Without headers the ancestry may be cut short, but what is left of it   *)
(* is true: no event goes to a saga that is not an ancestor.               *)
BridgedAncestryIsPrefix ==
    \A c \in contexts :
        /\ IsPrefixOf(c.ancestorChain, lineage[c.sagaId])
        /\ c.parentSagaId \in {None, HeadOrNone(lineage[c.sagaId])}

(* A tree that is started with a key keeps it: children, forks, parents    *)
(* and nested emits all publish with it, until user code gives another in  *)
(* the same tree.  In particular none takes the key of an independent saga *)
(* in whose callback it is published.                                      *)
StartKeySticks ==
    \A c \in contexts :
        LET given == startKey[c.rootSagaId]
        IN given # NoKey /\ ~c.rekeyed /\ ~c.bridged => c.key = given

(* The true ancestors of a saga are its parent and the ancestors of that.  *)
LineageIsClosed ==
    \A s \in 1 .. Count :
        /\ lineage[s] \in Seq(1 .. Count)
        /\ lineage[s] # <<>> => lineage[s] = <<lineage[s][1]>> \o lineage[lineage[s][1]]

(* The invariant that is inductive.                                        *)
IInv == TypeOK /\ RootIsTrue /\ AncestryIsTrue /\ BridgedAncestryIsPrefix
        /\ StartKeySticks /\ LineageIsClosed
=============================================================================
