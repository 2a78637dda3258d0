------------------------- MODULE SagaLineage_proofs -------------------------
(***************************************************************************)
(* Proofs about SagaLineage: in a tree of any depth, through children,     *)
(* forks, parents and bridges, every context knows its true root, is right *)
(* about its ancestors, and keeps the key of the tree.                     *)
(*                                                                         *)
(* IInv is the conjunction of these facts about every context and of the   *)
(* closure of the lineage.  The first lemmas show that each way to derive  *)
(* a context from one of which the facts hold gives such a context again;  *)
(* the proof of the step then has little left to do.                       *)
(***************************************************************************)
EXTENDS SagaLineage, SequenceTheorems, TLAPS

(* The facts about one context, over a given lineage.                      *)
RootIn(lin, s) == IF lin[s] = <<>> THEN s ELSE lin[s][Len(lin[s])]

Right(c, lin, keys) ==
    /\ c \in Context
    /\ c.sagaId <= Len(lin)
    /\ c.rootSagaId = RootIn(lin, c.sagaId)
    /\ ~c.bridged => /\ c.ancestorChain = lin[c.sagaId]
                     /\ c.parentSagaId = HeadOrNone(lin[c.sagaId])
    /\ IsPrefixOf(c.ancestorChain, lin[c.sagaId])
    /\ c.parentSagaId \in {None, HeadOrNone(lin[c.sagaId])}
    /\ keys[c.rootSagaId] # NoKey /\ ~c.rekeyed /\ ~c.bridged => c.key = keys[c.rootSagaId]

Closed(lin, keys) ==
    /\ lin \in Seq(Seq(Sagas))
    /\ keys \in Seq(Keys)
    /\ Len(lin) <= MaxSagas
    /\ Len(keys) = Len(lin)
    /\ \A s \in 1 .. Len(lin) :
          /\ lin[s] \in Seq(1 .. Len(lin))
          /\ lin[s] # <<>> => lin[s] = <<lin[s][1]>> \o lin[lin[s][1]]

(* The parts of the invariant.                                             *)
LEMMA IInvUnfolds ==
    IInv <=> /\ Closed(lineage, startKey)
             /\ \A c \in contexts : Right(c, lineage, startKey)
BY DEF IInv, TypeOK, RootIsTrue, AncestryIsTrue, BridgedAncestryIsPrefix, StartKeySticks,
       LineageIsClosed, Closed, Right, RootIn, TrueRoot, Count

(* The same for the next state.                                            *)
LEMMA IInvUnfoldsNext ==
    IInv' <=> /\ Closed(lineage', startKey')
              /\ \A c \in contexts' : Right(c, lineage', startKey')
BY DEF IInv, TypeOK, RootIsTrue, AncestryIsTrue, BridgedAncestryIsPrefix, StartKeySticks,
       LineageIsClosed, Closed, Right, RootIn, TrueRoot, Count

-----------------------------------------------------------------------------

(* Sequences with a first element.                                         *)
LEMMA Prepended ==
    ASSUME NEW S, NEW p \in S, NEW t \in Seq(S)
    PROVE  /\ <<p>> \o t \in Seq(S)
           /\ <<p>> \o t # <<>>
           /\ Len(<<p>> \o t) = Len(t) + 1
           /\ (<<p>> \o t)[1] = p
           /\ \A i \in 1 .. Len(t) : (<<p>> \o t)[i + 1] = t[i]
           /\ Head(<<p>> \o t) = p
           /\ Tail(<<p>> \o t) = t
<1>1. <<p>> \in Seq(S) /\ Len(<<p>>) = 1 /\ <<p>>[1] = p
  OBVIOUS
<1>2. /\ <<p>> \o t \in Seq(S)
      /\ Len(<<p>> \o t) = Len(t) + 1
      /\ (<<p>> \o t)[1] = p
      /\ \A i \in 1 .. Len(t) : (<<p>> \o t)[i + 1] = t[i]
  BY <1>1, ConcatProperties
<1>3. <<p>> \o t # <<>>
  BY <1>2
<1>4. Head(<<p>> \o t) = p
  BY <1>2
<1>5. Tail(<<p>> \o t) = t
  <2>1. /\ Tail(<<p>> \o t) \in Seq(S)
        /\ Len(Tail(<<p>> \o t)) = Len(t)
        /\ \A i \in 1 .. Len(t) : Tail(<<p>> \o t)[i] = (<<p>> \o t)[i + 1]
    BY <1>2, <1>3, HeadTailProperties
  <2> QED  BY <2>1, <1>2, SeqEqual
<1> QED  BY <1>2, <1>3, <1>4, <1>5

(* A context belongs to a saga that was created, and so does its root.     *)
LEMMA RightIsInRange ==
    ASSUME NEW lin, NEW keys, Closed(lin, keys), NEW c, Right(c, lin, keys)
    PROVE  /\ c.sagaId \in 1 .. Len(lin) /\ c.sagaId \in Sagas
           /\ c.rootSagaId \in 1 .. Len(lin)
<1>1. c.sagaId \in 1 .. Len(lin) /\ c.sagaId \in Sagas
  BY SagasAssumption DEF Right, Closed, Context, Sagas
<1>2. RootIn(lin, c.sagaId) \in 1 .. Len(lin)
  <2>1. CASE lin[c.sagaId] = <<>>
    BY <1>1, <2>1 DEF RootIn
  <2>2. CASE lin[c.sagaId] # <<>>
    <3>1. lin[c.sagaId] \in Seq(1 .. Len(lin))
      BY <1>1 DEF Closed
    <3>2. Len(lin[c.sagaId]) \in 1 .. Len(lin[c.sagaId])
      BY <3>1, <2>2, EmptySeq
    <3> QED  BY <3>1, <3>2, <2>2, ElementOfSeq DEF RootIn
  <2> QED  BY <2>1, <2>2
<1> QED  BY <1>1, <1>2 DEF Right

(* What is right about a context stays right when a saga is created.       *)
LEMMA RightAfterCreate ==
    ASSUME NEW lin, NEW keys, Closed(lin, keys),
           NEW c, Right(c, lin, keys),
           NEW chain \in Seq(Sagas), NEW key \in Keys
    PROVE  Right(c, Append(lin, chain), Append(keys, key))
<1>1. /\ Len(Append(lin, chain)) = Len(lin) + 1
      /\ \A s \in 1 .. Len(lin) : Append(lin, chain)[s] = lin[s]
      /\ \A s \in 1 .. Len(lin) : Append(keys, key)[s] = keys[s]
  BY AppendProperties DEF Closed
<1>2. c.sagaId \in 1 .. Len(lin) /\ RootIn(lin, c.sagaId) \in 1 .. Len(lin)
  BY RightIsInRange DEF Right
<1>4. RootIn(Append(lin, chain), c.sagaId) = RootIn(lin, c.sagaId)
  BY <1>1, <1>2 DEF RootIn
<1>5. c.sagaId <= Len(Append(lin, chain))
  BY <1>1, <1>2
<1> QED  BY <1>1, <1>2, <1>4, <1>5 DEF Right

(* The lineage stays closed when a root or a child is created.             *)
LEMMA ClosedAfterRoot ==
    ASSUME NEW lin, NEW keys, Closed(lin, keys), Len(lin) + 1 <= MaxSagas,
           NEW key \in Keys
    PROVE  Closed(Append(lin, <<>>), Append(keys, key))
<1> DEFINE new == Append(lin, <<>>)
<1>1. /\ Len(lin) \in Nat
      /\ Len(new) = Len(lin) + 1
      /\ new \in Seq(Seq(Sagas))
      /\ \A s \in 1 .. Len(lin) : new[s] = lin[s]
      /\ new[Len(lin) + 1] = <<>>
  BY AppendProperties, EmptySeq, LenProperties DEF Closed
<1>2. /\ Append(keys, key) \in Seq(Keys)
      /\ Len(Append(keys, key)) = Len(keys) + 1
  BY AppendProperties DEF Closed
<1> HIDE DEF new
<1>3. ASSUME NEW s \in 1 .. Len(new)
      PROVE  /\ new[s] \in Seq(1 .. Len(new))
             /\ new[s] # <<>> => new[s] = <<new[s][1]>> \o new[new[s][1]]
  <2>1. CASE s = Len(lin) + 1
    BY <2>1, <1>1, EmptySeq
  <2>2. CASE s \in 1 .. Len(lin)
    <3>1. new[s] \in Seq(1 .. Len(lin)) /\ new[s] = lin[s]
      BY <2>2, <1>1 DEF Closed
    <3>2. 1 .. Len(lin) \subseteq 1 .. Len(new)
      BY <1>1
    <3>3. new[s] \in Seq(1 .. Len(new))
      BY <3>1, <3>2, SeqMonotonic
    <3>4. ASSUME new[s] # <<>>  PROVE  new[s] = <<new[s][1]>> \o new[new[s][1]]
      <4>1. new[s][1] \in 1 .. Len(lin)
        BY <3>1, <3>4, EmptySeq, ElementOfSeq
      <4> QED  BY <4>1, <3>1, <3>4, <2>2, <1>1 DEF Closed
    <3> QED  BY <3>3, <3>4
  <2> QED  BY <2>1, <2>2, <1>1
<1>4. Closed(new, Append(keys, key))
  BY <1>1, <1>2, <1>3 DEF Closed
<1> QED  BY <1>4 DEF new

(* A child keeps the ancestors closed.                                     *)
LEMMA ClosedAfterChild ==
    ASSUME NEW lin, NEW keys, Closed(lin, keys), Len(lin) + 1 <= MaxSagas,
           NEW p \in 1 .. Len(lin), NEW key \in Keys
    PROVE  Closed(Append(lin, <<p>> \o lin[p]), Append(keys, key))
<1> DEFINE new == Append(lin, <<p>> \o lin[p])
<1>1. lin[p] \in Seq(1 .. Len(lin)) /\ Len(lin) \in Nat
  BY LenProperties DEF Closed
<1>2. /\ <<p>> \o lin[p] \in Seq(1 .. Len(lin))
      /\ (<<p>> \o lin[p])[1] = p
  BY <1>1, Prepended
<1>3. 1 .. Len(lin) \subseteq Sagas
  BY <1>1, SagasAssumption DEF Sagas
<1>4. <<p>> \o lin[p] \in Seq(Sagas)
  BY <1>2, <1>3, SeqMonotonic
<1>5. /\ Len(new) = Len(lin) + 1
      /\ new \in Seq(Seq(Sagas))
      /\ \A s \in 1 .. Len(lin) : new[s] = lin[s]
      /\ new[Len(lin) + 1] = <<p>> \o lin[p]
  BY <1>4, AppendProperties DEF Closed
<1>6. /\ Append(keys, key) \in Seq(Keys)
      /\ Len(Append(keys, key)) = Len(keys) + 1
  BY AppendProperties DEF Closed
<1> HIDE DEF new
<1>7. ASSUME NEW s \in 1 .. Len(new)
      PROVE  /\ new[s] \in Seq(1 .. Len(new))
             /\ new[s] # <<>> => new[s] = <<new[s][1]>> \o new[new[s][1]]
  <2>0. 1 .. Len(lin) \subseteq 1 .. Len(new)
    BY <1>1, <1>5
  <2>1. CASE s = Len(lin) + 1
    <3>1. <<p>> \o lin[p] \in Seq(1 .. Len(new))
      BY <2>0, <1>2, SeqMonotonic
    <3>2. new[s][1] = p /\ new[p] = lin[p]
      BY <2>1, <1>2, <1>5
    <3> QED  BY <3>1, <3>2, <2>1, <1>5
  <2>2. CASE s \in 1 .. Len(lin)
    <3>1. new[s] \in Seq(1 .. Len(lin)) /\ new[s] = lin[s]
      BY <2>2, <1>5 DEF Closed
    <3>2. new[s] \in Seq(1 .. Len(new))
      BY <3>1, <2>0, SeqMonotonic
    <3>3. ASSUME new[s] # <<>>  PROVE  new[s] = <<new[s][1]>> \o new[new[s][1]]
      <4>1. new[s][1] \in 1 .. Len(lin)
        BY <3>1, <3>3, EmptySeq, ElementOfSeq
      <4> QED  BY <4>1, <3>1, <3>3, <2>2, <1>5 DEF Closed
    <3> QED  BY <3>2, <3>3
  <2>3. Len(lin) \in Nat /\ Len(new) = Len(lin) + 1
    BY <1>1, <1>5
  <2>4. s = Len(lin) + 1 \/ s \in 1 .. Len(lin)
    BY <2>3
  <2> QED  BY <2>1, <2>2, <2>4
<1>8. Closed(new, Append(keys, key))
  BY <1>5, <1>6, <1>7, <1>1 DEF Closed
<1> QED  BY <1>8 DEF new

-----------------------------------------------------------------------------

(* The context of a new tree.                                              *)
LEMMA RootIsRight ==
    ASSUME Closed(lineage, startKey), NewSaga <= MaxSagas, NEW key \in Keys
    PROVE  Right(RootContext(key), Append(lineage, <<>>), Append(startKey, key))
<1> DEFINE lin == Append(lineage, <<>>)
           keys == Append(startKey, key)
           n == Len(lineage) + 1
<1>1. /\ Len(lineage) \in Nat
      /\ Len(lin) = n
      /\ lin[n] = <<>>
      /\ keys[n] = key
  BY AppendProperties, EmptySeq, LenProperties DEF Closed
<1>2. n \in Sagas
  BY <1>1, SagasAssumption DEF NewSaga, Sagas
<1> DEFINE c == RootContext(key)
<1>3. /\ c \in Context
      /\ c.sagaId = n /\ c.rootSagaId = n /\ c.parentSagaId = None
      /\ c.ancestorChain = <<>> /\ c.key = key
  BY <1>2, EmptySeq DEF RootContext, Context, NewSaga
<1> HIDE DEF lin, keys, n, c
<1>4. IsPrefixOf(<<>>, <<>>)
  BY EmptySeq DEF IsPrefixOf
<1>5. Right(c, lin, keys)
  BY <1>1, <1>2, <1>3, <1>4 DEF Right, RootIn, HeadOrNone, Sagas
<1> QED  BY <1>5 DEF lin, keys, n, c

(* The context of a child of c, for any key that is given.                 *)
LEMMA ChildIsRight ==
    ASSUME Closed(lineage, startKey), NewSaga <= MaxSagas,
           NEW c, Right(c, lineage, startKey), NEW key \in Keys, NEW any \in Keys
    PROVE  Right(ChildContext(c, key), Append(lineage, <<c.sagaId>> \o lineage[c.sagaId]),
                 Append(startKey, any))
<1> DEFINE chain == <<c.sagaId>> \o lineage[c.sagaId]
           lin == Append(lineage, chain)
           keys == Append(startKey, any)
           n == Len(lineage) + 1
           d == ChildContext(c, key)
<1>1. /\ Len(lineage) \in Nat
      /\ c \in Context
      /\ c.sagaId \in 1 .. Len(lineage)
  BY LenProperties, SagasAssumption DEF Closed, Right, Context, Sagas
<1>2. lineage[c.sagaId] \in Seq(1 .. Len(lineage)) /\ lineage[c.sagaId] \in Seq(Sagas)
  BY <1>1, ElementOfSeq DEF Closed
<1>3. /\ chain \in Seq(Sagas) /\ chain # <<>>
      /\ Len(chain) = Len(lineage[c.sagaId]) + 1
      /\ chain[1] = c.sagaId
      /\ Head(chain) = c.sagaId
      /\ \A i \in 1 .. Len(lineage[c.sagaId]) : chain[i + 1] = lineage[c.sagaId][i]
  BY <1>1, <1>2, Prepended DEF Context
<1>4. /\ <<c.sagaId>> \o c.ancestorChain \in Seq(Sagas)
      /\ Len(<<c.sagaId>> \o c.ancestorChain) = Len(c.ancestorChain) + 1
      /\ (<<c.sagaId>> \o c.ancestorChain)[1] = c.sagaId
      /\ \A i \in 1 .. Len(c.ancestorChain) :
            (<<c.sagaId>> \o c.ancestorChain)[i + 1] = c.ancestorChain[i]
  BY <1>1, Prepended DEF Context
<1> HIDE DEF chain
<1>5. /\ Len(lin) = n
      /\ lin[n] = chain
      /\ \A s \in 1 .. Len(lineage) : lin[s] = lineage[s]
      /\ \A s \in 1 .. Len(lineage) : keys[s] = startKey[s]
  BY <1>3, AppendProperties DEF Closed
<1>6. n \in Sagas /\ n \in Nat
  BY <1>1, SagasAssumption DEF NewSaga, Sagas
<1>7. /\ d \in Context
      /\ d.sagaId = n /\ d.rootSagaId = c.rootSagaId /\ d.parentSagaId = c.sagaId
      /\ d.ancestorChain = <<c.sagaId>> \o c.ancestorChain
      /\ d.key = Else(key, c.key)
      /\ d.bridged = c.bridged
      /\ d.rekeyed = (c.rekeyed \/ key # NoKey)
  BY <1>1, <1>4, <1>6 DEF ChildContext, Context, NewSaga, Else
<1> HIDE DEF lin, keys, n, d
<1>8. /\ RootIn(lin, n) = RootIn(lineage, c.sagaId)
      /\ RootIn(lineage, c.sagaId) \in 1 .. Len(lineage)
  <2>1. CASE lineage[c.sagaId] = <<>>
    <3>1. Len(lineage[c.sagaId]) = 0
      BY <2>1
    <3>2. Len(chain) = 1
      BY <3>1, <1>3
    <3>3. RootIn(lin, n) = c.sagaId
      BY <3>2, <1>3, <1>5 DEF RootIn
    <3>4. RootIn(lineage, c.sagaId) = c.sagaId
      BY <2>1 DEF RootIn
    <3> QED  BY <3>3, <3>4, <1>1
  <2>2. CASE lineage[c.sagaId] # <<>>
    <3>1. Len(lineage[c.sagaId]) \in 1 .. Len(lineage[c.sagaId])
      BY <1>2, <2>2, EmptySeq
    <3>2. lineage[c.sagaId][Len(lineage[c.sagaId])] \in 1 .. Len(lineage)
      BY <1>2, <3>1, ElementOfSeq
    <3> QED  BY <2>2, <3>1, <3>2, <1>3, <1>5 DEF RootIn
  <2> QED  BY <2>1, <2>2
<1>9. d.rootSagaId = RootIn(lin, d.sagaId) /\ keys[d.rootSagaId] = startKey[c.rootSagaId]
  BY <1>5, <1>7, <1>8 DEF Right
<1>10. ~d.bridged => /\ d.ancestorChain = lin[d.sagaId]
                     /\ d.parentSagaId = HeadOrNone(lin[d.sagaId])
  BY <1>3, <1>5, <1>7 DEF Right, HeadOrNone, chain
<1>11. IsPrefixOf(d.ancestorChain, lin[d.sagaId])
  <2>1. IsPrefixOf(c.ancestorChain, lineage[c.sagaId])
    BY DEF Right
  <2>2. Len(d.ancestorChain) <= Len(chain)
    BY <2>1, <1>1, <1>2, <1>3, <1>4, <1>7, LenProperties DEF IsPrefixOf, Context
  <2>3. ASSUME NEW i \in 1 .. Len(d.ancestorChain)
        PROVE  d.ancestorChain[i] = chain[i]
    <3>1. CASE i = 1
      BY <3>1, <1>3, <1>4, <1>7
    <3>2. CASE i # 1
      <4>1. Len(c.ancestorChain) \in Nat
        BY <1>1, LenProperties DEF Context
      <4>2. i - 1 \in 1 .. Len(c.ancestorChain) /\ (i - 1) + 1 = i
        BY <3>2, <4>1, <1>4, <1>7
      <4>3. i - 1 \in 1 .. Len(lineage[c.sagaId])
        BY <4>1, <4>2, <2>1, <1>2, LenProperties DEF IsPrefixOf
      <4>4. d.ancestorChain[i] = c.ancestorChain[i - 1]
        BY <4>2, <1>4, <1>7
      <4>5. chain[i] = lineage[c.sagaId][i - 1]
        BY <4>2, <4>3, <1>3
      <4> QED  BY <4>2, <4>4, <4>5, <2>1 DEF IsPrefixOf
    <3> QED  BY <3>1, <3>2
  <2> QED  BY <2>2, <2>3, <1>5, <1>7 DEF IsPrefixOf
<1>12. d.parentSagaId \in {None, HeadOrNone(lin[d.sagaId])}
  BY <1>3, <1>5, <1>7 DEF HeadOrNone
<1>13. keys[d.rootSagaId] # NoKey /\ ~d.rekeyed /\ ~d.bridged => d.key = keys[d.rootSagaId]
  BY <1>7, <1>9 DEF Right, Else
<1>14. d.sagaId <= Len(lin)
  BY <1>5, <1>6, <1>7
<1>15. Right(d, lin, keys)
  BY <1>7, <1>9, <1>10, <1>11, <1>12, <1>13, <1>14 DEF Right
<1> QED  BY <1>15 DEF d, lin, keys, chain

(* Another key for c, if it is marked or is the one of the tree.           *)
LEMMA RekeyedIsRight ==
    ASSUME NEW lin, NEW keys, NEW c, Right(c, lin, keys), NEW key \in Keys,
           NEW given \in BOOLEAN,
           keys[c.rootSagaId] # NoKey /\ ~given /\ ~c.bridged => key = keys[c.rootSagaId]
    PROVE  Right([c EXCEPT !.key = key, !.rekeyed = given], lin, keys)
<1> DEFINE d == [c EXCEPT !.key = key, !.rekeyed = given]
<1>1. /\ d \in Context
      /\ d.sagaId = c.sagaId /\ d.rootSagaId = c.rootSagaId
      /\ d.parentSagaId = c.parentSagaId /\ d.ancestorChain = c.ancestorChain
      /\ d.bridged = c.bridged /\ d.rekeyed = given /\ d.key = key
  BY DEF Right, Context
<1> HIDE DEF d
<1>2. Right(d, lin, keys)
  BY <1>1 DEF Right
<1> QED  BY <1>2 DEF d

(* The parent of c, as emitToParent rebuilds it.                           *)
LEMMA ParentIsRight ==
    ASSUME NEW lin, NEW keys, Closed(lin, keys),
           NEW c, Right(c, lin, keys), c.parentSagaId # None
    PROVE  Right(ParentContext(c), lin, keys)
<1> DEFINE p == c.parentSagaId
           cut == IF c.ancestorChain = <<>> THEN <<>> ELSE Tail(c.ancestorChain)
           d == ParentContext(c)
<1>1. /\ Len(lin) \in Nat
      /\ c \in Context
      /\ c.sagaId \in 1 .. Len(lin)
      /\ c.ancestorChain \in Seq(Sagas)
  BY LenProperties, SagasAssumption DEF Closed, Right, Context, Sagas
<1>2. lin[c.sagaId] # <<>> /\ p = Head(lin[c.sagaId]) /\ p \in Sagas
  BY <1>1 DEF Right, HeadOrNone, Context
<1>3. /\ lin[c.sagaId] \in Seq(1 .. Len(lin))
      /\ lin[c.sagaId] = <<lin[c.sagaId][1]>> \o lin[lin[c.sagaId][1]]
  BY <1>1, <1>2 DEF Closed
<1>4. p = lin[c.sagaId][1] /\ p \in 1 .. Len(lin)
  BY <1>2, <1>3, EmptySeq, ElementOfSeq
<1>5. lin[p] \in Seq(1 .. Len(lin)) /\ lin[c.sagaId] = <<p>> \o lin[p]
  BY <1>3, <1>4 DEF Closed
<1>6. /\ Len(lin[c.sagaId]) = Len(lin[p]) + 1
      /\ \A i \in 1 .. Len(lin[p]) : lin[c.sagaId][i + 1] = lin[p][i]
      /\ Tail(lin[c.sagaId]) = lin[p]
      /\ Len(lin[p]) \in Nat
  <2> DEFINE t == lin[p]
  <2> HIDE DEF t, p
  <2>1. /\ Len(<<p>> \o t) = Len(t) + 1
        /\ \A i \in 1 .. Len(t) : (<<p>> \o t)[i + 1] = t[i]
        /\ Tail(<<p>> \o t) = t
        /\ Len(t) \in Nat
    <3>1. p \in 1 .. Len(lin) /\ t \in Seq(1 .. Len(lin))
      BY <1>4, <1>5 DEF t
    <3> QED  BY <3>1, Prepended, LenProperties
  <2>2. lin[c.sagaId] = <<p>> \o t
    BY <1>5 DEF t
  <2> QED  BY <2>1, <2>2 DEF t
<1>7. /\ cut \in Seq(Sagas)
      /\ cut # <<>> => Head(cut) \in Sagas
  BY <1>1, HeadTailProperties, EmptySeq
<1>8. /\ d \in Context
      /\ d.sagaId = p /\ d.rootSagaId = c.rootSagaId
      /\ d.parentSagaId = HeadOrNone(cut) /\ d.ancestorChain = cut
      /\ d.bridged = c.bridged /\ d.rekeyed = c.rekeyed /\ d.key = c.key
  BY <1>1, <1>2, <1>7 DEF ParentContext, Context, HeadOrNone
<1>9. ~c.bridged => cut = lin[p]
  <2>1. ~c.bridged => c.ancestorChain = lin[c.sagaId]
    BY DEF Right
  <2> QED  BY <2>1, <1>2, <1>6
<1>10. IsPrefixOf(cut, lin[p]) /\ (cut # <<>> => HeadOrNone(cut) = HeadOrNone(lin[p]))
  <2>1. IsPrefixOf(c.ancestorChain, lin[c.sagaId])
    BY DEF Right
  <2>2. CASE c.ancestorChain = <<>>
    BY <2>2, <1>6, EmptySeq DEF IsPrefixOf
  <2>3. CASE c.ancestorChain # <<>>
    <3>1. /\ Len(cut) = Len(c.ancestorChain) - 1
          /\ \A i \in 1 .. Len(cut) : cut[i] = c.ancestorChain[i + 1]
          /\ Len(c.ancestorChain) \in Nat \ {0}
      BY <2>3, <1>1, HeadTailProperties, EmptySeq
    <3>2. Len(cut) <= Len(lin[p])
      BY <3>1, <2>1, <1>6 DEF IsPrefixOf
    <3>3. ASSUME NEW i \in 1 .. Len(cut)
          PROVE  cut[i] = lin[p][i]
      <4>1. i + 1 \in 1 .. Len(c.ancestorChain) /\ i \in 1 .. Len(lin[p])
        BY <3>1, <3>2, <1>6
      <4>2. c.ancestorChain[i + 1] = lin[c.sagaId][i + 1]
        BY <4>1, <2>1 DEF IsPrefixOf
      <4>3. lin[c.sagaId][i + 1] = lin[p][i]
        BY <4>1, <1>6
      <4> QED  BY <4>2, <4>3, <3>1
    <3>4. ASSUME cut # <<>>
          PROVE  HeadOrNone(cut) = HeadOrNone(lin[p])
      <4>1. 1 \in 1 .. Len(cut) /\ Head(cut) = cut[1]
        BY <3>4, <1>7, EmptySeq
      <4>2. lin[p] # <<>> /\ Head(lin[p]) = lin[p][1]
        BY <4>1, <3>2, <1>5, <1>6, EmptySeq
      <4> QED  BY <4>1, <4>2, <3>3, <3>4 DEF HeadOrNone
    <3> QED  BY <3>2, <3>3, <3>4 DEF IsPrefixOf
  <2> QED  BY <2>2, <2>3
<1>11. RootIn(lin, p) = RootIn(lin, c.sagaId)
  <2>1. CASE lin[p] = <<>>
    <3>1. Len(lin[c.sagaId]) = 1
      BY <2>1, <1>6
    <3> QED  BY <3>1, <2>1, <1>2, <1>4 DEF RootIn
  <2>2. CASE lin[p] # <<>>
    <3>1. Len(lin[p]) \in 1 .. Len(lin[p])
      BY <2>2, <1>5, EmptySeq
    <3> QED  BY <3>1, <2>2, <1>2, <1>6 DEF RootIn
  <2> QED  BY <2>1, <2>2
<1> HIDE DEF d, cut, p
<1>12. d.parentSagaId \in {None, HeadOrNone(lin[p])}
  BY <1>8, <1>10 DEF HeadOrNone
<1>13. Right(d, lin, keys)
  BY <1>4, <1>8, <1>9, <1>10, <1>11, <1>12 DEF Right
<1> QED  BY <1>13 DEF d

-----------------------------------------------------------------------------

(* What a handler reads from the headers is what was published.            *)
LEMMA ParseMessage ==
    ASSUME NEW e \in Context, NEW b \in BOOLEAN, NEW r \in BOOLEAN
    PROVE  Parse(Message(e), b, r) =
             [sagaId |-> e.sagaId, rootSagaId |-> e.rootSagaId,
              parentSagaId |-> e.parentSagaId, ancestorChain |-> e.ancestorChain,
              key |-> e.key, handler |-> TRUE, bridged |-> b, rekeyed |-> r]
<1> DEFINE h == Message(e).headers
<1>1. /\ "saga-id" \in DOMAIN h /\ h["saga-id"] = e.sagaId
      /\ "saga-root-id" \in DOMAIN h /\ h["saga-root-id"] = e.rootSagaId
  BY DEF Message
<1>2. /\ "saga-parent-id" \in DOMAIN h <=> e.parentSagaId # None
      /\ e.parentSagaId # None => h["saga-parent-id"] = e.parentSagaId
  BY DEF Message
<1>3. /\ "saga-ancestor-chain" \in DOMAIN h <=> e.ancestorChain # <<>>
      /\ e.ancestorChain # <<>> => h["saga-ancestor-chain"] = e.ancestorChain
  BY DEF Message
<1>4. /\ "saga-key" \in DOMAIN h <=> e.key # NoKey
      /\ e.key # NoKey => h["saga-key"] = e.key
  BY DEF Message
<1> HIDE DEF h
<1>5. FromHeaders(h) = [sagaId |-> e.sagaId, rootSagaId |-> e.rootSagaId,
                        parentSagaId |-> e.parentSagaId,
                        ancestorChain |-> e.ancestorChain, key |-> e.key]
  BY <1>1, <1>2, <1>3, <1>4 DEF FromHeaders, Get
<1> QED  BY <1>1, <1>5 DEF Parse, h

(* What is published is right.                                             *)
LEMMA PublishedIsRight ==
    ASSUME NEW lin, NEW keys, NEW e, Right(e, lin, keys)
    PROVE  Right(Parse(Message(e), e.bridged, e.rekeyed), lin, keys)
<1> DEFINE d == Parse(Message(e), e.bridged, e.rekeyed)
<1>1. e \in Context
  BY DEF Right
<1>2. d = [sagaId |-> e.sagaId, rootSagaId |-> e.rootSagaId,
           parentSagaId |-> e.parentSagaId, ancestorChain |-> e.ancestorChain,
           key |-> e.key, handler |-> TRUE, bridged |-> e.bridged, rekeyed |-> e.rekeyed]
  BY <1>1, ParseMessage DEF Context
<1> HIDE DEF d
<1>3. Right(d, lin, keys)
  BY <1>1, <1>2 DEF Right, Context
<1> QED  BY <1>3 DEF d

(* A message that has lost its headers tells less, and nothing false.      *)
LEMMA BridgedIsRight ==
    ASSUME NEW lin, NEW keys, Closed(lin, keys), NEW c, Right(c, lin, keys)
    PROVE  Right(Parse(Bridged(c), TRUE, c.rekeyed), lin, keys)
<1> DEFINE h == Bridged(c).headers
           b == h["baggage"]
           d == Parse(Bridged(c), TRUE, c.rekeyed)
<1>1. c \in Context
  BY DEF Right
<1>2. DOMAIN h = {"baggage"}
  BY DEF Bridged
<1>3. /\ "saga.id" \in DOMAIN b /\ b["saga.id"] = c.sagaId
      /\ "saga.root.id" \in DOMAIN b /\ b["saga.root.id"] = c.rootSagaId
      /\ "saga.parent.id" \in DOMAIN b <=> c.parentSagaId # None
      /\ c.parentSagaId # None => b["saga.parent.id"] = c.parentSagaId
  BY DEF Bridged
<1> HIDE DEF b
<1>4. FromBaggage(b) = [sagaId |-> c.sagaId, rootSagaId |-> c.rootSagaId,
                        parentSagaId |-> c.parentSagaId,
                        ancestorChain |-> <<>>, key |-> NoKey]
  BY <1>3 DEF FromBaggage, Get
<1>5. d = [sagaId |-> c.sagaId, rootSagaId |-> c.rootSagaId,
           parentSagaId |-> c.parentSagaId, ancestorChain |-> <<>>, key |-> NoKey,
           handler |-> TRUE, bridged |-> TRUE, rekeyed |-> c.rekeyed]
  BY <1>2, <1>4 DEF Parse, b
<1> HIDE DEF d
<1>6. d \in Context
  <2>1. <<>> \in Seq(Sagas) /\ NoKey \in Keys
    BY EmptySeq DEF Keys
  <2> QED  BY <1>1, <1>5, <2>1 DEF Context
<1>7. IsPrefixOf(<<>>, lin[c.sagaId])
  <2>1. c.sagaId \in 1 .. Len(lin)
    BY <1>1, LenProperties, SagasAssumption DEF Right, Closed, Context, Sagas
  <2>2. Len(lin[c.sagaId]) \in Nat
    BY <2>1, LenProperties DEF Closed
  <2> QED  BY <2>2, EmptySeq DEF IsPrefixOf
<1>8. Right(d, lin, keys)
  BY <1>5, <1>6, <1>7 DEF Right
<1> QED  BY <1>8 DEF d

-----------------------------------------------------------------------------

(* Publish of an event in context c, of which everything is right except   *)
(* perhaps the key, which Publish may replace.                             *)
LEMMA PublishKeepsRight ==
    ASSUME NEW lin, NEW keys, NEW c, Right(c, lin, keys), NEW key \in Keys, NEW new,
           \A d \in contexts \cup new : Right(d, lin, keys),
           Publish(c, key, new)
    PROVE  \A d \in contexts' : Right(d, lin, keys)
<1> DEFINE event == [c EXCEPT !.key = Else(key, c.key), !.rekeyed = c.rekeyed \/ key # NoKey]
<1>1. Right(event, lin, keys)
  <2>1. c.key \in Keys /\ c.rekeyed \in BOOLEAN
    BY DEF Right, Context
  <2>2. Else(key, c.key) \in Keys
    BY <2>1 DEF Else
  <2>3. keys[c.rootSagaId] # NoKey /\ ~(c.rekeyed \/ key # NoKey) /\ ~c.bridged
          => Else(key, c.key) = keys[c.rootSagaId]
    BY DEF Right, Else
  <2> QED  BY <2>2, <2>3, RekeyedIsRight
<1>2. Right(Parse(Message(event), event.bridged, event.rekeyed), lin, keys)
  BY <1>1, PublishedIsRight
<1>3. contexts' = contexts \cup (new \cup {Parse(Message(event), event.bridged, event.rekeyed)})
  BY DEF Publish, Enter
<1> QED  BY <1>2, <1>3
-----------------------------------------------------------------------------

(* IInv holds in every reachable state, for any bounds and any keys.       *)
THEOREM Invariance == Spec => []IInv
<1>1. Init => IInv
  <2> SUFFICES ASSUME Init
               PROVE  IInv
    OBVIOUS
  <2>1. /\ <<>> \in Seq(Seq(Sagas))
        /\ <<>> \in Seq(Keys)
    BY EmptySeq
  <2>2. Closed(lineage, startKey)
    BY <2>1, SagasAssumption DEF Init, Closed
  <2>3. \A c \in contexts : Right(c, lineage, startKey)
    BY DEF Init
  <2> QED  BY <2>2, <2>3, IInvUnfolds
<1>2. IInv /\ [Next]_vars => IInv'
  <2> SUFFICES ASSUME IInv, [Next]_vars
               PROVE  /\ Closed(lineage', startKey')
                      /\ \A c \in contexts' : Right(c, lineage', startKey')
    BY IInvUnfolds, IInvUnfoldsNext
  <2>0. /\ Closed(lineage, startKey)
        /\ \A c \in contexts : Right(c, lineage, startKey)
    BY IInvUnfolds
  <2> DEFINE Goal == /\ Closed(lineage', startKey')
                     /\ \A c \in contexts' : Right(c, lineage', startKey')
  (* The creation of a root or of a child of c keeps what is right.        *)
  <2>1. ASSUME NEW key \in Keys, Create(<<>>, key)
        PROVE  /\ Closed(lineage', startKey')
               /\ \A c \in contexts : Right(c, lineage', startKey')
               /\ Right(RootContext(key), lineage', startKey')
    <3>1. NewSaga <= MaxSagas /\ Len(lineage) + 1 <= MaxSagas
      BY <2>1 DEF Create, NewSaga
    <3>2. lineage' = Append(lineage, <<>>) /\ startKey' = Append(startKey, key)
      BY <2>1 DEF Create
    <3>3. <<>> \in Seq(Sagas)
      BY EmptySeq
    <3> QED  BY <2>0, <3>1, <3>2, <3>3, ClosedAfterRoot, RightAfterCreate, RootIsRight
  <2>2. ASSUME NEW c \in contexts, NEW key \in Keys,
               Create(<<c.sagaId>> \o lineage[c.sagaId], startKey[c.rootSagaId])
        PROVE  /\ Closed(lineage', startKey')
               /\ \A d \in contexts : Right(d, lineage', startKey')
               /\ Right(ChildContext(c, key), lineage', startKey')
    <3> DEFINE chain == <<c.sagaId>> \o lineage[c.sagaId]
               any == startKey[c.rootSagaId]
    <3>1. NewSaga <= MaxSagas /\ Len(lineage) + 1 <= MaxSagas
      BY <2>2 DEF Create, NewSaga
    <3>2. lineage' = Append(lineage, chain) /\ startKey' = Append(startKey, any)
      BY <2>2 DEF Create
    <3>3. Right(c, lineage, startKey)
      BY <2>0
    <3>4. /\ c.sagaId \in 1 .. Len(lineage) /\ c.sagaId \in Sagas
          /\ c.rootSagaId \in 1 .. Len(lineage)
      BY <2>0, <3>3, RightIsInRange
    <3>5. chain \in Seq(Sagas)
      <4>1. lineage[c.sagaId] \in Seq(Sagas)
        BY <2>0, <3>4, ElementOfSeq DEF Closed
      <4> QED  BY <3>4, <4>1, Prepended
    <3>6. any \in Keys
      BY <2>0, <3>4, ElementOfSeq DEF Closed
    <3> HIDE DEF any
    <3>7. Closed(lineage', startKey')
      BY <2>0, <3>1, <3>2, <3>4, <3>6, ClosedAfterChild
    <3>8. Right(ChildContext(c, key), lineage', startKey')
      BY <2>0, <3>1, <3>2, <3>3, <3>6, ChildIsRight
    <3> HIDE DEF chain
    <3>9. \A d \in contexts : Right(d, lineage', startKey')
      BY <2>0, <3>2, <3>5, <3>6, RightAfterCreate
    <3> QED  BY <3>7, <3>8, <3>9
  <2>3. ASSUME NEW key \in Keys, Start(key)
        PROVE  Goal
    BY <2>1, <2>3 DEF Start, Enter
  <2>4. ASSUME NEW c \in contexts, NEW key \in Keys, StartChild(c, key)
        PROVE  Goal
    BY <2>2, <2>4 DEF StartChild, Enter
  <2>5. ASSUME NEW c \in contexts, NEW key \in Keys, Emit(c, key)
        PROVE  Goal
    <3>1. Publish(c, key, {}) /\ UNCHANGED <<lineage, startKey>>
      BY <2>5 DEF Emit
    <3>2. \A d \in contexts' : Right(d, lineage, startKey)
      BY <2>0, <3>1, PublishKeepsRight
    <3> QED  BY <2>0, <3>1, <3>2
  <2>6. ASSUME NEW c \in contexts, NEW key \in Keys, EmitToParent(c, key)
        PROVE  Goal
    <3>1. /\ c.parentSagaId # None
          /\ Publish(ParentContext(c), key, {})
          /\ UNCHANGED <<lineage, startKey>>
      BY <2>6 DEF EmitToParent
    <3>2. Right(ParentContext(c), lineage, startKey)
      BY <2>0, <3>1, ParentIsRight
    <3>3. \A d \in contexts' : Right(d, lineage, startKey)
      BY <2>0, <3>1, <3>2, PublishKeepsRight
    <3> QED  BY <2>0, <3>1, <3>3
  <2>7. ASSUME NEW c \in contexts, NEW key \in Keys, ForkEmit(c, key)
        PROVE  Goal
    <3>1. /\ Create(<<c.sagaId>> \o lineage[c.sagaId], startKey[c.rootSagaId])
          /\ Publish(ChildContext(c, NoKey), key, {})
      BY <2>7 DEF ForkEmit
    <3>2. NoKey \in Keys
      BY DEF Keys
    <3>3. /\ Closed(lineage', startKey')
          /\ \A d \in contexts : Right(d, lineage', startKey')
          /\ Right(ChildContext(c, NoKey), lineage', startKey')
      BY <2>2, <3>1, <3>2
    <3> QED  BY <3>1, <3>3, PublishKeepsRight
  <2>8. ASSUME NEW c \in contexts, NEW inner \in {"child", "independent"},
               NEW key \in Keys, EmitInside(c, inner, key)
        PROVE  Goal
    <3> DEFINE d == IF inner = "child" THEN ChildContext(c, key) ELSE RootContext(key)
               e == [c EXCEPT !.key = Else(c.key, d.key), !.rekeyed = c.rekeyed \/ d.rekeyed]
    <3>1. Publish(e, NoKey, {d})
      BY <2>8 DEF EmitInside
    <3>2. /\ Closed(lineage', startKey')
          /\ \A b \in contexts : Right(b, lineage', startKey')
          /\ Right(d, lineage', startKey')
      <4>1. CASE inner = "child"
        BY <2>2, <2>8, <4>1 DEF EmitInside
      <4>2. CASE inner = "independent"
        BY <2>1, <2>8, <4>2 DEF EmitInside
      <4> QED  BY <4>1, <4>2
    <3> HIDE DEF d
    <3>3. Right(e, lineage', startKey')
      <4>1. Right(c, lineage', startKey')
        BY <3>2
      <4>2. /\ Else(c.key, d.key) \in Keys
            /\ (c.rekeyed \/ d.rekeyed) \in BOOLEAN
        BY <3>2, <4>1 DEF Right, Context, Else
      <4>3. startKey'[c.rootSagaId] # NoKey /\ ~(c.rekeyed \/ d.rekeyed) /\ ~c.bridged
              => Else(c.key, d.key) = startKey'[c.rootSagaId]
        BY <4>1 DEF Right, Else
      <4> QED  BY <4>1, <4>2, <4>3, RekeyedIsRight
    <3>4. NoKey \in Keys
      BY DEF Keys
    <3> HIDE DEF e
    <3> QED  BY <3>1, <3>2, <3>3, <3>4, PublishKeepsRight
  <2>9. ASSUME NEW c \in contexts, RunInParent(c)
        PROVE  Goal
    BY <2>0, <2>9, ParentIsRight DEF RunInParent, Enter
  <2>10. ASSUME NEW c \in contexts, Bridge(c)
         PROVE  Goal
    BY <2>0, <2>10, BridgedIsRight DEF Bridge, Enter
  <2>11. ASSUME NEW c \in contexts, Leave(c)
         PROVE  Goal
    BY <2>0, <2>11 DEF Leave
  <2>12. CASE UNCHANGED vars
    BY <2>0, <2>12 DEF vars
  <2> QED
    BY <2>3, <2>4, <2>5, <2>6, <2>7, <2>8, <2>9, <2>10, <2>11, <2>12 DEF Next
<1> QED  BY <1>1, <1>2, PTL DEF Spec

(* Every piece of code, and so every event, knows the true root of its     *)
(* tree, however many children, forks, parents and bridges are in between. *)
THEOREM RootsAreTrue == Spec => []RootIsTrue
<1>1. IInv => RootIsTrue
  BY DEF IInv
<1> QED  BY <1>1, Invariance, PTL

(* While headers are preserved, emitToParent finds every ancestor.         *)
THEOREM AncestorsAreTrue == Spec => []AncestryIsTrue
<1>1. IInv => AncestryIsTrue
  BY DEF IInv
<1> QED  BY <1>1, Invariance, PTL

(* Without headers it may stop early, and never reaches a wrong saga.      *)
THEOREM NoWrongAncestor == Spec => []BridgedAncestryIsPrefix
<1>1. IInv => BridgedAncestryIsPrefix
  BY DEF IInv
<1> QED  BY <1>1, Invariance, PTL

(* A key given at the start of a tree reaches all of it.                   *)
THEOREM KeysStick == Spec => []StartKeySticks
<1>1. IInv => StartKeySticks
  BY DEF IInv
<1> QED  BY <1>1, Invariance, PTL

(* Contexts, lineage and keys keep their types.                            *)
THEOREM TypeCorrect == Spec => []TypeOK
<1>1. IInv => TypeOK
  BY DEF IInv
<1> QED  BY <1>1, Invariance, PTL
=============================================================================
