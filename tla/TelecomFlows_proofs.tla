------------------------ MODULE TelecomFlows_proofs ------------------------
(***************************************************************************)
(* Proofs about the telecom flows, for any numbers of lines and faults.    *)
(*                                                                         *)
(* FlowInv is the inductive invariant.  A flow is either sequential        *)
(* (SeqAll) or an activation of lines in bulk (BulkAll).  In a sequential  *)
(* flow without faults one message is alive at a time and says which       *)
(* sagas have ended before it (InTime); with faults or without, a record   *)
(* that is not settled is in the care of a message that waits, of a        *)
(* handler that goes on, or of what excuses it (RestInv).  In a bulk       *)
(* activation the completions are counted against the sub-sagas of the     *)
(* lines (LinesOnce), and those counted and to come are enough for the     *)
(* record (BulkRest).                                                      *)
(***************************************************************************)
EXTENDS TelecomFlows, FiniteSetTheorems, FunctionTheorems, TLAPS

USE LinesAssumption, FaultsAssumption

---------------------------------------------------------------------------
(* Messages and their ids                                                  *)

(* A record with the fields of a message, of their types.                  *)
IsMessage(m) ==
  m = [id |-> m.id, topic |-> m.topic, hint |-> m.hint, saga |-> m.saga, rec |-> m.rec,
       item |-> m.item, lines |-> m.lines, sim |-> m.sim]
Typed(m) == IsMessage(m) /\ m.id \in Seq(Nat) /\ m.lines \in Nat

(* The saga of the request, and those opened in it.                        *)
Root == <<Main>>
InSub(saga) == \E e \in Seq(Nat) : saga = Append(Root, e)

(* The front of what was appended to.                                      *)
LEMMA FrontAppend ==
  ASSUME NEW S, NEW s \in Seq(S), NEW e \in S
  PROVE  Front(Append(s, e)) = s
BY DEF Front

(* Appending adds one.                                                     *)
LEMMA LenAppend ==
  ASSUME NEW S, NEW s \in Seq(S), NEW e \in S
  PROVE  Len(Append(s, e)) = Len(s) + 1 /\ Append(s, e) \in Seq(S)
OBVIOUS

(* A saga opened in that of the request has it as its parent.              *)
LEMMA SubSaga ==
  ASSUME NEW saga, InSub(saga)
  PROVE  Front(saga) = Root /\ saga # Root
<1>1. PICK e \in Seq(Nat) : saga = Append(Root, e)
  BY DEF InSub
<1>2. Root \in Seq(Seq(Nat)) /\ Len(Root) = 1
  BY DEF Root, Main
<1>3. Front(saga) = Root
  BY <1>1, <1>2, FrontAppend
<1>4. Len(saga) = Len(Root) + 1
  BY <1>1, <1>2, LenAppend
<1>5. Len(saga) # Len(Root)
  BY <1>2, <1>4
<1> QED
  BY <1>3, <1>5

(* The fields of a message with other fields.                              *)
LEMMA SameFields ==
  ASSUME NEW m, Typed(m), NEW to, NEW hint
  PROVE  LET y == Same(m, to, hint) IN
         /\ Typed(y) /\ y.id = m.id /\ y.topic = to /\ y.hint = hint /\ y.saga = m.saga
         /\ y.rec = m.rec /\ y.item = m.item /\ y.lines = m.lines /\ y.sim = m.sim
<1>1. ASSUME NEW y, IsMessage(y)
      PROVE  LET z == [y EXCEPT !.topic = to] IN
             /\ IsMessage(z) /\ z.id = y.id /\ z.topic = to /\ z.hint = y.hint /\ z.saga = y.saga
             /\ z.rec = y.rec /\ z.item = y.item /\ z.lines = y.lines /\ z.sim = y.sim
  BY <1>1 DEF IsMessage
<1>2. ASSUME NEW y, IsMessage(y)
      PROVE  LET z == [y EXCEPT !.hint = hint] IN
             /\ IsMessage(z) /\ z.id = y.id /\ z.topic = y.topic /\ z.hint = hint /\ z.saga = y.saga
             /\ z.rec = y.rec /\ z.item = y.item /\ z.lines = y.lines /\ z.sim = y.sim
  BY <1>2 DEF IsMessage
<1> DEFINE y == [m EXCEPT !.topic = to]
<1>3. Same(m, to, hint) = [y EXCEPT !.hint = hint]
  BY DEF IsMessage, Same, Typed
<1>4. /\ IsMessage(y) /\ y.id = m.id /\ y.topic = to /\ y.hint = m.hint /\ y.saga = m.saga
      /\ y.rec = m.rec /\ y.item = m.item /\ y.lines = m.lines /\ y.sim = m.sim
  BY <1>1 DEF Typed
<1> HIDE DEF y
<1> DEFINE z == [y EXCEPT !.hint = hint]
<1>5. /\ IsMessage(z) /\ z.id = y.id /\ z.topic = y.topic /\ z.hint = hint /\ z.saga = y.saga
      /\ z.rec = y.rec /\ z.item = y.item /\ z.lines = y.lines /\ z.sim = y.sim
  BY <1>2, <1>4
<1> HIDE DEF z
<1>6. Same(m, to, hint) = z
  BY <1>3 DEF z
<1> QED
  BY <1>4, <1>5, <1>6 DEF Typed

(* As many values as arguments, when no two arguments share one.           *)
LEMMA ImageCount ==
  ASSUME NEW A, IsFiniteSet(A), NEW f, DOMAIN f = A, f = [a \in A |-> f[a]],
         \A a, b \in A : f[a] = f[b] => a = b
  PROVE  LET B == {f[a] : a \in A} IN IsFiniteSet(B) /\ Cardinality(B) = Cardinality(A)
<1> DEFINE B == {f[a] : a \in A}
<1>1. f \in [A -> B] /\ \A b \in B : \E a \in A : f[a] = b
  OBVIOUS
<1>2. f \in Bijection(A, B)
  BY <1>1, Fun_IsBij
<1>3. ExistsBijection(A, B)
  BY <1>2, Fun_ExistsBij
<1> QED
  BY <1>3, FS_Bijection

(* The messages an id was given to by what they are caused by.             *)
Siblings(p) == {n \in bus : Front(n.id) = p}

(* Ids tell messages apart: the messages caused by one are numbered.       *)
BusInv ==
  /\ IsFiniteSet(bus) /\ \A m \in bus : Typed(m)
  /\ \A m, n \in bus : m.id = n.id => m = n
  /\ \A m \in bus : m.id # <<>> /\ m.id[Len(m.id)] \in 1 .. Cardinality(Siblings(Front(m.id)))

(* What was appended is last.                                              *)
LEMMA LastAppend ==
  ASSUME NEW S, NEW s \in Seq(S), NEW e \in S
  PROVE  Append(s, e)[Len(Append(s, e))] = e /\ Append(s, e) # <<>>
OBVIOUS

(* What is published gets ids that no message has.                         *)
LEMMA NewIds ==
  ASSUME BusInv, NEW m \in bus, NEW i \in Nat, i > 0
  PROVE  /\ NewId(m, i) \in Seq(Nat) /\ NewId(m, i) # <<>> /\ Front(NewId(m, i)) = m.id
         /\ NewId(m, i)[Len(NewId(m, i))] = i + Cardinality(Siblings(m.id))
         /\ IsFiniteSet(Siblings(m.id)) /\ Cardinality(Siblings(m.id)) \in Nat
         /\ \A n \in bus : n.id # NewId(m, i)
<1> DEFINE K == Cardinality(Siblings(m.id))
<1>1. IsFiniteSet(Siblings(m.id)) /\ K \in Nat
  <2>1. Siblings(m.id) \in SUBSET bus /\ IsFiniteSet(bus)
    BY DEF Siblings, BusInv
  <2> QED
    BY <2>1, FS_Subset, FS_CardinalityType
<1>2. NewId(m, i) = Append(m.id, i + K)
  BY DEF NewId, Siblings
<1> HIDE DEF K
<1>3. m.id \in Seq(Nat) /\ i + K \in Nat
  BY <1>1 DEF BusInv, Typed
<1>4. Front(NewId(m, i)) = m.id
  BY <1>2, <1>3, FrontAppend
<1>5. NewId(m, i)[Len(NewId(m, i))] = i + K /\ NewId(m, i) # <<>>
  BY <1>2, <1>3, LastAppend
<1>6. ASSUME NEW n \in bus, n.id = NewId(m, i) PROVE FALSE
  <2>1. i + K \in 1 .. K
    BY <1>4, <1>5, <1>6 DEF BusInv, K
  <2> QED
    BY <2>1, <1>1
<1>7. NewId(m, i) \in Seq(Nat)
  BY <1>2, <1>3, LenAppend
<1> QED
  BY <1>1, <1>4, <1>5, <1>6, <1>7 DEF K

(* The messages published by a handler of m.                               *)
Copy(m, y, i) == [y EXCEPT !.id = NewId(m, i)]

(* A copy differs from what it copies in its id only.                      *)
LEMMA CopyFields ==
  ASSUME BusInv, NEW m \in bus, NEW i \in Nat, i > 0, NEW y, Typed(y)
  PROVE  LET x == Copy(m, y, i) IN
         /\ Typed(x) /\ x.id = NewId(m, i) /\ x.topic = y.topic /\ x.hint = y.hint /\ x.saga = y.saga
         /\ x.rec = y.rec /\ x.item = y.item /\ x.lines = y.lines /\ x.sim = y.sim
<1>1. NewId(m, i) \in Seq(Nat)
  BY NewIds
<1> DEFINE v == NewId(m, i)
           x == [y EXCEPT !.id = v]
<1> HIDE DEF v
<1>2. /\ IsMessage(x) /\ x.id = v /\ x.topic = y.topic /\ x.hint = y.hint /\ x.saga = y.saga
      /\ x.rec = y.rec /\ x.item = y.item /\ x.lines = y.lines /\ x.sim = y.sim
  BY DEF IsMessage, Typed
<1>3. Copy(m, y, i) = x
  BY DEF Copy, v
<1> HIDE DEF x
<1>4. Typed(x)
  BY <1>1, <1>2 DEF Typed, v
<1> QED
  BY <1>2, <1>3, <1>4 DEF v

(* A publication keeps ids unique: its messages are numbered on.           *)
LEMMA PublishKeeps ==
  ASSUME BusInv, NEW m \in bus, NEW n \in Nat, NEW ms, DOMAIN ms = 1 .. n,
         \A i \in 1 .. n : Typed(ms[i]), Publish(m, ms)
  PROVE  /\ BusInv' /\ \A x : x \in bus' <=> x \in bus \/ \E i \in 1 .. n : x = Copy(m, ms[i], i)
         /\ \A i, j \in 1 .. n : Copy(m, ms[i], i) = Copy(m, ms[j], j) => i = j
         /\ \A i \in 1 .. n, k \in bus : k.id # Copy(m, ms[i], i).id
<1> DEFINE f == [i \in 1 .. n |-> Copy(m, ms[i], i)]
           X == {f[i] : i \in 1 .. n}
           K == Cardinality(Siblings(m.id))
<1>1. bus' = bus \cup X
  BY DEF Publish, Copy
<1>2. ASSUME NEW i \in 1 .. n
      PROVE  /\ f[i] = Copy(m, ms[i], i) /\ Typed(f[i]) /\ f[i].id = NewId(m, i)
             /\ i \in Nat /\ i > 0
  BY CopyFields
<1>3. IsFiniteSet(Siblings(m.id)) /\ K \in Nat
  BY NewIds, 1 \in Nat, 1 > 0
<1> HIDE DEF K
<1>4. ASSUME NEW i \in 1 .. n
      PROVE  /\ f[i].id # <<>> /\ Front(f[i].id) = m.id /\ f[i].id[Len(f[i].id)] = i + K
             /\ \A k \in bus : k.id # f[i].id
  BY <1>2, NewIds DEF K
<1> HIDE DEF f
<1>5. \A i, j \in 1 .. n : f[i].id = f[j].id => i = j
  BY <1>3, <1>4
<1>6. IsFiniteSet(X) /\ Cardinality(X) = n
  <2>1. IsFiniteSet(1 .. n) /\ Cardinality(1 .. n) = n
    BY FS_Interval
  <2>2. DOMAIN f = 1 .. n /\ f = [i \in 1 .. n |-> f[i]]
    BY DEF f
  <2> HIDE DEF X
  <2>3. IsFiniteSet({f[i] : i \in 1 .. n}) /\ Cardinality({f[i] : i \in 1 .. n}) = n
    BY <2>1, <2>2, <1>5, ImageCount
  <2> QED
    BY <2>3 DEF X
<1>7. IsFiniteSet(bus') /\ \A k \in bus' : Typed(k)
  BY <1>1, <1>2, <1>6, FS_Union DEF BusInv
<1>8. ASSUME NEW k \in bus', NEW l \in bus', k.id = l.id PROVE k = l
  BY <1>1, <1>4, <1>5, <1>8 DEF BusInv
<1>9. ASSUME NEW p, p # m.id PROVE Siblings(p)' = Siblings(p)
  BY <1>1, <1>4, <1>9 DEF Siblings
<1>10. Cardinality(Siblings(m.id)') = K + n
  <2>1. Siblings(m.id)' = Siblings(m.id) \cup X /\ Siblings(m.id) \cap X = {}
    BY <1>1, <1>4 DEF Siblings
  <2> HIDE DEF X
  <2>2. Cardinality({}) = 0
    BY FS_EmptySet
  <2>3. /\ Cardinality(Siblings(m.id) \cap X) = 0
        /\ Cardinality(Siblings(m.id) \cup X)
             = Cardinality(Siblings(m.id)) + Cardinality(X) - Cardinality(Siblings(m.id) \cap X)
    BY <2>1, <2>2, <1>3, <1>6, FS_Union
  <2>4. Cardinality(Siblings(m.id) \cup X) = K + n
    BY <2>3, <1>3, <1>6 DEF K
  <2> QED
    BY <2>1, <2>4
<1>11. ASSUME NEW k \in bus'
       PROVE  k.id # <<>> /\ k.id[Len(k.id)] \in 1 .. Cardinality(Siblings(Front(k.id))')
  <2>1. CASE k \in bus /\ Front(k.id) # m.id
    BY <2>1, <1>9 DEF BusInv
  <2>2. CASE k \in bus /\ Front(k.id) = m.id
    <3>1. k.id # <<>> /\ k.id[Len(k.id)] \in 1 .. K
      BY <2>2 DEF BusInv, K
    <3> QED
      BY <3>1, <2>2, <1>3, <1>10
  <2>3. CASE k \in X
    <3>1. PICK i \in 1 .. n : k = f[i]
      BY <2>3
    <3>2. k.id # <<>> /\ Front(k.id) = m.id /\ k.id[Len(k.id)] = i + K
      BY <3>1, <1>4
    <3> QED
      BY <3>2, <1>3, <1>10
  <2> QED
    BY <2>1, <2>2, <2>3, <1>1
<1>12. BusInv'
  <2>1. \A k \in bus' : k.id # <<>> /\ k.id[Len(k.id)] \in 1 .. Cardinality(Siblings(Front(k.id)))'
    BY <1>11
  <2> QED
    BY <2>1, <1>7, <1>8 DEF BusInv
<1>13. \A x : x \in bus' <=> x \in bus \/ \E i \in 1 .. n : x = Copy(m, ms[i], i)
  BY <1>1, <1>2
<1>14. \A i, j \in 1 .. n : Copy(m, ms[i], i) = Copy(m, ms[j], j) => i = j
  BY <1>2, <1>5
<1>15. \A i \in 1 .. n, k \in bus : k.id # Copy(m, ms[i], i).id
  BY <1>2, <1>4
<1> QED
  BY <1>12, <1>13, <1>14, <1>15

---------------------------------------------------------------------------
(* Records                                                                 *)

Records == [status : Statuses, total : Nat, completed : Nat]
StoreInv == store \in [DOMAIN store -> Records]

(* What a suspended handler or request goes on with.                       *)
IsRest(t) ==
  /\ t = [do |-> t.do, msg |-> t.msg, rec |-> t.rec, n |-> t.n, status |-> t.status, run |-> t.run]
  /\ t.n \in Nat /\ t.status \in Statuses

TypeInv ==
  /\ BusInv /\ handled \subseteq {m.id : m \in bus} /\ faults \in Nat
  /\ StoreInv /\ \A t \in todo : IsRest(t)
  /\ bus = {} => todo = {} /\ DOMAIN store = {}

(* Records that an update did not find, whose outcome was written over, or *)
(* whose handler was ended: the property excuses them.                     *)
Excused(r) == r \in missed \cup late \cup broken

(* What an update of a status does, and what it leaves.                    *)
Updated(id, status) ==
  /\ DOMAIN store' = DOMAIN store
  /\ \A r \in DOMAIN store : /\ store'[r].total = store[r].total /\ store'[r].completed = store[r].completed
                             /\ r # id => store'[r].status = store[r].status
  /\ IF id \in DOMAIN store THEN store'[id].status = status ELSE id \in missed'
  /\ missed \subseteq missed' /\ late \subseteq late'
  /\ status \in Settled \/ id \in missed' \cup late' \/ store[id].status \notin Settled

(* An update writes one status, or adds the record to those it missed.     *)
LEMMA UpdateStatusUpdates ==
  ASSUME StoreInv, NEW id, NEW status \in Statuses, UpdateStatus(id, status)
  PROVE  StoreInv' /\ Updated(id, status)
<1>1. CASE ~Found(id) /\ Missed(id)
  BY <1>1 DEF Found, Missed, StoreInv, Updated
<1>2. CASE /\ Found(id)
           /\ store' = [store EXCEPT ![id].status = status]
           /\ late' = IF store[id].status \in Settled /\ status \notin Settled THEN late \cup {id} ELSE late
           /\ UNCHANGED missed
  <2>1. id \in DOMAIN store /\ store[id] \in Records
    BY <1>2 DEF Found, StoreInv
  <2> DEFINE new == [store[id] EXCEPT !.status = status]
  <2>2. new \in Records /\ new.status = status /\ new.total = store[id].total /\ new.completed = store[id].completed
    BY <2>1 DEF Records
  <2>3. store' = [store EXCEPT ![id] = new]
    BY <1>2
  <2> HIDE DEF new
  <2>4. DOMAIN store' = DOMAIN store /\ \A r \in DOMAIN store : store'[r] = IF r = id THEN new ELSE store[r]
    BY <2>3 DEF StoreInv
  <2>5. StoreInv'
    BY <2>2, <2>3 DEF StoreInv
  <2>6. status \in Settled \/ id \in missed' \cup late' \/ store[id].status \notin Settled
    BY <1>2
  <2>7. missed \subseteq missed' /\ late \subseteq late'
    BY <1>2
  <2>8. \A r \in DOMAIN store : /\ store'[r].total = store[r].total /\ store'[r].completed = store[r].completed
                             /\ r # id => store'[r].status = store[r].status
    BY <2>2, <2>4
  <2> QED
    BY <2>1, <2>2, <2>4, <2>5, <2>6, <2>7, <2>8 DEF Updated
<1> QED
  BY <1>1, <1>2 DEF UpdateStatus

(* A new record, or one in the place of another.                           *)
LEMMA CreateCreates ==
  ASSUME StoreInv, NEW id, NEW status \in Statuses, NEW total \in Nat, Create(id, status, total)
  PROVE  /\ StoreInv' /\ DOMAIN store' = DOMAIN store \cup {id} /\ UNCHANGED <<missed, late>>
         /\ store'[id].status = status /\ store'[id].total = total /\ store'[id].completed = 0
         /\ \A r \in DOMAIN store : r # id => store'[r] = store[r]
<1> DEFINE new == [status |-> status, total |-> total, completed |-> 0]
<1>1. new \in Records /\ new.status = status /\ new.total = total /\ new.completed = 0
  BY DEF Records
<1> HIDE DEF new
<1>2. store' = [r \in DOMAIN store \cup {id} |-> IF r = id THEN new ELSE store[r]]
  BY DEF Create, new
<1>3. \A r \in DOMAIN store \cup {id} : (IF r = id THEN new ELSE store[r]) \in Records
  BY <1>1 DEF StoreInv
<1>4. StoreInv'
  BY <1>2, <1>3 DEF StoreInv
<1> QED
  BY <1>1, <1>2, <1>4 DEF Create

(* A participant of topic hands one message on, in the saga of the one it  *)
(* handles.                                                                *)
Hands(m, x, topic, to, hint) ==
  /\ m \in bus /\ m.topic = topic /\ m.id \notin handled /\ handled' = handled \cup {m.id}
  /\ (\A n \in bus : n.id # x.id) /\ bus' = bus \cup {x}
  /\ x.topic = to /\ x.hint = hint /\ x.rec = m.rec
  /\ UNCHANGED <<faults, broken>>

(* Publishing one message.                                                 *)
LEMMA PublishOne ==
  ASSUME BusInv, NEW m \in bus, NEW y, Typed(y), Publish(m, <<y>>)
  PROVE  BusInv' /\ LET x == Copy(m, y, 1) IN (\A n \in bus : n.id # x.id) /\ bus' = bus \cup {x}
<1> DEFINE ms == <<y>>
<1>1. DOMAIN ms = 1 .. 1 /\ \A i \in 1 .. 1 : ms[i] = y /\ i = 1
  OBVIOUS
<1>2. Publish(m, ms)
  OBVIOUS
<1> HIDE DEF ms
<1>3. /\ BusInv' /\ \A x : x \in bus' <=> x \in bus \/ \E i \in 1 .. 1 : x = Copy(m, ms[i], i)
      /\ \A i \in 1 .. 1, n \in bus : n.id # Copy(m, ms[i], i).id
  <2>1. \A i \in 1 .. 1 : Typed(ms[i])
    BY <1>1
  <2> QED
    BY <1>1, <1>2, <2>1, 1 \in Nat, PublishKeeps
<1>4. 1 \in 1 .. 1
  OBVIOUS
<1> QED
  BY <1>1, <1>3, <1>4

(* Two messages.                                                           *)
LEMMA PublishTwo ==
  ASSUME BusInv, NEW m \in bus, NEW y, NEW z, Typed(y), Typed(z), Publish(m, <<y, z>>)
  PROVE  /\ BusInv' /\ bus' = bus \cup {Copy(m, y, 1), Copy(m, z, 2)}
         /\ \A n \in bus : n.id # Copy(m, y, 1).id /\ n.id # Copy(m, z, 2).id
<1> DEFINE ms == <<y, z>>
<1>1. DOMAIN ms = 1 .. 2 /\ ms[1] = y /\ ms[2] = z
  OBVIOUS
<1>2. Publish(m, ms)
  OBVIOUS
<1> HIDE DEF ms
<1>3. 1 .. 2 = {1, 2}
  OBVIOUS
<1>4. /\ BusInv' /\ \A x : x \in bus' <=> x \in bus \/ \E i \in 1 .. 2 : x = Copy(m, ms[i], i)
      /\ \A i \in 1 .. 2, n \in bus : n.id # Copy(m, ms[i], i).id
  <2>1. \A i \in 1 .. 2 : Typed(ms[i])
    BY <1>1, <1>3
  <2> QED
    BY <1>1, <1>2, <2>1, 2 \in Nat, PublishKeeps
<1> QED
  BY <1>1, <1>3, <1>4

---------------------------------------------------------------------------
(* The order of a flow: one message alive at a time                        *)

BulkTopics == {"bulk-activation.requested", "line-activation.requested", "line-activation.completed",
               "bulk-activation.completed"}
Second == {"migration.started", "migration.provisioned", "migration.activation-failed",
           "recurring.created", "product.activation.requested", "product.provisioned"}
Validation == "portability.validation.requested"
Validated  == "portability.validated"
First == HandledTopics \ (BulkTopics \cup Second \cup {Validation, Validated})
Ended(topic) == topic \notin HandledTopics \cup BulkTopics

NoBulk == \A m \in bus : m.topic \notin BulkTopics
Alive  == {m \in bus : m.topic \in HandledTopics /\ m.id \notin handled}
Steps  == {t \in todo : t.do = "step"}
Finals == {m \in bus : m.hint = "final"}

InTime(m) ==
  \/ m.topic \in First /\ m.saga = Root /\ Finals = {}
  \/ m.topic = Validation /\ InSub(m.saga) /\ Finals = {}
  \/ m.topic = Validated /\ InSub(m.saga) /\ \A f \in Finals : f.saga = m.saga
  \/ m.topic \in Second /\ InSub(m.saga) /\ \A f \in Finals : f.saga = Root

OneAtATime ==
  /\ \A m, n \in Alive : m = n
  /\ \A t, u \in Steps : t = u
  /\ Alive = {} \/ Steps = {}
  /\ \A m \in Alive : InTime(m)
  /\ Steps # {} => Finals = {}

SeqInv == NoBulk /\ (faults = 0 => OneAtATime)

(* No message is published in a saga that has ended, or faults excuse it.  *)
FinalStep == faults' = 0 => ~ \E m \in bus, n \in bus' \ bus : m.hint = "final" /\ n.saga = m.saga

(* How the flows but the activation in bulk go on from one message to the  *)
(* next.                                                                   *)
Passes(m, x) ==
  \/ m.topic \in First /\ x.topic \in First /\ x.hint # "final" /\ x.saga = m.saga
  \/ m.topic \in First /\ x.topic = Validation /\ x.hint # "final" /\ (m.saga = Root => InSub(x.saga))
  \/ m.topic \in First /\ Ended(x.topic)
  \/ m.topic = Validation /\ x.topic = Validated /\ x.saga = m.saga
  \/ m.topic = Validated /\ Ended(x.topic) /\ x.saga = Front(m.saga)
  \/ m.topic \in Second /\ x.topic \in Second /\ x.hint # "final" /\ x.saga = m.saga
  \/ m.topic \in Second /\ Ended(x.topic) /\ x.saga = m.saga

(* The kinds of topics do not overlap.                                     *)
LEMMA Disjoint ==
  /\ First \subseteq HandledTopics /\ Second \subseteq HandledTopics
  /\ First \cap Second = {} /\ First \cap BulkTopics = {} /\ Second \cap BulkTopics = {}
  /\ \A t \in {Validation, Validated} : t \in HandledTopics /\ t \notin First \cup Second \cup BulkTopics
  /\ Validation # Validated
BY DEF First, Second, HandledTopics, BulkTopics, Validation, Validated

(* Handing a message on keeps the order of the flow.                       *)
LEMMA SeqMove ==
  ASSUME SeqInv, NEW m, NEW x, Hands(m, x, m.topic, x.topic, x.hint), Passes(m, x), Steps' = Steps
  PROVE  SeqInv' /\ FinalStep
<1>1. /\ m \in bus /\ m.id \notin handled /\ handled' = handled \cup {m.id}
      /\ bus' = bus \cup {x} /\ faults' = faults
  BY DEF Hands
<1>2. x.topic \notin BulkTopics /\ m.topic \in HandledTopics
  BY Disjoint DEF Passes, Ended
<1>3. NoBulk'
  BY <1>1, <1>2 DEF SeqInv, NoBulk
<1>4. ASSUME faults = 0
      PROVE  OneAtATime' /\ FinalStep
  <2>1. OneAtATime /\ m \in Alive
    BY <1>1, <1>2, <1>4 DEF SeqInv, Alive
  <2>2. Steps' = {}
    BY <2>1 DEF OneAtATime
  <2>3. Alive' \subseteq {x} /\ (x \in Alive' => x.topic \in HandledTopics)
    BY <1>1, <2>1 DEF OneAtATime, Alive
  <2>4. Finals' = IF x.hint = "final" THEN Finals \cup {x} ELSE Finals
    BY <1>1 DEF Finals
  <2>5. InTime(m)
    BY <2>1 DEF OneAtATime
  <2>6. /\ \A f \in Finals : x.saga # f.saga
        /\ x.topic \in HandledTopics => InTime(x)'
    <3>1. CASE /\ m.topic \in First /\ x.topic \in First /\ x.hint # "final" /\ x.saga = m.saga
      BY <3>1, <2>4, <2>5, Disjoint DEF InTime
    <3>2. CASE m.topic \in First /\ x.topic = Validation /\ x.hint # "final" /\ (m.saga = Root => InSub(x.saga))
      BY <3>2, <2>4, <2>5, Disjoint DEF InTime
    <3>3. CASE m.topic \in First /\ Ended(x.topic)
      BY <3>3, <2>5, Disjoint DEF InTime, Ended
    <3>4. CASE m.topic = Validation /\ x.topic = Validated /\ x.saga = m.saga
      BY <3>4, <2>4, <2>5, Disjoint DEF InTime
    <3>5. CASE m.topic = Validated /\ Ended(x.topic) /\ x.saga = Front(m.saga)
      BY <3>5, <2>5, Disjoint, SubSaga DEF InTime, Ended
    <3>6. CASE m.topic \in Second /\ x.topic \in Second /\ x.hint # "final" /\ x.saga = m.saga
      BY <3>6, <2>4, <2>5, Disjoint, SubSaga DEF InTime
    <3>7. CASE m.topic \in Second /\ Ended(x.topic) /\ x.saga = m.saga
      BY <3>7, <2>5, Disjoint, SubSaga DEF InTime, Ended
    <3> QED
      BY <3>1, <3>2, <3>3, <3>4, <3>5, <3>6, <3>7 DEF Passes
  <2>7. OneAtATime'
    BY <2>2, <2>3, <2>6 DEF OneAtATime
  <2>8. FinalStep
    BY <1>1, <2>6 DEF FinalStep, Finals
  <2> QED
    BY <2>7, <2>8
<1> QED
  BY <1>1, <1>3, <1>4 DEF SeqInv, FinalStep

(* A flow that ends in its saga and goes on in one opened in it.           *)
LEMMA SeqSplit ==
  ASSUME SeqInv, NEW m \in bus, m.topic \in First, m.id \notin handled, handled' = handled \cup {m.id},
         NEW x, NEW y, bus' = bus \cup {x, y}, UNCHANGED faults, Steps' = Steps,
         Ended(x.topic), x.saga = m.saga, y.topic \in Second, y.hint # "final",
         m.saga = Root => InSub(y.saga)
  PROVE  SeqInv' /\ FinalStep
<1>1. NoBulk'
  BY Disjoint DEF SeqInv, NoBulk, Ended
<1>2. ASSUME faults = 0
      PROVE  OneAtATime' /\ FinalStep
  <2>1. OneAtATime /\ m \in Alive
    BY <1>2, Disjoint DEF SeqInv, Alive
  <2>2. InTime(m)
    BY <2>1 DEF OneAtATime
  <2>3. m.saga = Root /\ Finals = {} /\ InSub(y.saga)
    BY <2>2, Disjoint DEF InTime
  <2>4. Steps' = {}
    BY <2>1 DEF OneAtATime
  <2>5. Alive' \subseteq {y}
    BY <2>1 DEF OneAtATime, Alive, Ended
  <2>6. \A f \in Finals' : f.saga = Root
    BY <2>3 DEF Finals
  <2>7. InTime(y)'
    BY <2>3, <2>6 DEF InTime
  <2>8. OneAtATime'
    BY <2>4, <2>5, <2>7 DEF OneAtATime
  <2>9. FinalStep
    BY <2>3 DEF FinalStep, Finals
  <2> QED
    BY <2>8, <2>9
<1> QED
  BY <1>1, <1>2 DEF SeqInv, FinalStep

(* A step that publishes nothing and leaves what waits to be handled.      *)
LEMMA SeqStays ==
  ASSUME SeqInv, UNCHANGED <<bus, handled>>, faults' = 0 => faults = 0 /\ Steps' = Steps
  PROVE  SeqInv' /\ FinalStep
<1>1. NoBulk' /\ Alive' = Alive /\ Finals' = Finals
  BY DEF SeqInv, NoBulk, Alive, Finals
<1>2. FinalStep
  BY DEF FinalStep
<1>3. (\A m : InTime(m)' <=> InTime(m))
  BY <1>1 DEF InTime
<1>4. ASSUME faults' = 0 PROVE OneAtATime'
  BY <1>1, <1>3, <1>4 DEF SeqInv, OneAtATime
<1> QED
  BY <1>1, <1>2, <1>4 DEF SeqInv

---------------------------------------------------------------------------
(* Records in the care of a message                                        *)

(* The messages whose handler, or one further on, updates a record: that   *)
(* of the request, or that of the order or product.                        *)
RecTopics == HandledTopics \ {"recurring.created", "product.activation.requested", "product.provisioned"}
ItemTopics == {"order.created", "payment.approved", "payment.rejected", "product.activation.requested",
               "product.provisioned"}
Carries(m, r) == (m.topic \in RecTopics /\ m.rec = r) \/ (m.topic \in ItemTopics /\ m.item = r)

Underway(r) ==
  Excused(r) \/ (\E m \in Alive : Carries(m, r)) \/ \E t \in Steps : t.rec = r

(* Every record has an outcome or is on the way to one, and so will that   *)
(* be which a suspended request creates.                                   *)
RestInv ==
  /\ \A r \in DOMAIN store : store[r].status \in Settled \/ Underway(r)
  /\ \A t \in todo : t.do = "create" =>
       /\ t.status \in Settled \/ (t.rec = Main /\ Underway(Main))
       /\ t.rec = Main => Main \notin DOMAIN store /\ \A u \in todo : u.do = "create" /\ u.rec = Main => u = t

(* What a step does for a record: it gives it an outcome, or publishes or  *)
(* suspends what will.                                                     *)
Outcome(r) == r \in DOMAIN store' /\ store'[r].status \in Settled
Covered(X, r) == Excused(r)' \/ (\E x \in X : Carries(x, r)) \/ \E t \in Steps' : t.rec = r

Keeps(m, X) ==
  /\ missed \subseteq missed' /\ late \subseteq late' /\ broken \subseteq broken' /\ Steps \subseteq Steps'
  /\ \A r \in DOMAIN store' : Outcome(r) \/ Covered(X, r) \/ (r \in DOMAIN store /\ store[r].status \notin Settled)
  /\ \A r : Carries(m, r) => Covered(X, r) \/ Outcome(r)
  /\ Main \in DOMAIN store' => Main \in DOMAIN store
  /\ \A t \in todo' : t.do = "create" => t \in todo \/ (t.status \in Settled /\ t.rec # Main)

(* Handling a message.                                                     *)
LEMMA RestMove ==
  ASSUME TypeInv, RestInv, NEW m \in bus, NEW X, Keeps(m, X), m.id \notin handled,
         handled' = handled \cup {m.id}, bus' = bus \cup X, \A x \in X, n \in bus : n.id # x.id
  PROVE  RestInv'
<1>1. \A n \in Alive : n = m \/ n \in Alive'
  BY DEF Alive, TypeInv, BusInv
<1>2. \A x \in X : x.id \notin handled'
  BY DEF TypeInv
<1>3. ASSUME NEW x \in X, NEW r, Carries(x, r) PROVE x \in Alive'
  BY <1>2, <1>3 DEF Alive, Carries, RecTopics, ItemTopics, HandledTopics
<1>4. ASSUME NEW r, Covered(X, r) PROVE Underway(r)'
  BY <1>3, <1>4 DEF Covered, Underway, Carries
<1>5. ASSUME NEW r, Underway(r) PROVE Underway(r)' \/ Outcome(r)
  <2>1. CASE Excused(r)
    BY <2>1 DEF Keeps, Excused, Underway
  <2>2. CASE Carries(m, r)
    BY <2>2, <1>4 DEF Keeps
  <2>3. CASE \E n \in Alive : n # m /\ Carries(n, r)
    BY <2>3, <1>1 DEF Underway, Carries
  <2>4. CASE \E t \in Steps : t.rec = r
    BY <2>4 DEF Keeps, Underway
  <2> QED
    BY <1>5, <2>1, <2>2, <2>3, <2>4 DEF Underway
<1>6. ASSUME NEW r \in DOMAIN store' PROVE store'[r].status \in Settled \/ Underway(r)'
  BY <1>4, <1>5 DEF Keeps, RestInv, Outcome
<1>7. ASSUME NEW t \in todo', t.do = "create"
      PROVE  /\ t.status \in Settled \/ (t.rec = Main /\ Underway(Main)')
             /\ t.rec = Main => Main \notin DOMAIN store' /\ \A u \in todo' : u.do = "create" /\ u.rec = Main => u = t
  BY <1>5, <1>7 DEF Keeps, RestInv, Outcome
<1> QED
  BY <1>6, <1>7 DEF RestInv

(* A step that handles nothing.                                            *)
LEMMA RestStays ==
  ASSUME RestInv, bus \subseteq bus', handled' \subseteq handled,
         missed \subseteq missed', late \subseteq late', broken \subseteq broken',
         \A t \in Steps : Covered({}, t.rec) \/ Outcome(t.rec),
         \A r \in DOMAIN store' : Outcome(r) \/ Excused(r)' \/ Underway(r),
         \A t \in todo' : t.do = "create" => t \in todo /\ (t.rec = Main => Main \notin DOMAIN store')
  PROVE  RestInv'
<1>1. Alive \subseteq Alive'
  BY DEF Alive
<1>2. ASSUME NEW r, Underway(r) PROVE Underway(r)' \/ Outcome(r)
  BY <1>1, <1>2 DEF Underway, Covered, Carries, Excused
<1>3. ASSUME NEW r \in DOMAIN store' PROVE store'[r].status \in Settled \/ Underway(r)'
  BY <1>2 DEF Outcome, Underway
<1>4. ASSUME NEW t \in todo', t.do = "create"
      PROVE  /\ t.status \in Settled \/ (t.rec = Main /\ Underway(Main)')
             /\ t.rec = Main => Main \notin DOMAIN store' /\ \A u \in todo' : u.do = "create" /\ u.rec = Main => u = t
  BY <1>2, <1>4 DEF RestInv, Outcome
<1> QED
  BY <1>3, <1>4 DEF RestInv

---------------------------------------------------------------------------
(* One participant hands on                                                *)

(* What no step does to the records: an outcome is lost only when a        *)
(* statement that runs late writes over it.                                *)
StoreKeeps ==
  /\ StoreInv' /\ missed \subseteq missed' /\ late \subseteq late'
  /\ \A r \in DOMAIN store' : Outcome(r) \/ Excused(r)' \/ (r \in DOMAIN store /\ store[r].status \notin Settled)
  /\ Main \in DOMAIN store' => Main \in DOMAIN store

(* An update of a status keeps outcomes; one to an outcome gives it.       *)
LEMMA UpdateKeeps ==
  ASSUME StoreInv, NEW id, NEW status \in Statuses, UpdateStatus(id, status)
  PROVE  StoreKeeps /\ (status \in Settled => Outcome(id) \/ Excused(id)')
<1>1. StoreInv' /\ Updated(id, status)
  BY UpdateStatusUpdates
<1> QED
  BY <1>1 DEF Updated, StoreKeeps, Outcome, Excused

(* A participant without an update keeps them.                             *)
LEMMA NoUpdateKeeps == StoreInv /\ NoUpdate => StoreKeeps
BY DEF NoUpdate, StoreKeeps, StoreInv, Outcome

(* The id of the request is that of no other message.                      *)
LEMMA NewIsNotMain ==
  ASSUME BusInv, NEW m \in bus, NEW i \in Nat, i > 0
  PROVE  NewId(m, i) # Main
<1>1. Front(NewId(m, i)) = m.id /\ m.id # <<>>
  BY NewIds DEF BusInv
<1>2. Main = Append(<<>>, 1)
  BY DEF Main
<1>3. <<>> \in Seq(Nat) /\ 1 \in Nat
  OBVIOUS
<1>4. Front(Main) = <<>>
  BY <1>2, <1>3, FrontAppend
<1> QED
  BY <1>1, <1>4

(* A new record, under an id that is not that of the request.              *)
LEMMA CreateKeeps ==
  ASSUME BusInv, StoreInv, NEW m \in bus, NEW x, x.topic \in ItemTopics, x.item = NewId(m, 1),
         Create(NewId(m, 1), "PENDING", 0)
  PROVE  /\ StoreInv' /\ UNCHANGED <<missed, late>>
         /\ \A r \in DOMAIN store' : Outcome(r) \/ Carries(x, r) \/ (r \in DOMAIN store /\ store[r].status \notin Settled)
         /\ Main \in DOMAIN store' => Main \in DOMAIN store
<1>1. "PENDING" \in Statuses
  BY DEF Statuses
<1>2. /\ StoreInv' /\ DOMAIN store' = DOMAIN store \cup {NewId(m, 1)} /\ UNCHANGED <<missed, late>>
      /\ \A r \in DOMAIN store : r # NewId(m, 1) => store'[r] = store[r]
  BY <1>1, CreateCreates
<1>3. NewId(m, 1) # Main
  BY NewIsNotMain, 1 \in Nat, 1 > 0
<1> QED
  BY <1>2, <1>3 DEF Outcome, Carries

(* The next message of a flow, and the records in its care.                *)
Moves(m, x) ==
  Hands(m, x, m.topic, x.topic, x.hint) /\ Passes(m, x) /\ Keeps(m, {x}) /\ Steps' = Steps

(* The types after a handler.                                              *)
LEMMA HandledTypes ==
  ASSUME TypeInv, NEW m \in bus, bus \subseteq bus', BusInv', handled' \subseteq handled \cup {m.id},
         faults' = faults, StoreInv', \A t \in todo' : IsRest(t)
  PROVE  TypeInv'
BY DEF TypeInv

(* A participant that publishes one message.                               *)
LEMMA PassOn ==
  ASSUME TypeInv, NEW m \in bus, Arrives(m, m.topic), Handled(m), UNCHANGED todo,
         NEW y, Typed(y), y.rec = m.rec, Publish(m, <<y>>), Passes(m, y),
         StoreInv', missed \subseteq missed', late \subseteq late', Main \in DOMAIN store' => Main \in DOMAIN store,
         \A r \in DOMAIN store' : Outcome(r) \/ Excused(r)' \/ Carries(y, r)
                                  \/ (r \in DOMAIN store /\ store[r].status \notin Settled),
         \A r : Carries(m, r) => Carries(y, r) \/ Outcome(r) \/ Excused(r)'
  PROVE  TypeInv' /\ \E x : Moves(m, x)
<1> DEFINE x == Copy(m, y, 1)
<1>1. BusInv' /\ (\A n \in bus : n.id # x.id) /\ bus' = bus \cup {x}
  BY PublishOne DEF TypeInv
<1>2. x.topic = y.topic /\ x.hint = y.hint /\ x.saga = y.saga /\ x.rec = y.rec /\ x.item = y.item
  BY CopyFields, 1 \in Nat, 1 > 0 DEF TypeInv
<1> HIDE DEF x
<1>3. /\ m.id \notin handled /\ handled' = handled \cup {m.id} /\ UNCHANGED <<faults, broken>>
  BY DEF Arrives, Handled, HandledNow
<1>4. TypeInv'
  BY <1>1, <1>3, HandledTypes DEF TypeInv
<1>5. Hands(m, x, m.topic, x.topic, x.hint)
  BY <1>1, <1>2, <1>3 DEF Hands
<1>6. Passes(m, x)
  BY <1>2 DEF Passes
<1>7. Steps' = Steps
  BY DEF Steps
<1>8. \A r : Carries(x, r) <=> Carries(y, r)
  BY <1>2 DEF Carries
<1>9. Keeps(m, {x})
  BY <1>3, <1>7, <1>8 DEF Keeps, Covered
<1> QED
  BY <1>4, <1>5, <1>6, <1>7, <1>9 DEF Moves

Chain(topic, to, hint) ==
  \/ topic \in First /\ to \in First /\ hint # "final"
  \/ topic \in First /\ Ended(to)
  \/ topic = Validation /\ to = Validated
  \/ topic \in Second /\ to \in Second /\ hint # "final"
  \/ topic \in Second /\ Ended(to)

(* The flow goes on in its saga, about the same records: one the next      *)
(* message does not carry has an outcome.                                  *)
LEMMA SameMoves ==
  ASSUME TypeInv, NEW m \in bus, NEW topic, NEW to, NEW hint, Arrives(m, topic), Handled(m), UNCHANGED todo,
         Publish(m, <<Same(m, to, hint)>>), Chain(topic, to, hint), StoreKeeps,
         topic \in RecTopics => to \in RecTopics \/ Outcome(m.rec) \/ Excused(m.rec)',
         topic \in ItemTopics => to \in ItemTopics \/ Outcome(m.item) \/ Excused(m.item)'
  PROVE  TypeInv' /\ \E x : Moves(m, x)
<1> DEFINE y == Same(m, to, hint)
<1>1. Typed(y) /\ y.topic = to /\ y.hint = hint /\ y.saga = m.saga /\ y.rec = m.rec /\ y.item = m.item
  BY SameFields DEF TypeInv, BusInv
<1> HIDE DEF y
<1>2. m.topic = topic /\ Publish(m, <<y>>) /\ Arrives(m, m.topic)
  BY DEF Arrives, y
<1>3. Passes(m, y)
  BY <1>1, <1>2 DEF Passes, Chain
<1>4. ASSUME NEW r, Carries(m, r) PROVE Carries(y, r) \/ Outcome(r) \/ Excused(r)'
  BY <1>1, <1>2, <1>4 DEF Carries
<1> QED
  BY <1>1, <1>2, <1>3, <1>4, PassOn DEF StoreKeeps

(* Forward hands a message on.                                             *)
LEMMA ForwardMoves ==
  ASSUME TypeInv, NEW topic, NEW to, NEW hint, Forward(topic, to, hint), Chain(topic, to, hint),
         topic \in RecTopics => to \in RecTopics, topic \in ItemTopics => to \in ItemTopics
  PROVE  TypeInv' /\ \E m, x : Moves(m, x)
<1>1. PICK m \in bus : /\ Arrives(m, topic) /\ Publish(m, <<Same(m, to, hint)>>)
                       /\ Handled(m) /\ NoUpdate /\ UNCHANGED todo
  BY DEF Forward
<1>2. StoreKeeps
  BY <1>1, NoUpdateKeeps DEF TypeInv
<1> QED
  BY <1>1, <1>2, SameMoves

(* Advance does, too, with an update of the record it names.               *)
LEMMA AdvanceMoves ==
  ASSUME TypeInv, NEW topic, NEW id, NEW status \in Statuses, NEW to, NEW hint,
         Advance(topic, id, status, to, hint), Chain(topic, to, hint),
         topic \in RecTopics => to \in RecTopics \/ (id = "rec" /\ status \in Settled),
         topic \in ItemTopics => to \in ItemTopics \/ (id = "item" /\ status \in Settled)
  PROVE  TypeInv' /\ \E m, x : Moves(m, x)
<1>1. PICK m \in bus : /\ Arrives(m, topic) /\ UpdateStatus(m[id], status) /\ Publish(m, <<Same(m, to, hint)>>)
                       /\ Handled(m) /\ UNCHANGED todo
  BY DEF Advance
<1>2. StoreKeeps /\ (status \in Settled => Outcome(m[id]) \/ Excused(m[id])')
  BY <1>1, UpdateKeeps DEF TypeInv
<1>3. /\ topic \in RecTopics => to \in RecTopics \/ Outcome(m.rec) \/ Excused(m.rec)'
      /\ topic \in ItemTopics => to \in ItemTopics \/ Outcome(m.item) \/ Excused(m.item)'
  BY <1>2
<1> QED
  BY <1>1, <1>2, <1>3, SameMoves

(* The participants that hand the request on as it is.                     *)
LEMMA ForwardsMove ==
  ASSUME TypeInv,
         \/ MigrationProvisioning \/ NumberPortability \/ PlanManagement \/ PlanOrderRequested
         \/ OrderCompletedBridge \/ OrderFailedBridge
  PROVE  TypeInv' /\ \E m, x : Moves(m, x)
<1> DEFINE Ok(topic, to, hint) ==
             /\ Chain(topic, to, hint)
             /\ topic \in RecTopics => to \in RecTopics
             /\ topic \in ItemTopics => to \in ItemTopics
<1> USE DEF Chain, Ended, First, Second, BulkTopics, Validation, Validated, HandledTopics, RecTopics, ItemTopics
<1>1. Ok("migration.started", "migration.provisioned", "none")
  OBVIOUS
<1>2. Ok("portability.validation.requested", "portability.validated", "final")
  OBVIOUS
<1>3. Ok("recurring.triggered", "plan.order.requested", "none")
  OBVIOUS
<1>4. Ok("plan.order.requested", "order.requested", "none")
  OBVIOUS
<1>5. Ok("order.completed", "plan.order.completed", "none")
  OBVIOUS
<1>6. Ok("order.failed", "plan.order.failed", "compensation")
  OBVIOUS
<1> QED
  <2> USE ForwardMoves
  <2> HIDE DEF Chain, RecTopics, ItemTopics
  <2>1. CASE MigrationProvisioning
    BY <2>1, <1>1 DEF MigrationProvisioning
  <2>2. CASE NumberPortability
    BY <2>2, <1>2 DEF NumberPortability
  <2>3. CASE PlanManagement
    BY <2>3, <1>3 DEF PlanManagement
  <2>4. CASE PlanOrderRequested
    BY <2>4, <1>4 DEF PlanOrderRequested
  <2>5. CASE OrderCompletedBridge
    BY <2>5, <1>5 DEF OrderCompletedBridge
  <2>6. CASE OrderFailedBridge
    BY <2>6, <1>6 DEF OrderFailedBridge
  <2> QED
    BY <2>1, <2>2, <2>3, <2>4, <2>5, <2>6

(* Those that write a status first.                                        *)
LEMMA AdvancesMove ==
  ASSUME TypeInv,
         \/ UpgradeEligibility \/ MigrationRollback \/ PaymentApproved \/ PaymentRejected
         \/ PlanOrderFailed \/ MobileProductProvision \/ ProductProvisioned
  PROVE  TypeInv' /\ \E m, x : Moves(m, x)
<1> DEFINE Ok(topic, id, status, to, hint) ==
             /\ Chain(topic, to, hint) /\ status \in Statuses
             /\ topic \in RecTopics => to \in RecTopics \/ (id = "rec" /\ status \in Settled)
             /\ topic \in ItemTopics => to \in ItemTopics \/ (id = "item" /\ status \in Settled)
<1> USE DEF Chain, Ended, First, Second, BulkTopics, Validation, Validated, HandledTopics, RecTopics, ItemTopics,
            Statuses, Settled
<1>1. Ok("upgrade.requested", "rec", "ELIGIBLE", "upgrade.eligible", "none")
  OBVIOUS
<1>2. Ok("migration.activation-failed", "rec", "ROLLED_BACK", "migration.rolled-back", "final")
  OBVIOUS
<1>3. Ok("payment.approved", "item", "COMPLETED", "order.completed", "none")
  OBVIOUS
<1>4. Ok("payment.rejected", "item", "FAILED", "order.failed", "compensation")
  OBVIOUS
<1>5. Ok("plan.order.failed", "rec", "FAILED", "recurring.failed", "final")
  OBVIOUS
<1>6. Ok("product.activation.requested", "item", "PROVISIONED", "product.provisioned", "none")
  OBVIOUS
<1>7. Ok("product.provisioned", "item", "ACTIVE", "product.activated", "final")
  OBVIOUS
<1> QED
  <2> USE AdvanceMoves
  <2> HIDE DEF Chain, RecTopics, ItemTopics, Statuses, Settled
  <2>1. CASE UpgradeEligibility
    BY <2>1, <1>1 DEF UpgradeEligibility
  <2>2. CASE MigrationRollback
    BY <2>2, <1>2 DEF MigrationRollback
  <2>3. CASE PaymentApproved
    BY <2>3, <1>3 DEF PaymentApproved
  <2>4. CASE PaymentRejected
    BY <2>4, <1>4 DEF PaymentRejected
  <2>5. CASE PlanOrderFailed
    BY <2>5, <1>5 DEF PlanOrderFailed
  <2>6. CASE MobileProductProvision
    BY <2>6, <1>6 DEF MobileProductProvision
  <2>7. CASE ProductProvisioned
    BY <2>7, <1>7 DEF ProductProvisioned
  <2> QED
    BY <2>1, <2>2, <2>3, <2>4, <2>5, <2>6, <2>7

(* Messages in a saga that they open, and in the parent.                   *)
LEMMA ChildFields ==
  ASSUME BusInv, NEW m \in bus, NEW to, NEW hint, NEW i \in Nat, i > 0
  PROVE  LET y == Child(m, to, hint, i) IN
         /\ Typed(y) /\ y.topic = to /\ y.hint = hint /\ y.saga = Append(m.saga, NewId(m, i))
         /\ y.rec = m.rec /\ y.item = m.item /\ y.lines = m.lines /\ (m.saga = Root => InSub(y.saga))
<1> DEFINE s == Same(m, to, hint)
           v == Append(m.saga, NewId(m, i))
           y == [s EXCEPT !.saga = v]
<1>1. Typed(s) /\ s.topic = to /\ s.hint = hint /\ s.saga = m.saga /\ s.rec = m.rec /\ s.item = m.item
      /\ s.lines = m.lines
  BY SameFields DEF BusInv
<1>2. Child(m, to, hint, i) = [s EXCEPT !.saga = Append(s.saga, NewId(m, i))]
  BY DEF Child
<1> HIDE DEF s
<1>3. Child(m, to, hint, i) = y
  BY <1>1, <1>2
<1>4. m.saga = Root => InSub(v)
  BY NewIds DEF InSub
<1> HIDE DEF v
<1>5. /\ Typed(y) /\ y.topic = s.topic /\ y.hint = s.hint /\ y.saga = v
      /\ y.rec = s.rec /\ y.item = s.item /\ y.lines = s.lines
  BY <1>1 DEF IsMessage, Typed
<1> HIDE DEF y
<1> QED
  BY <1>1, <1>3, <1>4, <1>5 DEF v

(* A message to the parent saga.                                           *)
LEMMA ParentFields ==
  ASSUME BusInv, NEW m \in bus, NEW to, NEW hint
  PROVE  LET y == ToParent(m, to, hint) IN
         /\ Typed(y) /\ y.topic = to /\ y.hint = hint /\ y.saga = Front(m.saga)
         /\ y.rec = m.rec /\ y.item = m.item /\ y.lines = m.lines
<1> DEFINE s == Same(m, to, hint)
           v == Front(m.saga)
           y == [s EXCEPT !.saga = v]
<1>1. Typed(s) /\ s.topic = to /\ s.hint = hint /\ s.saga = m.saga /\ s.rec = m.rec /\ s.item = m.item
      /\ s.lines = m.lines
  BY SameFields DEF BusInv
<1>2. ToParent(m, to, hint) = [s EXCEPT !.saga = Front(s.saga)]
  BY DEF ToParent
<1> HIDE DEF s
<1>3. ToParent(m, to, hint) = y
  BY <1>1, <1>2
<1> HIDE DEF v
<1>5. /\ Typed(y) /\ y.topic = s.topic /\ y.hint = s.hint /\ y.saga = v
      /\ y.rec = s.rec /\ y.item = s.item /\ y.lines = s.lines
  BY <1>1 DEF IsMessage, Typed
<1> HIDE DEF y
<1> QED
  BY <1>1, <1>3, <1>5 DEF v

(* The payment is made, or refused at once or after three attempts.        *)
LEMMA PaymentMoves ==
  ASSUME TypeInv, PaymentManagement
  PROVE  TypeInv' /\ \E m, x : Moves(m, x)
<1>1. PICK m \in bus, to \in {"payment.rejected", "payment.approved"}, hint \in {"compensation", "none"} :
        /\ Arrives(m, "order.created") /\ Publish(m, <<Same(m, to, hint)>>)
        /\ Handled(m) /\ NoUpdate /\ UNCHANGED todo
  BY DEF PaymentManagement
<1>2. StoreKeeps
  BY <1>1, NoUpdateKeeps DEF TypeInv
<1>3. Chain("order.created", to, hint)
  BY DEF Chain, First, BulkTopics, Second, Validation, Validated, HandledTopics
<1>4. to \in RecTopics /\ to \in ItemTopics
  BY DEF RecTopics, ItemTopics, HandledTopics
<1> QED
  BY <1>1, <1>2, <1>3, <1>4, SameMoves

(* The migration succeeds, or is to be rolled back.                        *)
LEMMA ActivationMoves ==
  ASSUME TypeInv, MigrationActivation
  PROVE  TypeInv' /\ \E m, x : Moves(m, x)
<1>1. PICK m \in bus :
    /\ Arrives(m, "migration.provisioned")
    /\ \/ NoUpdate /\ Publish(m, <<Same(m, "migration.activation-failed", "compensation")>>)
       \/ UpdateStatus(m.rec, "COMPLETED") /\ Publish(m, <<Same(m, "migration.activated", "final")>>)
    /\ Handled(m) /\ UNCHANGED todo
  BY DEF MigrationActivation
<1>2. /\ Chain("migration.provisioned", "migration.activation-failed", "compensation")
      /\ Chain("migration.provisioned", "migration.activated", "final")
      /\ "migration.activation-failed" \in RecTopics /\ "migration.provisioned" \notin ItemTopics
      /\ "COMPLETED" \in Statuses /\ "COMPLETED" \in Settled
  BY DEF Chain, Second, BulkTopics, HandledTopics, RecTopics, ItemTopics, Ended, Statuses, Settled
<1>3. CASE NoUpdate /\ Publish(m, <<Same(m, "migration.activation-failed", "compensation")>>)
  <2>1. StoreKeeps
    BY <1>3, NoUpdateKeeps DEF TypeInv
  <2> QED
    BY <1>1, <1>2, <1>3, <2>1, SameMoves
<1>4. CASE UpdateStatus(m.rec, "COMPLETED") /\ Publish(m, <<Same(m, "migration.activated", "final")>>)
  <2>1. StoreKeeps /\ (Outcome(m.rec) \/ Excused(m.rec)')
    BY <1>2, <1>4, UpdateKeeps DEF TypeInv
  <2> QED
    BY <1>1, <1>2, <1>4, <2>1, SameMoves
<1> QED
  BY <1>1, <1>3, <1>4

(* The swap waits for a sub-saga that validates the number.                *)
LEMMA SimSwapMoves ==
  ASSUME TypeInv, SimSwapFork
  PROVE  TypeInv' /\ \E m, x : Moves(m, x)
<1>1. PICK m \in bus :
    /\ Arrives(m, "sim-swap.requested")
    /\ Publish(m, <<Child(m, "portability.validation.requested", "fork", 1)>>)
    /\ Handled(m) /\ NoUpdate /\ UNCHANGED todo
  BY DEF SimSwapFork
<1> DEFINE y == Child(m, "portability.validation.requested", "fork", 1)
<1>2. /\ Typed(y) /\ y.topic = Validation /\ y.hint = "fork" /\ y.rec = m.rec /\ y.item = m.item
      /\ (m.saga = Root => InSub(y.saga))
  BY ChildFields, 1 \in Nat, 1 > 0 DEF TypeInv, Validation
<1> HIDE DEF y
<1>3. /\ StoreKeeps /\ Publish(m, <<y>>) /\ m.topic = "sim-swap.requested" /\ Arrives(m, m.topic)
  BY <1>1, NoUpdateKeeps DEF TypeInv, y, Arrives
<1>4. /\ "sim-swap.requested" \in First /\ "sim-swap.requested" \notin ItemTopics /\ Validation \in RecTopics
  BY DEF First, HandledTopics, ItemTopics, RecTopics, Validation, Validated, Second, BulkTopics
<1>5. Passes(m, y)
  BY <1>2, <1>3, <1>4 DEF Passes
<1>6. ASSUME NEW r, Carries(m, r) PROVE Carries(y, r)
  BY <1>2, <1>3, <1>4, <1>6 DEF Carries
<1> QED
  BY <1>1, <1>2, <1>3, <1>5, <1>6, PassOn DEF StoreKeeps

(* And ends in the saga of the request.                                    *)
LEMMA ValidatedMoves ==
  ASSUME TypeInv, PortabilityValidated
  PROVE  TypeInv' /\ \E m, x : Moves(m, x)
<1>1. PICK m \in bus :
    /\ Arrives(m, "portability.validated")
    /\ UpdateStatus(m.rec, "COMPLETED")
    /\ Publish(m, <<ToParent(m, "sim-swap.completed", "final")>>)
    /\ Handled(m) /\ UNCHANGED todo
  BY DEF PortabilityValidated
<1> DEFINE y == ToParent(m, "sim-swap.completed", "final")
<1>2. /\ Typed(y) /\ y.topic = "sim-swap.completed" /\ y.saga = Front(m.saga) /\ y.rec = m.rec /\ y.item = m.item
  BY ParentFields DEF TypeInv
<1> HIDE DEF y
<1>3. "COMPLETED" \in Statuses /\ "COMPLETED" \in Settled
  BY DEF Statuses, Settled
<1>4. /\ StoreKeeps /\ (Outcome(m.rec) \/ Excused(m.rec)')
      /\ Publish(m, <<y>>) /\ m.topic = Validated /\ Arrives(m, m.topic)
  BY <1>1, <1>3, UpdateKeeps DEF TypeInv, y, Arrives, Validated
<1>5. Validated \notin ItemTopics /\ Ended("sim-swap.completed")
  BY DEF ItemTopics, Validated, Ended, HandledTopics, BulkTopics
<1>6. Passes(m, y)
  BY <1>2, <1>4, <1>5 DEF Passes
<1>7. ASSUME NEW r, Carries(m, r) PROVE Outcome(r) \/ Excused(r)'
  BY <1>2, <1>4, <1>5, <1>7 DEF Carries
<1> QED
  BY <1>1, <1>2, <1>4, <1>6, <1>7, PassOn DEF StoreKeeps

(* A new order or product is in the care of the message that announces it. *)
LEMMA CreatesMove ==
  ASSUME TypeInv, NEW m \in bus, NEW topic, NEW to, Arrives(m, topic), Create(NewId(m, 1), "PENDING", 0),
         Publish(m, <<[Same(m, to, "none") EXCEPT !.item = NewId(m, 1)]>>), Handled(m), UNCHANGED todo,
         Chain(topic, to, "none"), to \in ItemTopics, topic \notin ItemTopics, topic \in RecTopics => to \in RecTopics
  PROVE  TypeInv' /\ \E x : Moves(m, x)
<1> DEFINE v == NewId(m, 1)
           s == Same(m, to, "none")
           y == [s EXCEPT !.item = v]
<1>s. Typed(s) /\ s.topic = to /\ s.hint = "none" /\ s.saga = m.saga /\ s.rec = m.rec
  BY SameFields DEF TypeInv, BusInv
<1> HIDE DEF v, s
<1>1. Typed(y) /\ y.topic = to /\ y.hint = "none" /\ y.saga = m.saga /\ y.rec = m.rec /\ y.item = v
  <2>1. /\ Typed(y) /\ y.topic = s.topic /\ y.hint = s.hint /\ y.saga = s.saga /\ y.rec = s.rec /\ y.item = v
    BY ONLY <1>s DEF IsMessage, Typed
  <2> QED
    BY <1>s, <2>1
<1> HIDE DEF y
<1>2. m.topic = topic /\ Arrives(m, m.topic) /\ Publish(m, <<y>>)
  BY DEF Arrives, y, v, s
<1>3. /\ StoreInv' /\ UNCHANGED <<missed, late>>
      /\ \A r \in DOMAIN store' : Outcome(r) \/ Carries(y, r) \/ (r \in DOMAIN store /\ store[r].status \notin Settled)
      /\ Main \in DOMAIN store' => Main \in DOMAIN store
  BY <1>1, CreateKeeps DEF TypeInv, v
<1>4. Passes(m, y)
  BY <1>1, <1>2 DEF Passes, Chain
<1>5. ASSUME NEW r, Carries(m, r) PROVE Carries(y, r)
  BY <1>1, <1>2, <1>5 DEF Carries
<1> QED
  BY <1>1, <1>2, <1>3, <1>4, <1>5, PassOn

(* The participants that create a record, of an order or a product.        *)
LEMMA NewRecordsMove ==
  ASSUME TypeInv, OrderRequested \/ RecurringCreated
  PROVE  TypeInv' /\ \E m, x : Moves(m, x)
<1>1. CASE OrderRequested
  <2>1. /\ Chain("order.requested", "order.created", "none") /\ "order.created" \in ItemTopics
        /\ "order.requested" \notin ItemTopics /\ "order.created" \in RecTopics
    BY DEF Chain, First, BulkTopics, Second, Validation, Validated, HandledTopics, RecTopics, ItemTopics
  <2> QED
    BY <1>1, <2>1, CreatesMove DEF OrderRequested
<1>2. CASE RecurringCreated
  <2>1. /\ Chain("recurring.created", "product.activation.requested", "none")
        /\ "product.activation.requested" \in ItemTopics
        /\ "recurring.created" \notin ItemTopics /\ "recurring.created" \notin RecTopics
    BY DEF Chain, Second, BulkTopics, HandledTopics, RecTopics, ItemTopics
  <2> QED
    BY <1>2, <2>1, CreatesMove DEF RecurringCreated
<1> QED
  BY <1>1, <1>2

---------------------------------------------------------------------------
(* A participant that ends a saga and opens the next                       *)

(* A flow that ends in its saga and goes on in one it opens; a statement   *)
(* of the handler is left for later.                                       *)
Forks(m, x, y) ==
  /\ m \in bus /\ m.topic \in First /\ m.id \notin handled /\ handled' = handled \cup {m.id}
  /\ bus' = bus \cup {x, y} /\ (\A n \in bus : n.id # x.id /\ n.id # y.id)
  /\ UNCHANGED faults /\ Steps' = Steps
  /\ Ended(x.topic) /\ x.saga = m.saga
  /\ y.topic \in Second /\ y.hint # "final" /\ (m.saga = Root => InSub(y.saga))
  /\ Keeps(m, {x, y})

(* A participant that publishes the end of a saga and the first of the next.*)
LEMMA ForkOn ==
  ASSUME TypeInv, NEW m \in bus, Arrives(m, m.topic), Handled(m), m.topic \in First,
         NEW v, NEW w, Typed(v), Typed(w), Publish(m, <<v, w>>), StoreKeeps,
         Ended(v.topic), v.saga = m.saga,
         w.topic \in Second, w.hint # "final", m.saga = Root => InSub(w.saga),
         NEW t, IsRest(t), todo' = todo \cup {t}, t.do # "step",
         t.do = "create" => t.status \in Settled /\ t.rec # Main,
         \A r : Carries(m, r) => Carries(w, r) \/ Outcome(r) \/ Excused(r)'
  PROVE  TypeInv' /\ \E x, y : Forks(m, x, y)
<1> DEFINE x == Copy(m, v, 1)
           y == Copy(m, w, 2)
<1>1. BusInv' /\ (\A n \in bus : n.id # x.id /\ n.id # y.id) /\ bus' = bus \cup {x, y}
  BY PublishTwo DEF TypeInv
<1>2. x.topic = v.topic /\ x.saga = v.saga
  BY CopyFields, 1 \in Nat, 1 > 0 DEF TypeInv
<1>3. y.topic = w.topic /\ y.hint = w.hint /\ y.saga = w.saga /\ y.rec = w.rec /\ y.item = w.item
  BY CopyFields, 2 \in Nat, 2 > 0 DEF TypeInv
<1> HIDE DEF x, y
<1>4. m.id \notin handled /\ handled' = handled \cup {m.id} /\ UNCHANGED <<faults, broken>>
  BY DEF Arrives, Handled, HandledNow
<1>5. StoreInv' /\ \A u \in todo' : IsRest(u)
  BY DEF StoreKeeps, TypeInv
<1>6. TypeInv'
  BY <1>1, <1>4, <1>5, HandledTypes DEF TypeInv
<1>7. Steps' = Steps
  BY DEF Steps
<1>8. \A r : Carries(y, r) <=> Carries(w, r)
  BY <1>3 DEF Carries
<1>9. Keeps(m, {x, y})
  BY <1>4, <1>7, <1>8 DEF Keeps, StoreKeeps, Covered
<1> QED
  BY <1>1, <1>2, <1>3, <1>4, <1>6, <1>7, <1>9 DEF Forks

(* The upgrade ends and the migration begins.                              *)
LEMMA ApprovalForks ==
  ASSUME TypeInv, UpgradeApproval
  PROVE  TypeInv' /\ \E m, x, y : Forks(m, x, y)
<1>1. PICK m \in bus :
    /\ Arrives(m, "upgrade.eligible")
    /\ UpdateStatus(m.rec, "APPROVED")
    /\ Publish(m, <<Same(m, "upgrade.approved", "final"), Child(m, "migration.started", "none", 2)>>)
    /\ todo' = todo \cup {Rest("update", m.id, m.rec, 0, "MIGRATING")}
    /\ Handled(m)
  BY DEF UpgradeApproval
<1> DEFINE v == Same(m, "upgrade.approved", "final")
           w == Child(m, "migration.started", "none", 2)
           t == Rest("update", m.id, m.rec, 0, "MIGRATING")
<1>2. Typed(v) /\ v.topic = "upgrade.approved" /\ v.saga = m.saga
  BY SameFields DEF TypeInv, BusInv
<1>3. /\ Typed(w) /\ w.topic = "migration.started" /\ w.hint = "none" /\ w.rec = m.rec /\ w.item = m.item
      /\ (m.saga = Root => InSub(w.saga))
  BY ChildFields, 2 \in Nat, 2 > 0 DEF TypeInv
<1>4. IsRest(t) /\ t.do = "update"
  BY DEF IsRest, Rest, Statuses
<1> HIDE DEF v, w, t
<1>5. /\ Publish(m, <<v, w>>) /\ todo' = todo \cup {t}
      /\ m.topic = "upgrade.eligible" /\ Arrives(m, m.topic)
  BY <1>1 DEF v, w, t, Arrives
<1>6. StoreKeeps
  <2>1. "APPROVED" \in Statuses
    BY DEF Statuses
  <2> QED
    BY <1>1, <2>1, UpdateKeeps DEF TypeInv
<1>7. /\ "upgrade.eligible" \in First /\ Ended("upgrade.approved") /\ "migration.started" \in Second
      /\ "upgrade.eligible" \notin ItemTopics /\ "migration.started" \in RecTopics
  BY DEF First, Second, HandledTopics, BulkTopics, Validation, Validated, Ended, RecTopics, ItemTopics
<1>8. \A r : Carries(m, r) => Carries(w, r)
  BY <1>3, <1>5, <1>7 DEF Carries
<1> QED
  BY <1>1, <1>2, <1>3, <1>4, <1>5, <1>6, <1>7, <1>8, ForkOn

(* The cycle ends and the next one begins.                                 *)
LEMMA CompletedForks ==
  ASSUME TypeInv, PlanOrderCompleted
  PROVE  TypeInv' /\ \E m, x, y : Forks(m, x, y)
<1>1. PICK m \in bus :
    /\ Arrives(m, "plan.order.completed")
    /\ UpdateStatus(m.rec, "COMPLETED")
    /\ Publish(m, <<Same(m, "recurring.completed", "final"),
                 [Child(m, "recurring.created", "fork", 2) EXCEPT !.rec = NewId(m, 2)]>>)
    /\ todo' = todo \cup {Rest("create", m.id, NewId(m, 2), 0, "COMPLETED")}
    /\ Handled(m)
  BY DEF PlanOrderCompleted
<1> DEFINE id == NewId(m, 2)
           v == Same(m, "recurring.completed", "final")
           c == Child(m, "recurring.created", "fork", 2)
           w == [c EXCEPT !.rec = id]
           t == Rest("create", m.id, id, 0, "COMPLETED")
<1>2. Typed(v) /\ v.topic = "recurring.completed" /\ v.saga = m.saga
  BY SameFields DEF TypeInv, BusInv
<1>3. /\ Typed(c) /\ c.topic = "recurring.created" /\ c.hint = "fork" /\ (m.saga = Root => InSub(c.saga))
  BY ChildFields, 2 \in Nat, 2 > 0 DEF TypeInv
<1>i. id # Main
  BY NewIsNotMain, 2 \in Nat, 2 > 0 DEF TypeInv
<1> HIDE DEF v, c, id
<1>4. /\ IsRest(t) /\ t.do = "create" /\ t.status = "COMPLETED" /\ t.rec = id
  BY DEF IsRest, Rest, Statuses
<1>5. Typed(w) /\ w.topic = c.topic /\ w.hint = c.hint /\ w.saga = c.saga
  BY ONLY <1>3 DEF IsMessage, Typed
<1> HIDE DEF w, t
<1>6. /\ Publish(m, <<v, w>>) /\ todo' = todo \cup {t}
      /\ m.topic = "plan.order.completed" /\ Arrives(m, m.topic)
  BY <1>1 DEF v, w, c, id, t, Arrives
<1>7. "COMPLETED" \in Statuses /\ "COMPLETED" \in Settled
  BY DEF Statuses, Settled
<1>8. StoreKeeps /\ (Outcome(m.rec) \/ Excused(m.rec)')
  BY <1>1, <1>7, UpdateKeeps DEF TypeInv
<1>9. /\ "plan.order.completed" \in First /\ Ended("recurring.completed") /\ "recurring.created" \in Second
      /\ "plan.order.completed" \notin ItemTopics
  BY DEF First, Second, HandledTopics, BulkTopics, Validation, Validated, Ended, ItemTopics
<1>10. \A r : Carries(m, r) => Outcome(r) \/ Excused(r)'
  BY <1>6, <1>8, <1>9 DEF Carries
<1> QED
  BY <1>1, <1>2, <1>3, <1>i, <1>4, <1>5, <1>6, <1>7, <1>8, <1>9, <1>10, ForkOn

(* The invariant of the flows but the activation in bulk.                  *)
SeqAll == TypeInv /\ SeqInv /\ RestInv

(* A message that is handed on keeps the sequential invariant.             *)
LEMMA MovesKeep ==
  ASSUME SeqAll, TypeInv', NEW m, NEW x, Moves(m, x)
  PROVE  SeqAll' /\ FinalStep
<1>1. SeqInv' /\ FinalStep
  BY SeqMove DEF SeqAll, Moves
<1>2. RestInv'
  BY RestMove DEF SeqAll, Moves, Hands
<1> QED
  BY <1>1, <1>2 DEF SeqAll

(* So does one that ends its saga and opens the next.                      *)
LEMMA ForksKeep ==
  ASSUME SeqAll, TypeInv', NEW m, NEW x, NEW y, Forks(m, x, y)
  PROVE  SeqAll' /\ FinalStep
<1>1. SeqInv' /\ FinalStep
  BY SeqSplit DEF SeqAll, Forks
<1>2. RestInv'
  BY RestMove DEF SeqAll, Forks
<1> QED
  BY <1>1, <1>2 DEF SeqAll

---------------------------------------------------------------------------
(* Handlers and requests that go on after an await                         *)

(* The types after a step that publishes nothing.                          *)
LEMMA QuietTypes ==
  ASSUME TypeInv, bus' = bus, handled' \subseteq handled, faults' \in Nat, StoreInv', bus # {},
         \A t \in todo' : IsRest(t)
  PROVE  TypeInv'
<1>1. BusInv'
  BY DEF TypeInv, BusInv, Siblings
<1> QED
  BY <1>1 DEF TypeInv

(* The record of the request is created, or that of the next cycle.        *)
LEMMA StoreTypes ==
  ASSUME TypeInv, StoreRecord
  PROVE  /\ TypeInv' /\ UNCHANGED <<bus, handled, faults, broken, missed, late>>
         /\ \E t \in todo : /\ t.do = "create" /\ todo' = todo \ {t} /\ DOMAIN store' = DOMAIN store \cup {t.rec}
                            /\ store'[t.rec].status = t.status /\ store'[t.rec].total = t.n
                            /\ store'[t.rec].completed = 0
                            /\ \A r \in DOMAIN store : r # t.rec => store'[r] = store[r]
<1>1. PICK t \in todo : /\ t.do = "create" /\ Create(t.rec, t.status, t.n) /\ todo' = todo \ {t}
                        /\ UNCHANGED <<bus, handled, faults, broken>>
  BY DEF StoreRecord
<1>2. t.status \in Statuses /\ t.n \in Nat
  BY DEF TypeInv, IsRest
<1>3. /\ StoreInv' /\ DOMAIN store' = DOMAIN store \cup {t.rec} /\ UNCHANGED <<missed, late>>
      /\ store'[t.rec].status = t.status /\ store'[t.rec].total = t.n /\ store'[t.rec].completed = 0
      /\ \A r \in DOMAIN store : r # t.rec => store'[r] = store[r]
  BY <1>1, <1>2, CreateCreates DEF TypeInv
<1>4. TypeInv'
  BY <1>1, <1>3, QuietTypes DEF TypeInv
<1> QED
  BY <1>1, <1>3, <1>4

(* A request that stores its record late keeps it.                         *)
LEMMA StoreStays ==
  ASSUME SeqAll, StoreRecord
  PROVE  SeqAll' /\ FinalStep
<1>1. TypeInv' /\ UNCHANGED <<bus, handled, faults, broken, missed, late>>
  BY StoreTypes DEF SeqAll
<1>2. PICK t \in todo : /\ t.do = "create" /\ todo' = todo \ {t} /\ DOMAIN store' = DOMAIN store \cup {t.rec}
                        /\ store'[t.rec].status = t.status
                        /\ \A r \in DOMAIN store : r # t.rec => store'[r] = store[r]
  BY StoreTypes DEF SeqAll
<1>3. Steps' = Steps
  BY <1>2 DEF Steps
<1>4. SeqInv' /\ FinalStep
  BY <1>1, <1>3, SeqStays DEF SeqAll
<1>5. \A u \in Steps : Covered({}, u.rec)
  BY <1>3 DEF Covered
<1>6. ASSUME NEW r \in DOMAIN store' PROVE Outcome(r) \/ Underway(r)
  <2>1. CASE r = t.rec
    BY <2>1, <1>2 DEF Outcome, SeqAll, RestInv
  <2>2. CASE r # t.rec
    BY <2>2, <1>2 DEF Outcome, SeqAll, RestInv
  <2> QED
    BY <2>1, <2>2
<1>7. ASSUME NEW u \in todo', u.do = "create" PROVE u \in todo /\ (u.rec = Main => Main \notin DOMAIN store')
  BY <1>2, <1>7 DEF SeqAll, RestInv
<1>8. RestInv'
  BY <1>1, <1>5, <1>6, <1>7, RestStays DEF SeqAll
<1> QED
  BY <1>1, <1>4, <1>8 DEF SeqAll

(* MIGRATING is written, early or late.                                    *)
LEMMA MigratesStays ==
  ASSUME SeqAll, UpgradeMigrates
  PROVE  SeqAll' /\ FinalStep
<1>1. PICK t \in todo : /\ t.do = "update" /\ UpdateStatus(t.rec, t.status) /\ todo' = todo \ {t}
                        /\ UNCHANGED <<bus, handled, faults, broken>>
  BY DEF UpgradeMigrates
<1>2. StoreKeeps
  BY <1>1, UpdateKeeps DEF SeqAll, TypeInv, IsRest
<1>3. TypeInv'
  BY <1>1, <1>2, QuietTypes DEF SeqAll, TypeInv, StoreKeeps
<1>4. Steps' = Steps
  BY <1>1 DEF Steps
<1>5. SeqInv' /\ FinalStep
  BY <1>1, <1>4, SeqStays DEF SeqAll
<1>6. \A u \in Steps : Covered({}, u.rec)
  BY <1>4 DEF Covered
<1>7. \A r \in DOMAIN store' : Outcome(r) \/ Excused(r)' \/ Underway(r)
  BY <1>2 DEF StoreKeeps, SeqAll, RestInv
<1>8. \A u \in todo' : u.do = "create" => u \in todo /\ (u.rec = Main => Main \notin DOMAIN store')
  BY <1>1, <1>2 DEF StoreKeeps, SeqAll, RestInv
<1>9. RestInv'
  BY <1>1, <1>2, <1>6, <1>7, <1>8, RestStays DEF SeqAll, StoreKeeps
<1> QED
  BY <1>3, <1>5, <1>9 DEF SeqAll

(* The long handler begins: its record is in the care of what it goes on   *)
(* with.                                                                   *)
LEMMA ProvisioningBegins ==
  ASSUME SeqAll, DeviceProvisioning
  PROVE  SeqAll' /\ FinalStep
<1>1. PICK m \in bus : /\ Arrives(m, "device-provisioning.requested") /\ UpdateStep(m.rec)
                       /\ todo' = todo \cup {Rest("step", m.id, m.rec, 1, "IN_PROGRESS")}
                       /\ Handled(m) /\ UNCHANGED bus
  BY DEF DeviceProvisioning
<1> DEFINE t == Rest("step", m.id, m.rec, 1, "IN_PROGRESS")
<1>2. IsRest(t) /\ t.do = "step" /\ t.rec = m.rec
  BY DEF IsRest, Rest, Statuses
<1> HIDE DEF t
<1>3. /\ todo' = todo \cup {t} /\ m.topic = "device-provisioning.requested" /\ m.id \notin handled
      /\ handled' = handled \cup {m.id} /\ UNCHANGED <<bus, faults, broken>>
  BY <1>1 DEF t, Arrives, Handled, HandledNow
<1>4. StoreKeeps
  <2>1. "IN_PROGRESS" \in Statuses
    BY DEF Statuses
  <2> QED
    BY <1>1, <2>1, UpdateKeeps DEF SeqAll, TypeInv, UpdateStep
<1>5. TypeInv'
  <2>1. BusInv'
    BY <1>3 DEF SeqAll, TypeInv, BusInv, Siblings
  <2>2. \A u \in todo' : IsRest(u)
    BY <1>2, <1>3 DEF SeqAll, TypeInv
  <2> QED
    BY <2>1, <2>2, <1>3, <1>4, HandledTypes DEF SeqAll, StoreKeeps
<1>6. Steps' = Steps \cup {t}
  BY <1>2, <1>3 DEF Steps
<1>7. m.topic \in First /\ m.topic \in HandledTopics /\ m.topic \notin ItemTopics
  BY <1>3 DEF First, HandledTopics, BulkTopics, Second, Validation, Validated, ItemTopics
<1>8. SeqInv'
  <2>1. NoBulk' /\ Finals' = Finals
    BY <1>3 DEF SeqAll, SeqInv, NoBulk, Finals
  <2>2. ASSUME faults = 0 PROVE OneAtATime'
    <3>1. OneAtATime /\ m \in Alive
      BY <1>3, <1>7, <2>2 DEF SeqAll, SeqInv, Alive
    <3>2. Steps = {} /\ InTime(m)
      BY <3>1 DEF OneAtATime
    <3>3. Finals = {}
      BY <3>2, <1>7, Disjoint DEF InTime
    <3>4. Alive' = {}
      BY <3>1, <1>3 DEF OneAtATime, Alive
    <3> QED
      BY <3>2, <3>3, <3>4, <2>1, <1>6 DEF OneAtATime
  <2> QED
    BY <2>1, <2>2, <1>3 DEF SeqInv
<1>9. FinalStep
  BY <1>3 DEF FinalStep
<1>10. Keeps(m, {})
  <2>1. ASSUME NEW r, Carries(m, r) PROVE Covered({}, r)
    BY <2>1, <1>2, <1>6, <1>7 DEF Carries, Covered
  <2>2. \A u \in todo' : u.do = "create" => u \in todo
    BY <1>2, <1>3
  <2> QED
    BY <2>1, <2>2, <1>3, <1>4, <1>6 DEF Keeps, StoreKeeps, Covered
<1>11. RestInv'
  <2>1. bus' = bus \cup {}
    BY <1>3
  <2> QED
    BY <2>1, <1>3, <1>10, RestMove DEF SeqAll
<1> QED
  BY <1>5, <1>8, <1>9, <1>11 DEF SeqAll

(* It goes on to its next step.                                            *)
LEMMA ProvisioningGoesOn ==
  ASSUME SeqAll, NEW t \in todo, t.do = "step", UpdateStep(t.rec),
         todo' = (todo \ {t}) \cup {[t EXCEPT !.n = @ + 1]}, UNCHANGED <<bus, handled, faults, broken>>
  PROVE  SeqAll' /\ FinalStep
<1> DEFINE u == [t EXCEPT !.n = t.n + 1]
<1>1. IsRest(u) /\ u.do = "step" /\ u.rec = t.rec
  <2>1. IsRest(t)
    BY DEF SeqAll, TypeInv
  <2> QED
    BY <2>1 DEF IsRest
<1>2. todo' = (todo \ {t}) \cup {u}
  OBVIOUS
<1> HIDE DEF u
<1>3. StoreKeeps
  <2>1. "IN_PROGRESS" \in Statuses
    BY DEF Statuses
  <2> QED
    BY <2>1, UpdateKeeps DEF SeqAll, TypeInv, UpdateStep
<1>4. TypeInv'
  BY <1>1, <1>2, <1>3, QuietTypes DEF SeqAll, TypeInv, StoreKeeps
<1>5. t \in Steps /\ Steps' = (Steps \ {t}) \cup {u}
  BY <1>1, <1>2 DEF Steps
<1>6. SeqInv'
  <2>1. NoBulk' /\ Finals' = Finals /\ Alive' = Alive
    BY DEF SeqAll, SeqInv, NoBulk, Finals, Alive
  <2>2. ASSUME faults = 0 PROVE OneAtATime'
    <3>1. OneAtATime
      BY <2>2 DEF SeqAll, SeqInv
    <3>2. Alive = {} /\ Steps' = {u} /\ Finals = {}
      BY <3>1, <1>5 DEF OneAtATime
    <3> QED
      BY <3>2, <2>1 DEF OneAtATime
  <2> QED
    BY <2>1, <2>2 DEF SeqInv
<1>7. FinalStep
  BY DEF FinalStep
<1>8. \A k \in Steps : Covered({}, k.rec)
  BY <1>1, <1>5 DEF Covered
<1>9. \A r \in DOMAIN store' : Outcome(r) \/ Excused(r)' \/ Underway(r)
  BY <1>3 DEF StoreKeeps, SeqAll, RestInv
<1>10. \A k \in todo' : k.do = "create" => k \in todo /\ (k.rec = Main => Main \notin DOMAIN store')
  BY <1>1, <1>2, <1>3 DEF StoreKeeps, SeqAll, RestInv
<1>11. RestInv'
  BY <1>3, <1>8, <1>9, <1>10, RestStays DEF SeqAll, StoreKeeps
<1> QED
  BY <1>4, <1>6, <1>7, <1>11 DEF SeqAll

(* And ends with the final event of its saga.                              *)
LEMMA ProvisioningEnds ==
  ASSUME SeqAll, NEW t \in todo, t.do = "step", UpdateStatus(t.rec, "COMPLETED"),
         NEW m \in bus, Publish(m, <<Same(m, "device-provisioning.completed", "final")>>),
         todo' = todo \ {t}, UNCHANGED <<handled, faults, broken>>
  PROVE  SeqAll' /\ FinalStep
<1> DEFINE y == Same(m, "device-provisioning.completed", "final")
           x == Copy(m, y, 1)
<1>1. Typed(y) /\ y.topic = "device-provisioning.completed"
  BY SameFields DEF SeqAll, TypeInv, BusInv
<1> HIDE DEF y
<1>2. BusInv' /\ bus' = bus \cup {x}
  BY <1>1, PublishOne DEF SeqAll, TypeInv, y
<1>3. x.topic = "device-provisioning.completed"
  BY <1>1, CopyFields, 1 \in Nat, 1 > 0 DEF SeqAll, TypeInv
<1> HIDE DEF x
<1>4. "COMPLETED" \in Statuses /\ "COMPLETED" \in Settled
  BY DEF Statuses, Settled
<1>5. StoreKeeps /\ (Outcome(t.rec) \/ Excused(t.rec)')
  BY <1>4, UpdateKeeps DEF SeqAll, TypeInv
<1>6. TypeInv'
  BY <1>2, <1>5, HandledTypes DEF SeqAll, TypeInv, StoreKeeps
<1>7. t \in Steps /\ Steps' = Steps \ {t}
  BY DEF Steps
<1>8. x.topic \notin HandledTopics /\ x.topic \notin BulkTopics
  BY <1>3 DEF HandledTopics, BulkTopics
<1>9. SeqInv' /\ FinalStep
  <2>1. NoBulk' /\ Alive' = Alive
    BY <1>2, <1>8 DEF SeqAll, SeqInv, NoBulk, Alive
  <2>2. ASSUME faults = 0 PROVE OneAtATime' /\ FinalStep
    <3>1. OneAtATime
      BY <2>2 DEF SeqAll, SeqInv
    <3>2. Alive = {} /\ Steps' = {} /\ Finals = {}
      BY <3>1, <1>7 DEF OneAtATime
    <3>3. FinalStep
      BY <3>2 DEF FinalStep, Finals
    <3> QED
      BY <3>2, <3>3, <2>1 DEF OneAtATime
  <2> QED
    BY <2>1, <2>2 DEF SeqInv, FinalStep
<1>10. \A k \in Steps : Covered({}, k.rec) \/ Outcome(k.rec)
  BY <1>5, <1>7 DEF Covered
<1>11. \A r \in DOMAIN store' : Outcome(r) \/ Excused(r)' \/ Underway(r)
  BY <1>5 DEF StoreKeeps, SeqAll, RestInv
<1>12. \A k \in todo' : k.do = "create" => k \in todo /\ (k.rec = Main => Main \notin DOMAIN store')
  BY <1>5 DEF StoreKeeps, SeqAll, RestInv
<1>13. RestInv'
  BY <1>2, <1>5, <1>10, <1>11, <1>12, RestStays DEF SeqAll, StoreKeeps
<1> QED
  BY <1>6, <1>9, <1>13 DEF SeqAll

(* The faults, in any flow.                                                *)
LEMMA FaultTypes ==
  ASSUME TypeInv, Redeliver \/ HeartbeatThrows \/ Restart
  PROVE  /\ TypeInv' /\ faults' # 0 /\ FinalStep /\ bus' = bus /\ handled' \subseteq handled
         /\ missed \subseteq missed' /\ late \subseteq late' /\ broken \subseteq broken'
         /\ todo' \subseteq todo /\ (store' = store \/ (todo' = {} /\ DOMAIN store' = {}))
<1>1. CASE Redeliver
  <2>1. bus # {} /\ faults' \in Nat /\ faults' # 0
    BY <1>1 DEF Redeliver, TypeInv
  <2>2. TypeInv'
    BY <1>1, <2>1, QuietTypes DEF Redeliver, TypeInv, StoreInv
  <2> QED
    BY <1>1, <2>1, <2>2 DEF Redeliver, FinalStep
<1>2. CASE HeartbeatThrows
  <2>1. bus # {} /\ faults' \in Nat /\ faults' # 0
    BY <1>2 DEF HeartbeatThrows, TypeInv
  <2>2. TypeInv'
    BY <1>2, <2>1, QuietTypes DEF HeartbeatThrows, TypeInv, StoreInv
  <2> QED
    BY <1>2, <2>1, <2>2 DEF HeartbeatThrows, FinalStep
<1>3. CASE Restart
  <2>1. bus # {} /\ faults' \in Nat /\ faults' # 0
    BY <1>3 DEF Restart, TypeInv
  <2>2. StoreInv' /\ DOMAIN store' = {}
    BY <1>3 DEF Restart, StoreInv
  <2>3. TypeInv'
    BY <1>3, <2>1, <2>2, QuietTypes DEF Restart
  <2> QED
    BY <1>3, <2>1, <2>2, <2>3 DEF Restart, FinalStep
<1> QED
  BY <1>1, <1>2, <1>3

(* Faults keep it.                                                         *)
LEMMA FaultKeeps ==
  ASSUME SeqAll, Redeliver \/ HeartbeatThrows \/ Restart
  PROVE  SeqAll' /\ FinalStep
<1>1. /\ TypeInv' /\ faults' # 0 /\ FinalStep /\ bus' = bus /\ handled' \subseteq handled
      /\ missed \subseteq missed' /\ late \subseteq late' /\ broken \subseteq broken'
      /\ todo' \subseteq todo /\ (store' = store \/ (todo' = {} /\ DOMAIN store' = {}))
  BY FaultTypes DEF SeqAll
<1>2. SeqInv'
  BY <1>1 DEF SeqAll, SeqInv, NoBulk
<1>3. CASE store' = store /\ \A t \in Steps : Covered({}, t.rec)
  <2>1. \A r \in DOMAIN store' : Outcome(r) \/ Excused(r)' \/ Underway(r)
    BY <1>3 DEF Outcome, SeqAll, RestInv
  <2>2. \A u \in todo' : u.do = "create" => u \in todo /\ (u.rec = Main => Main \notin DOMAIN store')
    BY <1>1, <1>3 DEF SeqAll, RestInv
  <2>3. RestInv'
    BY <1>1, <1>3, <2>1, <2>2, RestStays DEF SeqAll
  <2> QED
    BY <1>1, <1>2, <2>3 DEF SeqAll
<1>4. CASE todo' = {} /\ DOMAIN store' = {}
  BY <1>1, <1>2, <1>4 DEF SeqAll, RestInv
<1>5. Redeliver => store' = store /\ Steps' = Steps
  BY DEF Redeliver, Steps
<1>6. HeartbeatThrows => store' = store /\ \A t \in Steps : Covered({}, t.rec)
  BY DEF HeartbeatThrows, Steps, Covered, Excused
<1>7. Restart => todo' = {} /\ DOMAIN store' = {}
  BY DEF Restart
<1> QED
  BY <1>3, <1>4, <1>5, <1>6, <1>7 DEF Covered

---------------------------------------------------------------------------
(* Activation in bulk: lines and their completions                         *)

Requested   == Topic("bulk-activation.requested")
LinesOf     == Topic("line-activation.requested")
Completions == Topic("line-activation.completed")
Announced   == Topic("bulk-activation.completed")
Counted     == {c \in Completions : c.id \in handled}
Waiting     == {m \in LinesOf \cup Completions : m.id \notin handled}

(* Only the activation of the request r is under way.                      *)
Bulk(r) ==
  /\ Requested = {r} /\ r.id = Main /\ r.saga = Root /\ r.hint = "none"
  /\ \A m \in bus : m.topic \in BulkTopics /\ m.rec = Main
  /\ \A t \in todo : t.do = "create" /\ t.rec = Main /\ t.n = r.lines
  /\ \A t, u \in todo : t = u
  /\ DOMAIN store \subseteq {Main}
  /\ Main \in DOMAIN store => store[Main].total = r.lines

(* Without faults each line has one sub-saga, which completes once.        *)
LinesOnce(r) ==
  /\ IF r.id \in handled THEN Cardinality(LinesOf) = r.lines ELSE LinesOf = {}
  /\ \A l, k \in LinesOf : l.saga = k.saga => l = k
  /\ \A l \in LinesOf : InSub(l.saga) /\ l.hint # "final"
  /\ \A c \in Completions : \E l \in LinesOf : l.saga = c.saga /\ l.id \in handled
  /\ \A c, d \in Completions : c.saga = d.saga => c = d
  /\ \A a \in Announced : a.saga = Root
  /\ Main \in DOMAIN store => store[Main].completed <= Cardinality(Counted)
  /\ Announced # {} => r.id \in handled /\ Cardinality(Counted) >= r.lines

(* Completions that are counted or to come are enough for the record,      *)
(* unless one did not find it.                                             *)
Completed == IF Main \in DOMAIN store THEN store[Main].completed ELSE 0
BulkRest(r) ==
  /\ Main \in DOMAIN store =>
       todo = {} /\ (store[Main].status \in Settled \/ Completed = 0 \/ Completed < r.lines)
  /\ Main \in DOMAIN store \/ todo # {} =>
       Main \in missed \/ r.id \notin handled \/ Completed + Cardinality(Waiting) >= r.lines

BulkAll(r) == TypeInv /\ Bulk(r) /\ (faults = 0 => LinesOnce(r)) /\ BulkRest(r)

(* The sets of messages that are counted are finite.                       *)
LEMMA PartsFinite ==
  ASSUME BusInv
  PROVE  /\ IsFiniteSet(LinesOf) /\ IsFiniteSet(Completions) /\ IsFiniteSet(Counted) /\ IsFiniteSet(Waiting)
         /\ Cardinality(LinesOf) \in Nat /\ Cardinality(Completions) \in Nat
         /\ Cardinality(Counted) \in Nat /\ Cardinality(Waiting) \in Nat
<1>1. /\ LinesOf \in SUBSET bus /\ Completions \in SUBSET bus /\ Counted \in SUBSET bus
      /\ Waiting \in SUBSET bus /\ IsFiniteSet(bus)
  BY DEF LinesOf, Completions, Counted, Waiting, Topic, BusInv
<1>2. IsFiniteSet(LinesOf) /\ IsFiniteSet(Completions) /\ IsFiniteSet(Counted) /\ IsFiniteSet(Waiting)
  BY <1>1, FS_Subset
<1> QED
  BY <1>2, FS_CardinalityType

(* As many sagas as messages, when no two share one.                       *)
LEMMA SagaCount ==
  ASSUME NEW A, IsFiniteSet(A), \A a, b \in A : a.saga = b.saga => a = b
  PROVE  IsFiniteSet({a.saga : a \in A}) /\ Cardinality({a.saga : a \in A}) = Cardinality(A)
<1> DEFINE f == [a \in A |-> a.saga]
<1>1. DOMAIN f = A /\ f = [a \in A |-> f[a]] /\ \A a \in A : f[a] = a.saga
  OBVIOUS
<1> HIDE DEF f
<1>2. \A a, b \in A : f[a] = f[b] => a = b
  BY <1>1
<1>3. IsFiniteSet({f[a] : a \in A}) /\ Cardinality({f[a] : a \in A}) = Cardinality(A)
  BY <1>1, <1>2, ImageCount
<1>4. {f[a] : a \in A} = {a.saga : a \in A}
  BY <1>1
<1> QED
  BY <1>3, <1>4

(* No more completions than lines, and when as many are counted each line  *)
(* has one.                                                                *)
LEMMA CompletionsBound ==
  ASSUME BusInv, NEW r, LinesOnce(r)
  PROVE  /\ Cardinality(Completions) <= Cardinality(LinesOf)
         /\ Cardinality(Counted) >= Cardinality(LinesOf) =>
              \A l \in LinesOf : \E c \in Counted : c.saga = l.saga
<1> DEFINE L == {l.saga : l \in LinesOf}
           C == {c.saga : c \in Completions}
           D == {c.saga : c \in Counted}
<1>1. /\ IsFiniteSet(L) /\ Cardinality(L) = Cardinality(LinesOf)
      /\ Cardinality(C) = Cardinality(Completions) /\ Cardinality(D) = Cardinality(Counted)
  <2>1. /\ \A a, b \in LinesOf : a.saga = b.saga => a = b
        /\ \A a, b \in Completions : a.saga = b.saga => a = b
        /\ \A a, b \in Counted : a.saga = b.saga => a = b
    BY DEF LinesOnce, Counted
  <2> QED
    BY <2>1, PartsFinite, SagaCount
<1>2. C \in SUBSET L /\ D \in SUBSET L
  BY DEF LinesOnce, Counted
<1>3. /\ Cardinality(C) <= Cardinality(L) /\ Cardinality(D) <= Cardinality(L)
      /\ Cardinality(L) = Cardinality(D) => L = D
  <2> HIDE DEF L, C, D
  <2> QED
    BY <1>1, <1>2, FS_Subset
<1>4. ASSUME Cardinality(Counted) >= Cardinality(LinesOf), NEW l \in LinesOf
      PROVE  \E c \in Counted : c.saga = l.saga
  <2>1. Cardinality(L) = Cardinality(D)
    BY <1>1, <1>3, <1>4, PartsFinite
  <2>2. l.saga \in D
    BY <1>3, <2>1
  <2> QED
    BY <2>2
<1> QED
  BY <1>1, <1>3, <1>4

(* A handler of the activation that publishes one message.                 *)
LEMMA BulkHandsOn ==
  ASSUME TypeInv, NEW m \in bus, NEW topic, Arrives(m, topic), Handled(m), UNCHANGED todo, StoreInv',
         NEW y, Typed(y), Publish(m, <<y>>)
  PROVE  /\ TypeInv' /\ m.topic = topic /\ m.id \notin handled /\ handled' = handled \cup {m.id}
         /\ UNCHANGED <<faults, broken>>
         /\ \E x : /\ bus' = bus \cup {x} /\ x.id \notin handled' /\ (\A n \in bus : n.id # x.id)
                   /\ x.topic = y.topic /\ x.hint = y.hint /\ x.saga = y.saga /\ x.rec = y.rec
<1> DEFINE x == Copy(m, y, 1)
<1>1. BusInv' /\ (\A n \in bus : n.id # x.id) /\ bus' = bus \cup {x}
  BY PublishOne DEF TypeInv
<1>2. x.topic = y.topic /\ x.hint = y.hint /\ x.saga = y.saga /\ x.rec = y.rec
  BY CopyFields, 1 \in Nat, 1 > 0 DEF TypeInv
<1> HIDE DEF x
<1>3. /\ m.topic = topic /\ m.id \notin handled /\ handled' = handled \cup {m.id}
      /\ UNCHANGED <<faults, broken>>
  BY DEF Arrives, Handled, HandledNow
<1>4. TypeInv'
  BY <1>1, <1>3, HandledTypes DEF TypeInv
<1>5. x.id \notin handled'
  BY <1>1, <1>3 DEF TypeInv
<1> QED
  BY <1>1, <1>2, <1>3, <1>4, <1>5

(* The topics of the activation differ.                                    *)
LEMMA BulkTopicsDiffer ==
  ASSUME NEW r, Bulk(r)
  PROVE  /\ r \in bus /\ r.topic = "bulk-activation.requested" /\ bus # {}
         /\ \A m \in bus : m = r \/ m \in LinesOf \/ m \in Completions \/ m \in Announced
         /\ r \notin LinesOf /\ r \notin Completions /\ LinesOf \cap Completions = {}
         /\ Announced \cap Completions = {}
<1>1. r \in Requested
  BY DEF Bulk
<1>2. r \in bus /\ r.topic = "bulk-activation.requested" /\ bus # {}
  BY <1>1 DEF Requested, Topic
<1>3. \A m \in bus : m = r \/ m \in LinesOf \/ m \in Completions \/ m \in Announced
  BY DEF Bulk, BulkTopics, Requested, LinesOf, Completions, Announced, Topic
<1> QED
  BY <1>2, <1>3 DEF LinesOf, Completions, Announced, Topic

(* What is counted stays counted.                                          *)
LEMMA CountedGrows ==
  ASSUME BusInv, BusInv', Counted \subseteq Counted'
  PROVE  /\ Cardinality(Counted) \in Nat /\ Cardinality(Counted') \in Nat
         /\ Cardinality(Counted) <= Cardinality(Counted') /\ IsFiniteSet(Counted')
<1>1. Counted' \in SUBSET bus' /\ IsFiniteSet(bus')
  BY DEF Counted, Completions, Topic, BusInv
<1> DEFINE C == Counted'
<1>2. IsFiniteSet(C)
  BY <1>1, FS_Subset
<1>3. Counted \in SUBSET C
  OBVIOUS
<1> HIDE DEF C
<1>4. Cardinality(C) \in Nat /\ Cardinality(Counted) \in Nat /\ Cardinality(Counted) <= Cardinality(C)
  BY <1>2, <1>3, PartsFinite, FS_Subset, FS_CardinalityType
<1> QED
  BY <1>2, <1>4 DEF C

(* The record of the request is created, without lines completed.          *)
LEMMA BulkStores ==
  ASSUME NEW r, BulkAll(r), StoreRecord
  PROVE  BulkAll(r)' /\ FinalStep
<1>1. TypeInv' /\ UNCHANGED <<bus, handled, faults, broken, missed, late>>
  BY StoreTypes DEF BulkAll
<1>2. PICK t \in todo : /\ t.do = "create" /\ todo' = todo \ {t} /\ DOMAIN store' = DOMAIN store \cup {t.rec}
                        /\ store'[t.rec].status = t.status /\ store'[t.rec].total = t.n
                        /\ store'[t.rec].completed = 0
  BY StoreTypes DEF BulkAll
<1>3. t.rec = Main /\ t.n = r.lines /\ todo' = {} /\ DOMAIN store' = {Main} /\ Main \notin DOMAIN store
  BY <1>2 DEF BulkAll, Bulk, BulkRest
<1>4. /\ Requested' = Requested /\ LinesOf' = LinesOf /\ Completions' = Completions /\ Announced' = Announced
      /\ Counted' = Counted /\ Waiting' = Waiting
  BY <1>1 DEF Requested, LinesOf, Completions, Announced, Counted, Waiting, Topic
<1>5. Bulk(r)'
  BY <1>1, <1>2, <1>3, <1>4 DEF BulkAll, Bulk
<1>6. ASSUME faults' = 0 PROVE LinesOnce(r)'
  <2>1. LinesOnce(r)
    BY <1>1, <1>6 DEF BulkAll
  <2>2. store'[Main].completed = 0 /\ Cardinality(Counted) \in Nat
    BY <1>2, <1>3, PartsFinite DEF BulkAll, TypeInv
  <2>3. store'[Main].completed <= Cardinality(Counted)
    BY <2>2
  <2> QED
    BY <2>1, <2>3, <1>1, <1>4 DEF LinesOnce
<1>7. Completed = 0 /\ Completed' = 0
  BY <1>2, <1>3 DEF Completed
<1>8. BulkRest(r)'
  BY <1>1, <1>3, <1>4, <1>7 DEF BulkAll, BulkRest
<1>9. FinalStep
  BY <1>1 DEF FinalStep
<1> QED
  BY <1>1, <1>5, <1>6, <1>8, <1>9 DEF BulkAll

(* A line is activated: its sub-saga completes.                            *)
LEMMA LineKeeps ==
  ASSUME NEW r, BulkAll(r), LineActivation
  PROVE  BulkAll(r)' /\ FinalStep
<1>1. PICK m \in bus :
        /\ Arrives(m, "line-activation.requested")
        /\ Publish(m, <<Same(m, "line-activation.completed", "final")>>)
        /\ Handled(m) /\ NoUpdate /\ UNCHANGED todo
  BY DEF LineActivation, Forward
<1> DEFINE y == Same(m, "line-activation.completed", "final")
<1>2. Typed(y) /\ y.topic = "line-activation.completed" /\ y.hint = "final" /\ y.saga = m.saga /\ y.rec = m.rec
  BY SameFields DEF BulkAll, TypeInv, BusInv
<1> HIDE DEF y
<1>3. Publish(m, <<y>>) /\ StoreInv' /\ UNCHANGED <<store, missed, late>>
  BY <1>1 DEF y, NoUpdate, BulkAll, TypeInv, StoreInv
<1>4. /\ TypeInv' /\ m.topic = "line-activation.requested" /\ m.id \notin handled
      /\ handled' = handled \cup {m.id} /\ UNCHANGED <<faults, broken>>
  BY <1>1, <1>2, <1>3, BulkHandsOn DEF BulkAll
<1>5. PICK x : /\ bus' = bus \cup {x} /\ x.id \notin handled' /\ (\A n \in bus : n.id # x.id)
               /\ x.topic = "line-activation.completed" /\ x.hint = "final" /\ x.saga = m.saga /\ x.rec = m.rec
  BY <1>1, <1>2, <1>3, BulkHandsOn DEF BulkAll
<1>6. /\ m \in LinesOf /\ m \in Waiting
      /\ Requested' = Requested /\ LinesOf' = LinesOf /\ Completions' = Completions \cup {x} /\ Announced' = Announced
      /\ Counted \subseteq Counted'
  BY <1>4, <1>5 DEF Requested, LinesOf, Completions, Announced, Counted, Waiting, Topic
<1>7. Bulk(r)'
  BY <1>1, <1>3, <1>5, <1>6 DEF BulkAll, Bulk, BulkTopics
<1>8. ASSUME faults = 0
      PROVE  LinesOnce(r)' /\ FinalStep
  <2>1. LinesOnce(r)
    BY <1>8 DEF BulkAll
  <2>2. r.id \in handled /\ r.id \in handled'
    BY <2>1, <1>4, <1>6 DEF LinesOnce
  <2>3. \A c \in Completions : c.saga # x.saga
    BY <2>1, <1>4, <1>5, <1>6 DEF LinesOnce
  <2>4. Cardinality(Counted) \in Nat /\ Cardinality(Counted') \in Nat /\ Cardinality(Counted) <= Cardinality(Counted')
    BY <1>4, <1>6, CountedGrows DEF BulkAll, TypeInv
  <2>5. Main \in DOMAIN store' => store'[Main].completed <= Cardinality(Counted')
    <3>1. ASSUME Main \in DOMAIN store PROVE store[Main].completed \in Nat
      BY <3>1 DEF BulkAll, TypeInv, StoreInv, Records
    <3> QED
      BY <3>1, <2>1, <2>4, <1>3 DEF LinesOnce
  <2>6. Announced' # {} => Cardinality(Counted') >= r.lines
    <3>1. r.lines \in Nat
      BY BulkTopicsDiffer DEF BulkAll, TypeInv, BusInv, Typed
    <3> QED
      BY <3>1, <2>1, <2>4, <1>6 DEF LinesOnce
  <2>7. \A c \in Completions' : \E l \in LinesOf' : l.saga = c.saga /\ l.id \in handled'
    BY <2>1, <1>4, <1>5, <1>6 DEF LinesOnce
  <2>8. \A c, d \in Completions' : c.saga = d.saga => c = d
    BY <2>1, <2>3, <1>6 DEF LinesOnce
  <2>9. LinesOnce(r)'
    BY <2>1, <2>2, <2>5, <2>6, <2>7, <2>8, <1>6 DEF LinesOnce
  <2>10. ASSUME NEW f \in bus, f.hint = "final", f.saga = x.saga PROVE FALSE
    <3>1. f \in Completions \/ f \in Announced
      BY <2>1, <2>10, BulkTopicsDiffer DEF LinesOnce, BulkAll, Bulk
    <3>2. InSub(x.saga) /\ x.saga # Root
      BY <2>1, <1>5, <1>6, SubSaga DEF LinesOnce
    <3> QED
      BY <3>1, <3>2, <2>1, <2>3, <2>10 DEF LinesOnce
  <2> QED
    BY <2>9, <2>10, <1>5 DEF FinalStep
<1>9. BulkRest(r)'
  <2>1. Waiting' = (Waiting \ {m}) \cup {x} /\ x \notin Waiting \ {m}
    <3>1. \A n \in bus : n.id = m.id => n = m
      BY DEF BulkAll, TypeInv, BusInv
    <3>2. m.id \in handled'
      BY <1>4
    <3> QED
      BY <3>1, <3>2, <1>4, <1>5, <1>6 DEF Waiting, LinesOf, Completions, Topic
  <2>2. Cardinality(Waiting') = Cardinality(Waiting)
    <3> DEFINE W == Waiting \ {m}
    <3>1. IsFiniteSet(W) /\ Cardinality(W) = Cardinality(Waiting) - 1 /\ Cardinality(Waiting) \in Nat
      BY <1>6, PartsFinite, FS_RemoveElement DEF BulkAll, TypeInv
    <3> HIDE DEF W
    <3>2. Cardinality(W \cup {x}) = Cardinality(W) + 1
      BY <3>1, <2>1, FS_AddElement DEF W
    <3> QED
      BY <3>1, <3>2, <2>1 DEF W
  <2>3. Completed' = Completed
    BY <1>3 DEF Completed
  <2>4. r.id \in handled' => r.id \in handled
    BY <1>4, <1>6, BulkTopicsDiffer DEF BulkAll, TypeInv, BusInv
  <2> QED
    BY <2>2, <2>3, <2>4, <1>1, <1>3 DEF BulkAll, BulkRest
<1> QED
  BY <1>4, <1>7, <1>8, <1>9 DEF BulkAll, FinalStep

(* Different ids open different sagas.                                     *)
LEMMA AppendInjective ==
  ASSUME NEW S, NEW s \in Seq(S), NEW a \in S, NEW b \in S, Append(s, a) = Append(s, b)
  PROVE  a = b
<1>1. Append(s, a)[Len(s) + 1] = a /\ Append(s, b)[Len(s) + 1] = b
  OBVIOUS
<1> QED
  BY <1>1

(* The sub-sagas of the lines are opened: as many as were asked for, each  *)
(* with an id of its own.                                                  *)
LEMMA ForkOpens ==
  ASSUME NEW r, BulkAll(r), BulkActivationFork
  PROVE  /\ TypeInv' /\ r.id \notin handled /\ handled' = handled \cup {r.id} /\ r.lines \in Nat
         /\ UNCHANGED <<faults, broken, store, missed, late, todo>>
         /\ \E X : /\ bus' = bus \cup X /\ IsFiniteSet(X) /\ Cardinality(X) = r.lines
                   /\ \A x \in X : /\ x.topic = "line-activation.requested" /\ x.hint = "fork" /\ InSub(x.saga)
                                   /\ x.rec = Main /\ x.id \notin handled'
                   /\ \A x, y \in X : x.saga = y.saga => x = y
<1>1. PICK m \in bus :
        /\ Arrives(m, "bulk-activation.requested")
        /\ Publish(m, [i \in 1..m.lines |-> Child(m, "line-activation.requested", "fork", i)])
        /\ Handled(m) /\ NoUpdate /\ UNCHANGED todo
  BY DEF BulkActivationFork
<1>2. m = r /\ m.saga = Root /\ m.rec = Main
  BY <1>1 DEF Arrives, BulkAll, Bulk, Requested, Topic
<1>3. BusInv /\ r \in bus /\ r.lines \in Nat
  BY <1>2 DEF BulkAll, TypeInv, BusInv, Typed
<1>9. PICK n \in Nat : n = r.lines
  BY <1>3
<1> DEFINE ms == [i \in 1 .. n |-> Child(r, "line-activation.requested", "fork", i)]
           K == Cardinality(Siblings(r.id))
<1>4. ASSUME NEW i \in 1 .. n
      PROVE  /\ i \in Nat /\ i > 0 /\ ms[i] = Child(r, "line-activation.requested", "fork", i)
             /\ Typed(ms[i]) /\ ms[i].topic = "line-activation.requested" /\ ms[i].hint = "fork"
             /\ ms[i].saga = Append(Root, NewId(r, i)) /\ ms[i].rec = Main /\ InSub(ms[i].saga)
  <2>1. i \in Nat /\ i > 0 /\ ms[i] = Child(r, "line-activation.requested", "fork", i)
    OBVIOUS
  <2> HIDE DEF ms
  <2> QED
    BY <2>1, <1>2, <1>3, ChildFields
<1>5. Publish(r, ms) /\ DOMAIN ms = 1 .. n
  BY <1>1, <1>2, <1>9
<1> HIDE DEF ms
<1>16. n \in Nat
  BY <1>9
<1>6. /\ BusInv' /\ \A x : x \in bus' <=> x \in bus \/ \E i \in 1 .. n : x = Copy(r, ms[i], i)
      /\ \A i, j \in 1 .. n : Copy(r, ms[i], i) = Copy(r, ms[j], j) => i = j
      /\ \A i \in 1 .. n, k \in bus : k.id # Copy(r, ms[i], i).id
  <2>1. \A i \in 1 .. n : Typed(ms[i])
    BY <1>4
  <2> QED
    BY <2>1, <1>3, <1>5, <1>16, PublishKeeps
<1>7. PICK X : /\ IsFiniteSet(X) /\ Cardinality(X) = n
               /\ \A x : x \in X <=> \E i \in 1 .. n : x = Copy(r, ms[i], i)
  <2> DEFINE f == [i \in 1 .. n |-> Copy(r, ms[i], i)]
             Y == {f[i] : i \in 1 .. n}
  <2>1. DOMAIN f = 1 .. n /\ f = [i \in 1 .. n |-> f[i]] /\ \A i \in 1 .. n : f[i] = Copy(r, ms[i], i)
    OBVIOUS
  <2>2. IsFiniteSet(1 .. n) /\ Cardinality(1 .. n) = n
    BY FS_Interval
  <2> HIDE DEF f
  <2>3. \A i, j \in 1 .. n : f[i] = f[j] => i = j
    BY <1>6, <2>1
  <2>4. \A x : x \in Y <=> \E i \in 1 .. n : x = Copy(r, ms[i], i)
    BY <2>1
  <2> HIDE DEF Y
  <2>5. IsFiniteSet({f[i] : i \in 1 .. n}) /\ Cardinality({f[i] : i \in 1 .. n}) = n
    BY <2>1, <2>2, <2>3, ImageCount
  <2>6. IsFiniteSet(Y) /\ Cardinality(Y) = n
    BY <2>5 DEF Y
  <2> QED
    BY <2>4, <2>6
<1>8. ASSUME NEW i \in 1 .. n, NEW x, x = Copy(r, ms[i], i)
      PROVE  /\ x.topic = "line-activation.requested" /\ x.hint = "fork"
             /\ x.saga = Append(Root, NewId(r, i)) /\ x.rec = Main /\ InSub(x.saga)
  BY <1>3, <1>4, <1>8, CopyFields
<1>10. bus' = bus \cup X
  BY <1>6, <1>7
<1>11. ASSUME NEW x \in X, NEW y \in X, x.saga = y.saga PROVE x = y
  <2>1. PICK i \in 1 .. n, j \in 1 .. n : x = Copy(r, ms[i], i) /\ y = Copy(r, ms[j], j)
    BY <1>7
  <2>2. /\ NewId(r, i) \in Seq(Nat) /\ NewId(r, i)[Len(NewId(r, i))] = i + K
        /\ NewId(r, j) \in Seq(Nat) /\ NewId(r, j)[Len(NewId(r, j))] = j + K /\ K \in Nat
    <3>1. i \in Nat /\ i > 0 /\ j \in Nat /\ j > 0
      BY <1>4
    <3> QED
      BY <3>1, <1>3, NewIds
  <2>3. Append(Root, NewId(r, i)) = Append(Root, NewId(r, j))
    BY <2>1, <1>8, <1>11
  <2>4. Root \in Seq(Seq(Nat))
    BY DEF Root, Main
  <2>5. NewId(r, i) = NewId(r, j)
    BY <2>2, <2>3, <2>4, AppendInjective
  <2> HIDE DEF K
  <2>6. i = j
    BY <2>2, <2>5
  <2> QED
    BY <2>1, <2>6
<1>12. r.id \notin handled /\ handled' = handled \cup {r.id} /\ UNCHANGED <<faults, broken, store, missed, late, todo>>
  BY <1>1, <1>2 DEF Arrives, Handled, HandledNow, NoUpdate
<1>13. TypeInv'
  <2>1. StoreInv' /\ \A t \in todo' : IsRest(t)
    BY <1>12 DEF BulkAll, TypeInv, StoreInv
  <2> QED
    BY <2>1, <1>3, <1>6, <1>10, <1>12, HandledTypes DEF BulkAll
<1>14. ASSUME NEW x \in X PROVE x.id \notin handled'
  <2>1. PICK i \in 1 .. n : x = Copy(r, ms[i], i)
    BY <1>7
  <2>2. \A k \in bus : k.id # x.id
    BY <2>1, <1>6
  <2>3. \A h \in handled : \E k \in bus : k.id = h
    BY DEF BulkAll, TypeInv
  <2> QED
    BY <2>2, <2>3, <1>3, <1>12
<1>15. \A x \in X : /\ x.topic = "line-activation.requested" /\ x.hint = "fork" /\ InSub(x.saga)
                    /\ x.rec = Main /\ x.id \notin handled'
  BY <1>7, <1>8, <1>14
<1> QED
  BY <1>3, <1>7, <1>9, <1>10, <1>11, <1>12, <1>13, <1>15

(* The fork of the lines keeps the invariant of the activation.            *)
LEMMA ForkKeeps ==
  ASSUME NEW r, BulkAll(r), BulkActivationFork
  PROVE  BulkAll(r)' /\ FinalStep
<1>1. /\ TypeInv' /\ r.id \notin handled /\ handled' = handled \cup {r.id} /\ r.lines \in Nat
      /\ UNCHANGED <<faults, broken, store, missed, late, todo>>
  BY ForkOpens
<1>2. PICK X : /\ bus' = bus \cup X /\ IsFiniteSet(X) /\ Cardinality(X) = r.lines
               /\ \A x \in X : /\ x.topic = "line-activation.requested" /\ x.hint = "fork" /\ InSub(x.saga)
                               /\ x.rec = Main /\ x.id \notin handled'
               /\ \A x, y \in X : x.saga = y.saga => x = y
  BY ForkOpens
<1>3. /\ Requested' = Requested /\ LinesOf' = LinesOf \cup X /\ Completions' = Completions
      /\ Announced' = Announced
  BY <1>2 DEF Requested, LinesOf, Completions, Announced, Topic
<1>4. Bulk(r)'
  BY <1>1, <1>2, <1>3 DEF BulkAll, Bulk, BulkTopics
<1>5. ASSUME faults = 0
      PROVE  LinesOnce(r)' /\ FinalStep
  <2>1. LinesOnce(r)
    BY <1>5 DEF BulkAll
  <2>2. LinesOf = {} /\ Completions = {} /\ Announced = {}
    BY <2>1, <1>1 DEF LinesOnce
  <2>3. LinesOf' = X /\ Counted = {} /\ Counted' = {} /\ r.id \in handled'
    BY <2>2, <1>1, <1>3 DEF Counted
  <2>4. LinesOnce(r)'
    BY <2>1, <2>2, <2>3, <1>1, <1>2, <1>3 DEF LinesOnce
  <2>5. \A f \in bus : f.hint # "final"
    BY <2>2, BulkTopicsDiffer DEF BulkAll, Bulk
  <2> QED
    BY <2>4, <2>5 DEF FinalStep
<1>6. BulkRest(r)'
  <2>1. X \in SUBSET (Waiting') /\ IsFiniteSet(Waiting') /\ Cardinality(Waiting') \in Nat
    <3>1. X \in SUBSET (Waiting')
      BY <1>2, <1>3 DEF Waiting
    <3>2. Waiting' \in SUBSET bus' /\ IsFiniteSet(bus')
      BY <1>1 DEF Waiting, LinesOf, Completions, Topic, TypeInv, BusInv
    <3>3. IsFiniteSet(Waiting')
      <4> DEFINE W == Waiting'  B == bus'
      <4>1. W \in SUBSET B /\ IsFiniteSet(B)
        BY <3>2
      <4> HIDE DEF W, B
      <4>2. IsFiniteSet(W)
        BY <4>1, FS_Subset
      <4> QED
        BY <4>2 DEF W
    <3> QED
      BY <3>1, <3>3, FS_CardinalityType
  <2>2. r.lines <= Cardinality(Waiting')
    <3> DEFINE W == Waiting'
    <3>1. X \in SUBSET W /\ IsFiniteSet(W)
      BY <2>1
    <3> HIDE DEF W
    <3>2. Cardinality(X) <= Cardinality(W)
      BY <3>1, FS_Subset
    <3> QED
      BY <3>2, <1>2 DEF W
  <2>3. Completed' = Completed
    BY <1>1 DEF Completed
  <2>4. Completed \in Nat
    BY DEF Completed, BulkAll, TypeInv, StoreInv, Records
  <2>5. Completed' + Cardinality(Waiting') >= r.lines
    BY <2>1, <2>2, <2>3, <2>4, <1>1
  <2> QED
    BY <2>3, <2>5, <1>1 DEF BulkAll, BulkRest
<1> QED
  BY <1>1, <1>4, <1>5, <1>6 DEF BulkAll, FinalStep

(* An increment adds one, and settles the record at its total.             *)
LEMMA IncrementUpdates ==
  ASSUME StoreInv, NEW id \in DOMAIN store, IncrementCompleted(id)
  PROVE  /\ StoreInv' /\ DOMAIN store' = DOMAIN store
         /\ store[id].completed \in Nat /\ store[id].total \in Nat
         /\ store'[id].completed = store[id].completed + 1 /\ store'[id].total = store[id].total
         /\ store[id].completed + 1 >= store[id].total => store'[id].status = "COMPLETED"
<1>1. store[id] \in Records
  BY DEF StoreInv
<1> DEFINE n == store[id].completed + 1
           s == IF n >= store[id].total THEN "COMPLETED" ELSE store[id].status
           new == [store[id] EXCEPT !.completed = n, !.status = s]
<1>2. /\ store[id].completed \in Nat /\ store[id].total \in Nat /\ n \in Nat /\ s \in Statuses
  BY <1>1 DEF Records, Statuses
<1>3. store' = [store EXCEPT ![id] = new]
  BY <1>1 DEF IncrementCompleted, Records, StoreInv
<1>4. n >= store[id].total => s = "COMPLETED"
  OBVIOUS
<1> HIDE DEF s
<1>5. new \in Records /\ new.completed = n /\ new.total = store[id].total /\ new.status = s
  BY <1>1, <1>2 DEF Records
<1> HIDE DEF n, new
<1>6. StoreInv' /\ DOMAIN store' = DOMAIN store /\ store'[id] = new
  BY <1>3, <1>5 DEF StoreInv
<1> QED
  BY <1>2, <1>4, <1>5, <1>6 DEF n

(* One more completion is counted, one less waits.                         *)
LEMMA OneMoreCounted ==
  ASSUME BusInv, BusInv', NEW m \in Completions, m.id \notin handled, handled' = handled \cup {m.id},
         LinesOf' = LinesOf, Completions' = Completions
  PROVE  /\ Cardinality(Counted) \in Nat /\ Cardinality(Waiting) \in Nat
         /\ Cardinality(Counted') = Cardinality(Counted) + 1
         /\ Cardinality(Waiting') = Cardinality(Waiting) - 1
         /\ Counted' = Counted \cup {m}
<1>1. \A n \in LinesOf \cup Completions : n.id = m.id => n = m
  BY DEF LinesOf, Completions, Topic, BusInv
<1>2. Counted' = Counted \cup {m} /\ m \notin Counted
  BY <1>1 DEF Counted
<1>3. Waiting' = Waiting \ {m} /\ m \in Waiting
  BY <1>1 DEF Waiting
<1>4. /\ IsFiniteSet(Counted) /\ Cardinality(Counted) \in Nat
      /\ IsFiniteSet(Waiting) /\ Cardinality(Waiting) \in Nat
  BY PartsFinite
<1>5. Cardinality(Counted \cup {m}) = Cardinality(Counted) + 1
  BY <1>2, <1>4, FS_AddElement
<1>6. Cardinality(Waiting \ {m}) = Cardinality(Waiting) - 1
  BY <1>3, <1>4, FS_RemoveElement
<1> QED
  BY <1>2, <1>3, <1>4, <1>5, <1>6

(* A completion that is not counted yet finds nothing announced.           *)
LEMMA NotYetAnnounced ==
  ASSUME BusInv, NEW r, r.lines \in Nat, LinesOnce(r), NEW m \in Completions, m.id \notin handled
  PROVE  Announced = {} /\ r.id \in handled /\ InSub(m.saga)
<1>1. PICK l \in LinesOf : l.saga = m.saga /\ InSub(l.saga)
  BY DEF LinesOnce
<1>2. r.id \in handled /\ Cardinality(LinesOf) = r.lines
  BY <1>1 DEF LinesOnce
<1>3. ASSUME Announced # {} PROVE FALSE
  <2>1. Cardinality(Counted) >= r.lines /\ Cardinality(Completions) <= r.lines
    BY <1>2, <1>3, CompletionsBound DEF LinesOnce
  <2>2. Counted \in SUBSET Completions /\ m \notin Counted
    BY DEF Counted
  <2>3. Cardinality(Counted) <= Cardinality(Completions)
    BY <2>2, PartsFinite, FS_Subset
  <2>4. Cardinality(Counted) \in Nat /\ Cardinality(Completions) \in Nat
    BY PartsFinite
  <2>5. Cardinality(Counted) = Cardinality(Completions)
    BY <2>1, <2>3, <2>4
  <2>6. Counted = Completions
    BY <2>2, <2>5, PartsFinite, FS_Subset
  <2> QED
    BY <2>2, <2>6
<1> QED
  BY <1>1, <1>2, <1>3

(* A completion that does not find the record.                             *)
LEMMA MissedKeeps ==
  ASSUME NEW r, BulkAll(r), NEW m \in bus, Arrives(m, "line-activation.completed"),
         ~Found(m.rec), Missed(m.rec), UNCHANGED bus, Handled(m), UNCHANGED todo
  PROVE  BulkAll(r)' /\ FinalStep
<1>1. /\ m \in Completions /\ m.id \notin handled /\ handled' = handled \cup {m.id} /\ m.rec = Main
      /\ UNCHANGED <<faults, broken, store, late>> /\ Main \in missed' /\ Main \notin DOMAIN store
  BY DEF Arrives, Completions, Topic, Handled, HandledNow, Found, Missed, BulkAll, Bulk
<1>2. /\ Requested' = Requested /\ LinesOf' = LinesOf /\ Completions' = Completions
      /\ Announced' = Announced
  BY DEF Requested, LinesOf, Completions, Announced, Topic
<1>3. TypeInv'
  BY <1>1 DEF BulkAll, TypeInv, BusInv, Siblings, StoreInv
<1>4. Bulk(r)'
  BY <1>1, <1>2 DEF BulkAll, Bulk
<1>5. ASSUME faults = 0 PROVE LinesOnce(r)'
  <2>1. LinesOnce(r) /\ r.lines \in Nat
    BY <1>5, BulkTopicsDiffer DEF BulkAll, TypeInv, BusInv, Typed
  <2>2. Announced = {} /\ r.id \in handled
    BY <2>1, <1>1, NotYetAnnounced DEF BulkAll, TypeInv
  <2> QED
    BY <2>1, <2>2, <1>1, <1>2 DEF LinesOnce
<1>6. BulkRest(r)'
  BY <1>1 DEF BulkAll, BulkRest
<1> QED
  BY <1>1, <1>3, <1>4, <1>5, <1>6 DEF BulkAll, FinalStep

(* A completion that is counted on the record, and announced if it is the  *)
(* last.                                                                   *)
LEMMA CountedKeeps ==
  ASSUME NEW r, BulkAll(r), NEW m \in bus, Arrives(m, "line-activation.completed"),
         Found(m.rec), IncrementCompleted(m.rec), UNCHANGED <<missed, late>>,
         IF store'[m.rec].completed >= store[m.rec].total
         THEN Publish(m, <<ToParent(m, "bulk-activation.completed", "final")>>)
         ELSE UNCHANGED bus,
         Handled(m), UNCHANGED todo
  PROVE  BulkAll(r)' /\ FinalStep
<1>1. /\ m \in Completions /\ m.id \notin handled /\ handled' = handled \cup {m.id} /\ m.rec = Main
      /\ UNCHANGED <<faults, broken>> /\ Main \in DOMAIN store /\ store[Main].total = r.lines
      /\ todo = {}
  BY DEF Arrives, Completions, Topic, Handled, HandledNow, Found, BulkAll, Bulk, BulkRest
<1>2. /\ StoreInv' /\ DOMAIN store' = DOMAIN store /\ store[Main].completed \in Nat /\ r.lines \in Nat
      /\ store'[Main].completed = store[Main].completed + 1 /\ store'[Main].total = r.lines
      /\ store[Main].completed + 1 >= r.lines => store'[Main].status = "COMPLETED"
  BY <1>1, IncrementUpdates DEF BulkAll, TypeInv
<1>3. /\ TypeInv' /\ Announced \subseteq Announced'
      /\ \/ bus' = bus
         \/ /\ store[Main].completed + 1 >= r.lines
            /\ \E x : /\ bus' = bus \cup {x} /\ x.topic = "bulk-activation.completed"
                      /\ x.saga = Front(m.saga) /\ x.rec = Main
  <2>1. CASE bus' = bus
    BY <2>1, <1>1, <1>2 DEF BulkAll, TypeInv, BusInv, Siblings, Announced, Topic
  <2>2. CASE /\ store'[m.rec].completed >= store[m.rec].total
             /\ Publish(m, <<ToParent(m, "bulk-activation.completed", "final")>>)
    <3> DEFINE y == ToParent(m, "bulk-activation.completed", "final")
    <3>1. Typed(y) /\ y.topic = "bulk-activation.completed" /\ y.saga = Front(m.saga) /\ y.rec = m.rec
      BY ParentFields DEF BulkAll, TypeInv
    <3>2. Publish(m, <<y>>)
      BY <2>2
    <3> HIDE DEF y
    <3>3. /\ TypeInv'
          /\ \E x : /\ bus' = bus \cup {x} /\ x.topic = y.topic /\ x.saga = y.saga /\ x.rec = y.rec
      BY <3>1, <3>2, <1>2, BulkHandsOn DEF BulkAll
    <3> QED
      BY <3>1, <3>3, <2>2, <1>1, <1>2 DEF Announced, Topic
  <2> QED
    BY <2>1, <2>2
<1>4. /\ Requested' = Requested /\ LinesOf' = LinesOf /\ Completions' = Completions
  BY <1>3 DEF Requested, LinesOf, Completions, Topic
<1>5. /\ Cardinality(Counted) \in Nat /\ Cardinality(Waiting) \in Nat
      /\ Cardinality(Counted') = Cardinality(Counted) + 1
      /\ Cardinality(Waiting') = Cardinality(Waiting) - 1
  BY <1>1, <1>3, <1>4, OneMoreCounted DEF BulkAll, TypeInv
<1>6. Bulk(r)'
  BY <1>1, <1>2, <1>3, <1>4 DEF BulkAll, Bulk, BulkTopics
<1>7. ASSUME faults = 0
      PROVE  LinesOnce(r)' /\ FinalStep
  <2>1. LinesOnce(r)
    BY <1>7 DEF BulkAll
  <2>2. Announced = {} /\ r.id \in handled /\ Front(m.saga) = Root
    BY <2>1, <1>1, <1>2, NotYetAnnounced, SubSaga DEF BulkAll, TypeInv
  <2>3. store[Main].completed <= Cardinality(Counted)
    BY <2>1, <1>1 DEF LinesOnce
  <2>4. store'[Main].completed <= Cardinality(Counted')
    BY <2>3, <1>2, <1>5
  <2>5. \A a \in Announced' : a.saga = Root /\ Cardinality(Counted') >= r.lines
    BY <2>2, <2>3, <1>2, <1>3, <1>5 DEF Announced, Topic
  <2>6. LinesOnce(r)'
    BY <2>1, <2>2, <2>4, <2>5, <1>1, <1>4 DEF LinesOnce
  <2>7. ASSUME NEW f \in bus, f.hint = "final" PROVE f.saga # Root
    <3>1. f \in Completions
      BY <2>1, <2>2, <2>7, BulkTopicsDiffer DEF LinesOnce, BulkAll, Bulk
    <3> QED
      BY <3>1, <2>1, SubSaga DEF LinesOnce
  <2> QED
    BY <2>2, <2>6, <2>7, <1>3 DEF FinalStep
<1>8. BulkRest(r)'
  <2>1. Completed = store[Main].completed /\ Completed' = store[Main].completed + 1
    BY <1>1, <1>2 DEF Completed
  <2>2. store'[Main].status \in Settled \/ Completed' < r.lines
    BY <2>1, <1>2 DEF Settled
  <2>3. r.id \in handled' => r.id \in handled
    BY <1>1, BulkTopicsDiffer DEF BulkAll, TypeInv, BusInv, Completions, Topic
  <2>4. Main \in missed \/ r.id \notin handled \/ Completed + Cardinality(Waiting) >= r.lines
    BY <1>1 DEF BulkAll, BulkRest
  <2>5. Main \in missed \/ r.id \notin handled' \/ Completed' + Cardinality(Waiting') >= r.lines
    BY <2>1, <2>3, <2>4, <1>2, <1>5
  <2> QED
    BY <2>2, <2>5, <1>1 DEF BulkRest
<1> QED
  BY <1>1, <1>3, <1>6, <1>7, <1>8 DEF BulkAll, FinalStep

(* The completion of a line keeps it, whether it finds the record or not.  *)
LEMMA CompletedKeeps ==
  ASSUME NEW r, BulkAll(r), LineActivationCompleted
  PROVE  BulkAll(r)' /\ FinalStep
BY MissedKeeps, CountedKeeps DEF LineActivationCompleted

---------------------------------------------------------------------------
(* Faults and requests while lines are activated                           *)

(* Faults keep it: what comes again waits again, a restart loses the       *)
(* record.                                                                 *)
LEMMA BulkFaultKeeps ==
  ASSUME NEW r, BulkAll(r), Redeliver \/ HeartbeatThrows \/ Restart
  PROVE  BulkAll(r)' /\ FinalStep
<1>1. /\ TypeInv' /\ faults' # 0 /\ FinalStep /\ bus' = bus /\ handled' \subseteq handled
      /\ missed \subseteq missed' /\ todo' \subseteq todo
      /\ (store' = store \/ (todo' = {} /\ DOMAIN store' = {}))
  BY FaultTypes DEF BulkAll
<1>2. /\ Requested' = Requested /\ LinesOf' = LinesOf /\ Completions' = Completions
      /\ Announced' = Announced /\ Waiting \subseteq Waiting'
  BY <1>1 DEF Requested, LinesOf, Completions, Announced, Waiting, Topic
<1>3. Bulk(r)'
  BY <1>1, <1>2 DEF BulkAll, Bulk
<1>4. BulkRest(r)'
  <2>1. CASE todo' = {} /\ DOMAIN store' = {}
    BY <2>1 DEF BulkRest
  <2>2. CASE store' = store /\ UNCHANGED todo
    <3> DEFINE W == Waiting'
    <3>1. IsFiniteSet(W) /\ Waiting \in SUBSET W
      <4>1. W \in SUBSET bus /\ IsFiniteSet(bus)
        BY <1>1, <1>2 DEF Waiting, LinesOf, Completions, Topic, BulkAll, TypeInv, BusInv
      <4> HIDE DEF W
      <4>2. IsFiniteSet(W)
        BY <4>1, FS_Subset
      <4> QED
        BY <4>2, <1>2 DEF W
    <3> HIDE DEF W
    <3>2. Cardinality(Waiting) <= Cardinality(W) /\ Cardinality(W) \in Nat /\ Cardinality(Waiting) \in Nat
      BY <3>1, PartsFinite, FS_Subset, FS_CardinalityType DEF BulkAll, TypeInv
    <3>3. Completed' = Completed /\ Completed \in Nat /\ r.lines \in Nat
      BY <2>2, BulkTopicsDiffer DEF Completed, BulkAll, TypeInv, StoreInv, Records, BusInv, Typed
    <3>4. Main \in missed \/ r.id \notin handled \/ Completed + Cardinality(Waiting) >= r.lines
            => Main \in missed' \/ r.id \notin handled' \/ Completed' + Cardinality(W) >= r.lines
      BY <3>2, <3>3, <1>1
    <3> QED
      BY <3>3, <3>4, <2>2 DEF BulkAll, BulkRest, W
  <2>3. CASE HeartbeatThrows
    BY <2>3 DEF HeartbeatThrows, BulkAll, Bulk
  <2> QED
    BY <2>1, <2>2, <2>3 DEF Redeliver, Restart
<1> QED
  BY <1>1, <1>3, <1>4 DEF BulkAll

Requests(topic, status, total, sim) ==
  [id |-> Main, topic |-> topic, hint |-> "none", saga |-> <<Main>>,
   rec |-> Main, item |-> <<>>, lines |-> total, sim |-> sim]

(* The fields of a request and of what stores its record.                  *)
LEMMA RequestFields ==
  ASSUME NEW topic, NEW status, NEW total \in Nat, NEW sim
  PROVE  /\ LET m == Requests(topic, status, total, sim) IN
            /\ Typed(m) /\ m.id = Main /\ m.topic = topic /\ m.hint = "none" /\ m.saga = Root
            /\ m.rec = Main /\ m.lines = total
         /\ LET t == Rest("create", <<>>, Main, total, status) IN
            status \in Statuses => IsRest(t)
BY DEF Requests, Typed, IsMessage, Main, Root, Rest, IsRest

(* A request is the first message of the bus.                              *)
LEMMA RequestTypes ==
  ASSUME TypeInv, NEW topic, NEW status \in Statuses, NEW total \in Nat, NEW sim,
         Request(topic, status, total, sim)
  PROVE  /\ TypeInv' /\ FinalStep /\ handled' = {} /\ DOMAIN store' = {} /\ UNCHANGED faults
         /\ bus' = {Requests(topic, status, total, sim)}
         /\ todo' = {Rest("create", <<>>, Main, total, status)}
<1> DEFINE m == Requests(topic, status, total, sim)
           t == Rest("create", <<>>, Main, total, status)
<1>1. Typed(m) /\ m.id = Main /\ IsRest(t)
  BY RequestFields
<1>2. bus' = {m} /\ todo' = {t} /\ bus = {} /\ UNCHANGED <<handled, store, faults>>
  BY DEF Request, Requests, NoUpdate
<1> HIDE DEF m, t
<1>3. Main # <<>> /\ Main[Len(Main)] = 1 /\ Front(Main) = <<>>
  <2>1. Main = Append(<<>>, 1) /\ <<>> \in Seq(Nat)
    BY DEF Main
  <2>2. Front(Append(<<>>, 1)) = <<>>
    BY <2>1, FrontAppend
  <2> QED
    BY <2>1, <2>2 DEF Main
<1>4. BusInv'
  <2>1. IsFiniteSet({m}) /\ Cardinality({m}) = 1
    BY FS_Singleton
  <2>2. Siblings(<<>>)' = {m}
    BY <1>1, <1>2, <1>3 DEF Siblings
  <2>3. Cardinality(Siblings(<<>>)') = 1 /\ IsFiniteSet(bus')
    BY <2>1, <2>2, <1>2
  <2>4. ASSUME NEW k \in bus'
        PROVE  /\ Typed(k) /\ \A l \in bus' : k = l
               /\ k.id # <<>> /\ k.id[Len(k.id)] = 1 /\ Front(k.id) = <<>>
    BY <1>1, <1>2, <1>3
  <2>5. \A k \in bus' : k.id # <<>> /\ k.id[Len(k.id)] \in 1 .. Cardinality(Siblings(Front(k.id)))'
    BY <2>3, <2>4
  <2> QED
    BY <2>3, <2>4, <2>5 DEF BusInv
<1>5. handled = {} /\ DOMAIN store = {}
  BY <1>2 DEF TypeInv
<1>6. StoreInv'
  BY <1>2 DEF TypeInv, StoreInv
<1>7. TypeInv'
  BY <1>1, <1>2, <1>4, <1>5, <1>6 DEF TypeInv
<1>8. FinalStep
  BY <1>2 DEF FinalStep
<1> QED
  BY <1>2, <1>5, <1>7, <1>8 DEF m, t

Firsts == {"recurring.triggered", "sim-swap.requested", "upgrade.requested", "device-provisioning.requested"}

(* A request that begins a sequential flow.                                *)
LEMMA SeqBegins ==
  ASSUME TypeInv, NEW topic \in Firsts, NEW status \in Statuses, NEW sim, Request(topic, status, 0, sim)
  PROVE  SeqAll' /\ FinalStep
<1> DEFINE m == Requests(topic, status, 0, sim)
           t == Rest("create", <<>>, Main, 0, status)
<1>1. /\ TypeInv' /\ FinalStep /\ handled' = {} /\ DOMAIN store' = {} /\ UNCHANGED faults
      /\ bus' = {m} /\ todo' = {t}
  BY RequestTypes, 0 \in Nat
<1>2. m.id = Main /\ m.topic = topic /\ m.hint = "none" /\ m.saga = Root /\ m.rec = Main
  BY RequestFields, 0 \in Nat
<1>3. t.do = "create" /\ t.rec = Main
  BY DEF Rest
<1> HIDE DEF m, t
<1>4. topic \in First /\ topic \in RecTopics /\ topic \in HandledTopics /\ topic \notin BulkTopics
  BY DEF Firsts, First, Second, Validation, Validated, HandledTopics, RecTopics, BulkTopics
<1>5. Alive' = {m} /\ Steps' = {} /\ Finals' = {}
  BY <1>1, <1>2, <1>3, <1>4 DEF Alive, Steps, Finals
<1>6. SeqInv'
  BY <1>1, <1>2, <1>4, <1>5 DEF SeqInv, NoBulk, OneAtATime, InTime
<1>7. RestInv'
  BY <1>1, <1>2, <1>3, <1>4, <1>5 DEF RestInv, Underway, Carries
<1> QED
  BY <1>1, <1>6, <1>7 DEF SeqAll

(* A request for lines.                                                    *)
LEMMA BulkBegins ==
  ASSUME TypeInv, NEW n \in Lines, Request("bulk-activation.requested", "PENDING", n, "ok")
  PROVE  (\E r : BulkAll(r)') /\ FinalStep
<1>1. n \in Nat /\ "PENDING" \in Statuses
  BY DEF Statuses
<1> DEFINE m == Requests("bulk-activation.requested", "PENDING", n, "ok")
           t == Rest("create", <<>>, Main, n, "PENDING")
<1>2. /\ TypeInv' /\ FinalStep /\ handled' = {} /\ DOMAIN store' = {} /\ UNCHANGED faults
      /\ bus' = {m} /\ todo' = {t}
  BY <1>1, RequestTypes
<1>3. /\ m.id = Main /\ m.topic = "bulk-activation.requested" /\ m.hint = "none"
      /\ m.saga = Root /\ m.rec = Main /\ m.lines = n
  BY <1>1, RequestFields
<1>4. t.do = "create" /\ t.rec = Main /\ t.n = n
  BY DEF Rest
<1> HIDE DEF m, t
<1>5. Requested' = {m} /\ LinesOf' = {} /\ Completions' = {} /\ Announced' = {}
  BY <1>2, <1>3 DEF Requested, LinesOf, Completions, Announced, Topic
<1>6. Bulk(m)'
  BY <1>2, <1>3, <1>4, <1>5 DEF Bulk, BulkTopics
<1>7. LinesOnce(m)'
  BY <1>2, <1>5 DEF LinesOnce
<1>8. BulkRest(m)'
  BY <1>2 DEF BulkRest
<1> QED
  BY <1>2, <1>6, <1>7, <1>8 DEF BulkAll

---------------------------------------------------------------------------
(* The inductive invariant                                                 *)

(* While lines are activated, nobody else has anything to handle, and the  *)
(* other way round.                                                        *)
LEMMA BulkSteps ==
  ASSUME NEW r, BulkAll(r), Participants
  PROVE  StoreRecord \/ BulkActivationFork \/ LineActivation \/ LineActivationCompleted
<1>1. ASSUME NEW topic, topic \notin BulkTopics, NEW m \in bus, Arrives(m, topic) PROVE FALSE
  BY <1>1 DEF BulkAll, Bulk, Arrives
<1>2. ~UpgradeMigrates /\ ~ProvisioningStep
  BY DEF UpgradeMigrates, ProvisioningStep, BulkAll, Bulk
<1>3. ~DeviceProvisioning /\ ~UpgradeApproval /\ ~MigrationActivation
  BY <1>1 DEF DeviceProvisioning, UpgradeApproval, MigrationActivation, BulkTopics
<1>4. ~SimSwapFork /\ ~PortabilityValidated /\ ~OrderRequested /\ ~PaymentManagement
  BY <1>1 DEF SimSwapFork, PortabilityValidated, OrderRequested, PaymentManagement, BulkTopics
<1>5. ~PlanOrderCompleted /\ ~RecurringCreated
  BY <1>1 DEF PlanOrderCompleted, RecurringCreated, BulkTopics
<1>6. ASSUME NEW topic, topic \notin BulkTopics, NEW next, NEW hint PROVE ~Forward(topic, next, hint)
  BY <1>1, <1>6 DEF Forward
<1>7. ASSUME NEW topic, topic \notin BulkTopics, NEW id, NEW status, NEW next, NEW hint
      PROVE  ~Advance(topic, id, status, next, hint)
  BY <1>1, <1>7 DEF Advance
<1>8. /\ ~MigrationProvisioning /\ ~NumberPortability /\ ~PlanManagement /\ ~PlanOrderRequested
      /\ ~OrderCompletedBridge /\ ~OrderFailedBridge
  BY <1>6 DEF MigrationProvisioning, NumberPortability, PlanManagement, PlanOrderRequested,
              OrderCompletedBridge, OrderFailedBridge, BulkTopics
<1>9. /\ ~UpgradeEligibility /\ ~MigrationRollback /\ ~PaymentApproved /\ ~PaymentRejected
      /\ ~PlanOrderFailed /\ ~MobileProductProvision /\ ~ProductProvisioned
  BY <1>7 DEF UpgradeEligibility, MigrationRollback, PaymentApproved, PaymentRejected, PlanOrderFailed,
              MobileProductProvision, ProductProvisioned, BulkTopics
<1> QED
  BY <1>2, <1>3, <1>4, <1>5, <1>8, <1>9 DEF Participants

(* No line is activated in a sequential flow.                              *)
LEMMA SeqSteps ==
  ASSUME SeqAll
  PROVE  ~BulkActivationFork /\ ~LineActivation /\ ~LineActivationCompleted
BY DEF SeqAll, SeqInv, NoBulk, BulkTopics, BulkActivationFork, LineActivation, LineActivationCompleted,
       Forward, Arrives

(* A request of either kind begins a flow that the invariant describes.    *)
LEMMA TriggerBegins ==
  ASSUME TypeInv, Trigger
  PROVE  (SeqAll' \/ \E r : BulkAll(r)') /\ FinalStep
<1>1. ASSUME NEW topic \in Firsts, NEW status \in Statuses, NEW sim, Request(topic, status, 0, sim)
      PROVE  SeqAll' /\ FinalStep
  BY <1>1, SeqBegins
<1>2. TriggerRecurring \/ TriggerSimSwap \/ TriggerUpgrade \/ TriggerProvisioning => SeqAll' /\ FinalStep
  BY <1>1 DEF TriggerRecurring, TriggerSimSwap, TriggerUpgrade, TriggerProvisioning, Firsts, Statuses
<1>3. TriggerBulkActivation => (\E r : BulkAll(r)') /\ FinalStep
  BY BulkBegins DEF TriggerBulkActivation
<1> QED
  BY <1>2, <1>3 DEF Trigger

FlowInv == SeqAll \/ \E r : BulkAll(r)

(* It holds when nothing was asked for.                                    *)
LEMMA FlowInvInit == Init => FlowInv
<1> SUFFICES ASSUME Init PROVE SeqAll
  BY DEF FlowInv
<1>1. TypeInv
  BY FS_EmptySet DEF Init, TypeInv, BusInv, StoreInv
<1>2. SeqInv
  BY DEF Init, SeqInv, NoBulk, OneAtATime, Alive, Steps, Finals
<1>3. RestInv
  BY DEF Init, RestInv
<1> QED
  BY <1>1, <1>2, <1>3 DEF SeqAll

(* Every participant keeps the sequential invariant.                       *)
LEMMA SeqKeeps ==
  ASSUME SeqAll, Participants
  PROVE  SeqAll' /\ FinalStep
<1>1. CASE StoreRecord
  BY <1>1, StoreStays
<1>2. CASE UpgradeMigrates
  BY <1>2, MigratesStays
<1>3. CASE DeviceProvisioning
  BY <1>3, ProvisioningBegins
<1>4. CASE ProvisioningStep
  BY <1>4, ProvisioningGoesOn, ProvisioningEnds DEF ProvisioningStep
<1>5. CASE UpgradeApproval \/ PlanOrderCompleted
  BY <1>5, ApprovalForks, CompletedForks, ForksKeep DEF SeqAll
<1>6. CASE \/ MigrationProvisioning \/ NumberPortability \/ PlanManagement \/ PlanOrderRequested
           \/ OrderCompletedBridge \/ OrderFailedBridge
  BY <1>6, ForwardsMove, MovesKeep DEF SeqAll
<1>7. CASE \/ UpgradeEligibility \/ MigrationRollback \/ PaymentApproved \/ PaymentRejected
           \/ PlanOrderFailed \/ MobileProductProvision \/ ProductProvisioned
  BY <1>7, AdvancesMove, MovesKeep DEF SeqAll
<1>8. CASE PaymentManagement \/ MigrationActivation \/ SimSwapFork \/ PortabilityValidated
  BY <1>8, PaymentMoves, ActivationMoves, SimSwapMoves, ValidatedMoves, MovesKeep DEF SeqAll
<1>9. CASE OrderRequested \/ RecurringCreated
  BY <1>9, NewRecordsMove, MovesKeep DEF SeqAll
<1> QED
  BY <1>1, <1>2, <1>3, <1>4, <1>5, <1>6, <1>7, <1>8, <1>9, SeqSteps DEF Participants

(* Every step keeps the invariant, and publishes in no saga that has ended.*)
LEMMA FlowInvNext ==
  ASSUME FlowInv, Next
  PROVE  FlowInv' /\ FinalStep
<1>1. CASE SeqAll /\ Participants
  BY <1>1, SeqKeeps DEF FlowInv
<1>2. ASSUME NEW r, BulkAll(r), Participants PROVE BulkAll(r)' /\ FinalStep
  BY <1>2, BulkSteps, BulkStores, ForkKeeps, LineKeeps, CompletedKeeps
<1>3. CASE Trigger
  BY <1>3, TriggerBegins DEF FlowInv, SeqAll, BulkAll
<1>4. CASE Redeliver \/ HeartbeatThrows \/ Restart
  BY <1>4, FaultKeeps, BulkFaultKeeps DEF FlowInv
<1> QED
  BY <1>1, <1>2, <1>3, <1>4 DEF FlowInv, Next

(* So does a step that changes nothing.                                    *)
LEMMA FlowInvStays ==
  ASSUME FlowInv, UNCHANGED vars
  PROVE  FlowInv' /\ FinalStep
<1>1. /\ bus' = bus /\ handled' = handled /\ todo' = todo /\ store' = store
      /\ faults' = faults /\ missed' = missed /\ late' = late /\ broken' = broken
  BY DEF vars
<1>2. TypeInv' = TypeInv
  BY <1>1 DEF TypeInv, BusInv, Siblings, StoreInv
<1>3. Alive' = Alive /\ Steps' = Steps /\ Finals' = Finals
  BY <1>1 DEF Alive, Steps, Finals
<1>4. SeqAll => SeqAll'
  <2>1. SeqInv => SeqInv'
    BY <1>1, <1>3 DEF SeqInv, NoBulk, OneAtATime, InTime
  <2>2. RestInv => RestInv'
    BY <1>1, <1>3 DEF RestInv, Underway, Excused, Carries
  <2> QED
    BY <2>1, <2>2, <1>2 DEF SeqAll
<1>5. /\ Requested' = Requested /\ LinesOf' = LinesOf /\ Completions' = Completions
      /\ Announced' = Announced
  BY <1>1 DEF Requested, LinesOf, Completions, Announced, Topic
<1>6. Counted' = Counted /\ Waiting' = Waiting /\ Completed' = Completed
  BY <1>1, <1>5 DEF Counted, Waiting, Completed
<1>7. ASSUME NEW r, BulkAll(r) PROVE BulkAll(r)'
  <2>1. Bulk(r)' /\ (faults = 0 => LinesOnce(r)')
    BY <1>1, <1>5, <1>6, <1>7 DEF BulkAll, Bulk, LinesOnce
  <2>2. BulkRest(r)'
    BY <1>1, <1>6, <1>7 DEF BulkAll, BulkRest
  <2> QED
    BY <2>1, <2>2, <1>1, <1>2, <1>7 DEF BulkAll
<1>8. FinalStep
  BY <1>1 DEF FinalStep
<1> QED
  BY <1>4, <1>7, <1>8 DEF FlowInv

(* The invariant holds in every state, and every step respects final       *)
(* events.                                                                 *)
LEMMA Flows == Spec => []FlowInv
<1>1. FlowInv /\ [Next]_vars => FlowInv'
  BY FlowInvNext, FlowInvStays
<1> QED
  BY <1>1, FlowInvInit, PTL DEF Spec

(* Messages, records and suspended handlers have their types, and no two   *)
(* messages ever share an id: those a handler publishes are numbered on    *)
(* from what its message has caused already, also when it runs again.      *)
THEOREM TypeCorrect == Spec => []TypeInv
<1>1. FlowInv => TypeInv
  BY DEF FlowInv, SeqAll, BulkAll
<1> QED
  BY <1>1, Flows, PTL

(* While nothing is redelivered or lost, the announcement of a completed   *)
(* bulk activation is preceded by a completion of every line, which the    *)
(* participant that counts has handled, and by as many lines as the client *)
(* asked for, in whatever order the lines complete.                        *)
THEOREM CompletionIsComplete == Spec => []CompletionCoversLines
<1>1. ASSUME FlowInv, faults = 0, Topic("bulk-activation.completed") # {}
      PROVE  /\ \A m \in Topic("line-activation.requested") :
                  \E n \in Topic("line-activation.completed") : n.saga = m.saga /\ n.id \in handled
             /\ \A m \in Topic("bulk-activation.requested") :
                  Cardinality(Topic("line-activation.requested")) = m.lines
  <2>1. ~SeqAll
    BY <1>1 DEF SeqAll, SeqInv, NoBulk, BulkTopics, Topic
  <2>2. PICK r : BulkAll(r)
    BY <1>1, <2>1 DEF FlowInv
  <2>3. BusInv /\ LinesOnce(r) /\ Announced # {}
    BY <1>1, <2>2 DEF BulkAll, TypeInv, Announced
  <2>4. Cardinality(LinesOf) = r.lines /\ Cardinality(Counted) >= Cardinality(LinesOf)
    BY <2>3 DEF LinesOnce
  <2>5. \A l \in LinesOf : \E c \in Counted : c.saga = l.saga
    BY <2>3, <2>4, CompletionsBound
  <2>6. \A m \in Requested : m = r
    BY <2>2 DEF BulkAll, Bulk
  <2> QED
    BY <2>4, <2>5, <2>6 DEF Counted, LinesOf, Completions, Requested
<1>2. FlowInv => CompletionCoversLines
  BY <1>1 DEF CompletionCoversLines
<1> QED
  BY <1>2, Flows, PTL

(* While nothing is redelivered or lost, no participant of the five flows  *)
(* publishes in a saga after an event with the hint final: what goes on    *)
(* after it does so in a sub-saga or in the parent, and no saga ends twice.*)
THEOREM FinalEventIsLast == Spec => FinalIsLast
<1>1. FlowInv /\ [Next]_vars =>
        [faults' = 0 => ~ \E m \in bus, n \in bus' \ bus : m.hint = "final" /\ n.saga = m.saga]_vars
  BY FlowInvNext DEF FinalStep
<1> QED
  BY <1>1, Flows, PTL DEF Spec, FinalIsLast

(* With any redeliveries, failed heartbeats and restarts, a flow that has  *)
(* come to rest leaves each record with an outcome, unless an update       *)
(* missed it, a late statement wrote over its outcome, a heartbeat ended   *)
(* its handler, or the client asked for no line.                           *)
THEOREM RestHasOutcome == Spec => []RestShowsOutcome
<1>1. ASSUME SeqAll, Quiet, NEW r \in DOMAIN store
      PROVE  store[r].status \in Settled \/ r \in missed \cup late \cup broken
  <2>1. Alive = {} /\ Steps = {}
    BY <1>1 DEF Quiet, Alive, Steps
  <2> QED
    BY <2>1, <1>1 DEF SeqAll, RestInv, Underway, Excused
<1>2. ASSUME NEW r, BulkAll(r), Quiet, NEW k \in DOMAIN store
      PROVE  store[k].status \in Settled \/ k \in missed \cup late \cup broken \/ NoLines
  <2>1. k = Main
    BY <1>2 DEF BulkAll, Bulk
  <2>2. Waiting = {} /\ r.id \in handled
    BY <1>2, BulkTopicsDiffer DEF Quiet, Waiting, LinesOf, Completions, Topic, HandledTopics, BulkAll
  <2>3. Cardinality(Waiting) = 0
    BY <2>2, FS_EmptySet
  <2>4. Completed \in Nat /\ r.lines \in Nat
    BY BulkTopicsDiffer, <1>2 DEF Completed, BulkAll, TypeInv, StoreInv, Records, BusInv, Typed
  <2>5. store[Main].status \in Settled \/ Completed = 0 \/ Completed < r.lines
    BY <1>2, <2>1 DEF BulkAll, BulkRest
  <2>6. Main \in missed \/ Completed + Cardinality(Waiting) >= r.lines
    BY <1>2, <2>1, <2>2 DEF BulkAll, BulkRest
  <2>7. store[Main].status \in Settled \/ Main \in missed \/ r.lines = 0
    BY <2>3, <2>4, <2>5, <2>6
  <2>8. r \in Topic("bulk-activation.requested")
    BY <1>2 DEF BulkAll, Bulk, Requested
  <2> QED
    BY <2>1, <2>7, <2>8 DEF NoLines
<1>3. FlowInv => RestShowsOutcome
  BY <1>1, <1>2 DEF FlowInv, RestShowsOutcome
<1> QED
  BY <1>3, Flows, PTL
=============================================================================
