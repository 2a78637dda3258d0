------------------------- MODULE MonitorPages_proofs -------------------------
(***************************************************************************)
(* Proofs about the pages of the two monitors.                             *)
(*                                                                         *)
(* The built-in monitor (BuiltInMonitor): a page misses only the events of *)
(* a gap in its stream, and a group of sagas has the status of its latest  *)
(* event.  The page of a saga (SagaDetail): paging to the end covers the   *)
(* log, and spans tile.  Both walk up trees of sagas; the lemmas about     *)
(* recursion up a tree are shared, the state is not.                       *)
(***************************************************************************)
EXTENDS BuiltInMonitor, SagaDetail, FiniteSetTheorems, WellFoundedInduction, TLAPS

(* A set of numbers that is not empty has a smallest one.                  *)
LEMMA SmallestInSet ==
  ASSUME NEW T, T \subseteq Nat, T # {}
  PROVE  \E n \in T : \A k \in T : n <= k
<1>1. PICK n \in T : \A k \in T : <<k, n>> \notin OpToRel(<, Nat)
  BY NatLessThanWellFounded, WFMin
<1>2. \A k \in T : ~(k < n)
  BY <1>1 DEF OpToRel
<1> QED
  BY <1>2

(* Max gives the largest number of a set that has a bound.                 *)
LEMMA LargestInSet ==
  ASSUME NEW T, NEW b \in Nat, T \subseteq 1 .. b, T # {}
  PROVE  Max(T) \in T /\ \A k \in T : k <= Max(T)
<1> DEFINE D == {n \in Nat : \A k \in T : k <= n}
<1>1. D \subseteq Nat /\ b \in D
  OBVIOUS
<1>2. PICK n \in D : \A d \in D : n <= d
  BY <1>1, SmallestInSet
<1>3. n \in T
  <2> SUFFICES ASSUME n \notin T PROVE FALSE
    OBVIOUS
  <2>1. n \in Nat /\ \A k \in T : k <= n /\ k # n /\ k \in Nat /\ k >= 1
    BY <1>2
  <2>2. n - 1 \in Nat
    <3>1. PICK k \in T : TRUE
      OBVIOUS
    <3> QED
      BY <2>1, <3>1
  <2>3. n - 1 \in D
    BY <2>1, <2>2
  <2> QED
    BY <1>2, <2>1, <2>3
<1>4. \E x \in T : \A y \in T : x >= y
  BY <1>2, <1>3
<1> QED
  BY <1>4 DEF Max

(* Recursion up a tree, where walking up (up) ends: there is a function    *)
(* whose value at a node is made of the value above it (step), or, where   *)
(* the walk ends, given (end).                                            *)
Closed(S, up, T) == T \subseteq S /\ \A s \in T : up[s] \in S => up[s] \in T

Runs(S, up, V, end, step, T, g) ==
  /\ Closed(S, up, T) /\ g \in [T -> V]
  /\ \A s \in T : g[s] = IF up[s] \in S THEN step[<<s, g[up[s]]>>] ELSE end[s]

Ends(S, up) == \A T \in SUBSET S : T # {} => \E s \in T : up[s] \notin T

(* Where two of them are defined, they agree.                              *)
LEMMA RunsAgree ==
  ASSUME NEW S, NEW up, Ends(S, up), NEW V, NEW end, NEW step,
         NEW T, NEW g, Runs(S, up, V, end, step, T, g),
         NEW U, NEW h, Runs(S, up, V, end, step, U, h),
         NEW x \in T, x \in U
  PROVE  g[x] = h[x]
<1> DEFINE D == {s \in T \cap U : g[s] # h[s]}
<1> SUFFICES ASSUME D # {} PROVE FALSE
  OBVIOUS
<1>1. D \in SUBSET S
  BY DEF Runs, Closed
<1>2. PICK s \in D : up[s] \notin D
  BY <1>1 DEF Ends
<1>3. s \in T /\ s \in U /\ g[s] # h[s]
  BY <1>2
<1>4. up[s] \in S => up[s] \in T /\ up[s] \in U /\ g[up[s]] = h[up[s]]
  BY <1>2, <1>3 DEF Runs, Closed
<1> QED
  BY <1>3, <1>4 DEF Runs

(* There is one that is defined everywhere.                                *)
LEMMA UpTheTree ==
  ASSUME NEW S, NEW up, Ends(S, up), NEW V, NEW end \in [S -> V], NEW step \in [S \X V -> V]
  PROVE  \E g : Runs(S, up, V, end, step, S, g)
<1> DEFINE Run(T, g) == Runs(S, up, V, end, step, T, g)
           Bad == {s \in S : ~ \E T, g : Run(T, g) /\ s \in T}
<1>1. ASSUME NEW s \in S PROVE \E T, g : Run(T, g) /\ s \in T
  <2> SUFFICES ASSUME Bad # {} PROVE FALSE
    OBVIOUS
  <2>1. Bad \in SUBSET S
    OBVIOUS
  <2>2. PICK b \in Bad : up[b] \notin Bad
    BY <2>1 DEF Ends
  <2>3. b \in S /\ ~ \E T, g : Run(T, g) /\ b \in T
    BY <2>2
  <2>4. CASE up[b] \notin S
    <3> DEFINE g == [x \in {b} |-> end[b]]
    <3>1. end[b] \in V
      BY <2>3
    <3>2. g \in [{b} -> V] /\ g[b] = end[b]
      BY <3>1
    <3>3. Closed(S, up, {b})
      BY <2>3, <2>4 DEF Closed
    <3> HIDE DEF g
    <3>4. Run({b}, g)
      BY <2>4, <3>2, <3>3 DEF Runs
    <3> QED
      BY <2>3, <3>4
  <2>5. CASE up[b] \in S
    <3>1. PICK T, g : Run(T, g) /\ up[b] \in T
      BY <2>2, <2>5
    <3>2. b \notin T
      BY <2>3, <3>1
    <3>3. Closed(S, up, T) /\ g \in [T -> V]
      BY <3>1 DEF Runs
    <3> DEFINE U == T \cup {b}
               v == step[<<b, g[up[b]]>>]
               h == [x \in U |-> IF x \in T THEN g[x] ELSE v]
    <3>4. v \in V
      <4>1. g[up[b]] \in V
        BY <3>1, <3>3
      <4> QED
        BY <2>3, <4>1
    <3>5. h \in [U -> V] /\ h[b] = v /\ \A x \in T : h[x] = g[x]
      <4> HIDE DEF v
      <4> QED
        BY <3>2, <3>3, <3>4
    <3>6. Closed(S, up, U)
      BY <2>3, <3>1, <3>3 DEF Closed
    <3>7. \A x \in U : h[x] = IF up[x] \in S THEN step[<<x, h[up[x]]>>] ELSE end[x]
      <4> SUFFICES ASSUME NEW x \in U
                   PROVE  h[x] = IF up[x] \in S THEN step[<<x, h[up[x]]>>] ELSE end[x]
        OBVIOUS
      <4> HIDE DEF h
      <4>1. CASE x = b
        BY <4>1, <2>5, <3>1, <3>5
      <4>2. CASE x \in T
        <5>1. up[x] \in S => up[x] \in T
          BY <4>2, <3>3 DEF Closed
        <5>2. g[x] = IF up[x] \in S THEN step[<<x, g[up[x]]>>] ELSE end[x]
          BY <4>2, <3>1 DEF Runs
        <5> QED
          BY <4>2, <5>1, <5>2, <3>5
      <4> QED
        BY <4>1, <4>2
    <3> HIDE DEF h, U
    <3>8. Run(U, h)
      BY <3>5, <3>6, <3>7 DEF Runs
    <3> QED
      BY <2>3, <3>8 DEF U
  <2> QED
    BY <2>4, <2>5
<1> DEFINE Value(s) == CHOOSE v : \E T, g : Run(T, g) /\ s \in T /\ v = g[s]
           f == [s \in S |-> Value(s)]
<1>2. ASSUME NEW s \in S, NEW T, NEW g, Run(T, g), s \in T
      PROVE  f[s] = g[s]
  <2>1. \E v : \E U, h : Run(U, h) /\ s \in U /\ v = h[s]
    BY <1>2
  <2>2. PICK U, h : Run(U, h) /\ s \in U /\ Value(s) = h[s]
    BY <2>1
  <2>3. g[s] = h[s]
    BY <1>2, <2>2, RunsAgree
  <2> QED
    BY <2>2, <2>3
<1> HIDE DEF f, Run
<1>3. \A s \in S : f[s] \in V /\ f[s] = IF up[s] \in S THEN step[<<s, f[up[s]]>>] ELSE end[s]
  <2> SUFFICES ASSUME NEW s \in S
               PROVE  f[s] \in V /\ f[s] = IF up[s] \in S THEN step[<<s, f[up[s]]>>] ELSE end[s]
    OBVIOUS
  <2>1. PICK T, g : Run(T, g) /\ s \in T
    BY <1>1
  <2>2. /\ g \in [T -> V] /\ (up[s] \in S => up[s] \in T)
        /\ g[s] = IF up[s] \in S THEN step[<<s, g[up[s]]>>] ELSE end[s]
    BY <2>1 DEF Run, Runs, Closed
  <2>3. f[s] = g[s] /\ (up[s] \in S => f[up[s]] = g[up[s]])
    BY <1>2, <2>1, <2>2
  <2> QED
    BY <2>1, <2>2, <2>3
<1>4. f \in [S -> V]
  BY <1>3 DEF f
<1> QED
  BY <1>3, <1>4 DEF Runs, Closed

(* The elements of two sequences, one after the other.                     *)
LEMMA RangeOfConcat ==
  ASSUME NEW S, NEW p \in Seq(S), NEW q \in Seq(S)
  PROVE  p \o q \in Seq(S) /\ Range(p \o q) = Range(p) \cup Range(q)
<1>1. ASSUME NEW i \in DOMAIN (p \o q) PROVE (p \o q)[i] \in Range(p) \cup Range(q)
  <2>1. CASE i \in DOMAIN p
    BY <2>1 DEF Range
  <2>2. CASE i \notin DOMAIN p
    <3>1. i - Len(p) \in DOMAIN q /\ (p \o q)[i] = q[i - Len(p)]
      BY <2>2
    <3> QED
      BY <3>1 DEF Range
  <2> QED
    BY <2>1, <2>2
<1>2. ASSUME NEW i \in DOMAIN p PROVE p[i] \in Range(p \o q)
  <2>1. i \in DOMAIN (p \o q) /\ (p \o q)[i] = p[i]
    OBVIOUS
  <2> QED
    BY <2>1 DEF Range
<1>3. ASSUME NEW i \in DOMAIN q PROVE q[i] \in Range(p \o q)
  <2>1. i + Len(p) \in DOMAIN (p \o q) /\ (p \o q)[i + Len(p)] = q[i]
    OBVIOUS
  <2> QED
    BY <2>1 DEF Range
<1> QED
  BY <1>1, <1>2, <1>3 DEF Range

(* The recursive function of FlattenSeq exists: it appends the last        *)
(* sequence to those before it, flattened.                                 *)
LEMMA FlattenRuns ==
  ASSUME NEW S, NEW q \in Seq(Seq(S))
  PROVE  \E g : g = [i \in 1 .. Len(q) |-> IF i = 1 THEN q[i] ELSE g[i - 1] \o q[i]]
<1> DEFINE I == 1 .. Len(q)
           up == [i \in I |-> i - 1]
           end == [i \in I |-> q[i]]
           step == [x \in I \X Seq(S) |-> x[2] \o q[x[1]]]
<1>1. Ends(I, up)
  <2> SUFFICES ASSUME NEW T \in SUBSET I, T # {} PROVE \E s \in T : up[s] \notin T
    BY DEF Ends
  <2>1. T \subseteq Nat
    OBVIOUS
  <2>2. PICK n \in T : \A k \in T : n <= k
    BY <2>1, SmallestInSet
  <2>3. n \in Nat /\ up[n] = n - 1
    BY <2>1
  <2>4. n - 1 \notin T
    BY <2>1, <2>2, <2>3
  <2> QED
    BY <2>3, <2>4
<1>2. end \in [I -> Seq(S)] /\ step \in [I \X Seq(S) -> Seq(S)]
  <2>1. \A i \in I : q[i] \in Seq(S)
    OBVIOUS
  <2> QED
    BY <2>1
<1>3. PICK g \in [I -> Seq(S)] :
         \A i \in I : g[i] = IF up[i] \in I THEN step[<<i, g[up[i]]>>] ELSE end[i]
  <2> DEFINE V == Seq(S)
  <2>1. end \in [I -> V] /\ step \in [I \X V -> V]
    BY <1>2
  <2> HIDE DEF I, up, end, step, V
  <2>2. PICK g : Runs(I, up, V, end, step, I, g)
    BY <1>1, <2>1, UpTheTree
  <2> QED
    BY <2>2 DEF Runs, V
<1>4. \A i \in I : g[i] = IF i = 1 THEN q[i] ELSE g[i - 1] \o q[i]
  <2> SUFFICES ASSUME NEW i \in I PROVE g[i] = IF i = 1 THEN q[i] ELSE g[i - 1] \o q[i]
    OBVIOUS
  <2>1. i \in Nat /\ (i = 1 <=> i - 1 \notin I) /\ up[i] = i - 1
    OBVIOUS
  <2>2. end[i] = q[i]
    OBVIOUS
  <2>3. i # 1 => step[<<i, g[i - 1]>>] = g[i - 1] \o q[i]
    <3>1. i # 1 => <<i, g[i - 1]>> \in I \X Seq(S)
      BY <2>1
    <3> QED
      BY <3>1
  <2> HIDE DEF up, end, step
  <2> QED
    BY <1>3, <2>1, <2>2, <2>3
<1> QED
  BY <1>4

(* A flattened sequence has the elements of the sequences in it.           *)
LEMMA RangeOfFlatten ==
  ASSUME NEW S, NEW q \in Seq(Seq(S))
  PROVE  /\ FlattenSeq(q) \in Seq(S)
         /\ \A x : x \in Range(FlattenSeq(q)) <=> \E i \in DOMAIN q : x \in Range(q[i])
<1>1. CASE Len(q) = 0
  <2>1. q = <<>> /\ FlattenSeq(q) = q /\ DOMAIN q = {}
    BY <1>1 DEF FlattenSeq
  <2>2. <<>> \in Seq(S) /\ Range(q) = {}
    BY <2>1 DEF Range
  <2> QED
    BY <2>1, <2>2
<1>2. CASE Len(q) # 0
  <2> DEFINE Is(f) == f = [i \in 1 .. Len(q) |-> IF i = 1 THEN q[i] ELSE f[i - 1] \o q[i]]
             f == CHOOSE f : Is(f)
  <2>1. FlattenSeq(q) = f[Len(q)]
    BY <1>2 DEF FlattenSeq
  <2>2. Is(f)
    BY FlattenRuns
  <2> HIDE DEF f
  <2> DEFINE Right(i) == /\ f[i] \in Seq(S)
                         /\ \A x : x \in Range(f[i]) <=> \E j \in 1 .. i : x \in Range(q[j])
             Wrong == {i \in 1 .. Len(q) : ~Right(i)}
  <2>3. ASSUME NEW i \in 1 .. Len(q) PROVE Right(i)
    <3> SUFFICES ASSUME ~Right(i) PROVE FALSE
      OBVIOUS
    <3>1. PICK n \in Wrong : \A k \in Wrong : n <= k
      <4>1. Wrong \subseteq Nat
        OBVIOUS
      <4>2. i \in Wrong
        OBVIOUS
      <4> HIDE DEF Wrong
      <4> QED
        BY <4>1, <4>2, SmallestInSet
    <3>2. /\ n \in 1 .. Len(q) /\ ~Right(n) /\ n \in Nat
          /\ \A k \in 1 .. Len(q) : ~Right(k) => n <= k
      <4> HIDE DEF Right
      <4> QED
        BY <3>1
    <3>3. q[n] \in Seq(S)
      BY <3>2
    <3>4. CASE n = 1
      <4>1. f[n] = q[n]
        BY <2>2, <3>2, <3>4
      <4>2. \A j : j \in 1 .. n <=> j = n
        BY <3>4
      <4>3. \A x : (\E j \in 1 .. n : x \in Range(q[j])) <=> x \in Range(q[n])
        BY <4>2
      <4>4. Right(n)
        BY <3>3, <4>1, <4>3
      <4> QED
        BY <3>2, <4>4
    <3>5. CASE n # 1
      <4>1. f[n] = f[n - 1] \o q[n]
        BY <2>2, <3>2, <3>5
      <4>2. n - 1 \in 1 .. Len(q) /\ ~(n <= n - 1)
        BY <3>2, <3>5
      <4>3. Right(n - 1)
        <5> HIDE DEF Right
        <5> QED
          BY <3>2, <4>2
      <4>4. f[n] \in Seq(S) /\ Range(f[n]) = Range(f[n - 1]) \cup Range(q[n])
        BY <3>3, <4>1, <4>3, RangeOfConcat
      <4>5. \A j : j \in 1 .. n <=> j \in 1 .. n - 1 \/ j = n
        BY <3>2
      <4>6. Right(n)
        BY <4>3, <4>4, <4>5
      <4> QED
        BY <3>2, <4>6
    <3> QED
      BY <3>4, <3>5
  <2>4. Len(q) \in 1 .. Len(q) /\ DOMAIN q = 1 .. Len(q)
    BY <1>2
  <2>5. Right(Len(q))
    BY <2>3, <2>4
  <2> QED
    BY <2>1, <2>4, <2>5
<1> QED
  BY <1>1, <1>2
(* An event as it was published.                                           *)
Event == [saga : Sagas, hint : Hints, at : Nat]

(* Types of the store of the server, of the page as a record, and of what  *)
(* is on its way.                                                          *)
MonitorTyped ==
  /\ published \in Seq(Event)
  /\ consumed \subseteq DOMAIN published
  /\ seen \in Seq(Sagas)
  /\ events \in [Sagas -> Seq(Nat)]
  /\ page = [kind |-> page.kind, rows |-> page.rows, counts |-> page.counts,
             shown |-> page.shown, ticks |-> page.ticks]
  /\ page.kind \in {"none", "dashboard", "list", "detail"}
  /\ asked \in [Requests -> Nat]
  /\ stream \in Seq(Nat)
  /\ subscribed \in BOOLEAN

(* The events kept of a saga are of it and were published; what was        *)
(* consumed is kept; the keys of the map are the sagas with an event.      *)
StoreInv ==
  /\ \A s \in Sagas : \A e \in Range(events[s]) : e \in DOMAIN published /\ published[e].saga = s
  /\ \A s \in Sagas : events[s] # <<>> <=> s \in Range(seen)
  /\ \A e \in consumed : e \in Range(events[published[e].saga])

(* Before a page is open nothing is asked for or sent.                     *)
NothingSent ==
  page.kind = "none" =>
    /\ asked = [r \in Requests |-> 0] /\ answers = {}
    /\ ~subscribed /\ stream = <<>> /\ offered = {}

(* An event that was offered is on the page, or it is on its way, in the   *)
(* stream or in an answer.                                                 *)
OnTheWay(e) == e \in Range(stream)

FeedInv ==
  /\ offered \subseteq DOMAIN published
  /\ \A e \in Range(stream) : e \in DOMAIN published
  /\ page.kind = "detail" =>
       \A e \in offered : Root(published[e].saga) = Target =>
         e \in page.shown \/ OnTheWay(e) \/ \E a \in answers : a.to = "list" /\ e \in a.data
  /\ page.kind = "list" =>
       \A e \in offered : LET s == published[e].saga IN
         s \in DOMAIN page.rows \/ OnTheWay(e) \/ \E a \in answers : a.to = "list" /\ s \in DOMAIN a.data

(* The inductive invariant of the pages of the built-in monitor.           *)
PageInv == MonitorTyped /\ StoreInv /\ NothingSent /\ FeedInv

(* The elements of a sequence, and one more.                               *)
LEMMA RangeOfAppend ==
  ASSUME NEW S, NEW q \in Seq(S), NEW x
  PROVE  Range(Append(q, x)) = Range(q) \cup {x}
<1>1. Range(Append(q, x)) \subseteq Range(q) \cup {x}
  BY DEF Range
<1>2. x \in Range(Append(q, x))
  <2>1. Append(q, x)[Len(q) + 1] = x /\ Len(q) + 1 \in DOMAIN Append(q, x)
    OBVIOUS
  <2> QED
    BY <2>1 DEF Range
<1>3. Range(q) \subseteq Range(Append(q, x))
  <2> SUFFICES ASSUME NEW i \in DOMAIN q PROVE q[i] \in Range(Append(q, x))
    BY DEF Range
  <2>1. Append(q, x)[i] = q[i] /\ i \in DOMAIN Append(q, x)
    OBVIOUS
  <2> QED
    BY <2>1 DEF Range
<1> QED
  BY <1>1, <1>2, <1>3

(* What is left without the head.                                          *)
LEMMA RangeOfTail ==
  ASSUME NEW S, NEW q \in Seq(S), q # <<>>
  PROVE  /\ Range(q) \subseteq Range(Tail(q)) \cup {Head(q)}
         /\ Range(Tail(q)) \subseteq Range(q) /\ Head(q) \in Range(q)
<1>1. ASSUME NEW i \in DOMAIN q
      PROVE  q[i] \in Range(Tail(q)) \cup {Head(q)}
  <2>1. CASE i = 1
    BY <2>1
  <2>2. CASE i # 1
    <3>1. i - 1 \in DOMAIN Tail(q) /\ Tail(q)[i - 1] = q[i]
      BY <2>2
    <3> QED
      BY <3>1 DEF Range
  <2> QED
    BY <2>1, <2>2
<1>2. ASSUME NEW i \in DOMAIN Tail(q) PROVE Tail(q)[i] \in Range(q)
  <2>1. i + 1 \in DOMAIN q /\ Tail(q)[i] = q[i + 1]
    OBVIOUS
  <2> QED
    BY <2>1 DEF Range
<1>3. Head(q) \in Range(q)
  <2>1. 1 \in DOMAIN q /\ q[1] = Head(q)
    OBVIOUS
  <2> QED
    BY <2>1 DEF Range
<1> QED
  BY <1>1, <1>2, <1>3 DEF Range

(* An empty sequence has no elements.                                      *)
LEMMA EmptyRange == Range(<<>>) = {}
  BY DEF Range

(* At the start there is no page, and nothing on its way.                  *)
LEMMA InitPage == Init => PageInv
<1> SUFFICES ASSUME Init PROVE PageInv
  OBVIOUS
<1>1. published = <<>> /\ DOMAIN published = {} /\ Range(stream) = {}
  BY EmptyRange DEF Init
<1>2. MonitorTyped
  <2>1. events \in [Sagas -> Seq(Nat)] /\ asked \in [Requests -> Nat]
    BY DEF Init
  <2>2. page = Blank("none") /\ published = <<>> /\ consumed = {} /\ seen = <<>> /\ stream = <<>> /\ ~subscribed
    BY DEF Init
  <2>3. /\ page = [kind |-> page.kind, rows |-> page.rows, counts |-> page.counts,
                   shown |-> page.shown, ticks |-> page.ticks]
        /\ page.kind \in {"none", "dashboard", "list", "detail"}
    <3> DEFINE r == [s \in {} |-> NoRow]
               c == NoCounts
    <3>1. page = [kind |-> "none", rows |-> r, counts |-> c, shown |-> {}, ticks |-> 0]
      BY <2>2 DEF Blank
    <3> HIDE DEF r, c
    <3> QED
      BY <3>1
  <2>4. \A S : <<>> \in Seq(S)
    OBVIOUS
  <2>5. subscribed \in BOOLEAN /\ consumed \subseteq DOMAIN published
    BY <1>1 DEF Init
  <2>6. published \in Seq(Event) /\ seen \in Seq(Sagas) /\ stream \in Seq(Nat)
    BY <2>2, <2>4
  <2> QED
    BY <2>1, <2>3, <2>5, <2>6 DEF MonitorTyped
<1>3. StoreInv
  <2>1. \A s \in Sagas : events[s] = <<>>
    BY DEF Init
  <2> QED
    BY <1>1, <2>1, EmptyRange DEF Init, StoreInv
<1>4. NothingSent /\ FeedInv
  BY <1>1 DEF Init, NothingSent, FeedInv
<1> QED
  BY <1>2, <1>3, <1>4 DEF PageInv

(* What was published stays as it is.                                      *)
LEMMA PublishedStays ==
  ASSUME MonitorTyped, AppPublishes
  PROVE  /\ published' \in Seq(Event)
         /\ DOMAIN published \subseteq DOMAIN published'
         /\ \A e \in DOMAIN published : published'[e] = published[e]
<1>1. PICK saga \in Sagas, hint \in Hints, later \in Gaps :
        LET now == IF published = <<>> THEN 0 ELSE Last(published).at
        IN  published' = Append(published, [saga |-> saga, hint |-> hint, at |-> now + later])
  BY DEF AppPublishes
<1> DEFINE now == IF published = <<>> THEN 0 ELSE Last(published).at
           new == [saga |-> saga, hint |-> hint, at |-> now + later]
<1>2. published \in Seq(Event) /\ later \in Nat
  BY GapsAssumption DEF MonitorTyped
<1>3. now \in Nat
  <2>1. CASE published = <<>>
    BY <2>1
  <2>2. CASE published # <<>>
    <3>1. Len(published) \in DOMAIN published
      BY <1>2, <2>2
    <3>2. Last(published) \in Event
      BY <1>2, <3>1 DEF Last
    <3> QED
      BY <3>2, <2>2 DEF Event
  <2> QED
    BY <2>1, <2>2
<1>4. published' = Append(published, new)
  BY <1>1
<1>5. new \in Event
  BY <1>2, <1>3 DEF Event
<1> HIDE DEF new
<1> QED
  BY <1>2, <1>4, <1>5

(* An event is published: it is not consumed yet.                          *)
LEMMA StepPublishes ==
  ASSUME PageInv, AppPublishes
  PROVE  PageInv'
<1> USE DEF PageInv
<1>1. UNCHANGED <<consumed, seen, events, page, asked, answers, subscribed, stream, offered, faults>>
  BY DEF AppPublishes, link
<1>2. /\ published' \in Seq(Event) /\ DOMAIN published \subseteq DOMAIN published'
      /\ \A e \in DOMAIN published : published'[e] = published[e]
  BY PublishedStays
<1>3. MonitorTyped'
  BY <1>1, <1>2 DEF MonitorTyped
<1>4. StoreInv'
  BY <1>1, <1>2 DEF StoreInv, MonitorTyped
<1>5. NothingSent'
  BY <1>1 DEF NothingSent
<1>6. FeedInv'
  BY <1>1, <1>2 DEF FeedInv, OnTheWay
<1> QED
  BY <1>3, <1>4, <1>5, <1>6

(* The monitor consumes an event: it keeps it, and offers it to a page     *)
(* that is subscribed.                                                     *)
LEMMA StepHandles ==
  ASSUME PageInv, NEW e \in DOMAIN published, HandleMessage(e)
  PROVE  PageInv'
<1> DEFINE saga == published[e].saga
<1>1. /\ consumed' = consumed \cup {e}
      /\ events' = [events EXCEPT ![saga] = Append(@, e)]
      /\ seen' = IF saga \in Range(seen) THEN seen ELSE Append(seen, saga)
      /\ IF subscribed THEN stream' = Append(stream, e) /\ offered' = offered \cup {e}
         ELSE UNCHANGED <<stream, offered>>
      /\ UNCHANGED <<published, page, asked, answers, subscribed, faults>>
  BY DEF HandleMessage
<1>2. saga \in Sagas /\ e \in Nat
  <2>1. published[e] \in Event /\ e \in Nat
    BY DEF PageInv, MonitorTyped
  <2> QED
    BY <2>1 DEF Event
<1> HIDE DEF saga
<1>3. /\ seen \in Seq(Sagas) /\ events \in [Sagas -> Seq(Nat)] /\ stream \in Seq(Nat)
  BY DEF PageInv, MonitorTyped
<1>4. /\ seen' \in Seq(Sagas) /\ Range(seen') = Range(seen) \cup {saga}
  BY <1>1, <1>2, <1>3, RangeOfAppend
<1>5. /\ events' \in [Sagas -> Seq(Nat)] /\ events'[saga] = Append(events[saga], e)
      /\ \A s \in Sagas : s # saga => events'[s] = events[s]
  BY <1>1, <1>2, <1>3
<1>6. Range(events'[saga]) = Range(events[saga]) \cup {e} /\ events'[saga] # <<>>
  BY <1>2, <1>3, <1>5, RangeOfAppend
<1>7. /\ stream' \in Seq(Nat) /\ Range(stream) \subseteq Range(stream')
      /\ Range(stream') \subseteq Range(stream) \cup {e}
      /\ offered \subseteq offered'
      /\ \A f \in offered' : f \in offered \/ (f = e /\ e \in Range(stream'))
  <2>1. CASE subscribed
    <3>1. stream' = Append(stream, e) /\ offered' = offered \cup {e}
      BY <2>1, <1>1
    <3>2. Range(stream') = Range(stream) \cup {e} /\ stream' \in Seq(Nat)
      BY <3>1, <1>2, <1>3, RangeOfAppend
    <3> QED
      BY <3>1, <3>2
  <2>2. CASE ~subscribed
    BY <2>2, <1>1, <1>3
  <2> QED
    BY <2>1, <2>2
<1>8. MonitorTyped'
  BY <1>1, <1>4, <1>5, <1>7 DEF PageInv, MonitorTyped
<1>9. StoreInv'
  <2>1. \A s \in Sagas : Range(events'[s]) = Range(events[s]) \cup (IF s = saga THEN {e} ELSE {})
    BY <1>5, <1>6
  <2>2. \A s \in Sagas : \A f \in Range(events'[s]) : f \in DOMAIN published /\ published[f].saga = s
    BY <2>1 DEF PageInv, StoreInv, saga
  <2>3. \A s \in Sagas : events'[s] # <<>> <=> s \in Range(seen')
    BY <1>4, <1>5, <1>6 DEF PageInv, StoreInv
  <2>4. \A f \in consumed' : published[f].saga \in Sagas
    <3>1. consumed' \subseteq DOMAIN published
      BY <1>1 DEF PageInv, MonitorTyped
    <3>2. \A f \in DOMAIN published : published[f] \in Event
      BY DEF PageInv, MonitorTyped
    <3> QED
      BY <3>1, <3>2 DEF Event
  <2>5. \A f \in consumed' : f \in Range(events'[published[f].saga])
    <3> SUFFICES ASSUME NEW f \in consumed' PROVE f \in Range(events'[published[f].saga])
      OBVIOUS
    <3>1. CASE f = e
      BY <3>1, <1>2, <2>1 DEF saga
    <3>2. CASE f # e
      BY <3>2, <1>1, <2>1, <2>4 DEF PageInv, StoreInv
    <3> QED
      BY <3>1, <3>2
  <2> QED
    BY <1>1, <2>2, <2>3, <2>5 DEF StoreInv
<1>10. NothingSent'
  BY <1>1 DEF PageInv, NothingSent
<1>11. FeedInv'
  <2>1. offered' \subseteq DOMAIN published /\ \A f \in Range(stream') : f \in DOMAIN published
    BY <1>7 DEF PageInv, FeedInv
  <2> QED
    BY <1>1, <1>7, <2>1 DEF PageInv, FeedInv, OnTheWay
<1> QED
  BY <1>8, <1>9, <1>10, <1>11 DEF PageInv

(* What is answered to a request for the list: the events it offers are in *)
(* it, or, on the list, their sagas.                                       *)
LEMMA AnswersOffer ==
  ASSUME PageInv
  PROVE  /\ AnsweredEvents \subseteq DOMAIN published
         /\ page.kind = "detail" => Answer("list") = AnsweredEvents
         /\ page.kind = "list" =>
              \A e \in AnsweredEvents : published[e].saga \in DOMAIN Answer("list")
<1>1. /\ Group \subseteq Range(seen) /\ Range(seen) \subseteq Sagas
  BY DEF Group, SameGroup, PageInv, MonitorTyped, Range
<1>2. \A e \in AnsweredEvents : \E s \in Range(seen) : e \in Range(events[s])
  BY <1>1 DEF AnsweredEvents
<1>3. \A e \in AnsweredEvents : e \in DOMAIN published /\ published[e].saga \in Range(seen)
  BY <1>1, <1>2 DEF PageInv, StoreInv
<1>4. page.kind = "detail" => Answer("list") = AnsweredEvents
  BY DEF Answer
<1>5. page.kind = "list" => DOMAIN Answer("list") = Range(seen)
  BY DEF Answer, AllSagas
<1> QED
  BY <1>3, <1>4, <1>5

(* The server answers a request of a page.                                 *)
LEMMA StepServes ==
  ASSUME PageInv, NEW r \in Requests, Serve(r)
  PROVE  PageInv'
<1>1. /\ asked[r] > 0 /\ asked' = [asked EXCEPT ![r] = @ - 1]
      /\ UNCHANGED <<published, consumed, seen, events, page, subscribed, stream>>
  BY DEF Serve, server
<1>2. \/ /\ answers' = answers \cup {[to |-> r, data |-> Answer(r)]}
         /\ offered' = IF r = "stats" THEN offered ELSE offered \cup AnsweredEvents
      \/ UNCHANGED <<answers, offered>>
  BY DEF Serve
<1>3. asked' \in [Requests -> Nat] /\ page.kind # "none"
  <2>1. asked \in [Requests -> Nat] /\ 0 \in Nat
    BY DEF PageInv, MonitorTyped
  <2>2. page.kind # "none"
    <3> SUFFICES ASSUME page.kind = "none" PROVE FALSE
      OBVIOUS
    <3>1. asked[r] = 0
      BY DEF PageInv, NothingSent
    <3> QED
      BY <3>1, <1>1
  <2>3. asked[r] - 1 \in Nat
    BY <2>1, <1>1
  <2> QED
    BY <2>1, <2>2, <2>3, <1>1
<1>4. MonitorTyped' /\ StoreInv' /\ NothingSent'
  BY <1>1, <1>3 DEF PageInv, MonitorTyped, StoreInv, NothingSent
<1>5. FeedInv'
  <2>1. CASE UNCHANGED <<answers, offered>>
    BY <1>1, <2>1 DEF PageInv, FeedInv, OnTheWay
  <2>2. CASE /\ answers' = answers \cup {[to |-> r, data |-> Answer(r)]}
             /\ offered' = IF r = "stats" THEN offered ELSE offered \cup AnsweredEvents
    <3> DEFINE a == [to |-> r, data |-> Answer(r)]
    <3>1. a \in answers' /\ answers \subseteq answers' /\ a.to = r /\ a.data = Answer(r)
      BY <2>2
    <3>2. \A e \in offered' : e \in offered \/ (r = "list" /\ e \in AnsweredEvents)
      BY <2>2 DEF Requests
    <3> HIDE DEF a
    <3>3. offered' \subseteq DOMAIN published
      BY <3>2, AnswersOffer DEF PageInv, FeedInv
    <3>4. ASSUME page.kind = "detail", NEW e \in offered', Root(published[e].saga) = Target
          PROVE  e \in page.shown \/ OnTheWay(e) \/ \E b \in answers' : b.to = "list" /\ e \in b.data
      <4>1. CASE e \in offered
        BY <4>1, <3>1, <3>4 DEF PageInv, FeedInv
      <4>2. CASE r = "list" /\ e \in AnsweredEvents
        BY <4>2, <3>1, <3>4, AnswersOffer
      <4> QED
        BY <3>2, <4>1, <4>2
    <3>5. ASSUME page.kind = "list", NEW e \in offered'
          PROVE  LET s == published[e].saga IN
                 s \in DOMAIN page.rows \/ OnTheWay(e) \/ \E b \in answers' : b.to = "list" /\ s \in DOMAIN b.data
      <4>1. CASE e \in offered
        BY <4>1, <3>1, <3>5 DEF PageInv, FeedInv
      <4>2. CASE r = "list" /\ e \in AnsweredEvents
        BY <4>2, <3>1, <3>5, AnswersOffer
      <4> QED
        BY <3>2, <4>1, <4>2
    <3> QED
      BY <1>1, <3>3, <3>4, <3>5 DEF PageInv, FeedInv, OnTheWay
  <2> QED
    BY <1>2, <2>1, <2>2
<1> QED
  BY <1>4, <1>5 DEF PageInv

(* A record with one of its fields changed.                                *)
LEMMA PageChanges ==
  ASSUME page = [kind |-> page.kind, rows |-> page.rows, counts |-> page.counts,
                 shown |-> page.shown, ticks |-> page.ticks],
         NEW v
  PROVE  /\ [page EXCEPT !.rows = v] = [kind |-> page.kind, rows |-> v, counts |-> page.counts,
                                       shown |-> page.shown, ticks |-> page.ticks]
         /\ [page EXCEPT !.counts = v] = [kind |-> page.kind, rows |-> page.rows, counts |-> v,
                                         shown |-> page.shown, ticks |-> page.ticks]
         /\ [page EXCEPT !.shown = v] = [kind |-> page.kind, rows |-> page.rows, counts |-> page.counts,
                                        shown |-> v, ticks |-> page.ticks]
         /\ [page EXCEPT !.ticks = v] = [kind |-> page.kind, rows |-> page.rows, counts |-> page.counts,
                                        shown |-> page.shown, ticks |-> v]
  OBVIOUS

(* What the page makes of an answer to a request for the list.             *)
LEMMA StepReceives ==
  ASSUME PageInv, NEW a \in answers, Receive(a)
  PROVE  PageInv'
<1>1. /\ answers' = answers \ {a}
      /\ UNCHANGED <<published, consumed, seen, events, asked, subscribed, stream, offered>>
  BY DEF Receive, server
<1>2. page.kind \in {"dashboard", "list", "detail"}
  BY DEF PageInv, MonitorTyped, NothingSent
<1>3. page = [kind |-> page.kind, rows |-> page.rows, counts |-> page.counts,
              shown |-> page.shown, ticks |-> page.ticks]
  BY DEF PageInv, MonitorTyped
<1>4. /\ page' = [kind |-> page'.kind, rows |-> page'.rows, counts |-> page'.counts,
                  shown |-> page'.shown, ticks |-> page'.ticks]
      /\ page'.kind = page.kind
      /\ page.kind = "detail" => page'.shown = IF a.to = "stats" THEN page.shown ELSE page.shown \cup a.data
      /\ page.kind = "list" => DOMAIN page'.rows = IF a.to = "stats" THEN DOMAIN page.rows
                                                  ELSE DOMAIN page.rows \cup DOMAIN a.data
  <2>1. CASE a.to = "stats"
    <3>1. page' = [page EXCEPT !.counts = a.data]
      BY <2>1 DEF Receive
    <3>2. page' = [kind |-> page.kind, rows |-> page.rows, counts |-> a.data,
                   shown |-> page.shown, ticks |-> page.ticks]
      BY <1>3, <3>1, PageChanges
    <3> QED
      BY <2>1, <3>2
  <2>2. CASE a.to # "stats" /\ page.kind = "dashboard"
    <3> DEFINE v == LoadStates(a.data)
    <3>1. page' = [page EXCEPT !.rows = v]
      BY <2>2 DEF Receive
    <3> HIDE DEF v
    <3>2. page' = [kind |-> page.kind, rows |-> v, counts |-> page.counts,
                   shown |-> page.shown, ticks |-> page.ticks]
      BY <1>3, <3>1, PageChanges
    <3> QED
      BY <2>2, <3>2
  <2>3. CASE a.to # "stats" /\ page.kind = "list"
    <3> DEFINE v == LoadRows(a.data)
    <3>1. page' = [page EXCEPT !.rows = v]
      BY <2>3 DEF Receive
    <3>2. DOMAIN v = DOMAIN page.rows \cup DOMAIN a.data
      BY DEF LoadRows
    <3> HIDE DEF v
    <3>3. page' = [kind |-> page.kind, rows |-> v, counts |-> page.counts,
                   shown |-> page.shown, ticks |-> page.ticks]
      BY <1>3, <3>1, PageChanges
    <3> QED
      BY <2>3, <3>2, <3>3
  <2>4. CASE a.to # "stats" /\ page.kind = "detail"
    <3> DEFINE v == page.shown \cup a.data
    <3>1. page' = [page EXCEPT !.shown = v]
      BY <2>4 DEF Receive
    <3> HIDE DEF v
    <3>2. page' = [kind |-> page.kind, rows |-> page.rows, counts |-> page.counts,
                   shown |-> v, ticks |-> page.ticks]
      BY <1>3, <3>1, PageChanges
    <3> QED
      BY <2>4, <3>2 DEF v
  <2> QED
    BY <1>2, <2>1, <2>2, <2>3, <2>4
<1>5. MonitorTyped' /\ StoreInv' /\ NothingSent'
  BY <1>1, <1>2, <1>4 DEF PageInv, MonitorTyped, StoreInv, NothingSent
<1>6. FeedInv'
  <2>1. ASSUME page.kind = "detail", NEW e \in offered, Root(published[e].saga) = Target
        PROVE  e \in page'.shown \/ OnTheWay(e) \/ \E b \in answers' : b.to = "list" /\ e \in b.data
    BY <1>1, <1>4, <2>1 DEF PageInv, FeedInv
  <2>2. ASSUME page.kind = "list", NEW e \in offered
        PROVE  LET s == published[e].saga IN
               s \in DOMAIN page'.rows \/ OnTheWay(e) \/ \E b \in answers' : b.to = "list" /\ s \in DOMAIN b.data
    BY <1>1, <1>4, <2>2 DEF PageInv, FeedInv
  <2> QED
    BY <1>1, <1>4, <2>1, <2>2 DEF PageInv, FeedInv, OnTheWay
<1> QED
  BY <1>5, <1>6 DEF PageInv

(* What the page makes of an event of the stream.                          *)
LEMMA StepReceivesEvent ==
  ASSUME PageInv, ReceiveEvent
  PROVE  PageInv'
<1> DEFINE e == Head(stream)
<1>1. /\ stream # <<>> /\ stream' = Tail(stream)
      /\ UNCHANGED <<published, consumed, seen, events, asked, answers, subscribed, offered>>
  BY DEF ReceiveEvent, server
<1>2. page.kind \in {"dashboard", "list", "detail"}
  BY <1>1 DEF PageInv, MonitorTyped, NothingSent
<1>3. page = [kind |-> page.kind, rows |-> page.rows, counts |-> page.counts,
              shown |-> page.shown, ticks |-> page.ticks]
  BY DEF PageInv, MonitorTyped
<1>4. /\ stream' \in Seq(Nat) /\ e \in Range(stream) /\ Range(stream') \subseteq Range(stream)
      /\ Range(stream) \subseteq Range(stream') \cup {e}
  BY <1>1, RangeOfTail DEF PageInv, MonitorTyped
<1>5. /\ page' = [kind |-> page'.kind, rows |-> page'.rows, counts |-> page'.counts,
                  shown |-> page'.shown, ticks |-> page'.ticks]
      /\ page'.kind = page.kind
      /\ page.kind = "detail" => /\ page.shown \subseteq page'.shown
                                 /\ Root(published[e].saga) = Target => e \in page'.shown
      /\ page.kind = "list" => DOMAIN page'.rows = DOMAIN page.rows \cup {published[e].saga}
  <2>1. CASE page.kind = "dashboard"
    <3> DEFINE v == RowsAfter(e)
               w == ProcessEvent(e).counts
    <3>1. page' = ProcessEvent(e)
      BY <2>1 DEF ReceiveEvent
    <3>2. PICK c : page' = [page EXCEPT !.rows = v, !.counts = c]
      BY <3>1 DEF ProcessEvent
    <3> HIDE DEF v
    <3>3. page' = [kind |-> page.kind, rows |-> v, counts |-> c,
                   shown |-> page.shown, ticks |-> page.ticks]
      BY <1>3, <3>2
    <3> QED
      BY <2>1, <3>3
  <2>2. CASE page.kind = "list"
    <3>1. page' = HandleEvent(e)
      BY <2>2 DEF ReceiveEvent
    <3>2. PICK v : page' = [page EXCEPT !.rows = v] /\ DOMAIN v = DOMAIN RowsAfter(e)
      <4> DEFINE table == RowsAfter(e)
                 group == SameGroup(published[e].saga, DOMAIN table)
                 settled == [s \in DOMAIN table |->
                                IF s \in group THEN [table[s] EXCEPT !.group = LeafStatus(table, group)]
                                ELSE table[s]]
      <4>1. page' = [page EXCEPT !.rows = IF Moved(e).status = "running" THEN table ELSE settled]
        BY <3>1 DEF HandleEvent
      <4>2. DOMAIN settled = DOMAIN table
        OBVIOUS
      <4> HIDE DEF table, settled
      <4> QED
        BY <4>1, <4>2 DEF table
    <3>3. DOMAIN v = DOMAIN page.rows \cup {published[e].saga}
      BY <3>2 DEF RowsAfter
    <3>4. page' = [kind |-> page.kind, rows |-> v, counts |-> page.counts,
                   shown |-> page.shown, ticks |-> page.ticks]
      BY <1>3, <3>2, PageChanges
    <3> QED
      BY <2>2, <3>3, <3>4
  <2>3. CASE page.kind = "detail"
    <3>1. page' = IF Belongs(e) THEN [page EXCEPT !.shown = @ \cup {e}] ELSE page
      BY <2>3 DEF ReceiveEvent
    <3>2. Root(published[e].saga) = Target => Belongs(e)
      BY DEF Belongs
    <3> DEFINE v == page.shown \cup {e}
    <3>3. CASE Belongs(e)
      <4>1. page' = [page EXCEPT !.shown = v]
        BY <3>1, <3>3
      <4> HIDE DEF v
      <4>2. page' = [kind |-> page.kind, rows |-> page.rows, counts |-> page.counts,
                     shown |-> v, ticks |-> page.ticks]
        BY <1>3, <4>1, PageChanges
      <4> QED
        BY <2>3, <4>2 DEF v
    <3>4. CASE ~Belongs(e)
      BY <1>3, <2>3, <3>1, <3>2, <3>4
    <3> QED
      BY <3>3, <3>4
  <2> QED
    BY <1>2, <2>1, <2>2, <2>3
<1> HIDE DEF e
<1>6. MonitorTyped' /\ StoreInv' /\ NothingSent'
  BY <1>1, <1>2, <1>4, <1>5 DEF PageInv, MonitorTyped, StoreInv, NothingSent
<1>7. FeedInv'
  <2>1. ASSUME page.kind = "detail", NEW f \in offered, Root(published[f].saga) = Target
        PROVE  f \in page'.shown \/ f \in Range(stream') \/ \E b \in answers : b.to = "list" /\ f \in b.data
    <3>1. \/ f \in page.shown \/ f \in Range(stream) 
          \/ \E b \in answers : b.to = "list" /\ f \in b.data
      BY <2>1 DEF PageInv, FeedInv, OnTheWay
    <3>2. CASE f = e
      <4>1. Root(published[e].saga) = Target
        BY <2>1, <3>2
      <4>2. e \in page'.shown
        BY <1>5, <2>1, <4>1
      <4> QED
        BY <3>2, <4>2
    <3>3. CASE f # e
      <4>1. page.shown \subseteq page'.shown
        BY <1>5, <2>1
      <4>2. f \in Range(stream) => f \in Range(stream')
        BY <1>4, <3>3
      <4> QED
        BY <3>1, <4>1, <4>2
    <3> QED
      BY <3>2, <3>3
  <2>2. ASSUME page.kind = "list", NEW f \in offered
        PROVE  LET s == published[f].saga IN
               s \in DOMAIN page'.rows \/ f \in Range(stream') \/ \E b \in answers : b.to = "list" /\ s \in DOMAIN b.data
    BY <1>4, <1>5, <2>2 DEF PageInv, FeedInv, OnTheWay
  <2> QED
    BY <1>1, <1>4, <1>5, <2>1, <2>2 DEF PageInv, FeedInv, OnTheWay
<1> QED
  BY <1>6, <1>7 DEF PageInv

(* The page is opened, connects, ticks or is cleared.                      *)
LEMMA StepPage ==
  ASSUME PageInv, (\E kind \in Kinds : Open(kind)) \/ Subscribe \/ Tick \/ ClearAll
  PROVE  PageInv'
<1>0. /\ page = [kind |-> page.kind, rows |-> page.rows, counts |-> page.counts,
                 shown |-> page.shown, ticks |-> page.ticks]
      /\ asked \in [Requests -> Nat]
  BY DEF PageInv, MonitorTyped
<1>1. ASSUME NEW requests PROVE Ask(requests) \in [Requests -> Nat]
  <2>1. \A r \in Requests : Min({asked[r] + 1, MaxInFlight}) \in Nat
    <3> SUFFICES ASSUME NEW r \in Requests PROVE Min({asked[r] + 1, MaxInFlight}) \in Nat
      OBVIOUS
    <3>1. asked[r] + 1 \in Nat /\ MaxInFlight \in Nat
      BY <1>0, BoundsAssumption
    <3>2. \E x \in {asked[r] + 1, MaxInFlight} : \A y \in {asked[r] + 1, MaxInFlight} : x =< y
      BY <3>1
    <3> QED
      BY <3>1, <3>2 DEF Min
  <2> QED
    BY <1>0, <2>1 DEF Ask
<1>2. ASSUME NEW kind \in Kinds, Open(kind) PROVE PageInv'
  <2>1. /\ page.kind = "none" /\ page' = Blank(kind) /\ asked' \in [Requests -> Nat]
        /\ UNCHANGED <<published, consumed, seen, events, answers, subscribed, stream, offered>>
    BY <1>1, <1>2 DEF Open, server
  <2>2. /\ offered = {} /\ answers = {} /\ stream = <<>> /\ kind \in {"dashboard", "list", "detail"}
    BY <2>1, KindsAssumption DEF PageInv, NothingSent
  <2>3. /\ page' = [kind |-> page'.kind, rows |-> page'.rows, counts |-> page'.counts,
                    shown |-> page'.shown, ticks |-> page'.ticks]
        /\ page'.kind = kind
    <3> DEFINE table == [s \in {} |-> NoRow]
    <3>1. page' = [kind |-> kind, rows |-> table, counts |-> NoCounts, shown |-> {}, ticks |-> 0]
      BY <2>1 DEF Blank
    <3> HIDE DEF table
    <3> QED
      BY <3>1
  <2> QED
    BY <2>1, <2>2, <2>3 DEF PageInv, MonitorTyped, StoreInv, NothingSent, FeedInv
<1>3. ASSUME Subscribe PROVE PageInv'
  <2>1. /\ page.kind # "none" /\ subscribed' = TRUE
        /\ UNCHANGED <<published, consumed, seen, events, page, asked, answers, stream, offered>>
    BY <1>3 DEF Subscribe, server
  <2> QED
    BY <2>1 DEF PageInv, MonitorTyped, StoreInv, NothingSent, FeedInv, OnTheWay
<1>4. ASSUME Tick PROVE PageInv'
  <2>1. /\ page.kind = "dashboard" /\ asked' \in [Requests -> Nat]
        /\ UNCHANGED <<published, consumed, seen, events, answers, subscribed, stream, offered>>
    BY <1>0, <1>1, <1>4 DEF Tick, server
  <2>2. PICK v : page' = [page EXCEPT !.ticks = v]
    BY <1>4 DEF Tick
  <2>3. page' = [kind |-> page.kind, rows |-> page.rows, counts |-> page.counts,
                 shown |-> page.shown, ticks |-> v]
    BY <1>0, <2>2, PageChanges
  <2>4. /\ page' = [kind |-> page'.kind, rows |-> page'.rows, counts |-> page'.counts,
                    shown |-> page'.shown, ticks |-> page'.ticks]
        /\ page'.kind = "dashboard"
    BY <2>1, <2>3
  <2> QED
    BY <2>1, <2>4 DEF PageInv, MonitorTyped, StoreInv, NothingSent, FeedInv
<1>5. ASSUME ClearAll PROVE PageInv'
  <2>1. /\ page.kind = "dashboard" /\ page' = Blank("dashboard")
        /\ UNCHANGED <<published, consumed, seen, events, asked, answers, subscribed, stream, offered>>
    BY <1>5 DEF ClearAll, server
  <2>2. /\ page' = [kind |-> page'.kind, rows |-> page'.rows, counts |-> page'.counts,
                    shown |-> page'.shown, ticks |-> page'.ticks]
        /\ page'.kind = "dashboard"
    <3> DEFINE table == [s \in {} |-> NoRow]
    <3>1. page' = [kind |-> "dashboard", rows |-> table, counts |-> NoCounts, shown |-> {}, ticks |-> 0]
      BY <2>1 DEF Blank
    <3> HIDE DEF table
    <3> QED
      BY <3>1
  <2> QED
    BY <2>1, <2>2 DEF PageInv, MonitorTyped, StoreInv, NothingSent, FeedInv
<1> QED
  BY <1>2, <1>3, <1>4, <1>5

(* A connection is lost, with it the events on their way, or a message is  *)
(* delivered again, or the monitor starts again.                           *)
LEMMA StepFault ==
  ASSUME PageInv, DropStream \/ Redeliver \/ Restart
  PROVE  PageInv'
<1>1. <<>> \in Seq(Nat) /\ <<>> \in Seq(Sagas)
  OBVIOUS
<1>2. ASSUME Lost, UNCHANGED <<published, page, answers>>
      PROVE  /\ FeedInv' /\ stream' = <<>> /\ ~subscribed' /\ subscribed' \in BOOLEAN
             /\ offered' \subseteq offered
  <2>1. offered' = offered \ Range(stream) /\ stream' = <<>> /\ subscribed' = FALSE
    BY <1>2 DEF Lost
  <2>2. Range(stream') = {}
    BY <2>1, EmptyRange
  <2> QED
    BY <2>1, <2>2, <1>2 DEF PageInv, FeedInv, OnTheWay
<1>3. ASSUME DropStream PROVE PageInv'
  <2>1. Lost /\ UNCHANGED <<published, consumed, seen, events, page, asked, answers>>
    BY <1>3 DEF DropStream, server
  <2> QED
    BY <2>1, <1>1, <1>2 DEF PageInv, MonitorTyped, StoreInv, NothingSent
<1>4. ASSUME Redeliver PROVE PageInv'
  <2>1. /\ consumed' \subseteq consumed
        /\ UNCHANGED <<published, seen, events, page, asked, answers, subscribed, stream, offered>>
    BY <1>4 DEF Redeliver
  <2> QED
    BY <2>1 DEF PageInv, MonitorTyped, StoreInv, NothingSent, FeedInv, OnTheWay
<1>5. ASSUME Restart PROVE PageInv'
  <2>1. /\ Lost /\ consumed' = {} /\ seen' = <<>> /\ events' = [s \in Sagas |-> <<>>]
        /\ UNCHANGED <<published, page, asked, answers>>
    BY <1>5 DEF Restart
  <2>2. events' \in [Sagas -> Seq(Nat)] /\ \A s \in Sagas : events'[s] = <<>>
    BY <2>1, <1>1
  <2>3. StoreInv'
    BY <2>1, <2>2, EmptyRange DEF StoreInv
  <2> QED
    BY <2>1, <2>2, <2>3, <1>1, <1>2 DEF PageInv, MonitorTyped, NothingSent
<1> QED
  BY <1>3, <1>4, <1>5

(* So the invariant holds in every state.                                  *)
LEMMA PageInvariance == Spec => []PageInv
<1>1. PageInv /\ [Next]_vars => PageInv'
  <2> SUFFICES ASSUME PageInv, [Next]_vars PROVE PageInv'
    OBVIOUS
  <2>1. CASE AppPublishes
    BY <2>1, StepPublishes
  <2>2. CASE Consumes
    BY <2>2, StepHandles DEF Consumes
  <2>3. CASE PageWorks
    BY <2>3, StepServes, StepReceives, StepReceivesEvent, StepPage DEF PageWorks
  <2>4. CASE Tick \/ ClearAll \/ \E kind \in Kinds : Open(kind)
    BY <2>4, StepPage
  <2>5. CASE DropStream \/ Redeliver \/ Restart
    BY <2>5, StepFault
  <2>6. CASE UNCHANGED vars
    BY <2>6 DEF vars, server, link, PageInv, MonitorTyped, StoreInv, NothingSent, FeedInv, OnTheWay
  <2> QED
    BY <2>1, <2>2, <2>3, <2>4, <2>5, <2>6 DEF Next
<1> QED
  BY <1>1, InitPage, PTL DEF Spec

(* The built-in monitor: when nothing is on its way, the detail page has   *)
(* every event of the family of its saga, and the list a row for every     *)
(* saga, that was sent to them since they were opened and not lost with a  *)
(* connection, in whichever order the stream and the answers of fetch came *)
(* (/events, /sagas and the SSE stream of MonitorService).                 *)
THEOREM PageMissesOnlyTheGap == Spec => []FeedMissesOnlyTheGap
<1>1. PageInv => FeedMissesOnlyTheGap
  <2> SUFFICES ASSUME PageInv, Quiet PROVE FeedMissesOnlyTheGap
    BY DEF FeedMissesOnlyTheGap
  <2>1. answers = {} /\ Range(stream) = {}
    BY EmptyRange DEF Quiet
  <2> QED
    BY <2>1 DEF PageInv, FeedInv, OnTheWay, FeedMissesOnlyTheGap
<1> QED
  BY <1>1, PageInvariance, PTL

(* The events are published in the order of their times, a saga after its  *)
(* parent.                                                                 *)
PublishedInv ==
  /\ \A i, j \in DOMAIN published : i <= j => published[i].at <= published[j].at
  /\ \A i \in DOMAIN published : Parent[published[i].saga] # NoSaga =>
       \E j \in DOMAIN published : published[j].saga = Parent[published[i].saga]

(* What is published comes after what was published, and a saga after its  *)
(* parent.                                                                 *)
LEMMA StepKeepsOrder ==
  ASSUME MonitorTyped, PublishedInv, AppPublishes
  PROVE  PublishedInv'
<1>1. PICK saga \in Sagas, hint \in Hints, later \in Gaps :
        LET now == IF published = <<>> THEN 0 ELSE Last(published).at
        IN  /\ Parent[saga] # NoSaga => \E i \in DOMAIN published : published[i].saga = Parent[saga]
            /\ published' = Append(published, [saga |-> saga, hint |-> hint, at |-> now + later])
  BY DEF AppPublishes
<1> DEFINE now == IF published = <<>> THEN 0 ELSE Last(published).at
           new == [saga |-> saga, hint |-> hint, at |-> now + later]
           n == Len(published)
<1>2. published \in Seq(Event) /\ later \in Nat /\ n \in Nat /\ DOMAIN published = 1 .. n
  BY GapsAssumption DEF MonitorTyped
<1>3. \A i \in 1 .. n : published[i].at \in Nat /\ published[i].at <= now
  <2> SUFFICES ASSUME NEW i \in 1 .. n PROVE published[i].at \in Nat /\ published[i].at <= now
    OBVIOUS
  <2>1. n \in 1 .. n /\ i <= n /\ published # <<>>
    BY <1>2
  <2>2. published[i] \in Event /\ now = published[n].at
    BY <1>2, <2>1 DEF Last
  <2> QED
    BY <1>2, <2>1, <2>2 DEF PublishedInv, Event
<1>4. now \in Nat
  <2>1. CASE n = 0
    BY <1>2, <2>1
  <2>2. CASE n # 0
    <3>1. n \in 1 .. n /\ published # <<>>
      BY <1>2, <2>2
    <3> QED
      BY <1>3, <3>1 DEF Last
  <2> QED
    BY <2>1, <2>2
<1>5. published' = Append(published, new)
  BY <1>1
<1> HIDE DEF now, n
<1>6. new.saga = saga /\ new.at = now + later
  OBVIOUS
<1> HIDE DEF new
<1>7. /\ DOMAIN published' = 1 .. n + 1 /\ published'[n + 1] = new
      /\ \A i \in 1 .. n : published'[i] = published[i]
  BY <1>2, <1>5 DEF n
<1>8. \A i \in 1 .. n + 1 : i \in 1 .. n \/ i = n + 1
  BY <1>2
<1>9. now + later \in Nat /\ now <= now + later
  BY <1>2, <1>4
<1>10. \A i, j \in DOMAIN published' : i <= j => published'[i].at <= published'[j].at
  <2> SUFFICES ASSUME NEW i \in 1 .. n + 1, NEW j \in 1 .. n + 1, i <= j
               PROVE  published'[i].at <= published'[j].at
    BY <1>7
  <2>1. CASE j \in 1 .. n
    <3>1. i \in 1 .. n
      BY <1>2, <2>1
    <3> QED
      BY <1>2, <1>7, <2>1, <3>1 DEF PublishedInv
  <2>2. CASE j = n + 1 /\ i \in 1 .. n
    BY <1>3, <1>4, <1>6, <1>7, <1>9, <2>2
  <2>3. CASE j = n + 1 /\ i = n + 1
    BY <1>6, <1>7, <1>9, <2>3
  <2> QED
    BY <1>8, <2>1, <2>2, <2>3
<1>11. \A i \in DOMAIN published' : Parent[published'[i].saga] # NoSaga =>
         \E j \in DOMAIN published' : published'[j].saga = Parent[published'[i].saga]
  <2>1. 1 .. n \subseteq 1 .. n + 1
    BY <1>2
  <2> SUFFICES ASSUME NEW i \in 1 .. n + 1, Parent[published'[i].saga] # NoSaga
               PROVE  \E j \in 1 .. n : published'[j].saga = Parent[published'[i].saga]
    BY <1>7, <2>1
  <2>2. CASE i \in 1 .. n
    BY <1>2, <1>7, <2>2 DEF PublishedInv
  <2>3. CASE i = n + 1
    BY <1>1, <1>2, <1>6, <1>7, <2>3
  <2> QED
    BY <1>8, <2>2, <2>3
<1> QED
  BY <1>10, <1>11 DEF PublishedInv

(* So the order holds in every state.                                      *)
LEMMA OrderInvariance == Spec => []PublishedInv
<1>1. Init => PublishedInv
  BY DEF Init, PublishedInv
<1>2. PageInv /\ PublishedInv /\ [Next]_vars => PublishedInv'
  <2> SUFFICES ASSUME PageInv, PublishedInv, [Next]_vars PROVE PublishedInv'
    OBVIOUS
  <2>1. CASE AppPublishes
    BY <2>1, StepKeepsOrder DEF PageInv
  <2>2. CASE UNCHANGED published
    BY <2>2 DEF PublishedInv
  <2>3. AppPublishes \/ UNCHANGED published
    BY DEF Next, vars, server, Consumes, PageWorks, HandleMessage, Serve, Receive, ReceiveEvent, Subscribe,
           Tick, Open, ClearAll, DropStream, Redeliver, Restart
  <2> QED
    BY <2>1, <2>2, <2>3
<1> QED
  BY <1>1, <1>2, PageInvariance, PTL DEF Spec

(* findRoot goes to the parent of a saga if both are known.                *)
LEMMA FindRootGoesUp ==
  ASSUME NEW known, known \subseteq Sagas
  PROVE  \A s \in Sagas : FindRoot(s, known) =
           IF s \in known /\ Parent[s] \in known THEN FindRoot(Parent[s], known) ELSE s
<1> DEFINE Is(g) == g = [s \in Sagas |-> IF s \in known /\ Parent[s] \in known THEN g[Parent[s]] ELSE s]
           up == [s \in Sagas |-> IF s \in known /\ Parent[s] \in known THEN Parent[s] ELSE NoSaga]
           end == [s \in Sagas |-> s]
           step == [x \in Sagas \X Sagas |-> x[2]]
<1>1. \E g : Is(g)
  <2>1. Ends(Sagas, up)
    <3> SUFFICES ASSUME NEW T \in SUBSET Sagas, T # {} PROVE \E s \in T : up[s] \notin T
      BY DEF Ends
    <3>1. PICK s \in T : Parent[s] \notin T
      BY AcyclicAssumption
    <3>2. up[s] = Parent[s] \/ up[s] = NoSaga
      OBVIOUS
    <3> QED
      BY <3>1, <3>2, ParentAssumption
  <2>2. end \in [Sagas -> Sagas] /\ step \in [Sagas \X Sagas -> Sagas]
    OBVIOUS
  <2>3. PICK g : Runs(Sagas, up, Sagas, end, step, Sagas, g)
    <3> HIDE DEF up, end, step
    <3> QED
      BY <2>1, <2>2, UpTheTree
  <2>4. g \in [Sagas -> Sagas]
        /\ \A s \in Sagas : g[s] = IF up[s] \in Sagas THEN step[<<s, g[up[s]]>>] ELSE end[s]
    <3> HIDE DEF up, end, step
    <3> QED
      BY <2>3 DEF Runs
  <2>5. ASSUME NEW s \in Sagas
        PROVE  g[s] = IF s \in known /\ Parent[s] \in known THEN g[Parent[s]] ELSE s
    <3>1. CASE s \in known /\ Parent[s] \in known
      <4>1. up[s] = Parent[s] /\ Parent[s] \in Sagas /\ g[Parent[s]] \in Sagas
        BY <2>4, <3>1
      <4>2. step[<<s, g[Parent[s]]>>] = g[Parent[s]]
        BY <4>1
      <4> HIDE DEF up, end, step
      <4> QED
        BY <2>4, <3>1, <4>1, <4>2
    <3>2. CASE ~(s \in known /\ Parent[s] \in known)
      <4>1. up[s] \notin Sagas /\ end[s] = s
        BY <3>2, ParentAssumption
      <4> HIDE DEF up, end, step
      <4> QED
        BY <2>4, <3>2, <4>1
    <3> QED
      BY <3>1, <3>2
  <2> QED
    BY <2>4, <2>5
<1> DEFINE root == CHOOSE g : Is(g)
<1>2. Is(root)
  BY <1>1
<1>3. \A s : FindRoot(s, known) = root[s]
  BY DEF FindRoot
<1> HIDE DEF root
<1> QED
  BY <1>2, <1>3

(* With all their parents known, the root of known sagas is the true one.  *)
LEMMA RootOfKnown ==
  ASSUME NEW known, known \subseteq Sagas, \A s \in known : Parent[s] \in Sagas => Parent[s] \in known
  PROVE  \A s \in known : FindRoot(s, known) = Root(s)
<1> DEFINE D == {s \in known : FindRoot(s, known) # Root(s)}
<1> SUFFICES ASSUME D # {} PROVE FALSE
  OBVIOUS
<1>1. PICK s \in D : Parent[s] \notin D
  BY AcyclicAssumption
<1>2. s \in known /\ s \in Sagas /\ FindRoot(s, known) # Root(s)
  BY <1>1
<1>3. /\ FindRoot(s, known) = IF s \in known /\ Parent[s] \in known THEN FindRoot(Parent[s], known) ELSE s
      /\ Root(s) = IF s \in Sagas /\ Parent[s] \in Sagas THEN Root(Parent[s]) ELSE s
  BY <1>2, FindRootGoesUp DEF Root
<1>4. Parent[s] \in Sagas <=> Parent[s] \in known
  BY <1>2
<1>5. Parent[s] \in known => FindRoot(Parent[s], known) = Root(Parent[s])
  BY <1>1
<1> QED
  BY <1>2, <1>3, <1>4, <1>5

(* When all was consumed, the merged events of a group are its events.     *)
LEMMA MergedIsGroup ==
  ASSUME PageInv, PublishedInv, AllConsumed, NEW s \in Range(seen)
  PROVE  /\ Merged(s) \in Seq(Nat)
         /\ Range(Merged(s)) = {e \in DOMAIN published : Root(published[e].saga) = Root(s)}
<1> DEFINE K == Range(seen)
           group == SameGroup(s, K)
           q == [i \in DOMAIN seen |-> IF seen[i] \in group THEN events[seen[i]] ELSE <<>>]
<1>1. /\ seen \in Seq(Sagas) /\ events \in [Sagas -> Seq(Nat)] /\ published \in Seq(Event)
      /\ consumed = DOMAIN published
  BY DEF PageInv, MonitorTyped, AllConsumed
<1>2. K \subseteq Sagas /\ \A e \in DOMAIN published : published[e].saga \in Sagas
  <2>1. \A e \in DOMAIN published : published[e] \in Event
    BY <1>1
  <2> QED
    BY <1>1, <2>1 DEF Range, Event
<1>3. \A e \in DOMAIN published : published[e].saga \in K /\ e \in Range(events[published[e].saga])
  <2> SUFFICES ASSUME NEW e \in DOMAIN published
               PROVE  published[e].saga \in K /\ e \in Range(events[published[e].saga])
    OBVIOUS
  <2>1. e \in Range(events[published[e].saga])
    BY <1>1 DEF PageInv, StoreInv
  <2>2. events[published[e].saga] # <<>>
    BY <2>1, EmptyRange
  <2> QED
    BY <1>2, <2>1, <2>2 DEF PageInv, StoreInv
<1>4. \A t \in K : \E e \in DOMAIN published : published[e].saga = t
  <2> SUFFICES ASSUME NEW t \in K PROVE \E e \in DOMAIN published : published[e].saga = t
    OBVIOUS
  <2>1. t \in Sagas /\ events[t] # <<>> /\ events[t] \in Seq(Nat)
    BY <1>1, <1>2 DEF PageInv, StoreInv
  <2>2. events[t][1] \in Range(events[t])
    <3>1. 1 \in DOMAIN events[t]
      BY <2>1
    <3> QED
      BY <3>1 DEF Range
  <2> QED
    BY <2>1, <2>2 DEF PageInv, StoreInv
<1>5. \A t \in K : Parent[t] \in Sagas => Parent[t] \in K
  <2> SUFFICES ASSUME NEW t \in K, Parent[t] \in Sagas PROVE Parent[t] \in K
    OBVIOUS
  <2>1. PICK e \in DOMAIN published : published[e].saga = t
    BY <1>4
  <2>2. PICK f \in DOMAIN published : published[f].saga = Parent[t]
    BY <2>1, ParentAssumption DEF PublishedInv
  <2> QED
    BY <1>3, <2>2
<1>6. \A t \in K : t \in group <=> Root(t) = Root(s)
  BY <1>2, <1>5, RootOfKnown DEF SameGroup
<1>7. q \in Seq(Seq(Nat)) /\ DOMAIN q = DOMAIN seen
  <2>1. \A i \in DOMAIN seen : seen[i] \in Sagas /\ events[seen[i]] \in Seq(Nat)
    BY <1>1
  <2>2. \A i \in 1 .. Len(seen) : (IF seen[i] \in group THEN events[seen[i]] ELSE <<>>) \in Seq(Nat)
    <3> HIDE DEF group
    <3> QED
      BY <1>1, <2>1
  <2>3. Len(seen) \in Nat /\ DOMAIN seen = 1 .. Len(seen)
    BY <1>1
  <2> DEFINE V == Seq(Nat)
             v(i) == IF seen[i] \in group THEN events[seen[i]] ELSE <<>>
  <2>4. q = [i \in 1 .. Len(seen) |-> v(i)] /\ \A i \in 1 .. Len(seen) : v(i) \in V
    BY <2>2, <2>3
  <2> HIDE DEF V, v, q
  <2>5. q \in Seq(V)
    BY <2>3, <2>4
  <2> QED
    BY <2>3, <2>4, <2>5 DEF V
<1>8. Merged(s) = FlattenSeq(q)
  BY DEF Merged
<1>9. ASSUME NEW e
      PROVE  (\E i \in DOMAIN q : e \in Range(q[i])) <=> e \in DOMAIN published /\ Root(published[e].saga) = Root(s)
  <2> HIDE DEF group
  <2>1. ASSUME NEW i \in DOMAIN q, e \in Range(q[i])
        PROVE  e \in DOMAIN published /\ Root(published[e].saga) = Root(s)
    <3>1. seen[i] \in group
      BY <2>1, EmptyRange
    <3>2. seen[i] \in K /\ seen[i] \in Sagas /\ e \in Range(events[seen[i]])
      BY <1>1, <2>1, <3>1 DEF Range
    <3>3. e \in DOMAIN published /\ published[e].saga = seen[i]
      BY <3>2 DEF PageInv, StoreInv
    <3> QED
      BY <1>6, <3>1, <3>2, <3>3
  <2>2. ASSUME e \in DOMAIN published, Root(published[e].saga) = Root(s)
        PROVE  \E i \in DOMAIN q : e \in Range(q[i])
    <3>1. published[e].saga \in K /\ e \in Range(events[published[e].saga]) /\ published[e].saga \in group
      BY <1>3, <1>6, <2>2
    <3>2. PICK i \in DOMAIN seen : seen[i] = published[e].saga
      BY <3>1 DEF Range
    <3>3. q[i] = events[published[e].saga] /\ i \in DOMAIN q
      BY <3>1, <3>2
    <3> QED
      BY <3>1, <3>3
  <2> QED
    BY <2>1, <2>2
<1> HIDE DEF q
<1>10. Merged(s) \in Seq(Nat) /\ \A x : x \in Range(Merged(s)) <=> \E i \in DOMAIN q : x \in Range(q[i])
  BY <1>7, <1>8, RangeOfFlatten
<1> QED
  BY <1>9, <1>10

(* The last one after sorting is of the latest events.                     *)
LEMMA SortedLastIsLatest ==
  ASSUME PublishedInv, published \in Seq(Event),
         NEW evs \in Seq(Nat), Range(evs) \subseteq DOMAIN published, Range(evs) # {}
  PROVE  /\ SortedLast(evs) \in Range(evs)
         /\ \A f \in Range(evs) : published[f].at <= published[SortedLast(evs)].at
<1> DEFINE I == {i \in DOMAIN evs : \A f \in Range(evs) : published[f].at <= published[evs[i]].at}
<1>1. PICK e \in Range(evs) : \A f \in Range(evs) : f <= e
  <2>1. Range(evs) \subseteq 1 .. Len(published) /\ Len(published) \in Nat
    OBVIOUS
  <2> QED
    BY <2>1, LargestInSet
<1>2. \A f \in Range(evs) : published[f].at <= published[e].at
  BY <1>1 DEF PublishedInv
<1>3. PICK i \in DOMAIN evs : evs[i] = e
  BY DEF Range
<1>4. i \in I
  BY <1>2, <1>3
<1>5. I \subseteq 1 .. Len(evs) /\ Len(evs) \in Nat /\ I # {}
  BY <1>4
<1>6. Max(I) \in I
  <2> HIDE DEF I
  <2> QED
    BY <1>5, LargestInSet
<1>7. SortedLast(evs) = evs[Max(I)]
  BY DEF SortedLast
<1> QED
  BY <1>6, <1>7 DEF Range

(* The built-in monitor: once all events are consumed, in whichever order  *)
(* topics delivered them and however often, the status of each group is    *)
(* that of one of its latest events in the order of publication            *)
(* (SagaStore: findRoot, the merged events of a group, their sort by       *)
(* occurredAt).                                                            *)
THEOREM GroupsAreTrue == Spec => []GroupStatusIsTrue
<1>1. PageInv /\ PublishedInv => GroupStatusIsTrue
  <2> SUFFICES ASSUME PageInv, PublishedInv, AllConsumed, NEW s \in Range(seen)
               PROVE  LET group  == {e \in DOMAIN published : Root(published[e].saga) = Root(s)}
                          latest == {e \in group : \A f \in group : published[f].at <= published[e].at}
                          comp   == \E e \in group : published[e].hint = "compensation"
                      IN  GroupStatus(s) \in {Status(comp, published[e].hint) : e \in latest}
    BY DEF GroupStatusIsTrue
  <2> DEFINE group == {e \in DOMAIN published : Root(published[e].saga) = Root(s)}
             last == SortedLast(Merged(s))
             comp == \E e \in group : published[e].hint = "compensation"
  <2>1. Merged(s) \in Seq(Nat) /\ Range(Merged(s)) = group
    BY MergedIsGroup
  <2>2. group # {}
    <3>1. s \in Sagas /\ events[s] # <<>> /\ events[s] \in Seq(Nat)
      BY DEF PageInv, MonitorTyped, StoreInv, Range
    <3>2. events[s][1] \in Range(events[s])
      <4>1. 1 \in DOMAIN events[s]
        BY <3>1
      <4> QED
        BY <4>1 DEF Range
    <3> QED
      BY <3>1, <3>2 DEF PageInv, StoreInv
  <2>3. last \in group /\ \A f \in group : published[f].at <= published[last].at
    <3>1. published \in Seq(Event) /\ group \subseteq DOMAIN published
      BY DEF PageInv, MonitorTyped
    <3> HIDE DEF group
    <3> QED
      BY <2>1, <2>2, <3>1, SortedLastIsLatest
  <2>4. GroupStatus(s) = Status(comp, published[last].hint)
    <3>1. HasCompensation(Merged(s)) <=> comp
      BY <2>1 DEF HasCompensation
    <3> HIDE DEF comp, last
    <3> QED
      BY <3>1 DEF GroupStatus, last, Status
  <2> QED
    BY <2>3, <2>4
<1> QED
  BY <1>1, PageInvariance, OrderInvariance, PTL

-----------------------------------------------------------------------------
(* The page of a saga.                                                     *)

(* A walk up the tree of sagas ends.                                       *)
UpTo(stop) == [s \in TreeSagas |-> IF s \in stop THEN None ELSE ParentOf(s)]

LEMMA WalkEnds ==
  ASSUME NEW stop
  PROVE  Ends(TreeSagas, UpTo(stop))
<1> SUFFICES ASSUME NEW T \in SUBSET TreeSagas, T # {} PROVE \E s \in T : UpTo(stop)[s] \notin T
  BY DEF Ends
<1>1. PICK s \in T : ParentOf(s) \notin T
  BY TreeAssumption
<1>2. UpTo(stop)[s] = ParentOf(s) \/ UpTo(stop)[s] = None
  BY DEF UpTo
<1> QED
  BY <1>1, <1>2, NoneAssumption

(* The recursive definitions of the page are what they say.                *)
LEMMA BelowGoesUp ==
  ASSUME NEW table, NEW top
  PROVE  \A s \in TreeSagas : Below(table, s, top) <=>
           \/ s = top
           \/ table[s] # Missing /\ ~IsRoot(s) /\ Below(table, ParentOf(s), top)
<1> DEFINE Is(g) == g = [s \in TreeSagas |-> s = top \/ (table[s] # Missing /\ ~IsRoot(s) /\ g[ParentOf(s)])]
           stop == {s \in TreeSagas : s = top \/ table[s] = Missing \/ IsRoot(s)}
           up == UpTo(stop)
           first == [s \in TreeSagas |-> s = top]
           step == [x \in TreeSagas \X BOOLEAN |-> x[2]]
<1>1. \E g : Is(g)
  <2>1. Ends(TreeSagas, up)
    <3> HIDE DEF stop
    <3> QED
      BY WalkEnds
  <2>2. first \in [TreeSagas -> BOOLEAN] /\ step \in [TreeSagas \X BOOLEAN -> BOOLEAN]
    OBVIOUS
  <2>3. PICK g : Runs(TreeSagas, up, BOOLEAN, first, step, TreeSagas, g)
    <3> HIDE DEF up, first, step
    <3> QED
      BY <2>1, <2>2, UpTheTree
  <2>4. g \in [TreeSagas -> BOOLEAN] /\ \A s \in TreeSagas : g[s] =
          IF up[s] \in TreeSagas THEN step[<<s, g[up[s]]>>] ELSE first[s]
    <3> HIDE DEF up, first, step
    <3> QED
      BY <2>3 DEF Runs
  <2>5. ASSUME NEW s \in TreeSagas
        PROVE  g[s] = (s = top \/ (table[s] # Missing /\ ~IsRoot(s) /\ g[ParentOf(s)]))
    <3>1. CASE s \notin stop
      <4>1. up[s] = ParentOf(s)
        BY <3>1 DEF UpTo
      <4>2. s # top /\ table[s] # Missing /\ ~IsRoot(s)
        BY <3>1
      <4>3. ParentOf(s) \in TreeSagas
        BY <4>2, TreeAssumption
      <4>4. g[ParentOf(s)] \in BOOLEAN
        BY <2>4, <4>3
      <4>5. step[<<s, g[ParentOf(s)]>>] = g[ParentOf(s)]
        BY <4>4
      <4>6. g[s] = g[ParentOf(s)]
        <5> HIDE DEF up, first, step
        <5> QED
          BY <2>4, <4>1, <4>3, <4>5
      <4> QED
        BY <4>2, <4>4, <4>6
    <3>2. CASE s \in stop
      <4>1. up[s] = None
        BY <3>2 DEF UpTo
      <4>2. g[s] = (s = top)
        <5>1. first[s] = (s = top)
          OBVIOUS
        <5> HIDE DEF up, first, step
        <5> QED
          BY <2>4, <4>1, <5>1, NoneAssumption
      <4> QED
        BY <3>2, <4>2
    <3> QED
      BY <3>1, <3>2
  <2> QED
    BY <2>4, <2>5
<1> DEFINE below == CHOOSE g : Is(g)
<1>2. Is(below)
  BY <1>1
<1>3. \A s : Below(table, s, top) = below[s]
  BY DEF Below
<1>4. \A s \in TreeSagas : below[s] = (s = top \/ (table[s] # Missing /\ ~IsRoot(s) /\ below[ParentOf(s)]))
  <2> HIDE DEF below
  <2> QED
    BY <1>2
<1> HIDE DEF below
<1> QED
  BY <1>3, <1>4

(* The same for the depth of a track.                                      *)
LEMMA DepthGoesUp ==
  \A s \in TreeSagas : Depth(s) =
      IF s = ChartRoot \/ ~Below(tree, s, ChartRoot) THEN 0 ELSE Depth(ParentOf(s)) + 1
<1> DEFINE over(s) == s = ChartRoot \/ ~Below(tree, s, ChartRoot)
           Is(g) == g = [s \in TreeSagas |-> IF over(s) THEN 0 ELSE g[ParentOf(s)] + 1]
           stop == {s \in TreeSagas : over(s)}
           up == UpTo(stop)
           first == [s \in TreeSagas |-> 0]
           step == [x \in TreeSagas \X Nat |-> x[2] + 1]
<1>0. \A s \in TreeSagas : ~over(s) => ~IsRoot(s)
  BY BelowGoesUp
<1>1. \E g : Is(g)
  <2> HIDE DEF over
  <2>1. Ends(TreeSagas, up)
    <3> HIDE DEF stop
    <3> QED
      BY WalkEnds
  <2>2. first \in [TreeSagas -> Nat] /\ step \in [TreeSagas \X Nat -> Nat]
    OBVIOUS
  <2>3. PICK g : Runs(TreeSagas, up, Nat, first, step, TreeSagas, g)
    <3> HIDE DEF up, first, step
    <3> QED
      BY <2>1, <2>2, UpTheTree
  <2>4. g \in [TreeSagas -> Nat] /\ \A s \in TreeSagas : g[s] =
          IF up[s] \in TreeSagas THEN step[<<s, g[up[s]]>>] ELSE first[s]
    <3> HIDE DEF up, first, step
    <3> QED
      BY <2>3 DEF Runs
  <2>5. ASSUME NEW s \in TreeSagas
        PROVE  g[s] = IF over(s) THEN 0 ELSE g[ParentOf(s)] + 1
    <3>1. CASE ~over(s)
      <4>1. up[s] = ParentOf(s)
        BY <3>1 DEF UpTo
      <4>2. ParentOf(s) \in TreeSagas
        BY <1>0, <3>1, TreeAssumption
      <4>3. g[ParentOf(s)] \in Nat
        BY <2>4, <4>2
      <4>4. step[<<s, g[ParentOf(s)]>>] = g[ParentOf(s)] + 1
        BY <4>3
      <4> HIDE DEF up, first, step
      <4> QED
        BY <2>4, <3>1, <4>1, <4>2, <4>4
    <3>2. CASE over(s)
      <4>1. up[s] = None
        BY <3>2 DEF UpTo
      <4>2. first[s] = 0
        OBVIOUS
      <4> HIDE DEF up, first, step
      <4> QED
        BY <2>4, <3>2, <4>1, <4>2, NoneAssumption
    <3> QED
      BY <3>1, <3>2
  <2> QED
    BY <2>4, <2>5
<1> DEFINE depth == CHOOSE g : Is(g)
<1>2. Is(depth)
  BY <1>1
<1>3. \A s : Depth(s) = depth[s]
  BY DEF Depth
<1>4. \A s \in TreeSagas : depth[s] = IF over(s) THEN 0 ELSE depth[ParentOf(s)] + 1
  <2> HIDE DEF depth, over
  <2> QED
    BY <1>2
<1> HIDE DEF depth
<1> QED
  BY <1>3, <1>4

(* Rows that come to a table only add to what is below a saga.             *)
LEMMA BelowGrows ==
  ASSUME NEW t, NEW u, \A s \in TreeSagas : t[s] # Missing => u[s] # Missing, NEW top
  PROVE  \A s \in TreeSagas : Below(t, s, top) => Below(u, s, top)
<1> DEFINE D == {s \in TreeSagas : Below(t, s, top) /\ ~Below(u, s, top)}
<1> SUFFICES ASSUME D # {} PROVE FALSE
  OBVIOUS
<1>1. PICK s \in D : ParentOf(s) \notin D
  <2>1. D \in SUBSET TreeSagas
    OBVIOUS
  <2> QED
    BY <2>1, TreeAssumption
<1>2. s \in TreeSagas /\ Below(t, s, top) /\ ~Below(u, s, top)
  BY <1>1
<1>3. s # top
  BY <1>2, BelowGoesUp
<1>4. t[s] # Missing /\ ~IsRoot(s) /\ Below(t, ParentOf(s), top)
  BY <1>2, <1>3, BelowGoesUp
<1>5. ParentOf(s) \in TreeSagas
  BY <1>2, <1>4, TreeAssumption
<1>6. Below(u, ParentOf(s), top)
  BY <1>1, <1>4, <1>5
<1>7. Below(u, s, top)
  BY <1>2, <1>4, <1>6, BelowGoesUp
<1> QED
  BY <1>2, <1>7

(* What a page gives of the events that are found.                         *)
LEMMA FirstOfFound ==
  ASSUME NEW found, found \subseteq Events, NEW limit \in Nat \ {0}
  PROVE  LET data == FirstOf(found, limit) IN
         /\ data \subseteq found
         /\ data # found => /\ Max(data) \in data
                            /\ \A e \in data : e <= Max(data)
                            /\ \A e \in found : e <= Max(data) => e \in data
<1> DEFINE data == FirstOf(found, limit)
           upto(e) == {f \in found : f <= e}
<1>1. data \subseteq found /\ \A e \in found : e \in data <=> Cardinality(upto(e)) <= limit
  BY DEF FirstOf
<1>2. Len(History) \in Nat /\ Events = 1 .. Len(History)
  BY HistoryAssumption DEF Events
<1>3. IsFiniteSet(found)
  <2>1. IsFiniteSet(1 .. Len(History))
    BY <1>2, FS_Interval
  <2> QED
    BY <1>2, <2>1, FS_Subset
<1> SUFFICES ASSUME data # found
             PROVE  /\ Max(data) \in data
                    /\ \A e \in data : e <= Max(data)
                    /\ \A e \in found : e <= Max(data) => e \in data
  BY <1>1
<1>4. data # {}
  <2>1. PICK n \in found : \A k \in found : n <= k
    <3>1. found # {}
      BY <1>1
    <3>2. found \subseteq Nat
      BY <1>2
    <3> QED
      BY <3>1, <3>2, SmallestInSet
  <2>2. upto(n) = {n}
    <3>1. \A f \in found : f \in Nat
      BY <1>2
    <3>2. \A f \in found : f <= n => f = n
      BY <2>1, <3>1
    <3> QED
      BY <2>1, <3>1, <3>2
  <2>3. Cardinality(upto(n)) = 1
    BY <2>2, FS_Singleton
  <2> QED
    BY <1>1, <2>1, <2>3
<1>5. Max(data) \in data /\ \A e \in data : e <= Max(data)
  <2>1. data \subseteq 1 .. Len(History)
    BY <1>1, <1>2
  <2> HIDE DEF data
  <2> QED
    BY <1>2, <1>4, <2>1, LargestInSet
<1>6. ASSUME NEW e \in found, e <= Max(data) PROVE e \in data
  <2> DEFINE m == Max(data)
  <2>1. m \in found /\ m \in Nat /\ e \in Nat /\ found \subseteq Nat
    <3>1. m \in found
      <4> HIDE DEF data
      <4> QED
        BY <1>1, <1>5
    <3>2. found \subseteq Nat
      BY <1>2
    <3> HIDE DEF m
    <3> QED
      BY <3>1, <3>2
  <2>2. upto(e) \subseteq upto(m)
    <3>1. e <= m
      BY <1>6
    <3>2. \A f \in found : f <= e => f <= m
      <4> HIDE DEF m
      <4> QED
        BY <2>1, <3>1
    <3> QED
      BY <3>2
  <2>3. IsFiniteSet(upto(m))
    BY <1>3, FS_Subset
  <2>4. /\ Cardinality(upto(e)) <= Cardinality(upto(m))
        /\ Cardinality(upto(e)) \in Nat /\ Cardinality(upto(m)) \in Nat
    BY <2>2, <2>3, FS_Subset, FS_CardinalityType
  <2>5. Cardinality(upto(m)) <= limit
    BY <1>1, <1>5
  <2> HIDE DEF data, upto, m
  <2> QED
    BY <1>1, <2>4, <2>5
<1> HIDE DEF data
<1> QED
  BY <1>5, <1>6

(* A row of saga_state, a page of useSagaEvents, a request for pages.      *)
SagaRow == {Missing} \cup [started : Nat, ended : Nat \cup {None}]
ShownPage == [data : SUBSET Events, next : Nat]
Request == [pages : Seq(ShownPage), want : Nat, base : SUBSET Events]

(* Types of the tables and of what the page of a saga has of them.         *)
DetailTyped ==
  /\ log \subseteq Events
  /\ rows \in [TreeSagas -> SagaRow] /\ tree \in [TreeSagas -> SagaRow]
  /\ viewed \in TreeSagas
  /\ loaded \in [TreeSagas -> (SUBSET Events) \cup {NotLoaded}]

(* Pages that were read one after the other (ps): of the events there were *)
(* at the first one (b), they have those up to the last cursor, each once. *)
Paged(ps, b) ==
  /\ ps \in Seq(ShownPage)
  /\ b \subseteq EventsOf(Descendants(viewed))
  /\ ps # <<>> =>
       /\ \A e \in b : Last(ps).next = 0 \/ e <= Last(ps).next => \E n \in DOMAIN ps : e \in ps[n].data
       /\ \A n \in DOMAIN ps : \A e \in ps[n].data : Last(ps).next = 0 \/ e <= Last(ps).next
       /\ \A m, n \in DOMAIN ps : m # n => ps[m].data \cap ps[n].data = {}

(* The inductive invariant: it holds of the pages that are shown and of    *)
(* those of the request under way, which is not yet at the end.            *)
PagesInv ==
  /\ DetailTyped
  /\ Paged(pages, base)
  /\ request \in Request
  /\ Paged(request.pages, request.base)
  /\ request.pages # <<>> => Last(request.pages).next # 0

(* A row has its types after a batch, and stays.                           *)
LEMMA RowAfterTyped ==
  ASSUME NEW row \in SagaRow, NEW batch, batch \subseteq Events
  PROVE  RowAfter(row, batch) \in SagaRow /\ (row # Missing => RowAfter(row, batch) # Missing)
<1> DEFINE counted == {e \in batch : \A f \in batch : f < e => History[f].hint # "final"}
           last == CHOOSE e \in counted : \A f \in counted : f <= e
<1>0. Len(History) \in Nat /\ Events = 1 .. Len(History) /\ \A e \in Events : Time(e) \in Nat
  BY HistoryAssumption DEF Events
<1>1. CASE batch = {} \/ row.ended # None
  <2>1. RowAfter(row, batch) = row
    BY <1>1 DEF RowAfter
  <2> QED
    BY <2>1
<1>2. CASE batch # {} /\ ~(row.ended # None)
  <2>1. counted # {} /\ counted \subseteq Events
    <3>1. batch \subseteq Nat
      BY <1>0
    <3>2. PICK n \in batch : \A k \in batch : n <= k
      BY <1>2, <3>1, SmallestInSet
    <3>3. \A k \in batch : ~(k < n)
      BY <3>1, <3>2
    <3> QED
      BY <3>3
  <2>2. last \in counted
    <3> HIDE DEF counted
    <3>1. counted \subseteq 1 .. Len(History) /\ counted \subseteq Nat
      BY <1>0, <2>1
    <3>2. Max(counted) \in counted /\ \A k \in counted : k <= Max(counted)
      BY <1>0, <2>1, <3>1, LargestInSet
    <3> QED
      BY <3>2
  <2>3. Time(last) \in Nat
    <3> HIDE DEF last, counted
    <3> QED
      BY <1>0, <2>1, <2>2
  <2>4. RowAfter(row, batch) = [started |-> IF row = Missing THEN Time(last) ELSE row.started,
                                ended |-> IF History[last].hint = "final" THEN Time(last) ELSE None]
    BY <1>2 DEF RowAfter
  <2>5. row # Missing => row.started \in Nat
    BY DEF SagaRow
  <2> HIDE DEF last
  <2> DEFINE started == IF row = Missing THEN Time(last) ELSE row.started
             ended == IF History[last].hint = "final" THEN Time(last) ELSE None
  <2>6. started \in Nat /\ ended \in Nat \cup {None}
    BY <2>3, <2>5
  <2>7. RowAfter(row, batch) = [started |-> started, ended |-> ended]
    BY <2>4
  <2> HIDE DEF started, ended
  <2>8. [started |-> started, ended |-> ended] # Missing
    BY <2>6, NoneAssumption DEF Missing
  <2> QED
    BY <2>6, <2>7, <2>8 DEF SagaRow
<1> QED
  BY <1>1, <1>2

(* At the start no page was read.                                          *)
LEMMA InitPaged == DetailInit => PagesInv
<1> SUFFICES ASSUME DetailInit PROVE PagesInv
  OBVIOUS
<1>1. DetailTyped
  <2>1. Missing \in SagaRow
    BY DEF SagaRow
  <2>2. viewed \in TreeSagas /\ log \subseteq Events
    BY ViewsAssumption DEF DetailInit
  <2>3. rows = [s \in TreeSagas |-> Missing] /\ tree = [s \in TreeSagas |-> Missing]
    BY DEF DetailInit
  <2>4. loaded = [s \in TreeSagas |-> NotLoaded]
    BY DEF DetailInit
  <2> QED
    BY <2>1, <2>2, <2>3, <2>4 DEF DetailTyped
<1>2. Paged(<<>>, {})
  BY DEF Paged
<1>3. pages = <<>> /\ base = {} /\ request.pages = <<>> /\ request.base = {}
  BY DEF DetailInit, NoRequest, Request
<1>4. request \in Request
  BY DEF DetailInit, NoRequest, Request
<1> QED
  BY <1>1, <1>2, <1>3, <1>4 DEF PagesInv

(* A page after a cursor: what it has of the events that are below the     *)
(* saga of the page now.                                                   *)
LEMMA PageAfter ==
  ASSUME DetailTyped, NEW cursor \in Nat
  PROVE  LET read == Page(viewed, cursor, PageSize) IN
         /\ read \in ShownPage
         /\ read.next # 0 => read.next > cursor
         /\ \A e \in read.data : e > cursor /\ (read.next = 0 \/ e <= read.next)
         /\ \A e \in EventsOf(Descendants(viewed)) :
               e > cursor /\ (read.next = 0 \/ e <= read.next) => e \in read.data
<1> DEFINE found == {e \in EventsOf(Descendants(viewed)) : e > cursor}
           data == FirstOf(found, PageSize)
           next == IF data = found THEN 0 ELSE Max(data)
           read == Page(viewed, cursor, PageSize)
<1>1. read.data = data /\ read.next = next /\ read = [data |-> data, next |-> next]
  BY DEF Page
<1>2. EventsOf(Descendants(viewed)) \subseteq Events
  BY DEF DetailTyped, EventsOf
<1>3. found \subseteq Events /\ \A e \in found : e > cursor
  BY <1>2
<1>4. /\ data \subseteq found
      /\ data # found => /\ Max(data) \in data
                         /\ \A e \in data : e <= Max(data)
                         /\ \A e \in found : e <= Max(data) => e \in data
  <2> HIDE DEF found
  <2> QED
    BY <1>3, SizesAssumption, FirstOfFound
<1>5. Events \subseteq Nat
  BY HistoryAssumption DEF Events
<1>6. \A e : e \in found <=> e \in EventsOf(Descendants(viewed)) /\ e > cursor
  OBVIOUS
<1> HIDE DEF found, data, read
<1>7. next \in Nat /\ (next # 0 => data # found /\ next = Max(data))
  BY <1>3, <1>4, <1>5
<1>8. next # 0 => next > cursor
  BY <1>3, <1>4, <1>7
<1>9. next = 0 => data = found
  BY <1>3, <1>4, <1>5
<1>10. \A e \in data : e > cursor /\ (next = 0 \/ e <= next)
  <2> HIDE DEF next
  <2> QED
    BY <1>3, <1>4, <1>7
<1>11. \A e \in EventsOf(Descendants(viewed)) : e > cursor /\ (next = 0 \/ e <= next) => e \in data
  <2> HIDE DEF next
  <2> QED
    BY <1>4, <1>6, <1>7, <1>9
<1>12. read \in ShownPage
  <2> HIDE DEF next
  <2>1. data \in SUBSET Events
    BY <1>3, <1>4
  <2> QED
    BY <1>1, <1>7, <2>1 DEF ShownPage
<1> HIDE DEF next
<1> QED
  BY <1>1, <1>8, <1>10, <1>11, <1>12 DEF read

(* The first page of a request.                                            *)
LEMMA FirstPage ==
  ASSUME DetailTyped
  PROVE  Paged(Append(<<>>, Page(viewed, 0, PageSize)), EventsOf(Descendants(viewed)))
<1> DEFINE read == Page(viewed, 0, PageSize)
           b == EventsOf(Descendants(viewed))
           ps == Append(<<>>, read)
<1>1. /\ read \in ShownPage
      /\ \A e \in read.data : read.next = 0 \/ e <= read.next
      /\ \A e \in b : e > 0 /\ (read.next = 0 \/ e <= read.next) => e \in read.data
  BY PageAfter, 0 \in Nat
<1>2. \A e \in b : e > 0
  BY HistoryAssumption DEF DetailTyped, EventsOf, Events
<1> HIDE DEF read
<1>3. ps \in Seq(ShownPage) /\ DOMAIN ps = {1} /\ ps[1] = read /\ Last(ps) = read
  BY <1>1 DEF Last
<1> HIDE DEF ps, b
<1>4. \A e \in b : Last(ps).next = 0 \/ e <= Last(ps).next => \E n \in DOMAIN ps : e \in ps[n].data
  BY <1>1, <1>2, <1>3
<1>5. \A n \in DOMAIN ps : \A e \in ps[n].data : Last(ps).next = 0 \/ e <= Last(ps).next
  BY <1>1, <1>3
<1>6. \A m, n \in DOMAIN ps : m # n => ps[m].data \cap ps[n].data = {}
  BY <1>3
<1>7. Paged(ps, b)
  BY <1>3, <1>4, <1>5, <1>6 DEF Paged, b
<1> QED
  BY <1>7 DEF ps, b, read

(* A further page, read later, when other events may have come to the log. *)
LEMMA NextPage ==
  ASSUME DetailTyped, NEW ps, NEW b, Paged(ps, b), ps # <<>>, Last(ps).next # 0
  PROVE  Paged(Append(ps, Page(viewed, Last(ps).next, PageSize)), b)
<1> DEFINE cursor == Last(ps).next
           read == Page(viewed, cursor, PageSize)
           qs == Append(ps, read)
           k == Len(ps) + 1
<1>1. ps \in Seq(ShownPage) /\ Len(ps) \in Nat \ {0} /\ DOMAIN ps = 1 .. Len(ps)
  <2>1. ps \in Seq(ShownPage)
    BY DEF Paged
  <2> QED
    BY <2>1
<1>2. cursor \in Nat
  <2>1. ps[Len(ps)] \in ShownPage
    BY <1>1
  <2> QED
    BY <2>1 DEF ShownPage, Last
<1>3. /\ read \in ShownPage
      /\ read.next # 0 => read.next > cursor
      /\ \A e \in read.data : e > cursor /\ (read.next = 0 \/ e <= read.next)
      /\ \A e \in EventsOf(Descendants(viewed)) :
            e > cursor /\ (read.next = 0 \/ e <= read.next) => e \in read.data
  <2> HIDE DEF cursor
  <2> QED
    BY <1>2, PageAfter
<1>4. cursor # 0
  OBVIOUS
<1>5. /\ b \subseteq EventsOf(Descendants(viewed)) /\ b \subseteq Nat
      /\ \A e \in b : e <= cursor => \E n \in DOMAIN ps : e \in ps[n].data
      /\ \A n \in DOMAIN ps : \A e \in ps[n].data : e <= cursor
      /\ \A m, n \in DOMAIN ps : m # n => ps[m].data \cap ps[n].data = {}
  BY HistoryAssumption DEF Paged, EventsOf, DetailTyped, Events
<1>6. read.next \in Nat /\ read.data \subseteq Nat /\ \A n \in DOMAIN ps : ps[n].data \subseteq Nat
  <2>1. Events \subseteq Nat
    BY HistoryAssumption DEF Events
  <2>2. \A n \in DOMAIN ps : ps[n] \in ShownPage
    BY <1>1
  <2> HIDE DEF read
  <2> QED
    BY <1>3, <2>1, <2>2 DEF ShownPage
<1> HIDE DEF cursor, read
<1>7. /\ qs \in Seq(ShownPage) /\ DOMAIN qs = 1 .. k /\ qs # <<>> /\ Last(qs) = read /\ qs[k] = read
      /\ \A n \in DOMAIN ps : qs[n] = ps[n] /\ n \in DOMAIN qs
      /\ \A n \in DOMAIN qs : n = k \/ n \in DOMAIN ps
  BY <1>1, <1>3 DEF Last
<1>8. k \in DOMAIN qs
  BY <1>1, <1>7
<1> HIDE DEF qs, k
<1>9. \A e \in b : read.next = 0 \/ e <= read.next => \E n \in DOMAIN qs : e \in qs[n].data
  <2> SUFFICES ASSUME NEW e \in b, read.next = 0 \/ e <= read.next
               PROVE  \E n \in DOMAIN qs : e \in qs[n].data
    OBVIOUS
  <2>1. CASE e <= cursor
    BY <2>1, <1>5, <1>7
  <2>2. CASE ~(e <= cursor)
    <3>1. e > cursor /\ e \in EventsOf(Descendants(viewed))
      BY <2>2, <1>2, <1>5
    <3> QED
      BY <3>1, <1>3, <1>7, <1>8
  <2> QED
    BY <2>1, <2>2
<1>10. \A n \in DOMAIN qs : \A e \in qs[n].data : read.next = 0 \/ e <= read.next
  <2> SUFFICES ASSUME NEW n \in DOMAIN qs, NEW e \in qs[n].data, read.next # 0
               PROVE  e <= read.next
    OBVIOUS
  <2>1. CASE n = k
    BY <2>1, <1>3, <1>7
  <2>2. CASE n \in DOMAIN ps
    <3>1. e \in Nat /\ e <= cursor
      BY <2>2, <1>5, <1>6, <1>7
    <3> QED
      BY <3>1, <1>2, <1>3, <1>6
  <2> QED
    BY <2>1, <2>2, <1>7
<1>11. ASSUME NEW n \in DOMAIN ps PROVE ps[n].data \cap read.data = {}
  <2> SUFFICES ASSUME NEW e \in ps[n].data, e \in read.data PROVE FALSE
    OBVIOUS
  <2>1. e \in Nat /\ e <= cursor /\ e > cursor
    BY <1>3, <1>5, <1>6
  <2> QED
    BY <2>1, <1>2
<1>12. \A m, n \in DOMAIN qs : m # n => qs[m].data \cap qs[n].data = {}
  BY <1>5, <1>7, <1>11
<1>13. Paged(qs, b)
  BY <1>5, <1>7, <1>9, <1>10, <1>12 DEF Paged
<1> QED
  BY <1>13 DEF qs, read, cursor

(* What is below a saga, and its events, only grow while the projector     *)
(* goes on.                                                                *)
LEMMA EventsGrow ==
  ASSUME DetailTyped, NEW e \in Events, Project(e)
  PROVE  DetailTyped' /\ EventsOf(Descendants(viewed)) \subseteq EventsOf(Descendants(viewed))'
<1> DEFINE batch == {f \in 1 .. e : History[f].topic = History[e].topic} \ log
           mine(s) == {f \in batch : History[f].saga = s}
<1>1. /\ log' = log \cup batch /\ UNCHANGED <<viewed, tree, loaded>>
      /\ rows' = [s \in TreeSagas |-> RowAfter(rows[s], mine(s))]
  BY DEF Project
<1>2. batch \subseteq Events
  BY HistoryAssumption DEF Events
<1> HIDE DEF batch
<1>3. ASSUME NEW s \in TreeSagas
      PROVE  /\ RowAfter(rows[s], mine(s)) \in SagaRow
             /\ rows[s] # Missing => RowAfter(rows[s], mine(s)) # Missing
  <2>1. rows[s] \in SagaRow /\ mine(s) \subseteq Events
    BY <1>2 DEF DetailTyped
  <2> HIDE DEF mine
  <2> QED
    BY <2>1, RowAfterTyped
<1> HIDE DEF mine
<1>4. rows' \in [TreeSagas -> SagaRow] /\ \A s \in TreeSagas : rows[s] # Missing => rows'[s] # Missing
  BY <1>1, <1>3
<1>5. DetailTyped'
  BY <1>1, <1>2, <1>4 DEF DetailTyped
<1>6. Descendants(viewed) \subseteq Descendants(viewed)'
  <2>1. viewed \in TreeSagas /\ viewed' = viewed
    BY <1>1 DEF DetailTyped
  <2>2. \A d \in TreeSagas : Below(rows, d, viewed) => Below(rows', d, viewed)
    BY <1>4, BelowGrows
  <2>3. Below(rows', viewed, viewed)
    BY <2>1, BelowGoesUp
  <2>4. Descendants(viewed) =
           IF rows[viewed] = Missing THEN {viewed} ELSE {d \in TreeSagas : Below(rows, d, viewed)}
    BY DEF Descendants
  <2>5. Descendants(viewed)' =
           IF rows'[viewed] = Missing THEN {viewed} ELSE {d \in TreeSagas : Below(rows', d, viewed)}
    BY <2>1 DEF Descendants
  <2>6. rows[viewed] # Missing => rows'[viewed] # Missing
    BY <1>4, <2>1
  <2> QED
    BY <2>1, <2>2, <2>3, <2>4, <2>5, <2>6
<1> QED
  BY <1>1, <1>5, <1>6 DEF EventsOf

(* Every step keeps the invariant.                                         *)
LEMMA StepPaged == PagesInv /\ [DetailNext]_detailVars => PagesInv'
<1> SUFFICES ASSUME PagesInv, [DetailNext]_detailVars PROVE PagesInv'
  OBVIOUS
<1> USE DEF PagesInv, Request
<1>1. ASSUME NEW e \in Events, Project(e) PROVE PagesInv'
  <2>1. DetailTyped' /\ EventsOf(Descendants(viewed)) \subseteq EventsOf(Descendants(viewed))'
    BY <1>1, EventsGrow
  <2>2. UNCHANGED <<viewed, pages, request, base>>
    BY <1>1 DEF Project
  <2>3. Paged(pages, base)' /\ Paged(request.pages, request.base)'
    BY <2>1, <2>2 DEF Paged
  <2> QED
    BY <2>1, <2>2, <2>3
<1>2. ASSUME UNCHANGED <<log, rows, viewed>>, NEW ps, NEW b, Paged(ps, b)
      PROVE  Paged(ps, b)'
  BY <1>2 DEF Paged, EventsOf, Descendants
<1>3. CASE AskMore
  <2>1. /\ UNCHANGED <<tables, viewed, pages, base, tree, loaded>>
        /\ request' = [pages |-> pages, want |-> Len(pages) + 1, base |-> base]
        /\ pages # <<>> => Last(pages).next # 0
    BY <1>3 DEF AskMore
  <2>2. UNCHANGED <<log, rows>>
    BY <2>1 DEF tables
  <2>3. request'.pages = pages /\ request'.base = base /\ request' \in Request
    <3>1. base \subseteq Events /\ pages \in Seq(ShownPage)
      BY DEF Paged, EventsOf, DetailTyped
    <3> QED
      BY <2>1, <3>1
  <2>4. Paged(pages, base)'
    BY <1>2, <2>1, <2>2 DEF Paged, EventsOf, Descendants
  <2>5. Paged(request.pages, request.base)'
    BY <2>1, <2>3, <2>4 DEF Paged
  <2> QED
    BY <2>1, <2>2, <2>3, <2>4, <2>5 DEF DetailTyped
<1>4. CASE Refetch
  <2>1. /\ UNCHANGED <<tables, viewed, pages, base, tree, loaded>>
        /\ request' = [pages |-> <<>>, want |-> Len(pages), base |-> {}]
    BY <1>4 DEF Refetch
  <2>2. UNCHANGED <<log, rows>>
    BY <2>1 DEF tables
  <2>3. request'.pages = <<>> /\ request'.base = {} /\ request' \in Request
    <3>1. pages \in Seq(ShownPage)
      BY DEF Paged
    <3> QED
      BY <2>1, <3>1
  <2>4. Paged(pages, base)'
    BY <1>2, <2>1, <2>2 DEF Paged, EventsOf, Descendants
  <2>5. Paged(request.pages, request.base)'
    BY <2>3 DEF Paged
  <2> QED
    BY <2>1, <2>2, <2>3, <2>4, <2>5 DEF DetailTyped
<1>5. CASE ReadPage
  <2> DEFINE cursor == IF request.pages = <<>> THEN 0 ELSE Last(request.pages).next
             read == Page(viewed, cursor, PageSize)
             more == Append(request.pages, read)
             old == IF request.pages = <<>> THEN EventsOf(Descendants(viewed)) ELSE request.base
             now == [pages |-> more, want |-> request.want, base |-> old]
  <2>1. /\ UNCHANGED <<tables, viewed, tree, loaded>>
        /\ IF Len(now.pages) = now.want \/ read.next = 0
           THEN pages' = now.pages /\ base' = now.base /\ request' = NoRequest
           ELSE request' = now /\ UNCHANGED <<pages, base>>
    BY <1>5 DEF ReadPage
  <2>2. UNCHANGED <<log, rows, viewed>>
    BY <2>1 DEF tables
  <2>3. Paged(more, old)
    <3>1. CASE request.pages = <<>>
      BY <3>1, FirstPage
    <3>2. CASE request.pages # <<>>
      BY <3>2, NextPage
    <3> QED
      BY <3>1, <3>2
  <2>4. read.next # 0 => Last(more).next # 0
    <3>1. request.pages \in Seq(ShownPage)
      OBVIOUS
    <3>2. Last(more) = read
      <4> HIDE DEF read
      <4> QED
        BY <3>1 DEF Last
    <3> QED
      BY <3>2
  <2>5. PICK ps, b : ps = more /\ b = old
    OBVIOUS
  <2>6. /\ now = [pages |-> ps, want |-> request.want, base |-> b]
        /\ read.next # 0 => Last(ps).next # 0
    <3> HIDE DEF more, old, read
    <3> QED
      BY <2>4, <2>5
  <2>7. Paged(ps, b) /\ Paged(ps, b)'
    <3>1. Paged(ps, b)
      BY <2>3, <2>5
    <3> HIDE DEF more, old, read, now
    <3> QED
      BY <3>1, <1>2, <2>2
  <2> HIDE DEF now, more, old, read
  <2>8. request.want \in Nat /\ ps \in Seq(ShownPage) /\ b \in SUBSET Events
    BY <2>7 DEF Paged, EventsOf, DetailTyped
  <2>9. DetailTyped'
    BY <2>1, <2>2 DEF DetailTyped
  <2>10. CASE Len(now.pages) = now.want \/ read.next = 0
    <3>1. pages' = now.pages /\ base' = now.base /\ request' = NoRequest
      BY <2>1, <2>10
    <3>2. pages' = ps /\ base' = b
      BY <2>6, <3>1
    <3>3. Paged(pages, base)'
      BY <2>7, <3>2 DEF Paged
    <3>4. request'.pages = <<>> /\ request'.base = {} /\ request' \in Request
      BY <3>1 DEF NoRequest
    <3>5. Paged(request.pages, request.base)'
      BY <3>4 DEF Paged
    <3> QED
      BY <2>9, <3>3, <3>4, <3>5
  <2>11. CASE ~(Len(now.pages) = now.want \/ read.next = 0)
    <3>1. request' = now /\ UNCHANGED <<pages, base>> /\ read.next # 0
      BY <2>1, <2>11
    <3>2. request'.pages = ps /\ request'.base = b /\ request' \in Request
      BY <2>6, <2>8, <3>1
    <3>3. Paged(request.pages, request.base)'
      BY <2>7, <3>2 DEF Paged
    <3>4. Paged(pages, base)'
      BY <1>2, <2>2, <3>1 DEF Paged, EventsOf, Descendants
    <3> QED
      BY <2>6, <2>9, <3>1, <3>2, <3>3, <3>4
  <2> QED
    BY <2>10, <2>11
<1>6. ASSUME UNCHANGED <<log, rows, viewed, pages, request, base>> PROVE PagesInv' \/ ~DetailTyped'
  BY <1>6, <1>2 DEF Paged, EventsOf, Descendants
<1>7. CASE FetchTree
  <2>1. UNCHANGED <<log, rows, viewed, pages, request, base, loaded>> /\ tree' = rows
    BY <1>7 DEF FetchTree, tables
  <2>2. DetailTyped'
    BY <2>1 DEF DetailTyped
  <2> QED
    BY <1>6, <2>1, <2>2
<1>8. ASSUME NEW s \in TreeSagas, FetchTreeEvents(s) PROVE PagesInv'
  <2>1. /\ UNCHANGED <<log, rows, viewed, pages, request, base, tree>>
        /\ loaded' = [loaded EXCEPT ![s] = EventsOf(Descendants(s))]
    BY <1>8 DEF FetchTreeEvents, tables
  <2>2. EventsOf(Descendants(s)) \subseteq Events
    BY DEF EventsOf, DetailTyped
  <2>3. DetailTyped'
    BY <2>1, <2>2 DEF DetailTyped
  <2> QED
    BY <1>6, <2>1, <2>3
<1>9. CASE UNCHANGED detailVars
  <2>1. DetailTyped'
    BY <1>9 DEF detailVars, DetailTyped
  <2> QED
    BY <1>6, <1>9, <2>1 DEF detailVars
<1> QED
  BY <1>1, <1>3, <1>4, <1>5, <1>7, <1>8, <1>9 DEF DetailNext

(* So it holds in every state.                                             *)
LEMMA PagesInvariance == DetailSpec => []PagesInv
<1> QED
  BY InitPaged, StepPaged, PTL DEF DetailSpec

(* Paging to the end (GetSagaEventsQuery with the cursor of useSagaEvents) *)
(* shows all events of the saga and its descendants that were in the log   *)
(* when the first page was read, each once, for every history, page size   *)
(* and order in which the projector takes the events meanwhile, and        *)
(* however often react-query reads the pages again.                        *)
THEOREM PagesCoverTheLog == DetailSpec => []PagesCoverLog
<1>1. PagesInv => PagesCoverLog
  BY DEF PagesInv, Paged, PagesCoverLog
<1> QED
  BY <1>1, PagesInvariance, PTL

(* The sagas that are drawn have a row; one of them is the earliest.       *)
LEMMA DrawnHaveStarted ==
  ASSUME DetailTyped
  PROVE  \A s \in Subtree : s \in TreeSagas /\ tree[s] # Missing /\ tree[s].started \in Nat
<1> SUFFICES ASSUME NEW s \in Subtree
             PROVE  s \in TreeSagas /\ tree[s] # Missing /\ tree[s].started \in Nat
  OBVIOUS
<1>1. s \in TreeSagas /\ tree[s] # Missing
  BY DEF Subtree
<1>2. tree[s] \in SagaRow
  BY <1>1 DEF DetailTyped
<1> QED
  BY <1>1, <1>2 DEF SagaRow

LEMMA EarliestIsFirst ==
  ASSUME DetailTyped, Subtree # {}
  PROVE  /\ Earliest(Subtree) \in Subtree
         /\ \A t \in Subtree : tree[Earliest(Subtree)].started <= tree[t].started
<1> DEFINE starts == {tree[t].started : t \in Subtree}
           Right(s) == /\ \A t \in Subtree : tree[s].started <= tree[t].started
                       /\ s = viewed \/ \A t \in Subtree : tree[t].started = tree[s].started => t # viewed
<1>1. \A t \in Subtree : tree[t].started \in Nat
  BY DrawnHaveStarted
<1>2. PICK n \in starts : \A k \in starts : n <= k
  <2>1. starts \subseteq Nat /\ starts # {}
    BY <1>1
  <2> HIDE DEF starts
  <2> QED
    BY <2>1, SmallestInSet
<1>3. PICK s \in Subtree : \A t \in Subtree : tree[s].started <= tree[t].started
  BY <1>2
<1>4. \E r \in Subtree : Right(r)
  <2>1. CASE viewed \in Subtree /\ tree[viewed].started = tree[s].started
    <3>1. Right(viewed)
      BY <1>3, <2>1
    <3> QED
      BY <2>1, <3>1
  <2>2. CASE ~(viewed \in Subtree /\ tree[viewed].started = tree[s].started)
    <3>1. Right(s)
      BY <1>3, <2>2
    <3> QED
      BY <3>1
  <2> QED
    BY <2>1, <2>2
<1>5. Earliest(Subtree) = CHOOSE r \in Subtree : Right(r)
  BY DEF Earliest
<1> QED
  BY <1>4, <1>5

(* A span that ends with an event of its saga.                             *)
LEMMA SpanToNext ==
  ASSUME DetailTyped, Subtree # {}, NEW e \in Charted, NEW f \in Charted,
         f > e, History[e].saga = History[f].saga
  PROVE  /\ Span(e).start + Span(e).duration <= Span(f).start
         /\ \/ Span(e).estimated \/ Span(e).start + Span(e).duration = Span(f).start
            \/ \E g \in Charted : e < g /\ g < f /\ History[e].saga = History[g].saga
<1> DEFINE m == CHOOSE x \in Later(e) : \A g \in Later(e) : x <= g
           row == tree[History[e].saga]
           end == IF Later(e) # {} THEN Time(m) ELSE IF row.ended # None THEN row.ended ELSE Now
           gap == IF end > Time(e) THEN end - Time(e) ELSE 1
<1>0. /\ Span(e).start = Time(e) - ChartStart
      /\ Span(e).duration = IF gap > MaxSpan THEN MaxSpan ELSE gap
      /\ Span(e).estimated = (gap > MaxSpan \/ (Later(e) = {} /\ row.ended = None))
      /\ Span(f).start = Time(f) - ChartStart
  BY DEF Span
<1>1. Charted \subseteq Events /\ Events \subseteq Nat /\ \A x \in Events : Time(x) \in Nat
  <2>1. Charted \subseteq Events
    BY DEF Charted, TreeEvents, DetailTyped, Subtree
  <2> QED
    BY <2>1, HistoryAssumption DEF Events
<1>2. f \in Later(e) /\ Later(e) \subseteq Charted
  BY DEF Later
<1>3. m \in Later(e) /\ \A g \in Later(e) : m <= g
  <2>1. Later(e) \subseteq Nat /\ Later(e) # {}
    BY <1>1, <1>2
  <2>2. \E x \in Later(e) : \A g \in Later(e) : x <= g
    BY <2>1, SmallestInSet
  <2> QED
    BY <2>2
<1> HIDE DEF m
<1>4. /\ m \in Charted /\ m > e /\ History[m].saga = History[e].saga /\ m <= f
      /\ m \in Events /\ e \in Events /\ f \in Events
  BY <1>1, <1>2, <1>3 DEF Later
<1>5. Time(m) > Time(e) /\ Time(m) <= Time(f) /\ Time(m) \in Nat /\ Time(e) \in Nat /\ Time(f) \in Nat
  <2>1. Time(e) < Time(m)
    BY <1>1, <1>4, TimesAssumption
  <2>2. m = f \/ Time(m) < Time(f)
    BY <1>1, <1>4, TimesAssumption
  <2> QED
    BY <1>1, <1>4, <2>1, <2>2
<1>6. gap = Time(m) - Time(e)
  BY <1>2, <1>5
<1>7. ChartStart \in Nat
  <2>1. Earliest(Subtree) \in Subtree
    BY EarliestIsFirst
  <2> QED
    BY <2>1, DrawnHaveStarted DEF ChartStart
<1>8. MaxSpan \in Nat
  BY SizesAssumption
<1> HIDE DEF gap
<1>9. Span(e).start + Span(e).duration <= Span(f).start
  BY <1>0, <1>5, <1>6, <1>7, <1>8
<1>10. CASE gap > MaxSpan
  BY <1>0, <1>9, <1>10
<1>11. CASE ~(gap > MaxSpan)
  <2>1. Span(e).start + Span(e).duration = Time(m) - ChartStart
    BY <1>0, <1>5, <1>6, <1>7, <1>8, <1>11
  <2>2. CASE m = f
    BY <1>0, <1>9, <2>1, <2>2
  <2>3. CASE m # f
    <3>1. e < m /\ m < f /\ m \in Charted /\ History[e].saga = History[m].saga
      BY <1>1, <1>4, <2>3
    <3> QED
      BY <1>9, <3>1
  <2> QED
    BY <2>2, <2>3
<1> QED
  BY <1>10, <1>11

(* If no row is missing, all sagas are below the root.                     *)
LEMMA AllBelowRoot ==
  ASSUME \A s \in TreeSagas : tree[s] # Missing, NEW r \in TreeSagas, IsRoot(r)
  PROVE  \A s \in TreeSagas : Below(tree, s, r)
<1> DEFINE D == {s \in TreeSagas : ~Below(tree, s, r)}
<1> SUFFICES ASSUME D # {} PROVE FALSE
  OBVIOUS
<1>1. PICK s \in D : ParentOf(s) \notin D
  <2>1. D \in SUBSET TreeSagas
    OBVIOUS
  <2> QED
    BY <2>1, TreeAssumption
<1>2. s \in TreeSagas /\ ~Below(tree, s, r)
  BY <1>1
<1>3. s # r
  BY <1>2, BelowGoesUp
<1>4. ~IsRoot(s)
  BY <1>2, <1>3, TreeAssumption
<1>5. ParentOf(s) \in TreeSagas
  BY <1>2, <1>4, TreeAssumption
<1>6. Below(tree, ParentOf(s), r)
  BY <1>1, <1>5
<1> QED
  BY <1>2, <1>4, <1>6, BelowGoesUp

(* What is drawn tiles, by its types alone.                                *)
LEMMA TypedTiles == DetailTyped => SpansTile
<1> SUFFICES ASSUME DetailTyped PROVE SpansTile
  OBVIOUS
<1> DEFINE span == [e \in Charted |-> Span(e)]
           end(e) == span[e].start + span[e].duration
           follows(e, f) == History[e].saga = History[f].saga
           noneMissing == \A s \in TreeSagas : tree[s] # Missing
<1>1. ASSUME NEW e \in Charted, NEW f \in Charted, f > e /\ follows(e, f)
      PROVE  /\ end(e) <= span[f].start
             /\ \/ span[e].estimated \/ end(e) = span[f].start
                \/ \E g \in Charted : e < g /\ g < f /\ follows(e, g)
  <2>1. Subtree # {}
    BY DEF Charted
  <2>2. span[e] = Span(e) /\ span[f] = Span(f)
    OBVIOUS
  <2> HIDE DEF span
  <2> QED
    BY <1>1, <2>1, <2>2, SpanToNext
<1>2. ASSUME \A e \in Charted : tree[History[e].saga].started <= Time(e), NEW e \in Charted
      PROVE  span[e].start >= 0
  <2>1. span[e].start = Time(e) - ChartStart
    BY DEF Span
  <2>2. Subtree # {} /\ History[e].saga \in Subtree
    BY DEF Charted
  <2>3. e \in Events
    BY DEF Charted, TreeEvents, DetailTyped, Subtree
  <2>4. Time(e) \in Nat
    BY <2>3, HistoryAssumption
  <2>5. /\ ChartStart \in Nat /\ tree[History[e].saga].started \in Nat
        /\ ChartStart <= tree[History[e].saga].started
    BY <2>2, EarliestIsFirst, DrawnHaveStarted DEF ChartStart
  <2>6. tree[History[e].saga].started <= Time(e)
    BY <1>2
  <2> HIDE DEF span
  <2> QED
    BY <2>1, <2>4, <2>5, <2>6
<1>3. ASSUME noneMissing, Charted # {}, ChartRoot = viewed, NEW s \in Subtree \ {viewed}
      PROVE  Depth(s) = Depth(ParentOf(s)) + 1
  <2>1. s \in TreeSagas /\ viewed \in TreeSagas
    BY DrawnHaveStarted DEF DetailTyped
  <2>2. Below(tree, s, viewed)
    <3>1. CASE IsRoot(viewed)
      BY <1>3, <2>1, <3>1, AllBelowRoot
    <3>2. CASE ~IsRoot(viewed)
      BY <1>3, <2>1, <3>2 DEF Subtree
    <3> QED
      BY <3>1, <3>2
  <2>3. s # ChartRoot /\ Below(tree, s, ChartRoot)
    BY <1>3, <2>2
  <2> QED
    BY <2>1, <2>3, DepthGoesUp
<1> HIDE DEF span
<1> QED
  BY <1>1, <1>2, <1>3 DEF SpansTile, span

(* The waterfall (eventsToWaterfallSpans), for every history and whichever *)
(* answers the page has: spans of a saga do not overlap and meet unless    *)
(* the gap is cut, none lies before the chart if the rows have the starts  *)
(* of their sagas, and depths are one more than that of the parent if      *)
(* nothing is missing.                                                     *)
THEOREM SpansAreTiled == DetailSpec => []SpansTile
<1>1. PagesInv => SpansTile
  BY TypedTiles DEF PagesInv
<1> QED
  BY <1>1, PagesInvariance, PTL
=============================================================================
