--------------------------- MODULE LivePages_proofs ---------------------------
(* Proofs about LiveStream and a page that follows it (LivePages): the     *)
(* subscriptions at Redis are those of the browsers, and a page to which   *)
(* everything has come shows the versions of the database.                 *)
EXTENDS LivePages, TLAPS

USE ViewerAssumption

Channels == {All} \cup UNION {ChannelsOf([saga |-> s]) : s \in Sagas}
Commands == [do : {"subscribe", "unsubscribe"}, ch : Channels]

(* The table of callbacks has the clients of every channel someone follows, *)
(* and no other channel.                                                    *)
CallbacksFollow ==
  /\ follows \in [Clients -> Channels \cup {<<>>}]
  /\ callbacks = [ch \in DOMAIN callbacks |-> {c \in Clients : follows[c] = ch}]
  /\ DOMAIN callbacks = {ch \in Channels : \E c \in Clients : follows[c] = ch}

LastAbout(i, ch) ==
  commands[i].ch = ch /\ \A j \in i + 1 .. Len(commands) : commands[j].ch # ch

(* The last command about a channel, or without one Redis itself, agrees   *)
(* with the table.                                                         *)
CommandsSettle ==
  /\ commands \in Seq(Commands) /\ redis \subseteq Channels
  /\ \A ch \in Channels :
       /\ \A i \in 1 .. Len(commands) :
            LastAbout(i, ch) => (commands[i].do = "subscribe" <=> ch \in DOMAIN callbacks)
       /\ (\A i \in 1 .. Len(commands) : commands[i].ch # ch) =>
            (ch \in redis <=> ch \in DOMAIN callbacks)

StreamInv == CallbacksFollow /\ CommandsSettle

(* A page follows a channel only through an open source.                   *)
PageInv ==
  /\ page \in Channels
  /\ source # "open" => follows[Viewer] = <<>>

IInv == StreamInv /\ PageInv

-----------------------------------------------------------------------------
(* No channel is the one of a client without a connection.                 *)
LEMMA NoEmptyChannel == <<>> \notin Channels
BY DEF Channels, ChannelsOf, All

(* A command is appended that says what becomes of its channel in the      *)
(* table.                                                                  *)
LEMMA AppendSettles ==
  ASSUME CommandsSettle, NEW c \in Commands, commands' = Append(commands, c), UNCHANGED redis,
         c.do = "subscribe" <=> c.ch \in DOMAIN callbacks',
         \A ch \in Channels : ch # c.ch => (ch \in DOMAIN callbacks' <=> ch \in DOMAIN callbacks)
  PROVE  CommandsSettle'
<1>1. /\ commands \in Seq(Commands) /\ commands' \in Seq(Commands)
      /\ Len(commands) \in Nat /\ Len(commands') = Len(commands) + 1
      /\ commands'[Len(commands) + 1] = c
      /\ \A i \in 1 .. Len(commands) : commands'[i] = commands[i]
  BY DEF CommandsSettle
<1>2. redis' \subseteq Channels
  BY DEF CommandsSettle
<1>3. ASSUME NEW ch \in Channels, NEW i \in 1 .. Len(commands'), LastAbout(i, ch)'
      PROVE  commands'[i].do = "subscribe" <=> ch \in DOMAIN callbacks'
  <2>1. CASE i = Len(commands) + 1
    BY <1>1, <1>3, <2>1 DEF LastAbout
  <2>2. CASE i \in 1 .. Len(commands)
    <3>1. c.ch # ch
      BY <1>1, <1>3, <2>2 DEF LastAbout
    <3>2. LastAbout(i, ch)
      BY <1>1, <1>3, <2>2 DEF LastAbout
    <3> QED
      BY <1>1, <2>2, <3>1, <3>2 DEF CommandsSettle
  <2> QED
    BY <1>1, <2>1, <2>2
<1>4. ASSUME NEW ch \in Channels, \A i \in 1 .. Len(commands') : commands'[i].ch # ch
      PROVE  ch \in redis' <=> ch \in DOMAIN callbacks'
  <2>1. c.ch # ch /\ \A i \in 1 .. Len(commands) : commands[i].ch # ch
    BY <1>1, <1>4
  <2> QED
    BY <2>1 DEF CommandsSettle
<1> QED
  BY <1>1, <1>2, <1>3, <1>4 DEF CommandsSettle

(* The table keeps its channels, and no command is needed.                 *)
LEMMA NothingToSettle ==
  ASSUME CommandsSettle, UNCHANGED <<commands, redis>>,
         \A ch \in Channels : ch \in DOMAIN callbacks' <=> ch \in DOMAIN callbacks
  PROVE  CommandsSettle'
BY DEF CommandsSettle, LastAbout

(* A client that follows nothing subscribes to a channel.                  *)
LEMMA SubscribeStep ==
  ASSUME StreamInv, NEW client \in Clients, NEW ch \in Channels, follows[client] = <<>>,
         Subscribe(client, ch)
  PROVE  StreamInv' /\ follows' = [follows EXCEPT ![client] = ch]
<1>1. /\ follows' = [follows EXCEPT ![client] = ch] /\ UNCHANGED redis
      /\ callbacks' = [k \in DOMAIN callbacks \cup {ch} |-> Listeners(k) \cup IF k = ch THEN {client} ELSE {}]
  BY DEF Subscribe
<1>2. /\ follows \in [Clients -> Channels \cup {<<>>}]
      /\ \A k \in DOMAIN callbacks : callbacks[k] = {c \in Clients : follows[c] = k}
      /\ DOMAIN callbacks = {k \in Channels : \E c \in Clients : follows[c] = k}
  BY DEF StreamInv, CallbacksFollow
<1>3. follows' \in [Clients -> Channels \cup {<<>>}]
  BY <1>1, <1>2
<1>4. \A c \in Clients : follows'[c] = IF c = client THEN ch ELSE follows[c]
  BY <1>1, <1>2
<1>5. \A k \in Channels : Listeners(k) = {c \in Clients : follows[c] = k}
  BY <1>2 DEF Listeners
<1>6. \A k \in DOMAIN callbacks' : callbacks'[k] = {c \in Clients : follows'[c] = k}
  BY <1>1, <1>2, <1>4, <1>5, NoEmptyChannel
<1>7. DOMAIN callbacks' = {k \in Channels : \E c \in Clients : follows'[c] = k}
  BY <1>1, <1>2, <1>4, NoEmptyChannel
<1>8. callbacks' = [k \in DOMAIN callbacks' |-> {c \in Clients : follows'[c] = k}]
  BY <1>1, <1>6
<1>9. CommandsSettle'
  <2>1. \A k \in Channels : k # ch => (k \in DOMAIN callbacks' <=> k \in DOMAIN callbacks)
    BY <1>1
  <2>2. ch \in DOMAIN callbacks'
    BY <1>1
  <2>3. CASE ch \in DOMAIN callbacks
    <3>1. UNCHANGED <<commands, redis>>
      BY <2>3 DEF Subscribe
    <3> QED
      BY <2>1, <2>2, <2>3, <3>1, NothingToSettle DEF StreamInv
  <2>4. CASE ch \notin DOMAIN callbacks
    <3> DEFINE c == [do |-> "subscribe", ch |-> ch]
    <3>1. commands' = Append(commands, c) /\ c \in Commands /\ c.do = "subscribe" /\ c.ch = ch
      BY <2>4 DEF Subscribe, Commands
    <3> HIDE DEF c
    <3> QED
      BY <1>1, <2>1, <2>2, <3>1, AppendSettles DEF StreamInv
  <2> QED
    BY <2>3, <2>4
<1> QED
  BY <1>1, <1>3, <1>7, <1>8, <1>9 DEF StreamInv, CallbacksFollow

(* A client leaves.                                                        *)
LEMMA UnsubscribeStep ==
  ASSUME StreamInv, NEW client \in Clients, Unsubscribe(client)
  PROVE  StreamInv' /\ follows' = [follows EXCEPT ![client] = <<>>]
<1> DEFINE ch == follows[client]
           dropped == {k \in DOMAIN callbacks : k = ch /\ IsLast(k, client)}
<1>1. /\ ch # <<>> /\ follows' = [follows EXCEPT ![client] = <<>>] /\ UNCHANGED redis
      /\ callbacks' = [k \in DOMAIN callbacks \ dropped |->
                         IF k = ch THEN callbacks[k] \ {client} ELSE callbacks[k]]
      /\ commands' = IF dropped = {} THEN commands
                     ELSE Append(commands, [do |-> "unsubscribe", ch |-> ch])
  BY DEF Unsubscribe
<1>2. /\ follows \in [Clients -> Channels \cup {<<>>}]
      /\ \A k \in DOMAIN callbacks : callbacks[k] = {c \in Clients : follows[c] = k}
      /\ DOMAIN callbacks = {k \in Channels : \E c \in Clients : follows[c] = k}
  BY DEF StreamInv, CallbacksFollow
<1>3. ch \in Channels /\ ch \in DOMAIN callbacks /\ callbacks[ch] = {c \in Clients : follows[c] = ch}
  BY <1>1, <1>2
<1>4. /\ follows' \in [Clients -> Channels \cup {<<>>}]
      /\ \A c \in Clients : follows'[c] = IF c = client THEN <<>> ELSE follows[c]
  BY <1>1, <1>2
<1>5. dropped = IF callbacks[ch] = {client} THEN {ch} ELSE {}
  BY <1>3 DEF IsLast
<1> HIDE DEF ch, dropped
<1>c. client \in callbacks[ch] /\ callbacks[ch] \subseteq Clients
  BY <1>3 DEF ch
<1>6. \A k \in DOMAIN callbacks' : callbacks'[k] = {c \in Clients : follows'[c] = k}
  <2> TAKE k \in DOMAIN callbacks'
  <2>1. k \in Channels /\ k # <<>> /\ k \in DOMAIN callbacks
    BY <1>1, <1>2, NoEmptyChannel
  <2>2. callbacks'[k] = IF k = ch THEN callbacks[k] \ {client} ELSE callbacks[k]
    BY <1>1
  <2>3. {c \in Clients : follows'[c] = k} = {c \in Clients : follows[c] = k} \ {client}
    BY <1>4, <2>1
  <2>4. k # ch => client \notin {c \in Clients : follows[c] = k}
    BY DEF ch
  <2> QED
    BY <1>2, <2>1, <2>2, <2>3, <2>4
<1>7. DOMAIN callbacks' = {k \in Channels : \E c \in Clients : follows'[c] = k}
  <2>1. DOMAIN callbacks' = DOMAIN callbacks \ dropped
    BY <1>1
  <2>2. ASSUME NEW k \in Channels, k # ch
        PROVE  k \in DOMAIN callbacks' <=> \E c \in Clients : follows'[c] = k
    <3>1. \A c \in Clients : follows'[c] = k <=> follows[c] = k
      BY <1>4, <2>2, NoEmptyChannel DEF ch
    <3>2. k \notin dropped
      BY <1>5, <2>2
    <3> QED
      BY <1>2, <2>1, <3>1, <3>2
  <2>3. ch \in DOMAIN callbacks' <=> \E c \in Clients : follows'[c] = ch
    <3>1. CASE callbacks[ch] = {client}
      <4>1. \A c \in Clients : follows'[c] # ch
        BY <1>1, <1>3, <1>4, <3>1
      <4> QED
        BY <1>5, <2>1, <3>1, <4>1
    <3>2. CASE callbacks[ch] # {client}
      <4>1. PICK c \in callbacks[ch] : c # client
        BY <1>c, <3>2
      <4>2. c \in Clients /\ follows'[c] = ch
        BY <1>3, <1>4, <4>1
      <4> QED
        BY <1>3, <1>5, <2>1, <3>2, <4>2
    <3> QED
      BY <3>1, <3>2
  <2>4. DOMAIN callbacks' \subseteq Channels
    BY <1>2, <2>1
  <2> QED
    BY <2>2, <2>3, <2>4
<1>8. callbacks' = [k \in DOMAIN callbacks' |-> {c \in Clients : follows'[c] = k}]
  BY <1>1, <1>6
<1>9. CommandsSettle'
  <2>1. DOMAIN callbacks' = DOMAIN callbacks \ dropped
    BY <1>1
  <2>2. CASE dropped = {}
    BY <1>1, <2>1, <2>2, NothingToSettle DEF StreamInv
  <2>3. CASE dropped # {}
    <3> DEFINE c == [do |-> "unsubscribe", ch |-> ch]
    <3>1. commands' = Append(commands, c) /\ c \in Commands /\ c.do # "subscribe" /\ c.ch = ch
      BY <1>1, <1>3, <2>3 DEF Commands
    <3> HIDE DEF c
    <3>2. dropped = {ch}
      BY <1>5, <2>3
    <3> QED
      BY <1>1, <2>1, <3>1, <3>2, AppendSettles DEF StreamInv
  <2> QED
    BY <2>2, <2>3
<1> QED
  BY <1>1, <1>4, <1>7, <1>8, <1>9 DEF StreamInv, CallbacksFollow

(* Redis serves a command.                                                 *)
LEMMA ServeStep ==
  ASSUME StreamInv, RedisServes
  PROVE  StreamInv' /\ UNCHANGED follows
<1> DEFINE c == Head(commands)
<1>1. /\ commands # <<>> /\ commands' = Tail(commands) /\ UNCHANGED <<follows, callbacks>>
      /\ redis' = IF c.do = "subscribe" THEN redis \cup {c.ch} ELSE redis \ {c.ch}
  BY DEF RedisServes
<1>2. commands \in Seq(Commands) /\ redis \subseteq Channels
  BY DEF StreamInv, CommandsSettle
<1>3. /\ c \in Commands /\ c = commands[1] /\ commands' \in Seq(Commands)
      /\ Len(commands) \in Nat /\ Len(commands) >= 1 /\ Len(commands') = Len(commands) - 1
      /\ \A i \in 1 .. Len(commands') : commands'[i] = commands[i + 1]
  BY <1>1, <1>2
<1> HIDE DEF c
<1>4. redis' \subseteq Channels
  BY <1>1, <1>2, <1>3 DEF Commands
<1>5. ASSUME NEW ch \in Channels, NEW i \in 1 .. Len(commands'), LastAbout(i, ch)'
      PROVE  commands'[i].do = "subscribe" <=> ch \in DOMAIN callbacks'
  <2>1. i + 1 \in 1 .. Len(commands) /\ commands'[i] = commands[i + 1]
    BY <1>3
  <2>2. \A j \in (i + 1) + 1 .. Len(commands) : commands[j].ch # ch
    <3> TAKE j \in (i + 1) + 1 .. Len(commands)
    <3>1. j - 1 \in i + 1 .. Len(commands') /\ commands'[j - 1] = commands[j]
      BY <1>3
    <3> QED
      BY <1>5, <3>1 DEF LastAbout
  <2>3. LastAbout(i + 1, ch)
    BY <1>5, <2>1, <2>2 DEF LastAbout
  <2> QED
    BY <1>1, <2>1, <2>3 DEF StreamInv, CommandsSettle
<1>6. ASSUME NEW ch \in Channels, \A i \in 1 .. Len(commands') : commands'[i].ch # ch
      PROVE  ch \in redis' <=> ch \in DOMAIN callbacks'
  <2>1. \A j \in 2 .. Len(commands) : commands[j].ch # ch
    <3> TAKE j \in 2 .. Len(commands)
    <3>1. j - 1 \in 1 .. Len(commands') /\ commands'[j - 1] = commands[j]
      BY <1>3
    <3> QED
      BY <1>6, <3>1
  <2>2. CASE c.ch = ch
    <3>1. LastAbout(1, ch) /\ 1 \in 1 .. Len(commands)
      BY <1>3, <2>1, <2>2 DEF LastAbout
    <3>2. c.do = "subscribe" <=> ch \in DOMAIN callbacks
      BY <1>3, <3>1 DEF StreamInv, CommandsSettle
    <3> QED
      BY <1>1, <2>2, <3>2
  <2>3. CASE c.ch # ch
    <3>1. \A j \in 1 .. Len(commands) : commands[j].ch # ch
      BY <1>3, <2>1, <2>3
    <3>2. ch \in redis <=> ch \in DOMAIN callbacks
      BY <3>1 DEF StreamInv, CommandsSettle
    <3> QED
      BY <1>1, <2>3, <3>2
  <2> QED
    BY <2>2, <2>3
<1> QED
  BY <1>1, <1>3, <1>4, <1>5, <1>6 DEF StreamInv, CallbacksFollow, CommandsSettle

(* The process stops, or starts.                                           *)
LEMMA EmptyStream ==
  ASSUME follows' = [c \in Clients |-> <<>>], callbacks' = [ch \in {} |-> {}], commands' = <<>>, redis' = {}
  PROVE  StreamInv'
<1>1. follows' \in [Clients -> Channels \cup {<<>>}] /\ \A c \in Clients : follows'[c] = <<>>
  OBVIOUS
<1>2. DOMAIN callbacks' = {} /\ callbacks' = [ch \in DOMAIN callbacks' |-> {c \in Clients : follows'[c] = ch}]
  OBVIOUS
<1>3. {ch \in Channels : \E c \in Clients : follows'[c] = ch} = {}
  BY <1>1, NoEmptyChannel
<1>4. CommandsSettle'
  BY <1>2 DEF CommandsSettle
<1> QED
  BY <1>1, <1>2, <1>3, <1>4 DEF StreamInv, CallbacksFollow

(* The stream is left alone.                                               *)
LEMMA StreamStays ==
  ASSUME StreamInv, UNCHANGED <<follows, callbacks, commands, redis>>
  PROVE  StreamInv'
BY DEF StreamInv, CallbacksFollow, CommandsSettle, LastAbout

-----------------------------------------------------------------------------
(* Every step keeps the invariant.                                         *)
LEMMA InvariantStep == IInv /\ [Next]_vars => IInv'
<1> SUFFICES ASSUME IInv, [Next]_vars PROVE IInv'
  OBVIOUS
<1>i. StreamInv /\ PageInv /\ follows \in [Clients -> Channels \cup {<<>>}]
  BY DEF IInv, StreamInv, CallbacksFollow
<1>1. CASE \/ (\E s \in Sagas : Commit(s)) \/ PublishNext \/ Resend
           \/ ConnectFails \/ Connect \/ OnMessage \/ Heartbeat
           \/ (\E v \in BOOLEAN : SetPaused(v))
           \/ Flush \/ Render \/ Poll \/ HandleRefresh \/ Invalidate \/ Serve \/ Receive \/ Back
           \/ UNCHANGED vars
  <2>1. UNCHANGED <<page, follows, callbacks, commands, redis>> /\ (source # "open" \/ UNCHANGED source)
    BY <1>1 DEF Commit, PublishNext, Resend, Published, Publish, ConnectFails, OnError, CloseSource, Connect,
                OnMessage, Heartbeat, SetPaused, Flush, Render, Poll, HandleRefresh, Invalidate, Serve,
                Receive, Back, vars, stream, store
  <2> QED
    BY <1>i, <2>1, StreamStays DEF IInv, PageInv
<1>2. CASE RedisWorks
  BY <1>2, <1>i, ServeStep DEF RedisWorks, store, IInv, PageInv
<1>3. CASE OthersComeAndGo
  <2>1. PICK c \in Clients \ {Viewer} : Joins(c) \/ Unsubscribe(c)
    BY <1>3 DEF OthersComeAndGo
  <2>2. StreamInv' /\ follows'[Viewer] = follows[Viewer]
    <3>1. CASE Joins(c)
      <4>1. PICK s \in Sagas : \E ch \in ChannelsOf([saga |-> s]) : follows[c] = <<>> /\ Subscribe(c, ch)
        BY <3>1 DEF Joins
      <4>2. PICK ch \in ChannelsOf([saga |-> s]) : follows[c] = <<>> /\ Subscribe(c, ch)
        BY <4>1
      <4>3. ch \in Channels
        BY DEF Channels
      <4> QED
        BY <1>i, <2>1, <4>2, <4>3, SubscribeStep
    <3>2. CASE Unsubscribe(c)
      BY <1>i, <2>1, <3>2, UnsubscribeStep
    <3> QED
      BY <2>1, <3>1, <3>2
  <2>3. UNCHANGED <<page, source>>
    BY <1>3 DEF OthersComeAndGo, store
  <2> QED
    BY <1>i, <2>2, <2>3 DEF IInv, PageInv
<1>4. CASE OnOpen
  <2>1. source = "connecting" /\ Subscribe(Viewer, page) /\ source' = "open" /\ UNCHANGED page
    BY <1>4 DEF OnOpen
  <2>2. follows[Viewer] = <<>> /\ page \in Channels
    BY <1>i, <2>1 DEF PageInv
  <2> QED
    BY <1>i, <2>1, <2>2, SubscribeStep DEF IInv, PageInv
<1>5. CASE ConnectionLost
  <2>1. Unsubscribe(Viewer) /\ UNCHANGED page
    BY <1>5 DEF ConnectionLost
  <2> QED
    BY <1>i, <2>1, UnsubscribeStep DEF IInv, PageInv
<1>6. CASE Reconnect
  <2>1. /\ source' = "connecting" /\ UNCHANGED page
        /\ \/ source = "open" /\ Unsubscribe(Viewer)
           \/ source # "open" /\ UNCHANGED stream
    BY <1>6 DEF Reconnect
  <2>2. CASE source = "open" /\ Unsubscribe(Viewer)
    BY <1>i, <2>1, <2>2, UnsubscribeStep DEF IInv, PageInv
  <2>3. CASE source # "open" /\ UNCHANGED stream
    BY <1>i, <2>1, <2>3, StreamStays DEF IInv, PageInv, stream
  <2> QED
    BY <2>1, <2>2, <2>3
<1>7. CASE Outage
  <2>1. /\ follows' = [c \in Clients |-> <<>>] /\ callbacks' = [ch \in {} |-> {}]
        /\ commands' = <<>> /\ redis' = {} /\ UNCHANGED page
    BY <1>7 DEF Outage, StreamStops
  <2> QED
    BY <1>i, <2>1, EmptyStream DEF IInv, PageInv
<1> QED
  BY <1>1, <1>2, <1>3, <1>4, <1>5, <1>6, <1>7 DEF Next

(* The invariant holds at the start.                                       *)
LEMMA InvariantInit == Init => IInv
<1> SUFFICES ASSUME Init PROVE IInv
  OBVIOUS
<1>1. /\ follows = [c \in Clients |-> <<>>] /\ callbacks = [ch \in {} |-> {}]
      /\ commands = <<>> /\ redis = {}
  BY DEF Init, StreamInit
<1>2. page \in Channels
  BY DEF Init, Channels, ChannelsOf
<1>3. StreamInv
  <2>1. follows \in [Clients -> Channels \cup {<<>>}] /\ \A c \in Clients : follows[c] = <<>>
    BY <1>1
  <2>2. DOMAIN callbacks = {} /\ callbacks = [ch \in DOMAIN callbacks |-> {c \in Clients : follows[c] = ch}]
    BY <1>1
  <2>3. {ch \in Channels : \E c \in Clients : follows[c] = ch} = {}
    BY <2>1, NoEmptyChannel
  <2>4. CommandsSettle
    BY <1>1, <2>2 DEF CommandsSettle
  <2> QED
    BY <2>1, <2>2, <2>3, <2>4 DEF StreamInv, CallbacksFollow
<1> QED
  BY <1>1, <1>2, <1>3 DEF IInv, PageInv

(* Subscriptions are neither lost nor leaked, for any number of browsers   *)
(* that come and go and any number of commands on their way to Redis.      *)
THEOREM SubscriptionsAreShared == Spec => []SubscriptionsMatch
<1>1. IInv => SubscriptionsMatch
  <2> SUFFICES ASSUME IInv, commands = <<>>
               PROVE  redis = {follows[c] : c \in Clients} \ {<<>>}
    BY DEF SubscriptionsMatch
  <2>1. /\ \A ch \in Channels : ch \in redis <=> ch \in DOMAIN callbacks
        /\ redis \subseteq Channels
    BY DEF IInv, StreamInv, CommandsSettle
  <2>2. /\ DOMAIN callbacks = {ch \in Channels : \E c \in Clients : follows[c] = ch}
        /\ follows \in [Clients -> Channels \cup {<<>>}]
    BY DEF IInv, StreamInv, CallbacksFollow
  <2> QED
    BY <2>1, <2>2, NoEmptyChannel
<1> QED
  BY <1>1, InvariantInit, InvariantStep, PTL DEF Spec

-----------------------------------------------------------------------------
(* What the page shows (PageFollows).                                      *)

Updates  == [saga : Sagas, version : Nat]
Arriving == wire[Viewer]

PageTypes ==
  /\ page \in {All} \cup {<<"id", s>> : s \in Sagas}
  /\ db \in [Sagas -> Nat] /\ handed \in [Sagas -> Nat] /\ excused \subseteq Sagas
  /\ wire \in [Clients -> Seq(Updates)] /\ toPublish \in Seq(Updates) /\ seen \in Seq(Updates)
  /\ last \subseteq Updates /\ (\A m, n \in last : m = n)
  /\ flush \in BOOLEAN /\ asked \in BOOLEAN /\ paused \in BOOLEAN
  /\ follows[Viewer] = <<>> => Arriving = <<>>

(* The updates of a saga reach the page in the order of its events.        *)
Before(m, n) == m.saga = n.saga => m.version <= n.version
Rising(q)    == \A i, j \in DOMAIN q : i < j => Before(q[i], q[j])

OrderInv ==
  /\ Rising(Arriving) /\ Rising(toPublish)
  /\ \A m \in Range(Arriving) : \A n \in last \cup Range(toPublish) : Before(m, n)
  /\ \A m \in last : \A n \in Range(toPublish) : Before(m, n)
  /\ \A m \in Range(Arriving) \cup last \cup Range(toPublish) :
       handed[m.saga] <= m.version /\ m.version <= db[m.saga]
  /\ \A m \in Range(seen) : m.version <= db[m.saga]
  /\ \A s \in Sagas : handed[s] <= db[s]

(* An answer has every row of the page, none newer than the database; what *)
(* waits to be merged is what the stream handed to the page last.          *)
CacheInv ==
  /\ DOMAIN rows \subseteq Sagas /\ \A s \in DOMAIN rows : db[s] > 0
  /\ DOMAIN pending \subseteq Sagas /\ \A s \in DOMAIN pending : pending[s] = handed[s]
  /\ \A a, b \in answers : a = b
  /\ \A a \in answers :
       /\ DOMAIN a \subseteq Sagas /\ \A s \in DOMAIN a : a[s] \in Nat /\ a[s] <= db[s] /\ db[s] > 0
       /\ DOMAIN rows \subseteq DOMAIN a
       /\ ~IsTable => DOMAIN a = {page[2]}
  /\ IsTable /\ ~flush => DOMAIN pending = {}
  /\ ~IsTable => /\ DOMAIN rows \subseteq {page[2]} /\ DOMAIN pending = {} /\ newSeen = {}
                 /\ db[page[2]] > 0 /\ ~paused

(* The latest update of a saga: handed to the page, known to the store of  *)
(* the stream, or on its way.                                              *)
Latest(s) == [saga |-> s, version |-> db[s]]
Told(s)   == handed[s] = db[s]
Known(s)  == Told(s) \/ Latest(s) \in Range(seen)
Coming(s) == Latest(s) \in Range(toPublish) \cup Range(Arriving)

(* The row of a saga is that of the database, or will be: by what the      *)
(* table has to merge, by what the detail will ask or has asked.           *)
RowFollows(s) ==
  s \in DOMAIN rows =>
    \/ rows[s] = db[s]
    \/ IsTable /\ s \in DOMAIN pending /\ pending[s] = db[s]
    \/ ~IsTable /\ (flush \/ asked \/ \E a \in answers : s \in DOMAIN a /\ a[s] = db[s])

(* An answer on its way is that of the database, or overtaken: the saga is *)
(* excused when the answer arrives, or the detail asks again.              *)
AnswerHarmless(s, a) ==
  s \in DOMAIN a => a[s] = db[s] \/ (Told(s) /\ (IsTable \/ rows = Empty \/ flush))

Settled(s) == RowFollows(s) /\ \A a \in answers : AnswerHarmless(s, a)

NewsInv(s) == s \in excused \/ Settled(s) \/ (Coming(s) /\ ~Known(s))

(* What the table was told of is in it, or will be, or is counted; the     *)
(* detail has its saga, or has asked for it.                               *)
ShownInv ==
  IF IsTable
  THEN \A s \in Sagas : handed[s] > 0 =>
         \/ s \in DOMAIN rows \cup newSeen \cup DOMAIN pending
         \/ asked \/ \E a \in answers : s \in DOMAIN a
  ELSE page[2] \in DOMAIN rows \/ asked \/ answers # {}

LiveInv == PageTypes /\ OrderInv /\ CacheInv /\ (\A s \in Sagas : NewsInv(s)) /\ ShownInv

-----------------------------------------------------------------------------
(* The elements of a sequence after Append and Tail.                       *)
LEMMA RangeOfAppend ==
  ASSUME NEW S, NEW q \in Seq(S), NEW x \in S
  PROVE  Append(q, x) \in Seq(S) /\ Range(Append(q, x)) = Range(q) \cup {x}
<1> DEFINE r == Append(q, x)
<1>1. /\ r \in Seq(S) /\ Len(q) \in Nat /\ DOMAIN q = 1 .. Len(q) /\ DOMAIN r = 1 .. Len(q) + 1
      /\ r[Len(q) + 1] = x /\ \A i \in 1 .. Len(q) : r[i] = q[i]
  OBVIOUS
<1> HIDE DEF r
<1>2. Range(r) \subseteq Range(q) \cup {x}
  <2> SUFFICES ASSUME NEW y \in Range(r) PROVE y \in Range(q) \cup {x}
    OBVIOUS
  <2>1. PICK i \in 1 .. Len(q) + 1 : y = r[i]
    BY <1>1 DEF Range
  <2> QED
    BY <1>1, <2>1 DEF Range
<1>3. Range(q) \cup {x} \subseteq Range(r)
  BY <1>1 DEF Range
<1> QED
  BY <1>1, <1>2, <1>3 DEF r

(* What is taken from the front leaves the rest.                           *)
LEMMA RangeOfTail ==
  ASSUME NEW S, NEW q \in Seq(S), q # <<>>
  PROVE  /\ Head(q) \in S /\ Head(q) \in Range(q) /\ Tail(q) \in Seq(S)
         /\ Range(q) = {Head(q)} \cup Range(Tail(q))
<1> DEFINE r == Tail(q)
<1>1. /\ r \in Seq(S) /\ Len(q) \in Nat /\ Len(q) > 0 /\ DOMAIN q = 1 .. Len(q) /\ DOMAIN r = 1 .. Len(q) - 1
      /\ Head(q) = q[1] /\ \A i \in 1 .. Len(q) - 1 : r[i] = q[i + 1]
  OBVIOUS
<1> HIDE DEF r
<1>2. Range(r) \subseteq Range(q)
  BY <1>1 DEF Range
<1>3. Range(q) \subseteq {Head(q)} \cup Range(r)
  <2> SUFFICES ASSUME NEW y \in Range(q) PROVE y \in {Head(q)} \cup Range(r)
    OBVIOUS
  <2>1. PICK i \in 1 .. Len(q) : y = q[i]
    BY <1>1 DEF Range
  <2>2. CASE i # 1
    <3>1. i - 1 \in 1 .. Len(q) - 1 /\ q[i] = r[i - 1]
      BY <1>1, <2>2
    <3> QED
      BY <1>1, <2>1, <3>1 DEF Range
  <2> QED
    BY <1>1, <2>1, <2>2
<1>4. Head(q) \in Range(q) /\ Head(q) \in S
  BY <1>1 DEF Range
<1> QED
  BY <1>1, <1>2, <1>3, <1>4 DEF r

(* What a rising sequence is, and what is left of it, still rises.         *)
LEMMA RisingAppend ==
  ASSUME NEW S, NEW q \in Seq(S), NEW x \in S, Rising(q), \A m \in Range(q) : Before(m, x)
  PROVE  Rising(Append(q, x))
<1> DEFINE r == Append(q, x)
<1>1. /\ Len(q) \in Nat /\ DOMAIN q = 1 .. Len(q) /\ DOMAIN r = 1 .. Len(q) + 1
      /\ r[Len(q) + 1] = x /\ \A i \in 1 .. Len(q) : r[i] = q[i] /\ q[i] \in Range(q)
  BY DEF Range
<1> HIDE DEF r
<1>2. ASSUME NEW i \in DOMAIN r, NEW j \in DOMAIN r, i < j PROVE Before(r[i], r[j])
  <2>1. i \in 1 .. Len(q)
    BY <1>1, <1>2
  <2>2. CASE j = Len(q) + 1
    BY <1>1, <2>1, <2>2
  <2>3. CASE j \in 1 .. Len(q)
    BY <1>1, <1>2, <2>1, <2>3 DEF Rising
  <2> QED
    BY <1>1, <2>2, <2>3
<1> QED
  BY <1>2 DEF Rising, r

(* The rest of a rising sequence rises.                                    *)
LEMMA RisingTail ==
  ASSUME NEW S, NEW q \in Seq(S), q # <<>>, Rising(q)
  PROVE  Rising(Tail(q)) /\ \A m \in Range(Tail(q)) : Before(Head(q), m)
<1> DEFINE r == Tail(q)
<1>1. /\ Len(q) \in Nat /\ Len(q) > 0 /\ DOMAIN q = 1 .. Len(q) /\ DOMAIN r = 1 .. Len(q) - 1
      /\ Head(q) = q[1] /\ \A i \in 1 .. Len(q) - 1 : r[i] = q[i + 1]
  OBVIOUS
<1> HIDE DEF r
<1>2. \A i \in DOMAIN r : i + 1 \in DOMAIN q /\ r[i] = q[i + 1] /\ i + 1 > 1 /\ i \in Int
  BY <1>1
<1>3. 1 \in DOMAIN q
  BY <1>1
<1>4. Rising(r)
  BY <1>2 DEF Rising
<1>5. \A m \in Range(r) : Before(Head(q), m)
  BY <1>1, <1>2, <1>3 DEF Rising, Range
<1> QED
  BY <1>4, <1>5 DEF r

(* The empty sequence rises.                                               *)
LEMMA NothingRises == Rising(<<>>) /\ Range(<<>>) = {}
BY DEF Rising, Range


-----------------------------------------------------------------------------
(* Updates only leave: the order of the others stays.                      *)
LEMMA OrderStays ==
  ASSUME PageTypes, OrderInv, UNCHANGED <<db, handed, seen>>,
         Arriving' \in {Arriving, <<>>}, toPublish' \in {toPublish, <<>>}, last' \subseteq last
  PROVE  OrderInv'
<1>1. /\ Rising(Arriving') /\ Rising(toPublish')
      /\ Range(Arriving') \subseteq Range(Arriving) /\ Range(toPublish') \subseteq Range(toPublish)
  BY NothingRises DEF OrderInv
<1>2. /\ Rising(Arriving)' <=> Rising(Arriving')
      /\ Rising(toPublish)' <=> Rising(toPublish')
      /\ Range(Arriving)' = Range(Arriving') /\ Range(toPublish)' = Range(toPublish')
      /\ Range(seen)' = Range(seen)
  BY DEF Rising, Range, Before
<1> QED
  BY <1>1, <1>2 DEF OrderInv, Before

(* Nothing happens to a saga, or its latest update is lost.                *)
LEMMA NewsStays ==
  ASSUME NEW s \in Sagas, NewsInv(s),
         UNCHANGED <<page, rows, pending, flush, asked, answers, db, handed, seen>>,
         s \in excused => s \in excused', Coming(s) => Coming(s)' \/ s \in excused'
  PROVE  NewsInv(s)'
BY DEF NewsInv, Settled, RowFollows, AnswerHarmless, Known, Told, Latest, IsTable

(* A step that leaves the page and the cache alone keeps both up to date.  *)
LEMMA CacheStays ==
  ASSUME CacheInv, ShownInv, UNCHANGED <<page, rows, pending, flush, asked, answers, newSeen, db, handed>>,
         paused' = paused \/ IsTable
  PROVE  CacheInv' /\ ShownInv'
<1>1. IsTable' <=> IsTable
  BY DEF IsTable
<1>2. ~IsTable => paused' = paused
  OBVIOUS
<1>3. CacheInv'
  <2>1. ~IsTable => DOMAIN rows \subseteq {page[2]} /\ DOMAIN pending = {} /\ newSeen = {} /\ db[page[2]] > 0 /\ ~paused
    BY DEF CacheInv
  <2>2. ~IsTable' => /\ DOMAIN rows' \subseteq {page'[2]} /\ DOMAIN pending' = {} /\ newSeen' = {}
                     /\ db'[page'[2]] > 0 /\ ~paused'
    BY <1>1, <1>2, <2>1
  <2>3. \A a \in answers : ~IsTable => DOMAIN a = {page[2]}
    BY DEF CacheInv
  <2> QED
    BY <1>1, <2>2, <2>3 DEF CacheInv
<1>4. ShownInv'
  BY <1>1 DEF ShownInv
<1> QED
  BY <1>3, <1>4

(* Steps of the backend, of other browsers, of the connection of the page, *)
(* that bring the page nothing.                                            *)
LEMMA QuietStep ==
  ASSUME LiveInv,
         UNCHANGED <<page, rows, pending, flush, asked, answers, newSeen, db, handed, seen>>,
         paused' = paused \/ (IsTable /\ paused' \in BOOLEAN),
         wire' \in [Clients -> Seq(Updates)], Arriving' \in {Arriving, <<>>},
         follows'[Viewer] = <<>> => Arriving' = <<>>,
         toPublish' \in {toPublish, <<>>}, last' \subseteq last,
         excused \subseteq excused', excused' \subseteq Sagas,
         \A s \in Sagas : Coming(s) => Coming(s)' \/ s \in excused'
  PROVE  LiveInv'
<1>1. PageTypes /\ OrderInv /\ CacheInv /\ ShownInv /\ \A s \in Sagas : NewsInv(s)
  BY DEF LiveInv
<1>2. PageTypes'
  <2>1. toPublish' \in Seq(Updates)
    <3>1. toPublish \in Seq(Updates) /\ <<>> \in Seq(Updates)
      BY <1>1 DEF PageTypes
    <3> QED
      BY <3>1, Zenon
  <2>2. last' \subseteq Updates /\ \A m, n \in last' : m = n
    BY <1>1 DEF PageTypes
  <2>3. paused' \in BOOLEAN
    BY <1>1 DEF PageTypes
  <2>4. /\ page' \in {All} \cup {<<"id", s>> : s \in Sagas}
        /\ db' \in [Sagas -> Nat] /\ handed' \in [Sagas -> Nat] /\ seen' \in Seq(Updates)
        /\ flush' \in BOOLEAN /\ asked' \in BOOLEAN
    BY <1>1 DEF PageTypes
  <2> QED
    BY <2>1, <2>2, <2>3, <2>4 DEF PageTypes, Arriving
<1>3. OrderInv'
  BY <1>1, OrderStays
<1>4. CacheInv' /\ ShownInv'
  BY <1>1, CacheStays
<1>5. \A s \in Sagas : NewsInv(s)'
  BY <1>1, NewsStays
<1> QED
  BY <1>2, <1>3, <1>4, <1>5 DEF LiveInv

(* The updates on their way to the page, when its connection ends.         *)
LEMMA LostAreExcused ==
  ASSUME PageTypes, NEW s \in Sagas, Latest(s) \in Range(Arriving)
  PROVE  s \in Wired(Viewer)
<1>1. PICK i \in DOMAIN wire[Viewer] : wire[Viewer][i] = Latest(s)
  BY DEF Range, Arriving
<1> QED
  BY <1>1 DEF Wired, Latest

(* What is on its way to a browser is about a saga.                        *)
LEMMA WiredAreSagas ==
  ASSUME PageTypes
  PROVE  Wired(Viewer) \subseteq Sagas
<1>1. wire[Viewer] \in Seq(Updates)
  BY DEF PageTypes
<1>2. \A i \in DOMAIN wire[Viewer] : wire[Viewer][i] \in Updates
  BY <1>1
<1> QED
  BY <1>2 DEF Wired, Updates

(* A client without a connection hears nothing.                            *)
LEMMA DeafWithoutConnection ==
  ASSUME StreamInv, follows[Viewer] = <<>>, NEW m
  PROVE  ~Reaches(Viewer, m)
<1> SUFFICES ASSUME NEW ch \in ChannelsOf(m), Viewer \in Listeners(ch) PROVE FALSE
  BY DEF Reaches
<1>1. ch \in DOMAIN callbacks /\ Viewer \in callbacks[ch]
  BY DEF Listeners
<1>2. callbacks[ch] = {c \in Clients : follows[c] = ch}
  BY <1>1 DEF StreamInv, CallbacksFollow
<1>3. ch # <<>>
  BY DEF ChannelsOf
<1> QED
  BY <1>1, <1>2, <1>3

-----------------------------------------------------------------------------
(* The quiet steps.                                                        *)
Quiet ==
  \/ RedisWorks \/ OthersComeAndGo \/ OnOpen \/ ConnectFails \/ ConnectionLost \/ Connect \/ Reconnect
  \/ (\E v \in BOOLEAN : SetPaused(v)) \/ Render \/ Outage \/ Back \/ UNCHANGED vars

(* A step of Quiet keeps LiveInv: what it loses it excuses.                *)
LEMMA QuietKeeps ==
  ASSUME IInv, LiveInv, Quiet
  PROVE  LiveInv'
<1>1. /\ PageTypes /\ wire \in [Clients -> Seq(Updates)] /\ excused \subseteq Sagas /\ paused \in BOOLEAN
      /\ follows \in [Clients -> Channels \cup {<<>>}]
  BY DEF LiveInv, PageTypes, IInv, StreamInv, CallbacksFollow
<1>2. UNCHANGED <<page, rows, pending, flush, asked, answers, newSeen, db, handed, seen>>
  BY DEF Quiet, RedisWorks, OthersComeAndGo, OnOpen, ConnectFails, ConnectionLost, Connect, Reconnect, SetPaused,
         Render, Outage, Back, vars, store, cache, data
<1>3. paused' = paused \/ (IsTable /\ paused' \in BOOLEAN)
  BY DEF Quiet, RedisWorks, OthersComeAndGo, OnOpen, ConnectFails, ConnectionLost, Connect, Reconnect, SetPaused,
         Render, Outage, Back, vars, store
<1>4. CASE \/ RedisWorks \/ ConnectFails \/ Connect \/ (\E v \in BOOLEAN : SetPaused(v)) \/ Render \/ Back
           \/ UNCHANGED vars
  <2>1. UNCHANGED <<wire, follows, toPublish, last, excused>>
    BY <1>4 DEF RedisWorks, RedisServes, ConnectFails, Connect, SetPaused, Render, Back, vars, stream, data
  <2>2. \A s \in Sagas : Coming(s) => Coming(s)'
    BY <1>2, <2>1 DEF Coming, Latest, Arriving, Range
  <2> QED
    BY <1>1, <1>2, <1>3, <2>1, <2>2, QuietStep DEF PageTypes, Arriving
<1>5. CASE OthersComeAndGo
  <2>1. PICK c \in Clients \ {Viewer} : Joins(c) \/ Unsubscribe(c)
    BY <1>5 DEF OthersComeAndGo
  <2>2. wire' = [wire EXCEPT ![c] = <<>>] /\ \E ch : follows' = [follows EXCEPT ![c] = ch]
    BY <2>1 DEF Joins, Subscribe, Unsubscribe
  <2>3. wire' \in [Clients -> Seq(Updates)] /\ wire'[Viewer] = wire[Viewer] /\ follows'[Viewer] = follows[Viewer]
    BY <1>1, <2>1, <2>2
  <2>4. UNCHANGED <<toPublish, last, excused>>
    BY <1>5 DEF OthersComeAndGo, data
  <2>5. \A s \in Sagas : Coming(s) => Coming(s)'
    BY <1>2, <2>3, <2>4 DEF Coming, Latest, Arriving, Range
  <2> QED
    BY <1>1, <1>2, <1>3, <2>3, <2>4, <2>5, QuietStep DEF PageTypes, Arriving
<1>6. CASE OnOpen \/ ConnectionLost \/ Reconnect
  <2>1. CASE Reconnect /\ UNCHANGED <<stream, excused>>
    <3>1. UNCHANGED <<wire, follows, toPublish, last, excused>>
      BY <2>1 DEF Reconnect, stream, data
    <3>2. \A s \in Sagas : Coming(s) => Coming(s)'
      BY <1>2, <3>1 DEF Coming, Latest, Arriving, Range
    <3> QED
      BY <1>1, <1>2, <1>3, <3>1, <3>2, QuietStep DEF PageTypes, Arriving
  <2>2. CASE OnOpen
    <3>1. wire' = [wire EXCEPT ![Viewer] = <<>>] /\ UNCHANGED <<toPublish, last, excused>> /\ source # "open"
      BY <2>2 DEF OnOpen, Subscribe, data
    <3>2. Arriving = <<>>
      BY <1>1, <3>1 DEF PageTypes, IInv, PageInv
    <3>3. wire' \in [Clients -> Seq(Updates)] /\ wire'[Viewer] = <<>>
      BY <1>1, <3>1
    <3>4. \A s \in Sagas : Coming(s) => Coming(s)'
      BY <1>2, <3>1, <3>2, <3>3 DEF Coming, Latest, Arriving, Range
    <3> QED
      BY <1>1, <1>2, <1>3, <3>1, <3>3, <3>4, QuietStep DEF Arriving
  <2>3. CASE (ConnectionLost \/ Reconnect) /\ Unsubscribe(Viewer) /\ excused' = excused \cup Wired(Viewer)
    <3>1. wire' = [wire EXCEPT ![Viewer] = <<>>] /\ UNCHANGED <<toPublish, last>>
      BY <2>3 DEF Unsubscribe, ConnectionLost, Reconnect, data
    <3>2. wire' \in [Clients -> Seq(Updates)] /\ wire'[Viewer] = <<>>
      BY <1>1, <3>1
    <3>3. \A s \in Sagas : Coming(s) => Coming(s)' \/ s \in excused'
      BY <1>1, <1>2, <2>3, <3>1, LostAreExcused DEF Coming, Latest, Range
    <3> QED
      BY <1>1, <1>2, <1>3, <2>3, <3>1, <3>2, <3>3, QuietStep, WiredAreSagas DEF Arriving
  <2> QED
    BY <1>6, <2>1, <2>2, <2>3 DEF ConnectionLost, Reconnect
<1>7. CASE Outage
  <2>1. /\ wire' = [c \in Clients |-> <<>>] /\ toPublish' = <<>> /\ last' = {}
        /\ excused' = excused \cup Wired(Viewer) \cup {toPublish[i].saga : i \in DOMAIN toPublish}
    BY <1>7 DEF Outage, StreamStops
  <2>2. wire' \in [Clients -> Seq(Updates)] /\ wire'[Viewer] = <<>>
    BY <2>1
  <2>3. ASSUME NEW s \in Sagas, Coming(s) PROVE s \in excused'
    <3>1. CASE Latest(s) \in Range(toPublish)
      <4>1. PICK i \in DOMAIN toPublish : toPublish[i] = Latest(s)
        BY <3>1 DEF Range
      <4> QED
        BY <2>1, <4>1 DEF Latest
    <3>2. CASE Latest(s) \in Range(Arriving)
      BY <1>1, <2>1, <3>2, LostAreExcused
    <3> QED
      BY <2>3, <3>1, <3>2 DEF Coming
  <2>4. {toPublish[i].saga : i \in DOMAIN toPublish} \subseteq Sagas
    <3>1. toPublish \in Seq(Updates)
      BY <1>1 DEF PageTypes
    <3>2. \A i \in DOMAIN toPublish : toPublish[i] \in Updates
      BY <3>1
    <3> QED
      BY <3>2 DEF Updates
  <2> QED
    BY <1>1, <1>2, <1>3, <2>1, <2>2, <2>3, <2>4, QuietStep, WiredAreSagas DEF Arriving
<1> QED
  BY <1>4, <1>5, <1>6, <1>7 DEF Quiet

-----------------------------------------------------------------------------
(* The projector commits an event: its update waits behind the others.     *)
LEMMA CommitKeeps ==
  ASSUME LiveInv, NEW saga \in Sagas, Commit(saga)
  PROVE  LiveInv'
<1> DEFINE m == [saga |-> saga, version |-> db[saga] + 1]
<1>1. PageTypes /\ OrderInv /\ CacheInv /\ ShownInv /\ \A s \in Sagas : NewsInv(s)
  BY DEF LiveInv
<1>2. /\ db \in [Sagas -> Nat] /\ handed \in [Sagas -> Nat] /\ toPublish \in Seq(Updates)
      /\ Arriving \in Seq(Updates) /\ seen \in Seq(Updates) /\ last \subseteq Updates
  BY <1>1 DEF PageTypes, Arriving
<1>3. /\ db' = [db EXCEPT ![saga] = @ + 1] /\ toPublish' = Append(toPublish, [saga |-> saga, version |-> db'[saga]])
      /\ UNCHANGED <<page, follows, wire, last, paused, seen, rows, pending, flush, newSeen, asked, answers,
                     handed, excused>>
  BY DEF Commit, stream, store, cache
<1>4. /\ db' \in [Sagas -> Nat] /\ m \in Updates
      /\ \A s \in Sagas : db'[s] = IF s = saga THEN db[s] + 1 ELSE db[s]
  BY <1>2, <1>3 DEF Updates
<1>5. toPublish' = Append(toPublish, m)
  BY <1>2, <1>3, <1>4
<1>6. toPublish' \in Seq(Updates) /\ Range(toPublish') = Range(toPublish) \cup {m}
  BY <1>2, <1>4, <1>5, RangeOfAppend
<1>7. \A q \in Seq(Updates) : \A n \in Range(q) : n \in Updates
  BY DEF Range
<1>8. /\ \A n \in Range(Arriving) \cup last \cup Range(toPublish) \cup Range(seen) :
           n \in Updates /\ n.version <= db[n.saga]
      /\ \A s \in Sagas : handed[s] <= db[s]
  BY <1>1, <1>2, <1>7 DEF OrderInv
<1>9. \A n \in Range(Arriving) \cup last \cup Range(toPublish) : Before(n, m)
  BY <1>2, <1>8 DEF Before, Updates
<1> HIDE DEF m
<1>10. PageTypes'
  BY <1>1, <1>3, <1>4, <1>6 DEF PageTypes, Arriving
<1>11. OrderInv'
  <2>1. Rising(toPublish')
    BY <1>1, <1>2, <1>4, <1>5, <1>9, RisingAppend DEF OrderInv
  <2>2. /\ Rising(Arriving)' <=> Rising(Arriving)
        /\ Rising(toPublish)' <=> Rising(toPublish')
        /\ Range(Arriving)' = Range(Arriving) /\ Range(toPublish)' = Range(toPublish')
        /\ Range(seen)' = Range(seen)
    BY <1>3 DEF Rising, Range, Before, Arriving
  <2>3. handed'[m.saga] <= m.version /\ m.version <= db'[m.saga]
    BY <1>2, <1>3, <1>4, <1>8 DEF m
  <2>4. \A n \in Updates : n.version <= db[n.saga] => n.version <= db'[n.saga]
    <3> SUFFICES ASSUME NEW n \in Updates, n.version <= db[n.saga] PROVE n.version <= db'[n.saga]
      OBVIOUS
    <3>1. n.saga \in Sagas /\ n.version \in Nat
      BY DEF Updates
    <3>2. \A s \in Sagas : db[s] \in Nat /\ db'[s] \in Nat /\ db[s] <= db'[s]
      <4> SUFFICES ASSUME NEW s \in Sagas PROVE db[s] \in Nat /\ db'[s] \in Nat /\ db[s] <= db'[s]
        OBVIOUS
      <4>1. db[s] \in Nat
        BY <1>2
      <4>2. db'[s] = db[s] + 1 \/ db'[s] = db[s]
        BY <1>4
      <4> QED
        BY <4>1, <4>2
    <3>3. db[n.saga] \in Nat /\ db'[n.saga] \in Nat /\ db[n.saga] <= db'[n.saga]
      BY <3>1, <3>2, Zenon
    <3> QED
      BY <3>1, <3>3
  <2>5. \A s \in Sagas : handed'[s] <= db'[s]
    BY <1>2, <1>3, <1>4, <1>8
  <2>6. \A n \in Range(seen)' : n.version <= db'[n.saga]
    BY <1>8, <2>2, <2>4
  <2>7. \A n \in Range(Arriving)' \cup last' \cup Range(toPublish)' :
          handed'[n.saga] <= n.version /\ n.version <= db'[n.saga]
    BY <1>1, <1>3, <1>6, <1>8, <2>2, <2>3, <2>4 DEF OrderInv
  <2>8. /\ \A n \in Range(Arriving)' : \A k \in last' \cup Range(toPublish)' : Before(n, k)'
        /\ \A n \in last' : \A k \in Range(toPublish)' : Before(n, k)'
    BY <1>1, <1>3, <1>6, <1>9, <2>2 DEF OrderInv, Before
  <2> QED
    BY <1>1, <2>1, <2>2, <2>5, <2>6, <2>7, <2>8 DEF OrderInv
<1>12. CacheInv' /\ ShownInv'
  <2>1. CacheInv'
    <3>1. \A s \in DOMAIN rows' : db'[s] > 0
      BY <1>1, <1>2, <1>3, <1>4 DEF CacheInv
    <3>2. \A a \in answers' : \A s \in DOMAIN a : a[s] \in Nat /\ a[s] <= db'[s] /\ db'[s] > 0
      BY <1>1, <1>2, <1>3, <1>4 DEF CacheInv
    <3>3. ~IsTable => db'[page[2]] > 0
      BY <1>1, <1>2, <1>3, <1>4 DEF CacheInv, PageTypes, IsTable
    <3> QED
      BY <1>1, <1>3, <3>1, <3>2, <3>3 DEF CacheInv, IsTable
  <2>2. ShownInv'
    BY <1>1, <1>3 DEF ShownInv, IsTable
  <2> QED
    BY <2>1, <2>2
<1>13. ASSUME NEW s \in Sagas PROVE NewsInv(s)'
  <2>1. CASE s = saga
    <3>1. Latest(s)' = m
      BY <1>4, <2>1 DEF Latest, m
    <3>2. Coming(s)'
      BY <1>6, <3>1 DEF Coming, Range
    <3>3. ~Told(s)'
      BY <1>2, <1>3, <1>4, <1>8, <2>1 DEF Told
    <3>4. Latest(s)' \notin Range(seen)'
      <4>1. Range(seen)' = Range(seen) /\ m.saga = saga /\ m.version = db[saga] + 1
        BY <1>3 DEF Range, m
      <4>2. ~(m.version <= db[m.saga])
        BY <1>2, <4>1
      <4> QED
        BY <1>8, <3>1, <4>1, <4>2
    <3> QED
      BY <3>2, <3>3, <3>4 DEF NewsInv, Known
  <2>2. CASE s # saga
    <3>1. db'[s] = db[s] /\ NewsInv(s)
      BY <1>1, <1>4, <2>2
    <3>2. Latest(s)' = Latest(s)
      BY <3>1 DEF Latest
    <3>3. Coming(s) => Coming(s)'
      BY <1>3, <1>6, <3>2 DEF Coming, Range, Arriving
    <3>4. Known(s)' <=> Known(s)
      BY <1>3, <3>1, <3>2 DEF Known, Told, Range
    <3>5. Settled(s) => Settled(s)'
      BY <1>3, <3>1 DEF Settled, RowFollows, AnswerHarmless, Told, IsTable
    <3> QED
      BY <1>3, <3>1, <3>3, <3>4, <3>5 DEF NewsInv
  <2> QED
    BY <2>1, <2>2
<1> QED
  BY <1>10, <1>11, <1>12, <1>13 DEF LiveInv

(* An update is published, for the first time or again: it is the latest   *)
(* publication.                                                            *)
LEMMA PublishedKeeps ==
  ASSUME IInv, LiveInv, NEW m \in Updates, Published(m),
         UNCHANGED <<page, db, handed, paused, seen, rows, pending, flush, newSeen, asked, answers>>,
         toPublish' \in Seq(Updates), Range(toPublish') \subseteq Range(toPublish), Rising(toPublish'),
         \A n \in Range(toPublish') : Before(m, n),
         \A n \in Range(Arriving) : Before(n, m),
         handed[m.saga] <= m.version, m.version <= db[m.saga],
         \A s \in Sagas : Latest(s) \in Range(toPublish) => Latest(s) \in Range(toPublish') \/ Latest(s) = m
  PROVE  LiveInv'
<1>1. PageTypes /\ OrderInv /\ CacheInv /\ ShownInv /\ \A s \in Sagas : NewsInv(s)
  BY DEF LiveInv
<1>2. /\ db \in [Sagas -> Nat] /\ handed \in [Sagas -> Nat]
      /\ wire \in [Clients -> Seq(Updates)] /\ Arriving \in Seq(Updates) /\ m.saga \in Sagas
  BY <1>1 DEF PageTypes, Arriving, Updates
<1>3. /\ wire' = [c \in Clients |-> IF Reaches(c, m) THEN Append(wire[c], m) ELSE wire[c]]
      /\ last' = {m} /\ excused' = excused \cup Missed(m) /\ UNCHANGED follows
  BY DEF Published, Publish
<1>4. wire' \in [Clients -> Seq(Updates)]
  <2>1. \A c \in Clients : (IF Reaches(c, m) THEN Append(wire[c], m) ELSE wire[c]) \in Seq(Updates)
    BY <1>2
  <2> QED
    BY <1>3, <2>1
<1>5. Arriving' = IF Reaches(Viewer, m) THEN Append(Arriving, m) ELSE Arriving
  BY <1>3 DEF Arriving
<1>6. Range(Arriving') = IF Reaches(Viewer, m) THEN Range(Arriving) \cup {m} ELSE Range(Arriving)
  <2>1. Append(Arriving, m) \in Seq(Updates) /\ Range(Append(Arriving, m)) = Range(Arriving) \cup {m}
    BY <1>2, RangeOfAppend
  <2> QED
    BY <1>5, <2>1
<1>7. PageTypes'
  <2>1. follows'[Viewer] = <<>> => Arriving' = <<>>
    BY <1>1, <1>3, <1>5, DeafWithoutConnection DEF IInv, PageTypes
  <2>2. excused' \subseteq Sagas
    BY <1>1, <1>2, <1>3 DEF Missed, PageTypes
  <2> QED
    BY <1>1, <1>3, <1>4, <2>1, <2>2 DEF PageTypes
<1>8. OrderInv'
  <2>1. Rising(Arriving')
    BY <1>1, <1>2, <1>5, RisingAppend DEF OrderInv
  <2>2. /\ Rising(Arriving)' <=> Rising(Arriving')
        /\ Rising(toPublish)' <=> Rising(toPublish')
        /\ Range(Arriving)' = Range(Arriving') /\ Range(toPublish)' = Range(toPublish')
        /\ Range(seen)' = Range(seen)
    BY DEF Rising, Range, Before
  <2>3. Before(m, m)
    BY DEF Before, Updates
  <2>4. /\ \A n \in Range(Arriving)' : \A k \in last' \cup Range(toPublish)' : Before(n, k)'
        /\ \A n \in last' : \A k \in Range(toPublish)' : Before(n, k)'
    BY <1>1, <1>3, <1>6, <2>2, <2>3 DEF OrderInv, Before
  <2>5. \A n \in Range(Arriving)' \cup last' \cup Range(toPublish)' :
          handed'[n.saga] <= n.version /\ n.version <= db'[n.saga]
    BY <1>1, <1>3, <1>6, <2>2 DEF OrderInv
  <2> QED
    BY <1>1, <2>1, <2>2, <2>4, <2>5 DEF OrderInv
<1>9. CacheInv' /\ ShownInv'
  BY <1>1, CacheStays
<1>10. ASSUME NEW s \in Sagas PROVE NewsInv(s)'
  <2>1. Latest(s)' = Latest(s) /\ Range(Arriving)' = Range(Arriving') /\ Range(toPublish)' = Range(toPublish')
    BY DEF Latest, Range
  <2>2. s \in excused => s \in excused'
    BY <1>3
  <2>3. Coming(s) => Coming(s)' \/ s \in excused'
    <3>1. CASE Latest(s) = m
      BY <1>3, <1>6, <2>1, <3>1 DEF Coming, Missed, Latest
    <3>2. CASE Latest(s) # m
      BY <1>6, <2>1, <3>2 DEF Coming
    <3> QED
      BY <3>1, <3>2
  <2> QED
    BY <1>1, <2>2, <2>3, NewsStays
<1> QED
  BY <1>7, <1>8, <1>9, <1>10 DEF LiveInv

(* A publication keeps LiveInv, the first one or one sent again.           *)
LEMMA PublishingKeeps ==
  ASSUME IInv, LiveInv, PublishNext \/ Resend
  PROVE  LiveInv'
<1>1. /\ toPublish \in Seq(Updates) /\ last \subseteq Updates /\ OrderInv
      /\ \A m, n \in last : m = n
  BY DEF LiveInv, PageTypes
<1>2. UNCHANGED <<page, db, handed, paused, seen, rows, pending, flush, newSeen, asked, answers>>
  BY DEF PublishNext, Resend, store, cache
<1>3. CASE PublishNext
  <2> DEFINE m == Head(toPublish)
  <2>1. toPublish # <<>> /\ toPublish' = Tail(toPublish) /\ Published(m)
    BY <1>3 DEF PublishNext
  <2>2. /\ m \in Updates /\ m \in Range(toPublish) /\ toPublish' \in Seq(Updates)
        /\ Range(toPublish) = {m} \cup Range(toPublish')
    BY <1>1, <2>1, RangeOfTail
  <2>3. Rising(toPublish') /\ \A n \in Range(toPublish') : Before(m, n)
    BY <1>1, <2>1, RisingTail DEF OrderInv
  <2> HIDE DEF m
  <2>4. /\ \A n \in Range(Arriving) : Before(n, m)
        /\ handed[m.saga] <= m.version /\ m.version <= db[m.saga]
    BY <1>1, <2>2 DEF OrderInv
  <2>5. \A s \in Sagas : Latest(s) \in Range(toPublish) => Latest(s) \in Range(toPublish') \/ Latest(s) = m
    BY <2>2
  <2> QED
    BY <1>2, <2>1, <2>2, <2>3, <2>4, <2>5, PublishedKeeps
<1>4. CASE Resend
  <2>1. PICK m \in last : Published(m)
    BY <1>4 DEF Resend
  <2>2. UNCHANGED toPublish /\ m \in Updates
    BY <1>1, <1>4 DEF Resend
  <2>3. /\ \A n \in Range(toPublish') : Before(m, n)
        /\ \A n \in Range(Arriving) : Before(n, m)
        /\ handed[m.saga] <= m.version /\ m.version <= db[m.saga]
    BY <1>1, <2>2 DEF OrderInv
  <2>4. Rising(toPublish')
    BY <1>1, <2>2 DEF OrderInv
  <2> QED
    BY <1>1, <1>2, <2>1, <2>2, <2>3, <2>4, PublishedKeeps
<1> QED
  BY <1>3, <1>4

-----------------------------------------------------------------------------
(* A message enters the window of seen ones.                               *)
LEMMA WindowOf ==
  ASSUME seen \in Seq(Updates), NEW m \in Updates
  PROVE  Window(m) \in Seq(Updates) /\ Range(Window(m)) \subseteq Range(seen) \cup {m}
<1>1. CASE Len(seen) = MaxSeen
  <2> DEFINE t == Tail(seen)
  <2>1. seen # <<>>
    BY <1>1, BoundsAssumption
  <2>2. t \in Seq(Updates) /\ Range(seen) = {Head(seen)} \cup Range(t)
    BY <2>1, RangeOfTail
  <2>3. Window(m) = Append(t, m)
    BY <1>1 DEF Window
  <2> HIDE DEF t
  <2>4. Append(t, m) \in Seq(Updates) /\ Range(Append(t, m)) = Range(t) \cup {m}
    BY <2>2, RangeOfAppend
  <2> QED
    BY <2>2, <2>3, <2>4
<1>2. CASE Len(seen) # MaxSeen
  BY <1>2, RangeOfAppend DEF Window
<1> QED
  BY <1>1, <1>2

(* The window may change, and an earlier message than the latest arrive.   *)
LEMMA OnMessageKeeps ==
  ASSUME LiveInv, OnMessage
  PROVE  LiveInv'
<1> DEFINE m == Head(wire[Viewer])
<1>1. PageTypes /\ OrderInv /\ CacheInv /\ ShownInv /\ \A s \in Sagas : NewsInv(s)
  BY DEF LiveInv
<1>2. /\ db \in [Sagas -> Nat] /\ handed \in [Sagas -> Nat] /\ excused \subseteq Sagas
      /\ wire \in [Clients -> Seq(Updates)] /\ Arriving \in Seq(Updates) /\ seen \in Seq(Updates)
  BY <1>1 DEF PageTypes, Arriving
<1>3. /\ Arriving # <<>> /\ wire' = [wire EXCEPT ![Viewer] = Tail(@)]
      /\ UNCHANGED <<page, follows, db, toPublish, last, paused, rows, newSeen, asked, answers>>
      /\ \/ m \in Range(seen) /\ UNCHANGED <<seen, pending, flush, handed, excused>>
         \/ /\ m \notin Range(seen) /\ seen' = Window(m) /\ paused
            /\ excused' = excused \cup {m.saga} /\ UNCHANGED <<pending, flush, handed>>
         \/ /\ m \notin Range(seen) /\ seen' = Window(m) /\ ~paused
            /\ pending' = IF IsTable THEN Pend(m) ELSE pending
            /\ flush' = TRUE
            /\ handed' = [handed EXCEPT ![m.saga] = m.version]
            /\ excused' = IF m.version = db[m.saga] THEN excused \ {m.saga} ELSE excused
  BY DEF OnMessage, data, Arriving
<1>4. wire' \in [Clients -> Seq(Updates)] /\ Arriving' = Tail(Arriving)
  <2>1. Tail(Arriving) \in Seq(Updates)
    BY <1>2, <1>3
  <2> QED
    BY <1>2, <1>3, <2>1 DEF Arriving
<1>5. /\ m \in Updates /\ m \in Range(Arriving) /\ Range(Arriving) = {m} \cup Range(Arriving')
      /\ Rising(Arriving') /\ \A n \in Range(Arriving') : Before(m, n)
  BY <1>1, <1>2, <1>3, <1>4, RangeOfTail, RisingTail DEF OrderInv, Arriving
<1> HIDE DEF m
<1>6. m.saga \in Sagas /\ m.version \in Nat /\ handed[m.saga] <= m.version /\ m.version <= db[m.saga]
  BY <1>1, <1>5 DEF Updates, OrderInv
<1>7. seen' \in Seq(Updates) /\ Range(seen') \subseteq Range(seen) \cup {m}
  BY <1>2, <1>3, <1>5, WindowOf
<1>8. /\ handed' \in [Sagas -> Nat] /\ \A s \in Sagas : s # m.saga => handed'[s] = handed[s]
      /\ handed'[m.saga] <= m.version
  <2>1. CASE handed' = handed
    BY <1>2, <1>6, <2>1
  <2>2. CASE handed' = [handed EXCEPT ![m.saga] = m.version]
    BY <1>2, <1>6, <2>2
  <2> QED
    BY <1>3, <2>1, <2>2
<1>9. PageTypes'
  BY <1>1, <1>2, <1>3, <1>4, <1>6, <1>7, <1>8 DEF PageTypes
<1>10. OrderInv'
  <2>1. /\ Rising(Arriving)' <=> Rising(Arriving')
        /\ Rising(toPublish)' <=> Rising(toPublish)
        /\ Range(Arriving)' = Range(Arriving') /\ Range(toPublish)' = Range(toPublish)
        /\ Range(seen)' = Range(seen')
    BY <1>3 DEF Rising, Range, Before
  <2>2. /\ \A n \in Range(Arriving)' : \A k \in last' \cup Range(toPublish)' : Before(n, k)'
        /\ \A n \in last' : \A k \in Range(toPublish)' : Before(n, k)'
    BY <1>1, <1>3, <1>5, <2>1 DEF OrderInv, Before
  <2>3. ASSUME NEW n \in Range(Arriving)' \cup last' \cup Range(toPublish)'
        PROVE  handed'[n.saga] <= n.version /\ n.version <= db'[n.saga]
    <3>1. n \in Range(Arriving') \cup last \cup Range(toPublish)
      BY <1>3, <2>1
    <3>2. n \in Updates
      <4>1. \A q \in Seq(Updates) : Range(q) \subseteq Updates
        BY DEF Range
      <4> QED
        BY <1>1, <1>2, <1>5, <3>1, <4>1 DEF PageTypes
    <3>3. handed[n.saga] <= n.version /\ n.version <= db'[n.saga]
      BY <1>1, <1>3, <1>5, <3>1 DEF OrderInv
    <3>4. Before(m, n)
      BY <1>1, <1>5, <3>1 DEF OrderInv
    <3>5. n.saga \in Sagas /\ n.version \in Nat
      BY <3>2 DEF Updates
    <3>6. CASE n.saga = m.saga
      BY <1>2, <1>6, <1>8, <3>3, <3>4, <3>5, <3>6 DEF Before
    <3>7. CASE n.saga # m.saga
      BY <1>8, <3>3, <3>5, <3>7
    <3> QED
      BY <3>6, <3>7
  <2>4. \A n \in Range(seen)' : n.version <= db'[n.saga]
    BY <1>1, <1>3, <1>6, <1>7, <2>1 DEF OrderInv
  <2>5. \A s \in Sagas : handed'[s] <= db'[s]
    BY <1>1, <1>2, <1>3, <1>6, <1>8 DEF OrderInv
  <2> QED
    BY <1>1, <1>5, <2>1, <2>2, <2>3, <2>4, <2>5 DEF OrderInv
<1>11. /\ DOMAIN pending' \subseteq Sagas /\ DOMAIN pending \subseteq DOMAIN pending'
       /\ \A s \in DOMAIN pending' : pending'[s] = handed'[s]
       /\ (~IsTable => DOMAIN pending' = {})
       /\ (IsTable /\ ~flush' => DOMAIN pending' = {})
       /\ (~flush' => ~flush)
  <2>1. CASE UNCHANGED <<pending, flush, handed>>
    BY <1>1, <2>1 DEF CacheInv
  <2>2. CASE ~paused /\ ~UNCHANGED <<pending, flush, handed>>
    <3>1. flush' = TRUE /\ handed'[m.saga] = m.version /\ pending' = IF IsTable THEN Pend(m) ELSE pending
      BY <1>2, <1>3, <1>6, <2>2
    <3>2. CASE IsTable
      <4>1. /\ DOMAIN pending' = DOMAIN pending \cup {m.saga}
            /\ \A s \in DOMAIN pending' : pending'[s] = IF s = m.saga THEN m.version ELSE pending[s]
        BY <3>1, <3>2 DEF Pend
      <4> QED
        BY <1>1, <1>6, <1>8, <3>1, <3>2, <4>1 DEF CacheInv
    <3>3. CASE ~IsTable
      BY <1>1, <3>1, <3>3 DEF CacheInv
    <3> QED
      BY <3>2, <3>3
  <2> QED
    BY <1>3, <2>1, <2>2
<1>12. CacheInv'
  BY <1>1, <1>3, <1>11 DEF CacheInv, IsTable
<1>13. ShownInv'
  <2>1. CASE IsTable
    <3>1. \A s \in Sagas : handed'[s] = handed[s] \/ s \in DOMAIN pending'
      BY <1>2, <1>3, <1>6, <2>1 DEF Pend
    <3> QED
      BY <1>1, <1>3, <1>11, <2>1, <3>1 DEF ShownInv, IsTable
  <2>2. CASE ~IsTable
    BY <1>1, <1>3, <2>2 DEF ShownInv, IsTable
  <2> QED
    BY <2>1, <2>2
<1>14. ASSUME NEW s \in Sagas PROVE NewsInv(s)'
  <2>1. /\ Latest(s)' = Latest(s) /\ (IsTable' <=> IsTable) /\ NewsInv(s)
        /\ Range(seen)' = Range(seen') /\ Range(Arriving)' = Range(Arriving') /\ Range(toPublish)' = Range(toPublish)
    BY <1>1, <1>3 DEF Latest, Range, IsTable
  <2>2. Latest(s) # m /\ Coming(s) => Coming(s)'
    BY <1>5, <2>1 DEF Coming
  <2>3. Latest(s) # m /\ Latest(s) \notin Range(seen) => Latest(s)' \notin Range(seen)'
    BY <1>7, <2>1
  <2>4. CASE m \in Range(seen)
    <3>1. UNCHANGED <<seen, pending, flush, handed, excused>>
      BY <1>3, <2>4
    <3>2. Known(s) => Latest(s) # m \/ s \in excused \/ Settled(s)
      BY <2>1 DEF NewsInv
    <3>3. Latest(s) = m => Known(s)
      BY <2>4 DEF Known
    <3>4. Settled(s) => Settled(s)'
      BY <1>3, <3>1 DEF Settled, RowFollows, AnswerHarmless, Told, IsTable
    <3>5. ~Known(s) => ~Known(s)'
      BY <1>3, <2>1, <3>1 DEF Known, Told
    <3> QED
      BY <2>1, <2>2, <3>1, <3>2, <3>3, <3>4, <3>5 DEF NewsInv
  <2>5. CASE s # m.saga
    <3>1. Latest(s) # m /\ handed'[s] = handed[s] /\ (s \in excused => s \in excused')
      BY <1>3, <1>8, <2>5 DEF Latest
    <3>2. s \in DOMAIN pending => s \in DOMAIN pending' /\ pending'[s] = pending[s]
      BY <1>1, <1>11, <3>1 DEF CacheInv
    <3>3. Settled(s) => Settled(s)'
      BY <1>3, <1>11, <2>1, <3>1, <3>2 DEF Settled, RowFollows, AnswerHarmless, Told
    <3>4. ~Known(s) => ~Known(s)'
      BY <1>3, <2>1, <2>3, <3>1 DEF Known, Told
    <3> QED
      BY <2>1, <2>2, <3>1, <3>3, <3>4 DEF NewsInv
  <2>6. CASE m \notin Range(seen) /\ s = m.saga /\ paused
    BY <1>3, <2>6 DEF NewsInv
  <2>7. CASE m \notin Range(seen) /\ s = m.saga /\ ~paused
    <3>1. /\ pending' = IF IsTable THEN Pend(m) ELSE pending
          /\ flush' = TRUE /\ handed'[s] = m.version
          /\ excused' = IF m.version = db[s] THEN excused \ {s} ELSE excused
      BY <1>2, <1>3, <2>7
    <3>2. IsTable => s \in DOMAIN pending' /\ pending'[s] = m.version
      BY <2>7, <3>1 DEF Pend
    <3>3. CASE m.version = db[s]
      <4>1. RowFollows(s)'
        BY <1>3, <2>1, <3>1, <3>2, <3>3 DEF RowFollows
      <4>2. \A a \in answers' : AnswerHarmless(s, a)'
        BY <1>3, <3>1, <3>3 DEF AnswerHarmless, Told
      <4> QED
        BY <4>1, <4>2 DEF NewsInv, Settled
    <3>4. CASE m.version # db[s]
      <4>1. ~Told(s) /\ ~Told(s)' /\ excused' = excused /\ Latest(s) # m
        BY <1>2, <1>3, <1>6, <2>7, <3>1, <3>4 DEF Told, Latest
      <4>2. Settled(s) => Settled(s)'
        <5>1. ASSUME Settled(s) PROVE RowFollows(s)'
          <6>1. ~(s \in DOMAIN pending /\ pending[s] = db[s])
            BY <1>1, <4>1 DEF CacheInv, Told
          <6> QED
            BY <1>3, <2>1, <3>1, <5>1, <6>1 DEF Settled, RowFollows
        <5>2. ASSUME Settled(s) PROVE \A a \in answers' : AnswerHarmless(s, a)'
          BY <1>3, <4>1, <5>2 DEF Settled, AnswerHarmless
        <5> QED
          BY <5>1, <5>2 DEF Settled
      <4>3. ~Known(s) => ~Known(s)'
        BY <2>3, <4>1 DEF Known
      <4> QED
        BY <2>1, <2>2, <4>1, <4>2, <4>3 DEF NewsInv
    <3> QED
      BY <3>3, <3>4
  <2> QED
    BY <2>4, <2>5, <2>6, <2>7
<1> QED
  BY <1>9, <1>10, <1>12, <1>13, <1>14 DEF LiveInv

(* The first heartbeat of the detail has a place in the window.            *)
LEMMA HeartbeatKeeps ==
  ASSUME LiveInv, Heartbeat
  PROVE  LiveInv'
<1>1. PageTypes /\ OrderInv /\ CacheInv /\ ShownInv /\ \A s \in Sagas : NewsInv(s)
  BY DEF LiveInv
<1>2. /\ ~IsTable /\ seen' = Window(Beat) /\ flush' = TRUE
      /\ UNCHANGED <<page, follows, wire, db, toPublish, last, paused, rows, pending, newSeen, asked, answers,
                     handed, excused>>
  BY DEF Heartbeat, stream, data
<1>3. page[2] \in Sagas /\ db[page[2]] \in Nat /\ db[page[2]] > 0
  BY <1>1, <1>2 DEF PageTypes, CacheInv, IsTable
<1>4. Beat \in Updates /\ Beat.saga = page[2] /\ Beat.version = 0
  BY <1>3 DEF Beat, Updates
<1>5. seen' \in Seq(Updates) /\ Range(seen') \subseteq Range(seen) \cup {Beat}
  BY <1>1, <1>2, <1>4, WindowOf DEF PageTypes
<1>6. PageTypes'
  BY <1>1, <1>2, <1>5 DEF PageTypes, Arriving
<1>7. OrderInv'
  <2>1. /\ Rising(Arriving)' <=> Rising(Arriving)
        /\ Rising(toPublish)' <=> Rising(toPublish)
        /\ Range(Arriving)' = Range(Arriving) /\ Range(toPublish)' = Range(toPublish)
        /\ Range(seen)' = Range(seen')
    BY <1>2 DEF Rising, Range, Before, Arriving
  <2>2. \A n \in Range(seen)' : n.version <= db'[n.saga]
    BY <1>1, <1>2, <1>3, <1>4, <1>5, <2>1 DEF OrderInv
  <2> QED
    BY <1>1, <1>2, <2>1, <2>2 DEF OrderInv, Before
<1>8. CacheInv' /\ ShownInv'
  BY <1>1, <1>2 DEF CacheInv, ShownInv, IsTable
<1>9. ASSUME NEW s \in Sagas PROVE NewsInv(s)'
  <2>1. /\ Latest(s)' = Latest(s) /\ (Coming(s)' <=> Coming(s)) /\ Range(seen)' = Range(seen') /\ NewsInv(s)
    BY <1>1, <1>2 DEF Latest, Coming, Range, Arriving
  <2>2. Latest(s) # Beat
    BY <1>3, <1>4 DEF Latest
  <2>3. ~Known(s) => ~Known(s)'
    BY <1>2, <1>5, <2>1, <2>2 DEF Known, Told
  <2>4. Settled(s) => Settled(s)'
    BY <1>2 DEF Settled, RowFollows, AnswerHarmless, Told, IsTable
  <2> QED
    BY <1>2, <2>1, <2>3, <2>4 DEF NewsInv
<1> QED
  BY <1>6, <1>7, <1>8, <1>9 DEF LiveInv

-----------------------------------------------------------------------------
(* Steps of the cache: of an excused saga, or of a settled one.            *)
LEMMA CacheStep ==
  ASSUME LiveInv, UNCHANGED <<page, follows, wire, db, toPublish, last, paused, seen, handed>>,
         flush' \in BOOLEAN, asked' \in BOOLEAN, excused' \subseteq Sagas,
         CacheInv', ShownInv',
         \A s \in Sagas : s \in excused => s \in excused' \/ Settled(s)',
         \A s \in Sagas : Settled(s) => s \in excused' \/ Settled(s)'
  PROVE  LiveInv'
<1>1. PageTypes /\ OrderInv /\ \A s \in Sagas : NewsInv(s)
  BY DEF LiveInv
<1>2. PageTypes'
  BY <1>1 DEF PageTypes, Arriving
<1>3. OrderInv'
  BY <1>1, OrderStays DEF Arriving
<1>4. ASSUME NEW s \in Sagas PROVE NewsInv(s)'
  <2>1. Coming(s) /\ ~Known(s) => Coming(s)' /\ ~Known(s)'
    BY DEF Coming, Known, Told, Latest, Arriving, Range
  <2> QED
    BY <1>1, <2>1 DEF NewsInv
<1> QED
  BY <1>2, <1>3, <1>4 DEF LiveInv

(* The table merges what is pending.                                       *)
LEMMA FlushKeeps ==
  ASSUME LiveInv, Flush
  PROVE  LiveInv'
<1>1. PageTypes /\ OrderInv /\ CacheInv /\ ShownInv
  BY DEF LiveInv
<1>2. /\ db \in [Sagas -> Nat] /\ handed \in [Sagas -> Nat] /\ excused \subseteq Sagas
      /\ DOMAIN rows \subseteq Sagas /\ DOMAIN pending \subseteq Sagas /\ asked \in BOOLEAN
      /\ \A s \in DOMAIN pending : pending[s] = handed[s]
      /\ \A s \in Sagas : handed[s] <= db[s]
  BY <1>1 DEF PageTypes, CacheInv, OrderInv
<1>3. /\ IsTable /\ flush' = FALSE
      /\ rows' = [s \in DOMAIN rows |-> IF s \in DOMAIN pending THEN pending[s] ELSE rows[s]]
      /\ newSeen' = newSeen \cup (DOMAIN pending \ DOMAIN rows)
      /\ pending' = Empty
      /\ excused' = excused \cup {s \in DOMAIN rows \cap DOMAIN pending : pending[s] < rows[s]}
      /\ UNCHANGED <<page, follows, wire, db, toPublish, last, paused, seen, asked, answers, handed>>
  BY DEF Flush, stream, data
<1>4. DOMAIN rows' = DOMAIN rows /\ DOMAIN pending' = {} /\ (IsTable' <=> IsTable)
  BY <1>3 DEF Empty, IsTable
<1>5. CacheInv' /\ ShownInv'
  <2>1. CacheInv'
    BY <1>1, <1>3, <1>4 DEF CacheInv
  <2>2. ShownInv'
    BY <1>1, <1>3, <1>4 DEF ShownInv
  <2> QED
    BY <2>1, <2>2
<1>6. ASSUME NEW s \in Sagas, Settled(s) PROVE s \in excused' \/ Settled(s)'
  <2>1. \A a \in answers' : AnswerHarmless(s, a)'
    BY <1>3, <1>4, <1>6 DEF Settled, AnswerHarmless, Told
  <2>2. CASE s \in DOMAIN rows /\ s \in DOMAIN pending
    <3>1. rows'[s] = pending[s] /\ pending[s] \in Nat /\ pending[s] <= db[s] /\ db[s] \in Nat
      BY <1>2, <1>3, <2>2
    <3>2. pending[s] = db[s] \/ rows[s] = db[s]
      BY <1>3, <1>6, <2>2 DEF Settled, RowFollows
    <3>3. pending[s] = db[s] \/ pending[s] < rows[s]
      BY <3>1, <3>2
    <3>4. pending[s] = db[s] => RowFollows(s)'
      BY <1>3, <3>1 DEF RowFollows
    <3> QED
      BY <1>3, <2>1, <2>2, <3>3, <3>4 DEF Settled
  <2>3. CASE s \in DOMAIN rows /\ s \notin DOMAIN pending
    <3>1. rows'[s] = rows[s] /\ rows[s] = db[s]
      BY <1>3, <1>6, <2>3 DEF Settled, RowFollows
    <3> QED
      BY <1>3, <2>1, <3>1 DEF Settled, RowFollows
  <2>4. CASE s \notin DOMAIN rows
    BY <1>4, <2>1, <2>4 DEF Settled, RowFollows
  <2> QED
    BY <2>2, <2>3, <2>4
<1>7. excused' \subseteq Sagas /\ excused \subseteq excused'
  BY <1>2, <1>3
<1> QED
  BY <1>2, <1>3, <1>5, <1>6, <1>7, CacheStep

(* A new request: without an answer on its way, or a row to wait for, the  *)
(* sagas are settled.                                                      *)
LEMMA AskingKeeps ==
  ASSUME LiveInv, Poll \/ HandleRefresh \/ Invalidate
  PROVE  LiveInv'
<1>1. PageTypes /\ CacheInv /\ ShownInv
  BY DEF LiveInv
<1>2. /\ UNCHANGED <<page, follows, wire, db, toPublish, last, paused, seen, handed, excused, pending>>
      /\ IsTable' <=> IsTable
  BY DEF Poll, HandleRefresh, Invalidate, stream, store, data, IsTable
<1>3. excused' \subseteq Sagas /\ flush \in BOOLEAN /\ asked \in BOOLEAN
  BY <1>1, <1>2 DEF PageTypes
<1>4. CASE Poll
  <2>1. IsTable /\ asked' = TRUE /\ answers' = {} /\ UNCHANGED <<rows, flush, newSeen>>
    BY <1>4 DEF Poll, Refetch
  <2>2. CacheInv' /\ ShownInv'
    BY <1>1, <1>2, <2>1 DEF CacheInv, ShownInv
  <2>3. \A s \in Sagas : Settled(s) => Settled(s)'
    BY <1>2, <2>1 DEF Settled, RowFollows
  <2> QED
    BY <1>2, <1>3, <2>1, <2>2, <2>3, CacheStep
<1>5. CASE HandleRefresh
  <2>1. IsTable /\ asked' = TRUE /\ answers' = {} /\ rows' = Empty /\ newSeen' = {} /\ UNCHANGED flush
    BY <1>1, <1>5 DEF HandleRefresh, Refetch, CacheInv
  <2>2. CacheInv' /\ ShownInv'
    BY <1>1, <1>2, <2>1 DEF CacheInv, ShownInv, Empty
  <2>3. \A s \in Sagas : Settled(s)'
    BY <2>1 DEF Settled, RowFollows, Empty
  <2> QED
    BY <1>2, <1>3, <2>1, <2>2, <2>3, CacheStep
<1>6. CASE Invalidate
  <2>1. ~IsTable /\ flush' = FALSE /\ UNCHANGED <<rows, newSeen>>
    BY <1>6 DEF Invalidate
  <2>2. CASE rows = Empty /\ UNCHANGED <<asked, answers>>
    <3>1. CacheInv' /\ ShownInv'
      BY <1>1, <1>2, <2>1, <2>2 DEF CacheInv, ShownInv
    <3>2. ASSUME NEW s \in Sagas, Settled(s) PROVE Settled(s)'
      <4>1. RowFollows(s)'
        BY <2>1, <2>2 DEF RowFollows, Empty
      <4>2. \A a \in answers' : AnswerHarmless(s, a)'
        BY <1>2, <2>1, <2>2, <3>2 DEF Settled, AnswerHarmless, Told, Empty
      <4> QED
        BY <4>1, <4>2 DEF Settled
    <3> QED
      BY <1>2, <1>3, <2>1, <2>2, <3>1, <3>2, CacheStep
  <2>3. CASE asked' = TRUE /\ answers' = {}
    <3>1. CacheInv' /\ ShownInv'
      BY <1>1, <1>2, <2>1, <2>3 DEF CacheInv, ShownInv
    <3>2. \A s \in Sagas : Settled(s)'
      BY <1>2, <2>1, <2>3 DEF Settled, RowFollows
    <3> QED
      BY <1>2, <1>3, <2>1, <2>3, <3>1, <3>2, CacheStep
  <2> QED
    BY <1>6, <2>2, <2>3 DEF Invalidate, Revalidate, Refetch
<1> QED
  BY <1>4, <1>5, <1>6

(* The backend answers with what it has.                                   *)
LEMMA ServeKeeps ==
  ASSUME LiveInv, Serve
  PROVE  LiveInv'
<1> DEFINE a == [s \in Requested |-> db[s]]
<1>1. PageTypes /\ OrderInv /\ CacheInv /\ ShownInv
  BY DEF LiveInv
<1>2. /\ asked' = FALSE /\ answers' = {a}
      /\ UNCHANGED <<page, follows, wire, db, toPublish, last, paused, seen, rows, pending, flush, newSeen,
                     handed, excused>>
  BY DEF Serve, stream, store, data
<1>3. DOMAIN a = Requested /\ \A s \in Requested : a[s] = db[s]
  OBVIOUS
<1>4. /\ Requested \subseteq Sagas /\ DOMAIN rows \subseteq Requested
      /\ \A s \in Requested : db[s] \in Nat /\ db[s] > 0
      /\ ~IsTable => Requested = {page[2]}
  BY <1>1 DEF Requested, PageTypes, CacheInv, IsTable
<1> HIDE DEF a
<1>5. CacheInv'
  BY <1>1, <1>2, <1>3, <1>4 DEF CacheInv, IsTable
<1>6. ShownInv'
  <2>1. IsTable => \A s \in Sagas : handed[s] > 0 => s \in DOMAIN a
    <3> SUFFICES ASSUME IsTable, NEW s \in Sagas, handed[s] > 0 PROVE db[s] > 0
      BY <1>3 DEF Requested
    <3>1. handed[s] \in Nat /\ db[s] \in Nat /\ handed[s] <= db[s]
      BY <1>1 DEF PageTypes, OrderInv
    <3> QED
      BY <3>1
  <2> QED
    BY <1>2, <2>1 DEF ShownInv, IsTable
<1>7. \A s \in Sagas : Settled(s) => Settled(s)'
  <2> SUFFICES ASSUME NEW s \in Sagas, Settled(s) PROVE Settled(s)'
    OBVIOUS
  <2>1. RowFollows(s)'
    BY <1>2, <1>3, <1>4 DEF Settled, RowFollows, IsTable
  <2>2. \A b \in answers' : AnswerHarmless(s, b)'
    BY <1>2, <1>3 DEF AnswerHarmless
  <2> QED
    BY <2>1, <2>2 DEF Settled
<1> QED
  BY <1>1, <1>2, <1>5, <1>6, <1>7, CacheStep DEF PageTypes

(* The answer arrives, and replaces the rows.                              *)
LEMMA ReceiveKeeps ==
  ASSUME LiveInv, Receive
  PROVE  LiveInv'
<1>1. PageTypes /\ OrderInv /\ CacheInv /\ ShownInv
  BY DEF LiveInv
<1>2. PICK a \in answers :
        /\ answers' = {} /\ rows' = a
        /\ excused' = (excused \ {s \in DOMAIN a : a[s] = db[s]}) \cup Overtaken(a)
        /\ UNCHANGED <<page, follows, wire, db, toPublish, last, paused, seen, pending, flush, newSeen,
                       asked, handed>>
  BY DEF Receive, stream, data
<1>3. /\ DOMAIN a \subseteq Sagas /\ DOMAIN rows \subseteq DOMAIN a
      /\ \A s \in DOMAIN a : a[s] \in Nat /\ a[s] <= db[s] /\ db[s] > 0
      /\ ~IsTable => DOMAIN a = {page[2]}
      /\ \A b \in answers : b = a
      /\ IsTable' <=> IsTable
  BY <1>1, <1>2 DEF CacheInv, IsTable
<1>4. CacheInv'
  BY <1>1, <1>2, <1>3 DEF CacheInv
<1>5. ShownInv'
  BY <1>1, <1>2, <1>3 DEF ShownInv
<1>6. excused' \subseteq Sagas
  BY <1>1, <1>2, <1>3 DEF PageTypes, Overtaken
<1>7. \A s \in Sagas : RowFollows(s)' => Settled(s)'
  BY <1>2 DEF Settled
<1>8. \A s \in Sagas : s \notin DOMAIN a \/ a[s] = db[s] => RowFollows(s)'
  BY <1>2 DEF RowFollows
<1>9. \A s \in Sagas : s \in excused => s \in excused' \/ Settled(s)'
  BY <1>2, <1>7, <1>8
<1>10. ASSUME NEW s \in Sagas, Settled(s) PROVE s \in excused' \/ Settled(s)'
  <2>1. CASE s \notin DOMAIN a \/ a[s] = db[s]
    BY <1>7, <1>8, <2>1
  <2>2. CASE s \in DOMAIN a /\ a[s] # db[s]
    <3>1. Told(s) /\ (IsTable \/ rows = Empty \/ flush)
      BY <1>10, <2>2 DEF Settled, AnswerHarmless
    <3>2. a[s] < handed[s]
      BY <1>1, <1>3, <2>2, <3>1 DEF Told, PageTypes
    <3>3. CASE IsTable \/ rows = Empty
      BY <1>2, <2>2, <3>2, <3>3 DEF Overtaken
    <3>4. CASE ~IsTable /\ flush
      BY <1>2, <1>3, <1>7, <3>4 DEF RowFollows
    <3> QED
      BY <3>1, <3>3, <3>4
  <2> QED
    BY <2>1, <2>2
<1> QED
  BY <1>1, <1>2, <1>4, <1>5, <1>6, <1>9, <1>10, CacheStep DEF PageTypes

-----------------------------------------------------------------------------
(* Every step keeps LiveInv.                                               *)
LEMMA LiveStep == IInv /\ LiveInv /\ [Next]_vars => LiveInv'
<1> SUFFICES ASSUME IInv, LiveInv, [Next]_vars PROVE LiveInv'
  OBVIOUS
<1>1. CASE Quiet
  BY <1>1, QuietKeeps
<1>2. CASE \E s \in Sagas : Commit(s)
  BY <1>2, CommitKeeps
<1>3. CASE PublishNext \/ Resend
  BY <1>3, PublishingKeeps
<1>4. CASE OnMessage
  BY <1>4, OnMessageKeeps
<1>5. CASE Heartbeat
  BY <1>5, HeartbeatKeeps
<1>6. CASE Flush
  BY <1>6, FlushKeeps
<1>7. CASE Poll \/ HandleRefresh \/ Invalidate
  BY <1>7, AskingKeeps
<1>8. CASE Serve
  BY <1>8, ServeKeeps
<1>9. CASE Receive
  BY <1>9, ReceiveKeeps
<1> QED
  BY <1>1, <1>2, <1>3, <1>4, <1>5, <1>6, <1>7, <1>8, <1>9 DEF Next, Quiet

(* LiveInv holds initially.                                                *)
LEMMA LiveInit == Init => LiveInv
<1> SUFFICES ASSUME Init PROVE LiveInv
  OBVIOUS
<1>1. /\ wire = [c \in Clients |-> <<>>] /\ toPublish = <<>> /\ seen = <<>> /\ last = {} /\ excused = {}
      /\ page \in {All} \cup {<<"id", s>> : s \in Sagas}
      /\ db = [s \in Sagas |-> IF page = <<"id", s>> THEN 1 ELSE 0] /\ handed = [s \in Sagas |-> 0]
      /\ rows = Empty /\ pending = Empty /\ flush = FALSE /\ newSeen = {} /\ asked = TRUE /\ answers = {}
      /\ paused = FALSE
  BY DEF Init, StreamInit
<1>2. Arriving = <<>> /\ wire \in [Clients -> Seq(Updates)]
  BY <1>1 DEF Arriving
<1>3. PageTypes
  BY <1>1, <1>2 DEF PageTypes
<1>4. OrderInv
  BY <1>1, <1>2, NothingRises DEF OrderInv
<1>5. DOMAIN rows = {} /\ DOMAIN pending = {}
  BY <1>1 DEF Empty
<1>6. ~IsTable => db[page[2]] > 0
  BY <1>1 DEF IsTable
<1>7. CacheInv /\ ShownInv
  BY <1>1, <1>5, <1>6 DEF CacheInv, ShownInv
<1>8. \A s \in Sagas : NewsInv(s)
  BY <1>1, <1>5 DEF NewsInv, Settled, RowFollows
<1> QED
  BY <1>3, <1>4, <1>7, <1>8 DEF LiveInv

(* When everything has arrived, the page shows the version of the database *)
(* of every saga whose last update was not lost, paused or overtaken, and  *)
(* has or counts every saga it was told of: for any number of sagas,       *)
(* browsers, updates and faults, and any window of seen messages.          *)
THEOREM PagesShowTheDatabase == Spec => []PageFollows
<1>1. LiveInv => PageFollows
  <2> SUFFICES ASSUME LiveInv, Rest PROVE PageFollows
    BY DEF PageFollows
  <2>1. wire[Viewer] = <<>> /\ toPublish = <<>> /\ ~flush /\ ~asked /\ answers = {}
    BY DEF Rest
  <2>2. CacheInv /\ ShownInv /\ \A s \in Sagas : NewsInv(s)
    BY DEF LiveInv
  <2>3. ASSUME NEW s \in DOMAIN rows PROVE rows[s] = db[s] \/ s \in excused
    <3>1. s \in Sagas /\ NewsInv(s)
      BY <2>2 DEF CacheInv
    <3>2. ~Coming(s)
      BY <2>1, NothingRises DEF Coming, Arriving
    <3>3. Settled(s) => rows[s] = db[s]
      BY <2>1, <2>2 DEF Settled, RowFollows, CacheInv
    <3> QED
      BY <3>1, <3>2, <3>3 DEF NewsInv
  <2>4. /\ IsTable => \A s \in Sagas : handed[s] > 0 => s \in DOMAIN rows \cup newSeen
        /\ ~IsTable => page[2] \in DOMAIN rows
    BY <2>1, <2>2 DEF ShownInv, CacheInv
  <2> QED
    BY <2>3, <2>4 DEF PageFollows
<1>2. Init => IInv /\ LiveInv
  BY InvariantInit, LiveInit
<1>3. IInv /\ LiveInv /\ [Next]_vars => IInv' /\ LiveInv'
  BY InvariantStep, LiveStep
<1> QED
  BY <1>1, <1>2, <1>3, PTL DEF Spec
=============================================================================
