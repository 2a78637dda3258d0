----------------------------- MODULE LiveStream -----------------------------
(***************************************************************************)
(* The live stream of the monitor backend: RedisService shares one Redis   *)
(* subscription per channel among the browsers that follow it, the stream  *)
(* controller makes each message a server-sent event, and the publisher    *)
(* sends every update to the channels of all sagas, of its saga and of its *)
(* root.                                                                   *)
(*                                                                         *)
(* Redis serves the commands of a connection in order; a message it        *)
(* publishes reaches the process at once, and its callbacks in one step.   *)
(* Left out: counters, sorted sets and cached answers, several replicas.   *)
(***************************************************************************)
EXTENDS Integers, SequencesExt, FiniteSetsExt

CONSTANTS Clients,      \* the connections browsers may open, one each
          Sagas,        \* saga ids
          MaxCommands   \* bound: commands on their way when another client than the table joins

VARIABLES follows,      \* the channel of each client's connection, <<>> without one
          callbacks,    \* channelCallbacks: the clients of a channel
          commands,     \* subscribe and unsubscribe commands on their way to Redis
          redis,        \* channels the process is subscribed to at Redis
          wire          \* server-sent events on their way to a client

stream == <<follows, callbacks, commands, redis, wire>>

StreamInit ==
  /\ follows = [c \in Clients |-> <<>>]
  /\ callbacks = [ch \in {} |-> {}] /\ commands = <<>> /\ redis = {}
  /\ wire = [c \in Clients |-> <<>>]

Listeners(ch) == IF ch \in DOMAIN callbacks THEN callbacks[ch] ELSE {}

\* createSseStream: the first client of a channel subscribes to it.
Subscribe(client, ch) ==
  /\ follows' = [follows EXCEPT ![client] = ch]
  /\ callbacks' = [k \in DOMAIN callbacks \cup {ch} |-> Listeners(k) \cup IF k = ch THEN {client} ELSE {}]
  /\ commands' = IF ch \in DOMAIN callbacks THEN commands ELSE Append(commands, [do |-> "subscribe", ch |-> ch])
  /\ wire' = [wire EXCEPT ![client] = <<>>]
  /\ UNCHANGED redis

\* Mutant: the channel is dropped with any of its clients.
Mutant_DropWithAny(ch, client) == TRUE

IsLast(ch, client) == callbacks[ch] = {client}

\* The teardown of the stream: the last client takes the subscription with it.
Unsubscribe(client) ==
  LET ch      == follows[client]
      dropped == {k \in DOMAIN callbacks : k = ch /\ IsLast(k, client)}
  IN
  /\ ch # <<>> /\ follows' = [follows EXCEPT ![client] = <<>>]
  /\ callbacks' = [k \in DOMAIN callbacks \ dropped |-> IF k = ch THEN callbacks[k] \ {client} ELSE callbacks[k]]
  /\ commands' = IF dropped = {} THEN commands ELSE Append(commands, [do |-> "unsubscribe", ch |-> ch])
  /\ wire' = [wire EXCEPT ![client] = <<>>]
  /\ UNCHANGED redis

RedisServes ==
  /\ commands # <<>> /\ commands' = Tail(commands)
  /\ LET c == Head(commands) IN redis' = IF c.do = "subscribe" THEN redis \cup {c.ch} ELSE redis \ {c.ch}
  /\ UNCHANGED <<follows, callbacks, wire>>

\* publishSagaUpdate: the channels of an update; each saga is its own root here.
ChannelsOf(msg) == {<<"all">>, <<"id", msg.saga>>, <<"root", msg.saga>>}

Reaches(client, msg) == \E ch \in ChannelsOf(msg) \cap redis : client \in Listeners(ch)

\* An update published to its channels; a client has one channel, so it has the update once.
Publish(msg) ==
  /\ wire' = [c \in Clients |-> IF Reaches(c, msg) THEN Append(wire[c], msg) ELSE wire[c]]
  /\ UNCHANGED <<follows, callbacks, commands, redis>>

\* onModuleDestroy, or a crash: the connections end.
StreamStops ==
  /\ follows' = [c \in Clients |-> <<>>]
  /\ callbacks' = [ch \in {} |-> {}] /\ commands' = <<>> /\ redis' = {}
  /\ wire' = [c \in Clients |-> <<>>]

\* A browser connects, to the stream of all sagas, of a saga or of a tree.
Joins(client) ==
  \E s \in Sagas : \E ch \in ChannelsOf([saga |-> s]) :
    Len(commands) < MaxCommands /\ follows[client] = <<>> /\ Subscribe(client, ch)

---------------------------------------------------------------------------
(* Property *)

\* Once Redis has served the commands, the process is subscribed to the channels someone follows
\* and to no other, whatever the order in which clients came and went: no deaf client, no leak.
SubscriptionsMatch ==
  commands = <<>> => redis = {follows[c] : c \in Clients} \ {<<>>}
=============================================================================
