---------------------------- MODULE ServiceStart ----------------------------
(***************************************************************************)
(* The life of a service: SagaRunnerProvider registers the participants,   *)
(* SagaRunner.start builds the route map, connects the producer, creates   *)
(* missing topics and starts a consumer, trying again after a backoff;     *)
(* SagaRunner.stop disconnects, possibly while the start is still on its   *)
(* way (a signal during the bootstrap).                                    *)
(*                                                                         *)
(* A start and a stop are asynchronous: each await is a step boundary, and *)
(* whatever they ask of Kafka or of the container may fail.  After a       *)
(* disconnect the consumer of an attempt may still get to run: run         *)
(* connects again.                                                         *)
(*                                                                         *)
(* Left out: the prefix of topics (a bijection), delays, logging, the      *)
(* options of connections; what the consumer does with its messages        *)
(* (KafkaTransport, SagaRunner).                                           *)
(***************************************************************************)
EXTENDS Integers, SequencesExt

CONSTANTS Participants, \* the providers with @SagaParticipant, in the order of discovery
          Topics,
          MaxAttempts,  \* 10
          AutoCreate    \* autoCreateTopics

ASSUME AttemptsAssumption == MaxAttempts \in Nat \ {0}
ASSUME ParticipantsAssumption == Participants \in Seq(Range(Participants))
ASSUME AutoCreateAssumption == AutoCreate \in BOOLEAN

VARIABLES declared,     \* what the decorators and methods of each participant say
          next,         \* the provider that onModuleInit looks at
          registry,     \* participants registered, in order
          routes,       \* the route map: topic and kind to participant
          start,        \* where SagaRunner.start is
          producer,     \* the producer is connected
          attempt,      \* of connectConsumerWithRetry
          consumers,    \* state of the consumer of each attempt
          current,      \* this.consumer: an attempt, or 0
          stop,         \* where SagaRunner.stop is
          early         \* stop was called before start had ended

registration == <<declared, next, registry>>
kafka == <<producer, attempt, consumers, current>>
serviceVars  == <<registration, routes, start, kafka, stop, early>>

Declarations == [topics : SUBSET Topics, plain : SUBSET Topics, final : BOOLEAN, fork : BOOLEAN,
                 handles : BOOLEAN, resolves : BOOLEAN]

Ended == {"failed", "started"}

(* onModuleInit *)

\* The handlers of a participant: handle() for its topics, and the methods of @MessageHandler.
SagaTopics(p)  == IF declared[p].handles THEN declared[p].topics ELSE {}
PlainTopics(p) == declared[p].plain
Handlers(p)    == {<<t, "saga">> : t \in SagaTopics(p)} \cup {<<t, "plain">> : t \in PlainTopics(p)}

\* One that cannot be resolved is skipped with a warning, one without handlers silently.
Register ==
  /\ start = "register" /\ next <= Len(Participants)
  /\ next' = next + 1
  /\ LET p == Participants[next] IN
     registry' = IF declared[p].resolves /\ Handlers(p) # {} THEN Append(registry, p) ELSE registry
  /\ UNCHANGED <<declared, routes, start, kafka, stop, early>>

(* SagaRunner.start *)

Before(p) == {registry[i] : i \in 1 .. SelectInSeq(registry, LAMBDA q : q = p) - 1}

\* Two handlers of one kind for a topic, or a topic that is final and a fork, is an error.
Rejects(p) ==
  \/ \E q \in Before(p) : Handlers(q) \cap Handlers(p) # {}
  \/ SagaTopics(p) # {} /\ declared[p].final /\ declared[p].fork

\* Mutant: a plain handler replaces the entry of its topic.
Mutant_ReplaceEntry ==
  [h \in UNION {Handlers(p) : p \in Range(registry)} \ {<<t, "saga">> : t \in UNION {declared[p].plain : p \in Range(registry)}}
     |-> CHOOSE p \in Range(registry) : h \in Handlers(p)]

\* An entry of a topic keeps the handler of the other kind.
BuildRouteMap ==
  [h \in UNION {Handlers(p) : p \in Range(registry)} |-> CHOOSE p \in Range(registry) : h \in Handlers(p)]

Route ==
  /\ start = "register" /\ next > Len(Participants)
  /\ IF \E p \in Range(registry) : Rejects(p)
     THEN start' = "failed" /\ UNCHANGED routes
     ELSE start' = "connect" /\ routes' = BuildRouteMap
  /\ UNCHANGED <<registration, kafka, stop, early>>

\* transport.connect; without a handler there is nothing to subscribe to.
Connect ==
  /\ start = "connect"
  /\ \/ /\ producer' = TRUE
        /\ start' = IF routes = [h \in {} |-> 0] THEN "started" ELSE IF AutoCreate THEN "topics" ELSE "attempt"
     \/ start' = "failed" /\ UNCHANGED producer
  /\ UNCHANGED <<registration, routes, attempt, consumers, current, stop, early>>

\* ensureTopicsExist: the admin creates what is missing, or fails; it is disconnected either way.
EnsureTopicsExist ==
  /\ start = "topics"
  /\ start' \in {"attempt", "failed"}
  /\ UNCHANGED <<registration, routes, producer, attempt, consumers, current, stop, early>>

(* connectConsumerWithRetry *)

Try ==
  /\ start = "attempt"
  /\ consumers' = [consumers EXCEPT ![attempt] = "new"] /\ current' = attempt
  /\ start' = "starting"
  /\ UNCHANGED <<registration, routes, producer, attempt, stop, early>>

Steps == [new |-> "connected", connected |-> "subscribed", subscribed |-> "running", disconnected |-> "running"]

\* Mutant: the loop goes on after a success.
Mutant_NoReturn(state) == IF state = "running" /\ attempt < MaxAttempts THEN "attempt" ELSE "starting"

AfterStep(state) == IF state = "running" THEN "started" ELSE "starting"

\* connect, then subscribe, then run.
Proceeds ==
  /\ start = "starting"
  /\ LET state == Steps[consumers[attempt]] IN
     /\ consumers' = [consumers EXCEPT ![attempt] = state]
     /\ start' = AfterStep(state)
     /\ attempt' = IF start' = "attempt" THEN attempt + 1 ELSE attempt
  /\ UNCHANGED <<registration, routes, producer, current, stop, early>>

Fails ==
  /\ start = "starting" /\ start' = "clean"
  /\ UNCHANGED <<registration, routes, kafka, stop, early>>

\* The catch block: the consumer is disconnected, or that fails too and is ignored.
Clean ==
  /\ start = "clean"
  /\ \E state \in {"disconnected", consumers[attempt]} : consumers' = [consumers EXCEPT ![attempt] = state]
  /\ current' = 0
  /\ start' = IF attempt = MaxAttempts THEN "failed" ELSE "backoff"
  /\ UNCHANGED <<registration, routes, producer, attempt, stop, early>>

\* Mutant: the attempt is not counted.
Mutant_RetryUncounted ==
  /\ start = "backoff" /\ start' = "attempt"
  /\ UNCHANGED <<registration, routes, kafka, stop, early>>

Backoff ==
  /\ start = "backoff" /\ start' = "attempt"
  /\ attempt' = attempt + 1
  /\ UNCHANGED <<registration, routes, producer, consumers, current, stop, early>>

(* SagaRunner.stop: nothing tells a start on its way *)

StopRunner ==
  /\ stop = "none" /\ stop' = "producer" /\ early' = (start \notin Ended)
  /\ UNCHANGED <<registration, routes, start, kafka>>

\* producer.disconnect; when it rejects, the consumer is left as it is.
StopProducer ==
  /\ stop = "producer"
  /\ \/ producer' = FALSE /\ stop' = "consumer"
     \/ stop' = "failed" /\ UNCHANGED producer
  /\ UNCHANGED <<registration, routes, start, attempt, consumers, current, early>>

StoppedConsumer == current

StopConsumer ==
  /\ stop = "consumer"
  /\ \/ /\ consumers' = IF StoppedConsumer = 0 THEN consumers
                        ELSE [consumers EXCEPT ![StoppedConsumer] = "disconnected"]
        /\ stop' = "done"
     \/ current # 0 /\ stop' = "failed" /\ UNCHANGED consumers
  /\ UNCHANGED <<registration, routes, start, producer, attempt, current, early>>

\* healthCheck: by the group of the consumer it knows, which other processes may keep alive.
HealthyStates == {"Stable", "CompletingRebalance", "PreparingRebalance"}
HealthCheck(group) == IF current # 0 /\ group \in HealthyStates THEN "up" ELSE "down"

ServiceInit ==
  /\ declared \in [Range(Participants) -> Declarations] /\ next = 1 /\ registry = <<>>
  /\ routes = [h \in {} |-> 0] /\ start = "register" /\ producer = FALSE
  /\ attempt = 1 /\ consumers = [a \in 1 .. MaxAttempts |-> "none"] /\ current = 0
  /\ stop = "none" /\ early = FALSE

Starts == Register \/ Route \/ Connect \/ EnsureTopicsExist \/ Try \/ Proceeds \/ Fails \/ Clean \/ Backoff
Stops  == StopProducer \/ StopConsumer

ServiceNext == Starts \/ StopRunner \/ Stops

ServiceSpec == ServiceInit /\ [][ServiceNext]_serviceVars

\* Fairness: what is asked of Kafka is answered, timers fire.
FairServiceSpec == ServiceSpec /\ WF_serviceVars(Starts) /\ WF_serviceVars(Stops)

---------------------------------------------------------------------------
(* Properties *)

\* Type invariant of the lifecycle.
ServiceTypeOK ==
  /\ attempt \in 1 .. MaxAttempts /\ current \in 0 .. MaxAttempts
  /\ consumers \in [1 .. MaxAttempts -> {"none", "new", "connected", "subscribed", "running", "disconnected"}]
  /\ start \in Ended \cup {"register", "connect", "topics", "attempt", "starting", "clean", "backoff"}
  /\ stop \in {"none", "producer", "consumer", "done", "failed"}
  /\ producer \in BOOLEAN /\ early \in BOOLEAN

Running == {a \in 1 .. MaxAttempts : consumers[a] = "running"}

\* A consumer that runs is the one disconnect knows, after any sequence of failed attempts, so two
\* never run; healthCheck does not report it down while its group is stable; and a stop that found
\* the start ended leaves none running.
OneConsumerRuns ==
  /\ Running \subseteq {current}
  /\ Running # {} => HealthCheck("Stable") = "up"
  /\ stop = "done" /\ ~early => Running = {}

\* A start that got past the registry routes every handler of every participant it could resolve,
\* to it alone; and a registry with two handlers for a message never gets there.
EveryHandlerIsRouted ==
  start \notin {"register", "failed"} =>
    \A p \in Range(Participants) : declared[p].resolves =>
      \A h \in Handlers(p) : h \in DOMAIN routes /\ routes[h] = p

\* A start ends, with a consumer or an error, and so does a stop.
StartAndStopEnd == <>(start \in Ended) /\ (stop # "none" ~> stop \in {"done", "failed"})
=============================================================================
