--------------------------- MODULE BuiltInMonitor ---------------------------
(***************************************************************************)
(* The monitor built into the order-saga example: MonitorService keeps in  *)
(* memory the events its consumer is given, and three pages (dashboard,    *)
(* list, detail of a saga) each fetch what there is and then follow a      *)
(* stream of server-sent events.                                           *)
(*                                                                         *)
(* Every event has a topic of its own here, so the consumer may be given   *)
(* them in any order.  One page is open, in a browser.  A page keeps of a  *)
(* saga what its status depends on: whether a compensation was seen, and   *)
(* the status the last event gave it.  "fork" counts as "step".            *)
(*                                                                         *)
(* Left out: payloads, names, durations, lag, the feed and the charts,     *)
(* the load test, filters and layout; topics missing from ALL_TOPICS.      *)
(***************************************************************************)
EXTENDS Integers, SequencesExt, FiniteSetsExt

CONSTANTS Sagas,        \* saga ids
          NoSaga,       \* the parent of a root saga
          Parent,       \* the saga-parent-id of the events of a saga
          Kinds,        \* the pages that may be opened
          Target,       \* the saga of the detail page: the lists link to roots
          Gaps,         \* milliseconds between two events
          HistorySize,  \* how many ticks the dashboard remembers: 60
          Period,       \* ticks from refresh to refresh: 10
          MaxEvents,    \* bound: events published
          MaxInFlight,  \* bound: unanswered requests of one kind, and answers not yet received
          MaxFaults     \* bound: redeliveries, restarts, lost connections, failed requests and clears

ASSUME ParentAssumption == Parent \in [Sagas -> Sagas \cup {NoSaga}] /\ NoSaga \notin Sagas
\* A saga is created after its parent, with an id of its own: no cycle of parents.
ASSUME AcyclicAssumption == \A S \in SUBSET Sagas : S # {} => \E s \in S : Parent[s] \notin S
ASSUME TargetAssumption == Target \in Sagas /\ Parent[Target] = NoSaga
ASSUME GapsAssumption == Gaps \subseteq Nat /\ Gaps # {}
ASSUME KindsAssumption == Kinds \subseteq {"dashboard", "list", "detail"}
ASSUME BoundsAssumption == {HistorySize, Period, MaxEvents, MaxInFlight, MaxFaults} \subseteq Nat /\ Period > 0

VARIABLES published,    \* the events of the application: saga, hint and saga-occurred-at
          consumed,     \* those before the consumer's offsets
          seen,         \* keys of the map events, in the order of insertion
          events,       \* the events of a saga, in the order of arrival
          page,         \* the page that is open
          asked,        \* unanswered requests of the page, of each kind
          answers,      \* answers on their way to the page
          subscribed,   \* the stream is connected
          stream,       \* events on their way to the page
          offered,      \* events that were sent to the page and not lost (for the properties)
          faults        \* faults so far

server == <<published, consumed, seen, events>>
link   == <<asked, answers, subscribed, stream, offered>>
vars   == <<server, page, link, faults>>

Hints    == {"step", "compensation", "final"}
Statuses == {"running", "completed", "failed", "compensating"}
Requests == {"stats", "list"}

(* MonitorService *)

\* deriveSagaStatus: by the hint of the last event, and any compensation.
Status(comp, hint) ==
  IF hint = "final" THEN IF comp THEN "failed" ELSE "completed"
  ELSE IF comp THEN "compensating" ELSE "running"

HasCompensation(evs) == \E e \in Range(evs) : published[e].hint = "compensation"
DeriveSagaStatus(evs) == Status(HasCompensation(evs), published[Last(evs)].hint)

\* findRoot: up the parents that are known.
FindRoot(saga, known) ==
  LET root[s \in Sagas] == IF s \in known /\ Parent[s] \in known THEN root[Parent[s]] ELSE s
  IN  root[saga]

SameGroup(saga, known) == {s \in known : FindRoot(s, known) = FindRoot(saga, known)}

\* The events of a group, in the order of the map.
Merged(saga) ==
  LET group == SameGroup(saga, Range(seen)) IN
  FlattenSeq([i \in DOMAIN seen |-> IF seen[i] \in group THEN events[seen[i]] ELSE <<>>])

\* A stable sort by occurredAt, of which the last one matters: of the latest, the one that came last.
SortedLast(evs) ==
  evs[Max({i \in DOMAIN evs : \A f \in Range(evs) : published[f].at <= published[evs[i]].at})]

\* Mutant: the merged events are not sorted.
Mutant_GroupUnsorted(saga) == DeriveSagaStatus(Merged(saga))

GroupStatus(saga) ==
  Status(HasCompensation(Merged(saga)), published[SortedLast(Merged(saga))].hint)

\* getAggregatedStats: the sagas of each status.
AggregatedStats ==
  [st \in Statuses |-> Quantify(Range(seen), LAMBDA s : DeriveSagaStatus(events[s]) = st)]

\* getAllSagas, by saga.
AllSagas ==
  [s \in Range(seen) |-> [status |-> DeriveSagaStatus(events[s]), group |-> GroupStatus(s), comp |-> FALSE]]

\* handleMessage: of an event the consumer is given; the stream has it from the emitter.
HandleMessage(e) ==
  LET saga == published[e].saga IN
  /\ e \notin consumed
  /\ consumed' = consumed \cup {e}
  /\ events' = [events EXCEPT ![saga] = Append(@, e)]
  /\ seen' = IF saga \in Range(seen) THEN seen ELSE Append(seen, saga)
  /\ IF subscribed THEN stream' = Append(stream, e) /\ offered' = offered \cup {e}
     ELSE UNCHANGED <<stream, offered>>
  /\ UNCHANGED <<published, page, asked, answers, subscribed, faults>>

\* The applications publish: a child only after its parent, and at most one event per millisecond
\* or several.
AppPublishes ==
  \E saga \in Sagas, hint \in Hints, later \in Gaps :
    LET now == IF published = <<>> THEN 0 ELSE Last(published).at IN
    /\ Len(published) < MaxEvents /\ (published = <<>> => later = Min(Gaps))
    /\ Parent[saga] # NoSaga => \E i \in DOMAIN published : published[i].saga = Parent[saga]
    /\ published' = Append(published, [saga |-> saga, hint |-> hint, at |-> now + later])
    /\ UNCHANGED <<consumed, seen, events, page, link, faults>>

(* The pages *)

NoRow    == [comp |-> FALSE, status |-> "running", group |-> "none"]
NoCounts == [st \in Statuses |-> 0]
Blank(kind) == [kind |-> kind, rows |-> [s \in {} |-> NoRow], counts |-> NoCounts, shown |-> {}, ticks |-> 0]

Ask(requests) == [r \in Requests |-> IF r \in requests THEN Min({asked[r] + 1, MaxInFlight}) ELSE asked[r]]

FetchesOf(kind) == IF kind = "dashboard" THEN Requests ELSE {"list"}

\* init: the fetches and the stream are requested together.
Open(kind) ==
  /\ page.kind = "none"
  /\ page' = Blank(kind)
  /\ asked' = Ask(FetchesOf(kind))
  /\ UNCHANGED <<server, answers, subscribed, stream, offered, faults>>

Group == SameGroup(Target, Range(seen))

AnsweredEvents == UNION {Range(events[s]) : s \in IF page.kind = "detail" THEN Group ELSE Range(seen)}

\* What the server answers: counts; or rows, or what of each saga its status depends on; or events.
Answer(request) ==
  IF request = "stats" THEN AggregatedStats
  ELSE CASE page.kind = "dashboard" -> [s \in Range(seen) |-> [comp |-> HasCompensation(events[s]),
                                          status |-> DeriveSagaStatus(events[s]), group |-> "none"]]
         [] page.kind = "list"      -> AllSagas
         [] page.kind = "detail"    -> AnsweredEvents

\* The server answers, or the request fails and the page ignores it.
Serve(request) ==
  /\ asked[request] > 0 /\ asked' = [asked EXCEPT ![request] = @ - 1]
  /\ \/ /\ Cardinality({a \in answers : a.to = request}) < MaxInFlight
        /\ answers' = answers \cup {[to |-> request, data |-> Answer(request)]}
        /\ offered' = IF request = "stats" THEN offered ELSE offered \cup AnsweredEvents
        /\ UNCHANGED faults
     \/ faults < MaxFaults /\ faults' = faults + 1 /\ UNCHANGED <<answers, offered>>
  /\ UNCHANGED <<server, page, subscribed, stream>>

\* fetchStats of the dashboard pushes the events it is given to those it has; the last one is the server's.
LoadStates(data) ==
  [s \in DOMAIN page.rows \cup DOMAIN data |->
     IF s \notin DOMAIN data THEN page.rows[s]
     ELSE LET comp == data[s].comp \/ (s \in DOMAIN page.rows /\ page.rows[s].comp) IN
          [data[s] EXCEPT !.comp = comp,
                          !.status = Status(comp, IF @ \in {"completed", "failed"} THEN "final" ELSE "step")]]

\* init of the list puts rows over those the stream made; their events are not among them.
LoadRows(data) ==
  [s \in DOMAIN data \cup DOMAIN page.rows |-> IF s \in DOMAIN data THEN data[s] ELSE page.rows[s]]

Receive(a) ==
  /\ answers' = answers \ {a}
  /\ page' = IF a.to = "stats" THEN [page EXCEPT !.counts = a.data]
             ELSE CASE page.kind = "dashboard" -> [page EXCEPT !.rows = LoadStates(a.data)]
                    [] page.kind = "list"      -> [page EXCEPT !.rows = LoadRows(a.data)]
                    [] page.kind = "detail"    -> [page EXCEPT !.shown = @ \cup a.data]
  /\ UNCHANGED <<server, asked, subscribed, stream, offered, faults>>

Row(saga) == IF saga \in DOMAIN page.rows THEN page.rows[saga] ELSE NoRow

\* The row of a saga after an event of it.
Moved(e) ==
  LET row  == Row(published[e].saga)
      comp == row.comp \/ published[e].hint = "compensation"
  IN  [row EXCEPT !.comp = comp, !.status = Status(comp, published[e].hint)]

\* The rows with that of the saga of an event after it.
RowsAfter(e) ==
  LET saga == published[e].saga
  IN  [s \in DOMAIN page.rows \cup {saga} |-> IF s = saga THEN Moved(e) ELSE page.rows[s]]

\* processEvent of the dashboard: a new saga counts as running, then it moves.
ProcessEvent(e) ==
  LET saga == published[e].saga
      row  == Row(saga)
      new  == IF saga \in DOMAIN page.rows THEN 0 ELSE 1
      Moves(st) == (IF st = "running" THEN new ELSE 0)
                   + (IF st = Moved(e).status THEN 1 ELSE 0) - (IF st = row.status THEN 1 ELSE 0)
  IN  [page EXCEPT !.rows = RowsAfter(e),
                   !.counts = [st \in Statuses |-> @[st] + Moves(st)]]

\* The status of a group in the list: of the sagas that are no one's parent.
LeafStatus(rows, group) ==
  LET leaves == {rows[s].status : s \in group \ {Parent[g] : g \in group}} IN
  IF "running" \in leaves THEN "running"
  ELSE IF "compensating" \in leaves THEN "compensating"
  ELSE IF "failed" \in leaves THEN "failed" ELSE "completed"

\* handleEvent of the list: a saga that is not running settles the status of its group.
HandleEvent(e) ==
  LET saga  == published[e].saga
      rows  == RowsAfter(e)
      group == SameGroup(saga, DOMAIN rows)
  IN  [page EXCEPT !.rows =
         IF Moved(e).status = "running" THEN rows
         ELSE [s \in DOMAIN rows |-> IF s \in group THEN [rows[s] EXCEPT !.group = LeafStatus(rows, group)]
                                     ELSE rows[s]]]

\* Mutant: only events of sagas already shown.
Mutant_KnownOnly(e) == \E f \in page.shown : published[f].saga = published[e].saga

Root(saga) == FindRoot(saga, Sagas)

\* The detail page takes events of the sagas it shows and of the family of Target.
Belongs(e) ==
  LET saga == published[e].saga IN
  \/ \E f \in page.shown : published[f].saga = saga
  \/ Root(saga) = Target \/ saga = Target \/ Parent[saga] = Target

ReceiveEvent ==
  /\ stream # <<>> /\ stream' = Tail(stream)
  /\ LET e == Head(stream) IN
     page' = CASE page.kind = "dashboard" -> ProcessEvent(e)
               [] page.kind = "list"      -> HandleEvent(e)
               [] page.kind = "detail"    -> IF Belongs(e) THEN [page EXCEPT !.shown = @ \cup {e}] ELSE page
  /\ UNCHANGED <<server, asked, answers, subscribed, offered, faults>>

\* The server connects the stream, again after it was lost (EventSource); nothing is sent twice.
Subscribe ==
  /\ page.kind # "none" /\ ~subscribed
  /\ subscribed' = TRUE
  /\ UNCHANGED <<server, page, asked, answers, stream, offered, faults>>

\* Mutant: no refresh once the history is full.
Mutant_WhileGrowing(ticks) == ticks # page.ticks /\ ticks % Period = 0

Refreshes(ticks) == ticks % Period = 0

\* tick of the dashboard: the refresh goes by the length of the history, which stops growing.
Tick ==
  LET ticks == Min({page.ticks + 1, HistorySize}) IN
  /\ page.kind = "dashboard"
  /\ asked' = IF Refreshes(ticks) THEN Ask(Requests) ELSE asked
  /\ page' = [page EXCEPT !.ticks = ticks]
  /\ UNCHANGED <<server, answers, subscribed, stream, offered, faults>>

(* Faults, and the button "clear" of the dashboard: at most MaxFaults *)

Fault == faults < MaxFaults /\ faults' = faults + 1

\* clearAll: answers asked for before it still arrive.
ClearAll ==
  /\ page.kind = "dashboard" /\ Fault
  /\ page' = Blank("dashboard")
  /\ UNCHANGED <<server, asked, answers, subscribed, stream, offered>>

Lost == offered' = offered \ Range(stream) /\ stream' = <<>> /\ subscribed' = FALSE

DropStream ==
  /\ subscribed /\ Fault /\ Lost
  /\ UNCHANGED <<server, page, asked, answers>>

Redeliver ==
  \E e \in consumed :
    /\ Fault /\ consumed' = consumed \ {e}
    /\ UNCHANGED <<published, seen, events, page, asked, answers, subscribed, stream, offered>>

\* The monitor starts again: a new group, from the beginning.
Restart ==
  /\ Fault /\ Lost
  /\ consumed' = {} /\ seen' = <<>> /\ events' = [s \in Sagas |-> <<>>]
  /\ UNCHANGED <<published, page, asked, answers>>

Init ==
  /\ published = <<>> /\ consumed = {} /\ seen = <<>> /\ events = [s \in Sagas |-> <<>>]
  /\ page = Blank("none")
  /\ asked = [r \in Requests |-> 0] /\ answers = {} /\ subscribed = FALSE /\ stream = <<>> /\ offered = {}
  /\ faults = 0

Consumes  == \E e \in DOMAIN published : HandleMessage(e)
PageWorks == (\E r \in Requests : Serve(r)) \/ (\E a \in answers : Receive(a)) \/ ReceiveEvent \/ Subscribe

Next ==
  \/ AppPublishes \/ Consumes \/ PageWorks \/ Tick
  \/ \E kind \in Kinds : Open(kind)
  \/ ClearAll \/ DropStream \/ Redeliver \/ Restart

Spec == Init /\ [][Next]_vars

\* Fairness: the consumer keeps polling, the timer of the page fires, requests are answered.
FairSpec ==
  /\ Spec /\ WF_vars(Consumes) /\ WF_vars(Tick) /\ WF_vars(ReceiveEvent) /\ WF_vars(Subscribe)
  /\ \A r \in Requests : WF_vars(Serve(r)) /\ WF_vars(\E a \in answers : a.to = r /\ Receive(a))

---------------------------------------------------------------------------
(* Properties *)

AllConsumed == consumed = DOMAIN published

\* Whatever the order in which topics deliver, and whatever comes twice, the status of a group
\* ends up as the one of its events in the order of publication; events with one saga-occurred-at
\* may count in either order.  (The status of a single saga does not: it goes by arrival.)
GroupStatusIsTrue ==
  AllConsumed =>
    \A s \in Range(seen) :
      LET group  == {e \in DOMAIN published : Root(published[e].saga) = Root(s)}
          latest == {e \in group : \A f \in group : published[f].at <= published[e].at}
          comp   == \E e \in group : published[e].hint = "compensation"
      IN  GroupStatus(s) \in {Status(comp, published[e].hint) : e \in latest}

Quiet == stream = <<>> /\ answers = {}

\* A page misses only what was never sent to it, or was lost with a connection: the detail page
\* has every event of the family of Target, the list a row for every saga, fetch and stream in any order.
FeedMissesOnlyTheGap ==
  Quiet => /\ page.kind = "detail" => {e \in offered : Root(published[e].saga) = Target} \subseteq page.shown
           /\ page.kind = "list"   => {published[e].saga : e \in offered} \subseteq DOMAIN page.rows

\* The counts of the dashboard drift (late answers, events counted twice) and settle on the
\* server's when the events stop.
DashboardCatchesUp == <>[](page.kind = "dashboard" => page.counts = AggregatedStats)
=============================================================================
