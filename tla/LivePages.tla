----------------------------- MODULE LivePages -----------------------------
(***************************************************************************)
(* A page of the monitor frontend that follows the live stream of the      *)
(* backend (LiveStream), over the backend's database: either the table of  *)
(* sagas or the detail of a saga.                                          *)
(*                                                                         *)
(* Table: the store of the stream (createSseStore: connection, backoff,    *)
(* window of seen ids, pause), the merging of its messages into the query  *)
(* cache (useSseInvalidation), the refetches of LiveSagaTable.  Detail: a  *)
(* stream of its own (useSse), whose messages only make the page ask again *)
(* after a pause in them (useSagaDetailStream).                            *)
(*                                                                         *)
(* A saga has a version, its eventCount; an update carries the version its *)
(* event made.  Sagas enter the cache of the table with a list only.       *)
(*                                                                         *)
(* useSyncExternalStore renders when the snapshot is another object.  The  *)
(* status is changed in place, so the table sees it when it renders for    *)
(* another reason (Render).                                                *)
(*                                                                         *)
(* Left out: filters, pages beyond the first, highlights, the lag; of the  *)
(* queries of the detail all but the one for the saga; leaving a page.     *)
(***************************************************************************)
EXTENDS LiveStream

CONSTANTS Viewer,       \* the client that is the page
          MaxSeen,      \* MAX_SEEN, 1000
          MaxUpdates,   \* bound: updates of the database
          MaxFaults     \* bound: lost connections, resent or lost publications, pauses, clicks

ASSUME ViewerAssumption == Viewer \in Clients
ASSUME BoundsAssumption == {MaxSeen, MaxUpdates, MaxFaults, MaxCommands} \subseteq Nat /\ MaxSeen > 0

VARIABLES page,         \* the channel of the page: of all sagas for the table, of its saga for the detail
          db,           \* version of each saga in the database, 0 before its first event
          toPublish,    \* updates committed and not yet published, in order
          last,         \* the latest publication, if any
          up,           \* the backend accepts connections
          source,       \* the EventSource: none, connecting or open
          timer,        \* reconnectTimer is set
          status,       \* statusSnap.status
          rendered,     \* the status in the last rendering of the table
          beaten,       \* the detail has had a heartbeat
          paused,
          seen,         \* seenQueue; seenIds are its members
          rows,         \* the query cache: version of each saga in it
          pending,      \* pendingMessages: the version to merge, by saga
          flush,        \* flushTimer is set, or the debounce of the detail
          newSeen,      \* new sagas counted for the banner
          asked,        \* a request for the list, or the saga, is unanswered
          answers,      \* the answer on its way, if any
          handed,       \* version last handed to the page by the stream (for the properties)
          excused,      \* sagas whose last update was lost or overtaken (for the properties)
          faults

store == <<source, timer, status, rendered, paused, seen, beaten>>
cache == <<rows, pending, flush, newSeen, asked, answers>>
data  == <<db, toPublish, last>>
vars  == <<page, stream, data, up, store, cache, handed, excused, faults>>

All     == <<"all">>
IsTable == page = All
Empty   == [s \in {} |-> 0]
Fault == faults < MaxFaults /\ faults' = faults + 1

(* The backend *)

\* The projector commits an event of a saga.
Commit(saga) ==
  /\ FoldFunction(+, 0, db) < MaxUpdates + IF IsTable THEN 0 ELSE 1
  /\ db' = [db EXCEPT ![saga] = @ + 1]
  /\ toPublish' = Append(toPublish, [saga |-> saga, version |-> db'[saga]])
  /\ UNCHANGED <<page, stream, last, up, store, cache, handed, excused, faults>>

Missed(msg) == IF Reaches(Viewer, msg) THEN {} ELSE {msg.saga}

Published(msg) ==
  /\ Publish(msg) /\ last' = {msg}
  /\ excused' = excused \cup Missed(msg)

PublishNext ==
  /\ up /\ toPublish # <<>> /\ toPublish' = Tail(toPublish)
  /\ Published(Head(toPublish))
  /\ UNCHANGED <<page, db, up, store, cache, handed, faults>>

\* ioredis sends a command again when its connection was lost before the answer.
Resend ==
  /\ up /\ Fault /\ \E msg \in last : Published(msg)
  /\ UNCHANGED <<page, db, toPublish, up, store, cache, handed>>

(* The store *)

Wired(client) == {wire[client][i].saga : i \in DOMAIN wire[client]}

\* Mutant: the source that failed is kept.
Mutant_KeepSource == source' = source

CloseSource == source' = "none"

\* onerror: close, and try again after the backoff.
OnError == CloseSource /\ status' = "reconnecting" /\ timer' = TRUE

\* The server takes the stream, then onopen.
OnOpen ==
  /\ source = "connecting" /\ up
  /\ Subscribe(Viewer, page)
  /\ source' = "open" /\ status' = "connected"
  /\ UNCHANGED <<page, data, up, timer, rendered, paused, seen, beaten, cache, handed, excused, faults>>

ConnectFails ==
  /\ source = "connecting" /\ ~up /\ OnError
  /\ UNCHANGED <<page, stream, data, up, rendered, paused, seen, beaten, cache, handed, excused, faults>>

ConnectionLost ==
  /\ source = "open" /\ Fault /\ OnError
  /\ Unsubscribe(Viewer)
  /\ excused' = excused \cup Wired(Viewer)
  /\ UNCHANGED <<page, data, up, rendered, paused, seen, beaten, cache, handed>>

\* connect, by the timer: unless there is a source.
Connect ==
  /\ timer /\ timer' = FALSE
  /\ source' = IF source = "none" THEN "connecting" ELSE source
  /\ UNCHANGED <<page, stream, data, up, status, rendered, paused, seen, beaten, cache, handed, excused, faults>>

\* The button, shown when the table was last rendered disconnected: destroy, then start.
Reconnect ==
  /\ IsTable /\ rendered = "disconnected" /\ Fault
  /\ source' = "connecting" /\ timer' = FALSE
  /\ IF source = "open" THEN Unsubscribe(Viewer) /\ excused' = excused \cup Wired(Viewer)
     ELSE UNCHANGED <<stream, excused>>
  /\ UNCHANGED <<page, data, up, status, rendered, paused, seen, beaten, cache, handed>>

SetPaused(v) ==
  /\ IsTable /\ paused # v /\ paused' = v
  /\ IF v THEN Fault ELSE UNCHANGED faults
  /\ UNCHANGED <<page, stream, data, up, source, timer, status, rendered, seen, beaten, cache, handed, excused>>

\* pendingMessages: only the latest message of a saga.
Pend(m) == [s \in DOMAIN pending \cup {m.saga} |-> IF s = m.saga THEN m.version ELSE pending[s]]

Window(m) == IF Len(seen) = MaxSeen THEN Append(Tail(seen), m) ELSE Append(seen, m)

\* onmessage: not again what is in the window; a message dropped by the pause is in it.
OnMessage ==
  /\ source = "open" /\ wire[Viewer] # <<>>
  /\ wire' = [wire EXCEPT ![Viewer] = Tail(@)]
  /\ LET m == Head(wire[Viewer]) IN
     \/ m \in Range(seen) /\ UNCHANGED <<seen, pending, flush, handed, excused>>
     \/ /\ m \notin Range(seen)
        /\ seen' = Window(m)
        /\ IF paused THEN excused' = excused \cup {m.saga} /\ UNCHANGED <<pending, flush, handed>>
           ELSE /\ pending' = IF IsTable THEN Pend(m) ELSE pending
                /\ flush' = TRUE
                /\ handed' = [handed EXCEPT ![m.saga] = m.version]
                /\ excused' = IF m.version = db[m.saga] THEN excused \ {m.saga} ELSE excused
  /\ UNCHANGED <<page, follows, callbacks, commands, redis, data, up, source, timer, status, rendered, paused, beaten,
                 rows, newSeen, asked, answers, faults>>

\* A heartbeat of the server has no event id: the store ignores it, useSse takes the first one
\* for a message, which never leaves its seenIds but has a place in seenQueue.
Beat == [saga |-> page[2], version |-> 0]

Heartbeat ==
  /\ ~IsTable /\ source = "open" /\ wire[Viewer] = <<>> /\ ~beaten /\ beaten' = TRUE
  /\ seen' = Window(Beat) /\ flush' = TRUE
  /\ UNCHANGED <<page, stream, data, up, source, timer, status, rendered, paused, rows, pending, newSeen,
                 asked, answers, handed, excused, faults>>

(* The table *)

\* The flush timer: rows there are get what is pending; other sagas are counted.
Flush ==
  /\ IsTable /\ flush /\ flush' = FALSE
  /\ rows' = [s \in DOMAIN rows |-> IF s \in DOMAIN pending THEN pending[s] ELSE rows[s]]
  /\ newSeen' = newSeen \cup (DOMAIN pending \ DOMAIN rows)
  /\ pending' = Empty
  /\ rendered' = status
  /\ excused' = excused \cup {s \in DOMAIN rows \cap DOMAIN pending : pending[s] < rows[s]}
  /\ UNCHANGED <<page, stream, data, up, source, timer, status, paused, seen, beaten, asked, answers, handed, faults>>

Render ==
  /\ IsTable /\ rendered' = status
  /\ UNCHANGED <<page, stream, data, up, source, timer, status, paused, seen, beaten, cache, handed, excused, faults>>

\* invalidateQueries: a new request; the one before is cancelled.
Refetch == asked' = TRUE /\ answers' = {}

\* The fallback of the table: every 10 s while it is rendered disconnected.
Poll ==
  /\ IsTable /\ rendered = "disconnected" /\ ~asked /\ answers = {} /\ Refetch
  /\ UNCHANGED <<page, stream, data, up, store, rows, pending, flush, newSeen, handed, excused, faults>>

\* handleRefresh, the banner: the count and the cache are reset.
HandleRefresh ==
  /\ newSeen # {} /\ newSeen' = {}
  /\ rows' = Empty /\ Refetch
  /\ UNCHANGED <<page, stream, data, up, store, pending, flush, handed, excused, faults>>

(* The detail *)

\* Mutant: a request on its way is kept.
Mutant_KeepRequest == IF asked \/ answers # {} THEN UNCHANGED <<asked, answers>> ELSE Refetch

\* invalidateQueries: while the first answer is awaited, there is nothing to invalidate.
Revalidate == IF rows = Empty /\ (asked \/ answers # {}) THEN UNCHANGED <<asked, answers>> ELSE Refetch

\* The debounce: no message for 300 ms.
Invalidate ==
  /\ ~IsTable /\ flush /\ flush' = FALSE
  /\ Revalidate
  /\ UNCHANGED <<page, stream, data, up, store, rows, pending, newSeen, handed, excused, faults>>

(* Answers *)

Requested == IF IsTable THEN {s \in Sagas : db[s] > 0} ELSE {page[2]}

Serve ==
  /\ up /\ asked /\ asked' = FALSE
  /\ answers' = {[s \in Requested |-> db[s]]}
  /\ UNCHANGED <<page, stream, data, up, store, rows, pending, flush, newSeen, handed, excused, faults>>

\* Of the answer, what is older than a message: the list replaces rows a message made newer; the
\* detail asks again, unless that was while it awaited its first answer.
Overtaken(answer) ==
  {s \in DOMAIN answer : answer[s] < handed[s] /\ (IsTable \/ rows = Empty)}

Receive ==
  \E answer \in answers :
    /\ answers' = {} /\ rows' = answer /\ rendered' = IF IsTable THEN status ELSE rendered
    /\ excused' = (excused \ {s \in DOMAIN answer : answer[s] = db[s]}) \cup Overtaken(answer)
    /\ UNCHANGED <<page, stream, data, up, source, timer, status, paused, seen, beaten, pending, flush, newSeen,
                   asked, handed, faults>>

(* The process of the backend stops, and comes back *)

Outage ==
  /\ up /\ Fault /\ up' = FALSE
  /\ StreamStops
  /\ toPublish' = <<>> /\ last' = {}
  /\ excused' = excused \cup Wired(Viewer) \cup {toPublish[i].saga : i \in DOMAIN toPublish}
  /\ IF source = "open" THEN OnError ELSE UNCHANGED <<source, status, timer>>
  /\ UNCHANGED <<page, db, rendered, paused, seen, beaten, cache, handed>>

Back ==
  /\ ~up /\ up' = TRUE
  /\ UNCHANGED <<page, stream, data, store, cache, handed, excused, faults>>

\* The detail is opened for a saga there is.
Init ==
  /\ StreamInit
  /\ page \in {All} \cup {<<"id", s>> : s \in Sagas}
  /\ db = [s \in Sagas |-> IF page = <<"id", s>> THEN 1 ELSE 0] /\ toPublish = <<>> /\ last = {} /\ up = TRUE
  /\ source = "connecting" /\ timer = FALSE /\ status = "disconnected" /\ rendered = "disconnected"
  /\ paused = FALSE /\ seen = <<>> /\ beaten = FALSE
  /\ rows = Empty /\ pending = Empty /\ flush = FALSE /\ newSeen = {}
  /\ asked = TRUE /\ answers = {}
  /\ handed = [s \in Sagas |-> 0] /\ excused = {} /\ faults = 0

\* Other browsers share the channels of the table.
OthersComeAndGo ==
  /\ up /\ \E c \in Clients \ {Viewer} : Joins(c) \/ Unsubscribe(c)
  /\ UNCHANGED <<page, data, up, store, cache, handed, excused, faults>>

RedisWorks == RedisServes /\ UNCHANGED <<page, data, up, store, cache, handed, excused, faults>>

Next ==
  \/ (\E s \in Sagas : Commit(s)) \/ PublishNext \/ Resend \/ RedisWorks \/ OthersComeAndGo
  \/ OnOpen \/ ConnectFails \/ ConnectionLost \/ Connect \/ Reconnect \/ OnMessage \/ Heartbeat
  \/ (\E v \in BOOLEAN : SetPaused(v))
  \/ Flush \/ Render \/ Poll \/ HandleRefresh \/ Invalidate \/ Serve \/ Receive
  \/ Outage \/ Back

Spec == Init /\ [][Next]_vars

\* Fairness: the browser's timers and connections make progress, a backend that stopped comes back.
FairSpec == Spec /\ WF_vars(OnOpen) /\ WF_vars(ConnectFails) /\ WF_vars(Connect) /\ WF_vars(Back)

---------------------------------------------------------------------------
(* Properties *)

Rest == wire[Viewer] = <<>> /\ toPublish = <<>> /\ ~flush /\ ~asked /\ answers = {}

\* When everything has arrived, the page shows the version of the database: of a row of the table,
\* or of the saga of the detail, unless its last update was lost on the way, paused, or overtaken
\* by an older answer or an older message; and a saga the table was told of is in it or counted in
\* the banner.
PageFollows ==
  Rest => /\ \A s \in DOMAIN rows : rows[s] = db[s] \/ s \in excused
          /\ IF IsTable THEN \A s \in Sagas : handed[s] > 0 => s \in DOMAIN rows \cup newSeen
             ELSE page[2] \in DOMAIN rows

\* Outages and lost connections end: the page is connected again.
Reconnects == <>[](source = "open" /\ status = "connected")
=============================================================================
