------------------------------ MODULE SagaDetail ------------------------------
(***************************************************************************)
(* The page of one saga in the monitor: the queries it makes of the        *)
(* backend (GetSagaEventsQuery, findByRootId), each at its own time, while *)
(* the projector goes on, and what LiveDetail, Timeline and the waterfall  *)
(* compute from their answers (examples/monitor).                          *)
(*                                                                         *)
(* Events are numbered in the order in which they were published, and come *)
(* to the projector in the order of their topics only, in batches.  The    *)
(* row of a saga takes startedAt from the last event of the batch that     *)
(* inserts it.  Which requests overlap and which answers are dropped is in *)
(* LivePages; here an answer is a read of the tables and arrives at once.  *)
(* Left out: events that were published in the same millisecond, whose     *)
(* order is up to the database, and filters of the timeline.               *)
(***************************************************************************)
EXTENDS Integers, Sequences, FiniteSets, SequencesExt

CONSTANTS
    History,    \* the events of the tree, in the order of publication
    Views,      \* the sagas whose page may be open
    None,       \* no parent, no end
    PageSize,   \* events in a page
    MaxSpan,    \* length of the longest span that is drawn
    Now,        \* the time
    MaxFetches  \* bound on the queries of the page

Events == 1 .. Len(History)
TreeSagas == {History[e].saga : e \in Events}
Topics == {History[e].topic : e \in Events}
Time(e) == History[e].time

ASSUME TimesAssumption ==
    \A e, f \in Events : Time(e) < Now /\ (e < f => Time(e) < Time(f))
ASSUME HistoryAssumption == Len(History) \in Nat /\ \A e \in Events : Time(e) \in Nat
ASSUME NoneAssumption == None \notin Nat /\ None \notin TreeSagas
ASSUME ViewsAssumption == Views \subseteq TreeSagas
ASSUME SizesAssumption == PageSize \in Nat \ {0} /\ MaxSpan \in Nat \ {0} /\ MaxFetches \in Nat

(* saga-parent-id is the same in all events of a saga.                     *)
ParentOf(s) == History[CHOOSE e \in Events : History[e].saga = s].parent
IsRoot(s) == ParentOf(s) = None

(* The history is that of one tree: it has one root, and each other saga   *)
(* was started by a handler of an event of its parent.                     *)
ASSUME TreeAssumption ==
    /\ \A s \in TreeSagas : IsRoot(s) \/ ParentOf(s) \in TreeSagas
    /\ \A s, t \in TreeSagas : IsRoot(s) /\ IsRoot(t) => s = t
    /\ \A S \in SUBSET TreeSagas : S # {} => \E s \in S : ParentOf(s) \notin S

VARIABLES
    log,        \* table saga_event_log
    rows,       \* table saga_state: start and end
    viewed,     \* the saga whose page is open
    pages,      \* useSagaEvents: the pages that were loaded
    request,    \* the pages of the request under way, and how many it wants
    base,       \* history: the events there were when the first page was read
    tree,       \* useSagaTree
    loaded,     \* useTreeEvents, for each saga: its events
    fetches

tables == <<log, rows>>
detailVars == <<log, rows, viewed, pages, request, base, tree, loaded, fetches>>

Missing == [started |-> None, ended |-> None]
NoRequest == [pages |-> <<>>, want |-> 0, base |-> {}]
NotLoaded == {None}

DetailInit ==
    /\ log = {}
    /\ rows = [s \in TreeSagas |-> Missing]
    /\ viewed \in Views
    /\ pages = <<>>
    /\ request = NoRequest
    /\ base = {}
    /\ tree = [s \in TreeSagas |-> Missing]
    /\ loaded = [s \in TreeSagas |-> NotLoaded]
    /\ fetches = 0

-----------------------------------------------------------------------------
(* The row of a saga after the events of it in a batch, in order: those    *)
(* after a final one do not count, and of the others the last one gives    *)
(* the row its values.                                                     *)
RowAfter(row, batch) ==
    LET counted == {e \in batch : \A f \in batch : f < e => History[f].hint # "final"}
        last == CHOOSE e \in counted : \A f \in counted : f <= e
    IN IF batch = {} \/ row.ended # None THEN row
       ELSE [started |-> IF row = Missing THEN Time(last) ELSE row.started,
             ended |-> IF History[last].hint = "final" THEN Time(last) ELSE None]

(* The projector takes the next events of a topic, up to event e.          *)
Project(e) ==
    LET batch == {f \in 1 .. e : History[f].topic = History[e].topic} \ log
    IN /\ e \notin log
       /\ log' = log \cup batch
       /\ rows' = [s \in TreeSagas |-> RowAfter(rows[s], {f \in batch : History[f].saga = s})]
       /\ UNCHANGED <<viewed, pages, request, base, tree, loaded, fetches>>

-----------------------------------------------------------------------------
(* Is s a descendant of top, over sagas that have a row?  (A parent that   *)
(* is not there ends the walk.)                                            *)
Below(table, saga, top) ==
    LET below[s \in TreeSagas] ==
            s = top \/ (table[s] # Missing /\ ~IsRoot(s) /\ below[ParentOf(s)])
    IN below[saga]

(* collectDescendantIds: of a saga without a row, only itself.             *)
Descendants(s) ==
    IF rows[s] = Missing THEN {s} ELSE {d \in TreeSagas : Below(rows, d, s)}

EventsOf(sagas) == {e \in log : History[e].saga \in sagas}

(* The first events of found, as many as the limit allows.                 *)
FirstOf(found, limit) == {e \in found : Cardinality({f \in found : f <= e}) <= limit}

(* Mutant: the cursor is the first event of the next page.                 *)
Mutant_PageAtNext(s, cursor, limit) ==
    LET found == {e \in EventsOf(Descendants(s)) : e > cursor}
        data == FirstOf(found, limit)
    IN [data |-> data, next |-> IF data = found THEN 0 ELSE Min(found \ data)]

(* findBySagaIds after a cursor, and GetSagaEventsQuery.execute, which     *)
(* asks for one more than the limit to know if there is a next page.  The  *)
(* events of a page are in the order of their numbers.                     *)
Page(s, cursor, limit) ==
    LET found == {e \in EventsOf(Descendants(s)) : e > cursor}
        data == FirstOf(found, limit)
    IN [data |-> data, next |-> IF data = found THEN 0 ELSE Max(data)]

Fetch == fetches < MaxFetches /\ fetches' = fetches + 1

(* useSagaEvents: the page is opened, or "load more".                      *)
AskMore ==
    /\ request = NoRequest
    /\ pages # <<>> => Last(pages).next # 0
    /\ request' = [pages |-> pages, want |-> Len(pages) + 1, base |-> base]
    /\ UNCHANGED <<tables, viewed, pages, base, tree, loaded, fetches>>

(* An event of the stream: react-query fetches all pages again, each with  *)
(* the cursor that the page before it gives now.                           *)
Refetch ==
    /\ request = NoRequest
    /\ pages # <<>>
    /\ request' = [pages |-> <<>>, want |-> Len(pages), base |-> {}]
    /\ UNCHANGED <<tables, viewed, pages, base, tree, loaded, fetches>>

(* The next page of the request is read; the pages are shown when it has   *)
(* as many as it wants, or there are no more.                              *)
ReadPage ==
    /\ request.want > 0
    /\ Fetch
    /\ LET cursor == IF request.pages = <<>> THEN 0 ELSE Last(request.pages).next
           page == Page(viewed, cursor, PageSize)
           now == [pages |-> Append(request.pages, page),
                   want |-> request.want,
                   base |-> IF request.pages = <<>>
                            THEN EventsOf(Descendants(viewed)) ELSE request.base]
       IN IF Len(now.pages) = now.want \/ page.next = 0
          THEN pages' = now.pages /\ base' = now.base /\ request' = NoRequest
          ELSE request' = now /\ UNCHANGED <<pages, base>>
    /\ UNCHANGED <<tables, viewed, tree, loaded>>

(* useSagaTree, once the saga is known: GetSagaTreeQuery.                  *)
FetchTree ==
    /\ rows[viewed] # Missing
    /\ tree # rows
    /\ Fetch
    /\ tree' = rows
    /\ UNCHANGED <<tables, viewed, pages, request, base, loaded>>

(* filterSubtree: the whole tree of a root, or of a saga that is missing.  *)
Subtree ==
    LET known == {s \in TreeSagas : tree[s] # Missing}
    IN IF viewed \notin known \/ IsRoot(viewed) THEN known
       ELSE {s \in known : Below(tree, s, viewed)}

(* useTreeEvents: all pages of the events of a saga of the subtree.  Only  *)
(* the query of the saga of the page is invalidated by the stream.         *)
FetchTreeEvents(s) ==
    /\ s \in Subtree
    /\ loaded[s] = NotLoaded \/ s = viewed
    /\ loaded[s] # EventsOf(Descendants(s))
    /\ Fetch
    /\ loaded' = [loaded EXCEPT ![s] = EventsOf(Descendants(s))]
    /\ UNCHANGED <<tables, viewed, pages, request, base, tree>>

DetailNext ==
    \/ \E e \in Events : Project(e)
    \/ AskMore
    \/ Refetch
    \/ ReadPage
    \/ FetchTree
    \/ \E s \in TreeSagas : FetchTreeEvents(s)

DetailSpec == DetailInit /\ [][DetailNext]_detailVars

-----------------------------------------------------------------------------
TreeEvents == UNION {loaded[s] : s \in {t \in Subtree : loaded[t] # NotLoaded}}


-----------------------------------------------------------------------------
(* eventsToWaterfallSpans of the events and the sagas of the subtree.      *)
Earliest(sagas) ==
    CHOOSE s \in sagas :
        /\ \A t \in sagas : tree[s].started <= tree[t].started
        /\ s = viewed \/ \A t \in sagas : tree[t].started = tree[s].started => t # viewed

ChartStart == tree[Earliest(Subtree)].started

ChartRoot ==
    IF \E s \in Subtree : IsRoot(s) THEN CHOOSE s \in Subtree : IsRoot(s)
    ELSE Earliest(Subtree)

(* The depth of a track; of one that is not below the root, zero.          *)
Depth(saga) ==
    LET depth[s \in TreeSagas] ==
            IF s = ChartRoot \/ ~Below(tree, s, ChartRoot) THEN 0
            ELSE depth[ParentOf(s)] + 1
    IN depth[saga]

Charted == {e \in TreeEvents : History[e].saga \in Subtree}

(* Mutant: the end of a span is the next event of any saga.                *)
Mutant_LaterOfTree(e) == {f \in Charted : f > e}

Later(e) == {f \in Charted : f > e /\ History[f].saga = History[e].saga}

(* A span ends with the next event of the saga, with the saga, or now.     *)
Span(e) ==
    LET row == tree[History[e].saga]
        end == IF Later(e) # {} THEN Time(CHOOSE f \in Later(e) : \A g \in Later(e) : f <= g)
               ELSE IF row.ended # None THEN row.ended ELSE Now
        gap == IF end > Time(e) THEN end - Time(e) ELSE 1
    IN [start |-> Time(e) - ChartStart,
        duration |-> IF gap > MaxSpan THEN MaxSpan ELSE gap,
        estimated |-> gap > MaxSpan \/ (Later(e) = {} /\ row.ended = None)]

-----------------------------------------------------------------------------
(* Paging to the end misses nothing and repeats nothing, while events come *)
(* to the log in another order than they were published: all that was      *)
(* there when the first page was read is shown, once.                      *)
PagesCoverLog ==
    pages # <<>> /\ Last(pages).next = 0 =>
        /\ \A e \in base : \E n \in DOMAIN pages : e \in pages[n].data
        /\ \A m, n \in DOMAIN pages : m # n => pages[m].data \cap pages[n].data = {}

(* Spans of a saga follow each other: none reaches into the next, which it *)
(* meets unless the gap is cut.  No span lies before the chart if the rows *)
(* have the start of their sagas, and the depth is true if nothing between *)
(* a saga and the root of the chart is missing.                            *)
SpansTile ==
    LET span == [e \in Charted |-> Span(e)]
        end(e) == span[e].start + span[e].duration
        follows(e, f) == History[e].saga = History[f].saga
        noneMissing == \A s \in TreeSagas : tree[s] # Missing
    IN /\ \A e, f \in Charted :
             f > e /\ follows(e, f) =>
                 /\ end(e) <= span[f].start
                 /\ \/ span[e].estimated \/ end(e) = span[f].start
                    \/ \E g \in Charted : e < g /\ g < f /\ follows(e, g)
       /\ (\A e \in Charted : tree[History[e].saga].started <= Time(e)) =>
             \A e \in Charted : span[e].start >= 0
       /\ noneMissing /\ Charted # {} /\ ChartRoot = viewed =>
             \A s \in Subtree \ {viewed} : Depth(s) = Depth(ParentOf(s)) + 1
=============================================================================
