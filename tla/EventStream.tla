----------------------------- MODULE EventStream -----------------------------
(***************************************************************************)
(* How a browser follows the jobs: the event stream of the server          *)
(* (runtime/registry.py, runtime/events.py, stream() of server/asgi.py)    *)
(* and its consumer in web/src/realtime.                                   *)
(*                                                                         *)
(* The browser combines three sources that overtake each other: the        *)
(* snapshot at the head of each connection, the events that follow it, and *)
(* the responses of GET /api/jobs.  Events may be evicted from the replay  *)
(* buffer before they are sent; connections break and requests fail; the   *)
(* server restarts, on the same registry or on another one.                *)
(***************************************************************************)
EXTENDS Integers, Sequences, FiniteSets

CONSTANTS
  Jobs,         \* job identifiers, of any registry
  Replay,       \* size of the replay buffer (event_limit)
  Keep,         \* events that a record keeps across a restart
  MaxEvents,    \* bound on the events of a registry
  MaxDrops,     \* bound on failures: broken connections, failed requests, restarts
  None          \* no job, no state, no message

ASSUME StreamAssumption ==
  /\ Replay \in Nat \ {0} /\ Keep \in Nat \ {0} /\ MaxEvents \in Nat /\ MaxDrops \in Nat

VARIABLES
  rec,        \* server: job -> its state, sequence and last event (0: none)
  order,      \* server: the jobs as they were reserved
  log,        \* server: the events that were published
  ring,       \* server: the replay buffer, registry._events
  used,       \* history: identifiers that were given to jobs (UUIDs)
  open,       \* an event stream connects the browser to this server
  sent,       \* server: cursor of that stream
  wire,       \* what was sent on it and not received
  view,       \* browser: state.jobs
  cursor,     \* browser: state.cursor
  seen,       \* browser: state.seen
  lastId,     \* browser: Last-Event-ID, which only progress events set
  refreshing, dirty,   \* browser: a GET /api/jobs is under way; another one is due
  response,   \* its response, once the server made it
  timer,      \* browser: flushTimer is set
  link,       \* browser: hasSnapshot ("new" before) and connected ("up", else "lost")
  live,       \* browser: the page says that it is Live (view.connection)
  visible,    \* browser: the page is not hidden
  drops

server  == <<rec, order, log, ring, used>>
stream  == <<open, sent, wire>>
state   == <<view, cursor, seen>>
fetch   == <<refreshing, dirty, response, timer>>
page    == <<link, live, visible>>
vars    == <<server, stream, state, lastId, fetch, page, drops>>

JobState == [state : {"running", "final"}, seq : Nat, last : Nat]
Event    == [id : Nat, job : Jobs, seq : Nat, kind : {"state", "stage", "delta"},
             state : {"running", "final", None}]
Snapshot == [jobs : [Jobs -> JobState \cup {None}], cursor : Nat]

\* A record, a snapshot or a state is never taken for the absence of one.
ASSUME NoneAssumption == None \notin JobState \cup Snapshot \cup {"running", "final"}

Nothing == [j \in Jobs |-> None]
Latest(e, f)   == IF e > f THEN e ELSE f
Newest(S, n)   == {e \in S : Cardinality({f \in S : f.id > e.id}) < n}
LastEvent      == Cardinality(log)

Init ==
  /\ rec = Nothing /\ order = <<>> /\ log = {} /\ ring = {} /\ used = {}
  /\ open = FALSE /\ sent = 0 /\ wire = <<>>
  /\ view = Nothing /\ cursor = 0 /\ seen = {} /\ lastId = None
  /\ refreshing = FALSE /\ dirty = FALSE /\ response = None /\ timer = FALSE
  /\ link = "new" /\ live = FALSE /\ visible \in BOOLEAN
  /\ drops = 0

-----------------------------------------------------------------------------
(* The server *)

IsActive(j) == rec[j] # None /\ rec[j].state = "running"

\* registry.current(): the active jobs and the latest of the workspace.
Current == {j \in Jobs : IsActive(j) \/ (order # <<>> /\ j = order[Len(order)])}

Snap == [jobs |-> [j \in Jobs |-> IF j \in Current THEN rec[j] ELSE None], cursor |-> LastEvent]

Evict(S) == Newest(S, Replay)

\* registry.append: the event gets the next identifier, of the registry and of its job.
Published(j, seq, kind, st) ==
  LET e == [id |-> LastEvent + 1, job |-> j, seq |-> seq, kind |-> kind, state |-> st]
  IN  log' = log \cup {e} /\ ring' = Evict(ring \cup {e})

Quiet == UNCHANGED <<stream, state, lastId, fetch, page, drops>>

\* UUIDs: any identifier that no job had.
Fresh == CHOOSE j \in Jobs : j \notin used

\* supervisor.start: reserve and the event "starting", one critical section.
JobStarts(j) ==
  /\ j \notin used /\ j = Fresh /\ LastEvent < MaxEvents
  /\ \A i \in Jobs : ~IsActive(i)
  /\ used' = used \cup {j} /\ order' = Append(order, j)
  /\ Published(j, 1, "state", "running")
  /\ rec' = [rec EXCEPT ![j] = [state |-> "running", seq |-> 1, last |-> LastEvent + 1]]
  /\ Quiet

\* The next event of a job, and its record with it: a frame of the worker (st is None), or
\* _state, whose save and publish are one critical section.
JobReports(j, kind, st) ==
  /\ IsActive(j) /\ LastEvent < MaxEvents
  /\ Published(j, rec[j].seq + 1, kind, st)
  /\ rec' = [rec EXCEPT ![j] = [state |-> IF st = None THEN @.state ELSE st,
                                seq |-> @.seq + 1, last |-> LastEvent + 1]]
  /\ UNCHANGED <<order, used>> /\ Quiet

JobProgresses(j) == \E kind \in {"stage", "delta"} : JobReports(j, kind, None)
JobEnds(j)       == JobReports(j, "state", "final")

\* stream(): every connection begins with a snapshot; events are sent from the client's
\* Last-Event-ID on, unless this registry has not come that far.
Connect ==
  /\ ~open
  /\ open' = TRUE /\ wire' = <<[type |-> "snapshot", value |-> Snap]>>
  /\ sent' = IF lastId # None /\ lastId <= LastEvent THEN lastId ELSE LastEvent
  /\ UNCHANGED <<server, state, lastId, fetch, page, drops>>

\* The events that broker.read finds after the stream's cursor, in order.
Pending == {e \in ring : e.id > sent}
InOrder(S) == {s \in [1..Cardinality(S) -> S] : \A i, k \in DOMAIN s : i < k => s[i].id < s[k].id}

\* One round of generate(); the next one waits until the browser has taken these.
StreamSends ==
  /\ open /\ wire = <<>> /\ Pending # {}
  /\ \E s \in InOrder(Pending) :
        /\ wire' = [i \in 1..Cardinality(Pending) |-> [type |-> "progress", value |-> s[i]]]
        /\ sent' = s[Cardinality(Pending)].id
  /\ UNCHANGED <<server, open, state, lastId, fetch, page, drops>>

\* GET /api/jobs, on the server.
Answer ==
  /\ refreshing /\ response = None
  /\ response' = Snap
  /\ UNCHANGED <<server, stream, state, lastId, refreshing, dirty, timer, page, drops>>

-----------------------------------------------------------------------------
(* The browser: state.ts *)

\* The combination of what is shown with a snapshot.  A job that the snapshot omits stays
\* only if there is later evidence of it; a job that it has stays if it is further on.

\* Faulty variant of Outlives: whatever a snapshot omits is over.
OutlivesNever(shown, value) == FALSE
Outlives(shown, value) == shown # None /\ shown.last > value.cursor

\* Faulty variant of Ahead: the response is always taken to be the newer one.
AheadNever(shown, job) == FALSE
Ahead(shown, job) == shown # None /\ shown.seq > job.seq

Combined(shown, value) ==
  [j \in Jobs |-> IF value.jobs[j] = None
                  THEN IF Outlives(shown[j], value) THEN shown[j] ELSE None
                  ELSE IF Ahead(shown[j], value.jobs[j]) THEN shown[j] ELSE value.jobs[j]]

\* A stream's snapshot with a lower cursor starts over: this registry is another one.
Resets(value) == value.cursor < cursor

ApplySnapshot(value, allowReset) ==
  LET reset == allowReset /\ Resets(value)
  IN  /\ view' = Combined(IF reset THEN Nothing ELSE view, value)
      /\ cursor' = Latest(IF reset THEN 0 ELSE cursor, value.cursor)
      /\ seen' = IF reset THEN {} ELSE seen

Applied(e) == view[e.job] # None /\ e.seq > view[e.job].seq

Gap(e) == view[e.job] = None \/ e.seq > view[e.job].seq + 1

ApplyProgress(e) ==
  IF e.id \in seen THEN UNCHANGED state
  ELSE /\ seen' = seen \cup {e.id} /\ cursor' = Latest(cursor, e.id)
       /\ view' = IF ~Applied(e) THEN view
                  ELSE [view EXCEPT ![e.job] = [state |-> IF e.state = None THEN @.state ELSE e.state,
                                                seq |-> e.seq, last |-> e.id]]

-----------------------------------------------------------------------------
(* The browser: coordinator.tsx *)

\* refresh(): at most one request at a time.
Refresh ==
  IF refreshing THEN dirty' = TRUE /\ UNCHANGED <<refreshing, response>>
  ELSE refreshing' = TRUE /\ response' = None /\ UNCHANGED dirty

RefreshNow   == timer' = FALSE /\ Refresh
RefreshSoon  == timer' = TRUE /\ UNCHANGED <<refreshing, dirty, response>>

SnapshotArrives ==
  /\ open /\ wire # <<>> /\ Head(wire).type = "snapshot"
  /\ ApplySnapshot(Head(wire).value, TRUE) /\ wire' = Tail(wire)
  /\ link' = "up" /\ live' = TRUE
  /\ RefreshNow
  /\ UNCHANGED <<server, open, sent, lastId, visible, drops>>

\* A gap and the end of a job refresh at once, other events after 900 ms, deltas not at all.
ProgressArrives ==
  /\ open /\ wire # <<>> /\ Head(wire).type = "progress"
  /\ LET e == Head(wire).value
         gap == e.id \notin seen /\ Gap(e)
     IN  /\ ApplyProgress(e) /\ lastId' = e.id
         /\ IF gap \/ e.state = "final" THEN RefreshNow
            ELSE IF e.kind = "delta" THEN UNCHANGED fetch ELSE RefreshSoon
  /\ wire' = Tail(wire)
  /\ UNCHANGED <<server, open, sent, page, drops>>

TimerFires ==
  /\ timer /\ RefreshNow
  /\ UNCHANGED <<server, stream, state, lastId, page, drops>>

\* The interval: every 5 s, or every 30 s while connected, and only while the page is visible.
Polls ==
  /\ visible /\ RefreshNow
  /\ UNCHANGED <<server, stream, state, lastId, page, drops>>

\* resume(): the page is shown or gets the focus, or the browser is online again.
Resumes ==
  /\ visible' = TRUE
  /\ link' = IF open /\ link = "lost" THEN "up" ELSE link
  /\ RefreshNow
  /\ UNCHANGED <<server, stream, state, lastId, live, drops>>

PageHides ==
  /\ visible /\ visible' = FALSE
  /\ UNCHANGED <<server, stream, state, lastId, fetch, link, live, drops>>

\* Faulty variant of Again: a refresh that was asked for during another one is dropped.
AgainNever == refreshing' = FALSE /\ dirty' = FALSE /\ response' = None
\* The end of refresh(): the one that was asked for meanwhile follows.
Again == refreshing' = dirty /\ dirty' = FALSE /\ response' = None

RefreshArrives ==
  /\ response # None
  /\ ApplySnapshot(response, FALSE)
  /\ live' = (link = "up")
  /\ Again /\ UNCHANGED <<server, stream, lastId, timer, link, visible, drops>>

-----------------------------------------------------------------------------
(* Failures *)

Fault == drops < MaxDrops /\ drops' = drops + 1

\* The request is rejected, before the server answers or after: nothing is applied, and
\* nothing asks again but a refresh that was asked for meanwhile.
RefreshFails ==
  /\ refreshing /\ Fault
  /\ live' = FALSE /\ Again
  /\ UNCHANGED <<server, stream, state, lastId, timer, link, visible>>

\* onerror, and the event "offline": connected = false.
Disconnected ==
  /\ Fault
  /\ link' = (IF link = "up" THEN "lost" ELSE link) /\ live' = FALSE
  /\ UNCHANGED <<state, lastId, timer, visible>>

\* The connection breaks, with what was on it; a request goes its own way.
StreamBreaks ==
  /\ open /\ open' = FALSE /\ wire' = <<>> /\ sent' = 0
  /\ Disconnected
  /\ UNCHANGED <<server, refreshing, dirty, response>>

\* The browser is told that it is offline, which ends neither the connection nor a request.
GoesOffline ==
  /\ link = "up" /\ Disconnected
  /\ UNCHANGED <<server, stream, refreshing, dirty, response>>

\* The server ends, with the connection and with the request if one is under way.
Broken ==
  /\ open' = FALSE /\ wire' = <<>> /\ sent' = 0
  /\ IF refreshing THEN Again ELSE UNCHANGED <<refreshing, dirty, response>>
  /\ Disconnected

\* JobRegistry.__init__: the replay buffer is filled from the records, and the jobs that
\* were active are abandoned with save(), which publishes no event.
Restart ==
  /\ Broken
  /\ rec' = [j \in Jobs |-> IF IsActive(j) THEN [rec[j] EXCEPT !.state = "final"] ELSE rec[j]]
  /\ ring' = Evict(UNION {Newest({e \in log : e.job = j}, Keep) : j \in Jobs})
  /\ UNCHANGED <<order, log, used>>

\* A server with another registry answers at the same address.
Replace ==
  /\ Broken /\ order # <<>>
  /\ rec' = Nothing /\ order' = <<>> /\ log' = {} /\ ring' = {}
  /\ UNCHANGED used

Next ==
  \/ \E j \in Jobs : JobStarts(j) \/ JobProgresses(j) \/ JobEnds(j)
  \/ Connect \/ StreamSends \/ Answer
  \/ SnapshotArrives \/ ProgressArrives \/ TimerFires \/ RefreshArrives
  \/ Polls \/ Resumes \/ PageHides
  \/ RefreshFails \/ StreamBreaks \/ GoesOffline \/ Restart \/ Replace

Spec == Init /\ [][Next]_vars

\* EventSource reconnects, the stream's loop sends what is there, the browser's event loop
\* takes what arrives, its timers fire, the interval of a visible page among them, and a
\* request is answered unless it fails.  There is none for the user: the page may stay hidden.
Fairness ==
  /\ WF_vars(Connect) /\ WF_vars(StreamSends) /\ WF_vars(Answer)
  /\ WF_vars(SnapshotArrives) /\ WF_vars(ProgressArrives)
  /\ WF_vars(RefreshArrives) /\ WF_vars(TimerFires) /\ WF_vars(Polls)

FairSpec == Spec /\ Fairness

-----------------------------------------------------------------------------
(* Properties *)

StartsOver == SnapshotArrives /\ Resets(Head(wire).value)

\* What is shown of a job never goes back, whatever overtakes what: its sequence does not
\* decrease and an end is not undone, except when a new connection's snapshot makes the
\* browser start over.
NeverGoesBack ==
  [][\A j \in Jobs : view[j] # None /\ view'[j] # None /\ ~StartsOver =>
        /\ view'[j].seq >= view[j].seq
        /\ view[j].state = "final" => view'[j].state = "final"]_vars

\* A job that the server lists does not vanish from the page because an older response,
\* made before the job existed, comes in late.
ListedJobsStay ==
  [][\A j \in Jobs : view[j] # None /\ j \in Current /\ ~StartsOver => view'[j] # None]_vars

\* Both: whatever overtakes what, nothing that the page shows is taken back.
NothingIsTakenBack == NeverGoesBack /\ ListedJobsStay

\* When nothing more happens the page shows what the server lists, whatever was evicted,
\* lost, rejected or overtaken.  It stays behind only while it is hidden, so that nothing
\* polls, and then it does not say that it is Live: a page that says so needs no poll.
EventuallyCurrent == <>[](view = Snap.jobs \/ (~visible /\ ~live))
=============================================================================
