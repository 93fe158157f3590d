-------------------------- MODULE EventStreamProofs --------------------------
(***************************************************************************)
(* Theorems about the module EventStream, for every set of jobs and every  *)
(* size of the replay buffer, and however often the connection breaks, a   *)
(* request fails and the server restarts or is replaced.                   *)
(***************************************************************************)
EXTENDS EventStream, SequenceTheorems, FiniteSetTheorems, TLAPS

Message == [type : {"snapshot"}, value : Snapshot] \cup [type : {"progress"}, value : Event]

\* What is known of a job, x, against the record of it, r: it is not ahead of the record, and
\* says "final" only of the last event.  Its own last event was published (L: the log).
Behind(x, r) ==
  /\ r # None /\ x.seq <= r.seq
  /\ x.state = "final" => r.state = "final" /\ x.seq = r.seq
Dated(x, j, L) == \E e \in L : e.job = j /\ e.id = x.last

\* A snapshot v under way: as far as it has come it says what the record says, and a job that
\* it omits and that is current began after it.
Faithful(v, R, L, cur) ==
  /\ v \in Snapshot
  /\ v.cursor <= Cardinality(L)
  /\ \A j \in Jobs : v.jobs[j] # None =>
        /\ Behind(v.jobs[j], R[j])
        /\ v.jobs[j].seq = R[j].seq => v.jobs[j].state = R[j].state
        /\ Dated(v.jobs[j], j, L)
  /\ \A j \in cur : v.jobs[j] = None => \A e \in L : e.job = j => e.id > v.cursor

RecInv ==
  /\ rec \in [Jobs -> JobState \cup {None}] /\ used \subseteq Jobs
  /\ \A j \in Jobs : rec[j] # None => j \in used /\ Dated(rec[j], j, log)
OrderInv == order \in Seq(Jobs) /\ \A i \in 1..Len(order) : rec[order[i]] # None
LogInv ==
  /\ IsFiniteSet(log) /\ log \subseteq Event /\ ring \subseteq log
  /\ \A e \in log : e.id \in 1..Cardinality(log) /\ Behind(e, rec[e.job])
WireInv ==
  /\ wire \in Seq(Message)
  /\ \A i \in 1..Len(wire) : IF wire[i].type = "snapshot"
                             THEN Faithful(wire[i].value, rec, log, Current)
                             ELSE wire[i].value \in log
ResponseInv ==
  response # None => refreshing /\ Faithful(response, rec, log, Current)
ViewInv ==
  /\ view \in [Jobs -> JobState \cup {None}]
  /\ \A j \in Jobs : view[j] # None =>
        /\ j \in used
        /\ rec[j] # None => Behind(view[j], rec[j]) /\ Dated(view[j], j, log)
SInv == RecInv /\ OrderInv /\ LogInv /\ WireInv /\ ResponseInv /\ ViewInv

-----------------------------------------------------------------------------
(* The growth of the log *)

LEMMA EventIsLogged ==
  ASSUME SInv, NEW e \in Event, e.id = LastEvent + 1,
         log' = log \cup {e}, ring' = Evict(ring \cup {e})
  PROVE  /\ IsFiniteSet(log') /\ log' \subseteq Event /\ ring' \subseteq log'
         /\ Cardinality(log) \in Nat /\ Cardinality(log') = Cardinality(log) + 1
         /\ log \subseteq log'
  <1>1. IsFiniteSet(log) /\ Cardinality(log) \in Nat
    BY FS_CardinalityType DEF SInv, LogInv
  <1>2. e \notin log
    BY <1>1 DEF SInv, LogInv, LastEvent
  <1>3. IsFiniteSet(log') /\ Cardinality(log') = Cardinality(log) + 1
    BY <1>1, <1>2, FS_AddElement
  <1>4. ring' \subseteq log'
    BY DEF SInv, LogInv, Evict, Newest
  <1> QED BY <1>1, <1>3, <1>4 DEF SInv, LogInv

\* What is under way stays faithful while jobs begin and go on.
LEMMA StaysFaithful ==
  ASSUME NEW R, NEW S, NEW L, NEW M, NEW cur, NEW now, NEW v, Faithful(v, R, L, cur),
         R \in [Jobs -> JobState \cup {None}], S \in [Jobs -> JobState \cup {None}],
         now \subseteq Jobs,
         L \subseteq M, Cardinality(L) \in Nat, Cardinality(M) = Cardinality(L) + 1,
         \A e \in M : e \in L \/ e.id = Cardinality(M),
         \A j \in Jobs : R[j] # None =>
            \/ S[j] = R[j]
            \/ R[j].state = "running" /\ S[j] # None /\ S[j].seq > R[j].seq,
         \A j \in now : j \in cur \/ \A e \in L : e.job # j
  PROVE  Faithful(v, S, M, now)
  <1>1. v.cursor \in Nat /\ v.cursor < Cardinality(M)
    BY DEF Faithful, Snapshot
  <1>2. ASSUME NEW j \in Jobs, v.jobs[j] # None
        PROVE  /\ Behind(v.jobs[j], S[j])
               /\ v.jobs[j].seq = S[j].seq => v.jobs[j].state = S[j].state
               /\ Dated(v.jobs[j], j, M)
    <2>1. /\ Behind(v.jobs[j], R[j]) /\ R[j] # None
          /\ v.jobs[j].seq = R[j].seq => v.jobs[j].state = R[j].state
          /\ Dated(v.jobs[j], j, L)
      BY <1>2 DEF Faithful, Behind
    <2>2. Dated(v.jobs[j], j, M)
      BY <2>1 DEF Dated
    <2>3. CASE S[j] = R[j]
      BY <2>1, <2>2, <2>3
    <2>4. CASE R[j].state = "running" /\ S[j] # None /\ S[j].seq > R[j].seq
      <3>1. v.jobs[j].seq \in Nat /\ R[j].seq \in Nat /\ S[j].seq \in Nat
        BY <1>2, <2>1, <2>4 DEF Faithful, Snapshot, JobState
      <3> QED BY <2>1, <2>2, <2>4, <3>1 DEF Behind
    <2> QED BY <2>1, <2>3, <2>4
  <1>3. ASSUME NEW j \in now, v.jobs[j] = None, NEW e \in M, e.job = j
        PROVE  e.id > v.cursor
    BY <1>1, <1>3 DEF Faithful
  <1> QED BY <1>1, <1>2, <1>3 DEF Faithful

\* The same for what is shown.
LEMMA ServerMoves ==
  ASSUME SInv, Quiet, RecInv', OrderInv', LogInv', log \subseteq log',
         Cardinality(log) \in Nat, Cardinality(log') = Cardinality(log) + 1,
         \A e \in log' : e \in log \/ e.id = Cardinality(log'),
         \A j \in Jobs : rec[j] # None =>
            \/ rec'[j] = rec[j]
            \/ rec[j].state = "running" /\ rec'[j] # None /\ rec'[j].seq > rec[j].seq,
         \A j \in Jobs : rec[j] = None /\ rec'[j] # None => j \notin used,
         used \subseteq used',
         \A j \in Current' : j \in Current \/ \A e \in log : e.job # j
  PROVE  SInv'
  <1>1. Current' \subseteq Jobs
    BY DEF Current
  <1>2. rec \in [Jobs -> JobState \cup {None}] /\ rec' \in [Jobs -> JobState \cup {None}]
    BY DEF SInv, RecInv
  <1>3. \A v : Faithful(v, rec, log, Current) => Faithful(v, rec', log', Current')
    BY <1>1, <1>2, StaysFaithful
  <1>4. WireInv'
    BY <1>3 DEF SInv, WireInv, Quiet, stream
  <1>5. ResponseInv'
    BY <1>3 DEF SInv, ResponseInv, Quiet, fetch
  <1>6. ASSUME NEW j \in Jobs, view[j] # None, rec'[j] # None
        PROVE  Behind(view[j], rec'[j]) /\ Dated(view[j], j, log')
    <2>1. rec[j] # None
      BY <1>6 DEF SInv, ViewInv
    <2>2. Behind(view[j], rec[j]) /\ Dated(view[j], j, log')
      BY <1>6, <2>1 DEF SInv, ViewInv, Dated
    <2>3. view[j].seq \in Nat /\ rec[j].seq \in Nat /\ rec'[j].seq \in Nat
      BY <1>2, <1>6, <2>1 DEF SInv, ViewInv, JobState
    <2> QED BY <1>6, <2>1, <2>2, <2>3 DEF Behind
  <1>7. ViewInv'
    BY <1>6 DEF SInv, ViewInv, Quiet, state
  <1> QED BY <1>4, <1>5, <1>7 DEF SInv

-----------------------------------------------------------------------------
(* Every step preserves the invariant *)

LEMMA StartKeeps ==
  ASSUME SInv, NEW j \in Jobs, JobStarts(j)
  PROVE  SInv'
  <1> DEFINE e == [id |-> LastEvent + 1, job |-> j, seq |-> 1, kind |-> "state", state |-> "running"]
             r == [state |-> "running", seq |-> 1, last |-> LastEvent + 1]
  <1>1. /\ j \notin used /\ used' = used \cup {j} /\ order' = Append(order, j)
        /\ log' = log \cup {e} /\ ring' = Evict(ring \cup {e})
        /\ rec' = [rec EXCEPT ![j] = r] /\ Quiet
        /\ \A i \in Jobs : ~IsActive(i)
    BY DEF JobStarts, Published
  <1>2. Cardinality(log) \in Nat
    BY FS_CardinalityType DEF SInv, LogInv
  <1>3. e \in Event /\ r \in JobState /\ r # None
    BY <1>2, NoneAssumption DEF Event, JobState, LastEvent
  <1>4. /\ IsFiniteSet(log') /\ log' \subseteq Event /\ ring' \subseteq log'
        /\ Cardinality(log') = Cardinality(log) + 1 /\ log \subseteq log'
    BY <1>1, <1>3, EventIsLogged
  <1>5. e.id = Cardinality(log') /\ e.job = j /\ e.seq = 1 /\ e.state = "running"
        /\ r.seq = 1 /\ r.last = e.id /\ r.state = "running"
    BY <1>4 DEF LastEvent
  <1> HIDE DEF e, r
  <1>6. \A d \in log : d.job # j
    BY <1>1 DEF SInv, RecInv, LogInv, Behind, Event
  <1>7. /\ rec[j] = None /\ rec'[j] = r /\ (\A i \in Jobs : i # j => rec'[i] = rec[i])
        /\ rec' \in [Jobs -> JobState \cup {None}]
    BY <1>1, <1>3 DEF SInv, RecInv
  <1>8. RecInv'
    BY <1>1, <1>4, <1>5, <1>7 DEF SInv, RecInv, Dated
  <1>9. OrderInv'
    <2>1. /\ Append(order, j) \in Seq(Jobs) /\ Len(Append(order, j)) = Len(order) + 1
          /\ (\A i \in 1..Len(order) : Append(order, j)[i] = order[i])
          /\ Append(order, j)[Len(order) + 1] = j /\ Len(order) \in Nat
      BY AppendProperties, LenProperties DEF SInv, OrderInv
    <2>2. \A i \in 1..Len(order) : order[i] \in Jobs /\ rec[order[i]] # None
      BY ElementOfSeq DEF SInv, OrderInv
    <2>3. \A i \in 1..Len(order) + 1 : i \in 1..Len(order) \/ i = Len(order) + 1
      BY <2>1
    <2> QED BY <1>1, <1>3, <1>7, <2>1, <2>2, <2>3 DEF OrderInv
  <1>10. LogInv'
    <2>1. \A d \in log : d.id \in 1..Cardinality(log') /\ Behind(d, rec'[d.job])
      BY <1>2, <1>4, <1>6, <1>7 DEF SInv, LogInv, Event
    <2>2. e.id \in 1..Cardinality(log') /\ Behind(e, rec'[e.job])
      BY <1>2, <1>3, <1>4, <1>5, <1>7 DEF Behind
    <2> QED BY <1>1, <1>4, <2>1, <2>2 DEF LogInv
  <1>11. \A i \in Current' : i = j
    <2>1. order' # <<>> /\ order'[Len(order')] = j
      BY <1>1, AppendProperties, LenProperties DEF SInv, OrderInv
    <2>2. \A i \in Jobs : i # j => ~IsActive(i)'
      BY <1>1, <1>7 DEF IsActive
    <2> QED BY <2>1, <2>2 DEF Current
  <1> QED BY <1>1, <1>2, <1>4, <1>5, <1>6, <1>7, <1>8, <1>9, <1>10, <1>11, ServerMoves

LEMMA ReportKeeps ==
  ASSUME SInv, NEW j \in Jobs, NEW kind \in {"state", "stage", "delta"}, NEW st \in {"final", None},
         JobReports(j, kind, st)
  PROVE  SInv'
  <1> DEFINE e == [id |-> LastEvent + 1, job |-> j, seq |-> rec[j].seq + 1, kind |-> kind,
                   state |-> st]
             r == [state |-> IF st = None THEN rec[j].state ELSE st,
                   seq |-> rec[j].seq + 1, last |-> LastEvent + 1]
  <1>1. /\ IsActive(j) /\ UNCHANGED <<order, used>> /\ Quiet
        /\ log' = log \cup {e} /\ ring' = Evict(ring \cup {e})
    BY DEF JobReports, Published
  <1>2. Cardinality(log) \in Nat
    BY FS_CardinalityType DEF SInv, LogInv
  <1>3. rec[j] \in JobState /\ rec[j].state = "running" /\ rec[j] # None /\ rec[j].seq \in Nat
    BY <1>1 DEF SInv, RecInv, IsActive, JobState
  <1>4. rec' = [rec EXCEPT ![j] = r]
    BY DEF JobReports
  <1>5. /\ e \in Event /\ e.id = LastEvent + 1 /\ e.job = j /\ e.seq = rec[j].seq + 1
        /\ e.state = st
    BY <1>2, <1>3 DEF Event, LastEvent
  <1>6. /\ r \in JobState /\ r # None /\ r.seq = rec[j].seq + 1 /\ r.last = LastEvent + 1
        /\ st = "final" => r.state = "final"
    BY <1>2, <1>3, NoneAssumption DEF JobState, LastEvent
  <1> HIDE DEF e, r
  <1>7. /\ IsFiniteSet(log') /\ log' \subseteq Event /\ ring' \subseteq log'
        /\ Cardinality(log') = Cardinality(log) + 1 /\ log \subseteq log'
    BY <1>1, <1>5, EventIsLogged
  <1>8. /\ rec'[j] = r /\ (\A i \in Jobs : i # j => rec'[i] = rec[i])
        /\ rec' \in [Jobs -> JobState \cup {None}]
    BY <1>4, <1>6 DEF SInv, RecInv
  <1>9. RecInv'
    BY <1>1, <1>3, <1>5, <1>6, <1>7, <1>8 DEF SInv, RecInv, Dated
  <1>10. OrderInv'
    BY <1>1, <1>6, <1>8, ElementOfSeq DEF SInv, OrderInv
  <1>11. LogInv'
    <2>1. ASSUME NEW d \in log PROVE d.id \in 1..Cardinality(log') /\ Behind(d, rec'[d.job])
      <3>1. d \in Event /\ d.id \in 1..Cardinality(log) /\ Behind(d, rec[d.job])
        BY DEF SInv, LogInv
      <3>2. CASE d.job = j
        BY <1>2, <1>3, <1>6, <1>7, <1>8, <3>1, <3>2 DEF Behind, Event
      <3>3. CASE d.job # j
        BY <1>2, <1>7, <1>8, <3>1, <3>3 DEF Event
      <3> QED BY <3>2, <3>3
    <2>2. e.id \in 1..Cardinality(log') /\ Behind(e, rec'[e.job])
      BY <1>2, <1>3, <1>5, <1>6, <1>7, <1>8 DEF Behind, LastEvent
    <2> QED BY <1>1, <1>7, <2>1, <2>2 DEF LogInv
  <1>12. Current' \subseteq Current
    <2>1. \A i \in Jobs : IsActive(i)' => IsActive(i)
      BY <1>1, <1>8 DEF IsActive
    <2> QED BY <1>1, <2>1 DEF Current
  <1>13. \A d \in log' : d \in log \/ d.id = Cardinality(log')
    BY <1>1, <1>5, <1>7 DEF LastEvent
  <1>14. \A i \in Jobs : rec[i] # None =>
            \/ rec'[i] = rec[i]
            \/ rec[i].state = "running" /\ rec'[i] # None /\ rec'[i].seq > rec[i].seq
    BY <1>3, <1>6, <1>8
  <1> QED BY <1>1, <1>2, <1>3, <1>7, <1>8, <1>9, <1>10, <1>11, <1>12, <1>13, <1>14, ServerMoves

\* A snapshot that is made now is faithful.
LEMMA SnapIsFaithful ==
  ASSUME SInv
  PROVE  Faithful(Snap, rec, log, Current)
  <1>1. Cardinality(log) \in Nat
    BY FS_CardinalityType DEF SInv, LogInv
  <1>2. /\ Snap.cursor = Cardinality(log)
        /\ \A j \in Jobs : Snap.jobs[j] = IF j \in Current THEN rec[j] ELSE None
    BY DEF Snap, LastEvent
  <1>3. Snap \in Snapshot
    BY <1>1 DEF Snap, Snapshot, LastEvent, SInv, RecInv
  <1>4. \A j \in Current : rec[j] # None
    <2>1. order # <<>> => rec[order[Len(order)]] # None
      BY EmptySeq DEF SInv, OrderInv
    <2> QED BY <2>1 DEF Current, IsActive
  <1>5. \A j \in Jobs : rec[j] # None => Behind(rec[j], rec[j]) /\ Dated(rec[j], j, log)
    BY DEF SInv, RecInv, Behind, JobState
  <1> QED BY <1>1, <1>2, <1>3, <1>4, <1>5 DEF Faithful, Current

LEMMA ConnectKeeps ==
  ASSUME SInv, Connect
  PROVE  SInv'
  <1> DEFINE m == [type |-> "snapshot", value |-> Snap]
  <1>1. wire' = <<m>> /\ UNCHANGED <<server, state, fetch>>
    BY DEF Connect
  <1>2. m.type = "snapshot" /\ m.value = Snap /\ m \in Message
    BY SnapIsFaithful DEF Faithful, Message
  <1> HIDE DEF m
  <1>3. wire' \in Seq(Message) /\ Len(wire') = 1 /\ wire'[1] = m
    BY <1>1, <1>2
  <1>4. Faithful(wire'[1].value, rec, log, Current)
    BY <1>2, <1>3, SnapIsFaithful
  <1>5. Current' = Current
    BY <1>1 DEF Current, IsActive, server
  <1>6. WireInv'
    <2>1. \A i \in 1..Len(wire') : i = 1
      BY <1>3
    <2> QED BY <1>1, <1>2, <1>3, <1>4, <1>5, <2>1 DEF WireInv, server
  <1> QED BY <1>1, <1>5, <1>6 DEF SInv, RecInv, OrderInv, LogInv, ResponseInv, ViewInv, server, state, fetch

LEMMA SendKeeps ==
  ASSUME SInv, StreamSends
  PROVE  SInv'
  <1>1. PICK s \in InOrder(Pending) :
           wire' = [i \in 1..Cardinality(Pending) |-> [type |-> "progress", value |-> s[i]]]
    BY DEF StreamSends
  <1>2. UNCHANGED <<server, state, fetch>>
    BY DEF StreamSends
  <1>3. Pending \subseteq log /\ Cardinality(Pending) \in Nat
    <2>1. Pending \subseteq log
      BY DEF Pending, SInv, LogInv
    <2> QED BY <2>1, FS_Subset, FS_CardinalityType DEF SInv, LogInv
  <1>4. \A i \in 1..Cardinality(Pending) : s[i] \in log /\ s[i] \in Event
    BY <1>3 DEF InOrder, SInv, LogInv
  <1>5. /\ wire' \in Seq(Message) /\ Len(wire') = Cardinality(Pending)
        /\ \A i \in 1..Len(wire') : wire'[i].type = "progress" /\ wire'[i].value \in log
    <2>1. \A i \in 1..Cardinality(Pending) : [type |-> "progress", value |-> s[i]] \in Message
      BY <1>4 DEF Message
    <2> QED BY <1>1, <1>3, <1>4, <2>1
  <1>6. WireInv'
    BY <1>2, <1>5 DEF WireInv, server
  <1>7. Current' = Current
    BY <1>2 DEF Current, IsActive, server
  <1> QED BY <1>2, <1>6, <1>7 DEF SInv, RecInv, OrderInv, LogInv, ResponseInv, ViewInv, server, state, fetch

LEMMA AnswerKeeps ==
  ASSUME SInv, Answer
  PROVE  SInv'
  <1>1. response' = Snap /\ refreshing /\ UNCHANGED <<server, stream, state, refreshing>>
    BY DEF Answer
  <1>2. Current' = Current
    BY <1>1 DEF Current, IsActive, server
  <1>3. ResponseInv'
    BY <1>1, <1>2, SnapIsFaithful DEF ResponseInv, server
  <1> QED BY <1>1, <1>2, <1>3 DEF SInv, RecInv, OrderInv, LogInv, WireInv, ViewInv, server, stream, state

\* A request that begins, or ends, leaves no response behind.
LEMMA RequestKeeps ==
  ASSUME SInv, UNCHANGED server, ViewInv', WireInv',
         response' = None \/ (response' = response /\ refreshing' = refreshing)
  PROVE  SInv'
  <1>1. Current' = Current
    BY DEF Current, IsActive, server
  <1>2. ResponseInv'
    BY <1>1 DEF SInv, ResponseInv, server
  <1> QED BY <1>2 DEF SInv, RecInv, OrderInv, LogInv, server

LEMMA Requests ==
  /\ Refresh => response' = None \/ (response' = response /\ refreshing' = refreshing)
  /\ Again => response' = None
  BY DEF Refresh, Again

\* The head of what is on the wire, and what stays there.
LEMMA Taken ==
  ASSUME SInv, UNCHANGED server, wire # <<>>, wire' = Tail(wire)
  PROVE  /\ WireInv'
         /\ Head(wire).type = "snapshot" => Faithful(Head(wire).value, rec, log, Current)
         /\ Head(wire).type # "snapshot" => Head(wire).value \in log
  <1>1. /\ wire' \in Seq(Message) /\ Len(wire') = Len(wire) - 1 /\ Len(wire) \in Nat \ {0}
        /\ \A i \in 1..Len(wire') : wire'[i] = wire[i + 1]
    BY HeadTailProperties, EmptySeq DEF SInv, WireInv
  <1>2. \A i \in 1..Len(wire') : i + 1 \in 1..Len(wire)
    BY <1>1
  <1>3. Current' = Current
    BY DEF Current, IsActive, server
  <1>4. WireInv'
    BY <1>1, <1>2, <1>3 DEF SInv, WireInv, server
  <1>5. Head(wire) = wire[1] /\ 1 \in 1..Len(wire)
    BY <1>1
  <1> QED BY <1>4, <1>5 DEF SInv, WireInv

\* What the browser shows after a snapshot that it combined with what it showed.
LEMMA SnapshotIsShown ==
  ASSUME SInv, NEW v, Faithful(v, rec, log, Current), UNCHANGED server,
         NEW b \in BOOLEAN, ApplySnapshot(v, b)
  PROVE  ViewInv'
  <1> DEFINE old == IF b /\ Resets(v) THEN Nothing ELSE view
  <1>1. view' = Combined(old, v)
    BY DEF ApplySnapshot
  <1>2. old \in [Jobs -> JobState \cup {None}] /\ \A j \in Jobs : old[j] = None \/ old[j] = view[j]
    BY DEF Nothing, SInv, ViewInv
  <1> HIDE DEF old
  <1>3. \A j \in Jobs : view'[j] = None \/ view'[j] = view[j] \/ (v.jobs[j] # None /\ view'[j] = v.jobs[j])
    BY <1>1, <1>2 DEF Combined
  <1>4. view' \in [Jobs -> JobState \cup {None}]
    BY <1>1, <1>2 DEF Combined, Faithful, Snapshot
  <1>5. \A j \in Jobs : v.jobs[j] # None =>
           j \in used /\ Behind(v.jobs[j], rec[j]) /\ Dated(v.jobs[j], j, log)
    BY DEF Faithful, Behind, SInv, RecInv
  <1> QED BY <1>3, <1>4, <1>5 DEF SInv, ViewInv, server

LEMMA SnapshotArrivesKeeps ==
  ASSUME SInv, SnapshotArrives
  PROVE  SInv'
  <1>1. /\ wire # <<>> /\ Head(wire).type = "snapshot" /\ wire' = Tail(wire)
        /\ ApplySnapshot(Head(wire).value, TRUE) /\ Refresh /\ UNCHANGED server
    BY DEF SnapshotArrives, RefreshNow
  <1>2. WireInv' /\ Faithful(Head(wire).value, rec, log, Current)
    BY <1>1, Taken
  <1>3. ViewInv'
    BY <1>1, <1>2, SnapshotIsShown
  <1> QED BY <1>1, <1>2, <1>3, RequestKeeps, Requests

LEMMA RefreshArrivesKeeps ==
  ASSUME SInv, RefreshArrives
  PROVE  SInv'
  <1>1. response # None /\ ApplySnapshot(response, FALSE) /\ Again /\ UNCHANGED <<server, stream>>
    BY DEF RefreshArrives
  <1>2. ViewInv'
    BY <1>1, SnapshotIsShown DEF SInv, ResponseInv
  <1>3. WireInv'
    BY <1>1 DEF SInv, WireInv, server, stream, Current, IsActive
  <1> QED BY <1>1, <1>2, <1>3, RequestKeeps, Requests

\* An event is shown only if it is later than what is shown, and then it is not behind the record.
LEMMA EventIsShown ==
  ASSUME SInv, NEW e \in log, UNCHANGED server, ApplyProgress(e)
  PROVE  ViewInv'
  <1>1. e \in Event /\ Behind(e, rec[e.job]) /\ e.job \in Jobs /\ rec[e.job] # None
    BY DEF SInv, LogInv, Event, Behind
  <1>2. CASE view' = view
    BY <1>2 DEF SInv, ViewInv, server
  <1>3. CASE view' # view
    <2> DEFINE j == e.job
               x == [state |-> IF e.state = None THEN view[j].state ELSE e.state,
                     seq |-> e.seq, last |-> e.id]
    <2>1. Applied(e) /\ view' = [view EXCEPT ![j] = x]
      BY <1>3 DEF ApplyProgress, state
    <2>2. view[j] \in JobState /\ view[j].seq \in Nat /\ e.seq > view[j].seq /\ j \in used
      BY <1>1, <2>1 DEF Applied, SInv, ViewInv, JobState
    <2>3. x \in JobState /\ x.seq = e.seq /\ x.last = e.id
      BY <1>1, <2>2 DEF Event, JobState
    <2>4. x.state = "final" => e.state = "final"
      <3>1. view[j].state = "final" => FALSE
        <4>1. Behind(view[j], rec[j]) /\ e.seq <= rec[j].seq
          BY <1>1, <2>1 DEF Applied, SInv, ViewInv, Behind
        <4>2. e.seq \in Nat /\ rec[j].seq \in Nat
          BY <1>1 DEF Event, SInv, RecInv, JobState
        <4> QED BY <2>2, <4>1, <4>2 DEF Behind
      <3> QED BY <3>1
    <2>5. Behind(x, rec[j]) /\ Dated(x, j, log)
      BY <1>1, <2>3, <2>4 DEF Behind, Dated
    <2> HIDE DEF x
    <2> QED BY <1>1, <2>1, <2>2, <2>3, <2>5 DEF SInv, ViewInv, server
  <1> QED BY <1>2, <1>3

LEMMA ProgressArrivesKeeps ==
  ASSUME SInv, ProgressArrives
  PROVE  SInv'
  <1>1. /\ wire # <<>> /\ Head(wire).type = "progress" /\ wire' = Tail(wire)
        /\ ApplyProgress(Head(wire).value) /\ UNCHANGED server
        /\ Refresh \/ UNCHANGED <<refreshing, response>>
    BY DEF ProgressArrives, RefreshNow, RefreshSoon, fetch
  <1>2. WireInv' /\ Head(wire).value \in log
    BY <1>1, Taken
  <1>3. ViewInv'
    BY <1>1, <1>2, EventIsShown
  <1> QED BY <1>1, <1>2, <1>3, RequestKeeps, Requests

\* The steps that touch neither the server, nor the wire, nor what is shown.
LEMMA QuietKeeps ==
  ASSUME SInv, UNCHANGED <<server, view, wire>>,
         response' = None \/ (response' = response /\ refreshing' = refreshing)
  PROVE  SInv'
  <1>1. WireInv' /\ ViewInv'
    BY DEF SInv, WireInv, ViewInv, server, Current, IsActive
  <1> QED BY <1>1, RequestKeeps DEF server

LEMMA BreakKeeps ==
  ASSUME SInv, StreamBreaks
  PROVE  SInv'
  <1>1. wire' = <<>> /\ UNCHANGED <<server, state, refreshing, response>>
    BY DEF StreamBreaks, Disconnected
  <1>2. WireInv'
    BY <1>1, EmptySeq DEF WireInv
  <1>3. ViewInv'
    BY <1>1 DEF SInv, ViewInv, server, state
  <1> QED BY <1>1, <1>2, <1>3, RequestKeeps

\* Whatever breaks the connection with a restart: nothing stays under way.
LEMMA NothingUnderWay ==
  ASSUME SInv, Broken
  PROVE  wire' = <<>> /\ response' = None /\ view' = view /\ WireInv' /\ ResponseInv'
  <1>1. wire' = <<>> /\ view' = view
    BY DEF Broken, Disconnected, state
  <1>2. response' = None
    BY DEF Broken, Again, SInv, ResponseInv
  <1> QED BY <1>1, <1>2, EmptySeq DEF WireInv, ResponseInv

LEMMA RestartKeeps ==
  ASSUME SInv, Restart
  PROVE  SInv'
  <1>1. /\ rec' = [i \in Jobs |-> IF IsActive(i) THEN [rec[i] EXCEPT !.state = "final"] ELSE rec[i]]
        /\ ring' = Evict(UNION {Newest({d \in log : d.job = i}, Keep) : i \in Jobs})
        /\ UNCHANGED <<order, log, used>>
    BY DEF Restart
  <1>2. view' = view /\ WireInv' /\ ResponseInv'
    BY NothingUnderWay DEF Restart
  <1>3. ASSUME NEW i \in Jobs, rec[i] # None
        PROVE  /\ rec'[i] \in JobState /\ rec'[i] # None
               /\ rec'[i].seq = rec[i].seq /\ rec'[i].last = rec[i].last
               /\ rec[i].state = "final" => rec'[i].state = "final"
    <2>1. rec[i] \in JobState
      BY <1>3 DEF SInv, RecInv
    <2>2. /\ [rec[i] EXCEPT !.state = "final"] \in JobState
          /\ [rec[i] EXCEPT !.state = "final"].seq = rec[i].seq
          /\ [rec[i] EXCEPT !.state = "final"].last = rec[i].last
          /\ [rec[i] EXCEPT !.state = "final"].state = "final"
      BY <2>1 DEF JobState
    <2> QED BY <1>1, <1>3, <2>1, <2>2, NoneAssumption
  <1>4. \A i \in Jobs : rec[i] = None => rec'[i] = None
    BY <1>1 DEF IsActive
  <1>5. RecInv'
    <2>1. rec' = [i \in Jobs |-> rec'[i]]
      BY <1>1
    <2> QED BY <1>1, <1>3, <1>4, <2>1 DEF SInv, RecInv, Dated
  <1>6. OrderInv'
    BY <1>1, <1>3, ElementOfSeq DEF SInv, OrderInv
  <1>7. LogInv'
    <2>1. ring' \subseteq log
      BY <1>1 DEF Evict, Newest
    <2>2. \A d \in log : d.job \in Jobs /\ Behind(d, rec[d.job]) /\ rec[d.job] # None
      BY DEF SInv, LogInv, Event, Behind
    <2>3. \A d \in log : Behind(d, rec'[d.job])
      BY <1>3, <2>2 DEF Behind
    <2> QED BY <1>1, <2>1, <2>3 DEF SInv, LogInv
  <1>8. ViewInv'
    BY <1>1, <1>2, <1>3, <1>4 DEF SInv, ViewInv, Behind
  <1> QED BY <1>2, <1>5, <1>6, <1>7, <1>8 DEF SInv

LEMMA ReplaceKeeps ==
  ASSUME SInv, Replace
  PROVE  SInv'
  <1>1. rec' = Nothing /\ order' = <<>> /\ log' = {} /\ ring' = {} /\ used' = used
    BY DEF Replace
  <1>2. view' = view /\ WireInv' /\ ResponseInv'
    BY NothingUnderWay DEF Replace
  <1>3. \A i \in Jobs : rec'[i] = None
    BY <1>1 DEF Nothing
  <1>4. RecInv'
    BY <1>1, <1>3 DEF SInv, RecInv, Nothing
  <1>5. OrderInv' /\ LogInv'
    BY <1>1, EmptySeq, FS_EmptySet DEF OrderInv, LogInv
  <1>6. ViewInv'
    BY <1>1, <1>2, <1>3 DEF SInv, ViewInv
  <1> QED BY <1>2, <1>4, <1>5, <1>6 DEF SInv

LEMMA StreamInvariance == Spec => []SInv
  <1>1. Init => SInv
    <2> SUFFICES ASSUME Init PROVE SInv
      OBVIOUS
    <2>1. RecInv /\ ViewInv
      BY DEF Init, RecInv, ViewInv, Nothing
    <2>2. OrderInv /\ LogInv /\ WireInv /\ ResponseInv
      BY EmptySeq, FS_EmptySet DEF Init, OrderInv, LogInv, WireInv, ResponseInv
    <2> QED BY <2>1, <2>2 DEF SInv
  <1>2. SInv /\ [Next]_vars => SInv'
    <2> SUFFICES ASSUME SInv, [Next]_vars PROVE SInv'
      OBVIOUS
    <2>1. CASE UNCHANGED vars
      BY <2>1, QuietKeeps DEF vars, stream, state, fetch
    <2>2. CASE \E j \in Jobs : JobStarts(j) \/ JobProgresses(j) \/ JobEnds(j)
      BY <2>2, StartKeeps, ReportKeeps DEF JobProgresses, JobEnds
    <2>3. CASE Connect \/ StreamSends \/ Answer
      BY <2>3, ConnectKeeps, SendKeeps, AnswerKeeps
    <2>4. CASE SnapshotArrives \/ ProgressArrives \/ RefreshArrives
      BY <2>4, SnapshotArrivesKeeps, ProgressArrivesKeeps, RefreshArrivesKeeps
    <2>5. CASE TimerFires \/ Polls \/ Resumes
      <3>1. Refresh /\ UNCHANGED <<server, view, wire>>
        BY <2>5 DEF TimerFires, Polls, Resumes, RefreshNow, stream, state
      <3> QED BY <3>1, QuietKeeps, Requests
    <2>6. CASE RefreshFails
      BY <2>6, QuietKeeps, Requests DEF RefreshFails, stream, state
    <2>7. CASE PageHides \/ GoesOffline
      BY <2>7, QuietKeeps DEF PageHides, GoesOffline, Disconnected, stream, state, fetch
    <2>8. CASE StreamBreaks \/ Restart \/ Replace
      BY <2>8, BreakKeeps, RestartKeeps, ReplaceKeeps
    <2> QED BY <2>1, <2>2, <2>3, <2>4, <2>5, <2>6, <2>7, <2>8 DEF Next
  <1> QED BY <1>1, <1>2, PTL DEF Spec

-----------------------------------------------------------------------------
(* The properties *)

\* The steps that change what is shown, and how.
LEMMA ShownChanges ==
  ASSUME SInv, [Next]_vars, view' # view, ~StartsOver
  PROVE  \/ \E v : Faithful(v, rec, log, Current) /\ view' = Combined(view, v)
         \/ \E e \in log : Applied(e) /\ ApplyProgress(e) /\ UNCHANGED server
  <1>1. SnapshotArrives \/ ProgressArrives \/ RefreshArrives
    BY DEF Next, vars, state, Quiet, JobStarts, JobProgresses, JobEnds, JobReports, Connect,
       StreamSends, Answer, TimerFires, Polls, Resumes, PageHides, RefreshFails, GoesOffline,
       StreamBreaks, Restart, Replace, Broken, Disconnected
  <1>2. CASE SnapshotArrives
    <2>1. /\ wire # <<>> /\ Head(wire).type = "snapshot" /\ wire' = Tail(wire) /\ UNCHANGED server
          /\ ApplySnapshot(Head(wire).value, TRUE) /\ ~Resets(Head(wire).value)
      BY <1>2 DEF SnapshotArrives, StartsOver
    <2>2. Faithful(Head(wire).value, rec, log, Current)
      BY <2>1, Taken
    <2> QED BY <2>1, <2>2 DEF ApplySnapshot
  <1>3. CASE RefreshArrives
    BY <1>3 DEF RefreshArrives, ApplySnapshot, SInv, ResponseInv
  <1>4. CASE ProgressArrives
    <2>1. /\ wire # <<>> /\ Head(wire).type = "progress" /\ wire' = Tail(wire) /\ UNCHANGED server
          /\ ApplyProgress(Head(wire).value)
      BY <1>4 DEF ProgressArrives
    <2>2. Head(wire).value \in log
      BY <2>1, Taken
    <2>3. Applied(Head(wire).value)
      BY <2>1 DEF ApplyProgress, state
    <2> QED BY <2>1, <2>2, <2>3
  <1> QED BY <1>1, <1>2, <1>3, <1>4

\* What is shown of a job never goes back, whatever overtakes what: its sequence does not
\* decrease and an end is not undone, except when a new connection's snapshot makes the
\* browser start over (replaceSnapshot, applyProgress).
THEOREM NothingShownGoesBack == Spec => NeverGoesBack
  <1>1. ASSUME SInv, [Next]_vars
        PROVE  \A j \in Jobs : view[j] # None /\ view'[j] # None /\ ~StartsOver =>
                  /\ view'[j].seq >= view[j].seq
                  /\ view[j].state = "final" => view'[j].state = "final"
    <2> SUFFICES ASSUME NEW j \in Jobs, view[j] # None, view'[j] # None, ~StartsOver, view'[j] # view[j]
                 PROVE  /\ view'[j].seq >= view[j].seq
                        /\ view[j].state = "final" => view'[j].state = "final"
      BY <1>1 DEF SInv, ViewInv, JobState
    <2>1. view[j] \in JobState /\ view[j].seq \in Nat
      BY <1>1 DEF SInv, ViewInv, JobState
    <2>2. rec[j] # None => Behind(view[j], rec[j]) /\ rec[j].seq \in Nat
      BY <1>1 DEF SInv, ViewInv, RecInv, JobState
    <2>3. CASE \E v : Faithful(v, rec, log, Current) /\ view' = Combined(view, v)
      <3>1. PICK v : Faithful(v, rec, log, Current) /\ view' = Combined(view, v)
        BY <2>3
      <3>2. view'[j] = v.jobs[j] /\ v.jobs[j] # None /\ ~Ahead(view[j], v.jobs[j])
        BY <3>1 DEF Combined
      <3>3. /\ Behind(v.jobs[j], rec[j]) /\ v.jobs[j].seq \in Nat
            /\ v.jobs[j].seq = rec[j].seq => v.jobs[j].state = rec[j].state
        BY <3>1, <3>2 DEF Faithful, Snapshot, JobState
      <3>4. v.jobs[j].seq >= view[j].seq
        BY <2>1, <3>2, <3>3 DEF Ahead
      <3> QED BY <2>1, <2>2, <3>2, <3>3, <3>4 DEF Behind
    <2>4. CASE \E e \in log : Applied(e) /\ ApplyProgress(e) /\ UNCHANGED server
      <3>1. PICK e \in log : Applied(e) /\ ApplyProgress(e)
        BY <2>4
      <3>2. view' = [view EXCEPT ![e.job] = [state |-> IF e.state = None THEN @.state ELSE e.state,
                                             seq |-> e.seq, last |-> e.id]]
        BY <3>1 DEF ApplyProgress, state
      <3>3. e.job = j /\ view'[j].seq = e.seq /\ e.seq > view[j].seq
        BY <1>1, <3>1, <3>2 DEF Applied, SInv, ViewInv
      <3>4. Behind(e, rec[j]) /\ e.seq \in Nat
        BY <1>1, <3>3 DEF SInv, LogInv, Event
      <3> QED BY <2>1, <2>2, <3>3, <3>4 DEF Behind
    <2> QED BY <1>1, <2>3, <2>4, ShownChanges
  <1> QED BY <1>1, StreamInvariance, PTL DEF Spec, NeverGoesBack

\* A job that the server lists does not vanish from the page because an older response, made
\* before the job existed, comes in late (replaceSnapshot).
THEOREM NoListedJobVanishes == Spec => ListedJobsStay
  <1>1. ASSUME SInv, [Next]_vars
        PROVE  \A j \in Jobs : view[j] # None /\ j \in Current /\ ~StartsOver => view'[j] # None
    <2> SUFFICES ASSUME NEW j \in Jobs, view[j] # None, j \in Current, ~StartsOver, view'[j] = None
                 PROVE  FALSE
      OBVIOUS
    <2>1. rec[j] # None
      <3>1. order # <<>> => rec[order[Len(order)]] # None
        BY <1>1, EmptySeq DEF SInv, OrderInv
      <3> QED BY <3>1 DEF Current, IsActive
    <2>2. PICK d \in log : d.job = j /\ d.id = view[j].last
      BY <1>1, <2>1 DEF SInv, ViewInv, Dated
    <2>3. CASE \E v : Faithful(v, rec, log, Current) /\ view' = Combined(view, v)
      <3>1. PICK v : Faithful(v, rec, log, Current) /\ view' = Combined(view, v)
        BY <2>3
      <3>2. v.jobs[j] = None /\ ~Outlives(view[j], v)
        BY <3>1 DEF Combined
      <3> QED BY <2>2, <3>1, <3>2 DEF Faithful, Outlives
    <2>4. CASE \E e \in log : Applied(e) /\ ApplyProgress(e) /\ UNCHANGED server
      <3>1. PICK e \in log : Applied(e) /\ ApplyProgress(e)
        BY <2>4
      <3>2. /\ \A i \in Jobs : i # e.job => view'[i] = view[i]
            /\ view'[e.job] = [state |-> IF e.state = None THEN view[e.job].state ELSE e.state,
                               seq |-> e.seq, last |-> e.id]
        BY <1>1, <3>1 DEF ApplyProgress, state, SInv, ViewInv, LogInv, Event
      <3>3. e.job = j /\ view[j] \in JobState /\ e \in Event
        BY <1>1, <3>2 DEF SInv, ViewInv, LogInv
      <3>4. view'[j] \in JobState
        BY <3>2, <3>3 DEF Event, JobState
      <3> QED BY <3>4, NoneAssumption
    <2> QED BY <1>1, <2>3, <2>4, ShownChanges
  <1> QED BY <1>1, StreamInvariance, PTL DEF Spec, ListedJobsStay

\* Nothing that the page shows is taken back, by what overtakes it or by what comes late.
THEOREM PageIsStable == Spec => NothingIsTakenBack
  BY NothingShownGoesBack, NoListedJobVanishes DEF NothingIsTakenBack
=============================================================================
