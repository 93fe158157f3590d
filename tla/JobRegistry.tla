----------------------------- MODULE JobRegistry -----------------------------
(***************************************************************************)
(* The durable job registry of one workspace root: bookpipe/runtime/       *)
(* registry.py.  Every job has a record, stored in a file named by the     *)
(* record's checksum; registry.json, the manifest, names the record of     *)
(* each job, and only the replacement of the manifest commits a write.     *)
(*                                                                         *)
(* Every method holds JobRegistry.lock and .runtime.lock admits one        *)
(* server, so writes do not interleave.  What interrupts them is an I/O    *)
(* error or the death of the server, between any two file operations; and  *)
(* a client whose answer was lost repeats its request.                     *)
(***************************************************************************)
EXTENDS Integers, FiniteSets

CONSTANTS
  Jobs,        \* job identifiers
  Keys,        \* request keys (client-made UUIDs)
  Digests,     \* fingerprints of request bodies
  Keep,        \* events that a record keeps (min(event_limit, ACTIVITY_LIMIT))
  MaxEvents,   \* bound on event identifiers
  MaxDeaths,   \* bound on deaths of the server
  None         \* no record, no write, no key

ASSUME RegistryAssumption ==
  /\ Keep \in Nat \ {0} /\ MaxEvents \in Nat /\ MaxDeaths \in Nat
  /\ None \notin Jobs /\ None \notin Keys /\ None \notin Digests

VARIABLES
  manifest,   \* disk: job -> the record that registry.json names
  floor,      \* disk: its cursor_floor
  files,      \* disk: records in the directory jobs/, with the job each is of
  up,         \* the server: "down", "loading" (__init__), "open"
  failed,     \* memory: _failed
  mem,        \* memory: job -> _records (and _metadata's reference to it)
  cursor,     \* memory: _cursor
  order,      \* memory: _order
  write,      \* memory: the job and record that _write is about
  step,       \* memory: where _write is: "idle", "record", "manifest", "commit"
  mine,       \* memory, history: jobs that this server has reserved
  seen,       \* history: the events a client may have received
  answered,   \* history: the requests that got an answer, with the job it named
  deaths

disk   == <<manifest, floor, files>>
memory == <<failed, mem, cursor, order, mine>>
client == <<seen, answered>>
vars   == <<disk, up, memory, write, step, client, deaths>>

Active == {"starting", "running"}
Events == [id : Nat, seq : Nat]
Record == [order : Nat, state : Active \cup {"final"}, seq : Nat, last : Nat,
           events : SUBSET Events, key : Keys \cup {None}, digest : Digests \cup {None}]

ASSUME NoneAssumption == None \notin Record

Known(m)    == {j \in Jobs : m[j] # None}
Largest(S)  == {n \in S : \A m \in S : m <= n}
Later(a, b) == IF a > b THEN a ELSE b

Init ==
  /\ manifest = [j \in Jobs |-> None] /\ floor = 0 /\ files = {}
  /\ up = "open" /\ failed = FALSE
  /\ mem = [j \in Jobs |-> None] /\ cursor = 0 /\ order = 0 /\ mine = {}
  /\ write = None /\ step = "idle"
  /\ seen = {} /\ answered = {} /\ deaths = 0

-----------------------------------------------------------------------------
(* The operations, up to their call of _write *)

Writes(j, rec) ==
  /\ step = "idle" /\ ~failed
  /\ write' = [job |-> j, rec |-> rec] /\ step' = "record"
  /\ UNCHANGED <<disk, up, failed, mem, cursor, order, client, deaths>>

\* Faulty variant of Holder: the receipts of finished jobs are forgotten.
HolderAmongActive(k) == {j \in Known(mem) : mem[j].key = k /\ mem[j].state \in Active}

\* The job whose record has the receipt of this key: _requests.
Holder(k) == {j \in Known(mem) : mem[j].key = k}

\* supervisor.start() with a key that the registry knows: the first job is the answer
\* (RequestConflict if the body is another one).  The answer may be lost.
Repeat(k, d) ==
  /\ up = "open" /\ step = "idle"
  /\ \E j \in Holder(k) :
       /\ mem[j].digest = d
       /\ answered' = answered \cup {[key |-> k, digest |-> d, job |-> j]}
  /\ UNCHANGED <<disk, up, memory, write, step, seen, deaths>>

\* ... and with a new key, or none: reserve.  The record is committed with its receipt.
Reserve(j, k, d) ==
  /\ up = "open" /\ mem[j] = None
  /\ k # None => Holder(k) = {}
  /\ Writes(j, [order |-> order + 1, state |-> "starting", seq |-> 0, last |-> 0,
                events |-> {}, key |-> k, digest |-> d])
  /\ mine' = mine \cup {j}

\* save: another state (or pid, exit code, error), the same history.
Save(j, s) ==
  /\ up = "open" /\ mem[j] # None /\ mem[j].state \in Active \ {s}
  /\ Writes(j, [mem[j] EXCEPT !.state = s])
  /\ UNCHANGED mine

Trimmed(E) == {e \in E : Cardinality({f \in E : f.id > e.id}) < Keep}

\* append: the next identifier and the job's next sequence number.
Append(j) ==
  /\ up = "open" /\ mem[j] # None /\ cursor < MaxEvents
  /\ LET e == [id |-> cursor + 1, seq |-> mem[j].seq + 1]
     IN  Writes(j, [mem[j] EXCEPT !.seq = e.seq, !.last = e.id, !.events = Trimmed(@ \cup {e})])
  /\ UNCHANGED mine

-----------------------------------------------------------------------------
(* _write *)

Written == [job |-> write.job, rec |-> write.rec]

\* Faulty variant of WriteRecord: the version it replaces is removed at once.
WriteRecordOver ==
  /\ step = "record" /\ step' = "manifest"
  /\ files' = {f \in files : f.job # write.job} \cup {Written}
  /\ UNCHANGED <<manifest, floor, up, memory, write, client, deaths>>

\* atomic_json of the record: its file has the name of its checksum.
WriteRecord ==
  /\ step = "record" /\ step' = "manifest"
  /\ files' = files \cup {Written}
  /\ UNCHANGED <<manifest, floor, up, memory, write, client, deaths>>

NewCursor == Later(cursor, write.rec.last)

\* registry.json is rebuilt from memory and replaced.
Switched ==
  /\ manifest' = [mem EXCEPT ![write.job] = write.rec]
  /\ floor' = NewCursor

SwitchManifest ==
  /\ step = "manifest" /\ step' = "commit"
  /\ Switched
  /\ UNCHANGED <<files, up, memory, write, client, deaths>>

\* Faulty variants of Refuses: the error is reported but the registry goes on; the error
\* is not reported.
RefusesOnce ==
  /\ step' = "idle"
  /\ up' = (IF up = "open" THEN up ELSE "down") /\ UNCHANGED failed
Swallows == step' = "commit" /\ UNCHANGED <<up, failed>>

\* Any exception: nothing is written any more.  In __init__, the server does not start.
Refuses ==
  /\ step' = "idle"
  /\ IF up = "open" THEN failed' = TRUE /\ UNCHANGED up
     ELSE up' = "down" /\ UNCHANGED failed

\* The temporary file cannot be written, or the new file is in place and the fsync of its
\* directory fails: the caller cannot tell.
WriteFails ==
  /\ \/ /\ step = "record"
        /\ files' \in {files, files \cup {Written}}
        /\ UNCHANGED <<manifest, floor>>
     \/ /\ step = "manifest"
        /\ Switched \/ UNCHANGED <<manifest, floor>>
        /\ UNCHANGED files
  /\ Refuses
  /\ UNCHANGED <<mem, cursor, order, mine, write, client, deaths>>

EventsOf(j, rec) == {[id |-> e.id, job |-> j, seq |-> e.seq] : e \in rec.events}
Answer(k, d, j)  == [key |-> k, digest |-> d, job |-> j]

\* _accept; the old version is unlinked (where that fails a file is left that nobody looks
\* for).  From here on the event can be replayed and the caller goes on, to an answer that
\* its client may receive or not.
Commit ==
  /\ step = "commit" /\ step' = "idle"
  /\ mem' = [mem EXCEPT ![write.job] = write.rec]
  /\ cursor' = NewCursor /\ order' = Later(order, write.rec.order)
  /\ files' = (files \ {[job |-> write.job, rec |-> mem[write.job]]}) \cup {Written}
  /\ seen' = seen \cup EventsOf(write.job, write.rec)
  /\ \/ UNCHANGED answered
     \/ /\ mem[write.job] = None /\ write.rec.key # None
        /\ answered' = answered \cup {Answer(write.rec.key, write.rec.digest, write.job)}
  /\ write' = None
  /\ UNCHANGED <<manifest, floor, up, failed, mine, deaths>>

-----------------------------------------------------------------------------
(* Death and restart *)

\* The server dies, or closes the registry between two writes.
Dies ==
  /\ up # "down" /\ deaths < MaxDeaths
  /\ up' = "down" /\ deaths' = deaths + 1
  /\ step' = "idle" /\ write' = None
  /\ mem' = [j \in Jobs |-> None] /\ cursor' = 0 /\ order' = 0
  /\ failed' = FALSE /\ mine' = {}
  /\ UNCHANGED <<disk, client>>

Valid(rec) ==
  /\ \A e, f \in rec.events : e.id < f.id <=> e.seq < f.seq
  /\ \A e \in rec.events : e.seq <= rec.seq /\ e.id <= rec.last
  /\ rec.seq > 0 => rec.last > 0
  /\ rec.key # None => rec.digest # None

\* The checks of __init__: every file named is there, records are valid, and no order,
\* receipt or event identifier occurs twice.
Loadable(m) ==
  /\ \A j \in Known(m) : [job |-> j, rec |-> m[j]] \in files /\ Valid(m[j])
  /\ \A i, j \in Known(m) : i # j =>
       /\ m[i].order # m[j].order
       /\ m[i].key # None => m[i].key # m[j].key
       /\ \A e \in m[i].events, f \in m[j].events : e.id # f.id

\* Faulty variant of LoadedIds: reads the active jobs only.
LoadedIdsOfActive ==
  {0} \cup {manifest[j].last : j \in {k \in Known(manifest) : manifest[k].state \in Active}}

\* The event identifiers that _cursor has to be behind of.
LoadedIds == {floor} \cup {manifest[j].last : j \in Known(manifest)}

Load ==
  /\ up = "down" /\ Loadable(manifest)
  /\ up' = "loading" /\ failed' = FALSE /\ mine' = {}
  /\ mem' = manifest
  /\ cursor' \in Largest(LoadedIds)
  /\ order' \in Largest({0} \cup {manifest[j].order : j \in Known(manifest)})
  /\ step' = "idle" /\ write' = None
  /\ seen' = seen \cup UNION {EventsOf(j, manifest[j]) : j \in Known(manifest)}
  /\ UNCHANGED <<disk, answered, deaths>>

\* Faulty variant of Stale: a reservation that never ran is left alone.
StaleIfRunning(j) == mem[j] # None /\ mem[j].state = "running"

\* A job of an earlier server: its worker is not adopted, the job is abandoned.
Stale(j) == mem[j] # None /\ mem[j].state \in Active

Abandon(j) ==
  /\ up = "loading" /\ Stale(j)
  /\ Writes(j, [mem[j] EXCEPT !.state = "final"])
  /\ UNCHANGED mine

Opened ==
  /\ up = "loading" /\ step = "idle" /\ \A j \in Jobs : ~Stale(j)
  /\ up' = "open"
  /\ UNCHANGED <<disk, memory, write, step, client, deaths>>

-----------------------------------------------------------------------------

Next ==
  \/ \E k \in Keys, d \in Digests : Repeat(k, d) \/ \E j \in Jobs : Reserve(j, k, d)
  \/ \E j \in Jobs : Reserve(j, None, None)
  \/ \E j \in Jobs : Save(j, "running") \/ Save(j, "final") \/ Append(j) \/ Abandon(j)
  \/ WriteRecord \/ SwitchManifest \/ WriteFails \/ Commit
  \/ Dies \/ Load \/ Opened

Spec == Init /\ [][Next]_vars

-----------------------------------------------------------------------------
(* What must hold *)

DiskType ==
  /\ manifest \in [Jobs -> Record \cup {None}] /\ floor \in Nat
  /\ files \subseteq [job : Jobs, rec : Record]

MemoryType ==
  /\ up \in {"down", "loading", "open"} /\ failed \in BOOLEAN
  /\ mem \in [Jobs -> Record \cup {None}] /\ cursor \in Nat /\ order \in Nat /\ mine \subseteq Jobs
  /\ step \in {"idle", "record", "manifest", "commit"}
  /\ write \in [job : Jobs, rec : Record] \cup {None}

ClientType ==
  /\ seen \subseteq [id : Nat, job : Jobs, seq : Nat]
  /\ answered \subseteq [key : Keys, digest : Digests, job : Jobs]
  /\ deaths \in 0 .. MaxDeaths

\* Every variable has its type; in particular a record never keeps more than Keep events.
TypeOK ==
  /\ DiskType /\ MemoryType /\ ClientType
  /\ \A j \in Known(manifest) : Cardinality(manifest[j].events) <= Keep

\* docs/job-json-migration.md: "Only the manifest commits it."  Whenever the server dies,
\* between any two file operations, the next one can load what is on the disk: nothing
\* that the manifest names is missing or contradicts the rest.
AlwaysLoadable == Loadable(manifest)

\* docs/job-json-migration.md: "After a lost HTTP response, retry retrieves the original
\* job."  Whatever is repeated, before and after restarts, a key names one job and one
\* request body.
KeyNamesOneJob ==
  \A a, b \in answered : a.key = b.key => a = b

\* What has been acknowledged, an event that was published or a request that was
\* answered, is on the disk and stays there.
AcknowledgedSurvives ==
  /\ \A e \in seen : manifest[e.job] # None /\ manifest[e.job].seq >= e.seq
  /\ \A a \in answered : manifest[a.job] # None /\ manifest[a.job].key = a.key

\* An event identifier is never given to two events, across restarts and failed writes: a
\* client that resumes after the last one it saw misses nothing.
EventIdsAreUnique ==
  \A e, f \in seen :
    /\ e.id = f.id => e = f
    /\ e.job = f.job => (e.id < f.id <=> e.seq < f.seq)

\* No name is given twice, neither of a job nor of an event.
NamesAreUnique == KeyNamesOneJob /\ EventIdsAreUnique

\* docs/server-runtime.md: "earlier starting, running and stopping records become
\* abandoned".  A job that is active in an open registry was reserved by this server, so
\* a monitor is responsible for it.
NoGhostJobs ==
  up = "open" => \A j \in Known(mem) : mem[j].state \in Active => j \in mine

\* docs/job-json-migration.md: "Only the manifest commits it. Unreferenced candidates after
\* interruption are never adopted. [...] After a write failure, further mutations require
\* restart/recovery."  The files and the memory of the servers implement one map of records
\* that commits change one at a time (_write, _accept, __init__).
Records == INSTANCE JobRecords WITH
  stored <- manifest, view <- IF up = "down" THEN manifest ELSE mem,
  refusing <- failed, answers <- answered

ImplementsRecords == Records!Spec

=============================================================================
