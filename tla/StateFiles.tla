----------------------------- MODULE StateFiles -----------------------------
(***************************************************************************)
(* The files of a project's checkpoint store and the transactions on them  *)
(* (state_files.py, with atomic_text and file_lock of util.py).  A table   *)
(* object and a commit are named by their contents and never change;       *)
(* HEAD.json names the current commit.  A commit holds the digest of the   *)
(* one before it, so it is the sequence of the states up to its own, and   *)
(* <<>> stands for a HEAD.json that does not exist.                        *)
(*                                                                         *)
(* Any number of processes have connections, without the application's     *)
(* project lock, which these files do not rely on.  A process dies or an   *)
(* operation on a file fails between any two steps; the power fails, and   *)
(* then directory entries that were not synced are there or are not.       *)
(* Bounds: MaxLog states, MaxFaults deaths and failures, MaxLosses.        *)
(***************************************************************************)
EXTENDS Naturals, Sequences, SequencesExt

CONSTANTS Procs, Tables, Rows, Fresh, Legacy, None, MaxLog, MaxFaults, MaxLosses

States == [Tables -> Rows]

ASSUME StatesAssumption == Tables # {} /\ Fresh \in States /\ Legacy \in States
ASSUME NoneAssumption == None \notin Procs \cup Seq(States)

VARIABLES
  legacy,   \* whether the project has a state.sqlite3 to migrate
  disk,     \* what a process sees: directories, objects, commits, HEAD
  loose,    \* entries not synced, and the HEADs that may come back
  lock,     \* who holds .state.lock
  conn,     \* process -> its connection
  told,     \* the last commit that a writer was told of
  reused,   \* whether HEAD ever named an entry that was found and not synced
  faults, losses

vars == <<legacy, disk, loose, lock, conn, told, reused, faults, losses>>
counters == <<faults, losses>>

First == IF legacy THEN Legacy ELSE Fresh

Blank == [dirs |-> {}, objects |-> {}, commits |-> {}, head |-> <<>>]
Synced == [dirs |-> {}, objects |-> {}, commits |-> {}, heads |-> {}]

Closed == [step |-> "closed", head |-> <<>>, work |-> None, left |-> {}, risky |-> FALSE]

Init ==
    /\ legacy \in BOOLEAN
    /\ disk = Blank /\ loose = Synced
    /\ lock = None /\ conn = [p \in Procs |-> Closed]
    /\ told = <<>> /\ reused = FALSE
    /\ faults = 0 /\ losses = 0

Becomes(p, c) == conn' = [conn EXCEPT ![p] = c]
At(p, step) == conn[p].step = step
OnDisk == UNCHANGED <<legacy, told, counters>>

Candidate(p) == Append(conn[p].head, conn[p].work)
Object(p, t) == <<t, conn[p].work[t]>>
Contents(h, n) == {<<t, h[n][t]>> : t \in Tables}
Whole(h) == h \in disk.commits /\ Contents(h, Len(h)) \subseteq disk.objects

(* Opening reads HEAD, and then files that never change: no lock is taken. *)

Opens(p) ==
    /\ At(p, "closed") /\ disk.head # <<>>
    /\ Becomes(p, [Closed EXCEPT !.step = "reading", !.head = disk.head])
    /\ UNCHANGED <<disk, loose, lock, reused>> /\ OnDisk

Loads(p) ==
    /\ At(p, "reading")
    /\ IF Whole(conn[p].head)
       THEN Becomes(p, [conn[p] EXCEPT !.step = "open", !.work = Last(conn[p].head)])
       ELSE Becomes(p, Closed)
    /\ UNCHANGED <<disk, loose, lock, reused>> /\ OnDisk

(* Without a HEAD, the first state is that of an empty schema, unless an   *)
(* interrupted creation or a legacy database is there; or it is migrated.  *)
Creates(p) ==
    /\ At(p, "closed") /\ disk.head = <<>>
    /\ ~legacy /\ "state" \notin disk.dirs
    /\ Becomes(p, [Closed EXCEPT !.step = "open", !.work = First])
    /\ UNCHANGED <<disk, loose, lock, reused>> /\ OnDisk

Migrates(p) ==
    /\ At(p, "closed") /\ disk.head = <<>> /\ legacy
    /\ Becomes(p, [Closed EXCEPT !.step = "open", !.work = First])
    /\ UNCHANGED <<disk, loose, lock, reused>> /\ OnDisk

Changed(p) == conn[p].head # <<>> => conn[p].work # Last(conn[p].head)

Changes(p) ==
    /\ At(p, "open") /\ ~Changed(p) /\ Len(conn[p].head) < MaxLog
    /\ \E s \in States \ {conn[p].work} : Becomes(p, [conn[p] EXCEPT !.work = s])
    /\ UNCHANGED <<disk, loose, lock, reused>> /\ OnDisk

Closes(p) ==
    /\ conn[p].step \in {"open", "reading"}
    /\ Becomes(p, Closed)
    /\ UNCHANGED <<disk, loose, lock, reused>> /\ OnDisk

(* A transaction that is not published is rolled back; a connection that   *)
(* never read a state is closed.                                           *)
RolledBack(p) ==
    IF conn[p].head = <<>> THEN Closed
    ELSE [Closed EXCEPT !.step = "open", !.head = conn[p].head, !.work = Last(conn[p].head)]

ExpectedAlways(p) == TRUE
Expected(p) == disk.head = conn[p].head

CommitBegins(p) ==
    /\ At(p, "open") /\ Changed(p) /\ lock = None /\ Expected(p)
    /\ lock' = p
    /\ Becomes(p, [conn[p] EXCEPT !.step = "objects", !.left = Tables])
    /\ UNCHANGED <<disk, loose, reused>> /\ OnDisk

CommitRefused(p) ==
    /\ At(p, "open") /\ Changed(p) /\ ~(lock = None /\ Expected(p))
    /\ Becomes(p, RolledBack(p))
    /\ UNCHANGED <<disk, loose, lock, reused>> /\ OnDisk

(* atomic_text makes the missing directories, replaces the file and syncs  *)
(* its directory; a file that is there already is taken as it is.          *)
UsesObject(p) ==
    /\ At(p, "objects")
    /\ \E t \in conn[p].left :
          /\ Object(p, t) \in disk.objects
          /\ Becomes(p, [conn[p] EXCEPT !.left = @ \ {t},
                                        !.risky = @ \/ Object(p, t) \in loose.objects])
    /\ UNCHANGED <<disk, loose, lock, reused>> /\ OnDisk

WritesObject(p) ==
    /\ At(p, "objects")
    /\ \E t \in conn[p].left :
          /\ Object(p, t) \notin disk.objects
          /\ disk' = [disk EXCEPT !.objects = @ \cup {Object(p, t)},
                                  !.dirs = @ \cup {"state", "objects"}]
          /\ loose' = [loose EXCEPT !.objects = @ \cup {Object(p, t)},
                                    !.dirs = @ \cup ({"state", "objects"} \ disk.dirs)]
          /\ Becomes(p, [conn[p] EXCEPT !.step = "object", !.left = @ \ {t}])
    /\ UNCHANGED <<lock, reused>> /\ OnDisk

SyncsObject(p) ==
    /\ At(p, "object")
    /\ loose' = [loose EXCEPT !.objects = {}]
    /\ Becomes(p, [conn[p] EXCEPT !.step = "objects", !.risky = FALSE])
    /\ UNCHANGED <<disk, lock, reused>> /\ OnDisk

UsesCommit(p) ==
    /\ At(p, "objects") /\ conn[p].left = {} /\ Candidate(p) \in disk.commits
    /\ Becomes(p, [conn[p] EXCEPT !.step = "candidate",
                                  !.risky = @ \/ Candidate(p) \in loose.commits])
    /\ UNCHANGED <<disk, loose, lock, reused>> /\ OnDisk

WritesCommit(p) ==
    /\ At(p, "objects") /\ conn[p].left = {} /\ Candidate(p) \notin disk.commits
    /\ disk' = [disk EXCEPT !.commits = @ \cup {Candidate(p)},
                            !.dirs = @ \cup {"state", "commits"}]
    /\ loose' = [loose EXCEPT !.commits = @ \cup {Candidate(p)},
                              !.dirs = @ \cup ({"state", "commits"} \ disk.dirs)]
    /\ Becomes(p, [conn[p] EXCEPT !.step = "commit"])
    /\ UNCHANGED <<lock, reused>> /\ OnDisk

SyncsCommit(p) ==
    /\ At(p, "commit")
    /\ loose' = [loose EXCEPT !.commits = {}]
    /\ Becomes(p, [conn[p] EXCEPT !.step = "candidate"])
    /\ UNCHANGED <<disk, lock, reused>> /\ OnDisk

\* state/ and the project directory, before anything names what is in them.
SyncsNoDirectory(p) ==
    /\ At(p, "candidate")
    /\ Becomes(p, [conn[p] EXCEPT !.step = "ready"])
    /\ UNCHANGED <<disk, loose, lock, reused>> /\ OnDisk

SyncsDirectories(p) ==
    /\ At(p, "candidate")
    /\ loose' = [loose EXCEPT !.dirs = {}, !.heads = {}]
    /\ Becomes(p, [conn[p] EXCEPT !.step = "ready"])
    /\ UNCHANGED <<disk, lock, reused>> /\ OnDisk

ReplacesHead(p) ==
    /\ At(p, "ready")
    /\ disk' = [disk EXCEPT !.head = Candidate(p)]
    /\ loose' = [loose EXCEPT !.heads = @ \cup {disk.head}]
    /\ reused' = (reused \/ conn[p].risky)
    /\ Becomes(p, [conn[p] EXCEPT !.step = "head"])
    /\ UNCHANGED lock /\ OnDisk

\* A migration closes what it has published; others go on with it.
Committed(p) ==
    IF conn[p].head = <<>> /\ legacy THEN Closed
    ELSE [Closed EXCEPT !.step = "open", !.head = Candidate(p), !.work = conn[p].work]

SyncsHead(p) ==
    /\ At(p, "head")
    /\ loose' = [loose EXCEPT !.heads = {}]
    /\ Becomes(p, Committed(p)) /\ lock' = None
    /\ told' = Candidate(p)
    /\ UNCHANGED <<legacy, disk, reused, counters>>

-----------------------------------------------------------------------------

Interrupted(p) ==
    /\ lock = p /\ lock' = None
    /\ faults < MaxFaults /\ faults' = faults + 1
    /\ UNCHANGED <<legacy, disk, loose, told, reused, losses>>

CommitFails(p) == Interrupted(p) /\ Becomes(p, RolledBack(p))
Dies(p) == Interrupted(p) /\ Becomes(p, Closed)

\* Entries that were not synced may be gone, with all that they lead to.
PowerLoss ==
    /\ losses < MaxLosses /\ losses' = losses + 1
    /\ \E dirs \in SUBSET loose.dirs, objects \in SUBSET loose.objects,
          commits \in SUBSET loose.commits, head \in loose.heads \cup {disk.head} :
          disk' = IF "state" \in dirs THEN Blank
                  ELSE [dirs    |-> disk.dirs \ dirs,
                        objects |-> IF "objects" \in dirs THEN {} ELSE disk.objects \ objects,
                        commits |-> IF "commits" \in dirs THEN {} ELSE disk.commits \ commits,
                        head    |-> head]
    /\ loose' = Synced /\ lock' = None
    /\ conn' = [p \in Procs |-> Closed]
    /\ UNCHANGED <<legacy, told, reused, faults>>

Commits(p) ==
    \/ UsesObject(p) \/ WritesObject(p) \/ SyncsObject(p)
    \/ UsesCommit(p) \/ WritesCommit(p) \/ SyncsCommit(p)
    \/ SyncsDirectories(p) \/ ReplacesHead(p) \/ SyncsHead(p)

Next ==
    \/ \E p \in Procs :
          \/ Opens(p) \/ Loads(p) \/ Creates(p) \/ Migrates(p)
          \/ Changes(p) \/ Closes(p) \/ CommitBegins(p) \/ CommitRefused(p)
          \/ Commits(p) \/ CommitFails(p) \/ Dies(p)
    \/ PowerLoss

Spec == Init /\ [][Next]_vars

-----------------------------------------------------------------------------

(* docs/state-json-migration.md: "A commit writes changed table snapshots  *)
(* and a commit record, fsyncs their directory entries, then atomically    *)
(* replaces and fsyncs HEAD."  So every revision that HEAD stands on is    *)
(* there, whatever died or failed and whenever the power did.  The code    *)
(* breaks this.                                                            *)
HeadIsDurable ==
    \A n \in 1 .. Len(disk.head) :
        /\ SubSeq(disk.head, 1, n) \in disk.commits
        /\ Contents(disk.head, n) \subseteq disk.objects

(* Every revision that HEAD stands on can be read, unless a commit took    *)
(* over a file which an interrupted one had written and not synced         *)
(* (_write_object, load_state).                                            *)
CommittedIsReadable == reused \/ HeadIsDurable

(* The files are a log of whole states: a commit adds to the state that    *)
(* its writer read and to no other, the first one is that of the project's *)
(* database, readers keep what they read, a writer that failed publishes   *)
(* nothing more, and what a writer was told survives (publish, commit).    *)
Log == INSTANCE StateLog WITH
    first <- First, log <- disk.head,
    view <- [p \in Procs |-> IF conn[p] = Closed THEN None ELSE conn[p].head],
    writer <- IF lock # None /\ conn[lock].step = "head" THEN lock ELSE None

ImplementsLog == Log!Spec

=============================================================================
