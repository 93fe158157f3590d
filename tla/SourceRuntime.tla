--------------------------- MODULE SourceRuntime ---------------------------
(***************************************************************************)
(* Where the native state of one source session is kept, and how it is     *)
(* moved and removed: migrate_runtime of source_runtime.py, and acquire,   *)
(* connect, close and retire_session of source_sessions.py, which call it. *)
(*                                                                         *)
(* The manifest names the directory in force.  An older layout is copied   *)
(* next to its new place, the copy verified and published, the manifest    *)
(* switched, and only then the old directory is put aside and removed; a   *)
(* journal in the manifest lets a later operation go on from any point.    *)
(* Operations hold the project's lock, so there is one at a time; it may   *)
(* die between any two changes on the disk, and its app-server then lives  *)
(* on for a while.  What a run does with the session is in SourceSession.  *)
(***************************************************************************)
EXTENDS Naturals, FiniteSets, Functions

CONSTANTS
    Parts,        \* what the native state consists of
    MaxServers,   \* bound on the app-servers
    MaxTurns,     \* bound on the turns that are asked for
    MaxDeaths,    \* bound on the operations that die
    None

Servers == 1 .. MaxServers
Binding == "identity"      \* .intelitex-runtime-identity.json

ASSUME PartsAssumption == Parts # {} /\ Binding \notin Parts
ASSUME RuntimeBounds == MaxServers \in Nat \ {0} /\ MaxTurns \in Nat /\ MaxDeaths \in Nat

Entries == UNION {[S -> 0 .. MaxTurns] : S \in SUBSET (Parts \cup {Binding})}
Contents == Entries \X {"old", "new"}

Directories == [entries : Entries, index : {"old", "new"}, marker : {"none", "copying", "sealed"},
                seal : Contents \cup {None, "earlier"}, stray : BOOLEAN]

\* What the manifest says of the last turn: its outcome is settled, it was asked
\* for, or its outcome is uncertain and held for inspection (recovery_required).
Outcomes == {"settled", "asked", "held"}

Manifests == [at : {"old", "new"}, journal : {"none", "open", "done"},
              source : Contents \cup {None}, owner : 0 .. MaxServers,
              retired : BOOLEAN, turn : Outcomes]

ASSUME NoneAssumption == None \notin Directories /\ None \notin Manifests

VARIABLES
    manifest,   \* the slot's manifest, None before the first run
    dirs,       \* place -> directory; "temp" and "aside" are its neighbours
    server,     \* the place each app-server works in; "unborn", "ended"
    audited,    \* the native storage is of the version that can be relocated
    asked,      \* turns asked for
    op,         \* the operation that holds the project's lock
    refused,    \* why the last operation stopped, if it did
    torn,       \* history: what a death left half done
    deaths

vars == <<manifest, dirs, server, audited, asked, op, refused, torn, deaths>>

Places == {"old", "new", "temp", "aside"}
Free == [kind |-> "none", at |-> "none", server |-> 0]

-----------------------------------------------------------------------------
(* A directory: the version of each entry, what its index points to, the   *)
(* migration marker with the digest it seals, and whether the temporary    *)
(* file of an interrupted write is in it.                                  *)

Directory(entries, index) ==
    [entries |-> entries, index |-> index, marker |-> "none", seal |-> None, stray |-> FALSE]

Content(d) == <<d.entries, d.index>>
Names(d) == DOMAIN d.entries
IsEmpty(d) == Names(d) = {} /\ d.marker = "none" /\ ~d.stray

Put(place, d) == dirs' = [dirs EXCEPT ![place] = d]
Move(from, to) == dirs' = [dirs EXCEPT ![from] = None, ![to] = dirs[from]]

\* rmtree: the entries go one by one, in any order, and the directory last.
RemovesFrom(place) ==
    LET d == dirs[place]
    IN \/ \E name \in Names(d) :
             Put(place, [d EXCEPT !.entries = Restrict(d.entries, Names(d) \ {name})])
       \/ d.marker # "none" /\ Put(place, [d EXCEPT !.marker = "none", !.seal = None])
       \/ d.stray /\ Put(place, [d EXCEPT !.stray = FALSE])
       \/ IsEmpty(d) /\ Put(place, None)

-----------------------------------------------------------------------------

NewManifest == [at |-> "new", journal |-> "none", source |-> None, owner |-> 0,
                retired |-> FALSE, turn |-> "settled"]

Initially(parts) == [n \in parts |-> 0]

\* A slot that was never used, or one of an earlier layout: external, or
\* already in the project under its full name, after a migration of its own.
Init ==
    /\ server \in [Servers -> {"unborn", "old"}]
    /\ \A n \in Servers \ {1} : server[n] = "unborn"
    /\ \/ /\ manifest = None /\ server[1] = "unborn"
          /\ dirs = [p \in Places |-> None]
       \/ \E journal \in {"none", "done"}, retired \in BOOLEAN, turn \in Outcomes :
            /\ manifest = [NewManifest EXCEPT
                             !.at = "old", !.journal = journal, !.retired = retired,
                             !.turn = turn,
                             !.owner = IF server[1] = "old" THEN 1 ELSE 0]
            /\ dirs = [p \in Places |-> IF p # "old" THEN None
                 ELSE IF journal = "none" THEN Directory(Initially(Parts), "old")
                 ELSE [Directory(Initially(Parts \cup {Binding}), "old") EXCEPT
                          !.marker = "sealed", !.seal = "earlier"]]
            /\ retired => server[1] = "unborn"
    /\ audited \in BOOLEAN
    /\ op = Free /\ refused = "no" /\ torn = {} /\ asked = 0 /\ deaths = 0

Alive(n) == server[n] \in Places
Busy == manifest # None /\ manifest.owner # 0 /\ Alive(manifest.owner)   \* _idle raises
Committed == manifest.at = "new"
Named == dirs[manifest.at]

At(place) == op.at = place
Goes(place) == op' = [op EXCEPT !.at = place]
Same(d) == d # None /\ Content(d) = manifest.source

External == UNCHANGED <<server, audited, asked>>
Calm == UNCHANGED <<refused, torn, deaths>>

Refuses(why) ==
    /\ op' = Free /\ refused' = why
    /\ UNCHANGED <<manifest, dirs, torn, deaths>> /\ External

Begins(kind) ==
    /\ op = Free
    /\ op' = [kind |-> kind, server |-> 0,
              at |-> IF manifest = None THEN "make"
                     ELSE IF manifest.retired /\ kind # "run" THEN "maintain"
                     ELSE "layout"]
    /\ manifest = None => kind = "run"
    /\ manifest # None => ~(kind = "migrate" /\ manifest.retired)
    /\ kind = "purge" => manifest.retired
    /\ refused' = "no"
    /\ UNCHANGED <<manifest, dirs, torn, deaths>> /\ External

-----------------------------------------------------------------------------
(* migrate_runtime *)

RetiredIsRefused == At("layout") /\ manifest.retired /\ Refuses("retired")

\* Faulty variant: the manifest's place alone says that all is done.
MovedByPlace == Committed

Moved == Committed /\ manifest.journal # "open"

LayoutIsCurrent ==
    /\ At("layout") /\ ~manifest.retired /\ Moved
    /\ IF dirs["new"] # None /\ Binding \notin Names(dirs["new"])
       THEN Refuses("unbound")
       ELSE Goes("ready") /\ UNCHANGED <<manifest, dirs>> /\ External /\ Calm

\* The old directory as it must be: complete, and as the journal has it.
OldIsWhole ==
    IF dirs["old"] = None THEN Committed
    ELSE /\ Parts \subseteq Names(dirs["old"])
         /\ manifest.journal = "open" => Same(dirs["old"])

Unmoved == At("layout") /\ ~manifest.retired /\ ~Moved

\* With an auth_source also before its link is renewed in a slot in force.
MigrationIsRefused ==
    /\ Unmoved \/ (At("layout") /\ ~manifest.retired /\ Moved /\ dirs["new"] # None)
    /\ Busy /\ Refuses("busy")

OpensJournal ==
    /\ Unmoved /\ ~Busy /\ OldIsWhole
    /\ manifest' = IF manifest.journal = "open" THEN manifest
                   ELSE [manifest EXCEPT !.journal = "open", !.source = Content(dirs["old"])]
    /\ Goes("stage")
    /\ UNCHANGED dirs /\ External /\ Calm

\* Faulty variant: only a finished copy counts as this migration's own.
OwnedIfSealed(d) == IsEmpty(d) \/ d.marker = "sealed"

Owned(d) == IsEmpty(d) \/ d.marker # "none"

Stages ==
    /\ At("stage")
    /\ \/ dirs["new"] # None /\ Goes("verify")
       \/ dirs["new"] = None /\ dirs["temp"] = None /\ Goes("mkdir")
       \/ dirs["new"] = None /\ dirs["temp"] # None /\ Owned(dirs["temp"]) /\ Goes("clear")
    /\ UNCHANGED <<manifest, dirs>> /\ External /\ Calm

StagingIsRefused ==
    /\ At("stage") /\ dirs["new"] = None /\ dirs["temp"] # None /\ ~Owned(dirs["temp"])
    /\ Refuses("unowned")

ClearsStage ==
    /\ At("clear") /\ RemovesFrom("temp")
    /\ Goes(IF dirs'["temp"] = None THEN "mkdir" ELSE "clear")
    /\ UNCHANGED manifest /\ External /\ Calm

MakesStage ==
    /\ At("mkdir")
    /\ Put("temp", Directory(Initially({}), "old")) /\ Goes("mark")
    /\ UNCHANGED manifest /\ External /\ Calm

\* _save: a temporary file in the directory, and then its replacement.
WritesMarker ==
    /\ At("mark")
    /\ Put("temp", [dirs["temp"] EXCEPT !.stray = TRUE]) /\ Goes("marking")
    /\ UNCHANGED manifest /\ External /\ Calm

ReplacesMarker ==
    /\ At("marking")
    /\ Put("temp", [dirs["temp"] EXCEPT !.stray = FALSE, !.marker = "copying"]) /\ Goes("copy")
    /\ UNCHANGED manifest /\ External /\ Calm

Copies ==
    /\ At("copy")
    /\ \E name \in Names(dirs["old"]) \ Names(dirs["temp"]) :
          Put("temp", [dirs["temp"] EXCEPT !.entries =
                 [m \in Names(dirs["temp"]) \cup {name} |->
                    IF m = name THEN dirs["old"].entries[m] ELSE dirs["temp"].entries[m]]])
    /\ UNCHANGED <<manifest, op>> /\ External /\ Calm

Copied == At("copy") /\ Names(dirs["old"]) = Names(dirs["temp"])

StorageIsRefused == Copied /\ Same(dirs["temp"]) /\ ~audited /\ Refuses("storage")

\* _relocate_native_index, bind_directory and the digest of the result.
Seals ==
    /\ Copied /\ Same(dirs["temp"]) /\ audited
    /\ LET entries == [n \in Names(dirs["temp"]) \cup {Binding} |->
                         IF n = Binding THEN 0 ELSE dirs["temp"].entries[n]]
       IN Put("temp", [entries |-> entries, index |-> "new", marker |-> "sealed",
                       seal |-> <<entries, "new">>, stray |-> FALSE])
    /\ Goes("publish")
    /\ UNCHANGED manifest /\ External /\ Calm

Publishes ==
    /\ At("publish") /\ Move("temp", "new") /\ Goes("verify")
    /\ UNCHANGED manifest /\ External /\ Calm

Verified == dirs["new"].marker = "sealed" /\ dirs["new"].seal = Content(dirs["new"])

SwitchesManifest ==
    /\ At("verify") /\ Verified
    /\ manifest' = [manifest EXCEPT !.at = "new"] /\ Goes("retire_old")
    /\ UNCHANGED dirs /\ External /\ Calm

PutsOldAside ==
    /\ At("retire_old") /\ Goes("remove")
    /\ IF dirs["old"] = None THEN UNCHANGED dirs
       ELSE dirs["aside"] = None /\ Move("old", "aside")
    /\ UNCHANGED manifest /\ External /\ Calm

RemovesOld ==
    /\ At("remove") /\ dirs["aside"] # None /\ RemovesFrom("aside")
    /\ UNCHANGED <<manifest, op>> /\ External /\ Calm

CompletesJournal ==
    /\ At("remove") /\ dirs["aside"] = None
    /\ manifest' = [manifest EXCEPT !.journal = "done"] /\ Goes("ready")
    /\ UNCHANGED dirs /\ External /\ Calm

-----------------------------------------------------------------------------
(* What the operations do with a migrated slot.  A run acquires it, starts *)
(* an app-server, asks for turns and closes; maintenance retires or purges.*)

Proceeds ==
    /\ At("ready")
    /\ \/ op.kind = "migrate" /\ op' = Free
       \/ op.kind = "retire" /\ Goes("maintain")
       \/ op.kind = "run" /\ Parts \subseteq Names(Named) /\ Goes("lease")
    /\ UNCHANGED <<manifest, dirs>> /\ External /\ Calm

\* A new slot: its directories, its identity, and the manifest last.
MakesSlot ==
    /\ At("make") /\ Goes("bind")
    /\ Put("new", IF dirs["new"] = None THEN Directory(Initially(Parts), "new") ELSE dirs["new"])
    /\ UNCHANGED manifest /\ External /\ Calm

BindingIsRefused ==
    At("bind") /\ Binding \notin Names(dirs["new"]) /\ dirs["new"].stray /\ Refuses("unbound")

BindsSlot ==
    /\ At("bind")
    /\ \/ Binding \in Names(dirs["new"]) /\ Goes("lease") /\ UNCHANGED dirs
       \/ /\ Binding \notin Names(dirs["new"]) /\ ~dirs["new"].stray
          /\ Goes("binding") /\ Put("new", [dirs["new"] EXCEPT !.stray = TRUE])
    /\ UNCHANGED manifest /\ External /\ Calm

ReplacesBinding ==
    /\ At("binding") /\ Goes("lease")
    /\ Put("new", Directory(Initially(Parts \cup {Binding}), "new"))
    /\ UNCHANGED manifest /\ External /\ Calm

LeaseIsRefused == At("lease") /\ Busy /\ Refuses("busy")

\* Faulty variant: whoever has the lock has the slot to himself.
IdleByLock == TRUE

Idle == ~Busy

Acquires ==
    /\ At("lease") /\ Idle
    /\ manifest' = (IF manifest = None THEN NewManifest ELSE manifest) /\ Goes("connect")
    /\ UNCHANGED dirs /\ External /\ Calm

Launches ==
    /\ At("connect")
    /\ \E n \in Servers :
          /\ server[n] = "unborn" /\ \A m \in 1 .. (n - 1) : server[m] # "unborn"
          /\ server' = [server EXCEPT ![n] = manifest.at]
          /\ op' = [op EXCEPT !.at = "record", !.server = n]
    /\ UNCHANGED <<manifest, dirs, audited, asked>> /\ Calm

RecordsOwner ==
    /\ At("record")
    /\ manifest' = [manifest EXCEPT !.owner = op.server] /\ Goes("use")
    /\ UNCHANGED dirs /\ External /\ Calm

\* What became of an earlier turn is settled before another is asked for.
AsksTurn ==
    /\ At("use") /\ manifest.turn = "settled" /\ asked < MaxTurns
    /\ manifest' = [manifest EXCEPT !.turn = "asked"] /\ asked' = asked + 1
    /\ UNCHANGED <<dirs, server, audited, op>> /\ Calm

\* A turn that was held may be settled by a later run.
SettlesTurn ==
    /\ At("use") /\ manifest.turn # "settled"
    /\ manifest' = [manifest EXCEPT !.turn = "settled"]
    /\ UNCHANGED <<dirs, op>> /\ External /\ Calm

\* The run cannot tell what became of the turn, or it is still going on.
HoldsTurn ==
    /\ At("use") /\ manifest.turn = "asked"
    /\ manifest' = [manifest EXCEPT !.turn = "held"]
    /\ UNCHANGED <<dirs, op>> /\ External /\ Calm

Closes ==
    /\ op.at \in {"record", "use"} /\ Goes("release")
    /\ server' = [server EXCEPT ![op.server] = "ended"]
    /\ UNCHANGED <<manifest, dirs, audited, asked>> /\ Calm

Releases ==
    /\ \/ At("release") /\ manifest' = [manifest EXCEPT !.owner = 0]
       \/ At("connect") /\ UNCHANGED manifest
    /\ op' = Free
    /\ UNCHANGED dirs /\ External /\ Calm

\* file_lock makes the directory that it locks, also after a purge.
MakesLockDirectory ==
    /\ At("maintain") /\ op.kind = "retire" /\ Named = None
    /\ Put(manifest.at, Directory(Initially({}), manifest.at))
    /\ UNCHANGED <<manifest, op>> /\ External /\ Calm

\* A slot that was retired under its full name: it is not moved, and not touched.
Stranded == ~Committed /\ manifest.journal # "none"

MaintenanceIsRefused ==
    /\ At("maintain")
    /\ \/ Stranded /\ Refuses("stranded")
       \/ Named = None /\ op.kind = "purge" /\ Refuses("missing")
       \/ /\ Named # None
          /\ \/ Committed /\ Binding \notin Names(Named) /\ Refuses("unbound")
             \/ Busy /\ Refuses("busy")
             \/ op.kind = "purge" /\ manifest.turn = "asked" /\ Refuses("uncertain")

MayMaintain ==
    Named # None /\ ~Busy /\ ~Stranded /\ (Committed => Binding \in Names(Named))

Retires ==
    /\ At("maintain") /\ op.kind = "retire" /\ MayMaintain
    /\ manifest' = [manifest EXCEPT !.retired = TRUE] /\ op' = Free
    /\ UNCHANGED dirs /\ External /\ Calm

\* A turn that is held does not stand in the way.
PurgeBegins ==
    /\ At("maintain") /\ op.kind = "purge" /\ MayMaintain
    /\ manifest.turn # "asked"
    /\ Goes("purging")
    /\ UNCHANGED <<manifest, dirs>> /\ External /\ Calm

Purges ==
    /\ At("purging") /\ RemovesFrom(manifest.at)
    /\ IF dirs'[manifest.at] = None THEN op' = Free ELSE UNCHANGED op
    /\ UNCHANGED manifest /\ External /\ Calm

-----------------------------------------------------------------------------
(* The app-servers and death.*)

\* An app-server works for whom it was told to, also when that one is gone.
ServerWrites ==
    /\ Busy /\ manifest.turn # "settled"
    /\ LET place == server[manifest.owner]
       IN /\ dirs[place] # None
          /\ \A p \in Parts \cap Names(dirs[place]) : dirs[place].entries[p] < MaxTurns
          /\ Put(place, [dirs[place] EXCEPT !.entries =
                 [n \in Names(dirs[place]) |->
                    dirs[place].entries[n] + (IF n \in Parts THEN 1 ELSE 0)]])
    /\ UNCHANGED <<manifest, op>> /\ External /\ Calm

ServerExits ==
    /\ \E n \in Servers : /\ Alive(n) /\ op.server # n
                          /\ server' = [server EXCEPT ![n] = "ended"]
    /\ UNCHANGED <<manifest, dirs, audited, asked, op>> /\ Calm

\* A death between these two steps leaves what no later operation takes for its own.
TornAt == {"marking", "clear", "binding"}

Dies ==
    /\ op # Free /\ deaths < MaxDeaths
    /\ op' = Free /\ deaths' = deaths + 1
    /\ torn' = torn \cup ({op.at} \cap TornAt)
    /\ UNCHANGED <<manifest, dirs, refused>> /\ External

Next ==
    \/ \E kind \in {"run", "migrate", "retire", "purge"} : Begins(kind)
    \/ RetiredIsRefused \/ LayoutIsCurrent \/ MigrationIsRefused \/ OpensJournal
    \/ Stages \/ StagingIsRefused \/ ClearsStage \/ MakesStage
    \/ WritesMarker \/ ReplacesMarker \/ Copies \/ StorageIsRefused \/ Seals \/ Publishes
    \/ SwitchesManifest \/ PutsOldAside \/ RemovesOld \/ CompletesJournal
    \/ Proceeds \/ MakesSlot \/ BindingIsRefused \/ BindsSlot
    \/ ReplacesBinding \/ LeaseIsRefused \/ Acquires
    \/ Launches \/ RecordsOwner \/ AsksTurn \/ SettlesTurn \/ HoldsTurn \/ Closes \/ Releases
    \/ MakesLockDirectory \/ MaintenanceIsRefused \/ Retires \/ PurgeBegins \/ Purges
    \/ ServerWrites \/ ServerExits \/ Dies

Spec == Init /\ [][Next]_vars

-----------------------------------------------------------------------------

InUse == op.at \in {"connect", "record", "use", "release"}

\* Once a migration is through, and whenever the session is at work in its new
\* place, that place is the only one that has a copy of the native state: nothing
\* is left that a later operation, or an app-server, could write or resume.
NoSecondRuntime ==
    manifest # None /\ Committed /\ (manifest.journal # "open" \/ InUse) =>
        \A p \in Places \ {"new"} : dirs[p] = None

\* The copies are verified, the old directory is complete and as the journal has
\* it, and the native state is where the manifest says: checks of the code that
\* raise otherwise, for ever.
ChecksHold ==
    /\ Unmoved => OldIsWhole
    /\ At("stage") => dirs["new"] # None \/ ~Committed
    /\ Copied => Same(dirs["temp"])
    /\ At("verify") => Verified
    /\ At("retire_old") => dirs["old"] = None \/ dirs["aside"] = None
    /\ At("ready") => Named # None /\ Parts \subseteq Names(Named)

\* An operation is only turned away for a reason it may give: an app-server's
\* owner is on record, the session was retired, or an earlier operation died
\* where what it leaves cannot be told from foreign files (TornAt).  A death
\* anywhere else is reconciled: the next migration starts over or goes on.
RefusedForCause ==
    /\ ChecksHold
    /\ refused = "busy" => manifest.owner # 0
    /\ refused \in {"missing", "stranded"} => manifest.retired
    /\ refused = "unowned" => torn \cap {"marking", "clear"} # {}
    /\ refused = "unbound" => "binding" \in torn \/ manifest.retired

\* docs/prd-p0-p5-persistent-sessions.md: "A durable migration journal reconciles every
\* interruption boundary without inference or a second writable runtime."  So no
\* migration finds the directory that an interrupted one made to be another's.
\* The code breaks this.
EveryInterruptionIsReconciled == refused # "unowned"

\* The session's state is that of the named directory, if it is whole, its parts
\* agree with each other, and its index points to where it is.
State ==
    LET d == Named
    IN IF manifest = None THEN 0
       ELSE IF /\ d # None /\ Parts \subseteq Names(d) /\ d.index = manifest.at
               /\ \A p, q \in Parts : d.entries[p] = d.entries[q]
            THEN d.entries[CHOOSE p \in Parts : TRUE]
       ELSE None

Session == INSTANCE NativeSession WITH
    Gone <- None, native <- State,
    writers <- {n \in Servers : Busy /\ n = manifest.owner},
    turn <- IF manifest = None THEN "settled" ELSE manifest.turn,
    retired <- manifest # None /\ manifest.retired

\* Wherever the directory is moved, and wherever an operation dies on the way, the
\* native session is one that a single app-server writes, that loses no turn, and
\* that disappears only when it is retired, no turn is asked for, and it is purged.
ImplementsSession == Session!Spec

=============================================================================
