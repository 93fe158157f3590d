------------------------- MODULE SourceRuntimeProofs -------------------------
(***************************************************************************)
(* The safety of SourceRuntime, proved for every set of parts, number of   *)
(* app-servers, turns and deaths, and that it implements NativeSession.    *)
(*                                                                         *)
(* A migration takes the disk through phases that the manifest tells       *)
(* apart: Unopened, Opened, Switched and Settled, and Fresh before there   *)
(* is one.  The invariant says for each phase which directories there are  *)
(* and what they hold (DiskInv), what the operation that holds the lock    *)
(* knows at its place in the code (AtInv), and what a death left that no   *)
(* later operation can tell from foreign files (LeftInv, RefusalInv).      *)
(***************************************************************************)
EXTENDS SourceRuntime, TLAPS

Positions == {"none", "make", "bind", "binding", "layout", "stage", "clear", "mkdir", "mark",
  "marking", "copy", "publish", "verify", "retire_old", "remove", "ready", "lease", "connect",
  "record", "use", "release", "maintain", "purging"}

TypeInv ==
  /\ manifest \in Manifests \cup {None}
  /\ dirs \in [Places -> Directories \cup {None}]
  /\ server \in [Servers -> {"old", "new", "unborn", "ended"}]

OpInv ==
  /\ op \in [kind : {"none", "run", "migrate", "retire", "purge"}, at : Positions,
             server : 0 .. MaxServers]
  /\ op.at = "none" <=> op.kind = "none"
  /\ op.at \in {"record", "use", "release"} => op.server \in Servers
  /\ op.at \notin {"record", "use", "release"} => op.server = 0

\* A directory with the whole of the native state, at home in that place.
Whole(d, place) ==
  /\ d # None /\ Parts \subseteq Names(d) /\ d.index = place
  /\ \A p, q \in Parts : d.entries[p] = d.entries[q]

Bound(e) == [n \in DOMAIN e \cup {Binding} |-> IF n = Binding THEN 0 ELSE e[n]]

\* The finished copy of what the journal names.
Sealed(d) ==
  /\ d # None /\ d.marker = "sealed" /\ d.seal = Content(d)
  /\ d.index = "new" /\ d.entries = Bound(manifest.source[1])

SourceWhole ==
  /\ manifest.source \in Contents /\ Parts \subseteq DOMAIN manifest.source[1]
  /\ \A p, q \in Parts : manifest.source[1][p] = manifest.source[1][q]
  /\ manifest.source[2] = "old"

\* A directory that is being written: nothing is sealed yet.
Unsealed(entries, index, stray) ==
  [entries |-> entries, index |-> index, marker |-> "none", seal |-> None, stray |-> stray]

Made(stray) == Unsealed(Initially(Parts), "new", stray)
Slot == Unsealed(Initially(Parts \cup {Binding}), "new", FALSE)

NoOther(place) == \A p \in Places \ {place} : dirs[p] = None

(* What is on the disk, by how far a migration has come. *)

FreshDisk == manifest = None =>
  /\ NoOther("new") /\ dirs["new"] \in {None, Made(FALSE), Made(TRUE), Slot}
  /\ \A n \in Servers : server[n] = "unborn"

Unopened == manifest # None /\ ~Committed /\ manifest.journal # "open"
Opened == manifest # None /\ ~Committed /\ manifest.journal = "open"
Switched == manifest # None /\ Committed /\ manifest.journal = "open"
Settled == manifest # None /\ Committed /\ manifest.journal # "open"

UnopenedDisk == Unopened =>
  NoOther("old") /\ (~manifest.retired => Whole(dirs["old"], "old"))

OpenedDisk == Opened =>
  /\ SourceWhole /\ Same(dirs["old"]) /\ dirs["aside"] = None
  /\ dirs["new"] # None => Sealed(dirs["new"]) /\ dirs["temp"] = None

SwitchedDisk == Switched =>
  /\ SourceWhole /\ Sealed(dirs["new"]) /\ dirs["temp"] = None
  /\ dirs["old"] # None => Same(dirs["old"]) /\ dirs["aside"] = None

SettledDisk == Settled =>
  NoOther("new") /\ (~manifest.retired => Whole(dirs["new"], "new") /\ Binding \in Names(dirs["new"]))

OwnerInv == manifest # None =>
  /\ manifest.owner # 0 => server[manifest.owner] \in {"ended", manifest.at}
  /\ manifest.journal = "open" => ~manifest.retired
  /\ Busy => ~manifest.retired /\ manifest.journal # "open"

DiskInv == TypeInv /\ FreshDisk /\ UnopenedDisk /\ OpenedDisk /\ SwitchedDisk /\ SettledDisk /\ OwnerInv

(* What the operation that holds the lock knows, by where it is. *)

FreshAt == manifest = None =>
  /\ op.at \in {"none", "make", "bind", "binding", "lease"} /\ op.kind \in {"none", "run"}
  /\ op.at \in {"bind", "binding", "lease"} => dirs["new"] # None
  /\ op.at = "binding" => dirs["new"] = Made(TRUE)
  /\ op.at = "lease" => dirs["new"] = Slot

SlotAt ==
  /\ Unopened =>
       /\ op.at \in {"none", "layout", "maintain", "purging"}
       /\ ~manifest.retired => op.at \in {"none", "layout"}
  /\ Opened =>
       /\ op.at \in {"none", "layout", "stage", "clear", "mkdir", "mark", "marking", "copy", "publish", "verify"}
       /\ op.at \in {"clear", "mkdir", "mark", "marking", "copy", "publish"} => dirs["new"] = None
       /\ op.at = "verify" => dirs["new"] # None
  /\ Switched =>
       /\ op.at \in {"none", "layout", "stage", "verify", "retire_old", "remove"}
       /\ op.at = "remove" => dirs["old"] = None
  /\ Settled =>
       /\ op.at \in {"none", "layout", "ready", "lease", "connect", "record", "use", "release",
                     "maintain", "purging"}
       /\ op.at = "purging" => manifest.retired
       /\ manifest.retired => op.at \in {"none", "layout", "maintain", "purging"}

StageAt == Opened =>
  /\ op.at = "mkdir" => dirs["temp"] = None
  /\ op.at \in {"clear", "mark", "marking", "copy", "publish"} => dirs["temp"] # None
  /\ op.at \in {"mark", "marking"} => dirs["temp"].index = "old" /\ Names(dirs["temp"]) = {}
  /\ op.at = "copy" =>
       /\ dirs["temp"].marker = "copying" /\ dirs["temp"].index = "old"
       /\ Names(dirs["temp"]) \subseteq DOMAIN manifest.source[1]
       /\ \A n \in Names(dirs["temp"]) : dirs["temp"].entries[n] = manifest.source[1][n]
  /\ op.at = "publish" => Sealed(dirs["temp"])

UseAt == manifest # None =>
  /\ op.at \in {"connect", "record", "release", "purging"} => ~Busy
  /\ op.at \in {"record", "use"} => server[op.server] = manifest.at
  /\ op.at = "use" => manifest.owner = op.server
  /\ op.at = "purging" => manifest.turn # "asked" /\ manifest.retired /\ Named # None
  /\ op.at = "maintain" => op.kind \in {"retire", "purge"}
  /\ op.kind = "purge" => manifest.retired

AtInv == OpInv /\ FreshAt /\ SlotAt /\ StageAt /\ UseAt

(* What a death left half done, and why an operation was refused. *)

LeftInv ==
  /\ torn \subseteq TornAt
  /\ manifest = None /\ dirs["new"] = Made(TRUE) => op.at = "binding" \/ "binding" \in torn
  /\ Opened /\ dirs["temp"] # None /\ ~Owned(dirs["temp"]) =>
       op.at \in {"clear", "marking"} \/ torn \cap {"marking", "clear"} # {}

RefusalInv ==
  /\ op.at # "none" => refused = "no"
  /\ refused = "busy" => manifest # None /\ manifest.owner # 0
  /\ refused \in {"missing", "stranded"} => manifest # None /\ manifest.retired
  /\ refused = "unowned" => torn \cap {"marking", "clear"} # {}
  /\ refused = "unbound" => "binding" \in torn \/ (manifest # None /\ manifest.retired)

IInv == DiskInv /\ AtInv /\ LeftInv /\ RefusalInv

-----------------------------------------------------------------------------
(* Directories, manifests and what changes them *)

LEMMA EntriesAre ==
  \A e : e \in Entries <=> \E S \in SUBSET (Parts \cup {Binding}) : e \in [S -> 0 .. MaxTurns]
  BY DEF Entries

LEMMA DirectoryChanges ==
  ASSUME NEW d \in Directories
  PROVE  /\ d # None /\ d.entries \in Entries /\ Content(d) \in Contents
         /\ \A b \in BOOLEAN : [d EXCEPT !.stray = b] \in Directories
         /\ [d EXCEPT !.marker = "none", !.seal = None] \in Directories
         /\ [d EXCEPT !.stray = FALSE, !.marker = "copying"] \in Directories
         /\ \A e \in Entries : [d EXCEPT !.entries = e] \in Directories
  BY NoneAssumption DEF Directories, Content, Contents

LEMMA UnsealedIsTyped ==
  ASSUME NEW e \in Entries, NEW index \in {"old", "new"}, NEW stray \in BOOLEAN
  PROVE  Unsealed(e, index, stray) \in Directories /\ Unsealed(e, index, stray) # None
  BY NoneAssumption DEF Unsealed, Directories

LEMMA StrayChanges ==
  \A e, index, stray, b :
    [Unsealed(e, index, stray) EXCEPT !.stray = b] = Unsealed(e, index, b)
  BY DEF Unsealed

LEMMA DirectoryIsUnsealed ==
  ASSUME NEW e, NEW index
  PROVE  Directory(e, index) = Unsealed(e, index, FALSE)
  BY DEF Directory, Unsealed

LEMMA InitiallyIsTyped ==
  ASSUME NEW S \in SUBSET (Parts \cup {Binding})
  PROVE  Initially(S) \in Entries
  <1>1. Initially(S) \in [S -> 0 .. MaxTurns]
    BY RuntimeBounds DEF Initially
  <1> QED BY <1>1, EntriesAre

LEMMA ManifestChanges ==
  ASSUME NEW m \in Manifests
  PROVE  /\ m # None
         /\ \A b \in Outcomes : [m EXCEPT !.turn = b] \in Manifests
         /\ \A n \in 0 .. MaxServers : [m EXCEPT !.owner = n] \in Manifests
         /\ [m EXCEPT !.retired = TRUE] \in Manifests
         /\ [m EXCEPT !.at = "new"] \in Manifests
         /\ [m EXCEPT !.journal = "done"] \in Manifests
         /\ \A c \in Contents : [m EXCEPT !.journal = "open", !.source = c] \in Manifests
  BY NoneAssumption DEF Manifests

LEMMA PutTyped ==
  ASSUME TypeInv, NEW p \in Places, NEW d \in Directories \cup {None}, Put(p, d)
  PROVE  /\ dirs' \in [Places -> Directories \cup {None}]
         /\ dirs'[p] = d /\ \A q \in Places \ {p} : dirs'[q] = dirs[q]
  BY DEF TypeInv, Put

LEMMA MoveTyped ==
  ASSUME TypeInv, NEW p \in Places, NEW q \in Places, p # q, Move(p, q)
  PROVE  /\ dirs' \in [Places -> Directories \cup {None}]
         /\ dirs'[p] = None /\ dirs'[q] = dirs[p]
         /\ \A r \in Places \ {p, q} : dirs'[r] = dirs[r]
  BY DEF TypeInv, Move

\* What an interrupted rmtree leaves is part of what was there.
LEMMA RemovalLeaves ==
  ASSUME TypeInv, NEW p \in Places, dirs[p] # None, RemovesFrom(p)
  PROVE  \E d \in Directories \cup {None} :
           /\ Put(p, d)
           /\ d # None => /\ d.index = dirs[p].index /\ Names(d) \subseteq Names(dirs[p])
                          /\ \A n \in Names(d) : d.entries[n] = dirs[p].entries[n]
  <1> DEFINE old == dirs[p]
  <1>1. old \in Directories
    BY DEF TypeInv
  <1>2. ASSUME NEW name \in Names(old),
               Put(p, [old EXCEPT !.entries = Restrict(old.entries, Names(old) \ {name})])
        PROVE  \E d \in Directories \cup {None} :
                 /\ Put(p, d)
                 /\ d # None => /\ d.index = old.index /\ Names(d) \subseteq Names(old)
                                /\ \A n \in Names(d) : d.entries[n] = old.entries[n]
    <2> DEFINE e == Restrict(old.entries, Names(old) \ {name})
               d == [old EXCEPT !.entries = e]
    <2>1. old.entries \in Entries
      BY <1>1, DirectoryChanges
    <2>2. PICK S \in SUBSET (Parts \cup {Binding}) : old.entries \in [S -> 0 .. MaxTurns]
      BY <2>1, EntriesAre
    <2>3. Names(old) = S
      BY <2>2 DEF Names
    <2>4. e \in [S \ {name} -> 0 .. MaxTurns]
      BY <2>2, <2>3 DEF Restrict
    <2>5. e \in Entries
      BY <2>4, EntriesAre, S \ {name} \in SUBSET (Parts \cup {Binding})
    <2>6. d \in Directories
      BY <1>1, <2>5, DirectoryChanges
    <2>7. d.index = old.index /\ d.entries = e
      BY <1>1 DEF Directories
    <2>8. Names(d) \subseteq Names(old) /\ \A n \in Names(d) : d.entries[n] = old.entries[n]
      BY <2>7 DEF Names, Restrict
    <2> QED BY <1>2, <2>6, <2>7, <2>8
  <1>3. ASSUME NEW d \in Directories, Put(p, d), d.index = old.index, d.entries = old.entries
        PROVE  \E c \in Directories \cup {None} :
                 /\ Put(p, c)
                 /\ c # None => /\ c.index = old.index /\ Names(c) \subseteq Names(old)
                                /\ \A n \in Names(c) : c.entries[n] = old.entries[n]
    BY <1>3 DEF Names
  <1>4. CASE Put(p, [old EXCEPT !.marker = "none", !.seal = None])
    <2> DEFINE d == [old EXCEPT !.marker = "none", !.seal = None]
    <2>1. d \in Directories /\ d.index = old.index /\ d.entries = old.entries
      BY <1>1, DirectoryChanges DEF Directories
    <2> QED BY <1>3, <1>4, <2>1
  <1>5. CASE Put(p, [old EXCEPT !.stray = FALSE])
    <2> DEFINE d == [old EXCEPT !.stray = FALSE]
    <2>1. d \in Directories /\ d.index = old.index /\ d.entries = old.entries
      BY <1>1, DirectoryChanges DEF Directories
    <2> QED BY <1>3, <1>5, <2>1
  <1>6. CASE Put(p, None)
    BY <1>6
  <1> QED BY <1>2, <1>4, <1>5, <1>6 DEF RemovesFrom

-----------------------------------------------------------------------------
(* Steps that leave the disk as it is *)

LEMMA DiskStays ==
  ASSUME DiskInv, UNCHANGED <<manifest, dirs, server>>
  PROVE  DiskInv'
  BY DEF DiskInv, TypeInv, FreshDisk, UnopenedDisk, OpenedDisk, SwitchedDisk, SettledDisk, OwnerInv,
         Unopened, Opened, Switched, Settled, NoOther, Sealed, SourceWhole, Same, Content, Whole,
         Names, Committed, Busy, Alive

\* The operation is over: nothing is assumed of it any more.
LEMMA FreeIsAnywhere ==
  ASSUME op' = Free
  PROVE  AtInv'
  BY RuntimeBounds DEF AtInv, OpInv, FreshAt, SlotAt, StageAt, UseAt, Free, Positions

LEMMA GoesOn ==
  ASSUME OpInv, op.at # "none", NEW place \in Positions \ {"none", "record", "use", "release"},
         op.server = 0, op' = [op EXCEPT !.at = place]
  PROVE  OpInv' /\ op'.at = place /\ op'.kind = op.kind /\ op'.server = 0
  BY RuntimeBounds DEF OpInv
-----------------------------------------------------------------------------
(* The copy in the making: only the temporary directory changes *)

LEMMA StagingKeepsDisk ==
  ASSUME DiskInv, Opened, dirs["new"] = None,
         NEW d \in Directories \cup {None}, Put("temp", d), UNCHANGED <<manifest, server>>
  PROVE  /\ DiskInv' /\ Opened'
         /\ dirs'["temp"] = d /\ dirs'["new"] = None
  <1>1. /\ dirs' \in [Places -> Directories \cup {None}]
        /\ dirs'["temp"] = d /\ \A q \in Places \ {"temp"} : dirs'[q] = dirs[q]
    BY PutTyped DEF DiskInv, Places
  <1>2. TypeInv'
    BY <1>1 DEF DiskInv, TypeInv
  <1>3. Opened' /\ ~Unopened' /\ ~Switched' /\ ~Settled' /\ manifest' # None
    BY DEF Opened, Unopened, Switched, Settled, Committed
  <1>4. OpenedDisk'
    BY <1>1, <1>3 DEF DiskInv, OpenedDisk, SourceWhole, Same, Content, Places
  <1>5. OwnerInv'
    BY DEF DiskInv, OwnerInv, Busy, Alive
  <1> QED BY <1>1, <1>2, <1>3, <1>4, <1>5
          DEF DiskInv, FreshDisk, UnopenedDisk, SwitchedDisk, SettledDisk, Places

\* So a step of the copy has to show what it leaves there, and whose it looks.
LEMMA StagingKeeps ==
  ASSUME IInv, Opened, dirs["new"] = None,
         NEW d \in Directories \cup {None}, Put("temp", d),
         UNCHANGED <<manifest, server, refused, torn>>,
         op.at \in {"clear", "mkdir", "mark", "marking", "copy"},
         op'.at \in {"clear", "mkdir", "mark", "marking", "copy", "publish"},
         op' = [op EXCEPT !.at = op'.at],
         StageAt',
         d # None /\ ~Owned(d) => op'.at \in {"clear", "marking"}
  PROVE  IInv'
  <1>1. /\ DiskInv' /\ Opened' /\ dirs'["temp"] = d /\ dirs'["new"] = None
    BY StagingKeepsDisk DEF IInv
  <1>2. manifest # None /\ ~Unopened /\ ~Switched /\ ~Settled
    BY DEF Opened, Unopened, Switched, Settled
  <1>3. manifest' # None /\ ~Unopened' /\ ~Switched' /\ ~Settled'
    BY <1>2 DEF Opened, Unopened, Switched, Settled, Committed
  <1>4. OpInv' /\ op'.kind = op.kind
    BY GoesOn DEF IInv, AtInv, OpInv, Positions
  <1>5. FreshAt' /\ SlotAt' /\ UseAt'
    BY <1>1, <1>2, <1>3, <1>4 DEF IInv, AtInv, FreshAt, SlotAt, UseAt
  <1>6. LeftInv'
    BY <1>1, <1>3 DEF IInv, LeftInv
  <1>7. RefusalInv'
    BY DEF IInv, RefusalInv
  <1> QED BY <1>1, <1>4, <1>5, <1>6, <1>7 DEF IInv, AtInv

\* While it is being made, the migration has the slot opened, and no new place yet.
LEMMA StagingIsOpened ==
  ASSUME IInv, op.at \in {"clear", "mkdir", "mark", "marking", "copy", "publish"}
  PROVE  Opened /\ dirs["new"] = None
  BY DEF IInv, AtInv, FreshAt, SlotAt, Unopened, Opened, Switched, Settled

LEMMA ClearsStageKeeps ==
  ASSUME IInv, ClearsStage
  PROVE  IInv'
  <1>1. op.at = "clear" /\ Opened /\ dirs["new"] = None /\ dirs["temp"] # None
    BY StagingIsOpened DEF ClearsStage, At, IInv, AtInv, StageAt
  <1>2. PICK d \in Directories \cup {None} : Put("temp", d)
    BY <1>1, RemovalLeaves DEF ClearsStage, IInv, DiskInv, Places
  <1>3. dirs'["temp"] = d /\ Opened'
    BY <1>1, <1>2, StagingKeepsDisk DEF IInv, ClearsStage, External
  <1>4. op' = [op EXCEPT !.at = op'.at] /\ op'.at = IF d = None THEN "mkdir" ELSE "clear"
    BY <1>3 DEF ClearsStage, Goes, IInv, AtInv, OpInv
  <1>5. StageAt'
    BY <1>3, <1>4 DEF StageAt
  <1> QED BY <1>1, <1>2, <1>4, <1>5, StagingKeeps DEF ClearsStage, External, Calm

LEMMA MakesStageKeeps ==
  ASSUME IInv, MakesStage
  PROVE  IInv'
  <1> DEFINE d == Unsealed(Initially({}), "old", FALSE)
  <1>1. op.at = "mkdir" /\ Opened /\ dirs["new"] = None
    BY StagingIsOpened DEF MakesStage, At
  <1>2. d \in Directories /\ d # None /\ Put("temp", d)
    BY InitiallyIsTyped, UnsealedIsTyped, DirectoryIsUnsealed DEF MakesStage
  <1>3. dirs'["temp"] = d
    BY <1>1, <1>2, StagingKeepsDisk DEF IInv, MakesStage, External
  <1>4. op' = [op EXCEPT !.at = op'.at] /\ op'.at = "mark"
    BY DEF MakesStage, Goes, IInv, AtInv, OpInv
  <1>5. d.index = "old" /\ Names(d) = {} /\ Owned(d)
    BY DEF Owned, IsEmpty, Unsealed, Initially, Names
  <1> HIDE DEF d
  <1>6. StageAt'
    BY <1>2, <1>3, <1>4, <1>5 DEF StageAt, Names, MakesStage
  <1> QED BY <1>1, <1>2, <1>4, <1>5, <1>6, StagingKeeps DEF MakesStage, External, Calm

LEMMA WritesMarkerKeeps ==
  ASSUME IInv, WritesMarker
  PROVE  IInv'
  <1> DEFINE t == dirs["temp"]
             d == [t EXCEPT !.stray = TRUE]
  <1>1. op.at = "mark" /\ Opened /\ dirs["new"] = None /\ t # None
    BY StagingIsOpened DEF WritesMarker, At, IInv, AtInv, StageAt
  <1>2. t \in Directories /\ t.index = "old" /\ Names(t) = {}
    BY <1>1 DEF IInv, DiskInv, TypeInv, Places, AtInv, StageAt
  <1>3. d \in Directories /\ d # None /\ Put("temp", d)
    BY <1>2, DirectoryChanges DEF WritesMarker
  <1>4. d.index = "old" /\ Names(d) = {}
    BY <1>2 DEF Directories, Names
  <1> HIDE DEF d
  <1>5. dirs'["temp"] = d
    BY <1>1, <1>3, StagingKeepsDisk DEF IInv, WritesMarker, External
  <1>6. op' = [op EXCEPT !.at = op'.at] /\ op'.at = "marking"
    BY DEF WritesMarker, Goes, IInv, AtInv, OpInv
  <1>7. StageAt'
    BY <1>3, <1>4, <1>5, <1>6 DEF StageAt, Names, WritesMarker
  <1> QED BY <1>1, <1>3, <1>6, <1>7, StagingKeeps DEF WritesMarker, External, Calm

LEMMA ReplacesMarkerKeeps ==
  ASSUME IInv, ReplacesMarker
  PROVE  IInv'
  <1> DEFINE t == dirs["temp"]
             d == [t EXCEPT !.stray = FALSE, !.marker = "copying"]
  <1>1. op.at = "marking" /\ Opened /\ dirs["new"] = None /\ t # None
    BY StagingIsOpened DEF ReplacesMarker, At, IInv, AtInv, StageAt
  <1>2. t \in Directories /\ t.index = "old" /\ Names(t) = {}
    BY <1>1 DEF IInv, DiskInv, TypeInv, Places, AtInv, StageAt
  <1>3. d \in Directories /\ d # None /\ Put("temp", d)
    BY <1>2, DirectoryChanges DEF ReplacesMarker
  <1>4. d.marker = "copying" /\ d.index = "old" /\ Names(d) = {}
    BY <1>2 DEF Directories, Names
  <1> HIDE DEF d
  <1>5. dirs'["temp"] = d
    BY <1>1, <1>3, StagingKeepsDisk DEF IInv, ReplacesMarker, External
  <1>6. op' = [op EXCEPT !.at = op'.at] /\ op'.at = "copy"
    BY DEF ReplacesMarker, Goes, IInv, AtInv, OpInv
  <1>7. StageAt'
    BY <1>3, <1>4, <1>5, <1>6 DEF StageAt, Names, ReplacesMarker
  <1>8. Owned(d)
    BY <1>4 DEF Owned
  <1> QED BY <1>1, <1>3, <1>6, <1>7, <1>8, StagingKeeps DEF ReplacesMarker, External, Calm

LEMMA CopiesKeeps ==
  ASSUME IInv, Copies
  PROVE  IInv'
  <1> DEFINE temp == dirs["temp"]
             e == manifest.source[1]
  <1>1. op.at = "copy" /\ Opened /\ dirs["new"] = None /\ temp # None
    BY StagingIsOpened DEF Copies, At, IInv, AtInv, StageAt
  <1>2. /\ temp.marker = "copying" /\ temp.index = "old"
        /\ Names(temp) \subseteq DOMAIN e
        /\ \A n \in Names(temp) : temp.entries[n] = e[n]
    BY <1>1 DEF IInv, AtInv, StageAt
  <1>3. e \in Entries /\ dirs["old"].entries = e /\ Names(dirs["old"]) = DOMAIN e
    <2>1. manifest.source = <<dirs["old"].entries, dirs["old"].index>> /\ manifest.source \in Contents
      BY <1>1 DEF IInv, DiskInv, OpenedDisk, SourceWhole, Same, Content
    <2> QED BY <2>1 DEF Contents, Names
  <1>4. PICK name \in Names(dirs["old"]) \ Names(temp) :
          Put("temp", [temp EXCEPT !.entries =
             [m \in Names(temp) \cup {name} |->
                IF m = name THEN dirs["old"].entries[m] ELSE temp.entries[m]]])
    BY DEF Copies
  <1> DEFINE f == [m \in Names(temp) \cup {name} |->
                     IF m = name THEN dirs["old"].entries[m] ELSE temp.entries[m]]
             d == [temp EXCEPT !.entries = f]
  <1>5. DOMAIN f \subseteq DOMAIN e /\ \A n \in DOMAIN f : f[n] = e[n]
    BY <1>2, <1>3, <1>4
  <1>6. f \in Entries
    <2>1. PICK S \in SUBSET (Parts \cup {Binding}) : e \in [S -> 0 .. MaxTurns]
      BY <1>3, EntriesAre
    <2>2. f \in [DOMAIN f -> 0 .. MaxTurns] /\ DOMAIN f \in SUBSET (Parts \cup {Binding})
      BY <1>5, <2>1
    <2> QED BY <2>2, EntriesAre
  <1> HIDE DEF f
  <1>7. temp \in Directories
    BY <1>1 DEF IInv, DiskInv, TypeInv, Places
  <1>8. d \in Directories /\ d # None
    BY <1>6, <1>7, DirectoryChanges
  <1>9. d.entries = f /\ d.marker = "copying" /\ d.index = "old"
    BY <1>2, <1>7 DEF Directories
  <1>10. Put("temp", d)
    BY <1>4 DEF f
  <1> HIDE DEF d
  <1>11. dirs'["temp"] = d
    BY <1>1, <1>8, <1>10, StagingKeepsDisk DEF IInv, Copies, External
  <1>12. op' = op /\ op' = [op EXCEPT !.at = op'.at] /\ op'.at = "copy"
    BY <1>1 DEF Copies, IInv, AtInv, OpInv
  <1>13. StageAt'
    BY <1>5, <1>8, <1>9, <1>11, <1>12 DEF StageAt, Names, Copies
  <1>14. Owned(d)
    BY <1>9 DEF Owned
  <1> QED BY <1>1, <1>8, <1>10, <1>12, <1>13, <1>14, StagingKeeps DEF Copies, External, Calm

LEMMA SealsKeeps ==
  ASSUME IInv, Seals
  PROVE  IInv'
  <1> DEFINE temp == dirs["temp"]
             f == [n \in Names(temp) \cup {Binding} |-> IF n = Binding THEN 0 ELSE temp.entries[n]]
             d == [entries |-> f, index |-> "new", marker |-> "sealed", seal |-> <<f, "new">>,
                   stray |-> FALSE]
  <1>1. op.at = "copy" /\ Opened /\ dirs["new"] = None /\ temp # None
    BY StagingIsOpened DEF Seals, Copied, At, IInv, AtInv, StageAt
  <1>2. Put("temp", d) /\ manifest.source[1] = temp.entries
    BY DEF Seals, Same, Content
  <1>3. f = Bound(manifest.source[1])
    BY <1>2 DEF Bound, Names
  <1>4. temp \in Directories /\ temp.entries \in Entries
    BY <1>1, DirectoryChanges DEF IInv, DiskInv, TypeInv, Places
  <1>5. f \in Entries
    <2>1. PICK S \in SUBSET (Parts \cup {Binding}) : temp.entries \in [S -> 0 .. MaxTurns]
      BY <1>4, EntriesAre
    <2>2. f \in [S \cup {Binding} -> 0 .. MaxTurns]
      BY <2>1, RuntimeBounds DEF Names
    <2> QED BY <2>2, EntriesAre, S \cup {Binding} \in SUBSET (Parts \cup {Binding})
  <1> HIDE DEF f
  <1>6. d \in Directories /\ d # None
    <2>1. <<f, "new">> \in Contents
      BY <1>5 DEF Contents
    <2>2. d \in Directories
      BY <1>5, <2>1 DEF Directories
    <2> QED BY <2>2, NoneAssumption
  <1>7. d.entries = f /\ d.index = "new" /\ d.marker = "sealed" /\ d.seal = Content(d)
    BY DEF Content
  <1> HIDE DEF d
  <1>8. dirs'["temp"] = d
    BY <1>1, <1>2, <1>6, StagingKeepsDisk DEF IInv, Seals, External
  <1>9. op' = [op EXCEPT !.at = op'.at] /\ op'.at = "publish"
    BY DEF Seals, Goes, IInv, AtInv, OpInv
  <1>10. StageAt'
    BY <1>3, <1>6, <1>7, <1>8, <1>9 DEF StageAt, Sealed, Content, Seals
  <1>11. Owned(d)
    BY <1>7 DEF Owned
  <1> QED BY <1>1, <1>2, <1>6, <1>9, <1>10, <1>11, StagingKeeps DEF Seals, External, Calm

-----------------------------------------------------------------------------
(* Publishing the copy, switching to it, and removing the original *)

LEMMA PhasesAreApart ==
  /\ Opened => manifest # None /\ ~Unopened /\ ~Switched /\ ~Settled
  /\ Switched => manifest # None /\ ~Unopened /\ ~Opened /\ ~Settled
  /\ Settled => manifest # None /\ ~Unopened /\ ~Opened /\ ~Switched
  /\ Unopened => manifest # None /\ ~Opened /\ ~Switched /\ ~Settled
  /\ manifest # None => Unopened \/ Opened \/ Switched \/ Settled
  BY DEF Unopened, Opened, Switched, Settled

LEMMA PhaseStays ==
  ASSUME UNCHANGED manifest
  PROVE  (Unopened' <=> Unopened) /\ (Opened' <=> Opened) /\ (Switched' <=> Switched) /\ (Settled' <=> Settled)
  BY DEF Unopened, Opened, Switched, Settled, Committed

LEMMA OwnerStays ==
  ASSUME OwnerInv, UNCHANGED <<manifest, server>>
  PROVE  OwnerInv' /\ (Busy' <=> Busy)
  BY DEF OwnerInv, Busy, Alive

LEMMA OpensJournalKeeps ==
  ASSUME IInv, OpensJournal
  PROVE  IInv'
  <1>1. op.at = "layout" /\ manifest # None /\ ~manifest.retired /\ ~Moved /\ ~Busy
    BY DEF OpensJournal, Unmoved, At, IInv, AtInv, FreshAt
  <1>2. OpInv' /\ op'.at = "stage" /\ op'.kind = op.kind
    BY <1>1, GoesOn DEF OpensJournal, Goes, IInv, AtInv, OpInv, Positions
  <1>3. UNCHANGED <<dirs, server, refused, torn>>
    BY DEF OpensJournal, External, Calm
  <1>4. CASE manifest.journal = "open"
    <2>1. UNCHANGED manifest
      BY <1>4 DEF OpensJournal
    <2>2. DiskInv'
      BY <1>3, <2>1, DiskStays DEF IInv
    <2>3. AtInv'
      BY <1>1, <1>2, <1>3, <1>4, <2>1, PhasesAreApart, PhaseStays
         DEF IInv, AtInv, FreshAt, SlotAt, StageAt, UseAt, Unopened, Settled
    <2>4. LeftInv' /\ RefusalInv'
      BY <1>1, <1>2, <1>3, <2>1, PhaseStays DEF IInv, LeftInv, RefusalInv, Owned, IsEmpty, Names
    <2> QED BY <2>2, <2>3, <2>4 DEF IInv
  <1>5. CASE manifest.journal # "open"
    <2>1. ~Committed /\ Unopened
      BY <1>1, <1>5 DEF Moved, Unopened
    <2>2. NoOther("old") /\ Whole(dirs["old"], "old")
      BY <1>1, <2>1 DEF IInv, DiskInv, UnopenedDisk
    <2>3. manifest' = [manifest EXCEPT !.journal = "open", !.source = Content(dirs["old"])]
      BY <1>5 DEF OpensJournal
    <2>4. manifest \in Manifests /\ dirs["old"] \in Directories /\ Content(dirs["old"]) \in Contents
      BY <1>1, <2>2, DirectoryChanges DEF IInv, DiskInv, TypeInv, Whole, Places
    <2>5. /\ manifest' \in Manifests /\ manifest' # None
          /\ manifest'.journal = "open" /\ manifest'.source = Content(dirs["old"])
          /\ manifest'.at = manifest.at /\ manifest'.owner = manifest.owner
          /\ manifest'.retired = manifest.retired /\ manifest'.turn = manifest.turn
      <3> HIDE DEF Content
      <3>1. manifest' \in Manifests
        BY <2>3, <2>4, ManifestChanges
      <3>2. manifest' # None
        BY <3>1, ManifestChanges
      <3> QED BY <2>3, <2>4, <3>1, <3>2 DEF Manifests
    <2>6. Opened' /\ ~Unopened' /\ ~Switched' /\ ~Settled'
      BY <2>1, <2>5 DEF Opened, Unopened, Switched, Settled, Committed
    <2>7. TypeInv'
      BY <1>3, <2>5 DEF IInv, DiskInv, TypeInv
    <2>8. OpenedDisk'
      BY <1>3, <2>2, <2>4, <2>5 DEF OpenedDisk, SourceWhole, Same, Content, Whole, NoOther, Names, Places
    <2>9. ~Busy' /\ OwnerInv'
      BY <1>1, <1>3, <2>5 DEF IInv, DiskInv, OwnerInv, Busy, Alive
    <2>10. DiskInv'
      BY <2>5, <2>6, <2>7, <2>8, <2>9 DEF DiskInv, FreshDisk, UnopenedDisk, SwitchedDisk, SettledDisk
    <2>11. AtInv'
      BY <1>1, <1>2, <2>5, <2>6, <2>9 DEF IInv, AtInv, FreshAt, SlotAt, StageAt, UseAt
    <2>12. dirs'["temp"] = None
      BY <1>3, <2>2 DEF NoOther, Places
    <2>13. LeftInv' /\ RefusalInv'
      BY <1>1, <1>3, <2>5, <2>12 DEF IInv, LeftInv, RefusalInv
    <2> QED BY <2>10, <2>11, <2>13 DEF IInv
  <1> QED BY <1>4, <1>5

LEMMA PublishesKeeps ==
  ASSUME IInv, Publishes
  PROVE  IInv'
  <1>1. op.at = "publish" /\ Opened /\ dirs["new"] = None /\ Sealed(dirs["temp"])
    BY StagingIsOpened DEF Publishes, At, IInv, AtInv, StageAt
  <1>2. OpInv' /\ op'.at = "verify" /\ op'.kind = op.kind
    BY <1>1, GoesOn DEF Publishes, Goes, IInv, AtInv, OpInv, Positions
  <1>3. UNCHANGED <<manifest, server, refused, torn>>
    BY DEF Publishes, External, Calm
  <1>4. /\ dirs' \in [Places -> Directories \cup {None}]
        /\ dirs'["temp"] = None /\ dirs'["new"] = dirs["temp"]
        /\ dirs'["old"] = dirs["old"] /\ dirs'["aside"] = dirs["aside"]
    BY MoveTyped DEF Publishes, IInv, DiskInv, Places
  <1>5. Opened' /\ ~Unopened' /\ ~Switched' /\ ~Settled' /\ manifest' # None
    BY <1>1, <1>3, PhasesAreApart, PhaseStays
  <1>6. Sealed(dirs["new"])'
    BY <1>1, <1>3, <1>4 DEF Sealed, Content
  <1>7. OpenedDisk'
    BY <1>1, <1>3, <1>4, <1>6 DEF IInv, DiskInv, OpenedDisk, SourceWhole, Same, Content
  <1>8. TypeInv' /\ OwnerInv' /\ (Busy' <=> Busy)
    BY <1>3, <1>4, OwnerStays DEF IInv, DiskInv, TypeInv
  <1>9. DiskInv'
    BY <1>5, <1>7, <1>8 DEF DiskInv, FreshDisk, UnopenedDisk, SwitchedDisk, SettledDisk
  <1>10. AtInv'
    BY <1>2, <1>3, <1>4, <1>5, <1>6 DEF IInv, AtInv, FreshAt, SlotAt, StageAt, UseAt, Sealed
  <1>11. LeftInv' /\ RefusalInv'
    BY <1>3, <1>4, <1>5, <1>1 DEF IInv, LeftInv, RefusalInv
  <1> QED BY <1>9, <1>10, <1>11 DEF IInv

LEMMA SwitchesManifestKeeps ==
  ASSUME IInv, SwitchesManifest
  PROVE  IInv'
  <1>1. op.at = "verify" /\ (Opened \/ Switched) /\ Sealed(dirs["new"])
    BY PhasesAreApart DEF SwitchesManifest, At, IInv, AtInv, FreshAt, SlotAt, DiskInv, OpenedDisk, SwitchedDisk
  <1>2. OpInv' /\ op'.at = "retire_old" /\ op'.kind = op.kind
    BY <1>1, GoesOn DEF SwitchesManifest, Goes, IInv, AtInv, OpInv, Positions
  <1>3. UNCHANGED <<dirs, server, refused, torn>>
    BY DEF SwitchesManifest, External, Calm
  <1>4. manifest \in Manifests /\ manifest # None /\ manifest.journal = "open"
    BY <1>1 DEF IInv, DiskInv, TypeInv, Opened, Switched
  <1>5. /\ manifest' \in Manifests /\ manifest' # None /\ manifest'.at = "new"
        /\ manifest'.journal = "open" /\ manifest'.source = manifest.source
        /\ manifest'.owner = manifest.owner /\ manifest'.retired = manifest.retired
        /\ manifest'.turn = manifest.turn
    BY <1>4, ManifestChanges DEF SwitchesManifest, Manifests
  <1>6. Switched' /\ ~Unopened' /\ ~Opened' /\ ~Settled'
    BY <1>5 DEF Opened, Unopened, Switched, Settled, Committed
  <1>7. Sealed(dirs["new"])'
    BY <1>1, <1>3, <1>5 DEF Sealed, Content
  <1>8. SwitchedDisk'
    BY <1>1, <1>3, <1>5, <1>7 DEF IInv, DiskInv, OpenedDisk, SwitchedDisk, SourceWhole, Same, Content, Sealed
  <1>9. ~Busy
    BY <1>4 DEF IInv, DiskInv, OwnerInv
  <1>10. ~Busy' /\ OwnerInv'
    BY <1>3, <1>4, <1>5, <1>9 DEF IInv, DiskInv, OwnerInv, Busy, Alive, TypeInv, Manifests, Servers, Places
  <1>11. DiskInv'
    BY <1>3, <1>5, <1>6, <1>8, <1>10
       DEF IInv, DiskInv, TypeInv, FreshDisk, UnopenedDisk, OpenedDisk, SettledDisk
  <1>12. AtInv'
    BY <1>2, <1>4, <1>5, <1>6, <1>10 DEF IInv, AtInv, FreshAt, SlotAt, StageAt, UseAt
  <1>13. LeftInv' /\ RefusalInv'
    BY <1>1, <1>3, <1>5, <1>6 DEF IInv, LeftInv, RefusalInv
  <1> QED BY <1>11, <1>12, <1>13 DEF IInv

LEMMA PutsOldAsideKeeps ==
  ASSUME IInv, PutsOldAside
  PROVE  IInv'
  <1>1. op.at = "retire_old" /\ Switched
    BY PhasesAreApart DEF PutsOldAside, At, IInv, AtInv, FreshAt, SlotAt
  <1>2. OpInv' /\ op'.at = "remove" /\ op'.kind = op.kind
    BY <1>1, GoesOn DEF PutsOldAside, Goes, IInv, AtInv, OpInv, Positions
  <1>3. UNCHANGED <<manifest, server, refused, torn>>
    BY DEF PutsOldAside, External, Calm
  <1>4. /\ dirs' \in [Places -> Directories \cup {None}]
        /\ dirs'["old"] = None /\ dirs'["new"] = dirs["new"] /\ dirs'["temp"] = dirs["temp"]
    <2>1. CASE dirs["old"] = None
      BY <2>1 DEF PutsOldAside, IInv, DiskInv, TypeInv
    <2>2. CASE dirs["old"] # None
      BY <2>2, MoveTyped DEF PutsOldAside, IInv, DiskInv, Places
    <2> QED BY <2>1, <2>2
  <1>5. Switched' /\ ~Unopened' /\ ~Opened' /\ ~Settled' /\ manifest' # None
    BY <1>1, <1>3, PhasesAreApart, PhaseStays
  <1>6. Sealed(dirs["new"])'
    BY <1>1, <1>3, <1>4 DEF IInv, DiskInv, SwitchedDisk, Sealed, Content
  <1>7. SwitchedDisk'
    BY <1>1, <1>3, <1>4, <1>6 DEF IInv, DiskInv, SwitchedDisk, SourceWhole
  <1>8. TypeInv' /\ OwnerInv' /\ (Busy' <=> Busy)
    BY <1>3, <1>4, OwnerStays DEF IInv, DiskInv, TypeInv
  <1>9. DiskInv'
    BY <1>5, <1>7, <1>8 DEF DiskInv, FreshDisk, UnopenedDisk, OpenedDisk, SettledDisk
  <1>10. AtInv'
    BY <1>2, <1>3, <1>4, <1>5 DEF IInv, AtInv, FreshAt, SlotAt, StageAt, UseAt
  <1>11. LeftInv' /\ RefusalInv'
    BY <1>1, <1>3, <1>5 DEF IInv, LeftInv, RefusalInv
  <1> QED BY <1>9, <1>10, <1>11 DEF IInv

LEMMA RemovesOldKeeps ==
  ASSUME IInv, RemovesOld
  PROVE  IInv'
  <1>1. op.at = "remove" /\ Switched /\ dirs["old"] = None /\ dirs["aside"] # None
    BY PhasesAreApart DEF RemovesOld, At, IInv, AtInv, FreshAt, SlotAt
  <1>2. UNCHANGED <<manifest, op, server, refused, torn>>
    BY DEF RemovesOld, External, Calm
  <1>3. PICK d \in Directories \cup {None} : Put("aside", d)
    BY <1>1, RemovalLeaves DEF RemovesOld, IInv, DiskInv, Places
  <1>4. /\ dirs' \in [Places -> Directories \cup {None}]
        /\ \A q \in Places \ {"aside"} : dirs'[q] = dirs[q]
    BY <1>3, PutTyped DEF IInv, DiskInv, Places
  <1>5. Switched' /\ ~Unopened' /\ ~Opened' /\ ~Settled' /\ manifest' # None
    BY <1>1, <1>2, PhasesAreApart, PhaseStays
  <1>6. Sealed(dirs["new"])'
    BY <1>1, <1>2, <1>4 DEF IInv, DiskInv, SwitchedDisk, Sealed, Content, Places
  <1>7. SwitchedDisk'
    BY <1>1, <1>2, <1>4, <1>6 DEF IInv, DiskInv, SwitchedDisk, SourceWhole, Places
  <1>8. TypeInv' /\ OwnerInv' /\ (Busy' <=> Busy)
    BY <1>2, <1>4, OwnerStays DEF IInv, DiskInv, TypeInv
  <1>9. DiskInv'
    BY <1>5, <1>7, <1>8 DEF DiskInv, FreshDisk, UnopenedDisk, OpenedDisk, SettledDisk
  <1>10. AtInv'
    BY <1>1, <1>2, <1>4, <1>5 DEF IInv, AtInv, OpInv, FreshAt, SlotAt, StageAt, UseAt, Places
  <1>11. LeftInv' /\ RefusalInv'
    BY <1>1, <1>2, <1>5 DEF IInv, LeftInv, RefusalInv
  <1> QED BY <1>9, <1>10, <1>11 DEF IInv

LEMMA CompletesJournalKeeps ==
  ASSUME IInv, CompletesJournal
  PROVE  IInv'
  <1>1. op.at = "remove" /\ Switched /\ dirs["old"] = None /\ dirs["aside"] = None
    BY PhasesAreApart DEF CompletesJournal, At, IInv, AtInv, FreshAt, SlotAt
  <1>2. OpInv' /\ op'.at = "ready" /\ op'.kind = op.kind
    BY <1>1, GoesOn DEF CompletesJournal, Goes, IInv, AtInv, OpInv, Positions
  <1>3. UNCHANGED <<dirs, server, refused, torn>>
    BY DEF CompletesJournal, External, Calm
  <1>4. manifest \in Manifests /\ manifest # None /\ manifest.at = "new" /\ ~manifest.retired
    BY <1>1 DEF IInv, DiskInv, TypeInv, OwnerInv, Switched, Committed
  <1>5. /\ manifest' \in Manifests /\ manifest' # None /\ manifest'.at = "new"
        /\ manifest'.journal = "done" /\ manifest'.owner = manifest.owner
        /\ manifest'.retired = manifest.retired /\ manifest'.turn = manifest.turn
    <2>1. manifest' = [manifest EXCEPT !.journal = "done"]
      BY DEF CompletesJournal
    <2>2. manifest' \in Manifests /\ manifest' # None
      BY <1>4, <2>1, ManifestChanges
    <2> QED BY <1>4, <2>1, <2>2 DEF Manifests
  <1>6. Settled' /\ ~Unopened' /\ ~Opened' /\ ~Switched'
    BY <1>5 DEF Opened, Unopened, Switched, Settled, Committed
  <1>7. Whole(dirs["new"], "new") /\ Binding \in Names(dirs["new"]) /\ dirs["temp"] = None
    <2>1. SourceWhole /\ Sealed(dirs["new"]) /\ dirs["temp"] = None
      BY <1>1 DEF IInv, DiskInv, SwitchedDisk
    <2> QED BY <2>1, PartsAssumption DEF SourceWhole, Sealed, Bound, Whole, Names
  <1>8. SettledDisk'
    BY <1>1, <1>3, <1>7 DEF SettledDisk, NoOther, Whole, Names, Places
  <1>9. OwnerInv' /\ (Busy' <=> Busy)
    BY <1>3, <1>4, <1>5 DEF IInv, DiskInv, OwnerInv, Busy, Alive
  <1>10. DiskInv'
    BY <1>3, <1>5, <1>6, <1>8, <1>9
       DEF IInv, DiskInv, TypeInv, FreshDisk, UnopenedDisk, OpenedDisk, SwitchedDisk
  <1>11. AtInv'
    BY <1>2, <1>4, <1>5, <1>6 DEF IInv, AtInv, FreshAt, SlotAt, StageAt, UseAt
  <1>12. LeftInv' /\ RefusalInv'
    BY <1>1, <1>3, <1>5, <1>6 DEF IInv, LeftInv, RefusalInv
  <1> QED BY <1>10, <1>11, <1>12 DEF IInv

-----------------------------------------------------------------------------
(* Steps that change neither the disk nor who writes *)

LEMMA RefusesKeeps ==
  ASSUME IInv, NEW why, Refuses(why),
         why = "busy" => manifest # None /\ manifest.owner # 0,
         why \in {"missing", "stranded"} => manifest # None /\ manifest.retired,
         why = "unowned" => torn \cap {"marking", "clear"} # {},
         why = "unbound" => "binding" \in torn \/ (manifest # None /\ manifest.retired),
         op.at \notin {"clear", "marking", "binding"}
  PROVE  IInv'
  <1>1. op' = Free /\ refused' = why /\ UNCHANGED <<manifest, dirs, server, torn>>
    BY DEF Refuses, External
  <1>2. DiskInv' /\ AtInv'
    BY <1>1, DiskStays, FreeIsAnywhere DEF IInv
  <1>3. LeftInv'
    BY <1>1, PhaseStays DEF IInv, LeftInv, Free, Owned, IsEmpty, Names
  <1>4. RefusalInv'
    BY <1>1 DEF RefusalInv, Free
  <1> QED BY <1>2, <1>3, <1>4 DEF IInv

LEMMA BusyHasOwner ==
  ASSUME Busy
  PROVE  manifest # None /\ manifest.owner # 0
  BY DEF Busy

LEMMA RefusalsKeep ==
  ASSUME IInv,
         \/ RetiredIsRefused \/ MigrationIsRefused \/ StagingIsRefused \/ StorageIsRefused
         \/ BindingIsRefused \/ LeaseIsRefused \/ MaintenanceIsRefused
  PROVE  IInv'
  <1>1. CASE RetiredIsRefused
    BY <1>1, RefusesKeeps DEF RetiredIsRefused, At
  <1>2. CASE MigrationIsRefused
    BY <1>2, RefusesKeeps, BusyHasOwner DEF MigrationIsRefused, Unmoved, At
  <1>3. CASE StagingIsRefused
    <2>1. op.at = "stage" /\ dirs["new"] = None /\ dirs["temp"] # None /\ ~Owned(dirs["temp"])
      BY <1>3 DEF StagingIsRefused, At
    <2>2. Opened
      BY <2>1, PhasesAreApart DEF IInv, AtInv, FreshAt, SlotAt, DiskInv, SwitchedDisk, Sealed
    <2>3. torn \cap {"marking", "clear"} # {}
      BY <2>1, <2>2 DEF IInv, LeftInv
    <2> QED BY <1>3, <2>1, <2>3, RefusesKeeps DEF StagingIsRefused
  <1>4. CASE StorageIsRefused
    BY <1>4, RefusesKeeps DEF StorageIsRefused, Copied, At
  <1>5. CASE BindingIsRefused
    <2>1. op.at = "bind" /\ Binding \notin Names(dirs["new"]) /\ dirs["new"].stray
      BY <1>5 DEF BindingIsRefused, At
    <2>2. manifest = None /\ dirs["new"] # None
      BY <2>1, PhasesAreApart DEF IInv, AtInv, FreshAt, SlotAt
    <2>3. dirs["new"] = Made(TRUE)
      <3>1. dirs["new"] \in {Made(FALSE), Made(TRUE), Slot}
        BY <2>2 DEF IInv, DiskInv, FreshDisk
      <3>2. ~Made(FALSE).stray /\ ~Slot.stray
        BY DEF Made, Slot, Unsealed
      <3> QED BY <2>1, <3>1, <3>2
    <2>4. "binding" \in torn
      BY <2>1, <2>2, <2>3 DEF IInv, LeftInv
    <2> QED BY <1>5, <2>1, <2>4, RefusesKeeps DEF BindingIsRefused
  <1>6. CASE LeaseIsRefused
    BY <1>6, RefusesKeeps, BusyHasOwner DEF LeaseIsRefused, At
  <1>7. CASE MaintenanceIsRefused
    <2>1. op.at = "maintain" /\ manifest # None
      BY <1>7 DEF MaintenanceIsRefused, At, IInv, AtInv, FreshAt
    <2>2. op.kind = "purge" => manifest.retired
      BY <2>1 DEF IInv, AtInv, UseAt
    <2>3. Stranded => manifest.retired
      BY <2>1 DEF Stranded, IInv, AtInv, SlotAt, Unopened, Opened
    <2>4. Committed /\ Binding \notin Names(Named) => manifest.retired
      <3> SUFFICES ASSUME Committed, ~manifest.retired PROVE Binding \in Names(Named)
        OBVIOUS
      <3>1. Settled /\ Named = dirs["new"]
        BY <2>1, PhasesAreApart DEF Named, Committed, IInv, AtInv, SlotAt, Unopened, Opened
      <3> QED BY <3>1 DEF IInv, DiskInv, SettledDisk
    <2> QED BY <1>7, <2>1, <2>2, <2>3, <2>4, RefusesKeeps, BusyHasOwner DEF MaintenanceIsRefused
  <1> QED BY <1>1, <1>2, <1>3, <1>4, <1>5, <1>6, <1>7

\* A step that only goes to another place has to show that it may be there.
LEMMA GoingKeeps ==
  ASSUME IInv, UNCHANGED <<manifest, dirs, server, refused, torn>>, Goes(op'.at), manifest # None,
         op.at \notin {"none", "record", "use", "release", "clear", "marking", "binding"},
         op'.at \in Positions \ {"none", "record", "use", "release"},
         SlotAt', StageAt', UseAt'
  PROVE  IInv'
  <1>1. DiskInv'
    BY DiskStays DEF IInv
  <1>2. OpInv' /\ op'.kind = op.kind
    BY GoesOn DEF Goes, IInv, AtInv, OpInv
  <1>3. FreshAt'
    BY DEF FreshAt
  <1>4. LeftInv' /\ RefusalInv'
    BY PhaseStays DEF IInv, LeftInv, RefusalInv, Owned, IsEmpty, Names
  <1> QED BY <1>1, <1>2, <1>3, <1>4 DEF IInv, AtInv

LEMMA LayoutIsCurrentKeeps ==
  ASSUME IInv, LayoutIsCurrent
  PROVE  IInv'
  <1>1. op.at = "layout" /\ manifest # None /\ ~manifest.retired /\ Settled
    BY DEF LayoutIsCurrent, At, Moved, Settled, IInv, AtInv, FreshAt
  <1>2. dirs["new"] # None /\ Binding \in Names(dirs["new"])
    BY <1>1 DEF IInv, DiskInv, SettledDisk, Whole
  <1>3. Goes("ready") /\ UNCHANGED <<manifest, dirs, server, refused, torn>>
    BY <1>2 DEF LayoutIsCurrent, External, Calm
  <1>4. op'.at = "ready" /\ op'.kind = op.kind
    BY <1>3 DEF Goes, IInv, AtInv, OpInv
  <1>5. SlotAt' /\ StageAt' /\ UseAt'
    BY <1>1, <1>3, <1>4, PhasesAreApart, PhaseStays DEF IInv, AtInv, SlotAt, StageAt, UseAt
  <1> QED BY <1>1, <1>3, <1>4, <1>5, GoingKeeps DEF Positions

LEMMA StagesKeeps ==
  ASSUME IInv, Stages
  PROVE  IInv'
  <1>1. op.at = "stage" /\ (Opened \/ Switched) /\ manifest # None
    BY PhasesAreApart DEF Stages, At, IInv, AtInv, FreshAt, SlotAt
  <1>2. /\ UNCHANGED <<manifest, dirs, server, refused, torn>> /\ Goes(op'.at)
        /\ op'.at \in {"verify", "mkdir", "clear"} /\ op'.kind = op.kind
        /\ op'.at = "verify" <=> dirs["new"] # None
        /\ op'.at = "mkdir" => dirs["temp"] = None
        /\ op'.at = "clear" => dirs["temp"] # None
    BY DEF Stages, Goes, External, Calm, IInv, AtInv, OpInv
  <1>3. SlotAt'
    BY <1>1, <1>2, PhasesAreApart, PhaseStays DEF SlotAt, IInv, DiskInv, SwitchedDisk, Sealed
  <1>4. StageAt' /\ UseAt'
    BY <1>1, <1>2 DEF IInv, AtInv, StageAt, UseAt
  <1> QED BY <1>1, <1>2, <1>3, <1>4, GoingKeeps DEF Positions

LEMMA ProceedsKeeps ==
  ASSUME IInv, Proceeds
  PROVE  IInv'
  <1>1. op.at = "ready" /\ manifest # None /\ Settled /\ ~manifest.retired
    BY PhasesAreApart DEF Proceeds, At, IInv, AtInv, FreshAt, SlotAt
  <1>2. UNCHANGED <<manifest, dirs, server, refused, torn>>
    BY DEF Proceeds, External, Calm
  <1>3. CASE op' = Free
    <2>1. DiskInv' /\ AtInv'
      BY <1>2, <1>3, DiskStays, FreeIsAnywhere DEF IInv
    <2>2. LeftInv' /\ RefusalInv'
      BY <1>1, <1>2, <1>3, PhasesAreApart, PhaseStays DEF IInv, LeftInv, RefusalInv, Free
    <2> QED BY <2>1, <2>2 DEF IInv
  <1>4. CASE /\ Goes(op'.at) /\ op'.at \in {"maintain", "lease"}
             /\ op'.at = "maintain" => op.kind = "retire"
    <2>1. op'.kind = op.kind
      BY <1>4 DEF Goes, IInv, AtInv, OpInv
    <2>2. SlotAt' /\ StageAt' /\ UseAt'
      BY <1>1, <1>2, <1>4, <2>1, PhasesAreApart, PhaseStays DEF IInv, AtInv, SlotAt, StageAt, UseAt
    <2> QED BY <1>1, <1>2, <1>4, <2>2, GoingKeeps DEF Positions
  <1>5. op' = Free \/ (Goes(op'.at) /\ op'.at \in {"maintain", "lease"}
                       /\ (op'.at = "maintain" => op.kind = "retire"))
    BY DEF Proceeds, Goes, IInv, AtInv, OpInv
  <1> QED BY <1>3, <1>4, <1>5

LEMMA PurgeBeginsKeeps ==
  ASSUME IInv, PurgeBegins
  PROVE  IInv'
  <1>1. /\ op.at = "maintain" /\ op.kind = "purge" /\ manifest # None /\ Named # None
        /\ ~Busy /\ manifest.turn # "asked"
    BY DEF PurgeBegins, MayMaintain, At, IInv, AtInv, FreshAt
  <1>2. UNCHANGED <<manifest, dirs, server, refused, torn>> /\ Goes("purging")
    BY DEF PurgeBegins, External, Calm
  <1>3. op'.at = "purging" /\ op'.kind = op.kind
    BY <1>2 DEF Goes, IInv, AtInv, OpInv
  <1>4. manifest.retired /\ ~Opened /\ ~Switched
    BY <1>1 DEF IInv, AtInv, UseAt, SlotAt
  <1>5. SlotAt' /\ StageAt' /\ UseAt'
    BY <1>1, <1>2, <1>3, <1>4, PhasesAreApart, PhaseStays DEF SlotAt, StageAt, UseAt, Busy, Alive, Named
  <1> QED BY <1>1, <1>2, <1>3, <1>5, GoingKeeps DEF Positions

LEMMA BeginsKeeps ==
  ASSUME IInv, NEW kind \in {"run", "migrate", "retire", "purge"}, Begins(kind)
  PROVE  IInv'
  <1>1. UNCHANGED <<manifest, dirs, server, torn>> /\ refused' = "no" /\ op = Free
    BY DEF Begins, External
  <1>2. /\ op'.kind = kind /\ op'.server = 0 /\ OpInv'
        /\ manifest = None => op'.at = "make" /\ kind = "run"
        /\ manifest # None => op'.at \in {"layout", "maintain"}
        /\ op'.at = "maintain" => manifest.retired /\ kind \in {"retire", "purge"}
        /\ kind = "purge" => manifest.retired
    BY RuntimeBounds DEF Begins, OpInv, Positions, Servers
  <1>3. FreshAt' /\ StageAt' /\ UseAt'
    BY <1>1, <1>2 DEF FreshAt, StageAt, UseAt
  <1>4. ~Opened \/ ~manifest.retired
    BY DEF IInv, DiskInv, OwnerInv, Opened
  <1>5. SlotAt'
    BY <1>1, <1>2, PhasesAreApart, PhaseStays
       DEF SlotAt, IInv, DiskInv, OwnerInv, Opened, Switched
  <1>6. LeftInv'
    BY <1>1, PhaseStays DEF IInv, LeftInv, Free, Owned, IsEmpty, Names
  <1>7. RefusalInv'
    BY <1>1 DEF RefusalInv
  <1> QED BY <1>1, <1>2, <1>3, <1>5, <1>6, <1>7, DiskStays DEF IInv, AtInv

LEMMA DiesKeeps ==
  ASSUME IInv, Dies
  PROVE  IInv'
  <1>1. UNCHANGED <<manifest, dirs, server, refused>> /\ op' = Free
        /\ torn' = torn \cup ({op.at} \cap TornAt)
    BY DEF Dies, External
  <1>2. DiskInv' /\ AtInv'
    BY <1>1, DiskStays, FreeIsAnywhere DEF IInv
  <1>3. LeftInv'
    BY <1>1, PhaseStays DEF IInv, LeftInv, Free, Owned, IsEmpty, Names, TornAt
  <1>4. RefusalInv'
    BY <1>1 DEF IInv, RefusalInv, Free
  <1> QED BY <1>2, <1>3, <1>4 DEF IInv

-----------------------------------------------------------------------------
(* A slot in the making: there is no manifest yet *)

LEMMA MakingKeeps ==
  ASSUME IInv, manifest = None, NEW d \in {Made(FALSE), Made(TRUE), Slot}, Put("new", d),
         UNCHANGED <<manifest, server, refused, torn>>,
         op.at \in {"make", "bind", "binding"}, op' = [op EXCEPT !.at = op'.at],
         op'.at \in {"bind", "binding", "lease"},
         op'.at = "binding" => d = Made(TRUE),
         op'.at = "lease" => d = Slot,
         d = Made(TRUE) => op'.at = "binding" \/ "binding" \in torn
  PROVE  IInv'
  <1>1. d \in Directories /\ d # None
    <2>1. Initially(Parts) \in Entries /\ Initially(Parts \cup {Binding}) \in Entries
      BY InitiallyIsTyped
    <2> QED BY <2>1, UnsealedIsTyped DEF Made, Slot
  <1>2. /\ dirs' \in [Places -> Directories \cup {None}]
        /\ dirs'["new"] = d /\ \A q \in Places \ {"new"} : dirs'[q] = dirs[q]
    BY <1>1, PutTyped DEF IInv, DiskInv, Places
  <1>3. ~Unopened' /\ ~Opened' /\ ~Switched' /\ ~Settled' /\ manifest' = None
    BY DEF Unopened, Opened, Switched, Settled
  <1>4. FreshDisk'
    BY <1>2 DEF IInv, DiskInv, FreshDisk, NoOther
  <1>5. DiskInv'
    BY <1>2, <1>3, <1>4 DEF IInv, DiskInv, TypeInv, UnopenedDisk, OpenedDisk, SwitchedDisk,
                            SettledDisk, OwnerInv
  <1>6. OpInv' /\ op'.kind = op.kind
    BY GoesOn DEF IInv, AtInv, OpInv, Positions
  <1>7. FreshAt'
    BY <1>1, <1>2, <1>6 DEF IInv, AtInv, FreshAt
  <1>8. AtInv'
    BY <1>3, <1>6, <1>7 DEF AtInv, SlotAt, StageAt, UseAt
  <1>9. LeftInv'
    BY <1>2, <1>3 DEF IInv, LeftInv
  <1>10. RefusalInv'
    BY DEF IInv, RefusalInv
  <1> QED BY <1>5, <1>8, <1>9, <1>10 DEF IInv

LEMMA SlotsDiffer ==
  /\ Made(FALSE) # Made(TRUE) /\ Slot # Made(TRUE) /\ Slot # Made(FALSE)
  /\ Made(TRUE).stray /\ ~Made(FALSE).stray /\ ~Slot.stray
  /\ Names(Made(TRUE)) = Parts /\ Names(Made(FALSE)) = Parts /\ Names(Slot) = Parts \cup {Binding}
  <1>1. Made(TRUE).stray /\ ~Made(FALSE).stray /\ ~Slot.stray
    BY DEF Made, Slot, Unsealed
  <1>2. Names(Made(TRUE)) = Parts /\ Names(Made(FALSE)) = Parts /\ Names(Slot) = Parts \cup {Binding}
    BY DEF Made, Slot, Unsealed, Initially, Names
  <1> QED BY <1>1, <1>2, PartsAssumption

LEMMA MakesSlotKeeps ==
  ASSUME IInv, MakesSlot
  PROVE  IInv'
  <1>1. op.at = "make" /\ manifest = None
    BY PhasesAreApart DEF MakesSlot, At, IInv, AtInv, SlotAt
  <1>2. dirs["new"] \in {None, Made(FALSE), Made(TRUE), Slot}
    BY <1>1 DEF IInv, DiskInv, FreshDisk
  <1>3. PICK d \in {Made(FALSE), Made(TRUE), Slot} :
          Put("new", d) /\ (d = Made(TRUE) => dirs["new"] = Made(TRUE))
    <2>1. Directory(Initially(Parts), "new") = Made(FALSE)
      BY DirectoryIsUnsealed DEF Made
    <2> QED BY <1>2, <2>1, SlotsDiffer DEF MakesSlot
  <1>4. d = Made(TRUE) => "binding" \in torn
    BY <1>1, <1>3 DEF IInv, LeftInv
  <1>5. op' = [op EXCEPT !.at = op'.at] /\ op'.at = "bind"
    BY DEF MakesSlot, Goes, IInv, AtInv, OpInv
  <1> QED BY <1>1, <1>3, <1>4, <1>5, MakingKeeps DEF MakesSlot, External, Calm

LEMMA BindsSlotKeeps ==
  ASSUME IInv, BindsSlot
  PROVE  IInv'
  <1>1. op.at = "bind" /\ manifest = None /\ dirs["new"] # None
    BY PhasesAreApart DEF BindsSlot, At, IInv, AtInv, FreshAt, SlotAt
  <1>2. dirs["new"] \in {Made(FALSE), Made(TRUE), Slot}
    BY <1>1 DEF IInv, DiskInv, FreshDisk
  <1>3. CASE Binding \in Names(dirs["new"]) /\ Goes("lease") /\ UNCHANGED dirs
    <2>1. dirs["new"] = Slot
      BY <1>2, <1>3, SlotsDiffer, PartsAssumption
    <2>2. Put("new", Slot)
      BY <1>3, <2>1 DEF Put, IInv, DiskInv, TypeInv, Places
    <2>3. op' = [op EXCEPT !.at = op'.at] /\ op'.at = "lease"
      BY <1>3 DEF Goes, IInv, AtInv, OpInv
    <2> QED BY <1>1, <2>2, <2>3, SlotsDiffer, MakingKeeps DEF BindsSlot, External, Calm
  <1>4. CASE /\ Binding \notin Names(dirs["new"]) /\ ~dirs["new"].stray
             /\ Goes("binding") /\ Put("new", [dirs["new"] EXCEPT !.stray = TRUE])
    <2>1. dirs["new"] = Made(FALSE)
      BY <1>2, <1>4, SlotsDiffer
    <2>2. [Made(FALSE) EXCEPT !.stray = TRUE] = Made(TRUE)
      <3>1. PICK no, yes : no = FALSE /\ yes = TRUE
        OBVIOUS
      <3>2. [Made(no) EXCEPT !.stray = yes] = Made(yes)
        BY StrayChanges DEF Made
      <3> QED BY <3>1, <3>2
    <2>3. Put("new", Made(TRUE))
      BY <1>4, <2>1, <2>2
    <2>4. op' = [op EXCEPT !.at = op'.at] /\ op'.at = "binding"
      BY <1>4 DEF Goes, IInv, AtInv, OpInv
    <2> QED BY <1>1, <2>3, <2>4, MakingKeeps DEF BindsSlot, External, Calm
  <1> QED BY <1>3, <1>4 DEF BindsSlot

LEMMA ReplacesBindingKeeps ==
  ASSUME IInv, ReplacesBinding
  PROVE  IInv'
  <1>1. op.at = "binding" /\ manifest = None
    BY PhasesAreApart DEF ReplacesBinding, At, IInv, AtInv, SlotAt
  <1>2. Put("new", Slot)
    BY DirectoryIsUnsealed DEF ReplacesBinding, Slot
  <1>3. op' = [op EXCEPT !.at = op'.at] /\ op'.at = "lease"
    BY DEF ReplacesBinding, Goes, IInv, AtInv, OpInv
  <1> QED BY <1>1, <1>2, <1>3, SlotsDiffer, MakingKeeps DEF ReplacesBinding, External, Calm

-----------------------------------------------------------------------------
(* A slot in use: the place is settled, and the manifest says who works in it *)

LEMMA NotesKeepDisk ==
  ASSUME DiskInv, Settled \/ Unopened, manifest' \in Manifests,
         manifest'.at = manifest.at, manifest'.journal = manifest.journal,
         manifest.retired => manifest'.retired,
         manifest'.owner # 0 => server[manifest'.owner] \in {"ended", manifest.at},
         Busy' => ~manifest'.retired,
         UNCHANGED <<dirs, server>>
  PROVE  /\ DiskInv' /\ manifest' # None /\ (Settled' <=> Settled) /\ (Unopened' <=> Unopened)
         /\ ~Opened' /\ ~Switched'
  <1>1. manifest # None /\ ~Opened /\ ~Switched /\ manifest.journal # "open"
    BY PhasesAreApart DEF Settled, Unopened
  <1>2. manifest' # None
    BY ManifestChanges
  <1>3. (Settled' <=> Settled) /\ (Unopened' <=> Unopened) /\ ~Opened' /\ ~Switched'
    BY <1>1, <1>2 DEF Settled, Unopened, Opened, Switched, Committed
  <1>4. TypeInv'
    BY DEF DiskInv, TypeInv
  <1>5. UnopenedDisk' /\ SettledDisk'
    BY <1>3 DEF DiskInv, UnopenedDisk, SettledDisk, NoOther, Whole, Names
  <1>6. OwnerInv'
    BY <1>1 DEF DiskInv, OwnerInv
  <1> QED BY <1>2, <1>3, <1>4, <1>5, <1>6
          DEF DiskInv, FreshDisk, OpenedDisk, SwitchedDisk

\* No operation's own knowledge but of the slot in use is at stake.
LEMMA SettledKeeps ==
  ASSUME IInv, DiskInv', OpInv', manifest' # None, Settled', ~manifest'.retired, ~Unopened',
         ~Opened', ~Switched', UNCHANGED <<refused, torn>>, op.at # "none",
         op'.at \in {"none", "lease", "connect", "record", "use", "release"},
         op'.kind # "purge", UseAt'
  PROVE  IInv'
  <1>1. AtInv'
    BY DEF AtInv, FreshAt, SlotAt, StageAt
  <1>2. LeftInv'
    BY DEF IInv, LeftInv
  <1>3. RefusalInv'
    BY DEF IInv, RefusalInv
  <1> QED BY <1>1, <1>2, <1>3 DEF IInv

LEMMA InUseIsSettled ==
  ASSUME IInv, op.at \in {"connect", "record", "use", "release"}
  PROVE  /\ manifest # None /\ manifest \in Manifests /\ Settled /\ ~manifest.retired
         /\ ~Unopened /\ ~Opened /\ ~Switched /\ op.kind # "purge" /\ op.kind # "none"
  <1>1. manifest # None /\ Settled /\ ~manifest.retired
    BY PhasesAreApart DEF IInv, AtInv, FreshAt, SlotAt
  <1> QED BY <1>1, PhasesAreApart DEF IInv, AtInv, UseAt, OpInv, DiskInv, TypeInv

LEMMA AcquiresKeeps ==
  ASSUME IInv, Acquires
  PROVE  IInv'
  <1>1. op.at = "lease" /\ ~Busy /\ UNCHANGED <<dirs, server, refused, torn>>
    BY DEF Acquires, At, Idle, External, Calm
  <1>2. OpInv' /\ op'.at = "connect" /\ op'.kind = op.kind
    BY <1>1, GoesOn DEF Acquires, Goes, IInv, AtInv, OpInv, Positions
  <1>3. CASE manifest # None
    <2>1. UNCHANGED manifest
      BY <1>3 DEF Acquires
    <2>2. Settled /\ ~manifest.retired /\ op.kind # "purge"
      BY <1>1, <1>3, PhasesAreApart DEF IInv, AtInv, SlotAt, UseAt
    <2>3. DiskInv'
      BY <1>1, <2>1, DiskStays DEF IInv
    <2>4. Settled' /\ ~Unopened' /\ ~Opened' /\ ~Switched'
      BY <2>1, <2>2, PhasesAreApart, PhaseStays
    <2>5. UseAt'
      BY <1>1, <1>2, <2>1, <2>2 DEF UseAt, Busy, Alive
    <2> QED BY <1>1, <1>2, <1>3, <2>1, <2>2, <2>3, <2>4, <2>5, SettledKeeps
  <1>4. CASE manifest = None
    <2>1. dirs["new"] = Slot /\ op.kind = "run"
      BY <1>1, <1>4 DEF IInv, AtInv, FreshAt, OpInv
    <2>2. NoOther("new")
      BY <1>4 DEF IInv, DiskInv, FreshDisk
    <2>3. manifest' = NewManifest
      BY <1>4 DEF Acquires
    <2>4. manifest' \in Manifests
      BY <2>3, RuntimeBounds DEF NewManifest, Manifests, Outcomes
    <2>5. /\ manifest'.at = "new" /\ manifest'.journal = "none" /\ manifest'.owner = 0
          /\ ~manifest'.retired
      BY <2>3 DEF NewManifest
    <2>6. manifest' # None
      BY <2>4, NoneAssumption
    <2>7. Settled' /\ ~Unopened' /\ ~Opened' /\ ~Switched'
      BY <2>5, <2>6 DEF Settled, Unopened, Opened, Switched, Committed
    <2>8. Whole(Slot, "new") /\ Binding \in Names(Slot)
      <3>1. Slot # None
        BY InitiallyIsTyped, UnsealedIsTyped DEF Slot
      <3>2. Slot.index = "new" /\ \A p, q \in Parts : Slot.entries[p] = Slot.entries[q]
        BY DEF Slot, Unsealed, Initially
      <3> QED BY <3>1, <3>2, SlotsDiffer DEF Whole
    <2>9. SettledDisk'
      BY <1>1, <2>1, <2>2, <2>8 DEF SettledDisk, NoOther, Whole, Names
    <2>10. OwnerInv' /\ ~Busy'
      BY <2>5 DEF OwnerInv, Busy
    <2>11. DiskInv'
      BY <1>1, <2>4, <2>6, <2>7, <2>9, <2>10
         DEF IInv, DiskInv, TypeInv, FreshDisk, UnopenedDisk, OpenedDisk, SwitchedDisk
    <2>12. UseAt'
      BY <1>2, <2>1, <2>10 DEF UseAt
    <2> QED BY <1>1, <1>2, <2>1, <2>5, <2>6, <2>7, <2>11, <2>12, SettledKeeps
  <1> QED BY <1>3, <1>4

LEMMA LaunchesKeeps ==
  ASSUME IInv, Launches
  PROVE  IInv'
  <1>1. op.at = "connect" /\ UNCHANGED <<manifest, dirs, refused, torn>>
    BY DEF Launches, At, Calm
  <1>2. PICK n \in Servers : /\ server[n] = "unborn" /\ server' = [server EXCEPT ![n] = manifest.at]
                             /\ op' = [op EXCEPT !.at = "record", !.server = n]
    BY DEF Launches
  <1>3. /\ manifest # None /\ manifest \in Manifests /\ Settled /\ ~manifest.retired
        /\ ~Unopened /\ ~Opened /\ ~Switched /\ op.kind # "purge" /\ op.kind # "none" /\ ~Busy
    BY <1>1, InUseIsSettled DEF IInv, AtInv, UseAt
  <1>4. manifest.at \in {"old", "new"} /\ manifest.owner \in 0 .. MaxServers
    BY <1>3 DEF Manifests
  <1>5. TypeInv'
    BY <1>1, <1>2, <1>4 DEF IInv, DiskInv, TypeInv
  <1>6. server'[n] = manifest.at /\ \A m \in Servers \ {n} : server'[m] = server[m]
    BY <1>2 DEF IInv, DiskInv, TypeInv
  <1>7. manifest.owner # 0 => manifest.owner # n /\ server'[manifest.owner] = server[manifest.owner]
    BY <1>2, <1>3, <1>4, <1>6 DEF IInv, DiskInv, OwnerInv, Servers
  <1>8. ~Busy' /\ OwnerInv'
    BY <1>1, <1>3, <1>7 DEF IInv, DiskInv, OwnerInv, Busy, Alive
  <1>9. Settled' /\ ~Unopened' /\ ~Opened' /\ ~Switched' /\ manifest' # None
    BY <1>1, <1>3, PhaseStays
  <1>10. SettledDisk'
    BY <1>1, <1>3 DEF IInv, DiskInv, SettledDisk, NoOther, Whole, Names
  <1>11. DiskInv'
    BY <1>5, <1>8, <1>9, <1>10 DEF DiskInv, FreshDisk, UnopenedDisk, OpenedDisk, SwitchedDisk
  <1>12. OpInv' /\ op'.at = "record" /\ op'.server = n /\ op'.kind = op.kind
    <2>1. op'.at = "record" /\ op'.server = n /\ op'.kind = op.kind
      BY <1>2 DEF IInv, AtInv, OpInv
    <2>2. n \in 0 .. MaxServers /\ n # 0
      BY RuntimeBounds DEF Servers
    <2>3. op' \in [kind : {"none", "run", "migrate", "retire", "purge"}, at : Positions,
                   server : 0 .. MaxServers]
      BY <1>2, <2>2 DEF IInv, AtInv, OpInv, Positions
    <2> QED BY <1>3, <2>1, <2>3 DEF OpInv
  <1>13. UseAt'
    BY <1>1, <1>3, <1>6, <1>8, <1>12 DEF UseAt
  <1> QED BY <1>1, <1>3, <1>9, <1>11, <1>12, <1>13, SettledKeeps

LEMMA RecordsOwnerKeeps ==
  ASSUME IInv, RecordsOwner
  PROVE  IInv'
  <1>1. op.at = "record" /\ UNCHANGED <<dirs, server, refused, torn>>
    BY DEF RecordsOwner, At, External, Calm
  <1>2. /\ manifest # None /\ manifest \in Manifests /\ Settled /\ ~manifest.retired
        /\ ~Unopened /\ op.kind # "purge" /\ server[op.server] = manifest.at /\ op.server \in Servers
    BY <1>1, InUseIsSettled DEF IInv, AtInv, UseAt, OpInv
  <1>3. manifest' \in Manifests
    <2>1. op.server \in 0 .. MaxServers
      BY DEF IInv, AtInv, OpInv
    <2> QED BY <1>2, <2>1, ManifestChanges DEF RecordsOwner
  <1>4. /\ manifest'.owner = op.server /\ manifest'.at = manifest.at
        /\ manifest'.journal = manifest.journal /\ manifest'.retired = manifest.retired
    BY <1>2 DEF RecordsOwner, Manifests
  <1>5. DiskInv' /\ manifest' # None /\ Settled' /\ ~Unopened' /\ ~Opened' /\ ~Switched'
    BY <1>1, <1>2, <1>3, <1>4, NotesKeepDisk DEF IInv
  <1>6. op' = [op EXCEPT !.at = "use"]
    BY DEF RecordsOwner, Goes
  <1>7. OpInv' /\ op'.at = "use" /\ op'.server = op.server /\ op'.kind = op.kind
    BY <1>1, <1>6 DEF IInv, AtInv, OpInv, Positions
  <1>8. UseAt'
    BY <1>1, <1>2, <1>4, <1>7 DEF UseAt
  <1> QED BY <1>1, <1>2, <1>4, <1>5, <1>7, <1>8, SettledKeeps

LEMMA TurnsKeep ==
  ASSUME IInv, AsksTurn \/ SettlesTurn \/ HoldsTurn
  PROVE  IInv'
  <1>1. op.at = "use" /\ UNCHANGED <<dirs, server, op, refused, torn>>
    BY DEF AsksTurn, SettlesTurn, HoldsTurn, At, External, Calm
  <1>2. /\ manifest # None /\ manifest \in Manifests /\ Settled /\ ~manifest.retired
        /\ ~Unopened /\ op.kind # "purge" /\ server[op.server] = manifest.at
        /\ manifest.owner = op.server
    BY <1>1, InUseIsSettled DEF IInv, AtInv, UseAt
  <1>3. PICK b \in Outcomes : manifest' = [manifest EXCEPT !.turn = b]
    BY DEF AsksTurn, SettlesTurn, HoldsTurn, Outcomes
  <1>4. manifest' \in Manifests
    BY <1>2, <1>3, ManifestChanges
  <1>5. /\ manifest'.owner = manifest.owner /\ manifest'.at = manifest.at
        /\ manifest'.journal = manifest.journal /\ manifest'.retired = manifest.retired
    BY <1>2, <1>3 DEF Manifests
  <1>6. DiskInv' /\ manifest' # None /\ Settled' /\ ~Unopened' /\ ~Opened' /\ ~Switched'
    BY <1>1, <1>2, <1>4, <1>5, NotesKeepDisk DEF IInv
  <1>7. UseAt'
    BY <1>1, <1>2, <1>5 DEF UseAt
  <1>8. OpInv'
    BY <1>1 DEF IInv, AtInv, OpInv
  <1> QED BY <1>1, <1>2, <1>5, <1>6, <1>7, <1>8, SettledKeeps

LEMMA ClosesKeeps ==
  ASSUME IInv, Closes
  PROVE  IInv'
  <1>1. op.at \in {"record", "use"} /\ UNCHANGED <<manifest, dirs, refused, torn>>
    BY DEF Closes, Calm
  <1>2. /\ manifest # None /\ manifest \in Manifests /\ Settled /\ ~manifest.retired
        /\ ~Unopened /\ ~Opened /\ ~Switched /\ op.kind # "purge" /\ op.server \in Servers
        /\ op.at = "record" => ~Busy
        /\ op.at = "use" => manifest.owner = op.server
    BY <1>1, InUseIsSettled DEF IInv, AtInv, UseAt, OpInv
  <1>3. server' = [server EXCEPT ![op.server] = "ended"]
    BY DEF Closes
  <1>4. /\ TypeInv' /\ server'[op.server] = "ended"
        /\ \A m \in Servers \ {op.server} : server'[m] = server[m]
    BY <1>1, <1>2, <1>3 DEF IInv, DiskInv, TypeInv
  <1>5. manifest.owner # 0 => manifest.owner \in Servers
    BY <1>2 DEF Manifests, Servers
  <1>6. manifest.owner # 0 => server'[manifest.owner] \in {"ended", server[manifest.owner]}
    BY <1>2, <1>4, <1>5
  <1>7. ~Busy'
    BY <1>1, <1>2, <1>4, <1>6 DEF Busy, Alive, Places
  <1>8. OwnerInv'
    BY <1>1, <1>2, <1>6, <1>7 DEF IInv, DiskInv, OwnerInv
  <1>9. Settled' /\ ~Unopened' /\ ~Opened' /\ ~Switched' /\ manifest' # None
    BY <1>1, <1>2, PhaseStays
  <1>10. SettledDisk'
    BY <1>1, <1>2 DEF IInv, DiskInv, SettledDisk, NoOther, Whole, Names
  <1>11. DiskInv'
    BY <1>4, <1>8, <1>9, <1>10 DEF DiskInv, FreshDisk, UnopenedDisk, OpenedDisk, SwitchedDisk
  <1>12. OpInv' /\ op'.at = "release" /\ op'.kind = op.kind
    BY <1>1, <1>2 DEF Closes, Goes, IInv, AtInv, OpInv, Positions
  <1>13. UseAt'
    BY <1>2, <1>7, <1>12 DEF UseAt
  <1> QED BY <1>1, <1>2, <1>9, <1>11, <1>12, <1>13, SettledKeeps

LEMMA ReleasesKeeps ==
  ASSUME IInv, Releases
  PROVE  IInv'
  <1>1. /\ op.at \in {"release", "connect"} /\ op' = Free
        /\ UNCHANGED <<dirs, server, refused, torn>>
    BY DEF Releases, At, External, Calm
  <1>2. /\ manifest # None /\ manifest \in Manifests /\ Settled /\ ~manifest.retired
        /\ ~Unopened
    BY <1>1, InUseIsSettled
  <1>3. manifest' \in {manifest, [manifest EXCEPT !.owner = 0]}
    BY DEF Releases
  <1>4. manifest' \in Manifests
    <2>1. 0 \in 0 .. MaxServers
      BY RuntimeBounds
    <2> QED BY <1>2, <1>3, <2>1, ManifestChanges
  <1>5. /\ manifest'.owner \in {0, manifest.owner} /\ manifest'.at = manifest.at
        /\ manifest'.journal = manifest.journal /\ manifest'.retired = manifest.retired
    BY <1>2, <1>3 DEF Manifests
  <1>6. manifest'.owner # 0 => server[manifest'.owner] \in {"ended", manifest.at}
    BY <1>2, <1>5 DEF IInv, DiskInv, OwnerInv
  <1>7. DiskInv' /\ manifest' # None /\ Settled' /\ ~Unopened' /\ ~Opened' /\ ~Switched'
    BY <1>1, <1>2, <1>4, <1>5, <1>6, NotesKeepDisk DEF IInv
  <1>8. OpInv' /\ UseAt' /\ op'.at = "none" /\ op'.kind = "none"
    BY <1>1, FreeIsAnywhere DEF AtInv, Free
  <1> QED BY <1>1, <1>2, <1>5, <1>7, <1>8, SettledKeeps

-----------------------------------------------------------------------------
(* Maintenance of a slot that is not in use *)

LEMMA MaintainedIsApart ==
  ASSUME IInv, op.at \in {"maintain", "purging"}
  PROVE  /\ manifest # None /\ manifest \in Manifests /\ (Settled \/ Unopened)
         /\ ~Opened /\ ~Switched /\ refused = "no"
         /\ Unopened \/ op.at = "purging" => manifest.retired
         /\ op.at = "purging" => Named # None
  <1>1. manifest # None /\ (Settled \/ Unopened)
    BY PhasesAreApart DEF IInv, AtInv, FreshAt, SlotAt
  <1> QED BY <1>1, PhasesAreApart DEF IInv, DiskInv, TypeInv, AtInv, SlotAt, UseAt, RefusalInv

\* What is done to the directory of a retired slot is nobody else's concern.
LEMMA RetiredKeeps ==
  ASSUME IInv, op.at \in {"maintain", "purging"}, manifest.retired,
         NEW d \in Directories \cup {None}, Put(manifest.at, d),
         UNCHANGED <<manifest, server, refused, torn>>,
         op' = Free \/ (op' = op /\ (op.at = "purging" => d # None))
  PROVE  IInv'
  <1>1. /\ manifest # None /\ manifest \in Manifests /\ (Settled \/ Unopened)
        /\ ~Opened /\ ~Switched /\ refused = "no"
    BY MaintainedIsApart
  <1>2. manifest.at \in Places
    BY <1>1 DEF Manifests, Places
  <1>3. /\ dirs' \in [Places -> Directories \cup {None}]
        /\ dirs'[manifest.at] = d /\ \A q \in Places \ {manifest.at} : dirs'[q] = dirs[q]
    BY <1>2, PutTyped DEF IInv, DiskInv
  <1>4. (Settled' <=> Settled) /\ (Unopened' <=> Unopened) /\ ~Opened' /\ ~Switched' /\ manifest' # None
    BY <1>1, PhaseStays
  <1>5. UnopenedDisk' /\ SettledDisk'
    <2>1. Settled => manifest.at = "new"
      BY DEF Settled, Committed
    <2>2. Unopened => manifest.at = "old"
      BY <1>1 DEF Unopened, Committed, Manifests
    <2> QED BY <1>3, <1>4, <2>1, <2>2 DEF IInv, DiskInv, UnopenedDisk, SettledDisk, NoOther
  <1>6. TypeInv' /\ OwnerInv' /\ (Busy' <=> Busy)
    BY <1>3, OwnerStays DEF IInv, DiskInv, TypeInv
  <1>7. DiskInv'
    BY <1>4, <1>5, <1>6 DEF DiskInv, FreshDisk, OpenedDisk, SwitchedDisk
  <1>8. CASE op' = Free
    <2>1. LeftInv' /\ RefusalInv'
      BY <1>1, <1>4, <1>8 DEF IInv, LeftInv, RefusalInv, Free
    <2> QED BY <1>7, <1>8, <2>1, FreeIsAnywhere DEF IInv
  <1>9. CASE op' = op /\ (op.at = "purging" => d # None)
    <2>1. AtInv'
      BY <1>1, <1>3, <1>4, <1>6, <1>9 DEF Named, IInv, AtInv, OpInv, FreshAt, SlotAt, StageAt, UseAt
    <2>2. LeftInv' /\ RefusalInv'
      BY <1>1, <1>4, <1>9 DEF IInv, LeftInv, RefusalInv
    <2> QED BY <1>7, <2>1, <2>2 DEF IInv
  <1> QED BY <1>8, <1>9

LEMMA MakesLockDirectoryKeeps ==
  ASSUME IInv, MakesLockDirectory
  PROVE  IInv'
  <1>1. op.at = "maintain" /\ Named = None
    BY DEF MakesLockDirectory, At
  <1>2. /\ manifest # None /\ manifest \in Manifests /\ (Settled \/ Unopened)
        /\ Unopened => manifest.retired
    BY <1>1, MaintainedIsApart
  <1>3. manifest.retired
    BY <1>1, <1>2 DEF Named, Settled, Committed, IInv, DiskInv, SettledDisk, Whole
  <1>4. manifest.at \in {"old", "new"}
    BY <1>2 DEF Manifests
  <1>5. Directory(Initially({}), manifest.at) \in Directories
    BY <1>4, InitiallyIsTyped, UnsealedIsTyped, DirectoryIsUnsealed
  <1> QED BY <1>1, <1>3, <1>5, RetiredKeeps DEF MakesLockDirectory, External, Calm

LEMMA RetiresKeeps ==
  ASSUME IInv, Retires
  PROVE  IInv'
  <1>1. op.at = "maintain" /\ ~Busy /\ op' = Free /\ UNCHANGED <<dirs, server, refused, torn>>
    BY DEF Retires, MayMaintain, At, External, Calm
  <1>2. manifest # None /\ manifest \in Manifests /\ (Settled \/ Unopened) /\ refused = "no"
    BY <1>1, MaintainedIsApart
  <1>3. manifest' = [manifest EXCEPT !.retired = TRUE] /\ manifest' \in Manifests
    BY <1>2, ManifestChanges DEF Retires
  <1>4. /\ manifest'.owner = manifest.owner /\ manifest'.at = manifest.at
        /\ manifest'.journal = manifest.journal /\ manifest'.retired
    BY <1>2, <1>3 DEF Manifests
  <1>5. manifest' # None
    BY <1>3, ManifestChanges
  <1>6. ~Busy'
    BY <1>1, <1>2, <1>4 DEF Busy, Alive
  <1>7. manifest.owner # 0 => server[manifest.owner] \in {"ended", manifest.at}
    BY <1>2 DEF IInv, DiskInv, OwnerInv
  <1>8. DiskInv' /\ ~Opened' /\ ~Switched'
    BY <1>1, <1>2, <1>3, <1>4, <1>6, <1>7, NotesKeepDisk DEF IInv
  <1>9. LeftInv' /\ RefusalInv'
    BY <1>1, <1>2, <1>5, <1>8 DEF IInv, LeftInv, RefusalInv, Free
  <1> QED BY <1>1, <1>8, <1>9, FreeIsAnywhere DEF IInv

LEMMA PurgesKeeps ==
  ASSUME IInv, Purges
  PROVE  IInv'
  <1>1. op.at = "purging" /\ RemovesFrom(manifest.at)
    BY DEF Purges, At
  <1>2. manifest # None /\ manifest \in Manifests /\ manifest.retired
    BY <1>1, MaintainedIsApart
  <1>3. manifest.at \in Places
    BY <1>2 DEF Manifests, Places
  <1>4. dirs[manifest.at] # None
    BY <1>1, MaintainedIsApart DEF Named
  <1>5. PICK d \in Directories \cup {None} : Put(manifest.at, d)
    BY <1>1, <1>3, <1>4, RemovalLeaves DEF IInv, DiskInv
  <1>6. dirs'[manifest.at] = d
    BY <1>3, <1>5, PutTyped DEF IInv, DiskInv
  <1>7. op' = Free \/ (op' = op /\ d # None)
    BY <1>6 DEF Purges
  <1> QED BY <1>1, <1>2, <1>5, <1>7, RetiredKeeps DEF Purges, External, Calm

-----------------------------------------------------------------------------
(* The app-servers *)

LEMMA ServerWritesKeeps ==
  ASSUME IInv, ServerWrites
  PROVE  IInv'
  <1> DEFINE place == server[manifest.owner]
             d == dirs[place]
             f == [n \in Names(d) |-> d.entries[n] + (IF n \in Parts THEN 1 ELSE 0)]
             e == [d EXCEPT !.entries = f]
  <1>1. /\ Busy /\ manifest.turn # "settled" /\ d # None /\ Put(place, e)
        /\ \A p \in Parts \cap Names(d) : d.entries[p] < MaxTurns
        /\ UNCHANGED <<manifest, op, server, refused, torn>>
    BY DEF ServerWrites, External, Calm
  <1>2. /\ manifest # None /\ manifest \in Manifests /\ ~manifest.retired
        /\ manifest.journal # "open" /\ manifest.owner # 0 /\ place \in Places
    BY <1>1 DEF Busy, Alive, IInv, DiskInv, TypeInv, OwnerInv
  <1>3. place = manifest.at
    BY <1>2 DEF IInv, DiskInv, OwnerInv, Places
  <1>4. (Settled \/ Unopened) /\ ~Opened /\ ~Switched
    BY <1>2, PhasesAreApart DEF Opened, Switched
  <1>5. d \in Directories
    BY <1>1, <1>2 DEF IInv, DiskInv, TypeInv
  <1>6. f \in Entries
    <2>1. d.entries \in Entries
      BY <1>5, DirectoryChanges
    <2>2. PICK S \in SUBSET (Parts \cup {Binding}) : d.entries \in [S -> 0 .. MaxTurns]
      BY <2>1, EntriesAre
    <2>3. Names(d) = S
      BY <2>2 DEF Names
    <2>4. \A n \in S : d.entries[n] + (IF n \in Parts THEN 1 ELSE 0) \in 0 .. MaxTurns
      BY <1>1, <2>2, <2>3, RuntimeBounds
    <2>5. f \in [S -> 0 .. MaxTurns]
      BY <2>3, <2>4
    <2> QED BY <2>5, EntriesAre
  <1>7. DOMAIN f = Names(d) /\ \A n \in DOMAIN f : n \in Parts => f[n] = d.entries[n] + 1
    OBVIOUS
  <1> HIDE DEF f
  <1>8. e \in Directories /\ e # None
    BY <1>5, <1>6, DirectoryChanges
  <1>9. e.entries = f /\ e.index = d.index
    BY <1>5 DEF Directories
  <1> HIDE DEF e
  <1>10. /\ dirs' \in [Places -> Directories \cup {None}]
         /\ dirs'[place] = e /\ \A q \in Places \ {place} : dirs'[q] = dirs[q]
    BY <1>1, <1>2, <1>8, PutTyped DEF IInv, DiskInv
  <1>11. Names(e) = Names(d) /\ (Whole(d, place) => Whole(e, place))
    BY <1>7, <1>8, <1>9 DEF Names, Whole
  <1>12. (Settled' <=> Settled) /\ (Unopened' <=> Unopened) /\ ~Opened' /\ ~Switched' /\ manifest' # None
    BY <1>1, <1>2, <1>4, PhaseStays
  <1>13. UnopenedDisk' /\ SettledDisk'
    <2>1. Settled => place = "new"
      BY <1>3 DEF Settled, Committed
    <2>2. Unopened => place = "old"
      BY <1>2, <1>3 DEF Unopened, Committed, Manifests
    <2>3. Unopened' => NoOther("old")' /\ Whole(dirs["old"], "old")'
      BY <1>2, <1>10, <1>11, <1>12, <2>2 DEF IInv, DiskInv, UnopenedDisk, NoOther, Whole, Names
    <2>4. Settled' => NoOther("new")' /\ Whole(dirs["new"], "new")' /\ Binding \in Names(dirs["new"])'
      BY <1>2, <1>10, <1>11, <1>12, <2>1 DEF IInv, DiskInv, SettledDisk, NoOther, Whole, Names
    <2> QED BY <2>3, <2>4 DEF UnopenedDisk, SettledDisk
  <1>14. TypeInv' /\ OwnerInv' /\ (Busy' <=> Busy)
    BY <1>1, <1>10, OwnerStays DEF IInv, DiskInv, TypeInv
  <1>15. DiskInv'
    BY <1>12, <1>13, <1>14 DEF DiskInv, FreshDisk, OpenedDisk, SwitchedDisk
  <1>16. AtInv'
    <2>1. op.at # "purging"
      BY <1>1, <1>2 DEF IInv, AtInv, UseAt
    <2>2. UseAt'
      BY <1>1, <1>2, <1>14, <2>1 DEF IInv, AtInv, UseAt
    <2> QED BY <1>1, <1>4, <1>12, <2>2 DEF IInv, AtInv, OpInv, FreshAt, SlotAt, StageAt
  <1>17. LeftInv' /\ RefusalInv'
    BY <1>1, <1>2, <1>12 DEF IInv, LeftInv, RefusalInv
  <1> QED BY <1>15, <1>16, <1>17 DEF IInv

LEMMA ServerExitsKeeps ==
  ASSUME IInv, ServerExits
  PROVE  IInv'
  <1>1. UNCHANGED <<manifest, dirs, op, refused, torn>>
    BY DEF ServerExits, Calm
  <1>2. PICK n \in Servers : Alive(n) /\ op.server # n /\ server' = [server EXCEPT ![n] = "ended"]
    BY DEF ServerExits
  <1>3. TypeInv' /\ \A m \in Servers : server'[m] = IF m = n THEN "ended" ELSE server[m]
    BY <1>1, <1>2 DEF IInv, DiskInv, TypeInv
  <1>4. manifest # None
    BY <1>2 DEF IInv, DiskInv, FreshDisk, Alive, Places
  <1>5. manifest.owner # 0 => manifest.owner \in Servers
    BY <1>4 DEF IInv, DiskInv, TypeInv, Manifests, Servers
  <1>6. Busy' => Busy
    BY <1>1, <1>3, <1>5 DEF Busy, Alive, Places
  <1>7. OwnerInv'
    BY <1>1, <1>3, <1>4, <1>5, <1>6 DEF IInv, DiskInv, OwnerInv
  <1>8. /\ (Settled' <=> Settled) /\ (Unopened' <=> Unopened) /\ (Opened' <=> Opened)
        /\ (Switched' <=> Switched)
    BY <1>1, PhaseStays
  <1>9. UnopenedDisk' /\ OpenedDisk' /\ SwitchedDisk' /\ SettledDisk'
    BY <1>1, <1>8 DEF IInv, DiskInv, UnopenedDisk, OpenedDisk, SwitchedDisk, SettledDisk, NoOther, Whole,
                      Sealed, SourceWhole, Same, Content, Names
  <1>10. DiskInv'
    BY <1>1, <1>3, <1>4, <1>7, <1>9 DEF DiskInv, FreshDisk
  <1>11. UseAt'
    <2>1. op.at \in {"record", "use"} => server'[op.server] = server[op.server]
      BY <1>2, <1>3 DEF IInv, AtInv, OpInv
    <2> QED BY <1>1, <1>6, <2>1 DEF IInv, AtInv, UseAt, Named
  <1>12. AtInv'
    BY <1>1, <1>4, <1>8, <1>11 DEF IInv, AtInv, OpInv, FreshAt, SlotAt, StageAt, Sealed, Content, Names
  <1>13. LeftInv' /\ RefusalInv'
    BY <1>1, <1>4, <1>8 DEF IInv, LeftInv, RefusalInv, Owned, IsEmpty, Names
  <1> QED BY <1>10, <1>12, <1>13 DEF IInv

-----------------------------------------------------------------------------
(* The invariant, and what it says *)

\* The directory of an earlier layout, as it was made or as a migration sealed it.
LEMMA OldSlot ==
  ASSUME NEW S \in SUBSET (Parts \cup {Binding}), Parts \subseteq S,
         NEW d \in {Directory(Initially(S), "old"),
                    [Directory(Initially(S), "old") EXCEPT !.marker = "sealed", !.seal = "earlier"]}
  PROVE  d \in Directories /\ Whole(d, "old") /\ d.entries = Initially(S)
  <1> DEFINE made == Directory(Initially(S), "old")
  <1>1. made \in Directories
    BY InitiallyIsTyped, UnsealedIsTyped, DirectoryIsUnsealed
  <1>2. made.entries = Initially(S) /\ made.index = "old"
    BY DEF Directory
  <1> HIDE DEF made
  <1>3. /\ [made EXCEPT !.marker = "sealed", !.seal = "earlier"] \in Directories
        /\ [made EXCEPT !.marker = "sealed", !.seal = "earlier"].entries = Initially(S)
        /\ [made EXCEPT !.marker = "sealed", !.seal = "earlier"].index = "old"
    BY <1>1, <1>2 DEF Directories
  <1>4. d \in Directories /\ d.entries = Initially(S) /\ d.index = "old"
    BY <1>1, <1>2, <1>3 DEF made
  <1>5. DOMAIN Initially(S) = S /\ \A n \in S : Initially(S)[n] = 0
    BY DEF Initially
  <1>6. Parts \subseteq Names(d) /\ \A p, q \in Parts : d.entries[p] = d.entries[q]
    BY <1>4, <1>5 DEF Names
  <1> QED BY <1>4, <1>6, NoneAssumption DEF Whole

LEMMA InitialSlot ==
  ASSUME NEW journal \in {"none", "done"},
         dirs = [p \in Places |-> IF p # "old" THEN None
           ELSE IF journal = "none" THEN Directory(Initially(Parts), "old")
           ELSE [Directory(Initially(Parts \cup {Binding}), "old") EXCEPT
                    !.marker = "sealed", !.seal = "earlier"]]
  PROVE  /\ dirs["old"] \in Directories /\ Whole(dirs["old"], "old")
         /\ \A p \in Parts : dirs["old"].entries[p] = 0
  <1>1. Parts \in SUBSET (Parts \cup {Binding}) /\ Parts \cup {Binding} \in SUBSET (Parts \cup {Binding})
    OBVIOUS
  <1>2. PICK S \in {Parts, Parts \cup {Binding}} :
          dirs["old"] \in {Directory(Initially(S), "old"),
                           [Directory(Initially(S), "old") EXCEPT !.marker = "sealed", !.seal = "earlier"]}
    <2>1. CASE journal = "none"
      <3>1. dirs["old"] = Directory(Initially(Parts), "old")
        BY <2>1 DEF Places
      <3> QED BY <3>1
    <2>2. CASE journal = "done"
      <3>1. dirs["old"] = [Directory(Initially(Parts \cup {Binding}), "old") EXCEPT
                             !.marker = "sealed", !.seal = "earlier"]
        BY <2>2 DEF Places
      <3> QED BY <3>1
    <2> QED BY <2>1, <2>2
  <1>3. dirs["old"] \in Directories /\ Whole(dirs["old"], "old") /\ dirs["old"].entries = Initially(S)
    BY <1>1, <1>2, OldSlot
  <1> QED BY <1>2, <1>3 DEF Initially

LEMMA InitHolds ==
  ASSUME Init
  PROVE  IInv
  <1>1. /\ op = Free /\ refused = "no" /\ torn = {}
        /\ server \in [Servers -> {"unborn", "old"}]
        /\ \A n \in Servers \ {1} : server[n] = "unborn"
    BY DEF Init
  <1>2. OpInv /\ op.at = "none" /\ op.kind = "none"
    BY <1>1, RuntimeBounds DEF OpInv, Free, Positions
  <1>3. RefusalInv
    BY <1>1 DEF RefusalInv, Free
  <1>4. \A n \in Servers : n # 1 => server[n] = "unborn"
    BY <1>1
  <1>5. server \in [Servers -> {"old", "new", "unborn", "ended"}]
    BY <1>1
  <1>6. CASE manifest = None /\ server[1] = "unborn" /\ dirs = [p \in Places |-> None]
    <2>1. TypeInv /\ FreshDisk
      BY <1>4, <1>5, <1>6 DEF TypeInv, FreshDisk, NoOther, Places
    <2>2. ~Unopened /\ ~Opened /\ ~Switched /\ ~Settled
      BY <1>6 DEF Unopened, Opened, Switched, Settled
    <2>3. DiskInv
      BY <1>6, <2>1, <2>2 DEF DiskInv, UnopenedDisk, OpenedDisk, SwitchedDisk, SettledDisk, OwnerInv
    <2>4. AtInv
      BY <1>2, <1>6, <2>2 DEF AtInv, FreshAt, SlotAt, StageAt, UseAt
    <2>5. LeftInv
      <3>1. dirs["new"] = None
        BY <1>6 DEF Places
      <3>2. Made(TRUE) # None
        BY InitiallyIsTyped, UnsealedIsTyped DEF Made
      <3> QED BY <1>1, <2>2, <3>1, <3>2 DEF LeftInv
    <2> QED BY <1>3, <2>3, <2>4, <2>5 DEF IInv
  <1>7. ASSUME NEW journal \in {"none", "done"}, NEW retired \in BOOLEAN, NEW turn \in Outcomes,
               manifest = [NewManifest EXCEPT
                             !.at = "old", !.journal = journal, !.retired = retired,
                             !.turn = turn,
                             !.owner = IF server[1] = "old" THEN 1 ELSE 0],
               dirs = [p \in Places |-> IF p # "old" THEN None
                 ELSE IF journal = "none" THEN Directory(Initially(Parts), "old")
                 ELSE [Directory(Initially(Parts \cup {Binding}), "old") EXCEPT
                          !.marker = "sealed", !.seal = "earlier"]],
               retired => server[1] = "unborn"
        PROVE  IInv
    <2>1. 1 \in Servers /\ 1 \in 0 .. MaxServers /\ 0 \in 0 .. MaxServers
      BY RuntimeBounds DEF Servers
    <2>2. /\ manifest \in Manifests /\ manifest.at = "old" /\ manifest.journal = journal
          /\ manifest.retired = retired /\ manifest.owner = IF server[1] = "old" THEN 1 ELSE 0
      BY <1>7, <2>1 DEF NewManifest, Manifests
    <2>3. manifest # None
      BY <2>2, NoneAssumption
    <2>4. Unopened /\ ~Opened /\ ~Switched /\ ~Settled
      BY <2>2, <2>3 DEF Unopened, Opened, Switched, Settled, Committed
    <2>5. dirs["old"] \in Directories /\ Whole(dirs["old"], "old")
      BY <1>7, InitialSlot
    <2>6. /\ \A p \in Places \ {"old"} : dirs[p] = None
          /\ dirs \in [Places -> Directories \cup {None}]
      <3>1. \A p \in Places \ {"old"} : dirs[p] = None
        BY <1>7
      <3>2. DOMAIN dirs = Places /\ dirs = [p \in Places |-> dirs[p]]
        BY <1>7
      <3> QED BY <2>5, <3>1, <3>2
    <2>7. TypeInv
      BY <1>5, <2>2, <2>6 DEF TypeInv
    <2>8. OwnerInv
      BY <1>1, <1>7, <2>1, <2>2 DEF OwnerInv, Busy, Alive, Places
    <2>9. DiskInv
      BY <2>3, <2>4, <2>5, <2>6, <2>7, <2>8
         DEF DiskInv, FreshDisk, UnopenedDisk, OpenedDisk, SwitchedDisk, SettledDisk, NoOther
    <2>10. AtInv
      BY <1>2, <2>3, <2>4 DEF AtInv, FreshAt, SlotAt, StageAt, UseAt
    <2>11. LeftInv
      BY <1>1, <2>3, <2>4 DEF LeftInv
    <2> QED BY <1>3, <2>9, <2>10, <2>11 DEF IInv
  <1>8. \/ manifest = None /\ server[1] = "unborn" /\ dirs = [p \in Places |-> None]
        \/ \E journal \in {"none", "done"}, retired \in BOOLEAN, turn \in Outcomes :
             /\ manifest = [NewManifest EXCEPT
                              !.at = "old", !.journal = journal, !.retired = retired,
                              !.turn = turn,
                              !.owner = IF server[1] = "old" THEN 1 ELSE 0]
             /\ dirs = [p \in Places |-> IF p # "old" THEN None
                  ELSE IF journal = "none" THEN Directory(Initially(Parts), "old")
                  ELSE [Directory(Initially(Parts \cup {Binding}), "old") EXCEPT
                           !.marker = "sealed", !.seal = "earlier"]]
             /\ retired => server[1] = "unborn"
    BY Zenon DEF Init
  <1> QED BY <1>6, <1>7, <1>8, Zenon

LEMMA StutterKeeps ==
  ASSUME IInv, UNCHANGED vars
  PROVE  IInv'
  <1>1. UNCHANGED <<manifest, dirs, server, op, refused, torn>>
    BY DEF vars
  <1>2. DiskInv'
    BY <1>1, DiskStays DEF IInv
  <1>3. /\ (Settled' <=> Settled) /\ (Unopened' <=> Unopened) /\ (Opened' <=> Opened)
        /\ (Switched' <=> Switched)
    BY <1>1, PhaseStays
  <1>4. AtInv'
    BY <1>1, <1>3 DEF IInv, AtInv, OpInv, FreshAt, SlotAt, StageAt, UseAt, Sealed, Content, Names,
                      Busy, Alive, Named
  <1>5. LeftInv' /\ RefusalInv'
    BY <1>1, <1>3 DEF IInv, LeftInv, RefusalInv, Owned, IsEmpty, Names
  <1> QED BY <1>2, <1>4, <1>5 DEF IInv

LEMMA StepKeeps ==
  ASSUME IInv, [Next]_vars
  PROVE  IInv'
  <1>1. CASE \E kind \in {"run", "migrate", "retire", "purge"} : Begins(kind)
    BY <1>1, BeginsKeeps
  <1>2. CASE \/ RetiredIsRefused \/ MigrationIsRefused \/ StagingIsRefused \/ StorageIsRefused
             \/ BindingIsRefused \/ LeaseIsRefused \/ MaintenanceIsRefused
    BY <1>2, RefusalsKeep
  <1>3. CASE LayoutIsCurrent \/ OpensJournal \/ Stages \/ ClearsStage \/ MakesStage
    BY <1>3, LayoutIsCurrentKeeps, OpensJournalKeeps, StagesKeeps, ClearsStageKeeps, MakesStageKeeps
  <1>4. CASE WritesMarker \/ ReplacesMarker \/ Copies \/ Seals \/ Publishes
    BY <1>4, WritesMarkerKeeps, ReplacesMarkerKeeps, CopiesKeeps, SealsKeeps, PublishesKeeps
  <1>5. CASE SwitchesManifest \/ PutsOldAside \/ RemovesOld \/ CompletesJournal \/ Proceeds
    BY <1>5, SwitchesManifestKeeps, PutsOldAsideKeeps, RemovesOldKeeps, CompletesJournalKeeps,
       ProceedsKeeps
  <1>6. CASE MakesSlot \/ BindsSlot \/ ReplacesBinding \/ Acquires
    BY <1>6, MakesSlotKeeps, BindsSlotKeeps, ReplacesBindingKeeps, AcquiresKeeps
  <1>7. CASE Launches \/ RecordsOwner \/ AsksTurn \/ SettlesTurn \/ HoldsTurn \/ Closes \/ Releases
    BY <1>7, LaunchesKeeps, RecordsOwnerKeeps, TurnsKeep, ClosesKeeps, ReleasesKeeps
  <1>8. CASE MakesLockDirectory \/ Retires \/ PurgeBegins \/ Purges
    BY <1>8, MakesLockDirectoryKeeps, RetiresKeeps, PurgeBeginsKeeps, PurgesKeeps
  <1>9. CASE ServerWrites \/ ServerExits \/ Dies
    BY <1>9, ServerWritesKeeps, ServerExitsKeeps, DiesKeeps
  <1>10. CASE UNCHANGED vars
    BY <1>10, StutterKeeps
  <1> QED BY <1>1, <1>2, <1>3, <1>4, <1>5, <1>6, <1>7, <1>8, <1>9, <1>10 DEF Next

\* The invariant holds in every reachable state.
THEOREM RuntimeInvariant == Spec => []IInv
  <1>1. Init => IInv
    BY InitHolds
  <1>2. IInv /\ [Next]_vars => IInv'
    BY StepKeeps
  <1> QED BY <1>1, <1>2, PTL DEF Spec

LEMMA IsAlone ==
  ASSUME IInv
  PROVE  NoSecondRuntime
  <1> SUFFICES ASSUME manifest # None, Committed, manifest.journal # "open" \/ InUse
               PROVE  \A p \in Places \ {"new"} : dirs[p] = None
    BY DEF NoSecondRuntime
  <1>1. ~Switched \/ ~InUse
    BY DEF IInv, AtInv, SlotAt, InUse
  <1>2. Settled
    BY <1>1 DEF Settled, Switched
  <1> QED BY <1>2 DEF IInv, DiskInv, SettledDisk, NoOther

LEMMA ChecksAreMet ==
  ASSUME IInv
  PROVE  ChecksHold
  <1>1. ASSUME Unmoved PROVE OldIsWhole
    <2>1. op.at = "layout" /\ manifest # None /\ ~manifest.retired /\ ~Settled
      BY <1>1 DEF Unmoved, At, Moved, Settled, IInv, AtInv, FreshAt
    <2>2. CASE Unopened
      BY <2>1, <2>2 DEF IInv, DiskInv, UnopenedDisk, OldIsWhole, Whole, Unopened
    <2>3. CASE Opened
      BY <2>3 DEF IInv, DiskInv, OpenedDisk, SourceWhole, Same, Content, OldIsWhole, Names
    <2>4. CASE Switched
      BY <2>4 DEF IInv, DiskInv, SwitchedDisk, SourceWhole, Same, Content, OldIsWhole, Names, Switched
    <2> QED BY <2>1, <2>2, <2>3, <2>4, PhasesAreApart
  <1>2. ASSUME op.at = "stage" PROVE dirs["new"] # None \/ ~Committed
    BY <1>2, PhasesAreApart DEF IInv, AtInv, FreshAt, SlotAt, DiskInv, SwitchedDisk, Sealed, Opened
  <1>3. ASSUME Copied PROVE Same(dirs["temp"])
    <2> DEFINE e == manifest.source[1]
               temp == dirs["temp"]
    <2>1. op.at = "copy" /\ Names(dirs["old"]) = Names(temp)
      BY <1>3 DEF Copied, At
    <2>2. Opened /\ temp # None /\ temp.index = "old" /\ \A n \in Names(temp) : temp.entries[n] = e[n]
      BY <2>1, StagingIsOpened DEF IInv, AtInv, StageAt
    <2>3. SourceWhole /\ Same(dirs["old"])
      BY <2>2 DEF IInv, DiskInv, OpenedDisk
    <2>4. manifest.source = <<e, "old">> /\ e \in Entries /\ Names(dirs["old"]) = DOMAIN e
      BY <2>3 DEF SourceWhole, Contents, Same, Content, Names
    <2>5. temp \in Directories
      BY <2>2 DEF IInv, DiskInv, TypeInv, Places
    <2>6. temp.entries \in Entries
      BY <2>5, DirectoryChanges
    <2>7. temp.entries = e
      <3>1. PICK S \in SUBSET (Parts \cup {Binding}) : e \in [S -> 0 .. MaxTurns]
        BY <2>4, EntriesAre
      <3>2. PICK T \in SUBSET (Parts \cup {Binding}) : temp.entries \in [T -> 0 .. MaxTurns]
        BY <2>6, EntriesAre
      <3>3. S = T
        BY <2>1, <2>4, <3>1, <3>2 DEF Names
      <3> QED BY <2>2, <3>1, <3>2, <3>3 DEF Names
    <2> QED BY <2>2, <2>4, <2>7 DEF Same, Content
  <1>4. ASSUME op.at = "verify" PROVE Verified
    BY <1>4, PhasesAreApart
       DEF IInv, AtInv, FreshAt, SlotAt, DiskInv, OpenedDisk, SwitchedDisk, Sealed, Verified
  <1>5. ASSUME op.at = "retire_old" PROVE dirs["old"] = None \/ dirs["aside"] = None
    BY <1>5, PhasesAreApart DEF IInv, AtInv, FreshAt, SlotAt, DiskInv, SwitchedDisk
  <1>6. ASSUME op.at = "ready" PROVE Named # None /\ Parts \subseteq Names(Named)
    <2>1. Settled /\ ~manifest.retired
      BY <1>6, PhasesAreApart DEF IInv, AtInv, FreshAt, SlotAt
    <2> QED BY <2>1 DEF IInv, DiskInv, SettledDisk, Whole, Named, Settled, Committed
  <1> QED BY <1>1, <1>2, <1>3, <1>4, <1>5, <1>6 DEF ChecksHold, At

\* NoSecondRuntime, for every number of app-servers, parts, turns and deaths: a
\* slot whose migration is through, and a slot at work in its new place, has no
\* other copy of its native state (migrate_runtime, acquire).
THEOREM OneRuntime == Spec => []NoSecondRuntime
  <1>1. IInv => NoSecondRuntime
    BY IsAlone
  <1> QED BY <1>1, RuntimeInvariant, PTL

\* RefusedForCause: wherever operations died, none of the checks of migrate_runtime
\* fails, and one is only turned away for the reasons that RefusedForCause lists.
THEOREM RefusalsHaveCause == Spec => []RefusedForCause
  <1>1. IInv => RefusedForCause
    BY ChecksAreMet DEF IInv, RefusalInv, RefusedForCause
  <1> QED BY <1>1, RuntimeInvariant, PTL

-----------------------------------------------------------------------------
(* The refinement: what the session is, wherever its directory is *)

Writers == {n \in Servers : Busy /\ n = manifest.owner}
LastTurn == IF manifest = None THEN "settled" ELSE manifest.turn
Retired == manifest # None /\ manifest.retired

One == CHOOSE p \in Parts : TRUE

LEMMA StateIs ==
  ASSUME manifest # None
  PROVE  /\ Whole(Named, manifest.at) => State = Named.entries[One]
         /\ ~Whole(Named, manifest.at) => State = None
  BY DEF State, Whole, One

LEMMA OneIsPart == One \in Parts
  BY PartsAssumption DEF One

LEMMA SeenAlike ==
  ASSUME State' = State, Writers' = Writers, LastTurn' = LastTurn, Retired' = Retired
  PROVE  UNCHANGED Session!vars
  BY DEF Session!vars, Writers, LastTurn, Retired

LEMMA ManifestIsSeen ==
  ASSUME UNCHANGED manifest
  PROVE  LastTurn' = LastTurn /\ Retired' = Retired /\ (UNCHANGED server => Writers' = Writers)
  BY DEF LastTurn, Retired, Writers, Busy, Alive

LEMMA NobodyWrites ==
  ASSUME ~Busy
  PROVE  Writers = {}
  BY DEF Writers

LEMMA OwnerWrites ==
  ASSUME IInv, Busy
  PROVE  Writers = {manifest.owner} /\ manifest.owner \in Servers
  <1>1. manifest.owner \in Servers
    BY DEF Busy, IInv, DiskInv, TypeInv, Manifests, Servers
  <1> QED BY <1>1 DEF Writers

LEMMA NamedStays ==
  ASSUME manifest # None, manifest' # None, manifest'.at = manifest.at,
         dirs'[manifest.at] = dirs[manifest.at]
  PROVE  State' = State
  BY DEF State, Named, Names

\* Steps of the session's making and moving are not seen.
LEMMA LockedStepsAreHidden ==
  ASSUME UNCHANGED <<manifest, dirs, server>>
  PROVE  UNCHANGED Session!vars
  <1>1. State' = State
    BY DEF State, Named, Names
  <1> QED BY <1>1, ManifestIsSeen, SeenAlike

LEMMA MakingIsHidden ==
  ASSUME IInv, MakesSlot \/ BindsSlot \/ ReplacesBinding
  PROVE  UNCHANGED Session!vars
  <1>1. manifest = None /\ UNCHANGED <<manifest, server>>
    BY PhasesAreApart DEF MakesSlot, BindsSlot, ReplacesBinding, External, At, IInv, AtInv, SlotAt
  <1>2. State' = State
    BY <1>1 DEF State
  <1> QED BY <1>1, <1>2, ManifestIsSeen, SeenAlike

LEMMA StagingIsHidden ==
  ASSUME IInv, ClearsStage \/ MakesStage \/ WritesMarker \/ ReplacesMarker \/ Copies \/ Seals \/ Publishes
  PROVE  UNCHANGED Session!vars
  <1>1. /\ UNCHANGED <<manifest, server>>
        /\ op.at \in {"clear", "mkdir", "mark", "marking", "copy", "publish"}
    BY DEF ClearsStage, MakesStage, WritesMarker, ReplacesMarker, Copies, Seals, Copied, Publishes,
           External, At
  <1>2. Opened /\ manifest # None /\ manifest.at = "old"
    BY <1>1, StagingIsOpened DEF Opened, Committed, IInv, DiskInv, TypeInv, Manifests
  <1>3. dirs'["old"] = dirs["old"]
    BY DEF ClearsStage, MakesStage, WritesMarker, ReplacesMarker, Copies, Seals, Publishes,
           RemovesFrom, Put, Move, IInv, DiskInv, TypeInv, Places
  <1>4. State' = State
    BY <1>1, <1>2, <1>3, NamedStays
  <1> QED BY <1>1, <1>4, ManifestIsSeen, SeenAlike

LEMMA RemovalIsHidden ==
  ASSUME IInv, PutsOldAside \/ RemovesOld
  PROVE  UNCHANGED Session!vars
  <1>1. UNCHANGED <<manifest, server>> /\ op.at \in {"retire_old", "remove"}
    BY DEF PutsOldAside, RemovesOld, External, At
  <1>2. Switched /\ manifest # None /\ manifest.at = "new"
    BY <1>1, PhasesAreApart DEF IInv, AtInv, FreshAt, SlotAt, Switched, Committed
  <1>3. dirs'["new"] = dirs["new"]
    BY DEF PutsOldAside, RemovesOld, RemovesFrom, Put, Move, IInv, DiskInv, TypeInv, Places
  <1>4. State' = State
    BY <1>1, <1>2, <1>3, NamedStays
  <1> QED BY <1>1, <1>4, ManifestIsSeen, SeenAlike

\* What the journal records of the session does not change what it is.
LEMMA JournalIsHidden ==
  ASSUME IInv, OpensJournal \/ CompletesJournal
  PROVE  UNCHANGED Session!vars
  <1>1. UNCHANGED <<dirs, server>> /\ manifest # None /\ manifest \in Manifests
    BY PhasesAreApart DEF OpensJournal, Unmoved, CompletesJournal, External, At, IInv, AtInv, FreshAt,
                          DiskInv, TypeInv
  <1>2. /\ manifest'.at = manifest.at /\ manifest'.owner = manifest.owner
        /\ manifest'.retired = manifest.retired /\ manifest'.turn = manifest.turn
    BY <1>1 DEF OpensJournal, CompletesJournal, Manifests
  <1>3. manifest' # None
    <2>1. CASE OpensJournal
      BY <2>1, <1>1, OpensJournalKeeps, PhasesAreApart DEF IInv, AtInv, FreshAt, OpensJournal, Goes, OpInv
    <2>2. CASE CompletesJournal
      BY <2>2, <1>1, ManifestChanges DEF CompletesJournal
    <2> QED BY <2>1, <2>2
  <1>4. State' = State
    BY <1>1, <1>2, <1>3, NamedStays
  <1>5. Writers' = Writers /\ LastTurn' = LastTurn /\ Retired' = Retired
    BY <1>1, <1>2, <1>3 DEF Writers, LastTurn, Retired, Busy, Alive
  <1> QED BY <1>4, <1>5, SeenAlike

\* The copy that is switched to is what the original was.
LEMMA SwitchIsHidden ==
  ASSUME IInv, SwitchesManifest
  PROVE  UNCHANGED Session!vars
  <1>1. op.at = "verify" /\ UNCHANGED <<dirs, server>>
    BY DEF SwitchesManifest, External, At
  <1>2. (Opened \/ Switched) /\ manifest # None /\ manifest \in Manifests /\ ~Busy /\ Sealed(dirs["new"])
    BY <1>1, PhasesAreApart
       DEF IInv, AtInv, FreshAt, SlotAt, DiskInv, TypeInv, OwnerInv, OpenedDisk, SwitchedDisk, Opened, Switched
  <1>3. SourceWhole
    BY <1>2 DEF IInv, DiskInv, OpenedDisk, SwitchedDisk
  <1>4. /\ manifest' \in Manifests /\ manifest' # None /\ manifest'.at = "new"
        /\ manifest'.owner = manifest.owner /\ manifest'.retired = manifest.retired
        /\ manifest'.turn = manifest.turn /\ manifest'.source = manifest.source
    <2>1. manifest' = [manifest EXCEPT !.at = "new"]
      BY DEF SwitchesManifest
    <2>2. manifest' \in Manifests /\ manifest' # None
      BY <1>2, <2>1, ManifestChanges
    <2> QED BY <1>2, <2>1, <2>2 DEF Manifests
  <1>5. Writers' = Writers /\ LastTurn' = LastTurn /\ Retired' = Retired
    BY <1>1, <1>2, <1>4 DEF Writers, LastTurn, Retired, Busy, Alive
  <1>6. CASE Switched
    BY <1>1, <1>2, <1>4, <1>5, <1>6, NamedStays, SeenAlike DEF Switched, Committed
  <1>7. CASE Opened
    <2>1. manifest.at = "old" /\ Named = dirs["old"] /\ Same(dirs["old"])
      BY <1>2, <1>7 DEF Named, Opened, Committed, Manifests, IInv, DiskInv, OpenedDisk
    <2>2. Whole(Named, manifest.at) /\ Named.entries = manifest.source[1]
      BY <1>3, <2>1 DEF Whole, Same, Content, SourceWhole, Names
    <2>3. State = manifest.source[1][One]
      BY <1>2, <2>2, StateIs
    <2>4. Named' = dirs["new"] /\ Whole(dirs["new"], "new") /\ dirs["new"].entries[One] = manifest.source[1][One]
      BY <1>1, <1>2, <1>3, <1>4, OneIsPart, PartsAssumption
         DEF Named, Sealed, Bound, SourceWhole, Whole, Names
    <2>5. State' = dirs["new"].entries[One]
      <3>1. Parts \subseteq Names(Named') /\ Named'.index = manifest'.at
            /\ \A p, q \in Parts : Named'.entries[p] = Named'.entries[q]
        BY <1>4, <2>4 DEF Whole
      <3> QED BY <1>4, <2>4, <3>1 DEF State, Named, Names, Whole, One
    <2> QED BY <1>5, <2>3, <2>4, <2>5, SeenAlike
  <1> QED BY <1>2, <1>6, <1>7

LEMMA AcquiringIsHidden ==
  ASSUME IInv, Acquires
  PROVE  UNCHANGED Session!vars
  <1>1. op.at = "lease" /\ ~Busy /\ UNCHANGED <<dirs, server>>
    BY DEF Acquires, Idle, External, At
  <1>2. CASE manifest # None
    BY <1>1, <1>2, LockedStepsAreHidden DEF Acquires
  <1>3. CASE manifest = None
    <2>1. dirs["new"] = Slot
      BY <1>1, <1>3 DEF IInv, AtInv, FreshAt
    <2>2. manifest' = NewManifest /\ NewManifest \in Manifests
      BY <1>3, RuntimeBounds DEF Acquires, NewManifest, Manifests, Outcomes
    <2>3. /\ manifest' # None /\ manifest'.at = "new" /\ manifest'.owner = 0
          /\ ~manifest'.retired /\ manifest'.turn = "settled"
      BY <2>2, NoneAssumption DEF NewManifest
    <2>4. Writers' = {} /\ Writers = {}
      BY <1>3, <2>3 DEF Writers, Busy
    <2>5. LastTurn' = LastTurn /\ Retired' = Retired
      BY <1>3, <2>3 DEF LastTurn, Retired
    <2>6. /\ Slot # None /\ Parts \subseteq DOMAIN Slot.entries /\ Slot.index = "new"
          /\ \A p \in Parts : Slot.entries[p] = 0
      <3>1. Slot # None
        BY InitiallyIsTyped, UnsealedIsTyped DEF Slot
      <3> QED BY <3>1 DEF Slot, Unsealed, Initially
    <2>7. dirs'[manifest'.at] = Slot
      BY <1>1, <2>1, <2>3
    <2>8. State' = 0
      BY <2>3, <2>6, <2>7, OneIsPart DEF State, Named, Names, One
    <2>9. State = 0
      BY <1>3 DEF State
    <2> QED BY <2>4, <2>5, <2>8, <2>9, SeenAlike
  <1> QED BY <1>2, <1>3

LEMMA UseIsSeen ==
  ASSUME IInv, IInv', Launches \/ RecordsOwner \/ AsksTurn \/ SettlesTurn \/ HoldsTurn \/ Closes \/ Releases
  PROVE  [Session!Next]_(Session!vars)
  <1>1. op.at \in {"connect", "record", "use", "release"} /\ UNCHANGED dirs
    BY DEF Launches, RecordsOwner, AsksTurn, SettlesTurn, HoldsTurn, Closes, Releases, External, At
  <1>2. manifest # None /\ manifest \in Manifests /\ Settled /\ ~manifest.retired
    BY <1>1, InUseIsSettled
  <1>3. \/ UNCHANGED manifest
        \/ \E b \in Outcomes : manifest' = [manifest EXCEPT !.turn = b]
        \/ \E n \in 0 .. MaxServers : manifest' = [manifest EXCEPT !.owner = n]
    <2>1. 0 \in 0 .. MaxServers /\ op.server \in 0 .. MaxServers
      BY RuntimeBounds DEF IInv, AtInv, OpInv
    <2> QED BY <2>1 DEF Launches, RecordsOwner, AsksTurn, SettlesTurn, HoldsTurn, Closes, Releases, Outcomes
  <1>4. manifest' \in Manifests /\ manifest' # None
    BY <1>2, <1>3, ManifestChanges
  <1>5. manifest'.at = manifest.at /\ manifest'.retired = manifest.retired
    BY <1>2, <1>3 DEF Manifests
  <1>6. State' = State /\ Retired' = Retired /\ ~Retired
    BY <1>1, <1>2, <1>4, <1>5, NamedStays DEF Retired
  <1>7. CASE Launches
    <2>1. ~Busy /\ ~Busy' /\ UNCHANGED manifest
      <3>1. op.at = "connect" /\ op'.at = "record" /\ UNCHANGED manifest
        BY <1>7 DEF Launches, At, IInv, AtInv, OpInv
      <3> QED BY <1>2, <3>1 DEF IInv, AtInv, UseAt
    <2>2. Writers' = {} /\ Writers = {}
      BY <2>1 DEF Writers
    <2> QED BY <1>6, <2>1, <2>2, ManifestIsSeen, SeenAlike
  <1>8. CASE RecordsOwner
    <2>1. op.at = "record" /\ op'.at = "use" /\ op'.server = op.server /\ UNCHANGED server
      BY <1>8 DEF RecordsOwner, At, Goes, External, IInv, AtInv, OpInv
    <2>2. op.server \in Servers /\ ~Busy /\ server[op.server] = manifest.at
      BY <1>2, <2>1 DEF IInv, AtInv, OpInv, UseAt
    <2>3. manifest'.owner = op.server /\ manifest'.turn = manifest.turn
      BY <1>2, <1>8 DEF RecordsOwner, Manifests
    <2>4. Writers = {} /\ Writers' = {op.server}
      BY <1>2, <1>4, <2>1, <2>2, <2>3, RuntimeBounds DEF Writers, Busy, Alive, Servers, Places, Manifests
    <2>5. LastTurn' = LastTurn
      BY <1>2, <1>4, <2>3 DEF LastTurn
    <2>6. PICK n \in Servers : n = op.server
      BY <2>2
    <2>7. Session!Starts(n)
      BY <1>6, <2>4, <2>5, <2>6 DEF Session!Starts, Writers, LastTurn, Retired
    <2> QED BY <2>7 DEF Session!Next
  <1>9. CASE AsksTurn \/ SettlesTurn \/ HoldsTurn
    <2>1. op.at = "use" /\ UNCHANGED server
      BY <1>9 DEF AsksTurn, SettlesTurn, HoldsTurn, At, External
    <2>2. op.server \in Servers /\ server[op.server] = manifest.at /\ manifest.owner = op.server
      BY <1>2, <2>1 DEF IInv, AtInv, OpInv, UseAt
    <2>3. manifest'.owner = manifest.owner
      BY <1>2, <1>9 DEF AsksTurn, SettlesTurn, HoldsTurn, Manifests
    <2>4. Writers = {op.server} /\ Writers' = Writers
      BY <1>2, <1>4, <2>1, <2>2, <2>3, RuntimeBounds DEF Writers, Busy, Alive, Servers, Places, Manifests
    <2>5. CASE AsksTurn
      <3>1. LastTurn = "settled" /\ LastTurn' = "asked"
        BY <1>2, <1>4, <2>5 DEF AsksTurn, LastTurn, Manifests
      <3>2. Session!Asks
        BY <1>6, <2>4, <3>1 DEF Session!Asks, Writers, LastTurn, Retired
      <3> QED BY <3>2 DEF Session!Next
    <2>6. CASE SettlesTurn
      <3>1. LastTurn' = "settled"
        BY <1>2, <1>4, <2>6 DEF SettlesTurn, LastTurn, Manifests
      <3>2. Session!Settles
        BY <1>6, <2>4, <3>1 DEF Session!Settles, Writers, LastTurn, Retired
      <3> QED BY <3>2 DEF Session!Next
    <2>7. CASE HoldsTurn
      <3>1. LastTurn = "asked" /\ LastTurn' = "held"
        BY <1>2, <1>4, <2>7 DEF HoldsTurn, LastTurn, Manifests
      <3>2. Session!Holds
        BY <1>6, <2>4, <3>1 DEF Session!Holds, Writers, LastTurn, Retired
      <3> QED BY <3>2 DEF Session!Next
    <2> QED BY <1>9, <2>5, <2>6, <2>7
  <1>10. CASE Closes
    <2>1. op.at \in {"record", "use"} /\ op'.at = "release" /\ UNCHANGED manifest
      BY <1>10 DEF Closes, Goes, IInv, AtInv, OpInv
    <2>2. op.server \in Servers /\ ~Busy' /\ (Busy => manifest.owner = op.server)
      BY <1>2, <1>4, <2>1 DEF IInv, AtInv, OpInv, UseAt
    <2>3. Writers' = {} /\ Writers \subseteq {op.server}
      BY <2>2 DEF Writers
    <2>4. Writers' = Writers \ {op.server}
      BY <2>3
    <2>5. PICK n \in Servers : n = op.server
      BY <2>2
    <2>6. Session!Ends(n)
      BY <1>6, <2>1, <2>4, <2>5, ManifestIsSeen DEF Session!Ends, Writers, LastTurn, Retired
    <2> QED BY <2>6 DEF Session!Next
  <1>11. CASE Releases
    <2>1. op.at \in {"connect", "release"} /\ UNCHANGED server
      BY <1>11 DEF Releases, At, External
    <2>2. ~Busy
      BY <1>2, <2>1 DEF IInv, AtInv, UseAt
    <2>3. manifest'.owner \in {0, manifest.owner} /\ manifest'.turn = manifest.turn
      BY <1>2, <1>11 DEF Releases, Manifests
    <2>4. ~Busy'
      BY <1>2, <2>1, <2>2, <2>3 DEF Busy, Alive
    <2>5. Writers' = {} /\ Writers = {}
      BY <2>2, <2>4 DEF Writers
    <2>6. LastTurn' = LastTurn
      BY <1>2, <1>4, <2>3 DEF LastTurn
    <2> QED BY <1>6, <2>5, <2>6, SeenAlike
  <1> QED BY <1>7, <1>8, <1>9, <1>10, <1>11

LEMMA MaintenanceIsSeen ==
  ASSUME IInv, MakesLockDirectory \/ Retires \/ Purges
  PROVE  [Session!Next]_(Session!vars)
  <1>1. op.at \in {"maintain", "purging"} /\ UNCHANGED server
    BY DEF MakesLockDirectory, Retires, Purges, External, At
  <1>2. manifest # None /\ manifest \in Manifests /\ manifest.at \in Places
    BY <1>1, MaintainedIsApart DEF Manifests, Places
  <1>3. CASE MakesLockDirectory
    <2>1. Named = None /\ UNCHANGED manifest
      BY <1>3 DEF MakesLockDirectory
    <2>2. State = None
      BY <1>2, <2>1 DEF State
    <2>3. dirs'[manifest.at] = Directory(Initially({}), manifest.at)
      BY <1>2, <1>3 DEF MakesLockDirectory, Put, IInv, DiskInv, TypeInv
    <2>4. Names(Directory(Initially({}), manifest.at)) = {}
      BY DEF Names, Directory, Initially
    <2>5. State' = None
      BY <1>2, <2>1, <2>3, <2>4, PartsAssumption DEF State, Named, Names
    <2> QED BY <1>1, <2>1, <2>2, <2>5, ManifestIsSeen, SeenAlike
  <1>4. CASE Retires
    <2>1. ~Busy /\ UNCHANGED dirs /\ manifest' = [manifest EXCEPT !.retired = TRUE]
      BY <1>4 DEF Retires, MayMaintain
    <2>2. manifest' \in Manifests /\ manifest' # None
      BY <1>2, <2>1, ManifestChanges
    <2>3. /\ manifest'.at = manifest.at /\ manifest'.owner = manifest.owner /\ manifest'.retired
          /\ manifest'.turn = manifest.turn
      BY <1>2, <2>1 DEF Manifests
    <2>4. Writers = {} /\ Writers' = {}
      BY <1>1, <1>2, <2>1, <2>3 DEF Writers, Busy, Alive
    <2>5. State' = State /\ LastTurn' = LastTurn /\ Retired' = TRUE
      BY <1>2, <2>1, <2>2, <2>3, NamedStays DEF LastTurn, Retired
    <2>6. Session!Retires
      BY <2>4, <2>5 DEF Session!Retires, Writers, LastTurn, Retired
    <2> QED BY <2>6 DEF Session!Next
  <1>5. CASE Purges
    <2>1. op.at = "purging" /\ RemovesFrom(manifest.at) /\ UNCHANGED manifest
      BY <1>5 DEF Purges, At
    <2>2. Named # None /\ ~Busy /\ manifest.retired /\ manifest.turn # "asked"
      BY <1>2, <2>1 DEF IInv, AtInv, UseAt
    <2>3. PICK d \in Directories \cup {None} :
            /\ Put(manifest.at, d)
            /\ d # None => /\ d.index = Named.index /\ Names(d) \subseteq Names(Named)
                           /\ \A n \in Names(d) : d.entries[n] = Named.entries[n]
      BY <1>2, <2>1, <2>2, RemovalLeaves DEF Named, IInv, DiskInv
    <2>4. dirs'[manifest.at] = d
      BY <1>2, <2>3, PutTyped DEF IInv, DiskInv
    <2>5. Writers = {} /\ Writers' = Writers /\ Retired /\ LastTurn # "asked" /\ Retired' = Retired /\ LastTurn' = LastTurn
      BY <1>1, <1>2, <2>1, <2>2, ManifestIsSeen, NobodyWrites DEF Retired, LastTurn
    <2>6. CASE State' = None
      <3>1. Session!Purges
        BY <2>5, <2>6 DEF Session!Purges, Writers, LastTurn, Retired
      <3> QED BY <3>1 DEF Session!Next
    <2>7. CASE State' # None
      <3>1. /\ d # None /\ Parts \subseteq Names(d) /\ d.index = manifest.at
            /\ \A p, q \in Parts : d.entries[p] = d.entries[q]
            /\ State' = d.entries[One]
        BY <1>2, <2>1, <2>4, <2>7 DEF State, Named, Names, One
      <3>2. Whole(Named, manifest.at) /\ Named.entries[One] = d.entries[One]
        BY <2>2, <2>3, <3>1, OneIsPart DEF Whole
      <3>3. State' = State
        BY <1>2, <3>1, <3>2, StateIs
      <3> QED BY <2>5, <3>3, SeenAlike
    <2> QED BY <2>6, <2>7
  <1> QED BY <1>3, <1>4, <1>5

LEMMA ServersAreSeen ==
  ASSUME IInv, ServerWrites \/ ServerExits
  PROVE  [Session!Next]_(Session!vars)
  <1>1. CASE ServerWrites
    <2> DEFINE place == server[manifest.owner]
               d == dirs[place]
               f == [n \in Names(d) |-> d.entries[n] + (IF n \in Parts THEN 1 ELSE 0)]
    <2>1. /\ Busy /\ manifest.turn # "settled" /\ d # None /\ Put(place, [d EXCEPT !.entries = f])
          /\ UNCHANGED <<manifest, server>>
      BY <1>1 DEF ServerWrites, External
    <2>2. /\ manifest # None /\ manifest \in Manifests /\ ~manifest.retired
          /\ manifest.journal # "open" /\ place \in Places /\ place = manifest.at
      BY <2>1 DEF Busy, Alive, IInv, DiskInv, TypeInv, OwnerInv, Places
    <2>3. Whole(d, place)
      BY <2>2, PhasesAreApart
         DEF Opened, Switched, Unopened, Settled, Committed, Manifests, IInv, DiskInv, UnopenedDisk, SettledDisk
    <2>4. State = d.entries[One]
      BY <2>2, <2>3, StateIs DEF Named
    <2>5. d \in Directories
      BY <2>1, <2>2 DEF IInv, DiskInv, TypeInv
    <2>6. DOMAIN f = Names(d) /\ \A p \in Parts : f[p] = d.entries[One] + 1
      BY <2>3, OneIsPart DEF Whole
    <2> HIDE DEF f
    <2>7. dirs'[place] = [d EXCEPT !.entries = f]
      BY <2>1, <2>2 DEF Put, IInv, DiskInv, TypeInv
    <2>8. dirs'[place] # None /\ dirs'[place].entries = f /\ dirs'[place].index = place
      <3>1. dirs'[place].entries = f /\ dirs'[place].index = place
        BY <2>3, <2>5, <2>7 DEF Directories, Whole
      <3>2. dirs'[place] # None
        BY <1>1, <2>1, <2>2, <2>3, ServerWritesKeeps, PhasesAreApart, PhaseStays
           DEF Opened, Switched, Unopened, Settled, Committed, Manifests, IInv, DiskInv, UnopenedDisk,
               SettledDisk, Whole
      <3> QED BY <3>1, <3>2
    <2>9. State' = d.entries[One] + 1
      BY <2>1, <2>2, <2>3, <2>6, <2>8, OneIsPart DEF State, Named, Names, Whole, One
    <2>10. Writers' = Writers /\ Writers # {} /\ LastTurn # "settled" /\ LastTurn' = LastTurn /\ Retired' = Retired
      BY <2>1, <2>2, OwnerWrites, ManifestIsSeen DEF LastTurn
    <2>11. Session!Writes
      BY <2>4, <2>9, <2>10 DEF Session!Writes, Writers, LastTurn, Retired
    <2> QED BY <2>11 DEF Session!Next
  <1>2. CASE ServerExits
    <2>1. UNCHANGED <<manifest, dirs>>
      BY <1>2 DEF ServerExits
    <2>2. PICK n \in Servers : server' = [server EXCEPT ![n] = "ended"]
      BY <1>2 DEF ServerExits
    <2>3. \A m \in Servers : server'[m] = IF m = n THEN "ended" ELSE server[m]
      BY <2>2 DEF IInv, DiskInv, TypeInv
    <2>4. Writers' = Writers \ {n}
      BY <2>1, <2>3 DEF Writers, Busy, Alive, Places
    <2>5. State' = State
      BY <2>1 DEF State, Named, Names
    <2>6. Session!Ends(n)
      BY <2>1, <2>4, <2>5, ManifestIsSeen DEF Session!Ends, Writers, LastTurn, Retired
    <2>7. \E m \in Servers : Session!Starts(m) \/ Session!Ends(m)
      BY <2>6
    <2> QED BY <2>7 DEF Session!Next
  <1> QED BY <1>1, <1>2

LEMMA SessionBegins ==
  ASSUME Init
  PROVE  Session!Init
  <1>1. Writers \in SUBSET Servers /\ \A m, n \in Writers : m = n
    BY DEF Writers
  <1>2. LastTurn \in Outcomes /\ Retired \in BOOLEAN
    BY DEF LastTurn, Retired, Outcomes, Init, NewManifest
  <1>3. State = 0
    <2>1. CASE manifest = None
      BY <2>1 DEF State
    <2>2. CASE manifest # None
      <3>1. manifest.at = "old"
        BY <2>2 DEF Init, NewManifest
      <3>2. dirs["old"].entries[One] = 0 /\ Whole(dirs["old"], "old")
        BY <2>2, InitialSlot, OneIsPart DEF Init
      <3> QED BY <2>2, <3>1, <3>2, StateIs DEF Named
    <2> QED BY <2>1, <2>2
  <1> QED BY <1>1, <1>2, <1>3 DEF Session!Init, Writers, LastTurn, Retired, Outcomes

LEMMA SessionSteps ==
  ASSUME IInv, IInv', [Next]_vars
  PROVE  [Session!Next]_(Session!vars)
  <1>1. CASE \/ \E kind \in {"run", "migrate", "retire", "purge"} : Begins(kind)
             \/ RetiredIsRefused \/ MigrationIsRefused \/ StagingIsRefused \/ StorageIsRefused
             \/ BindingIsRefused \/ LeaseIsRefused \/ MaintenanceIsRefused
             \/ Stages \/ Proceeds \/ PurgeBegins \/ Dies
    BY <1>1, LockedStepsAreHidden
       DEF Begins, RetiredIsRefused, MigrationIsRefused, StagingIsRefused, StorageIsRefused, BindingIsRefused,
           LeaseIsRefused, MaintenanceIsRefused, Refuses, Stages, Proceeds, PurgeBegins, Dies, External
  <1>2. CASE LayoutIsCurrent
    BY <1>2, LockedStepsAreHidden DEF LayoutIsCurrent, Refuses, External
  <1>3. CASE MakesSlot \/ BindsSlot \/ ReplacesBinding \/ Acquires
    BY <1>3, MakingIsHidden, AcquiringIsHidden
  <1>4. CASE \/ ClearsStage \/ MakesStage \/ WritesMarker \/ ReplacesMarker \/ Copies \/ Seals
             \/ Publishes
    BY <1>4, StagingIsHidden
  <1>5. CASE \/ OpensJournal \/ SwitchesManifest \/ PutsOldAside \/ RemovesOld \/ CompletesJournal
    BY <1>5, JournalIsHidden, SwitchIsHidden, RemovalIsHidden
  <1>6. CASE Launches \/ RecordsOwner \/ AsksTurn \/ SettlesTurn \/ HoldsTurn \/ Closes \/ Releases
    BY <1>6, UseIsSeen
  <1>7. CASE MakesLockDirectory \/ Retires \/ Purges
    BY <1>7, MaintenanceIsSeen
  <1>8. CASE ServerWrites \/ ServerExits
    BY <1>8, ServersAreSeen
  <1>9. CASE UNCHANGED vars
    BY <1>9, LockedStepsAreHidden DEF vars
  <1> QED BY <1>1, <1>2, <1>3, <1>4, <1>5, <1>6, <1>7, <1>8, <1>9 DEF Next

\* ImplementsSession: through every migration, and whatever died on the way, the
\* slot is one native session, written by one recorded app-server at a time, that
\* loses no turn and disappears only when it is retired, settled and purged.
THEOREM RuntimeImplementsSession == Spec => ImplementsSession
  <1>1. Init => Session!Init
    BY SessionBegins
  <1>2. IInv /\ IInv' /\ [Next]_vars => [Session!Next]_(Session!vars)
    BY SessionSteps
  <1> QED BY <1>1, <1>2, RuntimeInvariant, PTL DEF Spec, ImplementsSession, Session!Spec

=============================================================================
