-------------------------- MODULE JobRegistryProofs --------------------------
(***************************************************************************)
(* Theorems about the module JobRegistry, for every set of jobs, keys and  *)
(* request bodies, every number of retained events and of deaths.          *)
(***************************************************************************)
EXTENDS JobRegistry, FiniteSetTheorems, TLAPS

\* A record that _validate accepts and append has trimmed.
Sound(rec) ==
  /\ rec \in Record /\ Valid(rec)
  /\ IsFiniteSet(rec.events) /\ Cardinality(rec.events) <= Keep

\* The events that a reader of the disk may find, or a client has.
Shown == seen \cup UNION {EventsOf(j, manifest[j]) : j \in Known(manifest)}

\* The disk can be loaded, and its cursor_floor is behind no identifier ...
DiskInv ==
  /\ AlwaysLoadable
  /\ \A j \in Known(manifest) : Sound(manifest[j]) /\ manifest[j].last <= floor

\* ... no event is later than its job's record, and identifiers are given once ...
EventsInv ==
  /\ \A e \in Shown : /\ e \in [id : Nat, job : Jobs, seq : Nat]
                      /\ manifest[e.job] # None
                      /\ e.seq <= manifest[e.job].seq /\ e.id <= manifest[e.job].last
  /\ \A e, f \in Shown :
       /\ e.id = f.id => e = f
       /\ e.job = f.job => (e.id < f.id <=> e.seq < f.seq)

\* ... the receipt that an answer was read from is on the disk ...
AnswersInv ==
  \A a \in answered : /\ manifest[a.job] # None
                      /\ manifest[a.job].key = a.key /\ manifest[a.job].digest = a.digest

\* ... the memory of a server that may write is what the disk says, but for the record
\* that is being committed, and that of one that failed has no receipt of its own ...
MemoryInv ==
  up # "down" =>
    /\ \A j \in Known(mem) : /\ manifest[j] # None
                             /\ manifest[j].key = mem[j].key /\ manifest[j].digest = mem[j].digest
    /\ ~failed => /\ \A j \in Known(mem) : mem[j].order <= order
                  /\ step # "commit" => mem = manifest /\ cursor = floor

\* The next version of a record, or the first one.
Follows(old, rec) ==
  \/ /\ old = None
     /\ rec.order = order + 1 /\ rec.seq = 0 /\ rec.last = 0 /\ rec.events = {}
     /\ rec.key # None => Holder(rec.key) = {}
  \/ /\ old # None
     /\ rec.order = old.order /\ rec.key = old.key /\ rec.digest = old.digest
     /\ old.state = "final" => rec.state = "final"
     /\ \/ rec.seq = old.seq /\ rec.last = old.last /\ rec.events = old.events
        \/ /\ rec.seq = old.seq + 1 /\ rec.last = cursor + 1
           /\ rec.events \subseteq old.events \cup {[id |-> rec.last, seq |-> rec.seq]}

\* ... and a write in flight is of such a version.
WriteInv ==
  step # "idle" =>
    /\ up # "down" /\ ~failed
    /\ write \in [job : Jobs, rec : Record] /\ Sound(write.rec)
    /\ step # "record" => Written \in files
    /\ IF step = "commit"
       THEN manifest = [mem EXCEPT ![write.job] = write.rec] /\ floor = NewCursor
       ELSE Follows(mem[write.job], write.rec)
    /\ up = "open" /\ write.rec.state \in Active => write.job \in mine

Types == DiskType /\ MemoryType /\ ClientType

RInv == /\ Types /\ DiskInv /\ EventsInv /\ AnswersInv /\ MemoryInv /\ WriteInv /\ NoGhostJobs

-----------------------------------------------------------------------------
(* Records *)

\* At most Keep events are kept: as many as have fewer than Keep later ones.
LEMMA TrimmedBound ==
  ASSUME NEW E \in SUBSET Events, IsFiniteSet(E), \A e, f \in E : e.id = f.id => e = f
  PROVE  /\ Trimmed(E) \subseteq E /\ IsFiniteSet(Trimmed(E))
         /\ Cardinality(Trimmed(E)) <= Keep
  <1> DEFINE After(e) == {f \in E : f.id > e.id}
             T == Trimmed(E)
             Ranks == 0 .. Keep - 1
             g == [e \in T |-> Cardinality(After(e))]
  <1>1. T \subseteq E /\ IsFiniteSet(T)
    BY FS_Subset DEF Trimmed
  <1>2. \A e \in E : IsFiniteSet(After(e)) /\ Cardinality(After(e)) \in Nat
    BY FS_Subset, FS_CardinalityType
  <1>3. Keep \in Nat \ {0}
    BY RegistryAssumption DEF RegistryAssumption
  <1>4. g \in [T -> Ranks]
    <2>1. \A n \in Nat : n < Keep => n \in Ranks
      BY <1>3
    <2>2. \A e \in T : Cardinality(After(e)) < Keep /\ Cardinality(After(e)) \in Nat
      BY <1>2 DEF Trimmed
    <2> HIDE DEF After, Ranks
    <2> QED BY <2>1, <2>2
  <1>5. \A e, f \in T : e # f => g[e] # g[f]
    <2>1. SUFFICES ASSUME NEW e \in T, NEW f \in T, e.id < f.id PROVE g[e] # g[f]
      <3>1. \A e \in T : e.id \in Nat
        BY <1>1 DEF Events
      <3>2. \A e, f \in T : e # f => e.id < f.id \/ f.id < e.id
        BY <1>1, <3>1
      <3> QED BY <2>1, <3>2
    <2>2. After(f) \subseteq After(e) /\ f \in After(e) /\ f \notin After(f)
      BY <1>1, <2>1 DEF Events
    <2>3. Cardinality(After(f)) # Cardinality(After(e))
      BY <1>1, <1>2, <2>2, FS_Subset
    <2> QED BY <2>3
  <1>6. IsFiniteSet(Ranks) /\ Cardinality(Ranks) = Keep
    BY <1>3, FS_Interval
  <1>7. ~(Cardinality(Ranks) < Cardinality(T))
    <2> HIDE DEF g, T, Ranks
    <2>1. Cardinality(Ranks) < Cardinality(T) => \E e, f \in T : e # f /\ g[e] = g[f]
      BY <1>1, <1>4, <1>6, FS_PigeonHole
    <2> QED BY <1>5, <2>1
  <1> QED BY <1>1, <1>3, <1>6, <1>7, FS_CardinalityType

\* The events of a sound record have one identifier each.
LEMMA SoundEvents ==
  ASSUME NEW rec, Sound(rec)
  PROVE  /\ rec.events \in SUBSET Events /\ rec.seq \in Nat /\ rec.last \in Nat
         /\ \A e, f \in rec.events : e.id = f.id => e = f
  <1>1. rec.events \in SUBSET Events /\ rec.seq \in Nat /\ rec.last \in Nat
    BY DEF Sound, Record
  <1>2. ASSUME NEW e \in rec.events, NEW f \in rec.events, e.id = f.id
        PROVE  e = f
    <2>1. e \in Events /\ f \in Events
      BY <1>1
    <2>2. ~(e.id < f.id) /\ ~(f.id < e.id)
      BY <1>2, <2>1 DEF Events
    <2>3. ~(e.seq < f.seq) /\ ~(f.seq < e.seq)
      BY <1>2, <2>1, <2>2 DEF Sound, Valid
    <2> QED BY <1>2, <2>1, <2>3 DEF Events
  <1> QED BY <1>1, <1>2

\* A first record, and another state of one.
LEMMA FreshIsSound ==
  ASSUME order \in Nat, NEW k \in Keys \cup {None}, NEW d \in Digests \cup {None},
         k # None => d # None
  PROVE  Sound([order |-> order + 1, state |-> "starting", seq |-> 0, last |-> 0,
                events |-> {}, key |-> k, digest |-> d])
  <1> DEFINE rec == [order |-> order + 1, state |-> "starting", seq |-> 0, last |-> 0,
                     events |-> {}, key |-> k, digest |-> d]
  <1>1. rec \in Record
    BY DEF Record, Active
  <1>2. IsFiniteSet(rec.events) /\ Cardinality(rec.events) <= Keep
    BY RegistryAssumption, FS_EmptySet DEF RegistryAssumption
  <1>3. Valid(rec)
    BY DEF Valid
  <1> QED BY <1>1, <1>2, <1>3 DEF Sound

LEMMA SavedIsSound ==
  ASSUME NEW rec, Sound(rec), NEW s \in Active \cup {"final"}
  PROVE  Sound([rec EXCEPT !.state = s])
  <1> DEFINE new == [rec EXCEPT !.state = s]
  <1>1. new \in Record
    BY DEF Sound, Record
  <1>2. /\ new.events = rec.events /\ new.seq = rec.seq /\ new.last = rec.last
        /\ new.key = rec.key /\ new.digest = rec.digest
    BY DEF Sound, Record
  <1> HIDE DEF new
  <1>3. Sound(new)
    BY <1>1, <1>2 DEF Sound, Valid
  <1> QED BY <1>3 DEF new

\* A record with one more event.
AppendedTo(rec) ==
  LET e == [id |-> cursor + 1, seq |-> rec.seq + 1]
  IN  [rec EXCEPT !.seq = e.seq, !.last = e.id, !.events = Trimmed(@ \cup {e})]

LEMMA ExceptFields ==
  ASSUME NEW rec \in Record, NEW a, NEW b, NEW E
  PROVE  [rec EXCEPT !.seq = a, !.last = b, !.events = E] =
           [order |-> rec.order, state |-> rec.state, seq |-> a, last |-> b,
            events |-> E, key |-> rec.key, digest |-> rec.digest]
  <1> DEFINE one == [order |-> rec.order, state |-> rec.state, seq |-> a, last |-> rec.last,
                     events |-> rec.events, key |-> rec.key, digest |-> rec.digest]
             two == [order |-> rec.order, state |-> rec.state, seq |-> a, last |-> b,
                     events |-> rec.events, key |-> rec.key, digest |-> rec.digest]
  <1>1. [rec EXCEPT !.seq = a] = one
    BY DEF Record
  <1>2. [one EXCEPT !.last = b] = two
    OBVIOUS
  <1>3. [two EXCEPT !.events = E] =
          [order |-> rec.order, state |-> rec.state, seq |-> a, last |-> b,
           events |-> E, key |-> rec.key, digest |-> rec.digest]
    OBVIOUS
  <1>4. [rec EXCEPT !.seq = a, !.last = b, !.events = E] =
          [[[rec EXCEPT !.seq = a] EXCEPT !.last = b] EXCEPT !.events = E]
    BY DEF Record
  <1> HIDE DEF one, two
  <1> QED BY <1>1, <1>2, <1>3, <1>4

LEMMA AppendedFields ==
  ASSUME NEW rec, rec \in Record
  PROVE  AppendedTo(rec) =
           [order |-> rec.order, state |-> rec.state, seq |-> rec.seq + 1, last |-> cursor + 1,
            events |-> Trimmed(rec.events \cup {[id |-> cursor + 1, seq |-> rec.seq + 1]}),
            key |-> rec.key, digest |-> rec.digest]
  <1> DEFINE e == [id |-> cursor + 1, seq |-> rec.seq + 1]
             E == Trimmed(rec.events \cup {e})
  <1>1. AppendedTo(rec) = [rec EXCEPT !.seq = e.seq, !.last = e.id, !.events = E]
    BY DEF AppendedTo
  <1>2. e.seq = rec.seq + 1 /\ e.id = cursor + 1
    OBVIOUS
  <1> HIDE DEF E
  <1>3. \A a, b : [rec EXCEPT !.seq = a, !.last = b, !.events = E] =
                    [order |-> rec.order, state |-> rec.state, seq |-> a, last |-> b,
                     events |-> E, key |-> rec.key, digest |-> rec.digest]
    BY ExceptFields, Zenon
  <1>4. AppendedTo(rec) =
          [order |-> rec.order, state |-> rec.state, seq |-> e.seq, last |-> e.id,
           events |-> E, key |-> rec.key, digest |-> rec.digest]
    <2> HIDE DEF e
    <2> QED BY <1>1, <1>3, Zenon
  <1> QED BY <1>2, <1>4 DEF E

LEMMA AppendedIsSound ==
  ASSUME NEW rec, Sound(rec), cursor \in Nat, rec.last <= cursor
  PROVE  /\ Sound(AppendedTo(rec))
         /\ AppendedTo(rec).events \subseteq
              rec.events \cup {[id |-> cursor + 1, seq |-> rec.seq + 1]}
  <1> DEFINE new == AppendedTo(rec)
             e   == [id |-> cursor + 1, seq |-> rec.seq + 1]
             E   == rec.events \cup {e}
  <1>1. /\ rec \in Record /\ rec.events \in SUBSET Events /\ rec.seq \in Nat /\ rec.last \in Nat
        /\ \A f, h \in rec.events : f.id = h.id => f = h
    BY SoundEvents DEF Sound
  <1>2. \A f \in rec.events : f.id \in Nat /\ f.seq \in Nat /\ f.id <= cursor /\ f.seq <= rec.seq
    BY <1>1 DEF Sound, Valid, Events
  <1>3. E \in SUBSET Events /\ IsFiniteSet(E)
    <2>1. e \in Events
      BY <1>1 DEF Events
    <2>2. IsFiniteSet(E)
      <3> HIDE DEF e
      <3> QED BY FS_AddElement DEF Sound
    <2> QED BY <1>1, <2>1, <2>2
  <1>4. \A f, h \in E : f.id = h.id => f = h
    <2>1. \A f \in rec.events : f.id # e.id
      BY <1>2
    <2> QED BY <1>1, <2>1
  <1>5. Trimmed(E) \subseteq E /\ IsFiniteSet(Trimmed(E)) /\ Cardinality(Trimmed(E)) <= Keep
    BY <1>3, <1>4, TrimmedBound
  <1>6. /\ new.seq = rec.seq + 1 /\ new.last = cursor + 1 /\ new.events = Trimmed(E)
        /\ new.key = rec.key /\ new.digest = rec.digest
        /\ new = [order |-> rec.order, state |-> rec.state, seq |-> rec.seq + 1,
                  last |-> cursor + 1, events |-> Trimmed(E), key |-> rec.key, digest |-> rec.digest]
    BY <1>1, AppendedFields
  <1>7. new \in Record
    BY <1>1, <1>3, <1>5, <1>6 DEF Record
  <1>8. \A f, h \in E : f.id < h.id <=> f.seq < h.seq
    BY SMTT(30), <1>1, <1>2 DEF Sound, Valid
  <1>9. \A f \in E : f.seq <= rec.seq + 1 /\ f.id <= cursor + 1
    BY <1>1, <1>2
  <1> HIDE DEF new, E
  <1>10. Valid(new)
    BY <1>1, <1>5, <1>6, <1>8, <1>9 DEF Sound, Valid
  <1> QED BY <1>5, <1>6, <1>7, <1>10 DEF Sound, new, E

-----------------------------------------------------------------------------
(* The replacement of the manifest *)

\* What the step from a record to its next version, or to its first, changes.
Grows(old, new) ==
  /\ new # None
  /\ new.order = old.order /\ new.key = old.key /\ new.digest = old.digest
  /\ new.seq >= old.seq /\ new.last >= old.last
  /\ old.state = "final" => new.state = "final"

\* What the writer knows when it replaces the manifest.
LEMMA SwitchFacts ==
  ASSUME RInv, step = "manifest"
  PROVE  /\ mem = manifest /\ cursor = floor /\ cursor \in Nat /\ order \in Nat
         /\ \A i \in Known(manifest) : manifest[i].order <= order
         /\ write.job \in Jobs /\ write.rec \in Record /\ write.rec # None /\ Sound(write.rec)
         /\ Written \in files
         /\ Follows(manifest[write.job], write.rec)
         /\ manifest \in [Jobs -> Record \cup {None}]
  BY NoneAssumption DEF RInv, Types, DiskType, MemoryType, MemoryInv, WriteInv, NoneAssumption

LEMMA SwitchGrows ==
  ASSUME RInv, step = "manifest", Switched
  PROVE  /\ manifest' = [manifest EXCEPT ![write.job] = write.rec]
         /\ \A j \in Known(manifest) : Grows(manifest[j], manifest'[j])
         /\ floor' \in Nat /\ floor <= floor' /\ write.rec.last <= floor'
  <1>1. manifest' = [manifest EXCEPT ![write.job] = write.rec]
    BY SwitchFacts DEF Switched
  <1>2. ASSUME NEW j \in Known(manifest)
        PROVE  Grows(manifest[j], manifest'[j])
    <2>1. j \in Jobs /\ manifest[j] # None /\ manifest[j] \in Record
      BY SwitchFacts DEF Known
    <2>2. /\ manifest[j].seq \in Nat /\ manifest[j].last \in Nat
          /\ manifest[j].last <= floor
      BY <2>1, <1>2 DEF RInv, DiskInv, Record
    <2>3. CASE j # write.job
      BY <1>1, <2>1, <2>2, <2>3, SwitchFacts DEF Grows
    <2>4. CASE j = write.job
      <3>1. manifest'[j] = write.rec
        BY <1>1, <2>1, <2>4, SwitchFacts
      <3> QED BY <2>1, <2>2, <2>4, <3>1, SwitchFacts DEF Grows, Follows
    <2> QED BY <2>3, <2>4
  <1>3. floor' \in Nat /\ floor <= floor' /\ write.rec.last <= floor'
    <2>1. write.rec.last \in Nat
      BY SwitchFacts DEF Record
    <2> QED BY <2>1, SwitchFacts DEF Switched, NewCursor, Later
  <1> QED BY <1>1, <1>2, <1>3

LEMMA SwitchDisk ==
  ASSUME RInv, step = "manifest", Switched, files' = files
  PROVE  DiskInv' /\ DiskType'
  <1> DEFINE j == write.job
             r == write.rec
  <1>1. /\ manifest' = [manifest EXCEPT ![j] = r]
        /\ floor' \in Nat /\ floor <= floor' /\ r.last <= floor'
        /\ j \in Jobs /\ r \in Record /\ r # None /\ Sound(r) /\ Follows(manifest[j], r)
        /\ manifest \in [Jobs -> Record \cup {None}]
    BY SwitchFacts, SwitchGrows
  <1>2. /\ manifest'[j] = r
        /\ \A k \in Jobs : k # j => manifest'[k] = manifest[k]
        /\ Known(manifest)' = Known(manifest) \cup {j}
        /\ manifest' \in [Jobs -> Record \cup {None}]
    BY <1>1 DEF Known
  <1>3. DiskType'
    BY <1>1, <1>2 DEF RInv, Types, DiskType
  <1>4. ASSUME NEW k \in Known(manifest)'
        PROVE  /\ [job |-> k, rec |-> manifest'[k]] \in files'
               /\ Sound(manifest'[k]) /\ manifest'[k].last <= floor'
    <2>1. CASE k = j
      BY <1>1, <1>2, <2>1, SwitchFacts DEF Written
    <2>2. CASE k # j
      <3>1. k \in Known(manifest) /\ k \in Jobs /\ manifest'[k] = manifest[k]
        BY <1>2, <2>2 DEF Known
      <3>2. /\ [job |-> k, rec |-> manifest[k]] \in files
            /\ Sound(manifest[k]) /\ manifest[k].last <= floor
        BY <3>1 DEF RInv, DiskInv, AlwaysLoadable, Loadable
      <3>3. manifest[k].last \in Nat /\ floor \in Nat
        BY <3>2, SwitchFacts DEF Sound, Record
      <3> QED BY <1>1, <3>1, <3>2, <3>3
    <2> QED BY <2>1, <2>2
  <1>5. ASSUME NEW k \in Known(manifest), k # j
        PROVE  /\ manifest[k].order # r.order
               /\ manifest[k].key # None => manifest[k].key # r.key
               /\ \A e \in manifest[k].events, f \in r.events : e.id # f.id
    <2>1. k \in Jobs /\ manifest[k] \in Record /\ Sound(manifest[k]) /\ manifest[k].last <= floor
      BY <1>5, <1>1 DEF Known, RInv, DiskInv
    <2>2. /\ \A e \in manifest[k].events : e.id \in Nat /\ e.id <= floor
          /\ manifest[k].order \in Nat /\ manifest[k].order <= order
      <3>1. \A e \in manifest[k].events : e.id \in Nat /\ e.id <= manifest[k].last
        BY <2>1 DEF Sound, Valid, Record, Events
      <3> QED BY <1>5, <2>1, <3>1, SwitchFacts DEF Record
    <2>3. CASE manifest[j] = None
      <3>1. r.order = order + 1 /\ r.events = {} /\ (r.key # None => Holder(r.key) = {})
        BY <1>1, <2>3 DEF Follows
      <3>2. manifest[k].key # None => manifest[k].key # r.key
        BY <1>5, <2>1, <3>1, SwitchFacts DEF Holder
      <3> QED BY <2>2, <3>1, <3>2, SwitchFacts
    <2>4. CASE manifest[j] # None
      <3>1. /\ r.order = manifest[j].order /\ r.key = manifest[j].key
            /\ \/ r.events = manifest[j].events
               \/ r.last = cursor + 1
                  /\ r.events \subseteq manifest[j].events \cup {[id |-> r.last, seq |-> r.seq]}
        BY <1>1, <2>4 DEF Follows
      <3>2. j \in Known(manifest)
        BY <1>1, <2>4 DEF Known
      <3>3. /\ manifest[k].order # manifest[j].order
            /\ manifest[k].key # None => manifest[k].key # manifest[j].key
            /\ \A e \in manifest[k].events, f \in manifest[j].events : e.id # f.id
        BY <1>5, <3>2 DEF RInv, DiskInv, AlwaysLoadable, Loadable
      <3>4. \A e \in manifest[k].events : r.last = cursor + 1 => e.id # r.last
        BY <2>2, SwitchFacts
      <3> QED BY <3>1, <3>3, <3>4
    <2> QED BY <2>3, <2>4
  <1>6. ASSUME NEW i \in Known(manifest)', NEW k \in Known(manifest)', i # k
        PROVE  /\ manifest'[i].order # manifest'[k].order
               /\ manifest'[i].key # None => manifest'[i].key # manifest'[k].key
               /\ \A e \in manifest'[i].events, f \in manifest'[k].events : e.id # f.id
    <2>1. CASE i = j
      BY <1>2, <1>5, <1>6, <2>1 DEF Known
    <2>2. CASE k = j
      BY <1>2, <1>5, <1>6, <2>2 DEF Known
    <2>3. CASE i # j /\ k # j
      <3>1. i \in Known(manifest) /\ k \in Known(manifest)
            /\ manifest'[i] = manifest[i] /\ manifest'[k] = manifest[k]
        BY <1>2, <2>3 DEF Known
      <3> QED BY <1>6, <3>1 DEF RInv, DiskInv, AlwaysLoadable, Loadable
    <2> QED BY <2>1, <2>2, <2>3
  <1>7. AlwaysLoadable'
    BY <1>4, <1>6 DEF AlwaysLoadable, Loadable, Sound, Known
  <1> QED BY <1>3, <1>4, <1>7 DEF DiskInv

\* The event, if any, that the new version adds is later than all that were shown.
LEMMA SwitchEvents ==
  ASSUME RInv, step = "manifest", Switched, seen' = seen
  PROVE  EventsInv'
  <1> DEFINE j == write.job
             r == write.rec
             new == [id |-> cursor + 1, job |-> j, seq |-> r.seq]
  <1>1. /\ manifest' = [manifest EXCEPT ![j] = r]
        /\ j \in Jobs /\ r \in Record /\ r # None /\ Sound(r) /\ Follows(manifest[j], r)
        /\ manifest \in [Jobs -> Record \cup {None}]
        /\ cursor = floor /\ cursor \in Nat
        /\ \A k \in Known(manifest) : Grows(manifest[k], manifest'[k])
    BY SwitchFacts, SwitchGrows
  <1>2. /\ manifest'[j] = r
        /\ \A k \in Jobs : k # j => manifest'[k] = manifest[k]
        /\ Known(manifest)' = Known(manifest) \cup {j}
    BY <1>1 DEF Known
  <1>3. ASSUME NEW e \in Shown
        PROVE  /\ e \in [id : Nat, job : Jobs, seq : Nat]
               /\ manifest'[e.job] # None
               /\ e.seq <= manifest'[e.job].seq /\ e.id <= manifest'[e.job].last
               /\ e.id <= floor
               /\ e.job = j => manifest[j] # None /\ e.seq <= manifest[j].seq
    <2>1. /\ e \in [id : Nat, job : Jobs, seq : Nat] /\ manifest[e.job] # None
          /\ e.seq <= manifest[e.job].seq /\ e.id <= manifest[e.job].last
      BY <1>3 DEF RInv, EventsInv
    <2>2. e.job \in Known(manifest) /\ manifest[e.job] \in Record
      BY <1>1, <2>1 DEF Known
    <2>3. Grows(manifest[e.job], manifest'[e.job]) /\ manifest[e.job].last <= floor
      BY <1>1, <2>2 DEF RInv, DiskInv
    <2>4. manifest'[e.job] \in Record
      BY <1>1, <1>2, <2>1, <2>2
    <2> QED BY <1>1, <2>1, <2>2, <2>3, <2>4 DEF Grows, Record
  <1>4. CASE Shown' \subseteq Shown
    BY <1>3, <1>4 DEF RInv, EventsInv
  <1>5. CASE /\ Shown' \subseteq Shown \cup {new}
             /\ manifest[j] # None /\ r.seq = manifest[j].seq + 1 /\ r.last = cursor + 1
    <2>1. /\ new \in [id : Nat, job : Jobs, seq : Nat]
          /\ manifest[j] \in Record /\ manifest[j].seq \in Nat
      BY <1>1, <1>5 DEF Record
    <2>2. \A e \in Shown : e.id < new.id /\ (e.job = j => e.seq < new.seq)
      BY <1>1, <1>3, <1>5, <2>1
    <2>3. \A e \in Shown : e.id \in Nat /\ e.seq \in Nat
      BY <1>3
    <2>4. new.id = manifest'[new.job].last /\ new.seq = manifest'[new.job].seq /\ new.job = j
      BY <1>2, <1>5
    <2>5. new.id \in Nat /\ new.seq \in Nat
      BY <2>1
    <2> HIDE DEF new
    <2>6. ASSUME NEW e \in Shown'
          PROVE  /\ e \in [id : Nat, job : Jobs, seq : Nat] /\ manifest'[e.job] # None
                 /\ e.seq <= manifest'[e.job].seq /\ e.id <= manifest'[e.job].last
      BY <1>1, <1>2, <1>3, <1>5, <2>1, <2>4, <2>5, <2>6
    <2>7. ASSUME NEW e \in Shown', NEW f \in Shown'
          PROVE  /\ e.id = f.id => e = f
                 /\ e.job = f.job => (e.id < f.id <=> e.seq < f.seq)
      <3>1. CASE e \in Shown /\ f \in Shown
        BY <3>1 DEF RInv, EventsInv
      <3>2. CASE e = new /\ f \in Shown
        BY <2>2, <2>3, <2>4, <2>5, <3>2
      <3>3. CASE e \in Shown /\ f = new
        BY <2>2, <2>3, <2>4, <2>5, <3>3
      <3>4. CASE e = new /\ f = new
        BY <2>5, <3>4
      <3> QED BY <1>5, <2>7, <3>1, <3>2, <3>3, <3>4
    <2> QED BY <2>6, <2>7 DEF EventsInv
  <1>6. \A k \in Jobs : k # j /\ k \in Known(manifest) => EventsOf(k, manifest'[k]) \subseteq Shown
    BY <1>2 DEF Shown
  <1>7. CASE manifest[j] = None \/ r.events = manifest[j].events
    <2>1. EventsOf(j, r) \subseteq Shown
      BY <1>1, <1>7 DEF EventsOf, Follows, Shown, Known
    <2>2. Shown' \subseteq Shown
      BY <1>2, <1>6, <2>1 DEF Shown, Known
    <2> QED BY <1>4, <2>2
  <1>8. CASE /\ manifest[j] # None /\ r.seq = manifest[j].seq + 1 /\ r.last = cursor + 1
             /\ r.events \subseteq manifest[j].events \cup {[id |-> r.last, seq |-> r.seq]}
    <2>1. EventsOf(j, r) \subseteq EventsOf(j, manifest[j]) \cup {new}
      BY <1>8 DEF EventsOf
    <2>2. EventsOf(j, manifest[j]) \subseteq Shown
      BY <1>1, <1>8 DEF Shown, Known
    <2>3. Shown' \subseteq Shown \cup {new}
      BY <1>2, <1>6, <2>1, <2>2 DEF Shown, Known
    <2> QED BY <1>5, <1>8, <2>3
  <1> QED BY <1>1, <1>7, <1>8 DEF Follows

LEMMA SwitchAnswers ==
  ASSUME RInv, step = "manifest", Switched, answered' = answered
  PROVE  AnswersInv'
  <1>1. ASSUME NEW a \in answered
        PROVE  /\ manifest'[a.job] # None
               /\ manifest'[a.job].key = a.key /\ manifest'[a.job].digest = a.digest
    <2>1. /\ a.job \in Jobs /\ manifest[a.job] # None
          /\ manifest[a.job].key = a.key /\ manifest[a.job].digest = a.digest
      BY DEF RInv, AnswersInv, Types, ClientType
    <2>2. Grows(manifest[a.job], manifest'[a.job])
      BY <2>1, SwitchGrows DEF Known
    <2> QED BY <2>1, <2>2 DEF Grows
  <1> QED BY <1>1 DEF AnswersInv

-----------------------------------------------------------------------------
(* Every action keeps the invariant *)

LEMMA InitInv == ASSUME Init PROVE RInv
  <1>1. Types
    <2>1. DiskType
      BY DEF Init, DiskType
    <2>2. MemoryType
      BY DEF Init, MemoryType
    <2>3. ClientType
      BY RegistryAssumption DEF Init, ClientType, RegistryAssumption
    <2> QED BY <2>1, <2>2, <2>3 DEF Types
  <1>2. Known(manifest) = {} /\ Shown = {}
    BY DEF Init, Known, Shown
  <1> QED BY <1>1, <1>2 DEF Init, RInv, DiskInv, AlwaysLoadable, Loadable, EventsInv, AnswersInv,
             MemoryInv, WriteInv, NoGhostJobs, Known

\* A write may begin if its record is sound and the next version of the job's.
LEMMA BeginInv ==
  ASSUME RInv, NEW j \in Jobs, NEW rec \in Record, Writes(j, rec), up # "down",
         Sound(rec), Follows(mem[j], rec), mine \subseteq mine', mine' \subseteq Jobs,
         up = "open" /\ rec.state \in Active => j \in mine'
  PROVE  RInv'
  <1>1. /\ step = "idle" /\ ~failed /\ write' = [job |-> j, rec |-> rec] /\ step' = "record"
        /\ UNCHANGED <<manifest, floor, files, up, failed, mem, cursor, order, seen, answered, deaths>>
    BY DEF Writes, disk, client
  <1>2. Types'
    BY <1>1 DEF RInv, Types, DiskType, MemoryType, ClientType
  <1>3. DiskInv'
    BY <1>1 DEF RInv, DiskInv, AlwaysLoadable, Loadable, Known
  <1>4. EventsInv'
    BY <1>1 DEF RInv, EventsInv, Shown, Known
  <1>5. AnswersInv'
    BY <1>1 DEF RInv, AnswersInv
  <1>6. MemoryInv'
    BY <1>1 DEF RInv, MemoryInv, Known
  <1>7. WriteInv'
    <2>1. write'.job = j /\ write'.rec = rec /\ write' \in [job : Jobs, rec : Record]
      BY <1>1
    <2>2. Follows(mem[write.job], write.rec)'
      <3>1. mem'[write'.job] = mem[j]
        BY <1>1, <2>1
      <3>2. Holder(rec.key)' = Holder(rec.key)
        BY <1>1 DEF Holder, Known
      <3> QED BY <1>1, <2>1, <3>1, <3>2 DEF Follows
    <2> QED BY <1>1, <2>1, <2>2 DEF WriteInv
  <1>8. NoGhostJobs'
    BY <1>1 DEF RInv, NoGhostJobs, Known
  <1> QED BY <1>2, <1>3, <1>4, <1>5, <1>6, <1>7, <1>8 DEF RInv

\* What is in memory when nothing is being written and no write has failed.
LEMMA IdleFacts ==
  ASSUME RInv, up # "down", ~failed, step # "commit"
  PROVE  /\ mem = manifest /\ cursor = floor /\ cursor \in Nat /\ order \in Nat /\ mine \subseteq Jobs
         /\ \A j \in Jobs : mem[j] # None =>
              /\ mem[j] \in Record /\ Sound(mem[j]) /\ mem[j].last <= cursor
  BY DEF RInv, Types, DiskType, MemoryType, MemoryInv, DiskInv, Known

LEMMA ReserveInv ==
  ASSUME RInv, NEW j \in Jobs, NEW k \in Keys \cup {None}, NEW d \in Digests \cup {None},
         k # None => d # None, Reserve(j, k, d)
  PROVE  RInv'
  <1> DEFINE rec == [order |-> order + 1, state |-> "starting", seq |-> 0, last |-> 0,
                     events |-> {}, key |-> k, digest |-> d]
  <1>1. /\ up = "open" /\ mem[j] = None /\ (k # None => Holder(k) = {})
        /\ Writes(j, rec) /\ mine' = mine \cup {j}
    BY DEF Reserve
  <1>2. step = "idle" /\ ~failed /\ mem = manifest /\ order \in Nat /\ mine \subseteq Jobs
    BY <1>1, IdleFacts DEF Writes
  <1>3. Sound(rec) /\ rec \in Record
    BY <1>2, FreshIsSound DEF Sound
  <1>4. Follows(mem[j], rec)
    BY <1>1 DEF Follows
  <1> HIDE DEF rec
  <1> QED BY <1>1, <1>2, <1>3, <1>4, BeginInv

\* Another state of a record.
LEMMA OtherStateInv ==
  ASSUME RInv, NEW j \in Jobs, NEW s \in Active \cup {"final"}, up # "down",
         mem[j] # None, mem[j].state \in Active, Writes(j, [mem[j] EXCEPT !.state = s]),
         mine' = mine
  PROVE  RInv'
  <1> DEFINE rec == [mem[j] EXCEPT !.state = s]
  <1>1. step = "idle" /\ ~failed
    BY DEF Writes
  <1>2. mem[j] \in Record /\ Sound(mem[j]) /\ mine \subseteq Jobs
    BY <1>1, IdleFacts
  <1>3. Sound(rec) /\ rec \in Record
    BY <1>2, SavedIsSound DEF Sound
  <1>4. /\ rec.order = mem[j].order /\ rec.key = mem[j].key /\ rec.digest = mem[j].digest
        /\ rec.seq = mem[j].seq /\ rec.last = mem[j].last /\ rec.events = mem[j].events
    BY <1>2 DEF Record
  <1>5. mem[j].state # "final"
    BY DEF Active
  <1>6. Follows(mem[j], rec)
    BY <1>4, <1>5 DEF Follows
  <1>7. up = "open" => j \in mine
    BY DEF RInv, NoGhostJobs, Known
  <1> HIDE DEF rec
  <1> QED BY <1>2, <1>3, <1>6, <1>7, BeginInv DEF rec

LEMMA SaveInv ==
  ASSUME RInv, NEW j \in Jobs, Save(j, "running") \/ Save(j, "final") \/ Abandon(j)
  PROVE  RInv'
  BY OtherStateInv DEF Save, Abandon, Stale, Active

LEMMA AppendInv == ASSUME RInv, NEW j \in Jobs, Append(j) PROVE RInv'
  <1> DEFINE rec == AppendedTo(mem[j])
  <1>1. up = "open" /\ mem[j] # None /\ Writes(j, rec) /\ mine' = mine
    BY DEF Append, AppendedTo
  <1>2. step = "idle" /\ ~failed
    BY <1>1 DEF Writes
  <1>3. mem[j] \in Record /\ Sound(mem[j]) /\ mem[j].last <= cursor /\ cursor \in Nat /\ mine \subseteq Jobs
    BY <1>1, <1>2, IdleFacts
  <1>4. /\ Sound(rec) /\ rec \in Record
        /\ rec.events \subseteq mem[j].events \cup {[id |-> cursor + 1, seq |-> mem[j].seq + 1]}
    BY <1>3, AppendedIsSound DEF Sound
  <1>5. /\ rec.order = mem[j].order /\ rec.state = mem[j].state /\ rec.key = mem[j].key
        /\ rec.digest = mem[j].digest /\ rec.seq = mem[j].seq + 1 /\ rec.last = cursor + 1
    <2> DEFINE E == Trimmed(mem[j].events \cup {[id |-> cursor + 1, seq |-> mem[j].seq + 1]})
    <2>1. rec = [order |-> mem[j].order, state |-> mem[j].state, seq |-> mem[j].seq + 1,
                 last |-> cursor + 1, events |-> E, key |-> mem[j].key, digest |-> mem[j].digest]
      BY <1>3, AppendedFields
    <2> HIDE DEF rec, E
    <2> QED BY <2>1
  <1>6. Follows(mem[j], rec)
    BY <1>1, <1>4, <1>5 DEF Follows
  <1>7. rec.state \in Active => j \in mine
    BY <1>1, <1>5 DEF RInv, NoGhostJobs, Known
  <1> HIDE DEF rec
  <1> QED BY <1>1, <1>3, <1>4, <1>6, <1>7, BeginInv

LEMMA RepeatInv ==
  ASSUME RInv, NEW k \in Keys, NEW d \in Digests, Repeat(k, d)
  PROVE  RInv'
  <1>1. PICK j \in Holder(k) :
          /\ mem[j].digest = d
          /\ answered' = answered \cup {[key |-> k, digest |-> d, job |-> j]}
    BY DEF Repeat
  <1>2. up # "down"
        /\ UNCHANGED <<manifest, floor, files, up, failed, mem, cursor, order, mine, write, step, seen, deaths>>
    BY DEF Repeat, disk, memory
  <1>3. j \in Known(mem) /\ j \in Jobs /\ mem[j].key = k
    BY DEF Holder, Known
  <1>4. Types'
    BY <1>1, <1>2, <1>3 DEF RInv, Types, DiskType, MemoryType, ClientType
  <1>5. AnswersInv'
    <2>1. manifest[j] # None /\ manifest[j].key = k /\ manifest[j].digest = d
      BY <1>1, <1>2, <1>3 DEF RInv, MemoryInv
    <2> QED BY <1>1, <1>2, <2>1 DEF RInv, AnswersInv
  <1>6. DiskInv' /\ EventsInv'
    BY <1>2 DEF RInv, DiskInv, AlwaysLoadable, Loadable, EventsInv, Shown, Known
  <1>7. MemoryInv' /\ NoGhostJobs'
    BY <1>2 DEF RInv, MemoryInv, NoGhostJobs, Known
  <1>8. WriteInv'
    BY <1>2 DEF RInv, WriteInv, Written, NewCursor, Follows, Holder, Known
  <1> QED BY <1>4, <1>5, <1>6, <1>7, <1>8 DEF RInv

\* More files on the disk.
LEMMA FilesAdded ==
  ASSUME RInv, write \in [job : Jobs, rec : Record], files' \in {files, files \cup {Written}},
         UNCHANGED <<manifest, floor>>
  PROVE  DiskInv' /\ DiskType'
  <1>1. Written \in [job : Jobs, rec : Record]
    BY DEF Written
  <1>2. DiskType'
    BY <1>1 DEF RInv, Types, DiskType
  <1> QED BY <1>2 DEF RInv, DiskInv, AlwaysLoadable, Loadable, Known

LEMMA WriteRecordInv == ASSUME RInv, WriteRecord PROVE RInv'
  <1>1. /\ step = "record" /\ step' = "manifest" /\ files' = files \cup {Written}
        /\ UNCHANGED <<manifest, floor, up, failed, mem, cursor, order, mine, write, seen, answered, deaths>>
    BY DEF WriteRecord, memory, client
  <1>2. write \in [job : Jobs, rec : Record]
    BY <1>1 DEF RInv, WriteInv
  <1>3. DiskInv' /\ DiskType'
    BY <1>1, <1>2, FilesAdded
  <1>4. Types'
    BY <1>1, <1>3 DEF RInv, Types, MemoryType, ClientType
  <1>5. EventsInv' /\ AnswersInv'
    BY <1>1 DEF RInv, EventsInv, AnswersInv, Shown, Known
  <1>6. MemoryInv' /\ NoGhostJobs'
    BY <1>1 DEF RInv, MemoryInv, NoGhostJobs, Known
  <1>7. WriteInv'
    BY <1>1 DEF RInv, WriteInv, Written, Follows, Holder, Known
  <1> QED BY <1>3, <1>4, <1>5, <1>6, <1>7 DEF RInv

LEMMA SwitchInv == ASSUME RInv, SwitchManifest PROVE RInv'
  <1>1. /\ step = "manifest" /\ step' = "commit" /\ Switched
        /\ UNCHANGED <<files, up, failed, mem, cursor, order, mine, write, seen, answered, deaths>>
    BY DEF SwitchManifest, memory, client
  <1>2. DiskInv' /\ DiskType' /\ EventsInv' /\ AnswersInv'
    BY <1>1, SwitchDisk, SwitchEvents, SwitchAnswers
  <1>3. Types'
    BY <1>1, <1>2 DEF RInv, Types, MemoryType, ClientType
  <1>4. MemoryInv'
    <2>1. /\ \A j \in Known(mem) : j \in Jobs /\ Grows(mem[j], manifest'[j])
          /\ up # "down" /\ ~failed /\ \A i \in Known(mem) : mem[i].order <= order
      BY <1>1, SwitchFacts, SwitchGrows DEF RInv, WriteInv, Known
    <2> QED BY <1>1, <2>1 DEF MemoryInv, Grows, Known
  <1>5. WriteInv'
    BY <1>1 DEF RInv, WriteInv, Written, Switched, NewCursor
  <1>6. NoGhostJobs'
    BY <1>1 DEF RInv, NoGhostJobs, Known
  <1> QED BY <1>2, <1>3, <1>4, <1>5, <1>6 DEF RInv

LEMMA WriteFailsInv == ASSUME RInv, WriteFails PROVE RInv'
  <1>1. /\ step \in {"record", "manifest"} /\ step' = "idle"
        /\ IF up = "open" THEN failed' = TRUE /\ up' = up ELSE up' = "down" /\ failed' = failed
        /\ UNCHANGED <<mem, cursor, order, mine, write, seen, answered, deaths>>
    BY DEF WriteFails, Refuses, client
  <1>2. write \in [job : Jobs, rec : Record] /\ up # "down"
    BY <1>1 DEF RInv, WriteInv
  <1>3. /\ DiskInv' /\ DiskType' /\ EventsInv' /\ AnswersInv'
        /\ \A j \in Known(mem) :
             up = "open" => /\ manifest'[j] # None /\ manifest'[j].key = mem[j].key
                            /\ manifest'[j].digest = mem[j].digest
    <2>1. CASE UNCHANGED <<manifest, floor>> /\ files' \in {files, files \cup {Written}}
      <3>1. DiskInv' /\ DiskType'
        BY <1>2, <2>1, FilesAdded
      <3>2. EventsInv' /\ AnswersInv'
        BY <1>1, <2>1 DEF RInv, EventsInv, AnswersInv, Shown, Known
      <3> QED BY <2>1, <3>1, <3>2 DEF RInv, MemoryInv
    <2>2. CASE step = "manifest" /\ Switched /\ files' = files
      <3>1. DiskInv' /\ DiskType' /\ EventsInv' /\ AnswersInv'
        BY <1>1, <2>2, SwitchDisk, SwitchEvents, SwitchAnswers
      <3>2. \A j \in Known(mem) : Grows(mem[j], manifest'[j])
        BY <2>2, SwitchFacts, SwitchGrows
      <3> QED BY <3>1, <3>2 DEF Grows
    <2> QED BY <2>1, <2>2 DEF WriteFails
  <1>4. Types'
    BY <1>1, <1>3 DEF RInv, Types, MemoryType, ClientType
  <1>5. MemoryInv' /\ NoGhostJobs'
    BY <1>1, <1>2, <1>3 DEF RInv, MemoryInv, NoGhostJobs, Known
  <1>6. WriteInv'
    BY <1>1 DEF WriteInv
  <1> QED BY <1>3, <1>4, <1>5, <1>6 DEF RInv

LEMMA CommitInv == ASSUME RInv, Commit PROVE RInv'
  <1> DEFINE j == write.job
             r == write.rec
  <1>1. /\ step = "commit" /\ step' = "idle"
        /\ mem' = [mem EXCEPT ![j] = r] /\ cursor' = NewCursor /\ order' = Later(order, r.order)
        /\ files' = (files \ {[job |-> j, rec |-> mem[j]]}) \cup {Written}
        /\ seen' = seen \cup EventsOf(j, r)
        /\ answered' = answered \/ /\ r.key # None
                                   /\ answered' = answered \cup {Answer(r.key, r.digest, j)}
        /\ write' = None
        /\ UNCHANGED <<manifest, floor, up, failed, mine, deaths>>
    BY DEF Commit
  <1>2. /\ up # "down" /\ ~failed /\ j \in Jobs /\ r \in Record /\ r # None
        /\ manifest = [mem EXCEPT ![j] = r] /\ floor = NewCursor
        /\ mem \in [Jobs -> Record \cup {None}] /\ order \in Nat
        /\ (up = "open" /\ r.state \in Active => j \in mine)
    BY <1>1, NoneAssumption DEF RInv, WriteInv, Types, MemoryType, NoneAssumption
  <1>3. mem' = manifest /\ cursor' = floor /\ manifest[j] = r /\ j \in Known(manifest)
    BY <1>1, <1>2 DEF Known
  <1>4. DiskInv'
    <2>1. ASSUME NEW k \in Known(manifest)
          PROVE  [job |-> k, rec |-> manifest[k]] \in files'
      BY <1>1, <1>3, <2>1 DEF RInv, DiskInv, AlwaysLoadable, Loadable, Written
    <2> QED BY <1>1, <2>1 DEF RInv, DiskInv, AlwaysLoadable, Loadable, Known
  <1>5. Shown' = Shown
    BY <1>1, <1>3 DEF Shown, Known
  <1>6. EventsInv'
    BY <1>1, <1>5 DEF RInv, EventsInv
  <1>7. AnswersInv'
    BY <1>1, <1>3, <1>2 DEF RInv, AnswersInv, Answer
  <1>8. Types'
    <2>1. DiskType'
      BY <1>1, <1>2 DEF RInv, Types, DiskType, Written
    <2>2. order' \in Nat
      BY <1>1, <1>2 DEF Later, Record
    <2>3. MemoryType'
      BY <1>1, <1>3, <2>2 DEF RInv, Types, DiskType, MemoryType
    <2>4. EventsOf(j, r) \subseteq [id : Nat, job : Jobs, seq : Nat]
      BY <1>3, <1>6, <1>5 DEF RInv, EventsInv, Shown
    <2>5. r.key # None => Answer(r.key, r.digest, j) \in [key : Keys, digest : Digests, job : Jobs]
      <3>1. Sound(r)
        BY <1>1 DEF RInv, WriteInv
      <3> QED BY <1>2, <3>1 DEF Record, Answer, Sound, Valid
    <2> QED BY <1>1, <2>1, <2>3, <2>4, <2>5 DEF RInv, Types, ClientType
  <1>9. MemoryInv'
    <2>1. ASSUME NEW i \in Known(manifest)
          PROVE  manifest[i].order <= order'
      <3>1. CASE i = j
        BY <1>1, <1>2, <1>3, <3>1 DEF Later, Record
      <3>2. CASE i # j
        <4>1. i \in Known(mem) /\ manifest[i] = mem[i] /\ mem[i] \in Record
          BY <1>2, <2>1, <3>2 DEF Known
        <4>2. mem[i].order <= order
          BY <1>2, <4>1 DEF RInv, MemoryInv
        <4> QED BY <1>1, <1>2, <4>1, <4>2 DEF Later, Record
      <3> QED BY <3>1, <3>2
    <2> QED BY <1>1, <1>3, <2>1 DEF MemoryInv, Known
  <1>10. WriteInv'
    BY <1>1 DEF WriteInv
  <1>11. NoGhostJobs'
    BY <1>1, <1>2 DEF RInv, NoGhostJobs, Known
  <1> QED BY <1>4, <1>6, <1>7, <1>8, <1>9, <1>10, <1>11 DEF RInv

LEMMA DiesInv == ASSUME RInv, Dies PROVE RInv'
  <1>1. /\ up' = "down" /\ step' = "idle"
        /\ UNCHANGED <<manifest, floor, files, seen, answered>>
    BY DEF Dies, disk, client
  <1>2. Types'
    <2>1. DiskType'
      BY <1>1 DEF RInv, Types, DiskType
    <2>2. MemoryType'
      BY DEF Dies, MemoryType
    <2>3. ClientType'
      BY <1>1, RegistryAssumption DEF RInv, Types, ClientType, Dies, RegistryAssumption
    <2> QED BY <2>1, <2>2, <2>3 DEF Types
  <1>3. DiskInv' /\ EventsInv' /\ AnswersInv'
    BY <1>1 DEF RInv, DiskInv, AlwaysLoadable, Loadable, EventsInv, AnswersInv, Shown, Known
  <1> QED BY <1>1, <1>2, <1>3 DEF RInv, MemoryInv, WriteInv, NoGhostJobs

LEMMA LoadInv == ASSUME RInv, Load PROVE RInv'
  <1>1. /\ up' = "loading" /\ mem' = manifest /\ step' = "idle" /\ write' = None
        /\ failed' = FALSE /\ mine' = {}
        /\ cursor' \in Largest(LoadedIds)
        /\ order' \in Largest({0} \cup {manifest[j].order : j \in Known(manifest)})
        /\ seen' = seen \cup UNION {EventsOf(j, manifest[j]) : j \in Known(manifest)}
        /\ UNCHANGED <<manifest, floor, files, answered, deaths>>
    BY DEF Load, disk
  <1>2. /\ manifest \in [Jobs -> Record \cup {None}] /\ floor \in Nat
        /\ \A j \in Known(manifest) :
             /\ manifest[j].order \in Nat /\ manifest[j].last \in Nat /\ manifest[j].last <= floor
    BY DEF RInv, Types, DiskType, DiskInv, Sound, Record
  <1>3. cursor' = floor
    <2>1. floor \in LoadedIds /\ \A n \in LoadedIds : n \in Nat /\ n <= floor
      BY <1>2 DEF LoadedIds
    <2>2. cursor' \in LoadedIds /\ floor <= cursor'
      BY <1>1, <2>1 DEF Largest
    <2> QED BY <1>2, <2>1, <2>2
  <1>4. order' \in Nat /\ \A j \in Known(manifest) : manifest[j].order <= order'
    BY <1>1, <1>2 DEF Largest
  <1>5. Shown' = Shown
    BY <1>1 DEF Shown, Known
  <1>6. DiskInv' /\ EventsInv' /\ AnswersInv'
    BY <1>1, <1>5 DEF RInv, DiskInv, AlwaysLoadable, Loadable, EventsInv, AnswersInv, Known
  <1>7. Types'
    <2>1. seen' \subseteq [id : Nat, job : Jobs, seq : Nat]
      BY <1>1 DEF RInv, EventsInv, Shown
    <2> QED BY <1>1, <1>2, <1>3, <1>4, <2>1 DEF RInv, Types, DiskType, MemoryType, ClientType
  <1>8. MemoryInv'
    BY <1>1, <1>3, <1>4 DEF MemoryInv, Known
  <1> QED BY <1>1, <1>6, <1>7, <1>8 DEF RInv, WriteInv, NoGhostJobs

LEMMA OpenedInv == ASSUME RInv, Opened PROVE RInv'
  <1>1. /\ up = "loading" /\ up' = "open" /\ step = "idle" /\ \A j \in Jobs : ~Stale(j)
        /\ UNCHANGED <<manifest, floor, files, failed, mem, cursor, order, mine, write, step,
                       seen, answered, deaths>>
    BY DEF Opened, disk, memory, client
  <1>2. Types'
    BY <1>1 DEF RInv, Types, DiskType, MemoryType, ClientType
  <1>3. DiskInv' /\ EventsInv' /\ AnswersInv'
    BY <1>1 DEF RInv, DiskInv, AlwaysLoadable, Loadable, EventsInv, AnswersInv, Shown, Known
  <1>4. MemoryInv' /\ WriteInv' /\ NoGhostJobs'
    BY <1>1 DEF RInv, MemoryInv, WriteInv, NoGhostJobs, Stale, Known
  <1> QED BY <1>2, <1>3, <1>4 DEF RInv

LEMMA StutterInv == ASSUME RInv, UNCHANGED vars PROVE RInv'
  <1>1. UNCHANGED <<manifest, floor, files, up, failed, mem, cursor, order, mine, write, step,
                    seen, answered, deaths>>
    BY DEF vars, disk, memory, client
  <1>2. Types' /\ DiskInv' /\ EventsInv' /\ AnswersInv'
    BY <1>1 DEF RInv, Types, DiskType, MemoryType, ClientType, DiskInv, AlwaysLoadable, Loadable,
            EventsInv, AnswersInv, Shown, Known
  <1>3. MemoryInv' /\ NoGhostJobs'
    BY <1>1 DEF RInv, MemoryInv, NoGhostJobs, Known
  <1>4. WriteInv'
    BY <1>1 DEF RInv, WriteInv, Written, NewCursor, Follows, Holder, Known
  <1> QED BY <1>2, <1>3, <1>4 DEF RInv

LEMMA StepInv == ASSUME RInv, [Next]_vars PROVE RInv'
  <1>1. ASSUME NEW k \in Keys, NEW d \in Digests,
               Repeat(k, d) \/ \E j \in Jobs : Reserve(j, k, d)
        PROVE  RInv'
    BY <1>1, RepeatInv, ReserveInv, RegistryAssumption DEF RegistryAssumption
  <1>2. CASE \E j \in Jobs : Reserve(j, None, None)
    BY <1>2, ReserveInv
  <1>3. ASSUME NEW j \in Jobs, Save(j, "running") \/ Save(j, "final") \/ Append(j) \/ Abandon(j)
        PROVE  RInv'
    BY <1>3, SaveInv, AppendInv
  <1>4. CASE WriteRecord \/ SwitchManifest \/ WriteFails \/ Commit
    BY <1>4, WriteRecordInv, SwitchInv, WriteFailsInv, CommitInv
  <1>5. CASE Dies \/ Load \/ Opened \/ UNCHANGED vars
    BY <1>5, DiesInv, LoadInv, OpenedInv, StutterInv
  <1> QED BY <1>1, <1>2, <1>3, <1>4, <1>5 DEF Next

LEMMA Inductive == Spec => []RInv
  <1>1. Init => RInv
    BY InitInv
  <1>2. RInv /\ [Next]_vars => RInv'
    BY StepInv
  <1> QED BY <1>1, <1>2, PTL DEF Spec

-----------------------------------------------------------------------------
(* The theorems *)

\* The registry's types, and that no record ever keeps more than Keep events.
THEOREM RegistryTypeCorrect == Spec => []TypeOK
  <1>1. RInv => TypeOK
    BY DEF RInv, Types, DiskInv, Sound, TypeOK
  <1> QED BY <1>1, Inductive, PTL

\* Whenever the server dies, whatever failed before, the next one can load the registry.
THEOREM Recoverable == Spec => []AlwaysLoadable
  <1>1. RInv => AlwaysLoadable
    BY DEF RInv, DiskInv
  <1> QED BY <1>1, Inductive, PTL

\* A repeated request is answered with the same job, however often the server died.
THEOREM RequestsAreIdempotent == Spec => []KeyNamesOneJob
  <1>1. RInv => KeyNamesOneJob
    <2> SUFFICES ASSUME RInv, NEW a \in answered, NEW b \in answered, a.key = b.key
                 PROVE  a = b
      BY DEF KeyNamesOneJob
    <2>1. a \in [key : Keys, digest : Digests, job : Jobs] /\ b \in [key : Keys, digest : Digests, job : Jobs]
      BY DEF RInv, Types, ClientType
    <2>2. /\ a.job \in Known(manifest) /\ b.job \in Known(manifest)
          /\ manifest[a.job].key = a.key /\ manifest[b.job].key = a.key
          /\ manifest[a.job].digest = a.digest /\ manifest[b.job].digest = b.digest
      BY <2>1 DEF RInv, AnswersInv, Known
    <2>3. a.key # None
      BY <2>1, RegistryAssumption DEF RegistryAssumption
    <2>4. a.job = b.job
      BY <2>2, <2>3 DEF RInv, DiskInv, AlwaysLoadable, Loadable
    <2> QED BY <2>1, <2>2, <2>4
  <1> QED BY <1>1, Inductive, PTL

\* Events that were published and requests that were answered are on the disk for good.
THEOREM Durability == Spec => []AcknowledgedSurvives
  <1>1. RInv => AcknowledgedSurvives
    <2> SUFFICES ASSUME RInv PROVE AcknowledgedSurvives
      OBVIOUS
    <2>1. \A a \in answered : manifest[a.job] # None /\ manifest[a.job].key = a.key
      BY DEF RInv, AnswersInv
    <2>2. ASSUME NEW e \in seen
          PROVE  manifest[e.job] # None /\ manifest[e.job].seq >= e.seq
      <3>1. /\ e \in [id : Nat, job : Jobs, seq : Nat]
            /\ manifest[e.job] # None /\ e.seq <= manifest[e.job].seq
        BY DEF RInv, EventsInv, Shown
      <3>2. manifest[e.job].seq \in Nat
        BY <3>1 DEF RInv, Types, DiskType, Record
      <3> QED BY <3>1, <3>2
    <2> QED BY <2>1, <2>2 DEF AcknowledgedSurvives
  <1> QED BY <1>1, Inductive, PTL

\* No event identifier is given twice, across write errors and deaths.
THEOREM EventIdentity == Spec => []EventIdsAreUnique
  <1>1. RInv => EventIdsAreUnique
    BY DEF RInv, EventsInv, Shown, EventIdsAreUnique
  <1> QED BY <1>1, Inductive, PTL

\* Across deaths of the server between any two file operations, a request key is never given
\* to two jobs and an event identifier never to two events.
THEOREM NothingIsNamedTwice == Spec => []NamesAreUnique
  <1>1. KeyNamesOneJob /\ EventIdsAreUnique => NamesAreUnique
    BY DEF NamesAreUnique
  <1> QED BY <1>1, RequestsAreIdempotent, EventIdentity, PTL

\* A job that is active in an open registry was reserved by this server.
THEOREM NoGhosts == Spec => []NoGhostJobs
  <1>1. RInv => NoGhostJobs
    BY DEF RInv
  <1> QED BY <1>1, Inductive, PTL

-----------------------------------------------------------------------------
(* The registry implements one map of records *)

\* The replacement of the manifest changes one record, to a later version of it.
LEMMA SwitchChanges ==
  ASSUME RInv, step = "manifest", Switched
  PROVE  Records!Changes
  <1> DEFINE j == write.job
             r == write.rec
  <1>1. /\ up # "down" /\ ~failed /\ mem = manifest
        /\ j \in Jobs /\ r # None /\ manifest' = [manifest EXCEPT ![j] = r]
        /\ manifest \in [Jobs -> Record \cup {None}]
    BY SwitchFacts, SwitchGrows DEF RInv, WriteInv
  <1>2. manifest'[j] = r /\ manifest' = [manifest EXCEPT ![j] = manifest'[j]]
    BY <1>1
  <1>3. ASSUME NEW i \in Known(manifest)
        PROVE  /\ manifest[i].order \in Nat /\ manifest[i].order < order + 1
               /\ manifest[i].last \in Nat /\ manifest[i].last < cursor + 1
    BY <1>3, SwitchFacts DEF RInv, DiskInv, Known, Record
  <1>4. CASE manifest[j] = None
    <2>1. /\ r.order = order + 1 /\ r.seq = 0 /\ r.events = {}
          /\ r.key # None => Holder(r.key) = {}
      BY <1>4, SwitchFacts DEF Follows
    <2>2. \A i \in Known(manifest) : r.key # None => manifest[i].key # r.key
      BY <1>1, <2>1 DEF Holder
    <2>3. Records!Begins(r)
      BY <1>3, <2>1, <2>2 DEF Records!Begins, Records!Known, Known
    <2> QED BY <1>1, <1>2, <1>4, <2>3 DEF Records!Changes
  <1>5. CASE manifest[j] # None
    <2>1. Records!Advances(manifest[j], r)
      BY <1>3, <1>5, SwitchFacts DEF Follows, Records!Advances, Records!Known, Known
    <2> QED BY <1>1, <1>2, <1>5, <2>1 DEF Records!Changes
  <1> QED BY <1>4, <1>5

LEMMA RepeatAnswers ==
  ASSUME RInv, NEW k \in Keys, NEW d \in Digests, Repeat(k, d)
  PROVE  Records!Next
  <1>1. PICK j \in Holder(k) : /\ mem[j].digest = d
                               /\ answered' = answered \cup {[key |-> k, digest |-> d, job |-> j]}
    BY DEF Repeat
  <1>2. /\ up = "open" /\ j \in Jobs /\ mem[j] # None /\ mem[j].key = k
        /\ UNCHANGED <<manifest, up, mem, failed>>
    BY DEF Repeat, Holder, Known, disk, memory
  <1>3. manifest[j] # None /\ manifest[j].key = k /\ manifest[j].digest = d /\ k # None
    BY <1>1, <1>2, RegistryAssumption DEF RInv, MemoryInv, Known, RegistryAssumption
  <1>4. Records!Answers(j)
    BY <1>1, <1>2, <1>3 DEF Records!Answers, Records!Known, Records!Receipt
  <1> QED BY <1>2, <1>4 DEF Records!Next

LEMMA CommitIsLearnt == ASSUME RInv, Commit PROVE Records!Next
  <1> DEFINE j == write.job
             r == write.rec
  <1>1. /\ up # "down" /\ ~failed /\ j \in Jobs /\ r # None
        /\ manifest = [mem EXCEPT ![j] = r] /\ mem \in [Jobs -> Record \cup {None}]
    BY NoneAssumption DEF Commit, RInv, WriteInv, Types, MemoryType, NoneAssumption
  <1>2. /\ mem' = manifest /\ UNCHANGED <<manifest, up, failed>>
        /\ \/ answered' = answered
           \/ /\ mem[j] = None /\ r.key # None
              /\ answered' = answered \cup {[key |-> r.key, digest |-> r.digest, job |-> j]}
    BY <1>1 DEF Commit, Answer
  <1>3. manifest[j] = r /\ j \in Records!Known
    BY <1>1 DEF Records!Known
  <1>4. Records!Learns
    BY <1>1, <1>2, <1>3 DEF Records!Learns, Records!Receipt
  <1> QED BY <1>4 DEF Records!Next

LEMMA FailureFails == ASSUME RInv, WriteFails PROVE Records!Next
  <1>1. /\ up # "down" /\ ~failed /\ UNCHANGED <<mem, answered>>
        /\ UNCHANGED manifest \/ (step = "manifest" /\ Switched)
        /\ IF up = "open" THEN failed' = TRUE /\ up' = up ELSE up' = "down" /\ failed' = failed
    <2>1. step \in {"record", "manifest"}
      BY DEF WriteFails
    <2>2. up # "down" /\ ~failed
      BY <2>1 DEF RInv, WriteInv
    <2>3. UNCHANGED <<mem, answered>>
      BY DEF WriteFails, client
    <2>4. UNCHANGED manifest \/ (step = "manifest" /\ Switched)
      BY DEF WriteFails
    <2>5. IF up = "open" THEN failed' = TRUE /\ up' = up ELSE up' = "down" /\ failed' = failed
      BY DEF WriteFails, Refuses
    <2> QED BY <2>2, <2>3, <2>4, <2>5
  <1>2. Records!Changes \/ UNCHANGED manifest
    BY <1>1, SwitchChanges
  <1>3. failed \in BOOLEAN
    BY DEF RInv, Types, MemoryType
  <1>4. CASE up = "open"
    BY <1>1, <1>2, <1>4 DEF Records!Fails, Records!Next
  <1>5. CASE up # "open"
    BY <1>1, <1>2, <1>3, <1>5 DEF Records!Restarts, Records!Next
  <1> QED BY <1>4, <1>5

\* Between two servers the records are those that the next one will find.
LEMMA RestartsOnDisk == ASSUME RInv, Dies \/ Load PROVE Records!Next
  <1>1. /\ failed' = FALSE /\ UNCHANGED <<manifest, answered>>
        /\ up' = "down" \/ mem' = manifest
    BY DEF Dies, Load, disk, client
  <1>2. Records!Restarts
    BY <1>1 DEF Records!Restarts
  <1> QED BY <1>2 DEF Records!Next

LEMMA StepRecords == ASSUME RInv, [Next]_vars PROVE [Records!Next]_Records!vars
  <1>1. ASSUME UNCHANGED <<manifest, up, mem, failed, answered>> PROVE UNCHANGED Records!vars
    BY <1>1 DEF Records!vars
  <1>2. ASSUME NEW k \in Keys, NEW d \in Digests, Repeat(k, d) PROVE Records!Next
    BY <1>2, RepeatAnswers
  <1>3. ASSUME NEW j \in Jobs, NEW k, NEW d, Reserve(j, k, d) PROVE UNCHANGED Records!vars
    BY <1>1, <1>3 DEF Reserve, Writes, disk, client
  <1>4. ASSUME NEW j \in Jobs, Save(j, "running") \/ Save(j, "final") \/ Append(j) \/ Abandon(j)
        PROVE  UNCHANGED Records!vars
    BY <1>1, <1>4 DEF Save, Append, Abandon, Writes, disk, client
  <1>5. CASE WriteRecord
    BY <1>1, <1>5 DEF WriteRecord, memory, client
  <1>6. CASE SwitchManifest
    <2>1. UNCHANGED <<up, mem, failed, answered>> /\ up # "down"
      BY <1>6 DEF SwitchManifest, memory, client, RInv, WriteInv
    <2>2. Records!Changes
      BY <1>6, SwitchChanges DEF SwitchManifest
    <2> QED BY <2>1, <2>2 DEF Records!Commits, Records!Next
  <1>7. CASE WriteFails
    BY <1>7, FailureFails
  <1>8. CASE Commit
    BY <1>8, CommitIsLearnt
  <1>9. CASE Dies \/ Load
    BY <1>9, RestartsOnDisk
  <1>10. CASE Opened
    <2>1. UNCHANGED <<manifest, mem, failed, answered>> /\ up # "down" /\ up' # "down"
      BY <1>10 DEF Opened, disk, memory, client
    <2> QED BY <2>1 DEF Records!vars
  <1>11. CASE UNCHANGED vars
    BY <1>1, <1>11 DEF vars, disk, memory, client
  <1> QED BY <1>2, <1>3, <1>4, <1>5, <1>6, <1>7, <1>8, <1>9, <1>10, <1>11 DEF Next

\* What clients see of the registry, across deaths and I/O errors between any two file
\* operations, is one map of records: a commit changes one of them, to a later version of
\* itself, only while the server knows them all, and after an error only a restart settles
\* whether it took place (_write, _accept, __init__).
THEOREM RegistryImplementsRecords == Spec => ImplementsRecords
  <1>1. Init => Records!Init
    BY DEF Init, Records!Init
  <1>2. RInv /\ [Next]_vars => [Records!Next]_Records!vars
    BY StepRecords
  <1> QED BY <1>1, <1>2, Inductive, PTL DEF Spec, ImplementsRecords, Records!Spec

=============================================================================
