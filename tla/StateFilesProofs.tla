-------------------------- MODULE StateFilesProofs --------------------------
(***************************************************************************)
(* Proofs about StateFiles, for any processes, tables and rows and without *)
(* its bounds: the files implement the log of StateLog, and what HEAD      *)
(* stands on can be read.  Both follow from one inductive invariant about  *)
(* what a transaction has written at each of its steps and what of it a    *)
(* power loss may still take.                                              *)
(***************************************************************************)
EXTENDS StateFiles, SequenceTheorems, TLAPS

Dirs == {"state", "objects", "commits"}
Holding == {"objects", "object", "commit", "candidate", "ready", "head"}
Steps == {"closed", "reading", "open"} \cup Holding

Connection == [step : Steps, head : Seq(States), work : States \cup {None},
               left : SUBSET Tables, risky : BOOLEAN]

TypeInv ==
    /\ legacy \in BOOLEAN /\ reused \in BOOLEAN
    /\ disk \in [dirs : SUBSET Dirs, objects : SUBSET (Tables \X Rows),
                 commits : SUBSET Seq(States), head : Seq(States)]
    /\ loose \in [dirs : SUBSET Dirs, objects : SUBSET (Tables \X Rows),
                  commits : SUBSET Seq(States), heads : SUBSET Seq(States)]
    /\ lock \in Procs \cup {None}
    /\ conn \in [Procs -> Connection]
    /\ told \in Seq(States)

(* What a connection knows of the state it is based on.                    *)
Based(p) ==
    /\ At(p, "closed") => conn[p] = Closed
    /\ At(p, "reading") => conn[p].head # <<>>
    /\ conn[p].step \notin {"closed", "reading"} =>
          /\ conn[p].work \in States
          /\ conn[p].head = <<>> => conn[p].work = First
    /\ conn[p].step \in Holding <=> lock = p
    /\ conn[p].step \in Holding \ {"head"} => conn[p].head = disk.head
    /\ At(p, "head") => disk.head = Candidate(p)

(* What a transaction has written; without a risk it is also synced.       *)
Written(p) ==
    /\ conn[p].step \in Holding \ {"head"} =>
          \A t \in Tables \ conn[p].left : Object(p, t) \in disk.objects
    /\ conn[p].step \in Holding \ {"object", "head"} /\ ~conn[p].risky =>
          \A t \in Tables \ conn[p].left : Object(p, t) \notin loose.objects
    /\ conn[p].step \in {"commit", "candidate", "ready"} =>
          conn[p].left = {} /\ Candidate(p) \in disk.commits
    /\ conn[p].step \in {"candidate", "ready"} /\ ~conn[p].risky =>
          Candidate(p) \notin loose.commits
    /\ At(p, "ready") => disk.dirs = Dirs /\ loose.dirs = {}

Solid(h) ==
    \A n \in 1 .. Len(h) :
        /\ SubSeq(h, 1, n) \in disk.commits \ loose.commits
        /\ Contents(h, n) \subseteq disk.objects \ loose.objects

Heads ==
    /\ IsPrefix(told, disk.head)
    /\ \A h \in loose.heads : IsPrefix(told, h) /\ IsPrefix(h, disk.head)
    /\ disk.head # <<>> => disk.dirs = Dirs /\ loose.dirs = {}

Directories ==
    /\ disk.objects # {} => {"state", "objects"} \subseteq disk.dirs
    /\ disk.commits # {} => {"state", "commits"} \subseteq disk.dirs

Inv ==
    /\ TypeInv
    /\ \A p \in Procs : Based(p) /\ Written(p)
    /\ Heads /\ Directories
    /\ reused \/ Solid(disk.head)

-----------------------------------------------------------------------------

LEMMA StatesAreNotNone == /\ None \notin Procs /\ None \notin Seq(States)
                          /\ Fresh \in States /\ Legacy \in States /\ First \in States
                          /\ Tables # {}
  BY StatesAssumption, NoneAssumption DEF First

LEMMA PrefixByElements ==
  ASSUME NEW s \in Seq(States), NEW t \in Seq(States)
  PROVE  IsPrefix(s, t) <=> Len(s) <= Len(t) /\ \A i \in 1 .. Len(s) : s[i] = t[i]
  <1>1. SubSeq(s, 1, Len(s)) = s
    BY SubSeqFull
  <1>2. ASSUME Len(s) <= Len(t)
        PROVE  /\ SubSeq(t, 1, Len(s)) \in Seq(States)
               /\ Len(SubSeq(t, 1, Len(s))) = Len(s)
               /\ \A i \in 1 .. Len(s) : SubSeq(t, 1, Len(s))[i] = t[i]
    <2>1. Len(s) \in Nat /\ Len(t) \in Nat /\ \A i \in 1 .. Len(s) : t[i] \in States
      BY <1>2
    <2> QED BY <2>1, SubSeqProperties
  <1>3. ASSUME Len(s) <= Len(t), \A i \in 1 .. Len(s) : s[i] = t[i]
        PROVE  s = SubSeq(t, 1, Len(s))
    BY <1>2, <1>3, SeqEqual
  <1>4. CASE Len(s) <= Len(t)
    <2>1. IsPrefix(s, t) <=> s = SubSeq(t, 1, Len(s))
      BY <1>1, <1>4 DEF IsPrefix
    <2>2. (s = SubSeq(t, 1, Len(s))) <=> (\A i \in 1 .. Len(s) : s[i] = t[i])
      BY <1>2, <1>3, <1>4
    <2> QED BY <1>4, <2>1, <2>2
  <1>5. CASE ~(Len(s) <= Len(t))
    BY <1>5 DEF IsPrefix
  <1> QED BY <1>4, <1>5

LEMMA PrefixOfAppend ==
  ASSUME NEW h \in Seq(States), NEW s \in States
  PROVE  Append(h, s) \in Seq(States) /\ IsPrefix(h, Append(h, s)) /\ Append(h, s) # <<>>
  <1>1. /\ Append(h, s) \in Seq(States) /\ Append(h, s) # <<>>
        /\ Len(h) \in Nat /\ Len(Append(h, s)) = Len(h) + 1
        /\ \A i \in 1 .. Len(h) : Append(h, s)[i] = h[i]
    BY AppendProperties
  <1>2. /\ Len(h) <= Len(Append(h, s))
        /\ \A i \in 1 .. Len(h) : h[i] = Append(h, s)[i]
    BY <1>1
  <1> QED BY <1>1, <1>2, PrefixByElements

LEMMA PrefixTransitive ==
  ASSUME NEW a \in Seq(States), NEW b \in Seq(States), NEW c \in Seq(States),
         IsPrefix(a, b), IsPrefix(b, c)
  PROVE  IsPrefix(a, c)
  BY PrefixByElements

LEMMA PrefixReflexive == ASSUME NEW a \in Seq(States) PROVE IsPrefix(a, a)
  BY PrefixByElements

LEMMA EmptyIsPrefix == ASSUME NEW a \in Seq(States) PROVE IsPrefix(<<>>, a) /\ <<>> \in Seq(States)
  <1>1. <<>> \in Seq(States) /\ Len(<<>>) = 0
    BY EmptySeq
  <1>2. Len(a) \in Nat /\ Len(<<>>) <= Len(a) /\ 1 .. Len(<<>>) = {}
    BY <1>1, LenProperties
  <1>3. IsPrefix(<<>>, a) <=>
           Len(<<>>) <= Len(a) /\ \A i \in 1 .. Len(<<>>) : <<>>[i] = a[i]
    BY <1>1, PrefixByElements
  <1> QED BY <1>1, <1>2, <1>3

LEMMA OnlyEmpty == ASSUME NEW a \in Seq(States), IsPrefix(a, <<>>) PROVE a = <<>>
  <1>1. <<>> \in Seq(States) /\ Len(<<>>) = 0
    BY EmptySeq
  <1>2. Len(a) \in Nat /\ Len(a) <= 0
    BY <1>1, PrefixByElements, LenProperties
  <1> QED BY <1>2, EmptySeq

LEMMA LastOfAppend ==
  ASSUME NEW h \in Seq(States), NEW s \in States
  PROVE  /\ Len(Append(h, s)) = Len(h) + 1 /\ Append(h, s)[Len(h) + 1] = s
         /\ SubSeq(Append(h, s), 1, Len(h) + 1) = Append(h, s)
         /\ \A n \in 1 .. Len(h) : /\ SubSeq(Append(h, s), 1, n) = SubSeq(h, 1, n)
                                   /\ Append(h, s)[n] = h[n]
  <1> DEFINE a == Append(h, s)
  <1>1. /\ a \in Seq(States) /\ Len(a) = Len(h) + 1 /\ a[Len(h) + 1] = s
        /\ \A i \in 1 .. Len(h) : a[i] = h[i]
    BY AppendProperties
  <1>2. SubSeq(a, 1, Len(h) + 1) = a
    BY <1>1, SubSeqFull
  <1>3. ASSUME NEW n \in 1 .. Len(h) PROVE SubSeq(a, 1, n) = SubSeq(h, 1, n)
    BY <1>1, AppendIsConcat, SubSeqOfConcat1, EmptySeq
  <1> QED BY <1>1, <1>2, <1>3

\* A prefix of a solid history is solid.
LEMMA PrefixIsSolid ==
  ASSUME NEW g \in Seq(States), NEW h \in Seq(States), IsPrefix(g, h), Solid(h)
  PROVE  Solid(g)
  <1>1. Len(g) \in Nat /\ Len(h) \in Nat /\ Len(g) <= Len(h) /\ \A i \in 1 .. Len(g) : g[i] = h[i]
    BY PrefixByElements
  <1>2. ASSUME NEW n \in 1 .. Len(g) PROVE SubSeq(g, 1, n) = SubSeq(h, 1, n)
    <2>1. /\ \A i \in 1 .. n : g[i] \in States /\ h[i] \in States
          /\ n \in Nat
      BY <1>1
    <2>2. /\ SubSeq(g, 1, n) \in Seq(States) /\ Len(SubSeq(g, 1, n)) = n
          /\ \A i \in 1 .. n : SubSeq(g, 1, n)[i] = g[i]
      BY <2>1, SubSeqProperties
    <2>3. /\ SubSeq(h, 1, n) \in Seq(States) /\ Len(SubSeq(h, 1, n)) = n
          /\ \A i \in 1 .. n : SubSeq(h, 1, n)[i] = h[i]
      BY <2>1, SubSeqProperties
    <2> QED BY <1>1, <2>2, <2>3, SeqEqual
  <1>3. ASSUME NEW n \in 1 .. Len(g) PROVE n \in 1 .. Len(h) /\ Contents(g, n) = Contents(h, n)
    BY <1>1 DEF Contents
  <1> QED BY <1>2, <1>3 DEF Solid

LEMMA HasLast ==
  ASSUME NEW h \in Seq(States), h # <<>>
  PROVE  Last(h) \in States
  BY EmptySeq DEF Last

\* A connection that waits for nobody is not disturbed by another one's step.
LEMMA OthersKeep ==
  ASSUME Inv, NEW p \in Procs, NEW c, Becomes(p, c), legacy' = legacy,
         \/ UNCHANGED <<disk, loose>> /\ lock' = lock
         \/ lock \in {p, None} /\ lock' \in {p, None}
  PROVE  \A q \in Procs \ {p} : Based(q)' /\ Written(q)'
  <1> SUFFICES ASSUME NEW q \in Procs \ {p} PROVE Based(q)' /\ Written(q)'
    OBVIOUS
  <1>1. conn'[q] = conn[q] /\ Based(q) /\ Written(q)
    BY DEF Inv, TypeInv, Becomes
  <1>2. CASE UNCHANGED <<disk, loose>> /\ lock' = lock
    BY <1>1, <1>2 DEF Based, Written, At, Candidate, Object, First
  <1>3. CASE lock \in {p, None} /\ lock' \in {p, None}
    <2>1. q # None /\ lock # q /\ lock' # q
      BY <1>3, StatesAreNotNone
    <2>2. conn[q].step \notin Holding
      BY <1>1, <2>1 DEF Based
    <2> QED BY <1>1, <2>1, <2>2 DEF Based, Written, At, Candidate, Object, First, Holding
  <1> QED BY <1>2, <1>3

LEMMA InitInv == Init => Inv
  <1> SUFFICES ASSUME Init PROVE Inv
    OBVIOUS
  <1>1. <<>> \in Seq(States) /\ Len(<<>>) = 0 /\ IsPrefix(<<>>, <<>>)
    BY EmptySeq, EmptyIsPrefix
  <1>2. TypeInv
    BY <1>1 DEF Init, TypeInv, Blank, Synced, Closed, Connection, Steps, Dirs
  <1>3. \A p \in Procs : Based(p) /\ Written(p)
    BY StatesAreNotNone DEF Init, Based, Written, At, Closed, Holding
  <1>4. Heads /\ Directories /\ Solid(disk.head)
    BY <1>1 DEF Init, Heads, Directories, Solid, Blank, Synced
  <1> QED BY <1>2, <1>3, <1>4 DEF Inv

\* Steps that only change the connection of one process.
LEMMA ConnectionOnly ==
  ASSUME Inv, NEW p \in Procs, NEW c \in Connection, Becomes(p, c),
         UNCHANGED <<legacy, disk, loose, told, reused>>,
         lock' = lock \/ (lock \in {p, None} /\ lock' \in {p, None}),
         Based(p)', Written(p)'
  PROVE  Inv'
  <1>1. TypeInv'
    BY DEF Inv, TypeInv, Becomes
  <1>2. \A q \in Procs : Based(q)' /\ Written(q)'
    BY OthersKeep
  <1>3. Heads' /\ Directories' /\ (reused' \/ Solid(disk.head)')
    BY DEF Inv, Heads, Directories, Solid, Contents
  <1> QED BY <1>1, <1>2, <1>3 DEF Inv

LEMMA OpeningKeeps ==
  ASSUME Inv, NEW p \in Procs,
         Opens(p) \/ Loads(p) \/ Creates(p) \/ Migrates(p) \/ Changes(p) \/ Closes(p)
  PROVE  Inv'
  <1>1. /\ TypeInv /\ Based(p) /\ Written(p) /\ conn[p] \in Connection /\ conn \in [Procs -> Connection]
        /\ <<>> \in Seq(States)
    BY EmptySeq DEF Inv, TypeInv
  <1>2. UNCHANGED <<legacy, disk, loose, told, reused, lock>> /\ conn[p].step \notin Holding /\ lock # p
    BY <1>1 DEF Opens, Loads, Creates, Migrates, Changes, Closes, OnDisk, At, Based, Holding
  <1>3. PICK c \in Connection :
           /\ Becomes(p, c) /\ c.step \notin Holding
           /\ c.step = "closed" => c = Closed
           /\ c.step = "reading" => c.head # <<>>
           /\ c.step = "open" => c.work \in States /\ (c.head = <<>> => c.work = First)
    <2>1. CASE Opens(p)
      <3> DEFINE c == [Closed EXCEPT !.step = "reading", !.head = disk.head]
      <3>1. c \in Connection /\ c.step = "reading" /\ c.head # <<>>
        BY <1>1, <2>1 DEF Opens, Connection, Closed, Steps, TypeInv
      <3> QED BY <2>1, <3>1 DEF Opens, Holding
    <2>2. CASE Loads(p)
      <3> DEFINE c == [conn[p] EXCEPT !.step = "open", !.work = Last(conn[p].head)]
      <3>1. conn[p].head \in Seq(States) /\ conn[p].head # <<>> /\ Last(conn[p].head) \in States
        BY <1>1, <2>2, HasLast DEF Loads, Based, At, Connection
      <3>2. c \in Connection /\ c.step = "open" /\ c.work \in States /\ c.head # <<>>
        BY <1>1, <3>1 DEF Connection, Steps
      <3>3. Closed \in Connection /\ Closed.step = "closed"
        BY <1>1 DEF Closed, Connection, Steps
      <3>4. Becomes(p, c) \/ Becomes(p, Closed)
        BY <2>2 DEF Loads
      <3> QED BY <3>2, <3>3, <3>4 DEF Holding
    <2>3. CASE Creates(p) \/ Migrates(p)
      <3> DEFINE c == [Closed EXCEPT !.step = "open", !.work = First]
      <3>1. c \in Connection /\ c.step = "open" /\ c.work = First /\ First \in States
        BY <1>1, StatesAreNotNone DEF Closed, Connection, Steps
      <3> QED BY <2>3, <3>1 DEF Creates, Migrates, Holding
    <2>4. CASE Changes(p)
      <3>1. PICK s \in States : Becomes(p, [conn[p] EXCEPT !.work = s])
        BY <2>4 DEF Changes
      <3> DEFINE c == [conn[p] EXCEPT !.work = s]
      <3>2. c \in Connection /\ c.step = "open" /\ c.work \in States /\ c.head # <<>>
        BY <1>1, <2>4 DEF Changes, Changed, At, Connection
      <3> QED BY <3>1, <3>2 DEF Holding
    <2>5. CASE Closes(p)
      <3>1. Closed \in Connection /\ Closed.step = "closed"
        BY <1>1 DEF Closed, Connection, Steps
      <3> QED BY <2>5, <3>1 DEF Closes, Holding
    <2> QED BY <2>1, <2>2, <2>3, <2>4, <2>5
  <1>4. conn'[p] = c
    BY <1>1, <1>3 DEF Becomes
  <1>5. Based(p)' /\ Written(p)'
    BY <1>2, <1>3, <1>4 DEF Based, Written, At, First, Holding, Connection, Steps
  <1> QED BY <1>2, <1>3, <1>5, ConnectionOnly

\* A step of the process that holds the lock, or takes it.
LEMMA HolderOnly ==
  ASSUME Inv, NEW p \in Procs, NEW c \in Connection, Becomes(p, c), legacy' = legacy,
         lock \in {p, None}, lock' \in {p, None},
         disk' \in [dirs : SUBSET Dirs, objects : SUBSET (Tables \X Rows),
                    commits : SUBSET Seq(States), head : Seq(States)],
         loose' \in [dirs : SUBSET Dirs, objects : SUBSET (Tables \X Rows),
                     commits : SUBSET Seq(States), heads : SUBSET Seq(States)],
         told' \in Seq(States), reused' \in BOOLEAN,
         Based(p)', Written(p)', Heads', Directories', reused' \/ Solid(disk.head)'
  PROVE  Inv'
  <1>1. TypeInv'
    BY DEF Inv, TypeInv, Becomes
  <1>2. \A q \in Procs : Based(q)' /\ Written(q)'
    BY OthersKeep
  <1> QED BY <1>1, <1>2 DEF Inv

\* What the invariant says of a process in the middle of a transaction.
LEMMA Holder ==
  ASSUME Inv, NEW p \in Procs, conn[p].step \in Holding
  PROVE  /\ lock = p /\ TypeInv /\ conn \in [Procs -> Connection] /\ conn[p] \in Connection
         /\ Based(p) /\ Written(p) /\ conn[p].head \in Seq(States) /\ conn[p].work \in States
         /\ Candidate(p) \in Seq(States) /\ Candidate(p) # <<>>
         /\ IsPrefix(conn[p].head, Candidate(p))
         /\ \A t \in Tables : Object(p, t) \in Tables \X Rows
  <1>1. /\ lock = p /\ TypeInv /\ conn \in [Procs -> Connection] /\ conn[p] \in Connection
        /\ Based(p) /\ Written(p)
    BY DEF Inv, TypeInv, Based
  <1>2. conn[p].head \in Seq(States) /\ conn[p].work \in States
    BY <1>1 DEF Connection, Based, Holding
  <1>3. \A t \in Tables : Object(p, t) \in Tables \X Rows
    BY <1>2 DEF Object, States
  <1> QED BY <1>1, <1>2, <1>3, PrefixOfAppend DEF Candidate

LEMMA CommitBeginsKeeps ==
  ASSUME Inv, NEW p \in Procs, CommitBegins(p)
  PROVE  Inv'
  <1> DEFINE c == [conn[p] EXCEPT !.step = "objects", !.left = Tables]
  <1>1. TypeInv /\ Based(p) /\ conn[p] \in Connection /\ conn \in [Procs -> Connection]
    BY DEF Inv, TypeInv
  <1>2. c \in Connection
    BY <1>1 DEF Connection, Steps, Holding
  <1>3. /\ Becomes(p, c) /\ lock = None /\ lock' = p
        /\ UNCHANGED <<legacy, disk, loose, told, reused>>
    BY DEF CommitBegins, OnDisk
  <1>4. conn'[p] = c
    BY <1>1, <1>3 DEF Becomes
  <1>5. /\ c.step = "objects" /\ c.left = Tables /\ c.head = conn[p].head
        /\ c.work = conn[p].work /\ c.head = disk.head
    BY <1>1 DEF CommitBegins, Expected, Connection
  <1>6. Based(p)' /\ Written(p)'
    BY <1>1, <1>3, <1>4, <1>5 DEF Based, Written, At, First, Holding, CommitBegins
  <1> QED BY <1>2, <1>3, <1>6, ConnectionOnly

\* What a writer goes on with after a failure.
LEMMA RolledBackIsBased ==
  ASSUME Inv, NEW p \in Procs, conn[p].step \notin {"closed", "reading"}
  PROVE  /\ RolledBack(p) \in Connection /\ Closed \in Connection
         /\ RolledBack(p) = Closed \/ /\ RolledBack(p).step = "open"
                                      /\ RolledBack(p).work \in States
                                      /\ RolledBack(p).head # <<>>
  <1>1. conn[p] \in Connection /\ <<>> \in Seq(States)
    BY EmptySeq DEF Inv, TypeInv
  <1>2. Closed \in Connection
    BY <1>1 DEF Connection, Closed, Steps
  <1>3. CASE conn[p].head # <<>>
    <2>1. conn[p].head \in Seq(States) /\ Last(conn[p].head) \in States
      BY <1>1, <1>3, HasLast DEF Connection
    <2> QED BY <1>2, <1>3, <2>1 DEF RolledBack, Closed, Connection, Steps
  <1> QED BY <1>2, <1>3 DEF RolledBack

\* Giving up keeps the invariant, whether the process goes on or not.
LEMMA GivesUp ==
  ASSUME Inv, NEW p \in Procs, NEW c \in {Closed, RolledBack(p)}, Becomes(p, c),
         conn[p].step \notin {"closed", "reading"},
         UNCHANGED <<legacy, disk, loose, told, reused>>,
         \/ lock' = lock /\ conn[p].step \notin Holding
         \/ lock = p /\ lock' = None
  PROVE  Inv'
  <1>1. /\ c \in Connection
        /\ c = Closed \/ (c.step = "open" /\ c.work \in States /\ c.head # <<>>)
    <2>1. CASE c = Closed
      BY <2>1, RolledBackIsBased
    <2>2. CASE c = RolledBack(p)
      BY <2>2, RolledBackIsBased
    <2> QED BY <2>1, <2>2
  <1>2. conn'[p] = c /\ Based(p)
    BY DEF Becomes, Inv, TypeInv
  <1>3. lock' # p
    BY <1>2, StatesAreNotNone DEF Based
  <1>4. Based(p)' /\ Written(p)'
    BY <1>1, <1>2, <1>3 DEF Based, Written, At, Closed, Holding, First
  <1> QED BY <1>1, <1>4, ConnectionOnly

LEMMA GivingUpKeeps ==
  ASSUME Inv, NEW p \in Procs, CommitRefused(p) \/ CommitFails(p) \/ Dies(p)
  PROVE  Inv'
  <1>1. Based(p)
    BY DEF Inv
  <1>2. CASE CommitRefused(p)
    BY <1>1, <1>2, GivesUp DEF CommitRefused, OnDisk, At, Holding
  <1>3. CASE CommitFails(p) \/ Dies(p)
    <2>1. lock = p /\ lock' = None /\ UNCHANGED <<legacy, disk, loose, told, reused>>
      BY <1>3 DEF CommitFails, Dies, Interrupted
    <2>2. conn[p].step \in Holding
      BY <1>1, <2>1 DEF Based
    <2>3. conn[p].step \notin {"closed", "reading"}
      BY <2>2 DEF Holding
    <2>4. \E c \in {Closed, RolledBack(p)} : Becomes(p, c)
      BY <1>3 DEF CommitFails, Dies
    <2> QED BY <2>1, <2>3, <2>4, GivesUp
  <1> QED BY <1>2, <1>3

LEMMA UsesObjectKeeps ==
  ASSUME Inv, NEW p \in Procs, UsesObject(p)
  PROVE  Inv'
  <1>1. conn[p].step = "objects" /\ conn[p].step \in Holding
    BY DEF UsesObject, At, Holding
  <1>2. PICK t \in conn[p].left :
           /\ Object(p, t) \in disk.objects
           /\ Becomes(p, [conn[p] EXCEPT !.left = @ \ {t},
                                         !.risky = @ \/ Object(p, t) \in loose.objects])
    BY DEF UsesObject
  <1> DEFINE c == [conn[p] EXCEPT !.left = @ \ {t},
                                  !.risky = @ \/ Object(p, t) \in loose.objects]
  <1>3. /\ c \in Connection /\ c.left = conn[p].left \ {t} /\ c.step = "objects"
        /\ c.head = conn[p].head /\ c.work = conn[p].work
        /\ c.risky <=> (conn[p].risky \/ Object(p, t) \in loose.objects)
    BY <1>1, Holder DEF Connection
  <1>4. UNCHANGED <<legacy, disk, loose, told, reused, lock>>
    BY DEF UsesObject, OnDisk
  <1>5. conn'[p] = c
    BY <1>1, <1>2, Holder DEF Becomes
  <1>6. \A u \in Tables : Object(p, u)' = Object(p, u)
    BY <1>3, <1>5 DEF Object
  <1> HIDE DEF c
  <1>7. Based(p)'
    BY <1>1, <1>3, <1>4, <1>5, Holder DEF Based, At, First, Holding
  <1>8. Written(p)'
    <2>1. Tables \ c.left = (Tables \ conn[p].left) \cup {t} /\ t \in Tables
      BY <1>1, <1>3, Holder DEF Connection
    <2>2. ASSUME NEW u \in Tables \ c.left
          PROVE  /\ Object(p, u) \in disk.objects
                 /\ ~c.risky => Object(p, u) \notin loose.objects
      BY <1>1, <1>2, <1>3, <2>1, Holder DEF Written, Holding
    <2> QED BY <1>3, <1>4, <1>5, <1>6, <2>2 DEF Written, At, Holding
  <1> QED BY <1>2, <1>3, <1>4, <1>7, <1>8, ConnectionOnly DEF c

LEMMA WritesObjectKeeps ==
  ASSUME Inv, NEW p \in Procs, WritesObject(p)
  PROVE  Inv'
  <1>1. conn[p].step = "objects" /\ conn[p].step \in Holding
    BY DEF WritesObject, At, Holding
  <1>2. PICK t \in conn[p].left :
          /\ Object(p, t) \notin disk.objects
          /\ disk' = [disk EXCEPT !.objects = @ \cup {Object(p, t)},
                                  !.dirs = @ \cup {"state", "objects"}]
          /\ loose' = [loose EXCEPT !.objects = @ \cup {Object(p, t)},
                                    !.dirs = @ \cup ({"state", "objects"} \ disk.dirs)]
          /\ Becomes(p, [conn[p] EXCEPT !.step = "object", !.left = @ \ {t}])
    BY DEF WritesObject
  <1> DEFINE c == [conn[p] EXCEPT !.step = "object", !.left = @ \ {t}]
  <1>3. /\ c \in Connection /\ c.left = conn[p].left \ {t} /\ c.step = "object"
        /\ c.head = conn[p].head /\ c.work = conn[p].work
    BY <1>1, Holder DEF Connection, Steps, Holding
  <1>4. UNCHANGED <<legacy, told, reused, lock>>
    BY DEF WritesObject, OnDisk
  <1>5. conn'[p] = c
    BY <1>1, <1>2, Holder DEF Becomes
  <1>6. \A u \in Tables : Object(p, u)' = Object(p, u)
    BY <1>3, <1>5 DEF Object
  <1>7. /\ disk'.objects = disk.objects \cup {Object(p, t)} /\ disk'.head = disk.head
        /\ disk'.commits = disk.commits /\ disk'.dirs = disk.dirs \cup {"state", "objects"}
        /\ loose'.objects = loose.objects \cup {Object(p, t)} /\ loose'.heads = loose.heads
        /\ loose'.commits = loose.commits
        /\ loose'.dirs = loose.dirs \cup ({"state", "objects"} \ disk.dirs)
        /\ t \in Tables /\ Object(p, t) \in Tables \X Rows
    BY <1>1, <1>2, Holder DEF TypeInv, Connection
  <1>8. /\ disk' \in [dirs : SUBSET Dirs, objects : SUBSET (Tables \X Rows),
                      commits : SUBSET Seq(States), head : Seq(States)]
        /\ loose' \in [dirs : SUBSET Dirs, objects : SUBSET (Tables \X Rows),
                       commits : SUBSET Seq(States), heads : SUBSET Seq(States)]
    <2> DEFINE more == disk.objects \cup {Object(p, t)}
               lost == loose.objects \cup {Object(p, t)}
               made == disk.dirs \cup {"state", "objects"}
               fresh == loose.dirs \cup ({"state", "objects"} \ disk.dirs)
    <2>1. TypeInv
      BY <1>1, Holder
    <2>2. /\ more \in SUBSET (Tables \X Rows) /\ lost \in SUBSET (Tables \X Rows)
          /\ made \in SUBSET Dirs /\ fresh \in SUBSET Dirs
      BY <1>7, <2>1 DEF TypeInv, Dirs
    <2>3. /\ disk' = [disk EXCEPT !.objects = more, !.dirs = made]
          /\ loose' = [loose EXCEPT !.objects = lost, !.dirs = fresh]
      BY <1>2
    <2> HIDE DEF more, lost, made, fresh
    <2>4. disk' \in [dirs : SUBSET Dirs, objects : SUBSET (Tables \X Rows),
                     commits : SUBSET Seq(States), head : Seq(States)]
      BY <2>1, <2>2, <2>3 DEF TypeInv
    <2>5. loose' \in [dirs : SUBSET Dirs, objects : SUBSET (Tables \X Rows),
                      commits : SUBSET Seq(States), heads : SUBSET Seq(States)]
      BY <2>1, <2>2, <2>3 DEF TypeInv
    <2> QED BY <2>4, <2>5
  <1> HIDE DEF c
  <1>9. Based(p)'
    BY <1>1, <1>3, <1>4, <1>5, <1>7, Holder DEF Based, At, First, Holding
  <1>10. Written(p)'
    <2>1. Tables \ c.left = (Tables \ conn[p].left) \cup {t}
      BY <1>3, <1>7
    <2>2. \A u \in Tables \ c.left : Object(p, u) \in disk'.objects
      BY <1>1, <1>7, <2>1, Holder DEF Written, Holding
    <2> QED BY <1>3, <1>5, <1>6, <2>2 DEF Written, At, Holding
  <1>11. Heads' /\ Directories'
    BY <1>4, <1>7 DEF Heads, Directories, Dirs, Inv
  <1>12. reused' \/ Solid(disk.head)'
    BY <1>2, <1>4, <1>7 DEF Inv, Solid, Contents
  <1> QED BY <1>1, <1>2, <1>3, <1>4, <1>8, <1>9, <1>10, <1>11, <1>12, HolderOnly, Holder
       DEF c, TypeInv

LEMMA SyncsObjectKeeps ==
  ASSUME Inv, NEW p \in Procs, SyncsObject(p)
  PROVE  Inv'
  <1> DEFINE c == [conn[p] EXCEPT !.step = "objects", !.risky = FALSE]
  <1>1. conn[p].step = "object" /\ conn[p].step \in Holding
    BY DEF SyncsObject, At, Holding
  <1>2. /\ Becomes(p, c) /\ loose' = [loose EXCEPT !.objects = {}]
        /\ UNCHANGED <<legacy, disk, told, reused, lock>>
    BY DEF SyncsObject, OnDisk
  <1>3. /\ c \in Connection /\ c.left = conn[p].left /\ c.step = "objects"
        /\ c.head = conn[p].head /\ c.work = conn[p].work
    BY <1>1, Holder DEF Connection, Steps, Holding
  <1>4. conn'[p] = c
    BY <1>1, <1>2, Holder DEF Becomes
  <1>5. \A u \in Tables : Object(p, u)' = Object(p, u)
    BY <1>3, <1>4 DEF Object
  <1>6. /\ loose'.objects = {} /\ loose'.heads = loose.heads /\ loose'.commits = loose.commits
        /\ loose'.dirs = loose.dirs
        /\ loose' \in [dirs : SUBSET Dirs, objects : SUBSET (Tables \X Rows),
                       commits : SUBSET Seq(States), heads : SUBSET Seq(States)]
    BY <1>1, <1>2, Holder DEF TypeInv
  <1> HIDE DEF c
  <1>7. Based(p)' /\ Written(p)'
    BY <1>1, <1>2, <1>3, <1>4, <1>5, <1>6, Holder DEF Based, Written, At, First, Holding
  <1>8. Heads' /\ Directories' /\ (reused' \/ Solid(disk.head)')
    BY <1>2, <1>6 DEF Inv, Heads, Directories, Solid, Contents
  <1> QED BY <1>1, <1>2, <1>3, <1>6, <1>7, <1>8, HolderOnly, Holder DEF TypeInv

LEMMA UsesCommitKeeps ==
  ASSUME Inv, NEW p \in Procs, UsesCommit(p)
  PROVE  Inv'
  <1> DEFINE c == [conn[p] EXCEPT !.step = "candidate",
                                  !.risky = @ \/ Candidate(p) \in loose.commits]
  <1>1. conn[p].step = "objects" /\ conn[p].step \in Holding
    BY DEF UsesCommit, At, Holding
  <1>2. /\ Becomes(p, c) /\ conn[p].left = {} /\ Candidate(p) \in disk.commits
        /\ UNCHANGED <<legacy, disk, loose, told, reused, lock>>
    BY DEF UsesCommit, OnDisk
  <1>3. /\ c \in Connection /\ c.left = conn[p].left /\ c.step = "candidate"
        /\ c.head = conn[p].head /\ c.work = conn[p].work
        /\ c.risky <=> (conn[p].risky \/ Candidate(p) \in loose.commits)
    BY <1>1, Holder DEF Connection, Steps, Holding
  <1>4. conn'[p] = c
    BY <1>1, <1>2, Holder DEF Becomes
  <1>5. Candidate(p)' = Candidate(p) /\ \A u \in Tables : Object(p, u)' = Object(p, u)
    BY <1>3, <1>4 DEF Object, Candidate
  <1> HIDE DEF c
  <1>6. Based(p)' /\ Written(p)'
    BY <1>1, <1>2, <1>3, <1>4, <1>5, Holder DEF Based, Written, At, First, Holding
  <1> QED BY <1>2, <1>3, <1>6, ConnectionOnly

LEMMA WritesCommitKeeps ==
  ASSUME Inv, NEW p \in Procs, WritesCommit(p)
  PROVE  Inv'
  <1> DEFINE c == [conn[p] EXCEPT !.step = "commit"]
  <1>1. conn[p].step = "objects" /\ conn[p].step \in Holding
    BY DEF WritesCommit, At, Holding
  <1>2. /\ Becomes(p, c) /\ conn[p].left = {} /\ Candidate(p) \notin disk.commits
        /\ disk' = [disk EXCEPT !.commits = @ \cup {Candidate(p)},
                                !.dirs = @ \cup {"state", "commits"}]
        /\ loose' = [loose EXCEPT !.commits = @ \cup {Candidate(p)},
                                  !.dirs = @ \cup ({"state", "commits"} \ disk.dirs)]
        /\ UNCHANGED <<legacy, told, reused, lock>>
    BY DEF WritesCommit, OnDisk
  <1>3. /\ c \in Connection /\ c.left = conn[p].left /\ c.step = "commit"
        /\ c.head = conn[p].head /\ c.work = conn[p].work /\ c.risky = conn[p].risky
    BY <1>1, Holder DEF Connection, Steps, Holding
  <1>4. conn'[p] = c
    BY <1>1, <1>2, Holder DEF Becomes
  <1>5. Candidate(p)' = Candidate(p) /\ \A u \in Tables : Object(p, u)' = Object(p, u)
    BY <1>3, <1>4 DEF Object, Candidate
  <1>6. /\ disk'.objects = disk.objects /\ disk'.head = disk.head
        /\ disk'.commits = disk.commits \cup {Candidate(p)}
        /\ disk'.dirs = disk.dirs \cup {"state", "commits"}
        /\ loose'.objects = loose.objects /\ loose'.heads = loose.heads
        /\ loose'.commits = loose.commits \cup {Candidate(p)}
        /\ loose'.dirs = loose.dirs \cup ({"state", "commits"} \ disk.dirs)
    BY <1>1, <1>2, Holder DEF TypeInv
  <1>7. /\ disk' \in [dirs : SUBSET Dirs, objects : SUBSET (Tables \X Rows),
                      commits : SUBSET Seq(States), head : Seq(States)]
        /\ loose' \in [dirs : SUBSET Dirs, objects : SUBSET (Tables \X Rows),
                       commits : SUBSET Seq(States), heads : SUBSET Seq(States)]
    <2> DEFINE more == disk.commits \cup {Candidate(p)}
               lost == loose.commits \cup {Candidate(p)}
               made == disk.dirs \cup {"state", "commits"}
               fresh == loose.dirs \cup ({"state", "commits"} \ disk.dirs)
    <2>1. TypeInv /\ Candidate(p) \in Seq(States)
      BY <1>1, Holder
    <2>2. /\ more \in SUBSET Seq(States) /\ lost \in SUBSET Seq(States)
          /\ made \in SUBSET Dirs /\ fresh \in SUBSET Dirs
      BY <2>1 DEF TypeInv, Dirs
    <2>3. /\ disk' = [disk EXCEPT !.commits = more, !.dirs = made]
          /\ loose' = [loose EXCEPT !.commits = lost, !.dirs = fresh]
      BY <1>2
    <2> HIDE DEF more, lost, made, fresh
    <2>4. disk' \in [dirs : SUBSET Dirs, objects : SUBSET (Tables \X Rows),
                     commits : SUBSET Seq(States), head : Seq(States)]
      BY <2>1, <2>2, <2>3 DEF TypeInv
    <2>5. loose' \in [dirs : SUBSET Dirs, objects : SUBSET (Tables \X Rows),
                      commits : SUBSET Seq(States), heads : SUBSET Seq(States)]
      BY <2>1, <2>2, <2>3 DEF TypeInv
    <2> QED BY <2>4, <2>5
  <1> HIDE DEF c
  <1>8. Based(p)' /\ Written(p)'
    BY <1>1, <1>2, <1>3, <1>4, <1>5, <1>6, Holder DEF Based, Written, At, First, Holding
  <1>9. Heads' /\ Directories'
    BY <1>2, <1>6 DEF Heads, Directories, Dirs, Inv
  <1>10. reused' \/ Solid(disk.head)'
    <2>1. ASSUME Solid(disk.head), NEW n \in 1 .. Len(disk.head)
          PROVE  /\ SubSeq(disk.head, 1, n) \in disk'.commits \ loose'.commits
                 /\ Contents(disk.head, n) \subseteq disk'.objects \ loose'.objects
      BY <1>2, <1>6, <2>1 DEF Solid
    <2>2. Solid(disk.head) => Solid(disk.head)'
      BY <1>6, <2>1 DEF Solid, Contents
    <2> QED BY <1>2, <2>2 DEF Inv
  <1> QED BY <1>1, <1>2, <1>3, <1>7, <1>8, <1>9, <1>10, HolderOnly, Holder DEF TypeInv

LEMMA SyncsCommitKeeps ==
  ASSUME Inv, NEW p \in Procs, SyncsCommit(p)
  PROVE  Inv'
  <1> DEFINE c == [conn[p] EXCEPT !.step = "candidate"]
  <1>1. conn[p].step = "commit" /\ conn[p].step \in Holding
    BY DEF SyncsCommit, At, Holding
  <1>2. /\ Becomes(p, c) /\ loose' = [loose EXCEPT !.commits = {}]
        /\ UNCHANGED <<legacy, disk, told, reused, lock>>
    BY DEF SyncsCommit, OnDisk
  <1>3. /\ c \in Connection /\ c.left = conn[p].left /\ c.step = "candidate"
        /\ c.head = conn[p].head /\ c.work = conn[p].work /\ c.risky = conn[p].risky
    BY <1>1, Holder DEF Connection, Steps, Holding
  <1>4. conn'[p] = c
    BY <1>1, <1>2, Holder DEF Becomes
  <1>5. Candidate(p)' = Candidate(p) /\ \A u \in Tables : Object(p, u)' = Object(p, u)
    BY <1>3, <1>4 DEF Object, Candidate
  <1>6. /\ loose'.objects = loose.objects /\ loose'.heads = loose.heads /\ loose'.commits = {}
        /\ loose'.dirs = loose.dirs
        /\ loose' \in [dirs : SUBSET Dirs, objects : SUBSET (Tables \X Rows),
                       commits : SUBSET Seq(States), heads : SUBSET Seq(States)]
    BY <1>1, <1>2, Holder DEF TypeInv
  <1> HIDE DEF c
  <1>7. Based(p)' /\ Written(p)'
    BY <1>1, <1>2, <1>3, <1>4, <1>5, <1>6, Holder DEF Based, Written, At, First, Holding
  <1>8. Heads' /\ Directories' /\ (reused' \/ Solid(disk.head)')
    BY <1>2, <1>6 DEF Inv, Heads, Directories, Solid, Contents
  <1> QED BY <1>1, <1>2, <1>3, <1>6, <1>7, <1>8, HolderOnly, Holder DEF TypeInv

LEMMA SyncsDirectoriesKeeps ==
  ASSUME Inv, NEW p \in Procs, SyncsDirectories(p)
  PROVE  Inv'
  <1> DEFINE c == [conn[p] EXCEPT !.step = "ready"]
  <1>1. conn[p].step = "candidate" /\ conn[p].step \in Holding
    BY DEF SyncsDirectories, At, Holding
  <1>2. /\ Becomes(p, c) /\ loose' = [loose EXCEPT !.dirs = {}, !.heads = {}]
        /\ UNCHANGED <<legacy, disk, told, reused, lock>>
    BY DEF SyncsDirectories, OnDisk
  <1>3. /\ c \in Connection /\ c.left = conn[p].left /\ c.step = "ready"
        /\ c.head = conn[p].head /\ c.work = conn[p].work /\ c.risky = conn[p].risky
    BY <1>1, Holder DEF Connection, Steps, Holding
  <1>4. conn'[p] = c
    BY <1>1, <1>2, Holder DEF Becomes
  <1>5. Candidate(p)' = Candidate(p) /\ \A u \in Tables : Object(p, u)' = Object(p, u)
    BY <1>3, <1>4 DEF Object, Candidate
  <1>6. /\ loose'.objects = loose.objects /\ loose'.heads = {} /\ loose'.commits = loose.commits
        /\ loose'.dirs = {}
        /\ loose' \in [dirs : SUBSET Dirs, objects : SUBSET (Tables \X Rows),
                       commits : SUBSET Seq(States), heads : SUBSET Seq(States)]
    BY <1>1, <1>2, Holder DEF TypeInv
  <1> HIDE DEF c
  <1>7. disk.dirs = Dirs
    <2>1. /\ conn[p].left = {} /\ Candidate(p) \in disk.commits
          /\ \A t \in Tables : Object(p, t) \in disk.objects
      BY <1>1, Holder DEF Written, Holding
    <2>2. disk.commits # {} /\ disk.objects # {}
      BY <2>1, StatesAreNotNone
    <2> QED BY <2>2 DEF Inv, Directories, TypeInv, Dirs
  <1>8. Based(p)' /\ Written(p)'
    BY <1>1, <1>2, <1>3, <1>4, <1>5, <1>6, <1>7, Holder DEF Based, Written, At, First, Holding
  <1>9. Heads' /\ Directories' /\ (reused' \/ Solid(disk.head)')
    BY <1>2, <1>6 DEF Inv, Heads, Directories, Solid, Contents
  <1> QED BY <1>1, <1>2, <1>3, <1>6, <1>8, <1>9, HolderOnly, Holder DEF TypeInv

LEMMA ReplacesHeadKeeps ==
  ASSUME Inv, NEW p \in Procs, ReplacesHead(p)
  PROVE  Inv'
  <1> DEFINE c == [conn[p] EXCEPT !.step = "head"]
             h == conn[p].head
  <1>1. conn[p].step = "ready" /\ conn[p].step \in Holding /\ h = disk.head
    BY Holder DEF ReplacesHead, At, Holding, Based
  <1>2. /\ Becomes(p, c) /\ disk' = [disk EXCEPT !.head = Candidate(p)]
        /\ loose' = [loose EXCEPT !.heads = @ \cup {disk.head}]
        /\ reused' = (reused \/ conn[p].risky)
        /\ UNCHANGED <<legacy, told, lock>>
    BY DEF ReplacesHead, OnDisk
  <1>3. /\ c \in Connection /\ c.left = conn[p].left /\ c.step = "head"
        /\ c.head = conn[p].head /\ c.work = conn[p].work /\ c.risky = conn[p].risky
    BY <1>1, Holder DEF Connection, Steps, Holding
  <1>4. conn'[p] = c
    BY <1>1, <1>2, Holder DEF Becomes
  <1>5. Candidate(p)' = Candidate(p)
    BY <1>3, <1>4 DEF Candidate
  <1>6. /\ disk'.objects = disk.objects /\ disk'.commits = disk.commits /\ disk'.dirs = disk.dirs
        /\ disk'.head = Candidate(p)
        /\ loose'.objects = loose.objects /\ loose'.commits = loose.commits
        /\ loose'.dirs = loose.dirs /\ loose'.heads = loose.heads \cup {h}
    BY <1>1, <1>2, Holder DEF TypeInv
  <1>7. /\ disk' \in [dirs : SUBSET Dirs, objects : SUBSET (Tables \X Rows),
                      commits : SUBSET Seq(States), head : Seq(States)]
        /\ loose' \in [dirs : SUBSET Dirs, objects : SUBSET (Tables \X Rows),
                       commits : SUBSET Seq(States), heads : SUBSET Seq(States)]
        /\ reused' \in BOOLEAN
    BY <1>1, <1>2, <1>6, Holder DEF TypeInv, Connection
  <1>8. Based(p)' /\ Written(p)'
    <2> HIDE DEF c
    <2> QED BY <1>1, <1>2, <1>3, <1>4, <1>5, <1>6, Holder DEF Based, Written, At, First, Holding
  <1>9. /\ conn[p].left = {} /\ Candidate(p) \in disk.commits /\ disk.dirs = Dirs /\ loose.dirs = {}
        /\ \A t \in Tables : Object(p, t) \in disk.objects
        /\ ~conn[p].risky => /\ Candidate(p) \notin loose.commits
                             /\ \A t \in Tables : Object(p, t) \notin loose.objects
    BY <1>1, Holder DEF Written, Holding, At
  <1>10. Heads' /\ Directories'
    <2>1. ASSUME NEW g \in Seq(States), IsPrefix(g, h) PROVE IsPrefix(g, Candidate(p))
      BY <1>1, <2>1, Holder, PrefixTransitive
    <2>2. told \in Seq(States) /\ loose.heads \subseteq Seq(States)
      BY <1>1, Holder DEF TypeInv
    <2>3. IsPrefix(told, h) /\ \A g \in loose.heads : IsPrefix(told, g) /\ IsPrefix(g, h)
      BY <1>1 DEF Inv, Heads
    <2>4. IsPrefix(h, Candidate(p))
      BY <1>1, Holder
    <2>5. /\ IsPrefix(told, Candidate(p))
          /\ \A g \in loose.heads \cup {h} : IsPrefix(told, g) /\ IsPrefix(g, Candidate(p))
      BY <2>1, <2>2, <2>3, <2>4
    <2>6. Heads'
      BY <1>2, <1>6, <1>9, <2>5 DEF Heads
    <2> QED BY <1>6, <2>6 DEF Directories, Inv
  <1>11. ASSUME ~reused' PROVE Solid(disk.head)'
    <2>1. Solid(h) /\ ~conn[p].risky
      BY <1>1, <1>2, <1>11 DEF Inv
    <2>2. /\ h \in Seq(States) /\ conn[p].work \in States /\ Len(h) \in Nat
          /\ Candidate(p) = Append(h, conn[p].work)
      BY <1>1, Holder, LenProperties DEF Candidate
    <2>3. /\ Len(Candidate(p)) = Len(h) + 1 /\ Candidate(p)[Len(h) + 1] = conn[p].work
          /\ SubSeq(Candidate(p), 1, Len(h) + 1) = Candidate(p)
          /\ \A n \in 1 .. Len(h) : /\ SubSeq(Candidate(p), 1, n) = SubSeq(h, 1, n)
                                    /\ Candidate(p)[n] = h[n]
      BY <2>2, LastOfAppend
    <2>4. ASSUME NEW n \in 1 .. Len(Candidate(p))
          PROVE  /\ SubSeq(Candidate(p), 1, n) \in disk.commits \ loose.commits
                 /\ Contents(Candidate(p), n) \subseteq disk.objects \ loose.objects
      <3>1. CASE n = Len(h) + 1
        <4>1. Contents(Candidate(p), n) = {Object(p, t) : t \in Tables}
          BY <2>3, <3>1 DEF Contents, Object
        <4> QED BY <1>9, <2>1, <2>3, <3>1, <4>1
      <3>2. CASE n \in 1 .. Len(h)
        <4>1. Contents(Candidate(p), n) = Contents(h, n)
          BY <2>3, <3>2 DEF Contents
        <4> QED BY <2>1, <2>3, <3>2, <4>1 DEF Solid
      <3> QED BY <2>2, <2>3, <3>1, <3>2
    <2>5. Solid(Candidate(p))
      BY <2>4 DEF Solid
    <2> QED BY <1>6, <2>5 DEF Solid, Contents
  <1> QED BY <1>1, <1>2, <1>3, <1>7, <1>8, <1>10, <1>11, HolderOnly, Holder DEF TypeInv

LEMMA SyncsHeadKeeps ==
  ASSUME Inv, NEW p \in Procs, SyncsHead(p)
  PROVE  Inv'
  <1> DEFINE c == Committed(p)
  <1>1. conn[p].step = "head" /\ conn[p].step \in Holding /\ disk.head = Candidate(p)
    BY Holder DEF SyncsHead, At, Holding, Based
  <1>2. /\ Becomes(p, c) /\ lock' = None /\ lock = p /\ told' = Candidate(p)
        /\ loose' = [loose EXCEPT !.heads = {}]
        /\ UNCHANGED <<legacy, disk, reused>>
    BY <1>1, Holder DEF SyncsHead
  <1>3. /\ c \in Connection
        /\ c = Closed \/ (c.step = "open" /\ c.work \in States /\ c.head # <<>>)
    <2>1. Closed \in Connection
      BY EmptySeq DEF Connection, Closed, Steps
    <2>2. /\ Candidate(p) \in Seq(States) /\ Candidate(p) # <<>> /\ conn[p].work \in States
          /\ conn[p].work \in States \cup {None}
      BY <1>1, Holder
    <2> QED BY <2>1, <2>2 DEF Committed, Connection, Closed, Steps
  <1>4. conn'[p] = c
    BY <1>1, <1>2, Holder DEF Becomes
  <1>5. /\ loose'.objects = loose.objects /\ loose'.heads = {} /\ loose'.commits = loose.commits
        /\ loose'.dirs = loose.dirs
        /\ loose' \in [dirs : SUBSET Dirs, objects : SUBSET (Tables \X Rows),
                       commits : SUBSET Seq(States), heads : SUBSET Seq(States)]
    BY <1>1, <1>2, Holder DEF TypeInv
  <1>6. Based(p)' /\ Written(p)'
    <2> HIDE DEF c
    <2>1. lock' # p
      BY <1>2, StatesAreNotNone
    <2> QED BY <1>3, <1>4, <2>1 DEF Based, Written, At, Closed, Holding, First
  <1>7. Heads' /\ Directories' /\ (reused' \/ Solid(disk.head)')
    <2>1. IsPrefix(Candidate(p), Candidate(p)) /\ Candidate(p) \in Seq(States)
      BY <1>1, Holder, PrefixReflexive
    <2> QED BY <1>1, <1>2, <1>5, <2>1 DEF Inv, Heads, Directories, Solid, Contents
  <1> QED BY <1>1, <1>2, <1>3, <1>5, <1>6, <1>7, HolderOnly, Holder DEF TypeInv

\* Only the head of a state that was never told of, or told and synced, is lost.
LEMMA AfterPowerLoss ==
  ASSUME Inv, PowerLoss
  PROVE  /\ disk'.head \in Seq(States) /\ IsPrefix(told, disk'.head)
         /\ IsPrefix(disk'.head, disk.head)
         /\ disk'.objects \subseteq disk.objects /\ disk'.commits \subseteq disk.commits
         /\ disk'.dirs \subseteq disk.dirs
         /\ disk' \in [dirs : SUBSET Dirs, objects : SUBSET (Tables \X Rows),
                       commits : SUBSET Seq(States), head : Seq(States)]
         /\ disk'.head # <<>> => /\ disk'.dirs = Dirs
                                 /\ disk.objects \ loose.objects \subseteq disk'.objects
                                 /\ disk.commits \ loose.commits \subseteq disk'.commits
         /\ disk'.objects # {} => {"state", "objects"} \subseteq disk'.dirs
         /\ disk'.commits # {} => {"state", "commits"} \subseteq disk'.dirs
  <1>1. PICK dirs \in SUBSET loose.dirs, objects \in SUBSET loose.objects,
             commits \in SUBSET loose.commits, head \in loose.heads \cup {disk.head} :
          disk' = IF "state" \in dirs THEN Blank
                  ELSE [dirs    |-> disk.dirs \ dirs,
                        objects |-> IF "objects" \in dirs THEN {} ELSE disk.objects \ objects,
                        commits |-> IF "commits" \in dirs THEN {} ELSE disk.commits \ commits,
                        head    |-> head]
    BY DEF PowerLoss
  <1>2. /\ TypeInv /\ Heads /\ Directories /\ told \in Seq(States) /\ disk.head \in Seq(States)
        /\ <<>> \in Seq(States) /\ loose.heads \subseteq Seq(States)
    BY EmptySeq DEF Inv, TypeInv
  <1>3. /\ head \in Seq(States) /\ IsPrefix(told, head) /\ IsPrefix(head, disk.head)
    BY <1>2, PrefixReflexive DEF Heads
  <1>4. CASE disk.head # <<>>
    <2>1. disk.dirs = Dirs /\ dirs = {}
      BY <1>2, <1>4 DEF Heads
    <2>2. disk' = [dirs |-> disk.dirs, objects |-> disk.objects \ objects,
                   commits |-> disk.commits \ commits, head |-> head]
      BY <1>1, <2>1
    <2> QED BY <1>2, <1>3, <2>1, <2>2 DEF TypeInv, Dirs
  <1>5. CASE disk.head = <<>>
    <2>1. head = <<>> /\ told = <<>>
      BY <1>2, <1>3, <1>5, OnlyEmpty, PrefixTransitive
    <2>2. IsPrefix(<<>>, <<>>)
      BY <1>2, EmptyIsPrefix
    <2>3. CASE "state" \in dirs
      <3>1. disk' = Blank
        BY <1>1, <2>3
      <3> QED BY <1>2, <1>5, <2>1, <2>2, <3>1 DEF Blank, TypeInv
    <2>4. CASE "state" \notin dirs
      <3> DEFINE o == IF "objects" \in dirs THEN {} ELSE disk.objects \ objects
                 m == IF "commits" \in dirs THEN {} ELSE disk.commits \ commits
      <3>1. disk' = [dirs |-> disk.dirs \ dirs, objects |-> o, commits |-> m, head |-> <<>>]
        BY <1>1, <2>1, <2>4
      <3>2. /\ o \subseteq disk.objects /\ m \subseteq disk.commits
            /\ o # {} => {"state", "objects"} \subseteq disk.dirs \ dirs
            /\ m # {} => {"state", "commits"} \subseteq disk.dirs \ dirs
        BY <1>2, <2>4 DEF Directories
      <3> HIDE DEF o, m
      <3> QED BY <1>2, <1>5, <2>1, <2>2, <3>1, <3>2 DEF TypeInv
    <2> QED BY <2>3, <2>4
  <1> QED BY <1>4, <1>5

LEMMA PowerLossKeeps == ASSUME Inv, PowerLoss PROVE Inv'
  <1>1. /\ loose' = Synced /\ lock' = None /\ conn' = [p \in Procs |-> Closed]
        /\ UNCHANGED <<legacy, told, reused>>
    BY DEF PowerLoss
  <1>2. <<>> \in Seq(States) /\ Closed \in Connection
    BY EmptySeq DEF Connection, Closed, Steps
  <1>3. TypeInv'
    BY <1>1, <1>2, AfterPowerLoss DEF Inv, TypeInv, Synced
  <1>4. \A p \in Procs : Based(p)' /\ Written(p)'
    BY <1>1, StatesAreNotNone DEF Based, Written, At, Closed, Holding
  <1>5. Heads' /\ Directories'
    BY <1>1, AfterPowerLoss DEF Heads, Directories, Synced
  <1>6. ASSUME ~reused' PROVE Solid(disk.head)'
    <2> DEFINE g == disk'.head
    <2>1. Solid(disk.head) /\ disk.head \in Seq(States)
      BY <1>1, <1>6 DEF Inv, TypeInv
    <2>2. Solid(g)
      BY <2>1, AfterPowerLoss, PrefixIsSolid
    <2>3. CASE g # <<>>
      BY <1>1, <2>2, <2>3, AfterPowerLoss DEF Solid, Contents, Synced
    <2>4. CASE g = <<>>
      <3>1. 1 .. Len(g) = {}
        BY <2>4, EmptySeq
      <3> QED BY <3>1 DEF Solid
    <2> QED BY <2>3, <2>4
  <1> QED BY <1>3, <1>4, <1>5, <1>6 DEF Inv

LEMMA StepInv == ASSUME Inv, [Next]_vars PROVE Inv'
  <1>1. CASE Next
    <2>1. CASE PowerLoss
      BY <2>1, PowerLossKeeps
    <2>2. ASSUME NEW p \in Procs,
                 \/ Opens(p) \/ Loads(p) \/ Creates(p) \/ Migrates(p) \/ Changes(p) \/ Closes(p)
                 \/ CommitBegins(p) \/ CommitRefused(p) \/ Commits(p) \/ CommitFails(p) \/ Dies(p)
          PROVE  Inv'
      BY <2>2, OpeningKeeps, CommitBeginsKeeps, GivingUpKeeps, UsesObjectKeeps, WritesObjectKeeps,
         SyncsObjectKeeps, UsesCommitKeeps, WritesCommitKeeps, SyncsCommitKeeps,
         SyncsDirectoriesKeeps, ReplacesHeadKeeps, SyncsHeadKeeps DEF Commits
    <2> QED BY <1>1, <2>1, <2>2 DEF Next
  <1>2. CASE UNCHANGED vars
    BY <1>2 DEF vars, Inv, TypeInv, Based, Written, Heads, Directories, Solid, Contents,
                At, First, Candidate, Object, Connection
  <1> QED BY <1>1, <1>2

THEOREM FilesInvariant == Spec => []Inv
  <1>1. Init => Inv
    BY InitInv
  <1>2. Inv /\ [Next]_vars => Inv'
    BY StepInv
  <1> QED BY <1>1, <1>2, PTL DEF Spec

-----------------------------------------------------------------------------

(* Every revision that HEAD stands on can be read, for any processes and   *)
(* tables, however often they die and the power fails (_write_object,      *)
(* publish, load_state).                                                   *)
THEOREM EveryRevisionIsReadable == Spec => []CommittedIsReadable
  <1>1. Inv => CommittedIsReadable
    BY DEF Inv, CommittedIsReadable, HeadIsDurable, Solid
  <1> QED BY <1>1, FilesInvariant, PTL

-----------------------------------------------------------------------------

\* The state of the log that the files stand for.
Views == [p \in Procs |-> IF conn[p] = Closed THEN None ELSE conn[p].head]
Writer == IF lock # None /\ conn[lock].step = "head" THEN lock ELSE None

LEMMA LogStutters ==
  ASSUME Views' = Views, Writer' = Writer, UNCHANGED <<legacy, disk, told>>
  PROVE  UNCHANGED Log!vars
  BY DEF Log!vars, Views, Writer, First

LEMMA LogOpens ==
  ASSUME NEW p \in Procs, Views[p] = None, Views' = [Views EXCEPT ![p] = disk.head],
         Writer' = Writer, UNCHANGED <<legacy, disk, told>>
  PROVE  Log!Next
  <1>1. Log!Opens(p)
    BY DEF Log!Opens, Views, Writer, First
  <1> QED BY <1>1 DEF Log!Next

LEMMA LogCloses ==
  ASSUME NEW p \in Procs, Views' = [Views EXCEPT ![p] = None],
         Writer' = IF Writer = p THEN None ELSE Writer, UNCHANGED <<legacy, disk, told>>
  PROVE  Log!Next
  <1>1. Log!Closes(p)
    BY DEF Log!Closes, Views, Writer, First
  <1> QED BY <1>1 DEF Log!Next

LEMMA LogLoses ==
  ASSUME NEW p \in Procs, Writer = p, Writer' = None, Views' = Views,
         UNCHANGED <<legacy, disk, told>>
  PROVE  Log!Next
  <1>1. Log!Loses(p)
    BY DEF Log!Loses, Views, Writer, First
  <1> QED BY <1>1 DEF Log!Next

LEMMA LogLearns ==
  ASSUME NEW p \in Procs, Writer = p, Writer' = None, told' = disk.head,
         UNCHANGED <<legacy, disk>>,
         \/ Views' = [Views EXCEPT ![p] = disk.head]
         \/ Views' = [Views EXCEPT ![p] = None]
  PROVE  Log!Next
  <1>1. Log!Learns(p)
    BY DEF Log!Learns, Views, Writer, First
  <1> QED BY <1>1 DEF Log!Next

LEMMA LogPublishes ==
  ASSUME NEW p \in Procs, NEW s \in States, Views[p] = disk.head, Views' = Views, Writer' = p,
         disk'.head = Append(disk.head, s), disk.head = <<>> => s = First,
         UNCHANGED <<legacy, told>>
  PROVE  Log!Next
  <1>1. s \in IF disk.head = <<>> THEN {First} ELSE States
    OBVIOUS
  <1>2. Log!Publishes(p)
    BY <1>1 DEF Log!Publishes, Views, Writer, First
  <1> QED BY <1>2 DEF Log!Next

\* What one connection's change does to the log's state.
LEMMA Seen ==
  ASSUME Inv, NEW p \in Procs, NEW c \in Connection, Becomes(p, c)
  PROVE  /\ Views' = [Views EXCEPT ![p] = IF c = Closed THEN None ELSE c.head]
         /\ Views[p] = IF conn[p] = Closed THEN None ELSE conn[p].head
         /\ Views[p] = None <=> conn[p].step = "closed"
         /\ /\ conn[p].step # "head" /\ c.step # "head"
            /\ lock' = lock \/ (lock \in {p, None} /\ lock' \in {p, None})
            => Writer' = Writer /\ Writer # p
         /\ conn[p].step = "head" => Writer = p
         /\ lock' = None => Writer' = None
         /\ lock' = p /\ c.step = "head" => Writer' = p
         /\ None \notin Procs
  <1>1. /\ conn \in [Procs -> Connection] /\ Based(p) /\ lock \in Procs \cup {None}
        /\ conn' = [conn EXCEPT ![p] = c] /\ None \notin Procs /\ p # None
        /\ conn[p].head \in Seq(States) /\ conn[p].head # None
    BY StatesAreNotNone DEF Inv, TypeInv, Becomes, Connection
  <1>2. /\ Views' = [Views EXCEPT ![p] = IF c = Closed THEN None ELSE c.head]
        /\ Views[p] = IF conn[p] = Closed THEN None ELSE conn[p].head
    BY <1>1 DEF Views
  <1>3. Views[p] = None <=> conn[p].step = "closed"
    BY <1>1, <1>2 DEF Based, At, Closed
  <1>4. conn[p].step = "head" => Writer = p
    BY <1>1 DEF Based, Holding, Writer
  <1>5. /\ lock' = None => Writer' = None
        /\ lock' = p /\ c.step = "head" => Writer' = p
    BY <1>1 DEF Writer
  <1>6. ASSUME conn[p].step # "head", c.step # "head",
               lock' = lock \/ (lock \in {p, None} /\ lock' \in {p, None})
        PROVE  Writer' = Writer /\ Writer # p
    <2>1. CASE lock \in {p, None} /\ lock' \in {p, None}
      BY <1>1, <1>6, <2>1 DEF Writer
    <2>2. CASE lock' = lock /\ lock \notin {p, None}
      <3>1. conn'[lock] = conn[lock]
        BY <1>1, <2>2
      <3> QED BY <1>1, <2>2, <3>1 DEF Writer
    <2> QED BY <1>6, <2>1, <2>2
  <1> QED BY <1>1, <1>2, <1>3, <1>4, <1>5, <1>6

\* A connection that keeps what it has read stutters, whatever it writes.
LEMMA KeepsItsView ==
  ASSUME Inv, NEW p \in Procs, NEW c \in Connection, Becomes(p, c),
         conn[p].step \notin {"closed", "head"}, c.step \notin {"closed", "head"},
         c.head = conn[p].head,
         lock' = lock \/ (lock \in {p, None} /\ lock' \in {p, None})
  PROVE  Views' = Views /\ Writer' = Writer
  <1>1. c # Closed /\ conn[p] # Closed
    BY DEF Closed
  <1>2. Views' = [Views EXCEPT ![p] = Views[p]] /\ Writer' = Writer
    BY <1>1, Seen
  <1> QED BY <1>2 DEF Views

LEMMA OpeningImplements ==
  ASSUME Inv, NEW p \in Procs,
         Opens(p) \/ Loads(p) \/ Creates(p) \/ Migrates(p) \/ Changes(p) \/ Closes(p)
  PROVE  Log!Next \/ UNCHANGED Log!vars
  <1>1. /\ UNCHANGED <<legacy, disk, told, lock>> /\ conn[p] \in Connection /\ <<>> \in Seq(States)
        /\ Closed \in Connection /\ disk.head \in Seq(States) /\ First \in States
    BY EmptySeq, StatesAreNotNone
       DEF Opens, Loads, Creates, Migrates, Changes, Closes, OnDisk, Inv, TypeInv,
           Connection, Closed, Steps
  <1>2. CASE Opens(p)
    <2> DEFINE c == [Closed EXCEPT !.step = "reading", !.head = disk.head]
    <2>1. /\ c \in Connection /\ c.step = "reading" /\ c.head = disk.head /\ c # Closed
          /\ Becomes(p, c) /\ conn[p].step = "closed"
      BY <1>1, <1>2 DEF Opens, At, Closed, Connection, Steps
    <2> HIDE DEF c
    <2>2. /\ Views[p] = None /\ Views' = [Views EXCEPT ![p] = disk.head] /\ Writer' = Writer
      BY <1>1, <2>1, Seen
    <2> QED BY <1>1, <2>2, LogOpens
  <1>3. CASE Creates(p) \/ Migrates(p)
    <2> DEFINE c == [Closed EXCEPT !.step = "open", !.work = First]
    <2>1. /\ c \in Connection /\ c.step = "open" /\ c.head = disk.head /\ c # Closed
          /\ Becomes(p, c) /\ conn[p].step = "closed"
      BY <1>1, <1>3 DEF Creates, Migrates, At, Closed, Connection, Steps
    <2> HIDE DEF c
    <2>2. /\ Views[p] = None /\ Views' = [Views EXCEPT ![p] = disk.head] /\ Writer' = Writer
      BY <1>1, <2>1, Seen
    <2> QED BY <1>1, <2>2, LogOpens
  <1>4. ASSUME conn[p].step \in {"reading", "open"}, Becomes(p, Closed)
        PROVE  Log!Next
    <2>1. Views' = [Views EXCEPT ![p] = None] /\ Writer' = Writer /\ Writer # p
      BY <1>1, <1>4, Seen DEF Closed
    <2> QED BY <1>1, <2>1, LogCloses
  <1>5. ASSUME conn[p].step \in {"reading", "open"}, NEW c \in Connection, Becomes(p, c),
               c.step = "open", c.head = conn[p].head
        PROVE  UNCHANGED Log!vars
    <2>1. Views' = Views /\ Writer' = Writer
      BY <1>1, <1>5, KeepsItsView
    <2> QED BY <1>1, <2>1, LogStutters
  <1>6. CASE Loads(p)
    <2>1. CASE Whole(conn[p].head)
      <3> DEFINE c == [conn[p] EXCEPT !.step = "open", !.work = Last(conn[p].head)]
      <3>1. conn[p].step = "reading" /\ Becomes(p, c)
        BY <1>6, <2>1 DEF Loads, At
      <3>2. conn[p].head \in Seq(States) /\ conn[p].head # <<>>
        BY <1>1, <3>1 DEF Inv, Based, At, Connection
      <3>3. c \in Connection /\ c.step = "open" /\ c.head = conn[p].head
        BY <1>1, <3>2, HasLast DEF Connection, Steps
      <3> QED BY <1>5, <3>1, <3>3
    <2>2. CASE ~Whole(conn[p].head)
      BY <1>4, <1>6, <2>2 DEF Loads, At
    <2> QED BY <2>1, <2>2
  <1>7. CASE Changes(p)
    <2>1. PICK s \in States : Becomes(p, [conn[p] EXCEPT !.work = s])
      BY <1>7 DEF Changes
    <2> DEFINE c == [conn[p] EXCEPT !.work = s]
    <2>2. c \in Connection /\ c.step = "open" /\ c.head = conn[p].head /\ conn[p].step = "open"
      BY <1>1, <1>7 DEF Changes, At, Connection
    <2> QED BY <1>5, <2>1, <2>2
  <1>8. CASE Closes(p)
    BY <1>4, <1>8 DEF Closes
  <1> QED BY <1>2, <1>3, <1>6, <1>7, <1>8

LEMMA GivingUpImplements ==
  ASSUME Inv, NEW p \in Procs, CommitRefused(p) \/ CommitFails(p) \/ Dies(p)
  PROVE  Log!Next \/ UNCHANGED Log!vars
  <1>1. Based(p) /\ conn[p] \in Connection /\ conn \in [Procs -> Connection]
    BY DEF Inv, TypeInv
  <1>2. /\ UNCHANGED <<legacy, disk, told>>
        /\ \/ lock' = lock /\ conn[p].step = "open"
           \/ lock = p /\ lock' = None /\ conn[p].step \in Holding
    BY <1>1 DEF CommitRefused, CommitFails, Dies, Interrupted, OnDisk, Based, At
  <1>3. conn[p].step \notin {"closed", "reading"}
    BY <1>2 DEF Holding
  <1>4. PICK c \in {Closed, RolledBack(p)} : Becomes(p, c)
    BY DEF CommitRefused, CommitFails, Dies
  <1>5. c = Closed \/ (c.step = "open" /\ c.head = conn[p].head /\ c # Closed)
    BY <1>4 DEF RolledBack, Closed
  <1>6. c \in Connection
    BY <1>3, <1>4, RolledBackIsBased
  <1>7. CASE c = Closed
    <2>1. Views' = [Views EXCEPT ![p] = None]
      BY <1>4, <1>6, <1>7, Seen
    <2>2. CASE conn[p].step = "head"
      <3>1. Writer = p /\ Writer' = None
        BY <1>2, <1>4, <1>6, <2>2, Seen
      <3> QED BY <1>2, <2>1, <3>1, LogCloses
    <2>3. CASE conn[p].step # "head"
      <3>1. Writer' = Writer /\ Writer # p
        BY <1>2, <1>4, <1>6, <1>7, <2>3, Seen DEF Closed
      <3> QED BY <1>2, <2>1, <3>1, LogCloses
    <2> QED BY <2>2, <2>3
  <1>8. CASE c # Closed
    <2>1. CASE conn[p].step = "head"
      <3>1. Writer = p /\ Writer' = None /\ Views' = [Views EXCEPT ![p] = Views[p]]
        BY <1>2, <1>3, <1>4, <1>5, <1>6, <1>8, <2>1, Seen DEF Closed
      <3>2. Views' = Views
        BY <3>1 DEF Views
      <3> QED BY <1>2, <3>1, <3>2, LogLoses
    <2>2. CASE conn[p].step # "head"
      <3>1. Views' = Views /\ Writer' = Writer
        BY <1>2, <1>3, <1>4, <1>5, <1>6, <1>8, <2>2, KeepsItsView
      <3> QED BY <1>2, <3>1, LogStutters
    <2> QED BY <2>1, <2>2
  <1> QED BY <1>7, <1>8

LEMMA WritingImplements ==
  ASSUME Inv, NEW p \in Procs,
         \/ CommitBegins(p) \/ UsesObject(p) \/ WritesObject(p) \/ SyncsObject(p)
         \/ UsesCommit(p) \/ WritesCommit(p) \/ SyncsCommit(p) \/ SyncsDirectories(p)
  PROVE  UNCHANGED Log!vars
  <1>1. Based(p) /\ conn[p] \in Connection /\ TypeInv /\ conn \in [Procs -> Connection]
    BY DEF Inv, TypeInv
  <1>2. /\ UNCHANGED <<legacy, told>> /\ disk'.head = disk.head
        /\ conn[p].step \notin {"closed", "reading", "head"}
        /\ lock' = lock \/ (lock \in {p, None} /\ lock' \in {p, None})
    BY <1>1 DEF CommitBegins, UsesObject, WritesObject, SyncsObject, UsesCommit, WritesCommit,
                SyncsCommit, SyncsDirectories, OnDisk, At, TypeInv
  <1>3. PICK c \in Connection : /\ Becomes(p, c) /\ c.head = conn[p].head
                                /\ c.step \notin {"closed", "head"}
    <2>1. CASE CommitBegins(p)
      <3> DEFINE c == [conn[p] EXCEPT !.step = "objects", !.left = Tables]
      <3>1. c \in Connection /\ c.head = conn[p].head /\ c.step = "objects" /\ Becomes(p, c)
        BY <1>1, <2>1 DEF CommitBegins, Connection, Steps, Holding
      <3> QED BY <3>1
    <2>2. CASE UsesObject(p)
      <3>1. PICK t \in conn[p].left :
              Becomes(p, [conn[p] EXCEPT !.left = @ \ {t},
                                         !.risky = @ \/ Object(p, t) \in loose.objects])
        BY <2>2 DEF UsesObject
      <3> DEFINE c == [conn[p] EXCEPT !.left = @ \ {t},
                                      !.risky = @ \/ Object(p, t) \in loose.objects]
      <3>2. c \in Connection /\ c.head = conn[p].head /\ c.step = "objects"
        BY <1>1, <2>2 DEF UsesObject, At, Connection
      <3> QED BY <3>1, <3>2
    <2>3. CASE WritesObject(p)
      <3>1. PICK t \in conn[p].left :
              Becomes(p, [conn[p] EXCEPT !.step = "object", !.left = @ \ {t}])
        BY <2>3 DEF WritesObject
      <3> DEFINE c == [conn[p] EXCEPT !.step = "object", !.left = @ \ {t}]
      <3>2. c \in Connection /\ c.head = conn[p].head /\ c.step = "object"
        BY <1>1 DEF Connection, Steps, Holding
      <3> QED BY <3>1, <3>2
    <2>4. CASE SyncsObject(p)
      <3> DEFINE c == [conn[p] EXCEPT !.step = "objects", !.risky = FALSE]
      <3>1. c \in Connection /\ c.head = conn[p].head /\ c.step = "objects" /\ Becomes(p, c)
        BY <1>1, <2>4 DEF SyncsObject, Connection, Steps, Holding
      <3> QED BY <3>1
    <2>5. CASE UsesCommit(p)
      <3> DEFINE c == [conn[p] EXCEPT !.step = "candidate",
                                      !.risky = @ \/ Candidate(p) \in loose.commits]
      <3>1. c \in Connection /\ c.head = conn[p].head /\ c.step = "candidate" /\ Becomes(p, c)
        BY <1>1, <2>5 DEF UsesCommit, Connection, Steps, Holding
      <3> QED BY <3>1
    <2>6. CASE WritesCommit(p)
      <3> DEFINE c == [conn[p] EXCEPT !.step = "commit"]
      <3>1. c \in Connection /\ c.head = conn[p].head /\ c.step = "commit" /\ Becomes(p, c)
        BY <1>1, <2>6 DEF WritesCommit, Connection, Steps, Holding
      <3> QED BY <3>1
    <2>7. CASE SyncsCommit(p)
      <3> DEFINE c == [conn[p] EXCEPT !.step = "candidate"]
      <3>1. c \in Connection /\ c.head = conn[p].head /\ c.step = "candidate" /\ Becomes(p, c)
        BY <1>1, <2>7 DEF SyncsCommit, Connection, Steps, Holding
      <3> QED BY <3>1
    <2>8. CASE SyncsDirectories(p)
      <3> DEFINE c == [conn[p] EXCEPT !.step = "ready"]
      <3>1. c \in Connection /\ c.head = conn[p].head /\ c.step = "ready" /\ Becomes(p, c)
        BY <1>1, <2>8 DEF SyncsDirectories, Connection, Steps, Holding
      <3> QED BY <3>1
    <2> QED BY <2>1, <2>2, <2>3, <2>4, <2>5, <2>6, <2>7, <2>8
  <1>4. Views' = Views /\ Writer' = Writer
    BY <1>2, <1>3, KeepsItsView
  <1> QED BY <1>2, <1>4 DEF Log!vars, Views, Writer, First

LEMMA PublishingImplements ==
  ASSUME Inv, NEW p \in Procs, ReplacesHead(p) \/ SyncsHead(p)
  PROVE  Log!Next
  <1>1. CASE ReplacesHead(p)
    <2> DEFINE c == [conn[p] EXCEPT !.step = "head"]
    <2>1. /\ conn[p].step = "ready" /\ conn[p].step \in Holding /\ Becomes(p, c)
          /\ UNCHANGED <<legacy, told, lock>> /\ disk' = [disk EXCEPT !.head = Candidate(p)]
      BY <1>1 DEF ReplacesHead, At, Holding, OnDisk
    <2>2. /\ c \in Connection /\ c.step = "head" /\ c.head = conn[p].head
          /\ c # Closed /\ conn[p] # Closed
      <3>1. conn[p] \in Connection
        BY <2>1, Holder
      <3>2. c \in Connection /\ c.step = "head" /\ c.head = conn[p].head
        BY <3>1 DEF Connection, Steps, Holding
      <3> QED BY <2>1, <3>2 DEF Closed
    <2>3. /\ lock = p /\ conn[p].head = disk.head /\ conn[p].work \in States
          /\ disk'.head = Append(disk.head, conn[p].work)
          /\ disk.head = <<>> => conn[p].work = First
      BY <2>1, Holder DEF Based, Holding, TypeInv, Candidate
    <2> HIDE DEF c
    <2>4. /\ Views' = [Views EXCEPT ![p] = Views[p]] /\ Views[p] = disk.head /\ Writer' = p
      BY <2>1, <2>2, <2>3, Seen
    <2>5. Views' = Views
      BY <2>4 DEF Views
    <2> QED BY <2>1, <2>3, <2>4, <2>5, LogPublishes
  <1>2. CASE SyncsHead(p)
    <2>1. /\ conn[p].step = "head" /\ conn[p].step \in Holding /\ Becomes(p, Committed(p))
          /\ told' = Candidate(p) /\ lock' = None /\ UNCHANGED <<legacy, disk>>
      BY <1>2 DEF SyncsHead, At, Holding
    <2>2. Candidate(p) = disk.head /\ Candidate(p) \in Seq(States) /\ conn[p].work \in States
      BY <2>1, Holder DEF Based, At
    <2>3. /\ Committed(p) \in Connection
          /\ \/ Committed(p) = Closed
             \/ Committed(p) # Closed /\ Committed(p).head = disk.head
      BY <2>2, EmptySeq DEF Committed, Closed, Connection, Steps
    <2>4. /\ Writer = p /\ Writer' = None
          /\ \/ Views' = [Views EXCEPT ![p] = disk.head]
             \/ Views' = [Views EXCEPT ![p] = None]
      BY <2>1, <2>3, Seen
    <2> QED BY <2>1, <2>2, <2>4, LogLearns
  <1> QED BY <1>1, <1>2

LEMMA PowerLossImplements == ASSUME Inv, PowerLoss PROVE Log!Next
  <1>1. /\ lock' = None /\ conn' = [p \in Procs |-> Closed] /\ UNCHANGED <<legacy, told>>
    BY DEF PowerLoss
  <1>2. /\ disk'.head \in Seq(States) /\ IsPrefix(told, disk'.head)
        /\ IsPrefix(disk'.head, disk.head)
    BY AfterPowerLoss
  <1>3. disk'.head = SubSeq(disk.head, 1, Len(disk'.head)) /\ Len(disk'.head) \in 0 .. Len(disk.head)
    <2>1. disk.head \in Seq(States)
      BY DEF Inv, TypeInv
    <2>2. Len(disk'.head) \in Nat /\ Len(disk.head) \in Nat
      BY <1>2, <2>1, LenProperties
    <2>3. SubSeq(disk'.head, 1, Len(disk'.head)) = disk'.head
      BY <1>2, SubSeqFull
    <2> QED BY <1>2, <2>2, <2>3 DEF IsPrefix
  <1>4. disk'.head \in Log!Prefixes(disk.head) /\ Log!IsPrefix(told, disk'.head)
    BY <1>2, <1>3 DEF Log!Prefixes, Log!IsPrefix, IsPrefix
  <1>5. Views' = [p \in Procs |-> None] /\ Writer' = None
    BY <1>1 DEF Views, Writer
  <1>6. Log!PowerLoss
    BY <1>1, <1>4, <1>5 DEF Log!PowerLoss, Views, Writer, First
  <1> QED BY <1>6 DEF Log!Next

LEMMA StepImplements == ASSUME Inv, [Next]_vars PROVE [Log!Next]_Log!vars
  <1>1. CASE Next
    <2>1. CASE PowerLoss
      BY <2>1, PowerLossImplements
    <2>2. ASSUME NEW p \in Procs,
                 \/ Opens(p) \/ Loads(p) \/ Creates(p) \/ Migrates(p) \/ Changes(p) \/ Closes(p)
                 \/ CommitBegins(p) \/ CommitRefused(p) \/ Commits(p) \/ CommitFails(p) \/ Dies(p)
          PROVE  Log!Next \/ UNCHANGED Log!vars
      BY <2>2, OpeningImplements, GivingUpImplements, WritingImplements, PublishingImplements
         DEF Commits
    <2> QED BY <1>1, <2>1, <2>2 DEF Next
  <1>2. CASE UNCHANGED vars
    BY <1>2 DEF vars, Log!vars, First
  <1> QED BY <1>1, <1>2

(* The project's files are the log of StateLog: what a writer was told is  *)
(* committed stays, a state is added only to the one its writer has read,  *)
(* and readers keep what they have read (publish, commit, connect_state).  *)
THEOREM FilesImplementTheLog == Spec => ImplementsLog
  <1>1. Init => Log!Init
    <2> SUFFICES ASSUME Init PROVE Log!Init
      OBVIOUS
    <2>1. First \in States
      BY StatesAreNotNone
    <2> QED BY <2>1 DEF Init, Log!Init, First, Blank
  <1>2. Inv /\ [Next]_vars => [Log!Next]_Log!vars
    BY StepImplements
  <1> QED BY <1>1, <1>2, FilesInvariant, PTL DEF Spec, ImplementsLog, Log!Spec

=============================================================================
