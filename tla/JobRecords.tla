----------------------------- MODULE JobRecords -----------------------------
(***************************************************************************)
(* What the job registry promises its clients (docs/job-json-migration.md):*)
(* one record per job, changed by one commit at a time and only to a later *)
(* version of itself.  A server answers from the records as it knows them; *)
(* a commit that it was not told of is there or not, and until a restart   *)
(* has found out, nothing more is written.                                 *)
(***************************************************************************)
EXTENDS Integers

CONSTANTS Jobs, None

VARIABLES
  stored,    \* job -> its committed record
  view,      \* job -> its record as the server, or the next one, knows it
  refusing,  \* the server does not write any more
  answers    \* the requests answered, each with the job that its receipt names

vars == <<stored, view, refusing, answers>>

Known == {j \in Jobs : stored[j] # None}

Init ==
  /\ stored = [j \in Jobs |-> None] /\ view = stored
  /\ refusing = FALSE /\ answers = {}

\* A job begins without events, after all others, with a receipt that no other job has.
Begins(rec) ==
  /\ rec.seq = 0 /\ rec.events = {}
  /\ \A i \in Known : /\ stored[i].order < rec.order
                      /\ rec.key # None => stored[i].key # rec.key

\* Its identity stays, a final state is final, and it gets one event at a time, with an
\* identifier above all that were given.
Advances(old, rec) ==
  /\ rec.order = old.order /\ rec.key = old.key /\ rec.digest = old.digest
  /\ old.state = "final" => rec.state = "final"
  /\ \/ rec.seq = old.seq /\ rec.last = old.last /\ rec.events = old.events
     \/ /\ rec.seq = old.seq + 1
        /\ \A i \in Known : stored[i].last < rec.last
        /\ rec.events \subseteq old.events \cup {[id |-> rec.last, seq |-> rec.seq]}

Changes ==
  /\ ~refusing /\ view = stored
  /\ \E j \in Jobs :
       /\ stored' = [stored EXCEPT ![j] = stored'[j]] /\ stored'[j] # None
       /\ IF stored[j] = None THEN Begins(stored'[j]) ELSE Advances(stored[j], stored'[j])

Commits == Changes /\ UNCHANGED <<view, refusing, answers>>

Receipt(j) == [key |-> stored[j].key, digest |-> stored[j].digest, job |-> j]

\* The server is told; who asked for a new job gets the answer or not.
Learns ==
  /\ ~refusing /\ view' = stored
  /\ \/ UNCHANGED answers
     \/ \E j \in Known : /\ view[j] = None /\ stored[j].key # None
                         /\ answers' = answers \cup {Receipt(j)}
  /\ UNCHANGED <<stored, refusing>>

\* A request is repeated.
Answers(j) ==
  /\ j \in Known /\ view[j] # None /\ stored[j].key # None
  /\ answers' = answers \cup {Receipt(j)}
  /\ UNCHANGED <<stored, view, refusing>>

\* A write fails after its commit or before it.
Fails ==
  /\ Changes \/ UNCHANGED stored
  /\ refusing' = TRUE
  /\ UNCHANGED <<view, answers>>

Restarts ==
  /\ Changes \/ UNCHANGED stored
  /\ view' = stored' /\ refusing' = FALSE
  /\ UNCHANGED answers

Next == Commits \/ Learns \/ Fails \/ Restarts \/ \E j \in Jobs : Answers(j)

Spec == Init /\ [][Next]_vars

=============================================================================
