------------------------------ MODULE StateLog ------------------------------
(***************************************************************************)
(* What a project's checkpoint store promises (docs/state-json-migration,  *)
(* "Transaction boundary"): a log of whole states.  A connection has read  *)
(* the log once; it may add a state only while nobody has added one since, *)
(* and it is told so after the state is there for good.  What nobody was   *)
(* told of may be lost when the power is.                                  *)
(***************************************************************************)
EXTENDS Sequences, SequencesExt

CONSTANTS Procs, States, None

VARIABLES
  first,    \* the state that the project starts from
  log,      \* the states committed, the last one current
  told,     \* the longest log that somebody was told is committed
  view,     \* process -> the log as it was read, None without a connection
  writer    \* who has added the last state and was not told yet

vars == <<first, log, told, view, writer>>

Init ==
    /\ first \in States
    /\ log = <<>> /\ told = <<>> /\ writer = None
    /\ view = [p \in Procs |-> None]

Opens(p) ==
    /\ view[p] = None
    /\ view' = [view EXCEPT ![p] = log]
    /\ UNCHANGED <<first, log, told, writer>>

\* An interrupted writer's state stays although nobody is told.
Publishes(p) ==
    /\ view[p] = log /\ writer' = p
    /\ \E s \in IF log = <<>> THEN {first} ELSE States : log' = Append(log, s)
    /\ UNCHANGED <<first, told, view>>

Learns(p) ==
    /\ writer = p /\ writer' = None
    /\ told' = log
    /\ view' \in {[view EXCEPT ![p] = log], [view EXCEPT ![p] = None]}
    /\ UNCHANGED <<first, log>>

Loses(p) ==
    /\ writer = p /\ writer' = None
    /\ UNCHANGED <<first, log, told, view>>

Closes(p) ==
    /\ view' = [view EXCEPT ![p] = None]
    /\ writer' = IF writer = p THEN None ELSE writer
    /\ UNCHANGED <<first, log, told>>

PowerLoss ==
    /\ log' \in Prefixes(log) /\ IsPrefix(told, log')
    /\ view' = [p \in Procs |-> None] /\ writer' = None
    /\ UNCHANGED <<first, told>>

Next ==
    \/ \E p \in Procs : Opens(p) \/ Publishes(p) \/ Learns(p) \/ Loses(p) \/ Closes(p)
    \/ PowerLoss

Spec == Init /\ [][Next]_vars

=============================================================================
