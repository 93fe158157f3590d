---------------------------- MODULE JobLifecycle ----------------------------
(***************************************************************************)
(* What the job supervisor promises about its jobs, without processes,     *)
(* threads, frames or signals: the states of runtime/models.py in the      *)
(* order a client may see them, and one busy job per workspace.  A job is  *)
(* busy from its reservation until the supervisor has disowned it, which   *)
(* is after its final state: active_for_project and owns_project of        *)
(* runtime/supervisor.py.                                                  *)
(***************************************************************************)
CONSTANTS Jobs, Workspaces

VARIABLES
  state,   \* job -> its state in the registry
  ws,      \* job -> its workspace, once it has a state
  busy     \* the jobs that hold their workspace

vars == <<state, ws, busy>>

Active   == {"starting", "running", "stopping"}
Terminal == {"succeeded", "failed", "cancelled", "abandoned"}

Init ==
  /\ state = [j \in Jobs |-> "none"]
  /\ ws \in [Jobs -> Workspaces]
  /\ busy = {}

Free(w) == \A k \in busy : ws[k] # w

\* A client starts job j on a free workspace; a launch that fails never makes it busy.
Reserve(j, w) ==
  /\ state[j] = "none" /\ Free(w)
  /\ ws' = [ws EXCEPT ![j] = w]
  /\ \/ /\ \E s \in {"starting", "running"} : state' = [state EXCEPT ![j] = s]
        /\ busy' = busy \cup {j}
     \/ /\ state' = [state EXCEPT ![j] = "failed"]
        /\ UNCHANGED busy

\* A set of busy jobs is told to stop (one by a client, all of them by a shutdown).
Interrupt(S) ==
  /\ S \subseteq busy /\ \A j \in S : state[j] \in Active
  /\ state' = [j \in Jobs |-> IF j \in S THEN "stopping" ELSE state[j]]
  /\ UNCHANGED <<ws, busy>>

\* The final state is recorded, once; only a restart of the server abandons a job.
Finish(j) ==
  /\ j \in busy /\ state[j] \in Active
  /\ \E s \in {"succeeded", "failed", "cancelled"} : state' = [state EXCEPT ![j] = s]
  /\ UNCHANGED <<ws, busy>>

Release(j) ==
  /\ j \in busy /\ state[j] \in Terminal
  /\ busy' = busy \ {j}
  /\ UNCHANGED <<state, ws>>

Restart ==
  /\ state' = [j \in Jobs |-> IF state[j] \in Active THEN "abandoned" ELSE state[j]]
  /\ busy' = {}
  /\ UNCHANGED ws

Next ==
  \/ \E j \in Jobs : (\E w \in Workspaces : Reserve(j, w)) \/ Finish(j) \/ Release(j)
  \/ \E S \in SUBSET busy : Interrupt(S)
  \/ Restart

Spec == Init /\ [][Next]_vars

=============================================================================
