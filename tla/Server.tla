------------------------------- MODULE Server -------------------------------
(***************************************************************************)
(* The life of one Intelitex server process: serve() of bookpipe/server/   *)
(* __init__.py, with the handoff file of server/reload.py and the part of  *)
(* server/service.py that decides whether a client may start, stop or      *)
(* archive.  Composed with the supervisor: every step is a step of         *)
(* Supervisor or leaves it alone, so Supervisor's theorems hold here.      *)
(*                                                                         *)
(* Concurrent are: the main thread, the HTTP server's threads, signals,    *)
(* and everything Supervisor has.                                          *)
(***************************************************************************)
EXTENDS Supervisor

CONSTANTS
  HttpFaults,   \* whether uvicorn may end by itself or outlive its drain
  Archivable    \* workspaces that a client may archive

ASSUME ServerAssumption ==
  /\ HttpFaults \in BOOLEAN /\ Archivable \subseteq Workspaces
  /\ \A n \in Limits : 1 .. n \subseteq Limits   \* what is left of a limit is one, too

VARIABLES
  main,       \* where the main thread is in serve()
  http,       \* the HTTP server: "down", "up", or "draining" (should_exit)
  stopping,   \* the event `stopping` (SIGINT, SIGTERM)
  reloading,  \* the event `reloading` (SIGHUP)
  draining,   \* local `reload_requested`
  reexec,     \* local `should_exec`
  raised,     \* an exception is on its way out of serve(), or in server_errors
  handoff,    \* jobs in the handoff file that the environment names
  resuming,   \* jobs read from it and not started yet
  resumed,    \* history: which job continues which
  archived    \* workspaces whose web.lifecycle.json says archived

serveVars   == <<main, stopping, reloading, draining, reexec, raised>>
handoffVars == <<handoff, resuming, resumed>>
serverVars  == <<serveVars, http, handoffVars, archived>>

ServerInit ==
  /\ Init
  /\ main = "boot" /\ http = "down"
  /\ stopping = FALSE /\ reloading = FALSE
  /\ draining = FALSE /\ reexec = FALSE /\ raised = FALSE
  /\ handoff = {} /\ resuming = {} /\ resumed = {}
  /\ archived = {}

Running == main # "down"
Serving == Running /\ http # "down"      \* a handler may be at work

-----------------------------------------------------------------------------
(* Clients and signals *)

\* ServerService.start, under the supervisor's lock: mutable() refuses an archived
\* workspace, then supervisor.start() is called.
HttpStart(j) ==
  /\ Serving /\ Start(j) /\ spec'[j].ws \notin archived
  /\ UNCHANGED serverVars

HttpStop(j) == Serving /\ (Stop(j) \/ StopLosesRegistry(j)) /\ UNCHANGED serverVars

\* ServerService.archive, also under that lock, for a workspace without a job, whose
\* project lock it takes; `closing` is not consulted.
HttpArchive(w) ==
  /\ Serving /\ w \in Archivable /\ Idle(w) /\ LockFree(w)
  /\ archived' \in {archived \cup {w}, archived \ {w}}
  /\ UNCHANGED <<vars, serveVars, http, handoffVars>>

Interrupted ==
  /\ Running /\ stopping' = TRUE
  /\ UNCHANGED <<vars, main, reloading, draining, reexec, raised, http, handoffVars, archived>>

HangsUp ==
  /\ Running /\ reloading' = TRUE
  /\ UNCHANGED <<vars, main, stopping, draining, reexec, raised, http, handoffVars, archived>>

\* The HTTP thread: requests in flight are over, or it fails.
HttpDrained ==
  /\ http = "draining" /\ http' = "down"
  /\ UNCHANGED <<vars, serveVars, handoffVars, archived>>

HttpFails ==
  /\ HttpFaults /\ Running /\ http = "up"
  /\ http' = "down" /\ raised' \in {raised, TRUE}
  /\ UNCHANGED <<vars, main, stopping, reloading, draining, reexec, handoffVars, archived>>

-----------------------------------------------------------------------------
(* serve(), up to its loop *)

\* The registry and the supervisor exist; the HTTP thread is started unless a signal
\* came first.
OpenServer ==
  /\ main = "boot"
  /\ IF stopping THEN main' = "closing" /\ UNCHANGED http
     ELSE main' = "handoff" /\ http' = "up"
  /\ UNCHANGED <<vars, stopping, reloading, draining, reexec, raised, handoffVars, archived>>

\* Faulty variant of ReadHandoff: the variable that names the file stays set.
ReadHandoffAgain ==
  /\ main = "handoff" /\ main' = "resuming"
  /\ resuming' = handoff
  /\ UNCHANGED <<vars, stopping, reloading, draining, reexec, raised, handoff, resumed, http, archived>>

\* read_handoff: the variable is popped, the file is read and removed.
ReadHandoff ==
  /\ main = "handoff" /\ main' = "resuming"
  /\ resuming' = handoff /\ handoff' = {}
  /\ UNCHANGED <<vars, stopping, reloading, draining, reexec, raised, resumed, http, archived>>

\* supervisor.start() of a job that was read.  No client's check is made for it.
ResumeStarts(r, j) ==
  /\ main = "resuming" /\ r \in resuming
  /\ LET was == spec[r.from]
     IN  StartRuns(j, was.ws, was.op, r.limit) \/ StartLaunchFails(j, was.ws, was.op, r.limit)
  /\ resuming' = resuming \ {r}
  /\ resumed' = resumed \cup {[from |-> r.from, by |-> j]}
  /\ UNCHANGED <<serveVars, http, handoff, archived>>

\* It raises, because a client has been faster (JobConflict) or the registry cannot be
\* written (PipelineError), and serve() unwinds.
ResumeRaises(r) ==
  /\ main = "resuming" /\ r \in resuming
  /\ LET was == spec[r.from]
     IN  \/ (~Idle(was.ws) \/ regFailed) /\ UNCHANGED vars
         \/ \E j \in Jobs : StartLosesRegistry(j, was.ws, was.op, r.limit)
  /\ main' = "closing" /\ raised' = TRUE /\ resuming' = {}
  /\ UNCHANGED <<stopping, reloading, draining, reexec, http, handoff, resumed, archived>>

AllResumed ==
  /\ main = "resuming" /\ resuming = {}
  /\ main' = "serving"
  /\ UNCHANGED <<vars, stopping, reloading, draining, reexec, raised, http, handoffVars, archived>>

-----------------------------------------------------------------------------
(* The loop of serve() *)

LoopReloads ==
  /\ main = "serving" /\ reloading /\ ~draining
  /\ RequestReload
  /\ draining' = TRUE
  /\ UNCHANGED <<main, stopping, reloading, reexec, raised, http, handoffVars, archived>>

LoopDrained ==
  /\ main = "serving" /\ draining /\ ReloadDrained
  /\ main' = "closing" /\ reexec' = TRUE
  /\ UNCHANGED <<vars, stopping, reloading, draining, raised, http, handoffVars, archived>>

\* Faulty variant of LoopStops: a server that reloads does not look at `stopping`.
LoopStopsUnlessReloading ==
  /\ main = "serving" /\ (http = "down" \/ stopping) /\ ~draining
  /\ main' = "closing"
  /\ UNCHANGED <<vars, stopping, reloading, draining, reexec, raised, http, handoffVars, archived>>

LoopStops ==
  /\ main = "serving" /\ (http = "down" \/ stopping)
  /\ main' = "closing"
  /\ UNCHANGED <<vars, stopping, reloading, draining, reexec, raised, http, handoffVars, archived>>

-----------------------------------------------------------------------------
(* The finally blocks of serve(), and what follows them *)

CloseApi ==
  /\ main = "closing" /\ BeginShutdown
  /\ main' = "draining"
  /\ http' = IF http = "up" THEN "draining" ELSE http
  /\ UNCHANGED <<stopping, reloading, draining, reexec, raised, handoffVars, archived>>

\* Faulty variant of LeaveHttp: the RuntimeError skips the shutdown of the jobs.
LeaveHttpAndJobs ==
  /\ main = "draining" /\ (http = "down" \/ HttpFaults)
  /\ main' = IF http = "down" THEN "stopping" ELSE "leaving"
  /\ raised' = (raised \/ http # "down")
  /\ UNCHANGED <<vars, stopping, reloading, draining, reexec, http, handoffVars, archived>>

\* The HTTP thread has ended, or has not in time: RuntimeError.
LeaveHttp ==
  /\ main = "draining" /\ (http = "down" \/ HttpFaults)
  /\ main' = "stopping"
  /\ raised' = (raised \/ http # "down")
  /\ UNCHANGED <<vars, stopping, reloading, draining, reexec, http, handoffVars, archived>>

StopJobs ==
  /\ main = "stopping"
  /\ \/ Shutdown /\ main' = "joining" /\ UNCHANGED raised
     \/ ShutdownLosesRegistry /\ main' = "leaving" /\ raised' = TRUE
  /\ UNCHANGED <<stopping, reloading, draining, reexec, http, handoffVars, archived>>

\* shutdown() has joined the threads of every job it found owned.
Joined == \A j \in owned : stp[j] \in {"none", "done"} /\ mon[j] \in {"none", "dead"}

JoinJobs ==
  /\ main = "joining" /\ Joined
  /\ main' = "leaving"
  /\ UNCHANGED <<vars, stopping, reloading, draining, reexec, raised, http, handoffVars, archived>>

Leave ==
  /\ main = "leaving" /\ (raised \/ stopping \/ ~reexec)
  /\ main' = "down" /\ http' = "down"
  /\ UNCHANGED <<vars, stopping, reloading, draining, reexec, raised, handoffVars, archived>>

\* The memory of a re-executed process.
Fresh ==
  /\ Restart
  /\ main' = "boot" /\ http' = "down"
  /\ stopping' = FALSE /\ reloading' = FALSE /\ draining' = FALSE /\ reexec' = FALSE
  /\ raised' = FALSE /\ resuming' = {}
  /\ UNCHANGED <<resumed, archived>>

\* Faulty variant of Exec: the specs are looked up in the new process.
ExecWithoutHandoff ==
  /\ main = "leaving" /\ reexec /\ ~raised /\ ~stopping
  /\ Fresh /\ handoff' = {}

\* write_handoff and execv.
Exec ==
  /\ main = "leaving" /\ reexec /\ ~raised /\ ~stopping
  /\ Fresh /\ handoff' = reloadSpecs

-----------------------------------------------------------------------------

Resume == \E r \in resuming : ResumeRaises(r) \/ \E j \in Jobs : ResumeStarts(r, j)

Main ==
  \/ OpenServer \/ ReadHandoff \/ Resume \/ AllResumed
  \/ LoopReloads \/ LoopDrained \/ LoopStops
  \/ CloseApi \/ LeaveHttp \/ StopJobs \/ JoinJobs \/ Leave \/ Exec

Client ==
  \/ \E j \in Jobs : HttpStart(j) \/ HttpStop(j)
  \/ \E w \in Workspaces : HttpArchive(w)
  \/ Interrupted \/ HangsUp

\* The monitors, the stoppers and the workers; once the server has ended, what is left
\* of them is not followed.
Background == Running /\ (\E j \in Jobs : Threads(j)) /\ UNCHANGED serverVars

ServerNext == Main \/ Client \/ HttpDrained \/ HttpFails \/ Background

allVars == <<vars, serverVars>>

ServerSpec == ServerInit /\ [][ServerNext]_allVars

\* The main thread, the HTTP server's bounded drain and the supervisor's threads are
\* scheduled; the handoff is never exhausted by the bound on job identifiers.
ServerFairness ==
  /\ WF_allVars(Main) /\ WF_allVars(HttpDrained)
  /\ \A j \in Jobs :
       /\ WF_allVars(Running /\ Monitor(j) /\ UNCHANGED serverVars)
       /\ WF_allVars(Running /\ Stopper(j) /\ UNCHANGED serverVars)
       /\ WF_allVars(Running /\ KillLands(j) /\ UNCHANGED serverVars)

FairServerSpec == ServerSpec /\ ServerFairness

-----------------------------------------------------------------------------
(* What must hold *)

\* A server that ends, or is about to re-execute itself, leaves no worker behind, whatever
\* its HTTP thread, its monitors and its registry did before: a shutdown() that returns has
\* stopped and joined them all.  Workers survive only one that raises at a registry write,
\* and then serve() raises.
NoWorkerOutlivesServer ==
  main \in {"leaving", "down"} /\ (\E j \in Jobs : Alive(j)) => raised /\ regFailed

\* docs/server-runtime.md: "Graceful shutdown stops all workers owned by this server."  A
\* server that was told to stop, and has ended, has left no worker.  The code breaks this.
GracefulStopStopsWorkers == main = "down" /\ stopping => \A j \in Jobs : ~Alive(j)

HandedOver(j) == \E r \in reloadSpecs \cup handoff \cup resuming : r.from = j
HasSuccessor(j) == \E s \in resumed : s.from = j

\* A job that a reload cancelled is on its way to a successor or has one, across the
\* drain, the handoff file and the new process, unless an operator stopped the server
\* or serve() raised.
ReloadedWorkIsKept ==
  \A j \in Jobs : state[j] = "cancelled" /\ j \notin asked =>
    HandedOver(j) \/ HasSuccessor(j) \/ stopping \/ raised

\* ... and it gets one successor only, however many reloads follow.
ReloadedWorkIsDoneOnce == \A j \in Jobs : HandedOver(j) => ~HasSuccessor(j)

\* docs/server-runtime.md: "The HTTP process then re-executes itself on the same bind
\* address and port and starts new translation jobs for the remaining work."  A server
\* ends only when it is stopped.
ReloadKeepsServing == main = "down" => stopping

\* A server that is told to stop ends, whatever its workers and its HTTP clients do.
StopEndsServer == stopping ~> main = "down" \/ ~stopping

WorkersGoOn ==
  \A j \in Jobs : WF_allVars(Running /\ WorkerGoesOn(j) /\ UNCHANGED serverVars)

\* A server told to reload leaves its loop, provided that workers go on working and no
\* registry write fails (a monitor that it kills never gives up its job).
ReloadEnds == WorkersGoOn => (main = "serving" /\ reloading ~> main # "serving" \/ regFailed)

=============================================================================
