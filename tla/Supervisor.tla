----------------------------- MODULE Supervisor -----------------------------
(***************************************************************************)
(* The job supervisor of one Intelitex server: bookpipe/runtime/           *)
(* supervisor.py, with the worker processes it owns (runtime/worker.py,    *)
(* the pass loop of application/pipeline.py) and the part of the job       *)
(* registry it relies on (the job states and its fail-stop after a write   *)
(* error; the module JobRegistry has the files).                           *)
(*                                                                         *)
(* Every supervisor method runs under JobSupervisor.lock, so each is one   *)
(* action.  Concurrent are: the callers of the API (HTTP threads and the   *)
(* main thread), one monitor thread and at most one stopper thread per     *)
(* job, the worker processes, and signals on their way to them.            *)
(***************************************************************************)
EXTENDS Integers, Sequences, FiniteSets

CONSTANTS
  Jobs,          \* job identifiers (uuid4: never reused)
  Workspaces,    \* projects beneath the workspace root
  Chunks,        \* chunks of each project not yet "done" at the start
  Ops,           \* operations: "translate", "target" (translate with a chunk_id), "other"
  Limits,        \* the chunk limits a translate request may carry (0: all)
  Passes,        \* passes of a chunk (P2..P5: 4 in the code)
  PipeCap,       \* frames the worker's stdout pipe holds before a write blocks
  Corrupt,       \* whether a worker may write a line that decode() rejects
  MaxRestarts,   \* bound on server deaths and re-executions
  MaxFailures,   \* bound on registry write errors
  None           \* no job holds the project lock

ASSUME SupervisorAssumption ==
  /\ Jobs # {} /\ Workspaces # {} /\ None \notin Jobs
  /\ Chunks \in Nat /\ Passes \in Nat \ {0} /\ PipeCap \in Nat \ {0}
  /\ Ops \subseteq {"translate", "target", "other"} /\ Limits \subseteq Nat /\ Corrupt \in BOOLEAN
  /\ MaxRestarts \in Nat /\ MaxFailures \in Nat

VARIABLES
  state,        \* job -> state in the registry ("none": identifier not used)
  spec,         \* job -> its JobSpec
  regFailed,    \* JobRegistry._failed: a write error; nothing is written until restart
  owned,        \* the keys of JobSupervisor.owned
  mon,          \* job -> program counter of its monitor thread
  stp,          \* job -> program counter of its stopper thread (OwnedWorker.stopper)
  ready,        \* job -> OwnedWorker.ready
  reloadReq,    \* job -> OwnedWorker.reload_requested
  reloadSig,    \* job -> OwnedWorker.reload_signalled; SIGUSR1 has reached the worker
  terminal,     \* job -> local `terminal` of the monitor
  protoErr,     \* job -> local `protocol_error` of the monitor
  closing,      \* JobSupervisor.closing
  reloadSpecs,  \* JobSupervisor.reload_specs, with the job each one continues
  proc,         \* job -> phase of the worker process
  out,          \* job -> type of the terminal frame the worker ends with
  intr,         \* job -> SIGINT: "no", "pending", or "handled" (ignored from then on)
  dying,        \* job -> SIGTERM or SIGKILL is on its way
  pipe,         \* job -> frames written and not read
  pass,         \* job -> passes of the current chunk this run has been through
  units,        \* job -> chunks this job has finished
  todo,         \* workspace -> chunks that are not "done"
  lock,         \* workspace -> the job whose worker holds the project's .lock
  asked,        \* history: jobs a caller (not the monitor) has stopped
  restarts, failures

registryVars == <<state, spec, regFailed, failures>>
monitorVars  == <<mon, terminal, protoErr>>
reloadVars   == <<reloadReq, reloadSig, reloadSpecs>>
processVars  == <<proc, out, intr, dying>>
workVars     == <<pass, units, todo, lock>>
vars == <<registryVars, owned, monitorVars, stp, ready, reloadVars, closing,
          processVars, pipe, workVars, asked, restarts>>

Active   == {"starting", "running", "stopping"}
Terminal == {"succeeded", "failed", "cancelled", "abandoned"}
JobSpec  == [ws : Workspaces, op : Ops \cup {"other"}, limit : Nat]
FrameTypes == {"progress", "result", "failure", "cancelled", "reload", "bad"}
Frames   == [type : FrameTypes, units : Nat]
NoFrame  == [type |-> "none", units |-> 0]
Frame(t, n) == [type |-> t, units |-> n]

Alive(j)   == proc[j] \in {"boot", "idle", "run", "ending", "sent"}
Exited(j)  == proc[j] \in {"exit0", "exit1"}
Reading(j) == mon[j] = "reading"          \* otherwise the pipe's read end is closed
Healthy    == ~regFailed

Init ==
  /\ state = [j \in Jobs |-> "none"]
  /\ spec = [j \in Jobs |-> [ws |-> CHOOSE w \in Workspaces : TRUE, op |-> "other", limit |-> 0]]
  /\ regFailed = FALSE /\ failures = 0
  /\ owned = {}
  /\ mon = [j \in Jobs |-> "none"] /\ stp = [j \in Jobs |-> "none"]
  /\ terminal = [j \in Jobs |-> NoFrame] /\ protoErr = [j \in Jobs |-> FALSE]
  /\ ready = [j \in Jobs |-> FALSE]
  /\ reloadReq = [j \in Jobs |-> FALSE] /\ reloadSig = [j \in Jobs |-> FALSE]
  /\ reloadSpecs = {} /\ closing = FALSE
  /\ proc = [j \in Jobs |-> "none"] /\ out = [j \in Jobs |-> "none"]
  /\ intr = [j \in Jobs |-> "no"] /\ dying = [j \in Jobs |-> FALSE]
  /\ pipe = [j \in Jobs |-> <<>>]
  /\ pass = [j \in Jobs |-> 0] /\ units = [j \in Jobs |-> 0]
  /\ todo = [w \in Workspaces |-> Chunks] /\ lock = [w \in Workspaces |-> None]
  /\ asked = {} /\ restarts = 0

-----------------------------------------------------------------------------
(* Starting a job *)

\* Faulty variant of Idle: a job whose final state is recorded no longer counts.
IdleInRegistry(w) == \A k \in Jobs : spec[k].ws = w => state[k] \notin Active

\* No active job in the registry and none owned: active_for_project, owns_project.
Idle(w) ==
  /\ \A k \in Jobs : spec[k].ws = w => state[k] \notin Active
  /\ \A k \in owned : spec[k].ws # w

MayStart(j, w) == state[j] = "none" /\ ~closing /\ Healthy /\ Idle(w)

\* start(): the record is reserved, the worker is launched, owned and monitored, and
\* the job is "running".  A stdin that breaks leaves it without a spec, SIGTERM sent.
StartRuns(j, w, o, n) ==
  /\ MayStart(j, w)
  /\ spec' = [spec EXCEPT ![j] = [ws |-> w, op |-> o, limit |-> n]]
  /\ state' = [state EXCEPT ![j] = "running"]
  /\ owned' = owned \cup {j}
  /\ mon' = [mon EXCEPT ![j] = "reading"]
  /\ \E broken \in BOOLEAN :
       /\ proc' = [proc EXCEPT ![j] = IF broken THEN "idle" ELSE "boot"]
       /\ dying' = [dying EXCEPT ![j] = broken]
  /\ UNCHANGED <<regFailed, failures, terminal, protoErr, stp, ready, reloadVars, closing,
                 out, intr, pipe, workVars, asked, restarts>>

\* start(): Popen raises OSError; the job is failed and was never owned.
StartLaunchFails(j, w, o, n) ==
  /\ MayStart(j, w)
  /\ spec' = [spec EXCEPT ![j] = [ws |-> w, op |-> o, limit |-> n]]
  /\ state' = [state EXCEPT ![j] = "failed"]
  /\ UNCHANGED <<regFailed, failures, owned, monitorVars, stp, ready, reloadVars, closing,
                 processVars, pipe, workVars, asked, restarts>>

\* start(): a registry write raises.  Before the launch, the job stays "starting" and
\* unowned; after it, the worker is owned but has neither a monitor nor its spec.
StartLosesRegistry(j, w, o, n) ==
  /\ MayStart(j, w) /\ failures < MaxFailures
  /\ regFailed' = TRUE /\ failures' = failures + 1
  /\ spec' = [spec EXCEPT ![j] = [ws |-> w, op |-> o, limit |-> n]]
  /\ \/ /\ state' = [state EXCEPT ![j] = "starting"]
        /\ UNCHANGED <<owned, proc>>
     \/ /\ \E s \in {"starting", "running"} : state' = [state EXCEPT ![j] = s]
        /\ owned' = owned \cup {j}
        /\ proc' = [proc EXCEPT ![j] = "idle"]
  /\ UNCHANGED <<monitorVars, stp, ready, reloadVars, closing, out, intr, dying,
                 pipe, workVars, asked, restarts>>

\* A registry write about job j raises: from now on every one does.  _state saves the
\* record and then appends an event, so the record may be the new one already.
WriteFails(j, s) ==
  \/ regFailed /\ UNCHANGED <<state, regFailed, failures>>
  \/ /\ Healthy /\ failures < MaxFailures
     /\ regFailed' = TRUE /\ failures' = failures + 1
     /\ state' \in {state, [state EXCEPT ![j] = s]}

-----------------------------------------------------------------------------
(* Stop, reload, shutdown *)

\* Faulty variant of Stoppable: the registry's state is not consulted.
StoppableWhenOwned(j) == j \in owned /\ stp[j] = "none"

\* The early return of stop().
Stoppable(j) == j \in owned /\ state[j] \in Active /\ stp[j] = "none"

\* stop() called for an HTTP request.
Stop(j) ==
  /\ Healthy /\ Stoppable(j)
  /\ state' = [state EXCEPT ![j] = "stopping"]
  /\ stp' = [stp EXCEPT ![j] = "new"]
  /\ asked' = asked \cup {j}
  /\ UNCHANGED <<spec, regFailed, failures, owned, monitorVars, ready, reloadVars, closing,
                 processVars, pipe, workVars, restarts>>

StopLosesRegistry(j) ==
  /\ Healthy /\ Stoppable(j)
  /\ WriteFails(j, "stopping")
  /\ UNCHANGED <<spec, owned, monitorVars, stp, ready, reloadVars, closing, processVars,
                 pipe, workVars, asked, restarts>>

\* begin_shutdown(): new jobs are refused (and the event broker is closed).
BeginShutdown ==
  /\ closing' = TRUE
  /\ UNCHANGED <<registryVars, owned, monitorVars, stp, ready, reloadVars, processVars,
                 pipe, workVars, asked, restarts>>

\* shutdown(), up to its joins: every owned worker is asked to stop.
Stopping(S) == [j \in Jobs |-> IF j \in S THEN "stopping" ELSE state[j]]

Shutdown ==
  /\ Healthy \/ \A j \in Jobs : ~Stoppable(j)
  /\ closing' = TRUE
  /\ state' = Stopping({j \in Jobs : Stoppable(j)})
  /\ stp' = [j \in Jobs |-> IF Stoppable(j) THEN "new" ELSE stp[j]]
  /\ asked' = asked \cup {j \in Jobs : Stoppable(j)}
  /\ UNCHANGED <<spec, regFailed, failures, owned, monitorVars, ready, reloadVars,
                 processVars, pipe, workVars, restarts>>

\* shutdown() when a registry write raises, or every one does already: that stop() ends
\* the loop, after the stops in S and before the others.
ShutdownLosesRegistry ==
  /\ closing' = TRUE
  /\ \E S \in SUBSET Jobs, j \in Jobs :
       /\ j \notin S /\ Stoppable(j) /\ \A k \in S : Stoppable(k)
       /\ \/ regFailed /\ S = {} /\ UNCHANGED <<state, regFailed, failures>>
          \/ /\ Healthy /\ failures < MaxFailures
             /\ regFailed' = TRUE /\ failures' = failures + 1
             /\ \E T \in {S, S \cup {j}} : state' = Stopping(T)
       /\ stp' = [k \in Jobs |-> IF k \in S THEN "new" ELSE stp[k]]
       /\ asked' = asked \cup S
  /\ UNCHANGED <<spec, owned, monitorVars, ready, reloadVars, processVars, pipe, workVars,
                 restarts>>

Reloadable(j) == j \in owned /\ spec[j].op \in {"translate", "target"}

\* Faulty variant of Signals: does not wait for the first progress frame.
SignalsEarly(j, requested, seen) == requested /\ ~reloadSig[j] /\ stp[j] = "none" /\ Alive(j)

\* The condition of _signal_reload.
Signals(j, requested, seen) ==
  requested /\ seen /\ ~reloadSig[j] /\ stp[j] = "none" /\ Alive(j)

\* request_reload(): ready translate workers get SIGUSR1 now, the others at their
\* first progress frame.
RequestReload ==
  /\ closing' = TRUE
  /\ reloadReq' = [j \in Jobs |-> reloadReq[j] \/ Reloadable(j)]
  /\ reloadSig' = [j \in Jobs |-> reloadSig[j] \/ (Reloadable(j) /\ Signals(j, TRUE, ready[j]))]
  /\ UNCHANGED <<registryVars, owned, monitorVars, stp, ready, reloadSpecs, processVars,
                 pipe, workVars, asked, restarts>>

\* Faulty variant of ReloadDrained: waits for a job to resume.
ReloadDrainedWithWork == owned = {} /\ reloadSpecs # {}

ReloadDrained == owned = {}

-----------------------------------------------------------------------------
(* The monitor thread of a job: _monitor *)

HeadFrame(j) == Reading(j) /\ pipe[j] # <<>>
Malformed(j) == Head(pipe[j]).type = "bad" \/ terminal[j] # NoFrame

MonitorProgress(j) ==
  /\ HeadFrame(j) /\ ~Malformed(j) /\ Head(pipe[j]).type = "progress"
  /\ Healthy
  /\ pipe' = [pipe EXCEPT ![j] = Tail(@)]
  /\ ready' = [ready EXCEPT ![j] = TRUE]
  /\ reloadSig' = [reloadSig EXCEPT ![j] = @ \/ Signals(j, reloadReq[j], TRUE)]
  /\ UNCHANGED <<registryVars, owned, monitorVars, stp, reloadReq, reloadSpecs, closing,
                 processVars, workVars, asked, restarts>>

\* broker.publish raises PipelineError, which _monitor does not catch: the thread ends,
\* stdout is closed, and the job stays owned with no one to reap its worker.
MonitorProgressLosesRegistry(j) ==
  /\ HeadFrame(j) /\ ~Malformed(j) /\ Head(pipe[j]).type = "progress"
  /\ WriteFails(j, state[j])
  /\ pipe' = [pipe EXCEPT ![j] = <<>>]
  /\ ready' = [ready EXCEPT ![j] = TRUE]
  /\ mon' = [mon EXCEPT ![j] = "dead"]
  /\ UNCHANGED <<spec, owned, terminal, protoErr, stp, reloadVars, closing, processVars,
                 workVars, asked, restarts>>

MonitorTerminal(j) ==
  /\ HeadFrame(j) /\ ~Malformed(j) /\ Head(pipe[j]).type # "progress"
  /\ terminal' = [terminal EXCEPT ![j] = Head(pipe[j])]
  /\ pipe' = [pipe EXCEPT ![j] = Tail(@)]
  /\ UNCHANGED <<registryVars, owned, mon, protoErr, stp, ready, reloadVars, closing,
                 processVars, workVars, asked, restarts>>

\* An undecodable frame, or one after the terminal frame: the monitor stops the worker.
MonitorProtocolError(j) ==
  /\ HeadFrame(j) /\ Malformed(j)
  /\ protoErr' = [protoErr EXCEPT ![j] = TRUE]
  /\ pipe' = [pipe EXCEPT ![j] = <<>>]
  /\ IF Stoppable(j)
     THEN \/ /\ Healthy
             /\ state' = [state EXCEPT ![j] = "stopping"]
             /\ stp' = [stp EXCEPT ![j] = "new"]
             /\ mon' = [mon EXCEPT ![j] = "reaping"]
             /\ UNCHANGED <<regFailed, failures>>
          \/ /\ WriteFails(j, "stopping")
             /\ mon' = [mon EXCEPT ![j] = "dead"]
             /\ UNCHANGED stp
     ELSE /\ mon' = [mon EXCEPT ![j] = "reaping"]
          /\ UNCHANGED <<state, stp, regFailed, failures>>
  /\ UNCHANGED <<spec, owned, terminal, ready, reloadVars, closing, processVars, workVars,
                 asked, restarts>>

\* Faulty variant of MonitorEOF: a worker that ends without a terminal frame is awaited.
MonitorEOFAfterFrame(j) ==
  /\ Reading(j) /\ pipe[j] = <<>> /\ Exited(j) /\ terminal[j] # NoFrame
  /\ mon' = [mon EXCEPT ![j] = "reaping"]
  /\ UNCHANGED <<registryVars, owned, terminal, protoErr, stp, ready, reloadVars, closing,
                 processVars, pipe, workVars, asked, restarts>>

\* readline() returns "": the worker has closed its end.
MonitorEOF(j) ==
  /\ Reading(j) /\ pipe[j] = <<>> /\ Exited(j)
  /\ mon' = [mon EXCEPT ![j] = "reaping"]
  /\ UNCHANGED <<registryVars, owned, terminal, protoErr, stp, ready, reloadVars, closing,
                 processVars, pipe, workVars, asked, restarts>>

\* The worker stopped at a checkpoint because the server asked it to.
Reloads(j) ==
  /\ ~protoErr[j] /\ terminal[j].type = "reload" /\ proc[j] = "exit0"
  /\ closing /\ reloadSig[j] /\ stp[j] = "none"
  /\ Reloadable(j)
  /\ spec[j].limit = 0 \/ terminal[j].units <= spec[j].limit

\* Faulty variant of Outcome: a result is believed whatever the exit code.
OutcomeWithoutCode(j) ==
  IF state[j] = "stopping" /\ ~protoErr[j] THEN "cancelled"
  ELSE IF Reloads(j) THEN "cancelled"
  ELSE IF ~protoErr[j] /\ terminal[j].type = "result" THEN "succeeded"
  ELSE IF ~protoErr[j] /\ terminal[j].type = "cancelled" THEN "cancelled"
  ELSE "failed"

\* The final state, in the order in which _monitor tries the cases.
Outcome(j) ==
  IF state[j] = "stopping" /\ ~protoErr[j] THEN "cancelled"
  ELSE IF Reloads(j) THEN "cancelled"
  ELSE IF ~protoErr[j] /\ terminal[j].type = "result" /\ proc[j] = "exit0" THEN "succeeded"
  ELSE IF ~protoErr[j] /\ terminal[j].type = "cancelled" THEN "cancelled"
  ELSE "failed"

\* Faulty variants of Remaining: the finished chunks are not subtracted, or they are
\* subtracted from the limit 0 too.
RemainingWhole(j)     == spec[j].limit
RemainingUnchecked(j) == spec[j].limit - terminal[j].units

\* What a reloading job leaves to its successor: the rest of its limit.
Remaining(j) == IF spec[j].limit = 0 THEN 0 ELSE spec[j].limit - terminal[j].units

\* Faulty variant of Resumed: takes the limit 0 for "nothing left".
ResumedIfLimited(j) ==
  IF state[j] # "stopping" /\ Reloads(j) /\ Remaining(j) # 0
  THEN {[from |-> j, limit |-> Remaining(j)]} ELSE {}

Resumed(j) ==
  IF state[j] # "stopping" /\ Reloads(j) /\ (spec[j].limit = 0 \/ Remaining(j) # 0)
  THEN {[from |-> j, limit |-> Remaining(j)]} ELSE {}

\* wait() has returned: the final state is recorded.
MonitorFinish(j) ==
  /\ mon[j] = "reaping" /\ Exited(j) /\ Healthy
  /\ state' = [state EXCEPT ![j] = Outcome(j)]
  /\ reloadSpecs' = reloadSpecs \cup Resumed(j)
  /\ mon' = [mon EXCEPT ![j] = "joining"]
  /\ UNCHANGED <<spec, regFailed, failures, owned, terminal, protoErr, stp, ready, reloadReq,
                 reloadSig, closing, processVars, pipe, workVars, asked, restarts>>

MonitorFinishLosesRegistry(j) ==
  /\ mon[j] = "reaping" /\ Exited(j)
  /\ WriteFails(j, Outcome(j))
  /\ reloadSpecs' = reloadSpecs \cup Resumed(j)
  /\ mon' = [mon EXCEPT ![j] = "dead"]
  /\ UNCHANGED <<spec, owned, terminal, protoErr, stp, ready, reloadReq, reloadSig, closing,
                 processVars, pipe, workVars, asked, restarts>>

\* Faulty variant of StopperJoined: the job is disowned at once.
StopperIgnored(j) == TRUE

\* The wait for the stopper that has to come before the job is disowned.
StopperJoined(j) == stp[j] \in {"none", "done"}

\* The thread ends, with its locals, and the OwnedWorker is dropped.
MonitorRelease(j) ==
  /\ mon[j] = "joining" /\ StopperJoined(j)
  /\ owned' = owned \ {j}
  /\ mon' = [mon EXCEPT ![j] = "gone"]
  /\ terminal' = [terminal EXCEPT ![j] = NoFrame] /\ protoErr' = [protoErr EXCEPT ![j] = FALSE]
  /\ ready' = [ready EXCEPT ![j] = FALSE] /\ reloadReq' = [reloadReq EXCEPT ![j] = FALSE]
  /\ UNCHANGED <<registryVars, stp, reloadSig, reloadSpecs, closing, processVars, pipe,
                 workVars, asked, restarts>>

-----------------------------------------------------------------------------
(* The stopper thread of a job: _stop *)

\* signal_worker(SIGINT); a worker that has exited is not signalled, and one that has
\* handled an interrupt ignores the next.
StopperInterrupts(j) ==
  /\ stp[j] = "new"
  /\ stp' = [stp EXCEPT ![j] = "int"]
  /\ intr' = [intr EXCEPT ![j] = IF Alive(j) /\ @ = "no" THEN "pending" ELSE @]
  /\ UNCHANGED <<registryVars, owned, monitorVars, ready, reloadVars, closing, proc, out,
                 dying, pipe, workVars, asked, restarts>>

\* The worker ends within interrupt_grace.
StopperReturns(j) ==
  /\ stp[j] = "int" /\ Exited(j)
  /\ stp' = [stp EXCEPT ![j] = "done"]
  /\ UNCHANGED <<registryVars, owned, monitorVars, ready, reloadVars, closing, processVars,
                 pipe, workVars, asked, restarts>>

\* Faulty variant of StopperEscalates: only the worker's children are signalled.
StopperSparesWorker(j) ==
  /\ Alive(j)
  /\ \/ stp[j] = "int"  /\ stp' = [stp EXCEPT ![j] = "term"]
     \/ stp[j] = "term" /\ stp' = [stp EXCEPT ![j] = "kill"]
  /\ UNCHANGED <<registryVars, owned, monitorVars, ready, reloadVars, closing, processVars,
                 pipe, workVars, asked, restarts>>

\* interrupt_grace is over: SIGTERM; terminate_grace is over: SIGKILL.
StopperEscalates(j) ==
  /\ Alive(j)
  /\ \/ stp[j] = "int"  /\ stp' = [stp EXCEPT ![j] = "term"]
     \/ stp[j] = "term" /\ stp' = [stp EXCEPT ![j] = "kill"]
  /\ dying' = [dying EXCEPT ![j] = TRUE]
  /\ UNCHANGED <<registryVars, owned, monitorVars, ready, reloadVars, closing, proc, out,
                 intr, pipe, workVars, asked, restarts>>

\* The worker has been terminated; its descendants are killed and reaped.
StopperReaps(j) ==
  /\ stp[j] \in {"term", "kill"} /\ Exited(j)
  /\ stp' = [stp EXCEPT ![j] = "done"]
  /\ UNCHANGED <<registryVars, owned, monitorVars, ready, reloadVars, closing, processVars,
                 pipe, workVars, asked, restarts>>

-----------------------------------------------------------------------------
(* The worker process of a job: worker.main, worker.execute, execute_translate *)

\* stdout is a pipe: a full one blocks the writer, a closed one raises BrokenPipeError,
\* and so does every later frame, until the interpreter exits with a traceback.
CanWrite(j) == Reading(j) /\ Len(pipe[j]) < PipeCap
Broken(j)   == ~Reading(j)

\* The chunks this run will finish: execute_translate's todo, with what it has done.
Total(j) ==
  LET open == units[j] + todo[spec[j].ws]
  IN  IF spec[j].limit = 0 \/ open < spec[j].limit THEN open ELSE spec[j].limit

Unlocked(j) == [w \in Workspaces |-> IF lock[w] = j THEN None ELSE lock[w]]

\* The process ends without another frame; the kernel drops its lock and its signals.
Ends(j, code) ==
  /\ proc' = [proc EXCEPT ![j] = code]
  /\ lock' = Unlocked(j)
  /\ intr' = [intr EXCEPT ![j] = "no"]
  /\ dying' = [dying EXCEPT ![j] = FALSE]

\* Unwinding with this result: providers, store and publication are closed on the way.
Unwinds(j, result) ==
  /\ proc' = [proc EXCEPT ![j] = "ending"]
  /\ out' = [out EXCEPT ![j] = result]

WorkerUnchanged == UNCHANGED <<registryVars, owned, monitorVars, stp, ready, reloadVars,
                               closing, asked, restarts>>

\* Faulty variant of LockFree: the lock is left to the supervisor's own checks.
LockIgnored(w) == TRUE

LockFree(w) == lock[w] = None

\* main() has read the spec and OperationScope holds the project's lock; the first
\* progress frames go out.
WorkerBegins(j) ==
  /\ proc[j] = "boot" /\ CanWrite(j) /\ LockFree(spec[j].ws)
  /\ proc' = [proc EXCEPT ![j] = "run"]
  /\ lock' = [lock EXCEPT ![spec[j].ws] = j]
  /\ pipe' = [pipe EXCEPT ![j] = Append(@, Frame("progress", 0))]
  /\ UNCHANGED <<out, intr, dying, pass, units, todo>> /\ WorkerUnchanged

\* The lock is taken: another worker (left behind by a dead server) or a CLI command.
WorkerRefused(j) ==
  /\ proc[j] = "boot" /\ lock[spec[j].ws] # None
  /\ Unwinds(j, "failure")
  /\ UNCHANGED <<intr, dying, pipe, workVars>> /\ WorkerUnchanged

\* A frame cannot be written.  The pass it reports is checkpointed all the same, and a
\* last pass has finished its chunk.
WorkerLosesPipe(j) ==
  /\ proc[j] \in {"boot", "run", "ending"} /\ Broken(j)
  /\ Ends(j, "exit1")
  /\ \/ UNCHANGED <<units, todo>>
     \/ /\ proc[j] = "run" /\ spec[j].op = "translate"
        /\ units[j] < Total(j) /\ pass[j] = Passes - 1
        /\ units' = [units EXCEPT ![j] = @ + 1]
        /\ todo' = [todo EXCEPT ![spec[j].ws] = @ - 1]
  /\ UNCHANGED <<out, pipe, pass>> /\ WorkerUnchanged

\* P2, P3 or P4 of a chunk is checkpointed: _reload_after_pass follows.
WorkerPasses(j) ==
  /\ proc[j] = "run" /\ spec[j].op = "translate" /\ CanWrite(j)
  /\ units[j] < Total(j) /\ pass[j] < Passes - 1
  /\ pass' = [pass EXCEPT ![j] = @ + 1]
  /\ pipe' = [pipe EXCEPT ![j] = Append(@, Frame("progress", 0))]
  /\ IF reloadSig[j] THEN Unwinds(j, "reload") ELSE UNCHANGED <<proc, out>>
  /\ UNCHANGED <<intr, dying, units, todo, lock>> /\ WorkerUnchanged

\* P5 is checkpointed and finish_chunk marks the chunk "done"; the last chunk does not
\* reload, it completes the job.
WorkerFinishesChunk(j) ==
  /\ proc[j] = "run" /\ spec[j].op = "translate" /\ CanWrite(j)
  /\ units[j] < Total(j) /\ pass[j] = Passes - 1
  /\ pass' = [pass EXCEPT ![j] = 0]
  /\ units' = [units EXCEPT ![j] = @ + 1]
  /\ todo' = [todo EXCEPT ![spec[j].ws] = @ - 1]
  /\ pipe' = [pipe EXCEPT ![j] = Append(@, Frame("progress", 0))]
  /\ IF reloadSig[j] /\ units[j] + 1 < Total(j) THEN Unwinds(j, "reload")
     ELSE UNCHANGED <<proc, out>>
  /\ UNCHANGED <<intr, dying, lock>> /\ WorkerUnchanged

\* The body is done: every chunk of a translate; a target pass or another operation
\* at any time.
WorkerCompletes(j) ==
  /\ proc[j] = "run"
  /\ spec[j].op = "translate" => units[j] = Total(j)
  /\ Unwinds(j, "result")
  /\ UNCHANGED <<intr, dying, pipe, workVars>> /\ WorkerUnchanged

\* An exception, in the operation or while unwinding, replaces what went before.
WorkerRaises(j) ==
  /\ proc[j] = "run" \/ (proc[j] = "ending" /\ out[j] # "failure")
  /\ Unwinds(j, "failure")
  /\ UNCHANGED <<intr, dying, pipe, workVars>> /\ WorkerUnchanged

\* OperationScope has released the lock; execute() sends its one terminal frame.
WorkerSends(j) ==
  /\ proc[j] = "ending" /\ CanWrite(j)
  /\ proc' = [proc EXCEPT ![j] = "sent"]
  /\ lock' = Unlocked(j)
  /\ pipe' = [pipe EXCEPT ![j] = Append(@, Frame(out[j], IF out[j] = "reload" THEN units[j] ELSE 0))]
  /\ UNCHANGED <<out, intr, dying, pass, units, todo>> /\ WorkerUnchanged

\* execute() returns 0 after a result or a reload, 130 or 1 otherwise.
WorkerExits(j) ==
  /\ proc[j] = "sent"
  /\ Ends(j, IF out[j] \in {"result", "reload"} THEN "exit0" ELSE "exit1")
  /\ UNCHANGED <<out, pipe, pass, units, todo>> /\ WorkerUnchanged

\* SIGINT raises KeyboardInterrupt.  Before main() installs its handler the process
\* just dies; from then on it unwinds as "cancelled" and ignores further interrupts.
WorkerInterrupted(j) ==
  /\ intr[j] = "pending" /\ proc[j] \in {"boot", "idle", "run", "ending"}
  /\ \/ /\ Unwinds(j, "cancelled")
        /\ intr' = [intr EXCEPT ![j] = "handled"]
        /\ UNCHANGED <<dying, lock>>
     \/ /\ proc[j] \in {"boot", "idle"}
        /\ Ends(j, "exit1")
        /\ UNCHANGED out
  /\ UNCHANGED <<pipe, pass, units, todo>> /\ WorkerUnchanged

\* SIGINT after the terminal frame, while execute() or main() returns: main() sends a
\* second terminal frame, "cancelled", or the interpreter is past its try block.
InterruptAfterFrame(j) ==
  /\ intr[j] = "pending" /\ proc[j] = "sent"
  /\ \/ /\ CanWrite(j)
        /\ intr' = [intr EXCEPT ![j] = "handled"]
        /\ out' = [out EXCEPT ![j] = "cancelled"]
        /\ pipe' = [pipe EXCEPT ![j] = Append(@, Frame("cancelled", 0))]
        /\ UNCHANGED <<proc, dying, lock>>
     \/ Ends(j, "exit1") /\ UNCHANGED <<out, pipe>>
  /\ UNCHANGED <<pass, units, todo>> /\ WorkerUnchanged

\* SIGTERM or SIGKILL lands, or the process is killed from outside (out of memory).
WorkerDies(j) ==
  /\ Alive(j)
  /\ Ends(j, "exit1")
  /\ UNCHANGED <<out, pipe, pass, units, todo>> /\ WorkerUnchanged

KillLands(j) == dying[j] /\ WorkerDies(j)

\* A line that decode() rejects (a corrupt or oversized frame).
WorkerMisprints(j) ==
  /\ Corrupt /\ proc[j] = "run" /\ CanWrite(j)
  /\ pipe' = [pipe EXCEPT ![j] = Append(@, Frame("bad", 0))]
  /\ UNCHANGED <<processVars, workVars>> /\ WorkerUnchanged

-----------------------------------------------------------------------------
(* The server process is replaced: it dies abruptly and is started again, or it      *)
(* re-executes itself.  JobRegistry.__init__ abandons the active jobs; the workers    *)
(* are in sessions of their own and live on.                                          *)

Restart ==
  /\ restarts < MaxRestarts /\ restarts' = restarts + 1
  /\ state' = [j \in Jobs |-> IF state[j] \in Active THEN "abandoned" ELSE state[j]]
  /\ regFailed' = FALSE /\ owned' = {} /\ closing' = FALSE /\ reloadSpecs' = {}
  /\ mon' = [j \in Jobs |-> "none"] /\ stp' = [j \in Jobs |-> "none"]
  /\ terminal' = [j \in Jobs |-> NoFrame] /\ protoErr' = [j \in Jobs |-> FALSE]
  /\ ready' = [j \in Jobs |-> FALSE] /\ reloadReq' = [j \in Jobs |-> FALSE]
  /\ pipe' = [j \in Jobs |-> <<>>]
  /\ UNCHANGED <<spec, failures, reloadSig, processVars, workVars, asked>>

-----------------------------------------------------------------------------

Start(j) == \E w \in Workspaces, o \in Ops, n \in Limits :
  /\ o = "translate" \/ n = 0
  /\ StartRuns(j, w, o, n) \/ StartLaunchFails(j, w, o, n) \/ StartLosesRegistry(j, w, o, n)

Monitor(j) ==
  \/ MonitorProgress(j) \/ MonitorProgressLosesRegistry(j) \/ MonitorTerminal(j)
  \/ MonitorProtocolError(j) \/ MonitorEOF(j)
  \/ MonitorFinish(j) \/ MonitorFinishLosesRegistry(j) \/ MonitorRelease(j)

Stopper(j) ==
  StopperInterrupts(j) \/ StopperReturns(j) \/ StopperEscalates(j) \/ StopperReaps(j)

Worker(j) ==
  \/ WorkerBegins(j) \/ WorkerRefused(j) \/ WorkerLosesPipe(j) \/ WorkerPasses(j)
  \/ WorkerFinishesChunk(j) \/ WorkerCompletes(j) \/ WorkerRaises(j) \/ WorkerSends(j)
  \/ WorkerExits(j) \/ WorkerInterrupted(j) \/ InterruptAfterFrame(j) \/ WorkerDies(j)
  \/ WorkerMisprints(j)

Threads(j) == Monitor(j) \/ Stopper(j) \/ Worker(j)

Next ==
  \/ \E j \in Jobs : Start(j) \/ Stop(j) \/ StopLosesRegistry(j) \/ Threads(j)
  \/ BeginShutdown \/ Shutdown \/ ShutdownLosesRegistry \/ RequestReload
  \/ Restart

Spec == Init /\ [][Next]_vars

\* Threads are scheduled, the grace periods end, a SIGKILL lands.  Nothing forces a
\* worker to make progress: an operation may hang until it is stopped.
Fairness ==
  \A j \in Jobs : WF_vars(Monitor(j)) /\ WF_vars(Stopper(j)) /\ WF_vars(KillLands(j))

FairSpec == Spec /\ Fairness

-----------------------------------------------------------------------------
(* What must hold *)

RegistryType ==
  /\ state \in [Jobs -> {"none"} \cup Active \cup Terminal]
  /\ spec \in [Jobs -> JobSpec]
  /\ regFailed \in BOOLEAN

BoundsType == failures \in 0 .. MaxFailures /\ restarts \in 0 .. MaxRestarts

ServerType ==
  /\ owned \subseteq Jobs /\ asked \subseteq Jobs
  /\ mon \in [Jobs -> {"none", "reading", "reaping", "joining", "gone", "dead"}]
  /\ stp \in [Jobs -> {"none", "new", "int", "term", "kill", "done"}]
  /\ terminal \in [Jobs -> Frames \cup {NoFrame}] /\ protoErr \in [Jobs -> BOOLEAN]
  /\ ready \in [Jobs -> BOOLEAN]
  /\ reloadReq \in [Jobs -> BOOLEAN] /\ reloadSig \in [Jobs -> BOOLEAN]
  /\ reloadSpecs \subseteq [from : Jobs, limit : Int]
  /\ closing \in BOOLEAN

WorkerType ==
  /\ proc \in [Jobs -> {"none", "boot", "idle", "run", "ending", "sent", "exit0", "exit1"}]
  /\ out \in [Jobs -> {"none"} \cup FrameTypes]
  /\ \A j \in Jobs : proc[j] = "ending" => out[j] # "none"
  /\ intr \in [Jobs -> {"no", "pending", "handled"}] /\ dying \in [Jobs -> BOOLEAN]
  /\ pipe \in [Jobs -> Seq(Frames)]

WorkType ==
  /\ pass \in [Jobs -> Nat] /\ units \in [Jobs -> Nat]
  /\ todo \in [Workspaces -> Int] /\ lock \in [Workspaces -> Jobs \cup {None}]

\* Every variable has its type; in particular the supervisor never puts a job into a
\* state, or a thread at a point, that its code does not name.
TypeOK == RegistryType /\ BoundsType /\ ServerType /\ WorkerType /\ WorkType

\* A job holds its workspace from its reservation until its monitor has disowned it.
Busy == {j \in Jobs : state[j] \in Active} \cup owned

\* At most one job holds a workspace, through launches that fail, stops that overtake
\* the end of the worker, registry write errors and restarts of the server (start's two
\* checks: the registry's active job, and a worker still owned after its final state).
OneJobPerWorkspace ==
  \A j, k \in Busy : spec[j].ws = spec[k].ws => j = k

\* The supervisor implements the lifecycle that clients rely on: states only advance, a
\* final state is final, and a workspace is given to a job only when it is free.
Lifecycle == INSTANCE JobLifecycle WITH ws <- [j \in Jobs |-> spec[j].ws], busy <- Busy

ImplementsLifecycle == Lifecycle!Spec

StopperWorks(j) == stp[j] \in {"new", "int", "term", "kill"}

\* A live worker, or a stopper still killing its descendants, belongs to a job this
\* server owns, unless a server death has left the worker behind: a monitor never
\* disowns a job it has not reaped and joined.
LiveWorkerIsOwned ==
  \A j \in Jobs : /\ Alive(j) => j \in owned \/ state[j] = "abandoned"
                  /\ StopperWorks(j) => j \in owned

\* Two workers never change one project at the same time, orphans of a dead server
\* included: the project's .lock is the final boundary.
AtMostOneWriter ==
  \A j, k \in Jobs : proc[j] = "run" /\ proc[k] = "run" /\ spec[j].ws = spec[k].ws => j = k

\* Why the three invariants above are kept: what each thread knows of its job...
ThreadsAgree ==
  \A j \in Jobs :
    /\ state[j] = "none" => j \notin owned /\ proc[j] = "none"
    /\ mon[j] \in {"reading", "reaping"} => j \in owned /\ state[j] \in Active
    /\ mon[j] = "joining" =>
         j \in owned /\ Exited(j) /\ state[j] \in {"succeeded", "failed", "cancelled"}
    /\ Alive(j) => state[j] \in Active \cup {"abandoned"}

\* ... and a running worker the owner of its project's lock.
WritersHoldLock == \A j \in Jobs : proc[j] = "run" => lock[spec[j].ws] = j

IInv == OneJobPerWorkspace /\ LiveWorkerIsOwned /\ ThreadsAgree /\ WritersHoldLock

\* A job that "succeeded" ended with a result and code 0, and a translation did all the
\* chunks it was asked for, whatever stops, reloads and deaths raced with its end.
SuccessIsComplete ==
  \A j \in Jobs : state[j] = "succeeded" =>
    /\ proc[j] = "exit0" /\ out[j] = "result"
    /\ spec[j].op = "translate" =>
         todo[spec[j].ws] = 0 \/ (spec[j].limit # 0 /\ units[j] = spec[j].limit)

\* What is left of a reloading job's work has exactly one owner.  A job is cancelled only
\* because somebody stopped it, or because it left the rest to a successor that the reloaded
\* server will start; the successor has what is left of the limit, never nothing and never
\* more, 0 meaning all; and a job that somebody stopped has no successor.  The record of the
\* rest is in the memory of one server process; what a reload makes of it when the process
\* is replaced is ReloadedWorkIsKept of the module Server.
RestIsHandedOver ==
  /\ restarts = 0 => \A j \in Jobs : state[j] = "cancelled" /\ j \notin asked =>
       \E r \in reloadSpecs : r.from = j
  /\ \A r \in reloadSpecs :
       /\ spec[r.from].limit = 0 => r.limit = 0
       /\ spec[r.from].limit # 0 => r.limit > 0 /\ r.limit + units[r.from] = spec[r.from].limit
       /\ r.from \notin asked

\* SIGUSR1, fatal to a process without a handler, is only sent to a translate worker
\* that has installed one.
ReloadSignalsInstalledHandler ==
  \A j \in Jobs : reloadSig[j] => proc[j] \notin {"boot", "idle"} /\ spec[j].op # "other"

\* A stop ends: the job reaches a final state and gives up its workspace, even when its
\* worker ignores SIGINT and SIGTERM and never reads or writes another byte.
StopEnds ==
  \A j \in Jobs : state[j] = "stopping" ~> state[j] \in Terminal /\ j \notin owned

\* Provided that workers go on working, a server that drains for a reload or a shutdown
\* ends up without workers: reload_drained becomes true.
WorkerGoesOn(j) ==
  \/ WorkerBegins(j) \/ WorkerRefused(j) \/ WorkerLosesPipe(j) \/ WorkerPasses(j)
  \/ WorkerFinishesChunk(j) \/ WorkerCompletes(j) \/ WorkerSends(j) \/ WorkerExits(j)

DrainEnds ==
  (\A j \in Jobs : WF_vars(WorkerGoesOn(j))) => (closing ~> ReloadDrained)

=============================================================================
