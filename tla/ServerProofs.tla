---------------------------- MODULE ServerProofs ----------------------------
(***************************************************************************)
(* Theorems about the modules Supervisor and Server, for every set of jobs *)
(* and workspaces, every limit and every bound.  First the supervisor on   *)
(* its own: types, exclusion, the refinement of JobLifecycle, and what its *)
(* workers have done when a job ends.  Then the server that contains it:   *)
(* its life, with its signals, clients, handoff and re-execution, is a     *)
(* behaviour of the supervisor, and the work that a reload hands over is   *)
(* never lost and never done twice.                                        *)
(***************************************************************************)
EXTENDS Server, TLAPS

\* The data Frame and Outcome produce, and what a pipe returns.
LEMMA FrameType == \A t \in FrameTypes, n \in Nat : Frame(t, n) \in Frames
  BY DEF Frame, Frames

LEMMA OutcomeType == \A j \in Jobs : Outcome(j) \in Terminal \ {"abandoned"}
  BY DEF Outcome, Terminal

LEMMA PipeType ==
  ASSUME WorkerType, NEW j \in Jobs
  PROVE  /\ \A f \in Frames : Append(pipe[j], f) \in Seq(Frames)
         /\ \A t \in FrameTypes, n \in Nat : Append(pipe[j], Frame(t, n)) \in Seq(Frames)
         /\ pipe[j] # <<>> => Head(pipe[j]) \in Frames /\ Tail(pipe[j]) \in Seq(Frames)
  <1>1. pipe[j] \in Seq(Frames)
    BY DEF WorkerType
  <1> QED BY <1>1, FrameType

LEMMA ResumedType ==
  ASSUME TypeOK, NEW j \in Jobs
  PROVE  Resumed(j) \subseteq [from : Jobs, limit : Int]
  <1>1. spec[j].limit \in Nat /\ terminal[j].units \in Nat
    BY DEF TypeOK, RegistryType, ServerType, JobSpec, Frames, NoFrame
  <1>2. Remaining(j) \in Int
    BY <1>1 DEF Remaining
  <1> QED BY <1>2 DEF Resumed

-----------------------------------------------------------------------------
(* Type correctness *)

LEMMA TypeInit == ASSUME Init PROVE TypeOK
  <1>1. (CHOOSE w \in Workspaces : TRUE) \in Workspaces
    BY SupervisorAssumption DEF SupervisorAssumption
  <1>2. [ws |-> CHOOSE w \in Workspaces : TRUE, op |-> "other", limit |-> 0] \in JobSpec
    BY <1>1 DEF JobSpec
  <1>3. RegistryType
    BY <1>2 DEF Init, RegistryType
  <1>4. BoundsType
    BY SupervisorAssumption DEF Init, BoundsType, SupervisorAssumption
  <1>5. ServerType
    BY DEF Init, ServerType
  <1>6. WorkerType
    BY DEF Init, WorkerType
  <1>7. WorkType
    BY SupervisorAssumption DEF Init, WorkType, SupervisorAssumption
  <1> QED BY <1>3, <1>4, <1>5, <1>6, <1>7 DEF TypeOK

LEMMA WriteFailsType ==
  ASSUME TypeOK, NEW j \in Jobs, NEW s \in {"none"} \cup Active \cup Terminal,
         WriteFails(j, s), UNCHANGED <<spec, restarts>>
  PROVE  RegistryType' /\ BoundsType'
  <1>1. RegistryType'
    BY DEF WriteFails, TypeOK, RegistryType
  <1>2. BoundsType'
    BY SupervisorAssumption DEF WriteFails, TypeOK, BoundsType, SupervisorAssumption
  <1> QED BY <1>1, <1>2

LEMMA StartType == ASSUME TypeOK, NEW j \in Jobs, Start(j) PROVE TypeOK'
  <1>1. PICK w \in Workspaces, o \in Ops, n \in Limits :
          StartRuns(j, w, o, n) \/ StartLaunchFails(j, w, o, n) \/ StartLosesRegistry(j, w, o, n)
    BY DEF Start
  <1>2. [ws |-> w, op |-> o, limit |-> n] \in JobSpec
    BY SupervisorAssumption DEF JobSpec, SupervisorAssumption
  <1>3. CASE StartRuns(j, w, o, n)
    <2>1. RegistryType'
      BY <1>3, <1>2 DEF StartRuns, TypeOK, RegistryType, Active
    <2>2. BoundsType'
      BY <1>3 DEF StartRuns, TypeOK, BoundsType
    <2>3. ServerType'
      BY <1>3 DEF StartRuns, TypeOK, ServerType, reloadVars
    <2>4. WorkerType'
      BY <1>3 DEF StartRuns, TypeOK, WorkerType
    <2>5. WorkType'
      BY <1>3 DEF StartRuns, TypeOK, WorkType, workVars
    <2> QED BY <2>1, <2>2, <2>3, <2>4, <2>5 DEF TypeOK
  <1>4. CASE StartLaunchFails(j, w, o, n)
    <2>1. RegistryType'
      BY <1>4, <1>2 DEF StartLaunchFails, TypeOK, RegistryType, Terminal
    <2>2. BoundsType'
      BY <1>4 DEF StartLaunchFails, TypeOK, BoundsType
    <2>3. ServerType'
      BY <1>4 DEF StartLaunchFails, TypeOK, ServerType, monitorVars, reloadVars
    <2>4. WorkerType'
      BY <1>4 DEF StartLaunchFails, TypeOK, WorkerType, processVars
    <2>5. WorkType'
      BY <1>4 DEF StartLaunchFails, TypeOK, WorkType, workVars
    <2> QED BY <2>1, <2>2, <2>3, <2>4, <2>5 DEF TypeOK
  <1>5. CASE StartLosesRegistry(j, w, o, n)
    <2>1. RegistryType'
      BY <1>5, <1>2 DEF StartLosesRegistry, TypeOK, RegistryType, Active
    <2>2. BoundsType'
      BY <1>5, SupervisorAssumption DEF StartLosesRegistry, TypeOK, BoundsType,
         SupervisorAssumption
    <2>3. ServerType'
      BY <1>5 DEF StartLosesRegistry, TypeOK, ServerType, monitorVars, reloadVars
    <2>4. WorkerType'
      BY <1>5 DEF StartLosesRegistry, TypeOK, WorkerType
    <2>5. WorkType'
      BY <1>5 DEF StartLosesRegistry, TypeOK, WorkType, workVars
    <2> QED BY <2>1, <2>2, <2>3, <2>4, <2>5 DEF TypeOK
  <1> QED BY <1>1, <1>3, <1>4, <1>5

\* A shutdown that a write error ends has stopped some of the jobs that can be stopped, and
\* has recorded as "stopping" those and at most one more.
LEMMA ShutdownLosesShape ==
  ASSUME state \in [Jobs -> {"none"} \cup Active \cup Terminal], ShutdownLosesRegistry
  PROVE  \E S, T \in SUBSET {j \in Jobs : Stoppable(j)} :
           /\ S \subseteq T /\ state' = Stopping(T) /\ asked' = asked \cup S
           /\ stp' = [k \in Jobs |-> IF k \in S THEN "new" ELSE stp[k]]
           /\ regFailed' /\ (regFailed => S = {} /\ state' = state)
  <1>1. PICK S \in SUBSET Jobs, j \in Jobs :
          /\ j \notin S /\ Stoppable(j) /\ \A k \in S : Stoppable(k)
          /\ \/ regFailed /\ S = {} /\ UNCHANGED <<state, regFailed, failures>>
             \/ /\ Healthy /\ failures < MaxFailures
                /\ regFailed' = TRUE /\ failures' = failures + 1
                /\ \E T \in {S, S \cup {j}} : state' = Stopping(T)
          /\ stp' = [k \in Jobs |-> IF k \in S THEN "new" ELSE stp[k]]
          /\ asked' = asked \cup S
    BY DEF ShutdownLosesRegistry
  <1>2. CASE regFailed
    <2>1. state' = Stopping({})
      BY <1>1, <1>2 DEF Stopping, Healthy
    <2> QED BY <1>1, <1>2, <2>1 DEF Healthy
  <1>3. CASE Healthy
    <2>1. PICK T \in {S, S \cup {j}} : state' = Stopping(T)
      BY <1>1, <1>3 DEF Healthy
    <2> QED BY <1>1, <1>3, <2>1 DEF Healthy
  <1> QED BY <1>2, <1>3 DEF Healthy

LEMMA ApiType ==
  ASSUME TypeOK, NEW j \in Jobs,
         Stop(j) \/ BeginShutdown \/ Shutdown \/ ShutdownLosesRegistry \/ RequestReload
  PROVE  TypeOK'
  <1>1. CASE Stop(j)
    <2>1. RegistryType'
      BY <1>1 DEF Stop, TypeOK, RegistryType, Active
    <2>2. BoundsType'
      BY <1>1 DEF Stop, TypeOK, BoundsType
    <2>3. ServerType'
      BY <1>1 DEF Stop, TypeOK, ServerType, monitorVars, reloadVars
    <2>4. WorkerType'
      BY <1>1 DEF Stop, TypeOK, WorkerType, processVars
    <2>5. WorkType'
      BY <1>1 DEF Stop, TypeOK, WorkType, workVars
    <2> QED BY <2>1, <2>2, <2>3, <2>4, <2>5 DEF TypeOK
  <1>2. CASE BeginShutdown
    <2>1. RegistryType'
      BY <1>2 DEF BeginShutdown, TypeOK, RegistryType, registryVars
    <2>2. BoundsType'
      BY <1>2 DEF BeginShutdown, TypeOK, BoundsType, registryVars
    <2>3. ServerType'
      BY <1>2 DEF BeginShutdown, TypeOK, ServerType, monitorVars, reloadVars
    <2>4. WorkerType'
      BY <1>2 DEF BeginShutdown, TypeOK, WorkerType, processVars
    <2>5. WorkType'
      BY <1>2 DEF BeginShutdown, TypeOK, WorkType, workVars
    <2> QED BY <2>1, <2>2, <2>3, <2>4, <2>5 DEF TypeOK
  <1>3. CASE Shutdown
    <2>1. RegistryType'
      BY <1>3 DEF Shutdown, Stopping, TypeOK, RegistryType, Active
    <2>2. BoundsType'
      BY <1>3 DEF Shutdown, TypeOK, BoundsType
    <2>3. ServerType'
      BY <1>3 DEF Shutdown, TypeOK, ServerType, monitorVars, reloadVars
    <2>4. WorkerType'
      BY <1>3 DEF Shutdown, TypeOK, WorkerType, processVars
    <2>5. WorkType'
      BY <1>3 DEF Shutdown, TypeOK, WorkType, workVars
    <2> QED BY <2>1, <2>2, <2>3, <2>4, <2>5 DEF TypeOK
  <1>4. CASE ShutdownLosesRegistry
    <2> PICK S \in SUBSET Jobs, T \in SUBSET Jobs :
            /\ state' = Stopping(T) /\ asked' = asked \cup S
            /\ stp' = [k \in Jobs |-> IF k \in S THEN "new" ELSE stp[k]]
      BY <1>4, ShutdownLosesShape DEF TypeOK, RegistryType
    <2>1. RegistryType'
      <3>1. regFailed' \in BOOLEAN
        BY <1>4 DEF ShutdownLosesRegistry, TypeOK, RegistryType
      <3> QED BY <1>4, <3>1 DEF ShutdownLosesRegistry, Stopping, TypeOK, RegistryType, Active
    <2>2. BoundsType'
      BY <1>4, SupervisorAssumption DEF ShutdownLosesRegistry, TypeOK, BoundsType,
         SupervisorAssumption
    <2>3. ServerType'
      BY <1>4 DEF ShutdownLosesRegistry, TypeOK, ServerType, monitorVars, reloadVars
    <2>4. WorkerType'
      BY <1>4 DEF ShutdownLosesRegistry, TypeOK, WorkerType, processVars
    <2>5. WorkType'
      BY <1>4 DEF ShutdownLosesRegistry, TypeOK, WorkType, workVars
    <2> QED BY <2>1, <2>2, <2>3, <2>4, <2>5 DEF TypeOK
  <1>5. CASE RequestReload
    <2>1. RegistryType'
      BY <1>5 DEF RequestReload, TypeOK, RegistryType, registryVars
    <2>2. BoundsType'
      BY <1>5 DEF RequestReload, TypeOK, BoundsType, registryVars
    <2>3. ServerType'
      BY <1>5 DEF RequestReload, TypeOK, ServerType, monitorVars
    <2>4. WorkerType'
      BY <1>5 DEF RequestReload, TypeOK, WorkerType, processVars
    <2>5. WorkType'
      BY <1>5 DEF RequestReload, TypeOK, WorkType, workVars
    <2> QED BY <2>1, <2>2, <2>3, <2>4, <2>5 DEF TypeOK
  <1> QED BY <1>1, <1>2, <1>3, <1>4, <1>5

LEMMA StopperType == ASSUME TypeOK, NEW j \in Jobs, Stopper(j) PROVE TypeOK'
  <1>1. CASE StopperInterrupts(j)
    <2>1. RegistryType'
      BY <1>1 DEF StopperInterrupts, TypeOK, RegistryType, registryVars
    <2>2. BoundsType'
      BY <1>1 DEF StopperInterrupts, TypeOK, BoundsType, registryVars
    <2>3. ServerType'
      BY <1>1 DEF StopperInterrupts, TypeOK, ServerType, monitorVars, reloadVars
    <2>4. WorkerType'
      BY <1>1 DEF StopperInterrupts, TypeOK, WorkerType
    <2>5. WorkType'
      BY <1>1 DEF StopperInterrupts, TypeOK, WorkType, workVars
    <2> QED BY <2>1, <2>2, <2>3, <2>4, <2>5 DEF TypeOK
  <1>2. CASE StopperReturns(j)
    <2>1. RegistryType'
      BY <1>2 DEF StopperReturns, TypeOK, RegistryType, registryVars
    <2>2. BoundsType'
      BY <1>2 DEF StopperReturns, TypeOK, BoundsType, registryVars
    <2>3. ServerType'
      BY <1>2 DEF StopperReturns, TypeOK, ServerType, monitorVars, reloadVars
    <2>4. WorkerType'
      BY <1>2 DEF StopperReturns, TypeOK, WorkerType, processVars
    <2>5. WorkType'
      BY <1>2 DEF StopperReturns, TypeOK, WorkType, workVars
    <2> QED BY <2>1, <2>2, <2>3, <2>4, <2>5 DEF TypeOK
  <1>3. CASE StopperEscalates(j)
    <2>1. RegistryType'
      BY <1>3 DEF StopperEscalates, TypeOK, RegistryType, registryVars
    <2>2. BoundsType'
      BY <1>3 DEF StopperEscalates, TypeOK, BoundsType, registryVars
    <2>3. ServerType'
      BY <1>3 DEF StopperEscalates, TypeOK, ServerType, monitorVars, reloadVars
    <2>4. WorkerType'
      BY <1>3 DEF StopperEscalates, TypeOK, WorkerType
    <2>5. WorkType'
      BY <1>3 DEF StopperEscalates, TypeOK, WorkType, workVars
    <2> QED BY <2>1, <2>2, <2>3, <2>4, <2>5 DEF TypeOK
  <1>4. CASE StopperReaps(j)
    <2>1. RegistryType'
      BY <1>4 DEF StopperReaps, TypeOK, RegistryType, registryVars
    <2>2. BoundsType'
      BY <1>4 DEF StopperReaps, TypeOK, BoundsType, registryVars
    <2>3. ServerType'
      BY <1>4 DEF StopperReaps, TypeOK, ServerType, monitorVars, reloadVars
    <2>4. WorkerType'
      BY <1>4 DEF StopperReaps, TypeOK, WorkerType, processVars
    <2>5. WorkType'
      BY <1>4 DEF StopperReaps, TypeOK, WorkType, workVars
    <2> QED BY <2>1, <2>2, <2>3, <2>4, <2>5 DEF TypeOK
  <1> QED BY <1>1, <1>2, <1>3, <1>4 DEF Stopper

LEMMA WorkerStepType == ASSUME TypeOK, NEW j \in Jobs, Worker(j) PROVE TypeOK'
  <1>1. WorkerUnchanged
    BY DEF Worker, WorkerBegins, WorkerRefused, WorkerLosesPipe, WorkerPasses,
       WorkerFinishesChunk, WorkerCompletes, WorkerRaises, WorkerSends, WorkerExits,
       WorkerInterrupted, InterruptAfterFrame, WorkerDies, WorkerMisprints
  <1>2. RegistryType' /\ ServerType'
    BY <1>1 DEF WorkerUnchanged, TypeOK, RegistryType, ServerType, registryVars, monitorVars,
       reloadVars
  <1>3. BoundsType'
    BY <1>1 DEF WorkerUnchanged, TypeOK, BoundsType, registryVars
  <1>4. /\ Append(pipe[j], Frame("progress", 0)) \in Seq(Frames)
        /\ Append(pipe[j], Frame("bad", 0)) \in Seq(Frames)
        /\ Append(pipe[j], Frame("cancelled", 0)) \in Seq(Frames)
    BY PipeType DEF TypeOK, FrameTypes
  <1>5. proc[j] = "ending" =>
          Append(pipe[j], Frame(out[j], IF out[j] = "reload" THEN units[j] ELSE 0)) \in Seq(Frames)
    BY PipeType DEF TypeOK, WorkerType, WorkType
  <1>6. CASE WorkerBegins(j)
    <2>1. WorkerType'
      BY <1>6, <1>4 DEF WorkerBegins, TypeOK, WorkerType, FrameTypes
    <2>2. WorkType'
      BY <1>6 DEF WorkerBegins, TypeOK, WorkType
    <2> QED BY <1>2, <1>3, <2>1, <2>2 DEF TypeOK
  <1>7. CASE WorkerRefused(j)
    <2>1. WorkerType'
      BY <1>7 DEF WorkerRefused, TypeOK, WorkerType, FrameTypes, Unwinds
    <2>2. WorkType'
      BY <1>7 DEF WorkerRefused, TypeOK, WorkType, workVars
    <2> QED BY <1>2, <1>3, <2>1, <2>2 DEF TypeOK
  <1>8. CASE WorkerLosesPipe(j)
    <2>1. WorkerType'
      BY <1>8 DEF WorkerLosesPipe, TypeOK, WorkerType, FrameTypes, Ends
    <2>2. WorkType'
      BY <1>8 DEF WorkerLosesPipe, TypeOK, WorkType, Ends, Unlocked
    <2> QED BY <1>2, <1>3, <2>1, <2>2 DEF TypeOK
  <1>9. CASE WorkerPasses(j)
    <2>1. WorkerType'
      BY <1>9, <1>4 DEF WorkerPasses, TypeOK, WorkerType, FrameTypes, Unwinds
    <2>2. WorkType'
      BY <1>9 DEF WorkerPasses, TypeOK, WorkType
    <2> QED BY <1>2, <1>3, <2>1, <2>2 DEF TypeOK
  <1>10. CASE WorkerFinishesChunk(j)
    <2>1. WorkerType'
      BY <1>10, <1>4 DEF WorkerFinishesChunk, TypeOK, WorkerType, FrameTypes, Unwinds
    <2>2. WorkType'
      <3>1. /\ pass' = [pass EXCEPT ![j] = 0]
            /\ units' = [units EXCEPT ![j] = @ + 1]
            /\ todo' = [todo EXCEPT ![spec[j].ws] = @ - 1]
            /\ lock' = lock
        BY <1>10 DEF WorkerFinishesChunk
      <3>2. pass' \in [Jobs -> Nat] /\ units' \in [Jobs -> Nat]
        BY <3>1 DEF TypeOK, WorkType
      <3>3. todo' \in [Workspaces -> Int]
        <4>1. spec[j].ws \in Workspaces /\ todo \in [Workspaces -> Int]
          BY DEF TypeOK, RegistryType, JobSpec, WorkType
        <4>2. todo[spec[j].ws] - 1 \in Int
          BY <4>1
        <4> QED BY <3>1, <4>1, <4>2
      <3> QED BY <3>1, <3>2, <3>3 DEF TypeOK, WorkType
    <2> QED BY <1>2, <1>3, <2>1, <2>2 DEF TypeOK
  <1>11. CASE WorkerCompletes(j)
    <2>1. WorkerType'
      BY <1>11 DEF WorkerCompletes, TypeOK, WorkerType, FrameTypes, Unwinds
    <2>2. WorkType'
      BY <1>11 DEF WorkerCompletes, TypeOK, WorkType, workVars
    <2> QED BY <1>2, <1>3, <2>1, <2>2 DEF TypeOK
  <1>12. CASE WorkerRaises(j)
    <2>1. WorkerType'
      BY <1>12 DEF WorkerRaises, TypeOK, WorkerType, FrameTypes, Unwinds
    <2>2. WorkType'
      BY <1>12 DEF WorkerRaises, TypeOK, WorkType, workVars
    <2> QED BY <1>2, <1>3, <2>1, <2>2 DEF TypeOK
  <1>13. CASE WorkerSends(j)
    <2>1. WorkerType'
      BY <1>13, <1>5 DEF WorkerSends, TypeOK, WorkerType, FrameTypes
    <2>2. WorkType'
      BY <1>13 DEF WorkerSends, TypeOK, WorkType, Unlocked
    <2> QED BY <1>2, <1>3, <2>1, <2>2 DEF TypeOK
  <1>14. CASE WorkerExits(j)
    <2>1. WorkerType'
      BY <1>14 DEF WorkerExits, TypeOK, WorkerType, FrameTypes, Ends
    <2>2. WorkType'
      BY <1>14 DEF WorkerExits, TypeOK, WorkType, Ends, Unlocked
    <2> QED BY <1>2, <1>3, <2>1, <2>2 DEF TypeOK
  <1>15. CASE WorkerInterrupted(j)
    <2>1. WorkerType'
      BY <1>15 DEF WorkerInterrupted, TypeOK, WorkerType, FrameTypes, Unwinds, Ends
    <2>2. WorkType'
      BY <1>15 DEF WorkerInterrupted, TypeOK, WorkType, Ends, Unlocked
    <2> QED BY <1>2, <1>3, <2>1, <2>2 DEF TypeOK
  <1>16. CASE InterruptAfterFrame(j)
    <2>1. WorkerType'
      <3>1. CASE pipe' = [pipe EXCEPT ![j] = Append(@, Frame("cancelled", 0))]
        BY <1>16, <1>4, <3>1 DEF InterruptAfterFrame, TypeOK, WorkerType, FrameTypes, Ends
      <3>2. CASE UNCHANGED <<out, pipe>>
        BY <1>16, <3>2 DEF InterruptAfterFrame, TypeOK, WorkerType, Ends
      <3> QED BY <1>16, <3>1, <3>2 DEF InterruptAfterFrame
    <2>2. WorkType'
      BY <1>16 DEF InterruptAfterFrame, TypeOK, WorkType, Ends, Unlocked
    <2> QED BY <1>2, <1>3, <2>1, <2>2 DEF TypeOK
  <1>17. CASE WorkerDies(j)
    <2>1. WorkerType'
      BY <1>17 DEF WorkerDies, TypeOK, WorkerType, FrameTypes, Ends
    <2>2. WorkType'
      BY <1>17 DEF WorkerDies, TypeOK, WorkType, Ends, Unlocked
    <2> QED BY <1>2, <1>3, <2>1, <2>2 DEF TypeOK
  <1>18. CASE WorkerMisprints(j)
    <2>1. WorkerType'
      BY <1>18, <1>4 DEF WorkerMisprints, TypeOK, WorkerType, FrameTypes, processVars
    <2>2. WorkType'
      BY <1>18 DEF WorkerMisprints, TypeOK, WorkType, workVars
    <2> QED BY <1>2, <1>3, <2>1, <2>2 DEF TypeOK
  <1> QED BY <1>6, <1>7, <1>8, <1>9, <1>10, <1>11, <1>12, <1>13, <1>14, <1>15, <1>16, <1>17, <1>18
             DEF Worker

LEMMA MonitorType == ASSUME TypeOK, NEW j \in Jobs, Monitor(j) PROVE TypeOK'
  <1>1. HeadFrame(j) => Head(pipe[j]) \in Frames /\ Tail(pipe[j]) \in Seq(Frames)
    BY PipeType DEF TypeOK, HeadFrame
  <1>2. /\ Outcome(j) \in {"none"} \cup Active \cup Terminal
        /\ Resumed(j) \subseteq [from : Jobs, limit : Int]
    BY OutcomeType, ResumedType
  <1>3. CASE MonitorProgress(j)
    <2>1. RegistryType'
      BY <1>3 DEF MonitorProgress, TypeOK, RegistryType, registryVars
    <2>2. BoundsType'
      BY <1>3 DEF MonitorProgress, TypeOK, BoundsType, registryVars
    <2>3. ServerType'
      BY <1>3 DEF MonitorProgress, TypeOK, ServerType, monitorVars
    <2>4. WorkerType'
      BY <1>3, <1>1 DEF MonitorProgress, TypeOK, WorkerType, processVars
    <2>5. WorkType'
      BY <1>3 DEF MonitorProgress, TypeOK, WorkType, workVars
    <2> QED BY <2>1, <2>2, <2>3, <2>4, <2>5 DEF TypeOK
  <1>4. CASE MonitorProgressLosesRegistry(j)
    <2>1. state[j] \in {"none"} \cup Active \cup Terminal
      BY DEF TypeOK, RegistryType
    <2>2. RegistryType' /\ BoundsType'
      BY <1>4, <2>1, WriteFailsType DEF MonitorProgressLosesRegistry
    <2>3. ServerType'
      BY <1>4 DEF MonitorProgressLosesRegistry, TypeOK, ServerType, reloadVars
    <2>4. WorkerType'
      BY <1>4 DEF MonitorProgressLosesRegistry, TypeOK, WorkerType, processVars
    <2>5. WorkType'
      BY <1>4 DEF MonitorProgressLosesRegistry, TypeOK, WorkType, workVars
    <2> QED BY <2>2, <2>3, <2>4, <2>5 DEF TypeOK
  <1>5. CASE MonitorTerminal(j)
    <2>1. RegistryType'
      BY <1>5 DEF MonitorTerminal, TypeOK, RegistryType, registryVars
    <2>2. BoundsType'
      BY <1>5 DEF MonitorTerminal, TypeOK, BoundsType, registryVars
    <2>3. ServerType'
      BY <1>5, <1>1 DEF MonitorTerminal, TypeOK, ServerType, reloadVars
    <2>4. WorkerType'
      BY <1>5, <1>1 DEF MonitorTerminal, TypeOK, WorkerType, processVars
    <2>5. WorkType'
      BY <1>5 DEF MonitorTerminal, TypeOK, WorkType, workVars
    <2> QED BY <2>1, <2>2, <2>3, <2>4, <2>5 DEF TypeOK
  <1>6. CASE MonitorProtocolError(j)
    <2>1. RegistryType' /\ BoundsType'
      <3>1. CASE WriteFails(j, "stopping")
        BY <1>6, <3>1, WriteFailsType DEF MonitorProtocolError, Active
      <3>2. CASE state' = [state EXCEPT ![j] = "stopping"] /\ UNCHANGED <<regFailed, failures>>
        BY <1>6, <3>2 DEF MonitorProtocolError, TypeOK, RegistryType, BoundsType, Active
      <3>3. CASE UNCHANGED <<state, regFailed, failures>>
        BY <1>6, <3>3 DEF MonitorProtocolError, TypeOK, RegistryType, BoundsType
      <3> QED BY <1>6, <3>1, <3>2, <3>3 DEF MonitorProtocolError
    <2>2. ServerType'
      BY <1>6 DEF MonitorProtocolError, TypeOK, ServerType, reloadVars
    <2>3. WorkerType'
      BY <1>6 DEF MonitorProtocolError, TypeOK, WorkerType, processVars
    <2>4. WorkType'
      BY <1>6 DEF MonitorProtocolError, TypeOK, WorkType, workVars
    <2> QED BY <2>1, <2>2, <2>3, <2>4 DEF TypeOK
  <1>7. CASE MonitorEOF(j)
    <2>1. RegistryType'
      BY <1>7 DEF MonitorEOF, TypeOK, RegistryType, registryVars
    <2>2. BoundsType'
      BY <1>7 DEF MonitorEOF, TypeOK, BoundsType, registryVars
    <2>3. ServerType'
      BY <1>7 DEF MonitorEOF, TypeOK, ServerType, reloadVars
    <2>4. WorkerType'
      BY <1>7 DEF MonitorEOF, TypeOK, WorkerType, processVars
    <2>5. WorkType'
      BY <1>7 DEF MonitorEOF, TypeOK, WorkType, workVars
    <2> QED BY <2>1, <2>2, <2>3, <2>4, <2>5 DEF TypeOK
  <1>8. CASE MonitorFinish(j)
    <2>1. RegistryType'
      BY <1>8, <1>2 DEF MonitorFinish, TypeOK, RegistryType
    <2>2. BoundsType'
      BY <1>8 DEF MonitorFinish, TypeOK, BoundsType
    <2>3. ServerType'
      BY <1>8, <1>2 DEF MonitorFinish, TypeOK, ServerType
    <2>4. WorkerType'
      BY <1>8 DEF MonitorFinish, TypeOK, WorkerType, processVars
    <2>5. WorkType'
      BY <1>8 DEF MonitorFinish, TypeOK, WorkType, workVars
    <2> QED BY <2>1, <2>2, <2>3, <2>4, <2>5 DEF TypeOK
  <1>9. CASE MonitorFinishLosesRegistry(j)
    <2>1. Outcome(j) \in {"none"} \cup Active \cup Terminal
      BY <1>2
    <2>2. RegistryType' /\ BoundsType'
      BY <1>9, <2>1, WriteFailsType DEF MonitorFinishLosesRegistry
    <2>3. ServerType'
      BY <1>9, <1>2 DEF MonitorFinishLosesRegistry, TypeOK, ServerType
    <2>4. WorkerType'
      BY <1>9 DEF MonitorFinishLosesRegistry, TypeOK, WorkerType, processVars
    <2>5. WorkType'
      BY <1>9 DEF MonitorFinishLosesRegistry, TypeOK, WorkType, workVars
    <2> QED BY <2>2, <2>3, <2>4, <2>5 DEF TypeOK
  <1>10. CASE MonitorRelease(j)
    <2>1. RegistryType'
      BY <1>10 DEF MonitorRelease, TypeOK, RegistryType, registryVars
    <2>2. BoundsType'
      BY <1>10 DEF MonitorRelease, TypeOK, BoundsType, registryVars
    <2>3. ServerType'
      BY <1>10 DEF MonitorRelease, TypeOK, ServerType
    <2>4. WorkerType'
      BY <1>10 DEF MonitorRelease, TypeOK, WorkerType, processVars
    <2>5. WorkType'
      BY <1>10 DEF MonitorRelease, TypeOK, WorkType, workVars
    <2> QED BY <2>1, <2>2, <2>3, <2>4, <2>5 DEF TypeOK
  <1> QED BY <1>3, <1>4, <1>5, <1>6, <1>7, <1>8, <1>9, <1>10 DEF Monitor

LEMMA StopLosesType == ASSUME TypeOK, NEW j \in Jobs, StopLosesRegistry(j) PROVE TypeOK'
  <1>1. "stopping" \in {"none"} \cup Active \cup Terminal
    BY DEF Active
  <1>2. RegistryType' /\ BoundsType'
    BY <1>1, WriteFailsType DEF StopLosesRegistry
  <1>3. ServerType'
    BY DEF StopLosesRegistry, TypeOK, ServerType, monitorVars, reloadVars
  <1>4. WorkerType'
    BY DEF StopLosesRegistry, TypeOK, WorkerType, processVars
  <1>5. WorkType'
    BY DEF StopLosesRegistry, TypeOK, WorkType, workVars
  <1> QED BY <1>2, <1>3, <1>4, <1>5 DEF TypeOK

LEMMA RestartType == ASSUME TypeOK, Restart PROVE TypeOK'
  <1>1. RegistryType'
    BY DEF Restart, TypeOK, RegistryType, Terminal
  <1>2. BoundsType'
    BY SupervisorAssumption DEF Restart, TypeOK, BoundsType, SupervisorAssumption
  <1>3. ServerType'
    BY DEF Restart, TypeOK, ServerType
  <1>4. WorkerType'
    BY DEF Restart, TypeOK, WorkerType, processVars
  <1>5. WorkType'
    BY DEF Restart, TypeOK, WorkType, workVars
  <1> QED BY <1>1, <1>2, <1>3, <1>4, <1>5 DEF TypeOK

LEMMA StutterType == ASSUME TypeOK, UNCHANGED vars PROVE TypeOK'
  BY DEF vars, registryVars, monitorVars, reloadVars, processVars, workVars, TypeOK, RegistryType,
     BoundsType, ServerType, WorkerType, WorkType

\* Every step preserves the types.
LEMMA TypeStep == ASSUME TypeOK, [Next]_vars PROVE TypeOK'
  <1>1. ASSUME NEW j \in Jobs, Start(j) \/ Stop(j) \/ StopLosesRegistry(j) \/ Threads(j)
        PROVE  TypeOK'
    BY <1>1, StartType, ApiType, StopLosesType, MonitorType, StopperType, WorkerStepType
       DEF Threads
  <1>2. CASE BeginShutdown \/ Shutdown \/ ShutdownLosesRegistry \/ RequestReload
    BY <1>2, ApiType, SupervisorAssumption DEF SupervisorAssumption
  <1>3. CASE Restart
    BY <1>3, RestartType
  <1>4. CASE UNCHANGED vars
    BY <1>4, StutterType
  <1> QED BY <1>1, <1>2, <1>3, <1>4 DEF Next

\* Type correctness, for every number of jobs, workspaces, chunks, restarts and failures.
THEOREM TypeCorrect == Spec => []TypeOK
  <1>1. Init => TypeOK
    BY TypeInit
  <1>2. TypeOK /\ [Next]_vars => TypeOK'
    BY TypeStep
  <1> QED BY <1>1, <1>2, PTL DEF Spec

-----------------------------------------------------------------------------
(* The inductive invariant: every action keeps IInv *)

LEMMA InitInv == ASSUME Init PROVE IInv
  BY DEF Init, IInv, OneJobPerWorkspace, Busy, LiveWorkerIsOwned, ThreadsAgree, WritersHoldLock,
     Active, Alive, StopperWorks

LEMMA StartInv == ASSUME TypeOK, IInv, NEW j \in Jobs, Start(j) PROVE IInv'
  <1>1. /\ state \in [Jobs -> {"none"} \cup Active \cup Terminal]
        /\ proc \in [Jobs -> {"none", "boot", "idle", "run", "ending", "sent", "exit0", "exit1"}]
        /\ mon \in [Jobs -> {"none", "reading", "reaping", "joining", "gone", "dead"}]
        /\ stp \in [Jobs -> {"none", "new", "int", "term", "kill", "done"}]
        /\ spec \in [Jobs -> JobSpec] /\ lock \in [Workspaces -> Jobs \cup {None}]
        /\ owned \subseteq Jobs
    BY DEF TypeOK, RegistryType, ServerType, WorkerType, WorkType
  <1>2. PICK w \in Workspaces, o \in Ops, n \in Limits :
          StartRuns(j, w, o, n) \/ StartLaunchFails(j, w, o, n) \/ StartLosesRegistry(j, w, o, n)
    BY DEF Start
  <1>3. CASE StartRuns(j, w, o, n)
    <2>1. OneJobPerWorkspace'
      BY <1>3, <1>1 DEF StartRuns, MayStart, Idle, Active, ThreadsAgree, IInv, OneJobPerWorkspace,
         Busy
    <2>2. LiveWorkerIsOwned'
      BY <1>3, <1>1 DEF StartRuns, MayStart, IInv, LiveWorkerIsOwned, ThreadsAgree, Alive,
         StopperWorks
    <2>3. ThreadsAgree'
      BY <1>3, <1>1 DEF StartRuns, MayStart, Active, Exited, IInv, ThreadsAgree, Alive
    <2>4. WritersHoldLock'
      BY <1>3, <1>1 DEF StartRuns, MayStart, ThreadsAgree, workVars, IInv, WritersHoldLock
    <2> QED BY <2>1, <2>2, <2>3, <2>4 DEF IInv
  <1>4. CASE StartLaunchFails(j, w, o, n)
    <2>1. OneJobPerWorkspace'
      BY <1>4, <1>1 DEF StartLaunchFails, MayStart, Active, IInv, OneJobPerWorkspace, Busy,
         ThreadsAgree
    <2>2. LiveWorkerIsOwned'
      BY <1>4, <1>1 DEF StartLaunchFails, MayStart, processVars, IInv, LiveWorkerIsOwned,
         ThreadsAgree, Alive, StopperWorks
    <2>3. ThreadsAgree'
      BY <1>4, <1>1 DEF StartLaunchFails, MayStart, monitorVars, processVars, Exited, IInv,
         ThreadsAgree, Alive, Active
    <2>4. WritersHoldLock'
      BY <1>4, <1>1 DEF StartLaunchFails, MayStart, processVars, workVars, ThreadsAgree, IInv,
         WritersHoldLock
    <2> QED BY <2>1, <2>2, <2>3, <2>4 DEF IInv
  <1>5. CASE StartLosesRegistry(j, w, o, n)
    <2>1. OneJobPerWorkspace'
      BY <1>5, <1>1 DEF StartLosesRegistry, MayStart, Idle, Active, ThreadsAgree, IInv,
         OneJobPerWorkspace, Busy
    <2>2. LiveWorkerIsOwned'
      BY <1>5, <1>1 DEF StartLosesRegistry, MayStart, IInv, LiveWorkerIsOwned, ThreadsAgree,
         Alive, StopperWorks
    <2>3. ThreadsAgree'
      BY <1>5, <1>1 DEF StartLosesRegistry, MayStart, monitorVars, Active, Exited, IInv,
         ThreadsAgree, Alive
    <2>4. WritersHoldLock'
      BY <1>5, <1>1 DEF StartLosesRegistry, MayStart, ThreadsAgree, workVars, IInv,
         WritersHoldLock
    <2> QED BY <2>1, <2>2, <2>3, <2>4 DEF IInv
  <1> QED BY <1>2, <1>3, <1>4, <1>5

LEMMA ApiInv ==
  ASSUME TypeOK, IInv, NEW j \in Jobs,
         \/ Stop(j) \/ StopLosesRegistry(j)
         \/ BeginShutdown \/ Shutdown \/ ShutdownLosesRegistry \/ RequestReload
  PROVE  IInv'
  <1>1. /\ state \in [Jobs -> {"none"} \cup Active \cup Terminal]
        /\ proc \in [Jobs -> {"none", "boot", "idle", "run", "ending", "sent", "exit0", "exit1"}]
        /\ mon \in [Jobs -> {"none", "reading", "reaping", "joining", "gone", "dead"}]
        /\ stp \in [Jobs -> {"none", "new", "int", "term", "kill", "done"}]
        /\ spec \in [Jobs -> JobSpec] /\ lock \in [Workspaces -> Jobs \cup {None}]
        /\ owned \subseteq Jobs
    BY DEF TypeOK, RegistryType, ServerType, WorkerType, WorkType
  <1>2. CASE Stop(j)
    <2>1. OneJobPerWorkspace'
      BY <1>2, <1>1 DEF Stop, Stoppable, Active, IInv, OneJobPerWorkspace, Busy
    <2>2. LiveWorkerIsOwned'
      BY <1>2, <1>1 DEF Stop, Stoppable, processVars, Active, IInv, LiveWorkerIsOwned,
         ThreadsAgree, Alive, StopperWorks
    <2>3. ThreadsAgree'
      BY <1>2, <1>1 DEF Stop, Stoppable, monitorVars, processVars, Active, Exited, IInv,
         ThreadsAgree, Alive
    <2>4. WritersHoldLock'
      BY <1>2, <1>1 DEF Stop, processVars, workVars, IInv, WritersHoldLock
    <2> QED BY <2>1, <2>2, <2>3, <2>4 DEF IInv
  <1>3. CASE StopLosesRegistry(j)
    <2>1. OneJobPerWorkspace'
      BY <1>3, <1>1 DEF StopLosesRegistry, Stoppable, WriteFails, Active, IInv,
         OneJobPerWorkspace, Busy
    <2>2. LiveWorkerIsOwned'
      BY <1>3, <1>1 DEF StopLosesRegistry, Stoppable, WriteFails, processVars, Active, IInv,
         LiveWorkerIsOwned, ThreadsAgree, Alive, StopperWorks
    <2>3. ThreadsAgree'
      BY <1>3, <1>1 DEF StopLosesRegistry, Stoppable, WriteFails, monitorVars, processVars,
         Active, Exited, IInv, ThreadsAgree, Alive
    <2>4. WritersHoldLock'
      BY <1>3, <1>1 DEF StopLosesRegistry, processVars, workVars, IInv, WritersHoldLock
    <2> QED BY <2>1, <2>2, <2>3, <2>4 DEF IInv
  <1>4. CASE BeginShutdown
    <2>1. OneJobPerWorkspace'
      BY <1>4, <1>1 DEF BeginShutdown, registryVars, IInv, OneJobPerWorkspace, Busy
    <2>2. LiveWorkerIsOwned'
      BY <1>4, <1>1 DEF BeginShutdown, registryVars, processVars, IInv, LiveWorkerIsOwned,
         ThreadsAgree, Alive, StopperWorks
    <2>3. ThreadsAgree'
      BY <1>4, <1>1 DEF BeginShutdown, registryVars, monitorVars, processVars, Exited, IInv,
         ThreadsAgree, Alive, Active
    <2>4. WritersHoldLock'
      BY <1>4, <1>1 DEF BeginShutdown, registryVars, processVars, workVars, IInv, WritersHoldLock
    <2> QED BY <2>1, <2>2, <2>3, <2>4 DEF IInv
  <1>5. CASE Shutdown
    <2>1. OneJobPerWorkspace'
      BY <1>5, <1>1 DEF Shutdown, Stopping, Stoppable, Active, IInv, OneJobPerWorkspace, Busy
    <2>2. LiveWorkerIsOwned'
      BY <1>5, <1>1 DEF Shutdown, Stopping, Stoppable, processVars, Active, IInv,
         LiveWorkerIsOwned, ThreadsAgree, Alive, StopperWorks
    <2>3. ThreadsAgree'
      BY <1>5, <1>1 DEF Shutdown, Stopping, Stoppable, monitorVars, processVars, Active, Exited,
         IInv, ThreadsAgree, Alive
    <2>4. WritersHoldLock'
      BY <1>5, <1>1 DEF Shutdown, processVars, workVars, IInv, WritersHoldLock
    <2> QED BY <2>1, <2>2, <2>3, <2>4 DEF IInv
  <1>6. CASE ShutdownLosesRegistry
    <2> PICK S \in SUBSET {k \in Jobs : Stoppable(k)}, T \in SUBSET {k \in Jobs : Stoppable(k)} :
            /\ S \subseteq T /\ state' = Stopping(T)
            /\ stp' = [k \in Jobs |-> IF k \in S THEN "new" ELSE stp[k]]
      BY <1>1, <1>6, ShutdownLosesShape
    <2>1. OneJobPerWorkspace'
      BY <1>6, <1>1 DEF ShutdownLosesRegistry, Stopping, Stoppable, Active, IInv,
         OneJobPerWorkspace, Busy
    <2>2. LiveWorkerIsOwned'
      BY <1>6, <1>1 DEF ShutdownLosesRegistry, Stopping, Stoppable, processVars, Active, IInv,
         LiveWorkerIsOwned, ThreadsAgree, Alive, StopperWorks
    <2>3. ThreadsAgree'
      BY <1>6, <1>1 DEF ShutdownLosesRegistry, Stopping, Stoppable, monitorVars, processVars,
         Active, Exited, IInv, ThreadsAgree, Alive
    <2>4. WritersHoldLock'
      BY <1>6, <1>1 DEF ShutdownLosesRegistry, processVars, workVars, IInv, WritersHoldLock
    <2> QED BY <2>1, <2>2, <2>3, <2>4 DEF IInv
  <1>7. CASE RequestReload
    <2>1. OneJobPerWorkspace'
      BY <1>7, <1>1 DEF RequestReload, registryVars, IInv, OneJobPerWorkspace, Busy
    <2>2. LiveWorkerIsOwned'
      BY <1>7, <1>1 DEF RequestReload, registryVars, processVars, IInv, LiveWorkerIsOwned,
         ThreadsAgree, Alive, StopperWorks
    <2>3. ThreadsAgree'
      BY <1>7, <1>1 DEF RequestReload, registryVars, monitorVars, processVars, Exited, IInv,
         ThreadsAgree, Alive, Active
    <2>4. WritersHoldLock'
      BY <1>7, <1>1 DEF RequestReload, registryVars, processVars, workVars, IInv, WritersHoldLock
    <2> QED BY <2>1, <2>2, <2>3, <2>4 DEF IInv
  <1> QED BY <1>2, <1>3, <1>4, <1>5, <1>6, <1>7

LEMMA MonitorInv == ASSUME TypeOK, IInv, NEW j \in Jobs, Monitor(j) PROVE IInv'
  <1>1. /\ state \in [Jobs -> {"none"} \cup Active \cup Terminal]
        /\ proc \in [Jobs -> {"none", "boot", "idle", "run", "ending", "sent", "exit0", "exit1"}]
        /\ mon \in [Jobs -> {"none", "reading", "reaping", "joining", "gone", "dead"}]
        /\ stp \in [Jobs -> {"none", "new", "int", "term", "kill", "done"}]
        /\ spec \in [Jobs -> JobSpec] /\ lock \in [Workspaces -> Jobs \cup {None}]
        /\ owned \subseteq Jobs
    BY DEF TypeOK, RegistryType, ServerType, WorkerType, WorkType
  <1>2. Outcome(j) \in {"succeeded", "failed", "cancelled"}
    BY DEF Outcome
  <1>3. CASE MonitorProgress(j)
    <2>1. OneJobPerWorkspace'
      BY <1>3, <1>1 DEF MonitorProgress, registryVars, IInv, OneJobPerWorkspace, Busy
    <2>2. LiveWorkerIsOwned'
      BY <1>3, <1>1 DEF MonitorProgress, registryVars, processVars, IInv, LiveWorkerIsOwned,
         ThreadsAgree, Alive, StopperWorks
    <2>3. ThreadsAgree'
      BY <1>3, <1>1 DEF MonitorProgress, registryVars, monitorVars, processVars, Exited, IInv,
         ThreadsAgree, Alive, Active
    <2>4. WritersHoldLock'
      BY <1>3, <1>1 DEF MonitorProgress, registryVars, processVars, workVars, IInv,
         WritersHoldLock
    <2> QED BY <2>1, <2>2, <2>3, <2>4 DEF IInv
  <1>4. CASE MonitorProgressLosesRegistry(j)
    <2>1. OneJobPerWorkspace'
      BY <1>4, <1>1 DEF MonitorProgressLosesRegistry, WriteFails, IInv, OneJobPerWorkspace, Busy
    <2>2. LiveWorkerIsOwned'
      BY <1>4, <1>1 DEF MonitorProgressLosesRegistry, WriteFails, processVars, IInv,
         LiveWorkerIsOwned, ThreadsAgree, Alive, StopperWorks
    <2>3. ThreadsAgree'
      BY <1>4, <1>1 DEF MonitorProgressLosesRegistry, HeadFrame, Reading, WriteFails, processVars,
         Exited, IInv, ThreadsAgree, Alive, Active
    <2>4. WritersHoldLock'
      BY <1>4, <1>1 DEF MonitorProgressLosesRegistry, processVars, workVars, IInv, WritersHoldLock
    <2> QED BY <2>1, <2>2, <2>3, <2>4 DEF IInv
  <1>5. CASE MonitorTerminal(j)
    <2>1. OneJobPerWorkspace'
      BY <1>5, <1>1 DEF MonitorTerminal, registryVars, IInv, OneJobPerWorkspace, Busy
    <2>2. LiveWorkerIsOwned'
      BY <1>5, <1>1 DEF MonitorTerminal, registryVars, processVars, IInv, LiveWorkerIsOwned,
         ThreadsAgree, Alive, StopperWorks
    <2>3. ThreadsAgree'
      BY <1>5, <1>1 DEF MonitorTerminal, registryVars, processVars, Exited, IInv, ThreadsAgree,
         Alive, Active
    <2>4. WritersHoldLock'
      BY <1>5, <1>1 DEF MonitorTerminal, registryVars, processVars, workVars, IInv,
         WritersHoldLock
    <2> QED BY <2>1, <2>2, <2>3, <2>4 DEF IInv
  <1>6. CASE MonitorProtocolError(j)
    <2>1. OneJobPerWorkspace'
      BY <1>6, <1>1 DEF MonitorProtocolError, Stoppable, WriteFails, Active, IInv,
         OneJobPerWorkspace, Busy
    <2>2. LiveWorkerIsOwned'
      BY <1>6, <1>1 DEF MonitorProtocolError, Stoppable, WriteFails, processVars, Active, IInv,
         LiveWorkerIsOwned, ThreadsAgree, Alive, StopperWorks
    <2>3. ThreadsAgree'
      BY <1>6, <1>1 DEF MonitorProtocolError, HeadFrame, Reading, Stoppable, WriteFails,
         processVars, Active, Exited, IInv, ThreadsAgree, Alive
    <2>4. WritersHoldLock'
      BY <1>6, <1>1 DEF MonitorProtocolError, processVars, workVars, IInv, WritersHoldLock
    <2> QED BY <2>1, <2>2, <2>3, <2>4 DEF IInv
  <1>7. CASE MonitorEOF(j)
    <2>1. OneJobPerWorkspace'
      BY <1>7, <1>1 DEF MonitorEOF, registryVars, IInv, OneJobPerWorkspace, Busy
    <2>2. LiveWorkerIsOwned'
      BY <1>7, <1>1 DEF MonitorEOF, registryVars, processVars, IInv, LiveWorkerIsOwned,
         ThreadsAgree, Alive, StopperWorks
    <2>3. ThreadsAgree'
      BY <1>7, <1>1 DEF MonitorEOF, Reading, registryVars, processVars, Exited, IInv,
         ThreadsAgree, Alive, Active
    <2>4. WritersHoldLock'
      BY <1>7, <1>1 DEF MonitorEOF, registryVars, processVars, workVars, IInv, WritersHoldLock
    <2> QED BY <2>1, <2>2, <2>3, <2>4 DEF IInv
  <1>8. CASE MonitorFinish(j)
    <2>1. OneJobPerWorkspace'
      BY <1>8, <1>1, <1>2 DEF MonitorFinish, Active, IInv, OneJobPerWorkspace, Busy
    <2>2. LiveWorkerIsOwned'
      BY <1>8, <1>1, <1>2 DEF MonitorFinish, processVars, Active, IInv, LiveWorkerIsOwned,
         ThreadsAgree, Alive, StopperWorks
    <2>3. ThreadsAgree'
      BY <1>8, <1>1, <1>2 DEF MonitorFinish, processVars, Active, Exited, IInv, ThreadsAgree,
         Alive
    <2>4. WritersHoldLock'
      BY <1>8, <1>1, <1>2 DEF MonitorFinish, processVars, workVars, IInv, WritersHoldLock
    <2> QED BY <2>1, <2>2, <2>3, <2>4 DEF IInv
  <1>9. CASE MonitorFinishLosesRegistry(j)
    <2>1. OneJobPerWorkspace'
      BY <1>9, <1>1, <1>2 DEF MonitorFinishLosesRegistry, WriteFails, Active, IInv,
         OneJobPerWorkspace, Busy
    <2>2. LiveWorkerIsOwned'
      BY <1>9, <1>1, <1>2 DEF MonitorFinishLosesRegistry, WriteFails, processVars, Active, IInv,
         LiveWorkerIsOwned, ThreadsAgree, Alive, StopperWorks
    <2>3. ThreadsAgree'
      BY <1>9, <1>1, <1>2 DEF MonitorFinishLosesRegistry, WriteFails, processVars, Exited, Active,
         IInv, ThreadsAgree, Alive
    <2>4. WritersHoldLock'
      BY <1>9, <1>1, <1>2 DEF MonitorFinishLosesRegistry, processVars, workVars, IInv,
         WritersHoldLock
    <2> QED BY <2>1, <2>2, <2>3, <2>4 DEF IInv
  <1>10. CASE MonitorRelease(j)
    <2>1. OneJobPerWorkspace'
      BY <1>10, <1>1 DEF MonitorRelease, registryVars, IInv, OneJobPerWorkspace, Busy
    <2>2. LiveWorkerIsOwned'
      BY <1>10, <1>1 DEF MonitorRelease, StopperJoined, registryVars, processVars, Exited, IInv,
         LiveWorkerIsOwned, ThreadsAgree, Alive, StopperWorks
    <2>3. ThreadsAgree'
      BY <1>10, <1>1 DEF MonitorRelease, registryVars, processVars, Exited, IInv, ThreadsAgree,
         Alive, Active
    <2>4. WritersHoldLock'
      BY <1>10, <1>1 DEF MonitorRelease, registryVars, processVars, workVars, IInv,
         WritersHoldLock
    <2> QED BY <2>1, <2>2, <2>3, <2>4 DEF IInv
  <1> QED BY <1>3, <1>4, <1>5, <1>6, <1>7, <1>8, <1>9, <1>10 DEF Monitor

LEMMA StopperInv == ASSUME TypeOK, IInv, NEW j \in Jobs, Stopper(j) PROVE IInv'
  <1>1. /\ state \in [Jobs -> {"none"} \cup Active \cup Terminal]
        /\ proc \in [Jobs -> {"none", "boot", "idle", "run", "ending", "sent", "exit0", "exit1"}]
        /\ mon \in [Jobs -> {"none", "reading", "reaping", "joining", "gone", "dead"}]
        /\ stp \in [Jobs -> {"none", "new", "int", "term", "kill", "done"}]
        /\ spec \in [Jobs -> JobSpec] /\ lock \in [Workspaces -> Jobs \cup {None}]
        /\ owned \subseteq Jobs
    BY DEF TypeOK, RegistryType, ServerType, WorkerType, WorkType
  <1>2. CASE StopperInterrupts(j)
    <2>1. OneJobPerWorkspace'
      BY <1>2, <1>1 DEF StopperInterrupts, registryVars, IInv, OneJobPerWorkspace, Busy
    <2>2. LiveWorkerIsOwned'
      BY <1>2, <1>1 DEF StopperInterrupts, registryVars, IInv, LiveWorkerIsOwned, ThreadsAgree,
         Alive, StopperWorks
    <2>3. ThreadsAgree'
      BY <1>2, <1>1 DEF StopperInterrupts, registryVars, monitorVars, Exited, IInv, ThreadsAgree,
         Alive, Active
    <2>4. WritersHoldLock'
      BY <1>2, <1>1 DEF StopperInterrupts, registryVars, workVars, IInv, WritersHoldLock
    <2> QED BY <2>1, <2>2, <2>3, <2>4 DEF IInv
  <1>3. CASE StopperReturns(j)
    <2>1. OneJobPerWorkspace'
      BY <1>3, <1>1 DEF StopperReturns, registryVars, IInv, OneJobPerWorkspace, Busy
    <2>2. LiveWorkerIsOwned'
      BY <1>3, <1>1 DEF StopperReturns, registryVars, processVars, IInv, LiveWorkerIsOwned,
         ThreadsAgree, Alive, StopperWorks
    <2>3. ThreadsAgree'
      BY <1>3, <1>1 DEF StopperReturns, registryVars, monitorVars, Exited, processVars, IInv,
         ThreadsAgree, Alive, Active
    <2>4. WritersHoldLock'
      BY <1>3, <1>1 DEF StopperReturns, registryVars, workVars, processVars, IInv, WritersHoldLock
    <2> QED BY <2>1, <2>2, <2>3, <2>4 DEF IInv
  <1>4. CASE StopperEscalates(j)
    <2>1. OneJobPerWorkspace'
      BY <1>4, <1>1 DEF StopperEscalates, registryVars, IInv, OneJobPerWorkspace, Busy
    <2>2. LiveWorkerIsOwned'
      BY <1>4, <1>1 DEF StopperEscalates, registryVars, IInv, LiveWorkerIsOwned, ThreadsAgree,
         Alive, StopperWorks
    <2>3. ThreadsAgree'
      BY <1>4, <1>1 DEF StopperEscalates, registryVars, monitorVars, Exited, IInv, ThreadsAgree,
         Alive, Active
    <2>4. WritersHoldLock'
      BY <1>4, <1>1 DEF StopperEscalates, registryVars, workVars, IInv, WritersHoldLock
    <2> QED BY <2>1, <2>2, <2>3, <2>4 DEF IInv
  <1>5. CASE StopperReaps(j)
    <2>1. OneJobPerWorkspace'
      BY <1>5, <1>1 DEF StopperReaps, registryVars, IInv, OneJobPerWorkspace, Busy
    <2>2. LiveWorkerIsOwned'
      BY <1>5, <1>1 DEF StopperReaps, registryVars, processVars, IInv, LiveWorkerIsOwned,
         ThreadsAgree, Alive, StopperWorks
    <2>3. ThreadsAgree'
      BY <1>5, <1>1 DEF StopperReaps, registryVars, monitorVars, Exited, processVars, IInv,
         ThreadsAgree, Alive, Active
    <2>4. WritersHoldLock'
      BY <1>5, <1>1 DEF StopperReaps, registryVars, workVars, processVars, IInv, WritersHoldLock
    <2> QED BY <2>1, <2>2, <2>3, <2>4 DEF IInv
  <1> QED BY <1>2, <1>3, <1>4, <1>5 DEF Stopper

LEMMA WorkerInv == ASSUME TypeOK, IInv, NEW j \in Jobs, Worker(j) PROVE IInv'
  <1>1. /\ state \in [Jobs -> {"none"} \cup Active \cup Terminal]
        /\ proc \in [Jobs -> {"none", "boot", "idle", "run", "ending", "sent", "exit0", "exit1"}]
        /\ mon \in [Jobs -> {"none", "reading", "reaping", "joining", "gone", "dead"}]
        /\ stp \in [Jobs -> {"none", "new", "int", "term", "kill", "done"}]
        /\ spec \in [Jobs -> JobSpec] /\ lock \in [Workspaces -> Jobs \cup {None}]
        /\ owned \subseteq Jobs
    BY DEF TypeOK, RegistryType, ServerType, WorkerType, WorkType
  <1>2. WorkerUnchanged
    BY DEF Worker, WorkerBegins, WorkerRefused, WorkerLosesPipe, WorkerPasses,
       WorkerFinishesChunk, WorkerCompletes, WorkerRaises, WorkerSends, WorkerExits,
       WorkerInterrupted, InterruptAfterFrame, WorkerDies, WorkerMisprints
  <1>3. OneJobPerWorkspace'
    BY <1>2 DEF WorkerUnchanged, registryVars, IInv, OneJobPerWorkspace, Busy
  <1>4. CASE WorkerBegins(j)
    <2>1. LiveWorkerIsOwned'
      BY <1>4, <1>1, <1>2 DEF WorkerBegins, WorkerUnchanged, registryVars, IInv,
         LiveWorkerIsOwned, Alive, StopperWorks
    <2>2. ThreadsAgree'
      BY <1>4, <1>1, <1>2 DEF WorkerBegins, WorkerUnchanged, registryVars, monitorVars, IInv,
         ThreadsAgree, Exited, Alive, Active
    <2>3. WritersHoldLock'
      BY <1>4, <1>1, <1>2, SupervisorAssumption DEF WorkerBegins, LockFree, WorkerUnchanged,
         registryVars, IInv, WritersHoldLock, JobSpec, SupervisorAssumption
    <2> QED BY <1>3, <2>1, <2>2, <2>3 DEF IInv
  <1>5. CASE WorkerRefused(j)
    <2>1. LiveWorkerIsOwned'
      BY <1>5, <1>1, <1>2 DEF WorkerRefused, Unwinds, WorkerUnchanged, registryVars, IInv,
         LiveWorkerIsOwned, Alive, StopperWorks
    <2>2. ThreadsAgree'
      BY <1>5, <1>1, <1>2 DEF WorkerRefused, Unwinds, WorkerUnchanged, registryVars, monitorVars,
         IInv, ThreadsAgree, Exited, Alive, Active
    <2>3. WritersHoldLock'
      BY <1>5, <1>1, <1>2 DEF WorkerRefused, Unwinds, workVars, WorkerUnchanged, registryVars,
         IInv, WritersHoldLock, JobSpec
    <2> QED BY <1>3, <2>1, <2>2, <2>3 DEF IInv
  <1>6. CASE WorkerLosesPipe(j)
    <2>1. LiveWorkerIsOwned'
      BY <1>6, <1>1, <1>2 DEF WorkerLosesPipe, Ends, WorkerUnchanged, registryVars, IInv,
         LiveWorkerIsOwned, Alive, StopperWorks
    <2>2. ThreadsAgree'
      BY <1>6, <1>1, <1>2 DEF WorkerLosesPipe, Ends, WorkerUnchanged, registryVars, monitorVars,
         IInv, ThreadsAgree, Exited, Alive, Active
    <2>3. WritersHoldLock'
      BY <1>6, <1>1, <1>2 DEF WorkerLosesPipe, Ends, Unlocked, WorkerUnchanged, registryVars,
         IInv, WritersHoldLock, JobSpec
    <2> QED BY <1>3, <2>1, <2>2, <2>3 DEF IInv
  <1>7. CASE WorkerPasses(j)
    <2>1. LiveWorkerIsOwned'
      BY <1>7, <1>1, <1>2 DEF WorkerPasses, Unwinds, WorkerUnchanged, registryVars, IInv,
         LiveWorkerIsOwned, Alive, StopperWorks
    <2>2. ThreadsAgree'
      BY <1>7, <1>1, <1>2 DEF WorkerPasses, Unwinds, WorkerUnchanged, registryVars, monitorVars,
         IInv, ThreadsAgree, Exited, Alive, Active
    <2>3. WritersHoldLock'
      BY <1>7, <1>1, <1>2 DEF WorkerPasses, Unwinds, WorkerUnchanged, registryVars, IInv,
         WritersHoldLock, JobSpec
    <2> QED BY <1>3, <2>1, <2>2, <2>3 DEF IInv
  <1>8. CASE WorkerFinishesChunk(j)
    <2>1. LiveWorkerIsOwned'
      BY <1>8, <1>1, <1>2 DEF WorkerFinishesChunk, Unwinds, WorkerUnchanged, registryVars, IInv,
         LiveWorkerIsOwned, Alive, StopperWorks
    <2>2. ThreadsAgree'
      BY <1>8, <1>1, <1>2 DEF WorkerFinishesChunk, Unwinds, WorkerUnchanged, registryVars,
         monitorVars, IInv, ThreadsAgree, Exited, Alive, Active
    <2>3. WritersHoldLock'
      BY <1>8, <1>1, <1>2 DEF WorkerFinishesChunk, Unwinds, WorkerUnchanged, registryVars, IInv,
         WritersHoldLock, JobSpec
    <2> QED BY <1>3, <2>1, <2>2, <2>3 DEF IInv
  <1>9. CASE WorkerCompletes(j)
    <2>1. LiveWorkerIsOwned'
      BY <1>9, <1>1, <1>2 DEF WorkerCompletes, Unwinds, WorkerUnchanged, registryVars, IInv,
         LiveWorkerIsOwned, Alive, StopperWorks
    <2>2. ThreadsAgree'
      BY <1>9, <1>1, <1>2 DEF WorkerCompletes, Unwinds, WorkerUnchanged, registryVars,
         monitorVars, IInv, ThreadsAgree, Exited, Alive, Active
    <2>3. WritersHoldLock'
      BY <1>9, <1>1, <1>2 DEF WorkerCompletes, Unwinds, workVars, WorkerUnchanged, registryVars,
         IInv, WritersHoldLock, JobSpec
    <2> QED BY <1>3, <2>1, <2>2, <2>3 DEF IInv
  <1>10. CASE WorkerRaises(j)
    <2>1. LiveWorkerIsOwned'
      BY <1>10, <1>1, <1>2 DEF WorkerRaises, Unwinds, WorkerUnchanged, registryVars, IInv,
         LiveWorkerIsOwned, Alive, StopperWorks
    <2>2. ThreadsAgree'
      BY <1>10, <1>1, <1>2 DEF WorkerRaises, Unwinds, WorkerUnchanged, registryVars, monitorVars,
         IInv, ThreadsAgree, Exited, Alive, Active
    <2>3. WritersHoldLock'
      BY <1>10, <1>1, <1>2 DEF WorkerRaises, Unwinds, workVars, WorkerUnchanged, registryVars,
         IInv, WritersHoldLock, JobSpec
    <2> QED BY <1>3, <2>1, <2>2, <2>3 DEF IInv
  <1>11. CASE WorkerSends(j)
    <2>1. LiveWorkerIsOwned'
      BY <1>11, <1>1, <1>2 DEF WorkerSends, WorkerUnchanged, registryVars, IInv,
         LiveWorkerIsOwned, Alive, StopperWorks
    <2>2. ThreadsAgree'
      BY <1>11, <1>1, <1>2 DEF WorkerSends, WorkerUnchanged, registryVars, monitorVars, IInv,
         ThreadsAgree, Exited, Alive, Active
    <2>3. WritersHoldLock'
      BY <1>11, <1>1, <1>2 DEF WorkerSends, Unlocked, WorkerUnchanged, registryVars, IInv,
         WritersHoldLock, JobSpec
    <2> QED BY <1>3, <2>1, <2>2, <2>3 DEF IInv
  <1>12. CASE WorkerExits(j)
    <2>1. LiveWorkerIsOwned'
      BY <1>12, <1>1, <1>2 DEF WorkerExits, Ends, WorkerUnchanged, registryVars, IInv,
         LiveWorkerIsOwned, Alive, StopperWorks
    <2>2. ThreadsAgree'
      BY <1>12, <1>1, <1>2 DEF WorkerExits, Ends, WorkerUnchanged, registryVars, monitorVars,
         IInv, ThreadsAgree, Exited, Alive, Active
    <2>3. WritersHoldLock'
      BY <1>12, <1>1, <1>2 DEF WorkerExits, Ends, Unlocked, WorkerUnchanged, registryVars, IInv,
         WritersHoldLock, JobSpec
    <2> QED BY <1>3, <2>1, <2>2, <2>3 DEF IInv
  <1>13. CASE WorkerInterrupted(j)
    <2>1. LiveWorkerIsOwned'
      BY <1>13, <1>1, <1>2 DEF WorkerInterrupted, Unwinds, Ends, WorkerUnchanged, registryVars,
         IInv, LiveWorkerIsOwned, Alive, StopperWorks
    <2>2. ThreadsAgree'
      BY <1>13, <1>1, <1>2 DEF WorkerInterrupted, Unwinds, Ends, WorkerUnchanged, registryVars,
         monitorVars, IInv, ThreadsAgree, Exited, Alive, Active
    <2>3. WritersHoldLock'
      BY <1>13, <1>1, <1>2 DEF WorkerInterrupted, Unwinds, Ends, Unlocked, WorkerUnchanged,
         registryVars, IInv, WritersHoldLock, JobSpec
    <2> QED BY <1>3, <2>1, <2>2, <2>3 DEF IInv
  <1>14. CASE InterruptAfterFrame(j)
    <2>1. LiveWorkerIsOwned'
      BY <1>14, <1>1, <1>2 DEF InterruptAfterFrame, Ends, WorkerUnchanged, registryVars, IInv,
         LiveWorkerIsOwned, Alive, StopperWorks
    <2>2. ThreadsAgree'
      BY <1>14, <1>1, <1>2 DEF InterruptAfterFrame, Ends, WorkerUnchanged, registryVars,
         monitorVars, IInv, ThreadsAgree, Exited, Alive, Active
    <2>3. WritersHoldLock'
      BY <1>14, <1>1, <1>2 DEF InterruptAfterFrame, Ends, Unlocked, WorkerUnchanged, registryVars,
         IInv, WritersHoldLock, JobSpec
    <2> QED BY <1>3, <2>1, <2>2, <2>3 DEF IInv
  <1>15. CASE WorkerDies(j)
    <2>1. LiveWorkerIsOwned'
      BY <1>15, <1>1, <1>2 DEF WorkerDies, Ends, WorkerUnchanged, registryVars, IInv,
         LiveWorkerIsOwned, Alive, StopperWorks
    <2>2. ThreadsAgree'
      BY <1>15, <1>1, <1>2 DEF WorkerDies, Ends, Alive, WorkerUnchanged, registryVars,
         monitorVars, IInv, ThreadsAgree, Exited, Active
    <2>3. WritersHoldLock'
      BY <1>15, <1>1, <1>2 DEF WorkerDies, Ends, Unlocked, Alive, WorkerUnchanged, registryVars,
         IInv, WritersHoldLock, JobSpec
    <2> QED BY <1>3, <2>1, <2>2, <2>3 DEF IInv
  <1>16. CASE WorkerMisprints(j)
    <2>1. LiveWorkerIsOwned'
      BY <1>16, <1>1, <1>2 DEF WorkerMisprints, processVars, WorkerUnchanged, registryVars, IInv,
         LiveWorkerIsOwned, Alive, StopperWorks
    <2>2. ThreadsAgree'
      BY <1>16, <1>1, <1>2 DEF WorkerMisprints, processVars, WorkerUnchanged, registryVars,
         monitorVars, IInv, ThreadsAgree, Exited, Alive, Active
    <2>3. WritersHoldLock'
      BY <1>16, <1>1, <1>2 DEF WorkerMisprints, processVars, workVars, WorkerUnchanged,
         registryVars, IInv, WritersHoldLock, JobSpec
    <2> QED BY <1>3, <2>1, <2>2, <2>3 DEF IInv
  <1> QED BY <1>4, <1>5, <1>6, <1>7, <1>8, <1>9, <1>10, <1>11, <1>12, <1>13, <1>14, <1>15, <1>16
             DEF Worker

LEMMA RestartInv == ASSUME TypeOK, IInv, Restart PROVE IInv'
  <1>1. /\ state \in [Jobs -> {"none"} \cup Active \cup Terminal]
        /\ proc \in [Jobs -> {"none", "boot", "idle", "run", "ending", "sent", "exit0", "exit1"}]
        /\ mon \in [Jobs -> {"none", "reading", "reaping", "joining", "gone", "dead"}]
        /\ stp \in [Jobs -> {"none", "new", "int", "term", "kill", "done"}]
        /\ spec \in [Jobs -> JobSpec] /\ lock \in [Workspaces -> Jobs \cup {None}]
        /\ owned \subseteq Jobs
    BY DEF TypeOK, RegistryType, ServerType, WorkerType, WorkType
  <1>2. OneJobPerWorkspace'
    BY <1>1 DEF Restart, OneJobPerWorkspace, Busy, Active
  <1>3. LiveWorkerIsOwned'
    BY <1>1 DEF Restart, IInv, LiveWorkerIsOwned, ThreadsAgree, Alive, StopperWorks, processVars,
       Exited
  <1>4. ThreadsAgree'
    BY <1>1 DEF Restart, IInv, ThreadsAgree, processVars, Active, Alive, Exited
  <1>5. WritersHoldLock'
    BY DEF Restart, IInv, WritersHoldLock, processVars, workVars
  <1> QED BY <1>2, <1>3, <1>4, <1>5 DEF IInv

LEMMA StutterInv == ASSUME IInv, UNCHANGED vars PROVE IInv'
  BY DEF vars, registryVars, monitorVars, processVars, workVars, IInv, OneJobPerWorkspace, Busy,
     LiveWorkerIsOwned, ThreadsAgree, WritersHoldLock, Alive, StopperWorks, Exited, Active

LEMMA StepInv == ASSUME TypeOK, IInv, [Next]_vars PROVE IInv'
  <1>1. ASSUME NEW j \in Jobs, Start(j) \/ Stop(j) \/ StopLosesRegistry(j) \/ Threads(j)
        PROVE  IInv'
    BY <1>1, StartInv, ApiInv, MonitorInv, StopperInv, WorkerInv DEF Threads
  <1>2. CASE BeginShutdown \/ Shutdown \/ ShutdownLosesRegistry \/ RequestReload
    BY <1>2, ApiInv, SupervisorAssumption DEF SupervisorAssumption
  <1>3. CASE Restart
    BY <1>3, RestartInv
  <1>4. CASE UNCHANGED vars
    BY <1>4, StutterInv
  <1> QED BY <1>1, <1>2, <1>3, <1>4 DEF Next

LEMMA Inductive == Spec => [](TypeOK /\ IInv)
  <1>1. Init => IInv
    BY InitInv
  <1>2. TypeOK /\ IInv /\ [Next]_vars => IInv'
    BY StepInv
  <1> QED BY <1>1, <1>2, TypeCorrect, PTL DEF Spec

\* Whatever the number of jobs, restarts and write errors: one job per workspace.
THEOREM Exclusion == Spec => []OneJobPerWorkspace
  <1>1. IInv => OneJobPerWorkspace
    BY DEF IInv
  <1> QED BY <1>1, Inductive, PTL

\* No worker and no stopper is ever left unowned by a server that lives.
THEOREM Ownership == Spec => []LiveWorkerIsOwned
  <1>1. IInv => LiveWorkerIsOwned
    BY DEF IInv
  <1> QED BY <1>1, Inductive, PTL

\* Two workers never write to one project, orphans included.
THEOREM MutualExclusion == Spec => []AtMostOneWriter
  <1>1. IInv => AtMostOneWriter
    BY DEF IInv, WritersHoldLock, AtMostOneWriter
  <1> QED BY <1>1, Inductive, PTL

-----------------------------------------------------------------------------
(* Refinement: every step of the supervisor is a step of JobLifecycle or none *)

Stutters == UNCHANGED <<state, spec, Busy>>

LEMMA StuttersRefine == ASSUME Stutters PROVE UNCHANGED Lifecycle!vars
  BY DEF Stutters, Lifecycle!vars

LEMMA StartRefines ==
  ASSUME TypeOK, IInv, NEW j \in Jobs, Start(j)
  PROVE  Lifecycle!Next
  <1>1. state \in [Jobs -> {"none"} \cup Active \cup Terminal] /\ spec \in [Jobs -> JobSpec]
        /\ owned \subseteq Jobs
    BY DEF TypeOK, RegistryType, ServerType
  <1>2. PICK w \in Workspaces, o \in Ops, n \in Limits :
          StartRuns(j, w, o, n) \/ StartLaunchFails(j, w, o, n) \/ StartLosesRegistry(j, w, o, n)
    BY DEF Start
  <1>3. MayStart(j, w) /\ spec' = [spec EXCEPT ![j] = [ws |-> w, op |-> o, limit |-> n]]
    BY <1>2 DEF StartRuns, StartLaunchFails, StartLosesRegistry
  <1>4. Lifecycle!Free(w)
    BY <1>1, <1>3 DEF MayStart, Idle, Lifecycle!Free, Busy
  <1>5. [k \in Jobs |-> spec'[k].ws] = [[k \in Jobs |-> spec[k].ws] EXCEPT ![j] = w]
    BY <1>1, <1>3
  <1>6. j \notin Busy
    BY <1>3 DEF MayStart, IInv, ThreadsAgree, Busy, Active
  <1>7. CASE state' = [state EXCEPT ![j] = "failed"] /\ owned' = owned
    <2>1. Busy' = Busy
      BY <1>1, <1>6, <1>7 DEF Busy, Active
    <2> QED BY <1>3, <1>4, <1>5, <1>7, <2>1 DEF MayStart, Lifecycle!Next, Lifecycle!Reserve
  <1>8. CASE /\ \E s \in {"starting", "running"} : state' = [state EXCEPT ![j] = s]
             /\ owned' = owned \/ owned' = owned \cup {j}
    <2>1. Busy' = Busy \cup {j}
      BY <1>1, <1>6, <1>8 DEF Busy, Active
    <2> QED BY <1>3, <1>4, <1>5, <1>8, <2>1 DEF MayStart, Lifecycle!Next, Lifecycle!Reserve
  <1> QED BY <1>2, <1>7, <1>8 DEF StartRuns, StartLaunchFails, StartLosesRegistry

\* Setting the state of stoppable jobs to "stopping" is an interrupt.
LEMMA InterruptRefines ==
  ASSUME TypeOK, NEW S \in SUBSET {j \in Jobs : Stoppable(j)},
         state' = [j \in Jobs |-> IF j \in S THEN "stopping" ELSE state[j]],
         UNCHANGED <<spec, owned>>
  PROVE  Lifecycle!Next
  <1>1. \A j \in S : j \in owned /\ state[j] \in Active
    BY DEF Stoppable
  <1>2. owned \subseteq Jobs
    BY DEF TypeOK, ServerType
  <1>3. S \in SUBSET Busy /\ \A j \in S : state[j] \in Lifecycle!Active
    BY <1>1 DEF Busy, Active, Lifecycle!Active
  <1>4. Busy' = Busy
    BY <1>1, <1>2 DEF Busy, Active
  <1>5. Lifecycle!Interrupt(S)
    BY <1>3, <1>4 DEF Lifecycle!Interrupt
  <1> QED BY <1>3, <1>5 DEF Lifecycle!Next

LEMMA StopRefines ==
  ASSUME TypeOK, NEW j \in Jobs, Stoppable(j), UNCHANGED <<spec, owned>>,
         state' \in {state, [state EXCEPT ![j] = "stopping"]}
  PROVE  [Lifecycle!Next]_Lifecycle!vars
  <1>1. state \in [Jobs -> {"none"} \cup Active \cup Terminal]
    BY DEF TypeOK, RegistryType
  <1>2. CASE state' = state
    BY <1>2, StuttersRefine DEF Stutters, Busy
  <1>3. CASE state' = [state EXCEPT ![j] = "stopping"]
    <2>1. state' = [k \in Jobs |-> IF k \in {j} THEN "stopping" ELSE state[k]]
      BY <1>1, <1>3
    <2> QED BY <2>1, InterruptRefines
  <1> QED BY <1>2, <1>3

LEMMA FinishRefines ==
  ASSUME TypeOK, IInv, NEW j \in Jobs, mon[j] = "reaping", UNCHANGED <<spec, owned>>,
         state' \in {state, [state EXCEPT ![j] = Outcome(j)]}
  PROVE  [Lifecycle!Next]_Lifecycle!vars
  <1>1. state \in [Jobs -> {"none"} \cup Active \cup Terminal]
    BY DEF TypeOK, RegistryType
  <1>2. j \in owned /\ state[j] \in Active
    BY DEF IInv, ThreadsAgree
  <1>3. Outcome(j) \in {"succeeded", "failed", "cancelled"}
    BY DEF Outcome
  <1>4. Busy' = Busy
    BY <1>1, <1>2, <1>3 DEF Busy, Active
  <1>5. CASE state' = state
    BY <1>4, <1>5, StuttersRefine DEF Stutters
  <1>6. CASE state' = [state EXCEPT ![j] = Outcome(j)]
    <2>1. Lifecycle!Finish(j)
      BY <1>2, <1>3, <1>4, <1>6 DEF Lifecycle!Finish, Lifecycle!Active, Busy, Active
    <2> QED BY <2>1 DEF Lifecycle!Next
  <1> QED BY <1>5, <1>6

LEMMA MonitorRefines ==
  ASSUME TypeOK, IInv, NEW j \in Jobs, Monitor(j)
  PROVE  [Lifecycle!Next]_Lifecycle!vars
  <1>1. state \in [Jobs -> {"none"} \cup Active \cup Terminal]
    BY DEF TypeOK, RegistryType
  <1>2. CASE MonitorProgress(j) \/ MonitorTerminal(j) \/ MonitorEOF(j)
    BY <1>2, StuttersRefine DEF MonitorProgress, MonitorTerminal, MonitorEOF, Stutters, Busy,
       registryVars
  <1>3. CASE MonitorProgressLosesRegistry(j)
    <2>1. [state EXCEPT ![j] = state[j]] = state
      BY <1>1
    <2>2. UNCHANGED <<state, spec, owned>>
      BY <1>3, <2>1 DEF MonitorProgressLosesRegistry, WriteFails
    <2> QED BY <2>2, StuttersRefine DEF Stutters, Busy
  <1>4. CASE MonitorProtocolError(j)
    <2>1. CASE Stoppable(j)
      BY <1>4, <2>1, StopRefines DEF MonitorProtocolError, WriteFails
    <2>2. CASE ~Stoppable(j)
      BY <1>4, <2>2, StuttersRefine DEF MonitorProtocolError, Stutters, Busy
    <2> QED BY <2>1, <2>2
  <1>5. CASE MonitorFinish(j)
    BY <1>5, FinishRefines DEF MonitorFinish
  <1>6. CASE MonitorFinishLosesRegistry(j)
    BY <1>6, FinishRefines DEF MonitorFinishLosesRegistry, WriteFails
  <1>7. CASE MonitorRelease(j)
    <2>1. j \in owned /\ state[j] \in {"succeeded", "failed", "cancelled"}
      BY <1>7 DEF MonitorRelease, IInv, ThreadsAgree
    <2>2. Busy' = Busy \ {j}
      BY <1>7, <2>1 DEF MonitorRelease, registryVars, Busy, Active
    <2>3. Lifecycle!Release(j)
      BY <1>7, <2>1, <2>2 DEF MonitorRelease, registryVars, Lifecycle!Release, Lifecycle!Terminal,
         Busy
    <2> QED BY <2>3 DEF Lifecycle!Next
  <1> QED BY <1>2, <1>3, <1>4, <1>5, <1>6, <1>7 DEF Monitor

LEMMA StepRefines ==
  ASSUME TypeOK, IInv, [Next]_vars
  PROVE  [Lifecycle!Next]_Lifecycle!vars
  <1>1. ASSUME NEW j \in Jobs, Start(j) PROVE Lifecycle!Next
    BY <1>1, StartRefines
  <1>2. ASSUME NEW j \in Jobs, Stop(j) \/ StopLosesRegistry(j)
        PROVE  [Lifecycle!Next]_Lifecycle!vars
    BY <1>2, StopRefines DEF Stop, StopLosesRegistry, WriteFails
  <1>3. ASSUME NEW j \in Jobs, Monitor(j) PROVE [Lifecycle!Next]_Lifecycle!vars
    BY <1>3, MonitorRefines
  <1>4. ASSUME NEW j \in Jobs, Stopper(j) PROVE UNCHANGED Lifecycle!vars
    BY <1>4, StuttersRefine DEF Stopper, StopperInterrupts, StopperReturns, StopperEscalates,
       StopperReaps, Stutters, Busy, registryVars
  <1>5. ASSUME NEW j \in Jobs, Worker(j) PROVE UNCHANGED Lifecycle!vars
    <2>1. WorkerUnchanged
      BY <1>5 DEF Worker, WorkerBegins, WorkerRefused, WorkerLosesPipe, WorkerPasses,
         WorkerFinishesChunk, WorkerCompletes, WorkerRaises, WorkerSends, WorkerExits,
         WorkerInterrupted, InterruptAfterFrame, WorkerDies, WorkerMisprints
    <2> QED BY <2>1, StuttersRefine DEF WorkerUnchanged, Stutters, Busy, registryVars
  <1>6. CASE Shutdown
    <2> DEFINE S == {j \in Jobs : Stoppable(j)}
    <2>1. state' = [j \in Jobs |-> IF j \in S THEN "stopping" ELSE state[j]]
      BY <1>6 DEF Shutdown, Stopping
    <2>2. UNCHANGED <<spec, owned>>
      BY <1>6 DEF Shutdown
    <2>3. S \in SUBSET {j \in Jobs : Stoppable(j)}
      OBVIOUS
    <2> HIDE DEF S
    <2> QED BY <2>1, <2>2, <2>3, InterruptRefines
  <1>7. CASE ShutdownLosesRegistry
    <2>1. PICK T \in SUBSET {j \in Jobs : Stoppable(j)} : state' = Stopping(T)
      BY <1>7, ShutdownLosesShape DEF TypeOK, RegistryType
    <2>2. UNCHANGED <<spec, owned>>
      BY <1>7 DEF ShutdownLosesRegistry
    <2> QED BY <2>1, <2>2, InterruptRefines DEF Stopping
  <1>10. CASE BeginShutdown \/ RequestReload
    BY <1>10, StuttersRefine DEF BeginShutdown, RequestReload, Stutters, Busy, registryVars
  <1>8. CASE Restart
    <2>1. state \in [Jobs -> {"none"} \cup Active \cup Terminal]
      BY DEF TypeOK, RegistryType
    <2>2. Busy' = {}
      BY <1>8, <2>1 DEF Restart, Busy, Active
    <2>3. Lifecycle!Restart
      BY <1>8, <2>2 DEF Restart, Lifecycle!Restart, Lifecycle!Active, Active
    <2> QED BY <2>3 DEF Lifecycle!Next
  <1>9. CASE UNCHANGED vars
    BY <1>9, StuttersRefine DEF vars, registryVars, Stutters, Busy
  <1> QED BY <1>1, <1>2, <1>3, <1>4, <1>5, <1>6, <1>7, <1>8, <1>9, <1>10 DEF Next, Threads

LEMMA InitRefines == ASSUME Init PROVE Lifecycle!Init
  <1>1. TypeOK
    BY TypeInit
  <1>2. \A j \in Jobs : spec[j].ws \in Workspaces
    BY <1>1 DEF TypeOK, RegistryType, JobSpec
  <1> QED BY <1>2 DEF Init, Lifecycle!Init, Busy, Active

\* The supervisor, with its threads, workers, signals, write errors and restarts,
\* implements the lifecycle its clients rely on.
THEOREM Refinement == Spec => ImplementsLifecycle
  <1>1. Init => Lifecycle!Init
    BY InitRefines
  <1>2. TypeOK /\ IInv /\ [Next]_vars => [Lifecycle!Next]_Lifecycle!vars
    BY StepRefines
  <1> QED BY <1>1, <1>2, Inductive, PTL DEF Spec, ImplementsLifecycle, Lifecycle!Spec

-----------------------------------------------------------------------------
(* The work of a job: what its worker has done, what the frames on their way   *)
(* say of it, who has stopped it, and what a reload leaves to a successor.     *)

\* The frames of worker j that its monitor has not read.
Unread(j) == {pipe[j][i] : i \in 1 .. Len(pipe[j])}

\* A job that was never started has left no trace.
Unused(j) ==
  state[j] = "none" =>
    /\ mon[j] = "none" /\ stp[j] = "none" /\ j \notin asked
    /\ ~ready[j] /\ ~reloadReq[j] /\ ~reloadSig[j]
    /\ terminal[j] = NoFrame /\ ~protoErr[j] /\ Unread(j) = {}
    /\ proc[j] = "none" /\ out[j] = "none" /\ intr[j] = "no"

Young == {"none", "boot", "idle"}
Over  == {"sent", "exit0", "exit1"}

\* A translation has done the chunks it was asked for.
Complete(j) ==
  spec[j].op = "translate" =>
    todo[spec[j].ws] = 0 \/ (spec[j].limit # 0 /\ units[j] = spec[j].limit)

\* The handler of SIGUSR1 is installed before the first frame, and what an operation ends
\* with fits the chunks it has finished.
WorkerSpeaks(j) ==
  /\ Unread(j) # {} \/ ready[j] \/ reloadSig[j] => proc[j] \notin Young
  /\ reloadReq[j] \/ reloadSig[j] => spec[j].op # "other"
  /\ proc[j] \in Young \cup {"run"} => out[j] = "none"
  /\ proc[j] = "exit0" => out[j] \in {"result", "reload"}
  /\ out[j] = "result" => Complete(j)
  /\ out[j] = "reload" => (spec[j].limit # 0 => units[j] < spec[j].limit)

\* Somebody, or a monitor that cannot read a frame, has stopped the job, or its server died.
Provoked(j) == j \in asked \/ stp[j] # "none" \/ state[j] = "abandoned"

\* What a frame says of the worker that has sent it.
Tells(j, f) ==
  /\ f.type = "result" => proc[j] \in Over /\ out[j] \in {"result", "cancelled"}
  /\ f.type = "reload" =>
       proc[j] \in Over /\ out[j] \in {"reload", "cancelled"} /\ f.units = units[j]
  /\ f.type = "cancelled" => Provoked(j)

FramesTell(j) == Tells(j, terminal[j]) /\ \A f \in Unread(j) : Tells(j, f)

Monitored(j) == mon[j] \in {"reading", "reaping"}

\* Who has stopped a job that its monitor still watches.
StopsAgree(j) ==
  /\ Alive(j) /\ (intr[j] = "pending" \/ out[j] = "cancelled") => Provoked(j)
  /\ Monitored(j) =>
       /\ j \in asked => stp[j] # "none"
       /\ stp[j] # "none" => j \in asked \/ protoErr[j]
       /\ state[j] = "stopping" => j \in asked \/ protoErr[j] \/ regFailed

\* The final state says what the worker did, and a job without a thread that will end it
\* has met a registry write error.
EndsAgree(j) ==
  /\ state[j] = "succeeded" => proc[j] = "exit0" /\ out[j] = "result"
  /\ j \in owned => Monitored(j) \/ mon[j] = "joining" \/ regFailed

JobInv(j) == Unused(j) /\ WorkerSpeaks(j) /\ FramesTell(j) /\ StopsAgree(j) /\ EndsAgree(j)

\* What a reloading job leaves is what its limit leaves of the chunks it has finished.
RestFits(r) ==
  /\ proc[r.from] = "exit0" /\ (state[r.from] = "cancelled" \/ regFailed)
  /\ spec[r.from].limit = 0 => r.limit = 0
  /\ spec[r.from].limit # 0 => r.limit > 0 /\ r.limit + units[r.from] = spec[r.from].limit
  /\ r.from \notin asked

\* Until its server is restarted, a job that nobody stopped is cancelled for its successor.
RestIsLeft ==
  restarts = 0 => \A j \in Jobs : state[j] = "cancelled" /\ j \notin asked =>
                    \E r \in reloadSpecs : r.from = j

WorkIsLeft == \A w \in Workspaces : todo[w] >= 0

JobsInv == \A j \in Jobs : JobInv(j)
RestsFit == \A r \in reloadSpecs : RestFits(r)
WorkInv == JobsInv /\ WorkIsLeft /\ RestsFit

-----------------------------------------------------------------------------
(* What a step leaves alone *)

\* Nothing that the invariant of job k reads has changed.
Apart(k) ==
  /\ state'[k] = state[k] /\ spec'[k] = spec[k] /\ mon'[k] = mon[k] /\ stp'[k] = stp[k]
  /\ terminal'[k] = terminal[k] /\ protoErr'[k] = protoErr[k] /\ pipe'[k] = pipe[k]
  /\ ready'[k] = ready[k] /\ reloadReq'[k] = reloadReq[k] /\ reloadSig'[k] = reloadSig[k]
  /\ proc'[k] = proc[k] /\ out'[k] = out[k] /\ intr'[k] = intr[k] /\ units'[k] = units[k]
  /\ (k \in owned' => k \in owned) /\ (k \in asked' <=> k \in asked)

\* No write error is forgotten and no chunk is undone.
WorkGoesOn ==
  /\ regFailed => regFailed'
  /\ \A w \in Workspaces : todo[w] = 0 => todo'[w] = 0

LEMMA ApartKeeps ==
  ASSUME TypeOK, NEW k \in Jobs, JobInv(k), Apart(k), WorkGoesOn
  PROVE  JobInv(k)'
  <1>1. Unread(k)' = Unread(k)
    BY DEF Unread, Apart
  <1>2. spec[k].ws \in Workspaces
    BY DEF TypeOK, RegistryType, JobSpec
  <1>3. Unused(k)'
    BY <1>1 DEF JobInv, Unused, Apart
  <1>4. WorkerSpeaks(k)'
    BY <1>1, <1>2 DEF JobInv, WorkerSpeaks, Complete, Apart, WorkGoesOn
  <1>5. Provoked(k)' <=> Provoked(k)
    BY DEF Provoked, Apart
  <1>6. FramesTell(k)'
    <2>1. ASSUME NEW f, Tells(k, f) PROVE Tells(k, f)'
      BY <2>1, <1>5 DEF Tells, Apart
    <2> QED BY <1>1, <2>1 DEF JobInv, FramesTell, Apart
  <1>7. StopsAgree(k)'
    BY <1>5 DEF JobInv, StopsAgree, Monitored, Alive, Apart, WorkGoesOn
  <1>8. EndsAgree(k)'
    BY DEF JobInv, EndsAgree, Monitored, Apart, WorkGoesOn
  <1> QED BY <1>3, <1>4, <1>6, <1>7, <1>8 DEF JobInv

\* What a record of work left over needs of a step.
LEMMA RestsStay ==
  ASSUME TypeOK, RestsFit,
         \A k \in Jobs : proc[k] = "exit0" => proc'[k] = "exit0" /\ units'[k] = units[k],
         \A k \in Jobs : state[k] # "none" => spec'[k] = spec[k],
         \A k \in Jobs : proc[k] = "exit0" /\ (state[k] = "cancelled" \/ regFailed) =>
                           /\ k \in asked' => k \in asked
                           /\ state'[k] = "cancelled" \/ regFailed',
         IInv, reloadSpecs' \subseteq reloadSpecs
  PROVE  RestsFit'
  <1> SUFFICES ASSUME NEW r \in reloadSpecs PROVE RestFits(r)'
    BY DEF RestsFit
  <1>1. r.from \in Jobs /\ RestFits(r)
    BY DEF RestsFit, TypeOK, ServerType
  <1>2. state[r.from] # "none"
    BY <1>1 DEF RestFits, IInv, ThreadsAgree
  <1> QED BY <1>1, <1>2 DEF RestFits

\* What appending to a pipe, reading from it and closing it do to the frames in it.
LEMMA UnreadAppend ==
  ASSUME WorkerType, NEW j \in Jobs, NEW f \in Frames, pipe' = [pipe EXCEPT ![j] = Append(@, f)]
  PROVE  Unread(j)' = Unread(j) \cup {f}
  <1>1. pipe[j] \in Seq(Frames) /\ pipe'[j] = Append(pipe[j], f)
    BY DEF WorkerType
  <1>2. /\ Len(pipe'[j]) = Len(pipe[j]) + 1 /\ pipe'[j][Len(pipe[j]) + 1] = f
        /\ \A i \in 1 .. Len(pipe[j]) : pipe'[j][i] = pipe[j][i]
    BY <1>1
  <1>3. Len(pipe[j]) \in Nat
    BY <1>1
  <1> QED BY <1>2, <1>3 DEF Unread

LEMMA UnreadTail ==
  ASSUME WorkerType, NEW j \in Jobs, pipe[j] # <<>>
  PROVE  /\ Head(pipe[j]) \in Unread(j)
         /\ pipe' = [pipe EXCEPT ![j] = Tail(@)] => Unread(j)' \subseteq Unread(j)
  <1>1. pipe[j] \in Seq(Frames)
    BY DEF WorkerType
  <1>2. Len(pipe[j]) \in Nat /\ Len(pipe[j]) >= 1 /\ Head(pipe[j]) = pipe[j][1]
    BY <1>1
  <1>3. ASSUME pipe' = [pipe EXCEPT ![j] = Tail(@)] PROVE Unread(j)' \subseteq Unread(j)
    <2>1. pipe'[j] = Tail(pipe[j])
      BY <1>3 DEF WorkerType
    <2>2. /\ Len(pipe'[j]) = Len(pipe[j]) - 1
          /\ \A i \in 1 .. Len(pipe[j]) - 1 : pipe'[j][i] = pipe[j][i + 1]
      BY <1>1, <1>2, <2>1
    <2>3. ASSUME NEW i \in 1 .. Len(pipe'[j]) PROVE pipe'[j][i] \in Unread(j)
      BY <1>2, <2>2 DEF Unread
    <2> QED BY <2>3 DEF Unread
  <1>4. Head(pipe[j]) \in Unread(j)
    BY <1>2 DEF Unread
  <1> QED BY <1>3, <1>4

LEMMA UnreadNone ==
  ASSUME WorkerType, NEW j \in Jobs, pipe' = [pipe EXCEPT ![j] = <<>>]
  PROVE  Unread(j)' = {}
  BY DEF WorkerType, Unread

-----------------------------------------------------------------------------
(* The steps of a worker *)

\* A job's invariant after a step that leaves the other jobs alone.
LEMMA JobStep ==
  ASSUME TypeOK, WorkInv, NEW j \in Jobs, \A k \in Jobs \ {j} : Apart(k), WorkGoesOn, JobInv(j)'
  PROVE  JobsInv'
  <1>1. ASSUME NEW k \in Jobs \ {j} PROVE JobInv(k)'
    BY <1>1, ApartKeeps DEF WorkInv, JobsInv
  <1> QED BY <1>1 DEF JobsInv

\* The parts of a job's invariant that no step of a worker can disturb.
WorkerLeaves(j) ==
  UNCHANGED <<state, spec, regFailed, owned, mon, terminal, protoErr, stp, ready, reloadReq,
              reloadSig, reloadSpecs, asked, restarts>>

LEMMA WorkerStepLeaves ==
  ASSUME IInv, NEW j \in Jobs, Worker(j)
  PROVE  /\ WorkerLeaves(j) /\ state[j] # "none"
         /\ proc[j] \notin {"none", "exit0", "exit1"}
  <1>1. WorkerUnchanged
    BY DEF Worker, WorkerBegins, WorkerRefused, WorkerLosesPipe, WorkerPasses,
       WorkerFinishesChunk, WorkerCompletes, WorkerRaises, WorkerSends, WorkerExits,
       WorkerInterrupted, InterruptAfterFrame, WorkerDies, WorkerMisprints
  <1>2. WorkerLeaves(j)
    BY <1>1 DEF WorkerUnchanged, WorkerLeaves, registryVars, monitorVars, reloadVars
  <1>3. proc[j] \notin {"none", "exit0", "exit1"}
    BY DEF Worker, WorkerBegins, WorkerRefused, WorkerLosesPipe, WorkerPasses,
       WorkerFinishesChunk, WorkerCompletes, WorkerRaises, WorkerSends, WorkerExits,
       WorkerInterrupted, InterruptAfterFrame, WorkerDies, WorkerMisprints, Alive
  <1> QED BY <1>2, <1>3 DEF IInv, ThreadsAgree

\* A worker has work only where some is left.
LEMMA OpenWork ==
  ASSUME TypeOK, WorkIsLeft, NEW j \in Jobs, units[j] < Total(j)
  PROVE  todo[spec[j].ws] > 0 /\ (spec[j].limit # 0 => Total(j) <= spec[j].limit)
  <1>1. /\ spec[j].ws \in Workspaces /\ spec[j].limit \in Nat
        /\ units[j] \in Nat /\ todo[spec[j].ws] \in Int
    BY DEF TypeOK, RegistryType, JobSpec, WorkType
  <1>2. todo[spec[j].ws] >= 0
    BY <1>1 DEF WorkIsLeft
  <1> QED BY <1>1, <1>2 DEF Total

LEMMA WorkerLeavesRest ==
  ASSUME TypeOK, IInv, WorkInv, NEW j \in Jobs, Worker(j), \A k \in Jobs \ {j} : Apart(k)
  PROVE  RestsFit'
  <1>1. WorkerLeaves(j) /\ proc[j] # "exit0"
    BY WorkerStepLeaves
  <1> QED BY <1>1, RestsStay DEF WorkInv, WorkerLeaves, Apart

LEMMA WorkerChunks ==
  ASSUME TypeOK, WorkIsLeft, NEW j \in Jobs, Worker(j)
  PROVE  WorkGoesOn /\ WorkIsLeft'
  <1>1. todo \in [Workspaces -> Int] /\ spec[j].ws \in Workspaces
    BY DEF TypeOK, WorkType, RegistryType, JobSpec
  <1>2. WorkerUnchanged
    BY DEF Worker, WorkerBegins, WorkerRefused, WorkerLosesPipe, WorkerPasses,
       WorkerFinishesChunk, WorkerCompletes, WorkerRaises, WorkerSends, WorkerExits,
       WorkerInterrupted, InterruptAfterFrame, WorkerDies, WorkerMisprints
  <1>3. \/ todo' = todo
        \/ units[j] < Total(j) /\ todo' = [todo EXCEPT ![spec[j].ws] = @ - 1]
    BY DEF Worker, WorkerBegins, WorkerRefused, WorkerLosesPipe, WorkerPasses,
       WorkerFinishesChunk, WorkerCompletes, WorkerRaises, WorkerSends, WorkerExits,
       WorkerInterrupted, InterruptAfterFrame, WorkerDies, WorkerMisprints, workVars
  <1>4. CASE todo' = todo
    BY <1>2, <1>4 DEF WorkGoesOn, WorkIsLeft, WorkerUnchanged, registryVars
  <1>5. CASE units[j] < Total(j) /\ todo' = [todo EXCEPT ![spec[j].ws] = @ - 1]
    <2>1. todo[spec[j].ws] > 0
      BY <1>5, OpenWork
    <2> QED BY <1>1, <1>2, <1>5, <2>1 DEF WorkGoesOn, WorkIsLeft, WorkerUnchanged, registryVars
  <1> QED BY <1>3, <1>4, <1>5

LEMMA WorkerWork == ASSUME TypeOK, IInv, WorkInv, NEW j \in Jobs, Worker(j) PROVE WorkInv'
  <1>1. /\ proc \in [Jobs -> {"none", "boot", "idle", "run", "ending", "sent", "exit0", "exit1"}]
        /\ out \in [Jobs -> {"none"} \cup FrameTypes]
        /\ intr \in [Jobs -> {"no", "pending", "handled"}]
        /\ pipe \in [Jobs -> Seq(Frames)] /\ units \in [Jobs -> Nat] /\ pass \in [Jobs -> Nat]
        /\ spec[j].ws \in Workspaces /\ spec[j].limit \in Nat /\ todo \in [Workspaces -> Int]
    BY DEF TypeOK, WorkerType, WorkType, RegistryType, JobSpec
  <1>2. WorkerLeaves(j) /\ state[j] # "none" /\ proc[j] \notin {"none", "exit0", "exit1"}
    BY WorkerStepLeaves
  <1>3. WorkGoesOn /\ WorkIsLeft'
    BY WorkerChunks DEF WorkInv
  <1>4. JobInv(j)
    BY DEF WorkInv, JobsInv
  <1>5. Unused(j)'
    BY <1>2 DEF WorkerLeaves, Unused
  <1>6. /\ Frame("progress", 0) \in Frames /\ Frame("bad", 0) \in Frames
        /\ Frame("cancelled", 0) \in Frames
        /\ proc[j] = "ending" => Frame(out[j], IF out[j] = "reload" THEN units[j] ELSE 0) \in Frames
    BY <1>1, FrameType DEF FrameTypes, TypeOK, WorkerType
  <1>7. Provoked(j)' <=> Provoked(j)
    BY <1>2 DEF WorkerLeaves, Provoked
  <1>8. WorkerType
    BY DEF TypeOK
  <1>9. ASSUME \A k \in Jobs \ {j} : Apart(k), WorkerSpeaks(j)', FramesTell(j)', StopsAgree(j)',
               EndsAgree(j)'
        PROVE  WorkInv'
    <2>1. JobInv(j)'
      BY <1>5, <1>9 DEF JobInv
    <2>2. JobsInv'
      BY <1>3, <1>9, <2>1, JobStep
    <2> QED BY <1>3, <1>9, <2>2, WorkerLeavesRest DEF WorkInv
  <1>10. CASE WorkerBegins(j)
    <2>1. Unread(j)' = Unread(j) \cup {Frame("progress", 0)}
      BY <1>10, <1>6, <1>8, UnreadAppend DEF WorkerBegins
    <2>2. \A k \in Jobs \ {j} : Apart(k)
      BY <1>10, <1>2 DEF WorkerBegins, Apart, WorkerLeaves
    <2>3. WorkerSpeaks(j)'
      BY <1>10, <1>1, <1>2, <1>4 DEF WorkerBegins, JobInv, WorkerSpeaks, WorkerLeaves, Young
    <2>4. FramesTell(j)'
      BY <1>10, <1>2, <1>4, <1>7, <2>1 DEF WorkerBegins, JobInv, FramesTell, Tells, WorkerLeaves,
         Over, Frame
    <2>5. StopsAgree(j)'
      BY <1>10, <1>2, <1>4, <1>7 DEF WorkerBegins, JobInv, StopsAgree, Monitored, WorkerLeaves,
         Alive
    <2>6. EndsAgree(j)'
      BY <1>2, <1>4 DEF JobInv, EndsAgree, Monitored, WorkerLeaves
    <2> QED BY <1>9, <2>2, <2>3, <2>4, <2>5, <2>6
  <1>11. CASE WorkerRefused(j)
    <2>1. Unread(j)' = Unread(j)
      BY <1>11 DEF WorkerRefused, Unread
    <2>2. \A k \in Jobs \ {j} : Apart(k)
      BY <1>11, <1>2 DEF WorkerRefused, Unwinds, workVars, Apart, WorkerLeaves
    <2>3. WorkerSpeaks(j)'
      BY <1>11, <1>1, <1>2, <1>4 DEF WorkerRefused, Unwinds, JobInv, WorkerSpeaks, WorkerLeaves,
         Young
    <2>4. FramesTell(j)'
      BY <1>11, <1>2, <1>4, <1>7, <2>1 DEF WorkerRefused, JobInv, FramesTell, Tells, WorkerLeaves,
         Over
    <2>5. StopsAgree(j)'
      BY <1>11, <1>2, <1>4, <1>7 DEF WorkerRefused, Unwinds, JobInv, StopsAgree, Monitored,
         WorkerLeaves, Alive
    <2>6. EndsAgree(j)'
      BY <1>2, <1>4 DEF JobInv, EndsAgree, Monitored, WorkerLeaves
    <2> QED BY <1>9, <2>2, <2>3, <2>4, <2>5, <2>6
  <1>12. CASE WorkerLosesPipe(j)
    <2>1. Unread(j)' = Unread(j)
      BY <1>12 DEF WorkerLosesPipe, Unread
    <2>2. \A k \in Jobs \ {j} : Apart(k)
      BY <1>12, <1>1, <1>2 DEF WorkerLosesPipe, Ends, Apart, WorkerLeaves
    <2>3. WorkerSpeaks(j)'
      BY <1>12, <1>1, <1>2, <1>4 DEF WorkerLosesPipe, Ends, JobInv, WorkerSpeaks, Complete,
         WorkerLeaves, Young
    <2>4. FramesTell(j)'
      BY <1>12, <1>2, <1>4, <1>7, <2>1 DEF WorkerLosesPipe, JobInv, FramesTell, Tells,
         WorkerLeaves, Over
    <2>5. StopsAgree(j)'
      BY <1>12, <1>1, <1>2, <1>4 DEF WorkerLosesPipe, Ends, JobInv, StopsAgree, Monitored,
         WorkerLeaves, Alive
    <2>6. EndsAgree(j)'
      BY <1>2, <1>4 DEF JobInv, EndsAgree, Monitored, WorkerLeaves
    <2> QED BY <1>9, <2>2, <2>3, <2>4, <2>5, <2>6
  <1>13. CASE WorkerPasses(j)
    <2>1. Unread(j)' = Unread(j) \cup {Frame("progress", 0)}
      BY <1>13, <1>6, <1>8, UnreadAppend DEF WorkerPasses
    <2>2. \A k \in Jobs \ {j} : Apart(k)
      BY <1>13, <1>1, <1>2 DEF WorkerPasses, Unwinds, Apart, WorkerLeaves
    <2>3. WorkerSpeaks(j)'
      BY <1>13, <1>1, <1>2, <1>4 DEF WorkerPasses, Unwinds, Total, JobInv, WorkerSpeaks,
         WorkerLeaves, Young, FrameTypes, StopsAgree
    <2>4. FramesTell(j)'
      BY <1>13, <1>2, <1>4, <1>7, <2>1 DEF WorkerPasses, JobInv, FramesTell, Tells, WorkerLeaves,
         Over, Frame
    <2>5. StopsAgree(j)'
      BY <1>13, <1>1, <1>2, <1>4, <1>7 DEF WorkerPasses, Unwinds, JobInv, StopsAgree, Monitored,
         WorkerLeaves, Alive
    <2>6. EndsAgree(j)'
      BY <1>2, <1>4 DEF JobInv, EndsAgree, Monitored, WorkerLeaves
    <2> QED BY <1>9, <2>2, <2>3, <2>4, <2>5, <2>6
  <1>14. CASE WorkerFinishesChunk(j)
    <2>1. Unread(j)' = Unread(j) \cup {Frame("progress", 0)}
      BY <1>14, <1>6, <1>8, UnreadAppend DEF WorkerFinishesChunk
    <2>2. \A k \in Jobs \ {j} : Apart(k)
      BY <1>14, <1>1, <1>2 DEF WorkerFinishesChunk, Unwinds, Apart, WorkerLeaves
    <2>3. WorkerSpeaks(j)'
      BY SMTT(30), <1>14, <1>1, <1>2, <1>3, <1>4, OpenWork DEF WorkerFinishesChunk, Unwinds,
         CanWrite, Total, JobInv, WorkerSpeaks, WorkerLeaves, WorkGoesOn, Young, FrameTypes,
         Alive, FramesTell, Tells, StopsAgree
    <2>4. FramesTell(j)'
      BY <1>14, <1>2, <1>4, <1>7, <2>1 DEF WorkerFinishesChunk, JobInv, FramesTell, Tells,
         WorkerLeaves, Over, Frame
    <2>5. StopsAgree(j)'
      BY <1>14, <1>1, <1>2, <1>4, <1>7 DEF WorkerFinishesChunk, Unwinds, JobInv, StopsAgree,
         Monitored, WorkerLeaves, Alive
    <2>6. EndsAgree(j)'
      BY <1>2, <1>4 DEF JobInv, EndsAgree, Monitored, WorkerLeaves
    <2> QED BY <1>9, <2>2, <2>3, <2>4, <2>5, <2>6
  <1>15. CASE WorkerCompletes(j)
    <2>1. Unread(j)' = Unread(j)
      BY <1>15 DEF WorkerCompletes, Unread
    <2>2. \A k \in Jobs \ {j} : Apart(k)
      BY <1>15, <1>2 DEF WorkerCompletes, Unwinds, workVars, Apart, WorkerLeaves
    <2>3. WorkerSpeaks(j)'
      BY <1>15, <1>1, <1>2, <1>4 DEF WorkerCompletes, Unwinds, Total, workVars, JobInv,
         WorkerSpeaks, Complete, WorkerLeaves, Young
    <2>4. FramesTell(j)'
      BY <1>15, <1>2, <1>4, <1>7, <2>1 DEF WorkerCompletes, JobInv, FramesTell, Tells,
         WorkerLeaves, Over
    <2>5. StopsAgree(j)'
      BY <1>15, <1>2, <1>4, <1>7 DEF WorkerCompletes, Unwinds, JobInv, StopsAgree, Monitored,
         WorkerLeaves, Alive
    <2>6. EndsAgree(j)'
      BY <1>2, <1>4 DEF JobInv, EndsAgree, Monitored, WorkerLeaves
    <2> QED BY <1>9, <2>2, <2>3, <2>4, <2>5, <2>6
  <1>16. CASE WorkerRaises(j)
    <2>1. Unread(j)' = Unread(j)
      BY <1>16 DEF WorkerRaises, Unread
    <2>2. \A k \in Jobs \ {j} : Apart(k)
      BY <1>16, <1>2 DEF WorkerRaises, Unwinds, workVars, Apart, WorkerLeaves
    <2>3. WorkerSpeaks(j)'
      BY <1>16, <1>1, <1>2, <1>4 DEF WorkerRaises, Unwinds, JobInv, WorkerSpeaks, WorkerLeaves,
         Young
    <2>4. FramesTell(j)'
      BY <1>16, <1>2, <1>4, <1>7, <2>1 DEF WorkerRaises, JobInv, FramesTell, Tells, WorkerLeaves,
         Over
    <2>5. StopsAgree(j)'
      BY <1>16, <1>2, <1>4, <1>7 DEF WorkerRaises, Unwinds, JobInv, StopsAgree, Monitored,
         WorkerLeaves, Alive
    <2>6. EndsAgree(j)'
      BY <1>2, <1>4 DEF JobInv, EndsAgree, Monitored, WorkerLeaves
    <2> QED BY <1>9, <2>2, <2>3, <2>4, <2>5, <2>6
  <1>17. CASE WorkerSends(j)
    <2>1. Unread(j)' = Unread(j) \cup {Frame(out[j], IF out[j] = "reload" THEN units[j] ELSE 0)}
      BY <1>17, <1>6, <1>8, UnreadAppend DEF WorkerSends
    <2>2. \A k \in Jobs \ {j} : Apart(k)
      BY <1>17, <1>2 DEF WorkerSends, Apart, WorkerLeaves
    <2>3. WorkerSpeaks(j)'
      BY <1>17, <1>2, <1>4 DEF WorkerSends, JobInv, WorkerSpeaks, Complete, WorkerLeaves, Young
    <2>4. FramesTell(j)'
      BY <1>17, <1>1, <1>2, <1>4, <1>7, <2>1 DEF WorkerSends, JobInv, FramesTell, Tells,
         WorkerLeaves, Over, Frame, Alive, StopsAgree
    <2>5. StopsAgree(j)'
      BY <1>17, <1>2, <1>4, <1>7 DEF WorkerSends, JobInv, StopsAgree, Monitored, WorkerLeaves,
         Alive
    <2>6. EndsAgree(j)'
      BY <1>2, <1>4 DEF JobInv, EndsAgree, Monitored, WorkerLeaves
    <2> QED BY <1>9, <2>2, <2>3, <2>4, <2>5, <2>6
  <1>18. CASE WorkerExits(j)
    <2>1. Unread(j)' = Unread(j)
      BY <1>18 DEF WorkerExits, Unread
    <2>2. \A k \in Jobs \ {j} : Apart(k)
      BY <1>18, <1>2 DEF WorkerExits, Ends, Apart, WorkerLeaves
    <2>3. WorkerSpeaks(j)'
      BY <1>18, <1>2, <1>4 DEF WorkerExits, Ends, JobInv, WorkerSpeaks, Complete, WorkerLeaves,
         Young
    <2>4. FramesTell(j)'
      BY <1>18, <1>2, <1>4, <1>7, <2>1 DEF WorkerExits, Ends, JobInv, FramesTell, Tells,
         WorkerLeaves, Over
    <2>5. StopsAgree(j)'
      BY <1>18, <1>1, <1>2, <1>4 DEF WorkerExits, Ends, JobInv, StopsAgree, Monitored,
         WorkerLeaves, Alive
    <2>6. EndsAgree(j)'
      BY <1>2, <1>4 DEF JobInv, EndsAgree, Monitored, WorkerLeaves
    <2> QED BY <1>9, <2>2, <2>3, <2>4, <2>5, <2>6
  <1>19. CASE WorkerInterrupted(j)
    <2>1. Unread(j)' = Unread(j)
      BY <1>19 DEF WorkerInterrupted, Unread
    <2>2. \A k \in Jobs \ {j} : Apart(k)
      BY <1>19, <1>1, <1>2 DEF WorkerInterrupted, Ends, Unwinds, Apart, WorkerLeaves
    <2>3. WorkerSpeaks(j)'
      BY <1>19, <1>1, <1>2, <1>4 DEF WorkerInterrupted, Ends, Unwinds, JobInv, WorkerSpeaks,
         WorkerLeaves, Young
    <2>4. FramesTell(j)'
      BY <1>19, <1>2, <1>4, <1>7, <2>1 DEF WorkerInterrupted, JobInv, FramesTell, Tells,
         WorkerLeaves, Over
    <2>5. StopsAgree(j)'
      BY <1>19, <1>2, <1>4, <1>7 DEF WorkerInterrupted, JobInv, StopsAgree, Monitored,
         WorkerLeaves, Alive
    <2>6. EndsAgree(j)'
      BY <1>2, <1>4 DEF JobInv, EndsAgree, Monitored, WorkerLeaves
    <2> QED BY <1>9, <2>2, <2>3, <2>4, <2>5, <2>6
  <1>20. CASE InterruptAfterFrame(j)
    <2>1. \/ Unread(j)' = Unread(j) \cup {Frame("cancelled", 0)} /\ out'[j] = "cancelled"
          \/ Unread(j)' = Unread(j) /\ out' = out
      <3>1. CASE pipe' = pipe /\ out' = out
        BY <3>1 DEF Unread
      <3>2. CASE pipe' = [pipe EXCEPT ![j] = Append(@, Frame("cancelled", 0))] /\ out'[j] = "cancelled"
        BY <3>2, <1>6, <1>8, UnreadAppend
      <3> QED BY <1>20, <1>1, <3>1, <3>2 DEF InterruptAfterFrame
    <2>2. \A k \in Jobs \ {j} : Apart(k)
      BY <1>20, <1>1, <1>2 DEF InterruptAfterFrame, Ends, Apart, WorkerLeaves
    <2>3. WorkerSpeaks(j)'
      BY <1>20, <1>1, <1>2, <1>4 DEF InterruptAfterFrame, Ends, JobInv, WorkerSpeaks, Complete,
         WorkerLeaves, Young
    <2>4. FramesTell(j)'
      BY <1>20, <1>1, <1>2, <1>4, <1>7, <2>1 DEF InterruptAfterFrame, Ends, JobInv, FramesTell,
         Tells, WorkerLeaves, Over, Frame, Alive, StopsAgree
    <2>5. StopsAgree(j)'
      BY <1>20, <1>2, <1>4, <1>7 DEF InterruptAfterFrame, JobInv, StopsAgree, Monitored,
         WorkerLeaves, Alive
    <2>6. EndsAgree(j)'
      BY <1>2, <1>4 DEF JobInv, EndsAgree, Monitored, WorkerLeaves
    <2> QED BY <1>9, <2>2, <2>3, <2>4, <2>5, <2>6
  <1>21. CASE WorkerDies(j)
    <2>1. Unread(j)' = Unread(j)
      BY <1>21 DEF WorkerDies, Unread
    <2>2. \A k \in Jobs \ {j} : Apart(k)
      BY <1>21, <1>2 DEF WorkerDies, Ends, Apart, WorkerLeaves
    <2>3. WorkerSpeaks(j)'
      BY <1>21, <1>1, <1>2, <1>4 DEF WorkerDies, Ends, JobInv, WorkerSpeaks, Complete,
         WorkerLeaves, Young
    <2>4. FramesTell(j)'
      BY <1>21, <1>2, <1>4, <1>7, <2>1 DEF WorkerDies, Ends, JobInv, FramesTell, Tells,
         WorkerLeaves, Over
    <2>5. StopsAgree(j)'
      BY <1>21, <1>2, <1>4, <1>7 DEF WorkerDies, Ends, JobInv, StopsAgree, Monitored, WorkerLeaves
    <2>6. EndsAgree(j)'
      BY <1>2, <1>4 DEF JobInv, EndsAgree, Monitored, WorkerLeaves
    <2> QED BY <1>9, <2>2, <2>3, <2>4, <2>5, <2>6
  <1>22. CASE WorkerMisprints(j)
    <2>1. Unread(j)' = Unread(j) \cup {Frame("bad", 0)}
      BY <1>22, <1>6, <1>8, UnreadAppend DEF WorkerMisprints
    <2>2. \A k \in Jobs \ {j} : Apart(k)
      BY <1>22, <1>2 DEF WorkerMisprints, processVars, workVars, Apart, WorkerLeaves
    <2>3. WorkerSpeaks(j)'
      BY <1>22, <1>2, <1>4 DEF WorkerMisprints, processVars, JobInv, WorkerSpeaks, WorkerLeaves,
         Young
    <2>4. FramesTell(j)'
      BY <1>22, <1>2, <1>4, <1>7, <2>1 DEF WorkerMisprints, processVars, workVars, JobInv,
         FramesTell, Tells, WorkerLeaves, Frame
    <2>5. StopsAgree(j)'
      BY <1>22, <1>2, <1>4, <1>7 DEF WorkerMisprints, processVars, JobInv, StopsAgree, Monitored,
         WorkerLeaves, Alive
    <2>6. EndsAgree(j)'
      BY <1>2, <1>4 DEF JobInv, EndsAgree, Monitored, WorkerLeaves
    <2> QED BY <1>9, <2>2, <2>3, <2>4, <2>5, <2>6
  <1> QED BY <1>10, <1>11, <1>12, <1>13, <1>14, <1>15, <1>16, <1>17, <1>18, <1>19, <1>20, <1>21,
             <1>22 DEF Worker

-----------------------------------------------------------------------------
(* The steps of the API, of the stoppers and of a restart *)

LEMMA StartWork == ASSUME TypeOK, IInv, WorkInv, NEW j \in Jobs, Start(j) PROVE WorkInv'
  <1>1. /\ state \in [Jobs -> {"none"} \cup Active \cup Terminal]
        /\ proc \in [Jobs -> {"none", "boot", "idle", "run", "ending", "sent", "exit0", "exit1"}]
        /\ mon \in [Jobs -> {"none", "reading", "reaping", "joining", "gone", "dead"}]
        /\ dying \in [Jobs -> BOOLEAN] /\ spec \in [Jobs -> JobSpec] /\ owned \subseteq Jobs
    BY DEF TypeOK, RegistryType, ServerType, WorkerType
  <1>2. PICK w \in Workspaces, o \in Ops, n \in Limits :
          StartRuns(j, w, o, n) \/ StartLaunchFails(j, w, o, n) \/ StartLosesRegistry(j, w, o, n)
    BY DEF Start
  <1>3. /\ state[j] = "none" /\ Healthy
        /\ UNCHANGED <<terminal, protoErr, stp, ready, reloadReq, reloadSig, reloadSpecs, out,
                       intr, pipe, units, todo, asked>>
    BY <1>2 DEF StartRuns, StartLaunchFails, StartLosesRegistry, MayStart, monitorVars,
       reloadVars, processVars, workVars
  <1>4. /\ \A k \in Jobs \ {j} : /\ state'[k] = state[k] /\ spec'[k] = spec[k] /\ mon'[k] = mon[k]
                                 /\ proc'[k] = proc[k] /\ (k \in owned' => k \in owned)
        /\ regFailed => regFailed'
    BY <1>1, <1>2 DEF StartRuns, StartLaunchFails, StartLosesRegistry, monitorVars, processVars
  <1>5. \/ /\ state'[j] \in {"starting", "running"} /\ proc'[j] \in {"none", "boot", "idle"}
           /\ mon'[j] = "reading" \/ (mon'[j] = mon[j] /\ regFailed')
        \/ /\ state'[j] = "failed" /\ mon'[j] = mon[j] /\ proc'[j] = proc[j]
           /\ owned' = owned
    <2>1. proc[j] = "none"
      BY <1>3 DEF IInv, ThreadsAgree
    <2>2. CASE StartRuns(j, w, o, n)
      BY <1>1, <2>2 DEF StartRuns
    <2>3. CASE StartLaunchFails(j, w, o, n)
      BY <1>1, <2>3 DEF StartLaunchFails, monitorVars, processVars
    <2>4. CASE StartLosesRegistry(j, w, o, n)
      BY <1>1, <2>1, <2>4 DEF StartLosesRegistry, monitorVars
    <2> QED BY <1>2, <2>2, <2>3, <2>4
  <1>6. Unread(j)' = Unread(j)
    BY <1>3 DEF Unread
  <1>7. /\ mon[j] = "none" /\ stp[j] = "none" /\ j \notin asked /\ j \notin owned
        /\ ~ready[j] /\ ~reloadReq[j] /\ ~reloadSig[j]
        /\ terminal[j] = NoFrame /\ ~protoErr[j] /\ Unread(j) = {}
        /\ proc[j] = "none" /\ out[j] = "none" /\ intr[j] = "no"
    BY <1>3 DEF WorkInv, JobsInv, JobInv, Unused, IInv, ThreadsAgree
  <1>8. JobInv(j)'
    <2>1. Unused(j)'
      BY <1>5 DEF Unused
    <2>2. WorkerSpeaks(j)'
      BY <1>3, <1>5, <1>6, <1>7 DEF WorkerSpeaks
    <2>3. FramesTell(j)'
      BY <1>3, <1>6, <1>7 DEF FramesTell, Tells, NoFrame
    <2>4. StopsAgree(j)'
      BY <1>3, <1>5, <1>7 DEF StopsAgree
    <2>5. EndsAgree(j)'
      BY <1>5, <1>7 DEF EndsAgree, Monitored
    <2> QED BY <2>1, <2>2, <2>3, <2>4, <2>5 DEF JobInv
  <1>9. \A k \in Jobs \ {j} : Apart(k)
    BY <1>3, <1>4 DEF Apart
  <1>10. WorkGoesOn
    BY <1>3, <1>4 DEF WorkGoesOn
  <1>11. JobsInv'
    BY <1>8, <1>9, <1>10, JobStep
  <1>12. RestsFit'
    BY <1>3, <1>4, <1>7, RestsStay DEF WorkInv
  <1> QED BY <1>3, <1>11, <1>12 DEF WorkInv, WorkIsLeft

\* What a stop and a shutdown do to a job: it is stopped, or a write error leaves it
\* "stopping" without a stopper, or it is left alone.
ApiLeaves ==
  UNCHANGED <<spec, owned, mon, terminal, protoErr, ready, reloadReq, reloadSig, reloadSpecs,
              proc, out, intr, pipe, units, todo, restarts>>

StoppedOrNot(k) ==
  \/ state'[k] = state[k] /\ stp'[k] = stp[k] /\ (k \in asked' <=> k \in asked)
  \/ state[k] \in Active /\ Healthy /\ state'[k] = "stopping" /\ stp'[k] = "new" /\ k \in asked'
  \/ /\ state[k] \in Active /\ state'[k] = "stopping" /\ regFailed'
     /\ stp'[k] = stp[k] /\ (k \in asked' <=> k \in asked)

LEMMA StopWork ==
  ASSUME TypeOK, IInv, WorkInv, ApiLeaves, regFailed => regFailed', \A k \in Jobs : StoppedOrNot(k)
  PROVE  WorkInv'
  <1>1. ASSUME NEW k \in Jobs PROVE JobInv(k)'
    <2>1. JobInv(k) /\ StoppedOrNot(k)
      BY DEF WorkInv, JobsInv
    <2>2. Unread(k)' = Unread(k)
      BY DEF ApiLeaves, Unread
    <2>3. Provoked(k) => Provoked(k)'
      BY DEF StoppedOrNot, Provoked, Active
    <2>4. Unused(k)'
      BY <2>1, <2>2 DEF JobInv, Unused, StoppedOrNot, ApiLeaves
    <2>5. WorkerSpeaks(k)'
      BY <2>1, <2>2 DEF JobInv, WorkerSpeaks, Complete, ApiLeaves
    <2>6. FramesTell(k)'
      BY <2>1, <2>2, <2>3 DEF JobInv, FramesTell, Tells, ApiLeaves
    <2>7. StopsAgree(k)'
      BY <2>1, <2>3 DEF JobInv, StopsAgree, Monitored, Alive, StoppedOrNot, ApiLeaves
    <2>8. EndsAgree(k)'
      BY <2>1 DEF JobInv, EndsAgree, Monitored, StoppedOrNot, ApiLeaves
    <2> QED BY <2>4, <2>5, <2>6, <2>7, <2>8 DEF JobInv
  <1>2. \A k \in Jobs : proc[k] = "exit0" /\ (state[k] = "cancelled" \/ regFailed) =>
                           /\ k \in asked' => k \in asked
                           /\ state'[k] = "cancelled" \/ regFailed'
    BY DEF StoppedOrNot, Active, Healthy
  <1>3. RestsFit'
    BY <1>2, RestsStay DEF ApiLeaves, WorkInv
  <1> QED BY <1>1, <1>3 DEF WorkInv, JobsInv, WorkIsLeft, ApiLeaves

LEMMA ApiWork ==
  ASSUME TypeOK, IInv, WorkInv, NEW j \in Jobs,
         \/ Stop(j) \/ StopLosesRegistry(j)
         \/ BeginShutdown \/ Shutdown \/ ShutdownLosesRegistry
  PROVE  WorkInv'
  <1>1. /\ state \in [Jobs -> {"none"} \cup Active \cup Terminal]
        /\ stp \in [Jobs -> {"none", "new", "int", "term", "kill", "done"}]
    BY DEF TypeOK, RegistryType, ServerType
  <1>2. ApiLeaves
    BY DEF Stop, StopLosesRegistry, BeginShutdown, Shutdown, ShutdownLosesRegistry, ApiLeaves,
       registryVars, monitorVars, reloadVars, processVars, workVars
  <1>3. (regFailed => regFailed') /\ \A k \in Jobs : StoppedOrNot(k)
    <2>1. CASE Stop(j)
      BY <1>1, <2>1 DEF Stop, Stoppable, StoppedOrNot
    <2>2. CASE StopLosesRegistry(j)
      BY <1>1, <2>2 DEF StopLosesRegistry, Stoppable, WriteFails, StoppedOrNot
    <2>3. CASE BeginShutdown
      BY <2>3 DEF BeginShutdown, StoppedOrNot, registryVars
    <2>4. CASE Shutdown
      BY <2>4 DEF Shutdown, Stopping, Stoppable, StoppedOrNot
    <2>5. CASE ShutdownLosesRegistry
      <3> PICK S \in SUBSET {k \in Jobs : Stoppable(k)}, T \in SUBSET {k \in Jobs : Stoppable(k)} :
              /\ S \subseteq T /\ state' = Stopping(T) /\ asked' = asked \cup S
              /\ stp' = [k \in Jobs |-> IF k \in S THEN "new" ELSE stp[k]]
              /\ regFailed' /\ (regFailed => S = {} /\ state' = state)
        BY <1>1, <2>5, ShutdownLosesShape
      <3> QED BY DEF Stopping, Stoppable, StoppedOrNot, Healthy
    <2> QED BY <2>1, <2>2, <2>3, <2>4, <2>5
  <1> QED BY <1>2, <1>3, StopWork

\* SIGUSR1 is sent to workers that have written a frame.
LEMMA ReloadWork == ASSUME TypeOK, IInv, WorkInv, RequestReload PROVE WorkInv'
  <1>1. /\ UNCHANGED <<state, spec, regFailed, owned, mon, terminal, protoErr, stp, ready,
                       reloadSpecs, proc, out, intr, pipe, units, todo, asked>>
        /\ \A k \in Jobs : reloadReq'[k] => reloadReq[k] \/ spec[k].op # "other"
        /\ \A k \in Jobs : reloadSig'[k] => reloadSig[k] \/ (spec[k].op # "other" /\ ready[k])
        /\ \A k \in Jobs : k \notin owned => reloadReq'[k] = reloadReq[k] /\ reloadSig'[k] = reloadSig[k]
    BY DEF RequestReload, registryVars, monitorVars, processVars, workVars, Reloadable, Signals,
       TypeOK, ServerType
  <1>2. ASSUME NEW k \in Jobs PROVE JobInv(k)'
    <2>1. JobInv(k)
      BY DEF WorkInv, JobsInv
    <2>2. Unread(k)' = Unread(k)
      BY <1>1 DEF Unread
    <2>3. Unused(k)'
      BY <1>1, <2>1, <2>2 DEF JobInv, Unused, IInv, ThreadsAgree
    <2>4. WorkerSpeaks(k)'
      BY <1>1, <2>1, <2>2 DEF JobInv, WorkerSpeaks, Complete
    <2>5. FramesTell(k)'
      BY <1>1, <2>1, <2>2 DEF JobInv, FramesTell, Tells, Provoked
    <2>6. StopsAgree(k)'
      BY <1>1, <2>1 DEF JobInv, StopsAgree, Monitored, Alive, Provoked
    <2>7. EndsAgree(k)'
      BY <1>1, <2>1 DEF JobInv, EndsAgree, Monitored
    <2> QED BY <2>3, <2>4, <2>5, <2>6, <2>7 DEF JobInv
  <1>3. RestsFit'
    BY <1>1, RestsStay DEF WorkInv
  <1> QED BY <1>1, <1>2, <1>3 DEF WorkInv, JobsInv, WorkIsLeft

LEMMA StopperWork == ASSUME TypeOK, IInv, WorkInv, NEW j \in Jobs, Stopper(j) PROVE WorkInv'
  <1>1. /\ stp \in [Jobs -> {"none", "new", "int", "term", "kill", "done"}]
        /\ intr \in [Jobs -> {"no", "pending", "handled"}]
    BY DEF TypeOK, ServerType, WorkerType
  <1>2. /\ UNCHANGED <<state, spec, regFailed, owned, mon, terminal, protoErr, ready, reloadReq,
                       reloadSig, reloadSpecs, proc, out, pipe, units, todo, asked>>
        /\ stp[j] # "none" /\ stp'[j] # "none"
        /\ \A k \in Jobs \ {j} : stp'[k] = stp[k] /\ intr'[k] = intr[k]
    BY <1>1 DEF Stopper, StopperInterrupts, StopperReturns, StopperEscalates, StopperReaps,
       registryVars, monitorVars, reloadVars, workVars, processVars
  <1>3. \A k \in Jobs \ {j} : Apart(k)
    BY <1>2 DEF Apart
  <1>4. JobInv(j)'
    <2>1. JobInv(j)
      BY DEF WorkInv, JobsInv
    <2>2. Unread(j)' = Unread(j)
      BY <1>2 DEF Unread
    <2>3. Unused(j)'
      BY <1>2, <2>1 DEF JobInv, Unused
    <2>4. WorkerSpeaks(j)'
      BY <1>2, <2>1, <2>2 DEF JobInv, WorkerSpeaks, Complete
    <2>5. FramesTell(j)'
      BY <1>2, <2>1, <2>2 DEF JobInv, FramesTell, Tells, Provoked
    <2>6. StopsAgree(j)'
      BY <1>2, <2>1 DEF JobInv, StopsAgree, Monitored, Provoked
    <2>7. EndsAgree(j)'
      BY <1>2, <2>1 DEF JobInv, EndsAgree, Monitored
    <2> QED BY <2>3, <2>4, <2>5, <2>6, <2>7 DEF JobInv
  <1>5. WorkGoesOn
    BY <1>2 DEF WorkGoesOn
  <1>6. JobsInv'
    BY <1>3, <1>4, <1>5, JobStep
  <1>7. RestsFit'
    BY <1>2, RestsStay DEF WorkInv
  <1> QED BY <1>2, <1>6, <1>7 DEF WorkInv, WorkIsLeft

\* The workers live on, and what was on its way from them is lost.
LEMMA RestartWork == ASSUME TypeOK, IInv, WorkInv, Restart PROVE WorkInv'
  <1>1. /\ state \in [Jobs -> {"none"} \cup Active \cup Terminal]
        /\ UNCHANGED <<spec, reloadSig, proc, out, intr, units, todo, asked>>
    BY DEF Restart, processVars, workVars, TypeOK, RegistryType
  <1>2. ASSUME NEW k \in Jobs PROVE JobInv(k)'
    <2>1. JobInv(k)
      BY DEF WorkInv, JobsInv
    <2>2. /\ mon'[k] = "none" /\ stp'[k] = "none" /\ terminal'[k] = NoFrame /\ ~protoErr'[k]
          /\ ~ready'[k] /\ ~reloadReq'[k] /\ k \notin owned' /\ pipe'[k] = <<>>
          /\ state'[k] = IF state[k] \in Active THEN "abandoned" ELSE state[k]
      BY DEF Restart
    <2>3. Unread(k)' = {}
      BY <2>2 DEF Unread
    <2>4. Unused(k)'
      BY <1>1, <2>1, <2>2, <2>3 DEF JobInv, Unused
    <2>5. WorkerSpeaks(k)'
      BY <1>1, <2>1, <2>2, <2>3 DEF JobInv, WorkerSpeaks, Complete
    <2>6. FramesTell(k)'
      BY <2>2, <2>3 DEF FramesTell, Tells, NoFrame
    <2>7. StopsAgree(k)'
      BY <1>1, <2>2 DEF StopsAgree, Monitored, Alive, Provoked, IInv, ThreadsAgree
    <2>8. EndsAgree(k)'
      BY <1>1, <2>1, <2>2 DEF JobInv, EndsAgree
    <2> QED BY <2>4, <2>5, <2>6, <2>7, <2>8 DEF JobInv
  <1>3. RestsFit'
    BY DEF Restart, RestsFit
  <1> QED BY <1>1, <1>2, <1>3 DEF WorkInv, JobsInv, WorkIsLeft

-----------------------------------------------------------------------------
(* The steps of a monitor *)

\* What a monitor that believes a reload knows of its worker.
LEMMA ReloadIsHonest ==
  ASSUME TypeOK, IInv, WorkInv, NEW j \in Jobs, mon[j] = "reaping", Reloads(j)
  PROVE  /\ proc[j] = "exit0" /\ terminal[j].units = units[j] /\ j \notin asked
         /\ spec[j].limit # 0 => units[j] < spec[j].limit
  <1>1. JobInv(j) /\ Monitored(j)
    BY DEF WorkInv, JobsInv, Monitored
  <1>2. Tells(j, terminal[j]) /\ terminal[j].type = "reload" /\ proc[j] = "exit0"
    BY <1>1 DEF JobInv, FramesTell, Reloads
  <1>3. out[j] = "reload" /\ terminal[j].units = units[j]
    BY <1>1, <1>2 DEF JobInv, WorkerSpeaks, Tells
  <1>4. j \notin asked
    BY <1>1 DEF JobInv, StopsAgree, Reloads
  <1> QED BY <1>1, <1>2, <1>3, <1>4 DEF JobInv, WorkerSpeaks

\* The rest of its work is then neither nothing nor more than its limit.
LEMMA ReloadResumes ==
  ASSUME TypeOK, IInv, WorkInv, NEW j \in Jobs, mon[j] = "reaping"
  PROVE  /\ Reloads(j) /\ state[j] # "stopping" => Resumed(j) # {}
         /\ \A r \in Resumed(j) :
              /\ Reloads(j) /\ state[j] # "stopping" /\ r.from = j
              /\ spec[j].limit = 0 => r.limit = 0
              /\ spec[j].limit # 0 => r.limit > 0 /\ r.limit + units[j] = spec[j].limit
  <1>1. spec[j].limit \in Nat /\ units[j] \in Nat
    BY DEF TypeOK, RegistryType, JobSpec, WorkType
  <1>2. CASE Reloads(j)
    <2>1. terminal[j].units = units[j] /\ (spec[j].limit # 0 => units[j] < spec[j].limit)
      BY <1>2, ReloadIsHonest
    <2>2. /\ spec[j].limit = 0 => Remaining(j) = 0
          /\ spec[j].limit # 0 => Remaining(j) > 0 /\ Remaining(j) + units[j] = spec[j].limit
      BY <1>1, <2>1 DEF Remaining
    <2>3. spec[j].limit = 0 \/ Remaining(j) # 0
      BY <2>2
    <2>4. CASE state[j] # "stopping"
      <3>1. Resumed(j) = {[from |-> j, limit |-> Remaining(j)]}
        BY <1>2, <2>3, <2>4 DEF Resumed
      <3> QED BY <1>2, <2>2, <2>4, <3>1
    <2>5. CASE state[j] = "stopping"
      BY <2>5 DEF Resumed
    <2> QED BY <2>4, <2>5
  <1>3. CASE ~Reloads(j)
    BY <1>3 DEF Resumed
  <1> QED BY <1>2, <1>3

\* Without a write error, a job is only recorded as "cancelled" when somebody has stopped
\* it or when its worker has reloaded.
LEMMA CancelledFor ==
  ASSUME TypeOK, IInv, WorkInv, NEW j \in Jobs, mon[j] = "reaping", Healthy,
         Outcome(j) = "cancelled", j \notin asked
  PROVE  Reloads(j) /\ state[j] # "stopping"
  <1>1. JobInv(j) /\ Monitored(j) /\ state[j] \in Active
    BY DEF WorkInv, JobsInv, Monitored, IInv, ThreadsAgree
  <1>2. ~(state[j] = "stopping" /\ ~protoErr[j])
    BY <1>1 DEF JobInv, StopsAgree, Healthy
  <1>3. ~(~protoErr[j] /\ terminal[j].type = "cancelled")
    <2>1. terminal[j].type = "cancelled" => Provoked(j)
      BY <1>1 DEF JobInv, FramesTell, Tells
    <2> QED BY <1>1, <2>1 DEF JobInv, StopsAgree, Provoked, Active
  <1>4. Reloads(j)
    BY <1>2, <1>3 DEF Outcome
  <1> QED BY <1>2, <1>4 DEF Reloads

\* A job only succeeds after a result and the exit code 0.
LEMMA SucceededFor ==
  ASSUME WorkInv, NEW j \in Jobs, Outcome(j) = "succeeded"
  PROVE  proc[j] = "exit0" /\ out[j] = "result"
  <1>1. JobInv(j)
    BY DEF WorkInv, JobsInv
  <1>2. proc[j] = "exit0" /\ terminal[j].type = "result"
    BY DEF Outcome
  <1> QED BY <1>1, <1>2 DEF JobInv, FramesTell, Tells, WorkerSpeaks

MonitorLeaves(j) ==
  /\ UNCHANGED <<spec, proc, out, intr, units, todo, asked, restarts>>
  /\ state[j] \in Active \/ state'[j] = state[j]
  /\ regFailed => regFailed' /\ state' = state

LEMMA MonitorStepLeaves ==
  ASSUME TypeOK, IInv, WorkInv, NEW j \in Jobs, Monitor(j)
  PROVE  /\ MonitorLeaves(j) /\ state[j] # "none" /\ j \in owned
         /\ \A k \in Jobs \ {j} : Apart(k)
  <1>1. /\ state \in [Jobs -> {"none"} \cup Active \cup Terminal]
        /\ mon \in [Jobs -> {"none", "reading", "reaping", "joining", "gone", "dead"}]
        /\ stp \in [Jobs -> {"none", "new", "int", "term", "kill", "done"}]
        /\ terminal \in [Jobs -> Frames \cup {NoFrame}] /\ protoErr \in [Jobs -> BOOLEAN]
        /\ ready \in [Jobs -> BOOLEAN]
        /\ reloadReq \in [Jobs -> BOOLEAN] /\ reloadSig \in [Jobs -> BOOLEAN]
        /\ pipe \in [Jobs -> Seq(Frames)]
    BY DEF TypeOK, RegistryType, ServerType, WorkerType
  <1>2. mon[j] \in {"reading", "reaping", "joining"}
    BY DEF Monitor, MonitorProgress, MonitorProgressLosesRegistry, MonitorTerminal,
       MonitorProtocolError, MonitorEOF, MonitorFinish, MonitorFinishLosesRegistry,
       MonitorRelease, HeadFrame, Reading
  <1>3. /\ j \in owned /\ state[j] # "none"
        /\ mon[j] # "joining" => state[j] \in Active
    BY <1>2 DEF IInv, ThreadsAgree
  <1>4. UNCHANGED <<spec, proc, out, intr, units, todo, asked, restarts>>
    BY DEF Monitor, MonitorProgress, MonitorProgressLosesRegistry, MonitorTerminal,
       MonitorProtocolError, MonitorEOF, MonitorFinish, MonitorFinishLosesRegistry,
       MonitorRelease, registryVars, processVars, workVars
  <1>5. CASE MonitorProgress(j)
    <2>1. MonitorLeaves(j)
      BY <1>5, <1>4 DEF MonitorProgress, registryVars, MonitorLeaves
    <2>2. \A k \in Jobs \ {j} : Apart(k)
      BY <1>5, <1>4 DEF MonitorProgress, registryVars, monitorVars, Apart
    <2> QED BY <1>3, <2>1, <2>2
  <1>6. CASE MonitorProgressLosesRegistry(j)
    <2>1. MonitorLeaves(j)
      BY <1>6, <1>1, <1>4 DEF MonitorProgressLosesRegistry, WriteFails, MonitorLeaves
    <2>2. \A k \in Jobs \ {j} : Apart(k)
      BY <1>6, <1>1, <1>4 DEF MonitorProgressLosesRegistry, WriteFails, reloadVars, Apart
    <2> QED BY <1>3, <2>1, <2>2
  <1>7. CASE MonitorTerminal(j)
    <2>1. MonitorLeaves(j)
      BY <1>7, <1>4 DEF MonitorTerminal, registryVars, MonitorLeaves
    <2>2. \A k \in Jobs \ {j} : Apart(k)
      BY <1>7, <1>4 DEF MonitorTerminal, registryVars, reloadVars, Apart
    <2> QED BY <1>3, <2>1, <2>2
  <1>8. CASE MonitorProtocolError(j)
    <2>1. MonitorLeaves(j)
      BY <1>8, <1>4 DEF MonitorProtocolError, Stoppable, WriteFails, MonitorLeaves, Healthy
    <2>2. \A k \in Jobs \ {j} : Apart(k)
      BY <1>8, <1>1, <1>4 DEF MonitorProtocolError, WriteFails, reloadVars, Apart
    <2> QED BY <1>3, <2>1, <2>2
  <1>9. CASE MonitorEOF(j)
    <2>1. MonitorLeaves(j)
      BY <1>9, <1>4 DEF MonitorEOF, registryVars, MonitorLeaves
    <2>2. \A k \in Jobs \ {j} : Apart(k)
      BY <1>9, <1>4 DEF MonitorEOF, registryVars, reloadVars, Apart
    <2> QED BY <1>3, <2>1, <2>2
  <1>10. CASE MonitorFinish(j)
    <2>1. MonitorLeaves(j)
      BY <1>10, <1>3, <1>4 DEF MonitorFinish, MonitorLeaves, Healthy
    <2>2. \A k \in Jobs \ {j} : Apart(k)
      BY <1>10, <1>1, <1>4 DEF MonitorFinish, Apart
    <2> QED BY <1>3, <2>1, <2>2
  <1>11. CASE MonitorFinishLosesRegistry(j)
    <2>1. MonitorLeaves(j)
      BY <1>11, <1>3, <1>4 DEF MonitorFinishLosesRegistry, WriteFails, MonitorLeaves, Healthy
    <2>2. \A k \in Jobs \ {j} : Apart(k)
      BY <1>11, <1>1, <1>4 DEF MonitorFinishLosesRegistry, WriteFails, Apart
    <2> QED BY <1>3, <2>1, <2>2
  <1>12. CASE MonitorRelease(j)
    <2>1. MonitorLeaves(j)
      BY <1>12, <1>4 DEF MonitorRelease, registryVars, MonitorLeaves
    <2>2. \A k \in Jobs \ {j} : Apart(k)
      BY <1>12, <1>4 DEF MonitorRelease, registryVars, Apart
    <2> QED BY <1>3, <2>1, <2>2
  <1> QED BY <1>5, <1>6, <1>7, <1>8, <1>9, <1>10, <1>11, <1>12 DEF Monitor

LEMMA MonitorWork == ASSUME TypeOK, IInv, WorkInv, NEW j \in Jobs, Monitor(j) PROVE WorkInv'
  <1>1. /\ state \in [Jobs -> {"none"} \cup Active \cup Terminal]
        /\ mon \in [Jobs -> {"none", "reading", "reaping", "joining", "gone", "dead"}]
        /\ stp \in [Jobs -> {"none", "new", "int", "term", "kill", "done"}]
        /\ terminal \in [Jobs -> Frames \cup {NoFrame}] /\ protoErr \in [Jobs -> BOOLEAN]
        /\ ready \in [Jobs -> BOOLEAN]
        /\ reloadReq \in [Jobs -> BOOLEAN] /\ reloadSig \in [Jobs -> BOOLEAN]
        /\ pipe \in [Jobs -> Seq(Frames)] /\ reloadSpecs \subseteq [from : Jobs, limit : Int]
    BY DEF TypeOK, RegistryType, ServerType, WorkerType
  <1>2. /\ MonitorLeaves(j) /\ state[j] # "none" /\ j \in owned
        /\ \A k \in Jobs \ {j} : Apart(k)
    BY MonitorStepLeaves
  <1>3. JobInv(j) /\ WorkerType
    BY DEF WorkInv, JobsInv, TypeOK
  <1>4. mon[j] \in {"reading", "reaping"} => state[j] \in Active
    BY DEF IInv, ThreadsAgree
  <1>5. WorkGoesOn /\ WorkIsLeft'
    BY <1>2 DEF WorkGoesOn, WorkInv, WorkIsLeft, MonitorLeaves
  <1>6. ASSUME state'[j] # "none", WorkerSpeaks(j)', FramesTell(j)', StopsAgree(j)', EndsAgree(j)'
        PROVE  JobsInv'
    <2>1. Unused(j)'
      BY <1>6 DEF Unused
    <2>2. JobInv(j)'
      BY <1>6, <2>1 DEF JobInv
    <2> QED BY <1>2, <1>5, <2>2, JobStep
  <1>7. ASSUME reloadSpecs' = reloadSpecs PROVE RestsFit'
    <2>1. \A k \in Jobs : proc[k] = "exit0" /\ (state[k] = "cancelled" \/ regFailed) =>
                             state'[k] = "cancelled" \/ regFailed'
      BY <1>2 DEF MonitorLeaves, Apart, Active
    <2> QED BY <1>2, <1>7, <2>1, RestsStay DEF MonitorLeaves, WorkInv
  <1>8. ASSUME mon[j] = "reaping", reloadSpecs' = reloadSpecs \cup Resumed(j),
               state'[j] = "cancelled" \/ regFailed' \/ ~Reloads(j)
        PROVE  RestsFit'
    <2>1. \A k \in Jobs : proc[k] = "exit0" /\ (state[k] = "cancelled" \/ regFailed) =>
                             state'[k] = "cancelled" \/ regFailed'
      BY <1>2 DEF MonitorLeaves, Apart, Active
    <2>2. ASSUME NEW r \in reloadSpecs PROVE RestFits(r)'
      <3>1. r.from \in Jobs /\ RestFits(r)
        BY <1>1 DEF WorkInv, RestsFit
      <3> QED BY <1>2, <2>1, <3>1 DEF RestFits, MonitorLeaves
    <2>3. ASSUME NEW r \in Resumed(j) PROVE RestFits(r)'
      <3>1. /\ Reloads(j) /\ r.from = j
            /\ spec[j].limit = 0 => r.limit = 0
            /\ spec[j].limit # 0 => r.limit > 0 /\ r.limit + units[j] = spec[j].limit
        BY <1>8, <2>3, ReloadResumes
      <3>2. proc[j] = "exit0" /\ j \notin asked
        BY <1>8, <3>1, ReloadIsHonest
      <3> QED BY <1>2, <1>8, <3>1, <3>2 DEF RestFits, MonitorLeaves
    <2> QED BY <1>8, <2>2, <2>3 DEF RestsFit
  <1>9. CASE MonitorProgress(j)
    <2>1. Unread(j)' \subseteq Unread(j) /\ Head(pipe[j]) \in Unread(j)
      BY <1>9, <1>3, UnreadTail DEF MonitorProgress, HeadFrame
    <2>2. WorkerSpeaks(j)'
      BY <1>9, <1>1, <1>2, <1>3, <2>1 DEF MonitorProgress, MonitorLeaves, JobInv, WorkerSpeaks,
         Complete, Signals
    <2>3. FramesTell(j)'
      BY <1>9, <1>2, <1>3, <2>1 DEF MonitorProgress, registryVars, monitorVars, MonitorLeaves,
         JobInv, FramesTell, Tells, Provoked
    <2>4. StopsAgree(j)'
      BY <1>9, <1>2, <1>3 DEF MonitorProgress, registryVars, monitorVars, MonitorLeaves, JobInv,
         StopsAgree, Monitored, Alive, Provoked
    <2>5. EndsAgree(j)'
      BY <1>9, <1>2, <1>3 DEF MonitorProgress, registryVars, monitorVars, MonitorLeaves, JobInv,
         EndsAgree, Monitored
    <2>6. state'[j] # "none"
      BY <1>9, <1>2 DEF MonitorProgress, registryVars
    <2>7. RestsFit'
      BY <1>9, <1>7 DEF MonitorProgress, reloadVars
    <2> QED BY <1>5, <1>6, <2>2, <2>3, <2>4, <2>5, <2>6, <2>7 DEF WorkInv
  <1>10. CASE MonitorProgressLosesRegistry(j)
    <2>1. Unread(j)' = {} /\ Head(pipe[j]) \in Unread(j)
      BY <1>10, <1>3, UnreadNone, UnreadTail DEF MonitorProgressLosesRegistry, HeadFrame
    <2>2. WorkerSpeaks(j)'
      BY <1>10, <1>2, <1>3, <2>1 DEF MonitorProgressLosesRegistry, reloadVars, MonitorLeaves,
         JobInv, WorkerSpeaks, Complete
    <2>3. FramesTell(j)'
      BY <1>10, <1>1, <1>2, <1>3, <2>1 DEF MonitorProgressLosesRegistry, WriteFails,
         MonitorLeaves, JobInv, FramesTell, Tells, Provoked
    <2>4. StopsAgree(j)'
      BY <1>10, <1>1, <1>2, <1>3 DEF MonitorProgressLosesRegistry, WriteFails, MonitorLeaves,
         JobInv, StopsAgree, Monitored, Alive, Provoked
    <2>5. EndsAgree(j)'
      BY <1>10, <1>1, <1>2, <1>3 DEF MonitorProgressLosesRegistry, WriteFails, MonitorLeaves,
         JobInv, EndsAgree
    <2>6. state'[j] # "none"
      BY <1>10, <1>1, <1>2 DEF MonitorProgressLosesRegistry, WriteFails
    <2>7. RestsFit'
      BY <1>10, <1>7 DEF MonitorProgressLosesRegistry, reloadVars
    <2> QED BY <1>5, <1>6, <2>2, <2>3, <2>4, <2>5, <2>6, <2>7 DEF WorkInv
  <1>11. CASE MonitorTerminal(j)
    <2>1. Unread(j)' \subseteq Unread(j) /\ Head(pipe[j]) \in Unread(j)
      BY <1>11, <1>3, UnreadTail DEF MonitorTerminal, HeadFrame
    <2>2. WorkerSpeaks(j)'
      BY <1>11, <1>2, <1>3, <2>1 DEF MonitorTerminal, reloadVars, MonitorLeaves, JobInv,
         WorkerSpeaks, Complete
    <2>3. FramesTell(j)'
      BY <1>11, <1>2, <1>3, <2>1 DEF MonitorTerminal, registryVars, MonitorLeaves, JobInv,
         FramesTell, Tells, Provoked
    <2>4. StopsAgree(j)'
      BY <1>11, <1>2, <1>3 DEF MonitorTerminal, registryVars, MonitorLeaves, JobInv, StopsAgree,
         Monitored, Alive, Provoked
    <2>5. EndsAgree(j)'
      BY <1>11, <1>2, <1>3 DEF MonitorTerminal, registryVars, MonitorLeaves, JobInv, EndsAgree,
         Monitored
    <2>6. state'[j] # "none"
      BY <1>11, <1>2 DEF MonitorTerminal, registryVars
    <2>7. RestsFit'
      BY <1>11, <1>7 DEF MonitorTerminal, reloadVars
    <2> QED BY <1>5, <1>6, <2>2, <2>3, <2>4, <2>5, <2>6, <2>7 DEF WorkInv
  <1>12. CASE MonitorProtocolError(j)
    <2>1. Unread(j)' = {} /\ Head(pipe[j]) \in Unread(j)
      BY <1>12, <1>3, UnreadNone, UnreadTail DEF MonitorProtocolError, HeadFrame
    <2>2. WorkerSpeaks(j)'
      BY <1>12, <1>2, <1>3, <2>1 DEF MonitorProtocolError, reloadVars, MonitorLeaves, JobInv,
         WorkerSpeaks, Complete
    <2>3. FramesTell(j)'
      BY <1>12, <1>1, <1>2, <1>3, <2>1 DEF MonitorProtocolError, MonitorLeaves, JobInv,
         FramesTell, Tells, Provoked, Active
    <2>4. StopsAgree(j)'
      BY <1>12, <1>1, <1>2, <1>3 DEF MonitorProtocolError, HeadFrame, Reading, MonitorLeaves,
         JobInv, StopsAgree, Monitored, Alive, Provoked, Active
    <2>5. EndsAgree(j)'
      BY <1>12, <1>1, <1>2, <1>3 DEF MonitorProtocolError, WriteFails, MonitorLeaves, JobInv,
         EndsAgree, Monitored
    <2>6. state'[j] # "none"
      BY <1>12, <1>1, <1>2 DEF MonitorProtocolError, WriteFails
    <2>7. RestsFit'
      BY <1>12, <1>7 DEF MonitorProtocolError, reloadVars
    <2> QED BY <1>5, <1>6, <2>2, <2>3, <2>4, <2>5, <2>6, <2>7 DEF WorkInv
  <1>13. CASE MonitorEOF(j)
    <2>1. Unread(j)' = Unread(j)
      BY <1>13 DEF MonitorEOF, Unread
    <2>2. WorkerSpeaks(j)'
      BY <1>13, <1>2, <1>3, <2>1 DEF MonitorEOF, reloadVars, MonitorLeaves, JobInv, WorkerSpeaks,
         Complete
    <2>3. FramesTell(j)'
      BY <1>13, <1>2, <1>3, <2>1 DEF MonitorEOF, registryVars, MonitorLeaves, JobInv, FramesTell,
         Tells, Provoked
    <2>4. StopsAgree(j)'
      BY <1>13, <1>2, <1>3 DEF MonitorEOF, registryVars, Reading, MonitorLeaves, JobInv,
         StopsAgree, Monitored, Alive, Exited
    <2>5. EndsAgree(j)'
      BY <1>13, <1>2, <1>3 DEF MonitorEOF, registryVars, MonitorLeaves, JobInv, EndsAgree,
         Monitored
    <2>6. state'[j] # "none"
      BY <1>13, <1>2 DEF MonitorEOF, registryVars
    <2>7. RestsFit'
      BY <1>13, <1>7 DEF MonitorEOF, reloadVars
    <2> QED BY <1>5, <1>6, <2>2, <2>3, <2>4, <2>5, <2>6, <2>7 DEF WorkInv
  <1>14. CASE MonitorFinish(j)
    <2>1. Unread(j)' = Unread(j)
      BY <1>14 DEF MonitorFinish, Unread
    <2>2. WorkerSpeaks(j)'
      BY <1>14, <1>2, <1>3, <2>1 DEF MonitorFinish, MonitorLeaves, JobInv, WorkerSpeaks, Complete
    <2>3. FramesTell(j)'
      BY <1>14, <1>2, <1>3, <2>1 DEF MonitorFinish, MonitorLeaves, JobInv, FramesTell, Tells,
         Provoked, Active
    <2>4. StopsAgree(j)'
      BY <1>14, <1>1, <1>2 DEF MonitorFinish, MonitorLeaves, StopsAgree, Monitored, Alive, Exited
    <2>5. EndsAgree(j)'
      BY <1>14, <1>1, <1>2, SucceededFor DEF MonitorFinish, MonitorLeaves, EndsAgree
    <2>6. state'[j] # "none"
      BY <1>14, <1>1, OutcomeType DEF MonitorFinish, Terminal
    <2>7. RestsFit'
      <3>1. Reloads(j) => Outcome(j) = "cancelled"
        BY DEF Outcome
      <3> QED BY <1>14, <1>1, <1>8, <3>1 DEF MonitorFinish
    <2> QED BY <1>5, <1>6, <2>2, <2>3, <2>4, <2>5, <2>6, <2>7 DEF WorkInv
  <1>15. CASE MonitorFinishLosesRegistry(j)
    <2>1. Unread(j)' = Unread(j)
      BY <1>15 DEF MonitorFinishLosesRegistry, Unread
    <2>2. WorkerSpeaks(j)'
      BY <1>15, <1>2, <1>3, <2>1 DEF MonitorFinishLosesRegistry, MonitorLeaves, JobInv,
         WorkerSpeaks, Complete
    <2>3. FramesTell(j)'
      BY <1>15, <1>2, <1>3, <2>1 DEF MonitorFinishLosesRegistry, MonitorLeaves, JobInv,
         FramesTell, Tells, Provoked, Active
    <2>4. StopsAgree(j)'
      BY <1>15, <1>1, <1>2 DEF MonitorFinishLosesRegistry, MonitorLeaves, StopsAgree, Monitored,
         Alive, Exited
    <2>5. EndsAgree(j)'
      BY <1>15, <1>1, <1>2, <1>3, SucceededFor DEF MonitorFinishLosesRegistry, WriteFails,
         MonitorLeaves, JobInv, EndsAgree
    <2>6. state'[j] # "none"
      BY <1>15, <1>1, <1>2, OutcomeType DEF MonitorFinishLosesRegistry, WriteFails, Terminal
    <2>7. RestsFit'
      <3>1. Reloads(j) => Outcome(j) = "cancelled"
        BY DEF Outcome
      <3> QED BY <1>15, <1>8 DEF MonitorFinishLosesRegistry, WriteFails
    <2> QED BY <1>5, <1>6, <2>2, <2>3, <2>4, <2>5, <2>6, <2>7 DEF WorkInv
  <1>16. CASE MonitorRelease(j)
    <2>1. Unread(j)' = Unread(j)
      BY <1>16 DEF MonitorRelease, Unread
    <2>2. WorkerSpeaks(j)'
      BY <1>16, <1>2, <1>3, <2>1 DEF MonitorRelease, MonitorLeaves, JobInv, WorkerSpeaks, Complete
    <2>3. FramesTell(j)'
      BY <1>16, <1>2, <1>3, <2>1 DEF MonitorRelease, registryVars, MonitorLeaves, JobInv,
         FramesTell, Tells, Provoked, NoFrame
    <2>4. StopsAgree(j)'
      BY <1>16, <1>2, <1>3 DEF MonitorRelease, registryVars, MonitorLeaves, JobInv, StopsAgree,
         Monitored, Alive, Provoked
    <2>5. EndsAgree(j)'
      BY <1>16, <1>2, <1>3 DEF MonitorRelease, registryVars, MonitorLeaves, JobInv, EndsAgree
    <2>6. state'[j] # "none"
      BY <1>16, <1>2 DEF MonitorRelease, registryVars
    <2>7. RestsFit'
      BY <1>16, <1>7 DEF MonitorRelease, reloadVars
    <2> QED BY <1>5, <1>6, <2>2, <2>3, <2>4, <2>5, <2>6, <2>7 DEF WorkInv
  <1> QED BY <1>9, <1>10, <1>11, <1>12, <1>13, <1>14, <1>15, <1>16 DEF Monitor

-----------------------------------------------------------------------------
(* Nothing that a job leaves is lost *)

\* What a step of a server that is not restarted never takes back.
LEMMA NothingIsDropped ==
  ASSUME TypeOK, [Next]_vars
  PROVE  /\ asked \subseteq asked'
         /\ restarts' = restarts => reloadSpecs \subseteq reloadSpecs'
         /\ restarts = 0 \/ restarts' # 0
  <1> restarts \in Nat
    BY DEF TypeOK, BoundsType
  <1>1. ASSUME NEW j \in Jobs, Start(j) \/ Stop(j) \/ StopLosesRegistry(j)
        PROVE  asked \subseteq asked' /\ reloadSpecs' = reloadSpecs /\ restarts' = restarts
    BY <1>1 DEF Start, StartRuns, StartLaunchFails, StartLosesRegistry, Stop, StopLosesRegistry,
       reloadVars
  <1>2. CASE BeginShutdown \/ Shutdown \/ ShutdownLosesRegistry \/ RequestReload
    <2>1. asked \subseteq asked'
      BY <1>2 DEF BeginShutdown, Shutdown, ShutdownLosesRegistry, RequestReload
    <2>2. reloadSpecs' = reloadSpecs /\ restarts' = restarts
      BY <1>2 DEF BeginShutdown, Shutdown, ShutdownLosesRegistry, RequestReload, reloadVars
    <2> QED BY <2>1, <2>2
  <1>3. ASSUME NEW j \in Jobs, Threads(j)
        PROVE  asked' = asked /\ reloadSpecs \subseteq reloadSpecs' /\ restarts' = restarts
    <2>1. CASE Monitor(j)
      BY <2>1 DEF Monitor, MonitorProgress, MonitorProgressLosesRegistry, MonitorTerminal,
         MonitorProtocolError, MonitorEOF, MonitorFinish, MonitorFinishLosesRegistry,
         MonitorRelease, reloadVars
    <2>2. CASE Stopper(j)
      BY <2>2 DEF Stopper, StopperInterrupts, StopperReturns, StopperEscalates, StopperReaps,
         reloadVars
    <2>3. CASE Worker(j)
      <3>1. WorkerUnchanged
        BY <2>3 DEF Worker, WorkerBegins, WorkerRefused, WorkerLosesPipe, WorkerPasses,
           WorkerFinishesChunk, WorkerCompletes, WorkerRaises, WorkerSends, WorkerExits,
           WorkerInterrupted, InterruptAfterFrame, WorkerDies, WorkerMisprints
      <3> QED BY <3>1 DEF WorkerUnchanged, reloadVars
    <2> QED BY <1>3, <2>1, <2>2, <2>3 DEF Threads
  <1>4. CASE Restart
    BY <1>4 DEF Restart
  <1>5. CASE UNCHANGED vars
    BY <1>5 DEF vars, reloadVars
  <1> QED BY <1>1, <1>2, <1>3, <1>4, <1>5 DEF Next

\* The step that records a job as "cancelled" leaves a record of the rest of its work, unless
\* somebody has stopped the job.
LEMMA CancelLeavesRest ==
  ASSUME TypeOK, IInv, WorkInv, [Next]_vars, NEW j \in Jobs,
         state[j] # "cancelled", state'[j] = "cancelled", j \notin asked'
  PROVE  \E r \in reloadSpecs' : r.from = j
  <1>1. state \in [Jobs -> {"none"} \cup Active \cup Terminal]
    BY DEF TypeOK, RegistryType
  <1>2. j \notin asked
    BY NothingIsDropped
  <1>3. ASSUME NEW k \in Jobs, Start(k) PROVE FALSE
    BY <1>1, <1>3 DEF Start, StartRuns, StartLaunchFails, StartLosesRegistry
  <1>4. ASSUME NEW k \in Jobs, Stop(k) \/ StopLosesRegistry(k) PROVE FALSE
    BY <1>1, <1>4 DEF Stop, StopLosesRegistry, WriteFails
  <1>5. ~(BeginShutdown \/ Shutdown \/ RequestReload)
    BY DEF BeginShutdown, Shutdown, Stopping, RequestReload, registryVars
  <1>6. ~ShutdownLosesRegistry
    BY <1>1, ShutdownLosesShape DEF Stopping
  <1>7. ASSUME NEW k \in Jobs, Stopper(k) \/ Worker(k) PROVE FALSE
    <2>1. ~Stopper(k)
      BY DEF Stopper, StopperInterrupts, StopperReturns, StopperEscalates, StopperReaps,
         registryVars
    <2>2. ~Worker(k)
      BY WorkerStepLeaves DEF WorkerLeaves
    <2> QED BY <1>7, <2>1, <2>2
  <1>8. ~Restart
    BY DEF Restart
  <1>9. ~UNCHANGED vars
    BY DEF vars, registryVars
  <1>10. ASSUME NEW k \in Jobs, Monitor(k) PROVE \E r \in reloadSpecs' : r.from = j
    <2>1. k = j
      BY <1>10, MonitorStepLeaves DEF Apart
    <2>2. /\ mon[j] = "reaping" /\ Healthy /\ Outcome(j) = "cancelled"
          /\ reloadSpecs' = reloadSpecs \cup Resumed(j)
      BY <1>1, <1>10 DEF Monitor, MonitorProgress, MonitorProgressLosesRegistry, MonitorTerminal,
         MonitorProtocolError, MonitorEOF, MonitorFinish, MonitorFinishLosesRegistry,
         MonitorRelease, WriteFails, registryVars
    <2>3. Reloads(j) /\ state[j] # "stopping"
      BY <1>2, <2>2, CancelledFor
    <2>4. PICK r \in Resumed(j) : r.from = j
      BY <2>2, <2>3, ReloadResumes
    <2> QED BY <2>2, <2>4
  <1> QED BY <1>3, <1>4, <1>5, <1>6, <1>7, <1>8, <1>9, <1>10 DEF Next, Threads

LEMMA StutterWork == ASSUME TypeOK, WorkInv, UNCHANGED vars PROVE WorkInv'
  <1>1. UNCHANGED <<state, spec, regFailed, owned, mon, terminal, protoErr, stp, ready, reloadReq,
                    reloadSig, reloadSpecs, proc, out, intr, pipe, units, todo, asked>>
    BY DEF vars, registryVars, monitorVars, reloadVars, processVars, workVars
  <1>2. WorkGoesOn /\ \A k \in Jobs : Apart(k)
    BY <1>1 DEF WorkGoesOn, Apart
  <1>3. JobsInv'
    BY <1>2, ApartKeeps DEF WorkInv, JobsInv
  <1>4. WorkIsLeft' /\ RestsFit'
    BY <1>1 DEF WorkInv, WorkIsLeft, RestsFit, RestFits
  <1> QED BY <1>3, <1>4 DEF WorkInv

LEMMA StepWork == ASSUME TypeOK, IInv, WorkInv, [Next]_vars PROVE WorkInv'
  <1>1. ASSUME NEW j \in Jobs, Start(j) \/ Stop(j) \/ StopLosesRegistry(j) \/ Threads(j)
        PROVE  WorkInv'
    BY <1>1, StartWork, ApiWork, MonitorWork, StopperWork, WorkerWork DEF Threads
  <1>2. CASE BeginShutdown \/ Shutdown \/ ShutdownLosesRegistry
    BY <1>2, ApiWork, SupervisorAssumption DEF SupervisorAssumption
  <1>3. CASE RequestReload
    BY <1>3, ReloadWork
  <1>4. CASE Restart
    BY <1>4, RestartWork
  <1>5. CASE UNCHANGED vars
    BY <1>5, StutterWork
  <1> QED BY <1>1, <1>2, <1>3, <1>4, <1>5 DEF Next

LEMMA StepRest == ASSUME TypeOK, IInv, WorkInv, RestIsLeft, [Next]_vars PROVE RestIsLeft'
  <1> SUFFICES ASSUME restarts' = 0, NEW j \in Jobs, state'[j] = "cancelled", j \notin asked'
               PROVE  \E r \in reloadSpecs' : r.from = j
    BY DEF RestIsLeft
  <1>1. restarts = 0 /\ j \notin asked /\ reloadSpecs \subseteq reloadSpecs'
    BY NothingIsDropped
  <1>2. CASE state[j] = "cancelled"
    BY <1>1, <1>2 DEF RestIsLeft
  <1>3. CASE state[j] # "cancelled"
    BY <1>3, CancelLeavesRest
  <1> QED BY <1>2, <1>3

LEMMA InitWork == ASSUME Init PROVE WorkInv /\ RestIsLeft
  <1>1. ASSUME NEW j \in Jobs PROVE JobInv(j)
    <2>1. Unread(j) = {} /\ terminal[j].type = "none"
      BY DEF Init, Unread, NoFrame
    <2>2. Unused(j) /\ FramesTell(j)
      BY <2>1 DEF Init, Unused, FramesTell, Tells
    <2>3. WorkerSpeaks(j) /\ StopsAgree(j) /\ EndsAgree(j)
      BY <2>1 DEF Init, WorkerSpeaks, StopsAgree, EndsAgree
    <2> QED BY <2>2, <2>3 DEF JobInv
  <1>2. WorkIsLeft
    BY SupervisorAssumption DEF Init, WorkIsLeft
  <1>3. RestsFit /\ RestIsLeft
    BY DEF Init, RestsFit, RestIsLeft
  <1> QED BY <1>1, <1>2, <1>3 DEF WorkInv, JobsInv

LEMMA WorkInductive == Spec => [](WorkInv /\ RestIsLeft)
  <1>1. Init => WorkInv /\ RestIsLeft
    BY InitWork
  <1>2. TypeOK /\ IInv /\ WorkInv /\ RestIsLeft /\ [Next]_vars => (WorkInv /\ RestIsLeft)'
    BY StepWork, StepRest
  <1> QED BY <1>1, <1>2, Inductive, PTL DEF Spec

\* A job only "succeeds" when its worker has ended with a result and code 0, and then a
\* translation has done every chunk it was asked for: for every number of jobs, chunks and
\* passes, and whatever stops, reloads, write errors and restarts raced with its end.
THEOREM Completeness == Spec => []SuccessIsComplete
  <1>1. WorkInv => SuccessIsComplete
    BY DEF WorkInv, JobsInv, JobInv, EndsAgree, WorkerSpeaks, Complete, SuccessIsComplete
  <1> QED BY <1>1, WorkInductive, PTL

\* SIGUSR1 never reaches a process that has no handler for it.
THEOREM ReloadIsHandled == Spec => []ReloadSignalsInstalledHandler
  <1>1. WorkInv => ReloadSignalsInstalledHandler
    BY DEF WorkInv, JobsInv, JobInv, WorkerSpeaks, Young, ReloadSignalsInstalledHandler
  <1> QED BY <1>1, WorkInductive, PTL

\* What is left of a reloading job's work has exactly one owner: a job that nobody stopped is
\* only cancelled when its successor is recorded, and the successor is given exactly what is
\* left of the limit (request_reload, _monitor, execute_translate).
THEOREM HandOver == Spec => []RestIsHandedOver
  <1>1. WorkInv /\ RestIsLeft => RestIsHandedOver
    BY DEF WorkInv, RestsFit, RestFits, RestIsLeft, RestIsHandedOver
  <1> QED BY <1>1, WorkInductive, PTL

-----------------------------------------------------------------------------
(* The server: what every step of its supervisor keeps *)

\* A job's spec is one that start() accepts.
Fits(s) == s.ws \in Workspaces /\ s.op \in Ops /\ s.limit \in Limits /\ (s.op = "translate" \/ s.limit = 0)

\* The job has been launched and its monitor will not record a final state any more.
Past(j) == state[j] # "none" /\ mon[j] \notin {"reading", "reaping"}

\* What every step of the supervisor keeps of its jobs: specs are permanent, and only a
\* monitor that records a final state adds to reloadSpecs.
SpecsPermanent ==
  \A j \in Jobs : /\ state[j] # "none" => state'[j] # "none" /\ spec'[j] = spec[j]
                  /\ state[j] = "none" /\ state'[j] # "none" => Fits(spec'[j])
PastPermanent ==
  \A j \in Jobs : Past(j) => mon'[j] \notin {"reading", "reaping"}
ReloadSpecsGrow ==
  \/ reloadSpecs' \in {reloadSpecs, {}}
  \/ \E j \in Jobs : /\ mon[j] = "reaping" /\ mon'[j] \notin {"reading", "reaping"}
                     /\ reloadSpecs' = reloadSpecs \cup Resumed(j)

LEMMA StartKeeps ==
  ASSUME TypeOK, NEW j \in Jobs, NEW w \in Workspaces, NEW o \in Ops, NEW n \in Limits,
         o = "translate" \/ n = 0,
         StartRuns(j, w, o, n) \/ StartLaunchFails(j, w, o, n) \/ StartLosesRegistry(j, w, o, n)
  PROVE  SpecsPermanent /\ PastPermanent /\ ReloadSpecsGrow
  <1>1. /\ state \in [Jobs -> {"none"} \cup Active \cup Terminal] /\ spec \in [Jobs -> JobSpec]
        /\ mon \in [Jobs -> {"none", "reading", "reaping", "joining", "gone", "dead"}]
    BY DEF TypeOK, RegistryType, ServerType
  <1>2. CASE StartRuns(j, w, o, n)
    BY <1>1, <1>2 DEF StartRuns, MayStart, SpecsPermanent, PastPermanent, ReloadSpecsGrow, Fits,
       Past, reloadVars
  <1>3. CASE StartLaunchFails(j, w, o, n)
    BY <1>1, <1>3 DEF StartLaunchFails, MayStart, SpecsPermanent, PastPermanent, ReloadSpecsGrow,
       Fits, Past, reloadVars, monitorVars
  <1>4. CASE StartLosesRegistry(j, w, o, n)
    BY <1>1, <1>4 DEF StartLosesRegistry, MayStart, SpecsPermanent, PastPermanent,
       ReloadSpecsGrow, Fits, Past, reloadVars, monitorVars
  <1> QED BY <1>2, <1>3, <1>4

LEMMA ApiKeeps ==
  ASSUME TypeOK, NEW j \in Jobs,
         \/ Stop(j) \/ StopLosesRegistry(j)
         \/ BeginShutdown \/ Shutdown \/ ShutdownLosesRegistry \/ RequestReload
  PROVE  SpecsPermanent /\ PastPermanent /\ ReloadSpecsGrow
  <1>1. state \in [Jobs -> {"none"} \cup Active \cup Terminal]
    BY DEF TypeOK, RegistryType
  <1>2. UNCHANGED <<spec, mon, reloadSpecs>>
    BY DEF Stop, StopLosesRegistry, BeginShutdown, Shutdown, ShutdownLosesRegistry, RequestReload,
       registryVars, monitorVars, reloadVars
  <1>3. \A k \in Jobs : state'[k] \in {state[k], "stopping"} /\ (state'[k] # state[k] => state[k] \in Active)
    <2>1. CASE Stop(j) \/ StopLosesRegistry(j)
      BY <1>1, <2>1 DEF Stop, StopLosesRegistry, WriteFails, Stoppable
    <2>2. CASE BeginShutdown \/ RequestReload
      BY <2>2 DEF BeginShutdown, RequestReload, registryVars
    <2>3. CASE Shutdown
      BY <1>1, <2>3 DEF Shutdown, Stopping, Stoppable
    <2>4. CASE ShutdownLosesRegistry
      BY <1>1, <2>4, ShutdownLosesShape DEF Stopping, Stoppable
    <2> QED BY <2>1, <2>2, <2>3, <2>4
  <1> QED BY <1>1, <1>2, <1>3 DEF SpecsPermanent, PastPermanent, ReloadSpecsGrow, Past, Active

LEMMA MonitorKeeps ==
  ASSUME TypeOK, IInv, NEW j \in Jobs, Monitor(j)
  PROVE  SpecsPermanent /\ PastPermanent /\ ReloadSpecsGrow
  <1>1. /\ state \in [Jobs -> {"none"} \cup Active \cup Terminal]
        /\ mon \in [Jobs -> {"none", "reading", "reaping", "joining", "gone", "dead"}]
    BY DEF TypeOK, RegistryType, ServerType
  <1>2. mon[j] \in {"reading", "reaping"} => state[j] \in Active
    BY DEF IInv, ThreadsAgree
  <1>3. UNCHANGED spec
    BY DEF Monitor, MonitorProgress, MonitorProgressLosesRegistry, MonitorTerminal,
       MonitorProtocolError, MonitorEOF, MonitorFinish, MonitorFinishLosesRegistry,
       MonitorRelease, registryVars
  <1>4. \A k \in Jobs : state[k] = "none" <=> state'[k] = "none"
    <2>1. Outcome(j) # "none"
      BY OutcomeType DEF Terminal
    <2>2. CASE MonitorProgress(j) \/ MonitorTerminal(j) \/ MonitorEOF(j) \/ MonitorRelease(j)
      BY <2>2 DEF MonitorProgress, MonitorTerminal, MonitorEOF, MonitorRelease, registryVars
    <2>3. CASE MonitorProgressLosesRegistry(j) \/ MonitorProtocolError(j)
      BY <1>1, <1>2, <2>3 DEF MonitorProgressLosesRegistry, MonitorProtocolError, WriteFails,
         HeadFrame, Reading, Active
    <2>4. CASE MonitorFinish(j) \/ MonitorFinishLosesRegistry(j)
      BY <1>1, <1>2, <2>1, <2>4 DEF MonitorFinish, MonitorFinishLosesRegistry, WriteFails, Active
    <2> QED BY <2>2, <2>3, <2>4 DEF Monitor
  <1>5. PastPermanent /\ ReloadSpecsGrow
    <2>1. CASE MonitorFinish(j) \/ MonitorFinishLosesRegistry(j)
      BY <1>1, <2>1 DEF MonitorFinish, MonitorFinishLosesRegistry, PastPermanent, Past,
         ReloadSpecsGrow
    <2>2. CASE ~(MonitorFinish(j) \/ MonitorFinishLosesRegistry(j))
      <3>1. UNCHANGED reloadSpecs
        BY <2>2 DEF Monitor, MonitorProgress, MonitorProgressLosesRegistry, MonitorTerminal,
           MonitorProtocolError, MonitorEOF, MonitorRelease, reloadVars
      <3>2. \A k \in Jobs : mon'[k] = mon[k] \/ mon[k] \in {"reading", "reaping"}
                            \/ mon'[k] \in {"gone", "dead"}
        BY <1>1, <2>2 DEF Monitor, MonitorProgress, MonitorProgressLosesRegistry, MonitorTerminal,
           MonitorProtocolError, MonitorEOF, MonitorRelease, monitorVars, HeadFrame, Reading
      <3> QED BY <1>1, <3>1, <3>2 DEF PastPermanent, Past, ReloadSpecsGrow
    <2> QED BY <2>1, <2>2
  <1> QED BY <1>3, <1>4, <1>5 DEF SpecsPermanent

LEMMA StepKeeps ==
  ASSUME TypeOK, IInv, [Next]_vars
  PROVE  SpecsPermanent /\ PastPermanent /\ ReloadSpecsGrow
  <1>1. ASSUME NEW j \in Jobs, Start(j)
        PROVE  SpecsPermanent /\ PastPermanent /\ ReloadSpecsGrow
    BY <1>1, StartKeeps DEF Start
  <1>2. ASSUME NEW j \in Jobs, Stop(j) \/ StopLosesRegistry(j)
        PROVE  SpecsPermanent /\ PastPermanent /\ ReloadSpecsGrow
    BY <1>2, ApiKeeps
  <1>3. CASE BeginShutdown \/ Shutdown \/ ShutdownLosesRegistry \/ RequestReload
    BY <1>3, ApiKeeps, SupervisorAssumption DEF SupervisorAssumption
  <1>4. ASSUME NEW j \in Jobs, Monitor(j)
        PROVE  SpecsPermanent /\ PastPermanent /\ ReloadSpecsGrow
    BY <1>4, MonitorKeeps
  <1>5. ASSUME UNCHANGED <<state, spec, mon, reloadSpecs>>
        PROVE  SpecsPermanent /\ PastPermanent /\ ReloadSpecsGrow
    BY <1>5 DEF SpecsPermanent, PastPermanent, ReloadSpecsGrow, Past
  <1>6. ASSUME NEW j \in Jobs, Stopper(j) \/ Worker(j)
        PROVE  UNCHANGED <<state, spec, mon, reloadSpecs>>
    <2>1. CASE Stopper(j)
      BY <2>1 DEF Stopper, StopperInterrupts, StopperReturns, StopperEscalates, StopperReaps,
         registryVars, monitorVars, reloadVars
    <2>2. CASE Worker(j)
      <3>1. WorkerUnchanged
        BY <2>2 DEF Worker, WorkerBegins, WorkerRefused, WorkerLosesPipe, WorkerPasses,
           WorkerFinishesChunk, WorkerCompletes, WorkerRaises, WorkerSends, WorkerExits,
           WorkerInterrupted, InterruptAfterFrame, WorkerDies, WorkerMisprints
      <3> QED BY <3>1 DEF WorkerUnchanged, registryVars, monitorVars, reloadVars
    <2> QED BY <1>6, <2>1, <2>2
  <1>7. CASE Restart
    <2>1. state \in [Jobs -> {"none"} \cup Active \cup Terminal]
      BY DEF TypeOK, RegistryType
    <2> QED BY <1>7, <2>1 DEF Restart, SpecsPermanent, PastPermanent, ReloadSpecsGrow, Past,
               Active
  <1>8. CASE UNCHANGED vars
    BY <1>5, <1>8 DEF vars, registryVars, monitorVars, reloadVars
  <1> QED BY <1>1, <1>2, <1>3, <1>4, <1>5, <1>6, <1>7, <1>8 DEF Next, Threads

-----------------------------------------------------------------------------
(* Every step of the server is one of the supervisor *)

\* The records of work on its way from a job that has reloaded to its successor.
Carried == reloadSpecs \cup handoff \cup resuming

SpecsFit == \A j \in Jobs : state[j] # "none" => Fits(spec[j])

\* They continue a job that is over, with a limit that start() accepts ...
CarriedFits ==
  \A r \in Carried : /\ r.from \in Jobs /\ Past(r.from)
                     /\ r.limit \in Limits /\ (spec[r.from].op = "translate" \/ r.limit = 0)

\* ... there is one for a job, in one place ...
CarriedOnce ==
  /\ \A r, q \in Carried : r.from = q.from => r = q
  /\ reloadSpecs \cap handoff = {} /\ reloadSpecs \cap resuming = {} /\ handoff \cap resuming = {}

\* ... and only jobs that are over have a successor.
SuccessorsFollow == \A s \in resumed : s.from \in Jobs /\ Past(s.from)

ServerInv == SpecsFit /\ CarriedFits /\ CarriedOnce /\ SuccessorsFollow /\ ReloadedWorkIsDoneOnce

\* What a reloading job leaves is what is left of its limit.
LEMMA ResumedFits ==
  ASSUME TypeOK, NEW j \in Jobs, Fits(spec[j]), NEW r \in Resumed(j)
  PROVE  /\ r = [from |-> j, limit |-> Remaining(j)]
         /\ r.from = j /\ r.limit \in Limits /\ (spec[j].op = "translate" \/ r.limit = 0)
  <1>1. /\ r = [from |-> j, limit |-> Remaining(j)]
        /\ Reloads(j) /\ (spec[j].limit = 0 \/ Remaining(j) # 0)
    BY DEF Resumed
  <1>2. terminal[j].units \in Nat
    BY DEF TypeOK, ServerType, Frames, NoFrame
  <1>3. spec[j].limit \in Limits /\ spec[j].limit \in Nat
    BY SupervisorAssumption DEF Fits, SupervisorAssumption
  <1>4. CASE spec[j].limit = 0
    BY <1>1, <1>3, <1>4 DEF Remaining
  <1>5. CASE spec[j].limit # 0
    <2>1. terminal[j].units <= spec[j].limit
      BY <1>1, <1>5 DEF Reloads
    <2>2. Remaining(j) = spec[j].limit - terminal[j].units
      BY <1>5 DEF Remaining
    <2>3. Remaining(j) \in 1 .. spec[j].limit
      BY <1>1, <1>2, <1>3, <1>5, <2>1, <2>2
    <2>4. Remaining(j) \in Limits
      BY <1>3, <2>3, ServerAssumption DEF ServerAssumption
    <2> QED BY <1>1, <1>5, <2>4 DEF Fits
  <1> QED BY <1>4, <1>5

\* start() of a job that was handed over is a start() like any other.
LEMMA ResumeIsStart ==
  ASSUME ServerInv, NEW r \in resuming, NEW j \in Jobs,
         LET was == spec[r.from]
         IN  \/ StartRuns(j, was.ws, was.op, r.limit)
             \/ StartLaunchFails(j, was.ws, was.op, r.limit)
             \/ StartLosesRegistry(j, was.ws, was.op, r.limit)
  PROVE  Start(j)
  <1>1. r \in Carried /\ r.from \in Jobs /\ Past(r.from)
    BY DEF ServerInv, CarriedFits, Carried
  <1>2. Fits(spec[r.from])
    BY <1>1 DEF ServerInv, SpecsFit, Past
  <1>3. r.limit \in Limits /\ (spec[r.from].op = "translate" \/ r.limit = 0)
    BY <1>1 DEF ServerInv, CarriedFits
  <1> QED BY <1>2, <1>3 DEF Fits, Start

LEMMA ServerStepImplements ==
  ASSUME ServerInv, [ServerNext]_allVars
  PROVE  [Next]_vars
  <1>1. CASE Client
    <2>1. ASSUME NEW j \in Jobs, HttpStart(j) \/ HttpStop(j) PROVE Next
      BY <2>1 DEF HttpStart, HttpStop, Next
    <2>2. ASSUME NEW w \in Workspaces, HttpArchive(w) PROVE UNCHANGED vars
      BY <2>2 DEF HttpArchive
    <2>3. CASE Interrupted \/ HangsUp
      BY <2>3 DEF Interrupted, HangsUp
    <2> QED BY <1>1, <2>1, <2>2, <2>3 DEF Client
  <1>2. CASE Resume
    <2>1. PICK r \in resuming : ResumeRaises(r) \/ \E j \in Jobs : ResumeStarts(r, j)
      BY <1>2 DEF Resume
    <2>2. CASE UNCHANGED vars
      BY <2>2
    <2>3. CASE \E j \in Jobs : Start(j)
      BY <2>3 DEF Next
    <2> QED BY <2>1, <2>2, <2>3, ResumeIsStart DEF ResumeRaises, ResumeStarts
  <1>3. CASE Main /\ ~Resume
    BY <1>3 DEF Main, OpenServer, ReadHandoff, AllResumed, LoopReloads, LoopDrained, LoopStops,
       CloseApi, LeaveHttp, StopJobs, JoinJobs, Leave, Exec, Fresh, Next
  <1>4. CASE HttpDrained \/ HttpFails
    BY <1>4 DEF HttpDrained, HttpFails
  <1>5. CASE Background
    BY <1>5 DEF Background, Next
  <1>6. CASE UNCHANGED allVars
    BY <1>6 DEF allVars
  <1> QED BY <1>1, <1>2, <1>3, <1>4, <1>5, <1>6 DEF ServerNext

-----------------------------------------------------------------------------
(* The invariant of the handoff *)

\* A step of the supervisor: a job that reloads adds a record of its own.
LEMMA SupervisorStepKeepsHandoff ==
  ASSUME TypeOK, IInv, ServerInv, [Next]_vars, UNCHANGED handoffVars
  PROVE  ServerInv'
  <1> USE DEF ServerInv
  <1>1. SpecsPermanent /\ PastPermanent /\ ReloadSpecsGrow
    BY StepKeeps
  <1>2. SpecsFit'
    BY <1>1 DEF SpecsPermanent, SpecsFit
  <1>3. \A j \in Jobs : Past(j) => Past(j)' /\ spec'[j] = spec[j]
    BY <1>1 DEF SpecsPermanent, PastPermanent, Past
  <1>4. handoff' = handoff /\ resuming' = resuming /\ resumed' = resumed
    BY DEF handoffVars
  <1>5. SuccessorsFollow'
    BY <1>3, <1>4 DEF SuccessorsFollow
  <1>6. CASE reloadSpecs' \in {reloadSpecs, {}}
    <2>1. Carried' \subseteq Carried
      BY <1>4, <1>6 DEF Carried
    <2>2. CarriedFits'
      BY <1>3, <2>1 DEF CarriedFits
    <2>3. CarriedOnce'
      BY <1>4, <1>6, <2>1 DEF CarriedOnce
    <2>4. ReloadedWorkIsDoneOnce'
      BY <1>4, <1>6 DEF ReloadedWorkIsDoneOnce, HandedOver, HasSuccessor
    <2> QED BY <1>2, <1>5, <2>2, <2>3, <2>4
  <1>7. ASSUME NEW j \in Jobs, mon[j] = "reaping", mon'[j] \notin {"reading", "reaping"},
               reloadSpecs' = reloadSpecs \cup Resumed(j)
        PROVE  ServerInv'
    <2>1. state[j] # "none" /\ ~Past(j)
      BY <1>7 DEF IInv, ThreadsAgree, Past, Active
    <2>2. Past(j)' /\ spec'[j] = spec[j] /\ Fits(spec[j])
      BY <1>1, <1>7, <2>1 DEF SpecsPermanent, Past, SpecsFit
    <2>3. \A r \in Carried : r.from # j
      BY <2>1 DEF CarriedFits
    <2>4. Carried' = Carried \cup Resumed(j)
      BY <1>4, <1>7 DEF Carried
    <2>5. \A r \in Resumed(j) :
            /\ r = [from |-> j, limit |-> Remaining(j)]
            /\ r.from = j /\ r.limit \in Limits /\ (spec[j].op = "translate" \/ r.limit = 0)
      BY <2>2, ResumedFits
    <2>6. CarriedFits'
      <3> SUFFICES ASSUME NEW r \in Carried'
                   PROVE  /\ r.from \in Jobs /\ Past(r.from)'
                          /\ r.limit \in Limits /\ (spec'[r.from].op = "translate" \/ r.limit = 0)
        BY DEF CarriedFits
      <3>1. CASE r \in Carried
        BY <3>1, <1>3 DEF CarriedFits
      <3>2. CASE r \in Resumed(j)
        BY <3>2, <2>2, <2>5
      <3> QED BY <2>4, <3>1, <3>2
    <2>7. CarriedOnce'
      <3>1. Resumed(j) \cap Carried = {}
        BY <2>3, <2>5
      <3>2. \A r, q \in Carried' : r.from = q.from => r = q
        BY <2>3, <2>4, <2>5 DEF CarriedOnce
      <3> QED BY <1>4, <1>7, <3>1, <3>2 DEF CarriedOnce, Carried
    <2>8. ReloadedWorkIsDoneOnce'
      <3>1. ~HasSuccessor(j)
        BY <2>1 DEF HasSuccessor, SuccessorsFollow
      <3>2. \A k \in Jobs : HandedOver(k)' => HandedOver(k) \/ k = j
        BY <2>4, <2>5 DEF HandedOver, Carried
      <3>3. \A k \in Jobs : HasSuccessor(k)' <=> HasSuccessor(k)
        BY <1>4 DEF HasSuccessor
      <3> QED BY <3>1, <3>2, <3>3 DEF ReloadedWorkIsDoneOnce
    <2> QED BY <1>2, <1>5, <2>6, <2>7, <2>8
  <1> QED BY <1>1, <1>6, <1>7 DEF ReloadSpecsGrow

\* The steps that move, consume or drop records.
LEMMA HandoffStepKeepsHandoff ==
  ASSUME TypeOK, IInv, ServerInv, ReadHandoff \/ Resume \/ Exec
  PROVE  ServerInv'
  <1> USE DEF ServerInv
  <1>1. [Next]_vars
    BY ServerStepImplements DEF ServerNext, Main
  <1>2. SpecsPermanent /\ PastPermanent
    BY <1>1, StepKeeps
  <1>3. SpecsFit'
    BY <1>2 DEF SpecsPermanent, SpecsFit
  <1>4. \A j \in Jobs : Past(j) => Past(j)' /\ spec'[j] = spec[j]
    BY <1>2 DEF SpecsPermanent, PastPermanent, Past
  <1>5. CASE ReadHandoff \/ Exec \/ \E r \in resuming : ResumeRaises(r)
    <2>1. resumed' = resumed
      BY <1>5 DEF ReadHandoff, Exec, Fresh, ResumeRaises, handoffVars
    <2>2. /\ Carried' \subseteq Carried
          /\ reloadSpecs' \cap handoff' = {} /\ reloadSpecs' \cap resuming' = {}
          /\ handoff' \cap resuming' = {}
      <3>1. CASE ReadHandoff
        BY <3>1 DEF ReadHandoff, Carried, CarriedOnce, vars, reloadVars
      <3>2. CASE Exec
        BY <3>2 DEF Exec, Fresh, Restart, Carried
      <3>3. CASE \E r \in resuming : ResumeRaises(r)
        BY <3>3 DEF ResumeRaises, StartLosesRegistry, Carried, CarriedOnce, vars, reloadVars
      <3> QED BY <1>5, <3>1, <3>2, <3>3
    <2>3. CarriedFits'
      BY <1>4, <2>2 DEF CarriedFits
    <2>4. CarriedOnce'
      BY <2>2 DEF CarriedOnce
    <2>5. SuccessorsFollow'
      BY <1>4, <2>1 DEF SuccessorsFollow
    <2>6. ReloadedWorkIsDoneOnce'
      BY <2>1, <2>2 DEF ReloadedWorkIsDoneOnce, HandedOver, HasSuccessor, Carried
    <2> QED BY <1>3, <2>3, <2>4, <2>5, <2>6
  <1>6. ASSUME NEW r \in resuming, NEW j \in Jobs, ResumeStarts(r, j) PROVE ServerInv'
    <2>1. /\ resuming' = resuming \ {r} /\ handoff' = handoff /\ reloadSpecs' = reloadSpecs
          /\ resumed' = resumed \cup {[from |-> r.from, by |-> j]}
      BY <1>6 DEF ResumeStarts, StartRuns, StartLaunchFails, reloadVars
    <2>2. Carried' = Carried \ {r} /\ r \in Carried
      BY <2>1 DEF Carried, CarriedOnce
    <2>3. CarriedFits'
      BY <1>4, <2>2 DEF CarriedFits
    <2>4. CarriedOnce'
      BY <2>1, <2>2 DEF CarriedOnce
    <2>5. r.from \in Jobs /\ Past(r.from)
      BY <2>2 DEF CarriedFits
    <2>6. SuccessorsFollow'
      BY <1>4, <2>1, <2>5 DEF SuccessorsFollow
    <2>7. ReloadedWorkIsDoneOnce'
      <3>1. \A k \in Jobs : HandedOver(k)' => HandedOver(k) /\ k # r.from
        BY <2>2 DEF HandedOver, Carried, CarriedOnce
      <3>2. \A k \in Jobs : HasSuccessor(k)' => HasSuccessor(k) \/ k = r.from
        BY <2>1 DEF HasSuccessor
      <3> QED BY <3>1, <3>2 DEF ReloadedWorkIsDoneOnce
    <2> QED BY <1>3, <2>3, <2>4, <2>6, <2>7
  <1> QED BY <1>5, <1>6 DEF Resume

LEMMA ServerStepInv == ASSUME TypeOK, IInv, ServerInv, [ServerNext]_allVars PROVE ServerInv'
  <1>1. CASE ReadHandoff \/ Resume \/ Exec
    BY <1>1, HandoffStepKeepsHandoff
  <1>2. CASE ~(ReadHandoff \/ Resume \/ Exec)
    <2>1. UNCHANGED handoffVars
      <3>1. CASE Client
        BY <3>1 DEF Client, HttpStart, HttpStop, HttpArchive, Interrupted, HangsUp, serverVars
      <3>2. CASE Main
        BY <1>2, <3>2 DEF Main, OpenServer, AllResumed, LoopReloads, LoopDrained, LoopStops,
           CloseApi, LeaveHttp, StopJobs, JoinJobs, Leave
      <3>3. CASE HttpDrained \/ HttpFails \/ Background \/ UNCHANGED allVars
        BY <3>3 DEF HttpDrained, HttpFails, Background, allVars, serverVars
      <3> QED BY <3>1, <3>2, <3>3 DEF ServerNext
    <2> QED BY <2>1, ServerStepImplements, SupervisorStepKeepsHandoff
  <1> QED BY <1>1, <1>2

LEMMA ServerInitInv == ASSUME ServerInit PROVE ServerInv
  BY DEF ServerInit, Init, ServerInv, SpecsFit, CarriedFits, CarriedOnce, Carried,
     SuccessorsFollow, ReloadedWorkIsDoneOnce, HandedOver, HasSuccessor

LEMMA ServerInductive == ServerSpec => [](TypeOK /\ IInv /\ ServerInv)
  <1>1. ServerInit => TypeOK /\ IInv /\ ServerInv
    BY TypeInit, InitInv, ServerInitInv DEF ServerInit
  <1>2. TypeOK /\ IInv /\ ServerInv /\ [ServerNext]_allVars => (TypeOK /\ IInv /\ ServerInv)'
    BY ServerStepImplements, ServerStepInv, TypeStep, StepInv
  <1> QED BY <1>1, <1>2, PTL DEF ServerSpec

-----------------------------------------------------------------------------

\* The server is a supervisor: every behaviour of serve(), with its re-executions and the
\* jobs it resumes from a handoff, is one of the supervisor, so TypeCorrect, Exclusion,
\* Ownership, MutualExclusion and Refinement hold of it.
THEOREM ServerImplementsSupervisor == ServerSpec => Spec
  <1>1. ServerInit => Init
    BY DEF ServerInit
  <1>2. ServerInv /\ [ServerNext]_allVars => [Next]_vars
    BY ServerStepImplements
  <1> QED BY <1>1, <1>2, ServerInductive, PTL DEF ServerSpec, Spec

\* Over any number of reloads, whatever clients, signals and the HTTP server do, the work
\* that a reloading job leaves is never on its way to a second successor.
THEOREM WorkIsDoneOnce == ServerSpec => []ReloadedWorkIsDoneOnce
  <1>1. ServerInv => ReloadedWorkIsDoneOnce
    BY DEF ServerInv
  <1> QED BY <1>1, ServerInductive, PTL

-----------------------------------------------------------------------------
(* What the server keeps *)

\* Where the records of a handoff are in the life of a process.
HandoffPlaced ==
  /\ handoff # {} => main \in {"boot", "handoff"} \/ stopping
  /\ resuming # {} => main = "resuming"

\* A stopper that is done, or a record that is abandoned, has no live worker.
OverIsOver(j) == Alive(j) => stp[j] # "done" /\ state[j] # "abandoned"

\* Once serve() unwinds no job is started; once shutdown() has passed its loop every active
\* job it owns has its stopper; and then no worker is alive, unless shutdown() has raised.
LeavingIsLast ==
  /\ main \in {"draining", "stopping", "joining", "leaving", "down"} => closing
  /\ main = "joining" => \A j \in Jobs : ~Stoppable(j)
  /\ main \in {"leaving", "down"} => (\A j \in Jobs : ~Alive(j)) \/ (raised /\ regFailed)
  /\ \A j \in Jobs : OverIsOver(j)

LifeInv == HandoffPlaced /\ LeavingIsLast /\ ReloadedWorkIsKept

\* While the server closes, and is not restarted, jobs are only given up.
ClosesOn ==
  /\ closing => closing' /\ owned' \subseteq owned
  /\ regFailed => regFailed'

LEMMA ClosingIsFinal ==
  ASSUME TypeOK, [Next]_vars, restarts' = restarts
  PROVE  ClosesOn
  <1>1. closing \in BOOLEAN /\ regFailed \in BOOLEAN /\ restarts \in Nat
    BY SupervisorAssumption DEF TypeOK, ServerType, RegistryType, BoundsType, SupervisorAssumption
  <1>2. ASSUME closing' = closing \/ closing' = TRUE, owned' \subseteq owned,
               regFailed' = regFailed \/ regFailed' = TRUE
        PROVE  ClosesOn
    BY <1>1, <1>2 DEF ClosesOn
  <1>3. ASSUME NEW j \in Jobs, Start(j) PROVE ClosesOn
    <2>1. ~closing /\ ~regFailed
      BY <1>3 DEF Start, StartRuns, StartLaunchFails, StartLosesRegistry, MayStart, Healthy
    <2> QED BY <2>1 DEF ClosesOn
  <1>4. ASSUME NEW j \in Jobs, Stop(j) \/ StopLosesRegistry(j) PROVE ClosesOn
    <2>1. closing' = closing /\ owned' = owned
      BY <1>4 DEF Stop, StopLosesRegistry
    <2>2. regFailed' = regFailed \/ regFailed' = TRUE
      BY <1>4 DEF Stop, StopLosesRegistry, WriteFails
    <2> QED BY <1>2, <2>1, <2>2
  <1>5. CASE BeginShutdown \/ Shutdown \/ ShutdownLosesRegistry \/ RequestReload
    <2>1. closing' = TRUE /\ owned' = owned
      BY <1>5 DEF BeginShutdown, Shutdown, ShutdownLosesRegistry, RequestReload
    <2>2. regFailed' = regFailed \/ regFailed' = TRUE
      BY <1>5 DEF BeginShutdown, Shutdown, ShutdownLosesRegistry, RequestReload, registryVars
    <2> QED BY <1>2, <2>1, <2>2
  <1>6. ASSUME NEW j \in Jobs, Monitor(j) PROVE ClosesOn
    <2>1. closing' = closing /\ owned' \subseteq owned
      BY <1>6 DEF Monitor, MonitorProgress, MonitorProgressLosesRegistry, MonitorTerminal,
         MonitorProtocolError, MonitorEOF, MonitorFinish, MonitorFinishLosesRegistry,
         MonitorRelease
    <2>2. regFailed' = regFailed \/ regFailed' = TRUE
      BY <1>6 DEF Monitor, MonitorProgress, MonitorProgressLosesRegistry, MonitorTerminal,
         MonitorProtocolError, MonitorEOF, MonitorFinish, MonitorFinishLosesRegistry,
         MonitorRelease, WriteFails, registryVars
    <2> QED BY <1>2, <2>1, <2>2
  <1>7. ASSUME NEW j \in Jobs, Stopper(j) PROVE ClosesOn
    <2>1. closing' = closing /\ owned' = owned /\ regFailed' = regFailed
      BY <1>7 DEF Stopper, StopperInterrupts, StopperReturns, StopperEscalates, StopperReaps,
         registryVars
    <2> QED BY <1>2, <2>1
  <1>8. ASSUME NEW j \in Jobs, Worker(j) PROVE ClosesOn
    <2>1. WorkerUnchanged
      BY <1>8 DEF Worker, WorkerBegins, WorkerRefused, WorkerLosesPipe, WorkerPasses,
         WorkerFinishesChunk, WorkerCompletes, WorkerRaises, WorkerSends, WorkerExits,
         WorkerInterrupted, InterruptAfterFrame, WorkerDies, WorkerMisprints
    <2>2. closing' = closing /\ owned' = owned /\ regFailed' = regFailed
      BY <2>1 DEF WorkerUnchanged, registryVars
    <2> QED BY <1>2, <2>2
  <1>9. ~Restart
    BY <1>1 DEF Restart
  <1>10. CASE UNCHANGED vars
    BY <1>2, <1>10 DEF vars, registryVars
  <1> QED BY <1>3, <1>4, <1>5, <1>6, <1>7, <1>8, <1>9, <1>10 DEF Next, Threads

\* Only Exec restarts the supervisor.
LEMMA OnlyExecRestarts ==
  ASSUME [ServerNext]_allVars, ~Exec
  PROVE  restarts' = restarts
  <1>1. ASSUME NEW j \in Jobs, Start(j) \/ Stop(j) \/ StopLosesRegistry(j) \/ Threads(j)
        PROVE  restarts' = restarts
    <2>1. CASE Start(j) \/ Stop(j) \/ StopLosesRegistry(j)
      BY <2>1 DEF Start, StartRuns, StartLaunchFails, StartLosesRegistry, Stop, StopLosesRegistry
    <2>2. CASE Monitor(j)
      BY <2>2 DEF Monitor, MonitorProgress, MonitorProgressLosesRegistry, MonitorTerminal,
         MonitorProtocolError, MonitorEOF, MonitorFinish, MonitorFinishLosesRegistry,
         MonitorRelease
    <2>3. CASE Stopper(j)
      BY <2>3 DEF Stopper, StopperInterrupts, StopperReturns, StopperEscalates, StopperReaps
    <2>4. CASE Worker(j)
      <3>1. WorkerUnchanged
        BY <2>4 DEF Worker, WorkerBegins, WorkerRefused, WorkerLosesPipe, WorkerPasses,
           WorkerFinishesChunk, WorkerCompletes, WorkerRaises, WorkerSends, WorkerExits,
           WorkerInterrupted, InterruptAfterFrame, WorkerDies, WorkerMisprints
      <3> QED BY <3>1 DEF WorkerUnchanged
    <2> QED BY <1>1, <2>1, <2>2, <2>3, <2>4 DEF Threads
  <1>2. CASE Client
    BY <1>1, <1>2 DEF Client, HttpStart, HttpStop, HttpArchive, Interrupted, HangsUp, vars
  <1>3. CASE Resume
    BY <1>3 DEF Resume, ResumeRaises, ResumeStarts, StartRuns, StartLaunchFails,
       StartLosesRegistry, vars
  <1>4. CASE Main /\ ~Resume
    BY <1>4 DEF Main, OpenServer, ReadHandoff, AllResumed, LoopReloads, LoopDrained, LoopStops,
       CloseApi, LeaveHttp, StopJobs, JoinJobs, Leave, RequestReload, BeginShutdown, Shutdown,
       ShutdownLosesRegistry, vars
  <1>5. CASE HttpDrained \/ HttpFails
    BY <1>5 DEF HttpDrained, HttpFails, vars
  <1>6. CASE Background
    BY <1>1, <1>6 DEF Background
  <1>7. CASE UNCHANGED allVars
    BY <1>7 DEF allVars, vars
  <1> QED BY <1>2, <1>3, <1>4, <1>5, <1>6, <1>7 DEF ServerNext

\* Steps of the clients, of the HTTP server and of the supervisor's threads.
Aside == Client \/ HttpDrained \/ HttpFails \/ Background \/ UNCHANGED allVars

LEMMA AsideLeaves ==
  ASSUME Aside
  PROVE  /\ UNCHANGED <<main, handoff, resuming, resumed>>
         /\ stopping' = stopping \/ stopping' = TRUE
         /\ raised' = raised \/ raised' = TRUE
  <1>1. CASE Client
    <2>1. ASSUME NEW j \in Jobs, HttpStart(j) \/ HttpStop(j) PROVE UNCHANGED serverVars
      BY <2>1 DEF HttpStart, HttpStop
    <2>2. ASSUME NEW w \in Workspaces, HttpArchive(w) PROVE UNCHANGED <<serveVars, handoffVars>>
      BY <2>2 DEF HttpArchive
    <2>3. CASE Interrupted \/ HangsUp
      BY <2>3 DEF Interrupted, HangsUp, handoffVars
    <2> QED BY <1>1, <2>1, <2>2, <2>3 DEF Client, serverVars, serveVars, handoffVars
  <1>2. CASE HttpDrained \/ HttpFails
    BY <1>2 DEF HttpDrained, HttpFails, serveVars, handoffVars
  <1>3. CASE Background \/ UNCHANGED allVars
    BY <1>3 DEF Background, allVars, serverVars, serveVars, handoffVars
  <1> QED BY <1>1, <1>2, <1>3 DEF Aside

LEMMA StepPlaced == ASSUME HandoffPlaced, [ServerNext]_allVars PROVE HandoffPlaced'
  <1>1. CASE Aside
    BY <1>1, AsideLeaves DEF HandoffPlaced
  <1>2. CASE OpenServer \/ ReadHandoff
    BY <1>2 DEF OpenServer, ReadHandoff, HandoffPlaced, handoffVars
  <1>3. CASE Resume
    BY <1>3 DEF Resume, ResumeRaises, ResumeStarts, serveVars, HandoffPlaced
  <1>4. CASE AllResumed \/ LoopReloads \/ LoopDrained \/ LoopStops
    BY <1>4 DEF AllResumed, LoopReloads, LoopDrained, LoopStops, HandoffPlaced, handoffVars
  <1>5. CASE CloseApi \/ LeaveHttp \/ StopJobs \/ JoinJobs \/ Leave
    BY <1>5 DEF CloseApi, LeaveHttp, StopJobs, JoinJobs, Leave, HandoffPlaced, handoffVars
  <1>6. CASE Exec
    BY <1>6 DEF Exec, Fresh, HandoffPlaced
  <1> QED BY <1>1, <1>2, <1>3, <1>4, <1>5, <1>6 DEF ServerNext, Main, Aside

\* What happens to job k while its server goes on: only start() gives it a worker, nothing
\* makes it active or abandoned again, and its stopper waits for the end of the worker.
Bears(k) ==
  /\ closing /\ Stoppable(k)' => Stoppable(k)
  /\ closing /\ Alive(k)' => Alive(k)
  /\ OverIsOver(k) => OverIsOver(k)'

\* The same of a step that starts no job.
LEMMA NoStartBears ==
  ASSUME NEW k \in Jobs,
         Alive(k)' => Alive(k), k \in owned' => k \in owned,
         state'[k] \in Active => state[k] \in Active,
         state'[k] = "abandoned" => state[k] = "abandoned",
         stp'[k] = "none" => stp[k] = "none",
         stp'[k] = "done" => stp[k] = "done" \/ ~Alive(k)'
  PROVE  Bears(k)
  BY DEF Bears, Stoppable, OverIsOver

LEMMA StartBears ==
  ASSUME TypeOK, WorkInv, NEW j \in Jobs, Start(j), NEW k \in Jobs
  PROVE  Bears(k)
  <1>1. /\ state \in [Jobs -> {"none"} \cup Active \cup Terminal]
        /\ proc \in [Jobs -> {"none", "boot", "idle", "run", "ending", "sent", "exit0", "exit1"}]
    BY DEF TypeOK, RegistryType, WorkerType
  <1>2. ~closing /\ UNCHANGED stp /\ state[j] = "none"
    BY DEF Start, StartRuns, StartLaunchFails, StartLosesRegistry, MayStart
  <1>3. stp[j] = "none"
    BY <1>2 DEF WorkInv, JobsInv, JobInv, Unused
  <1>4. state'[j] # "abandoned"
    BY <1>1 DEF Start, StartRuns, StartLaunchFails, StartLosesRegistry
  <1>5. k # j => state'[k] = state[k] /\ proc'[k] = proc[k]
    BY <1>1 DEF Start, StartRuns, StartLaunchFails, StartLosesRegistry, processVars
  <1> QED BY <1>2, <1>3, <1>4, <1>5 DEF Bears, OverIsOver, Alive

LEMMA ApiBears ==
  ASSUME TypeOK, NEW k \in Jobs,
         \/ \E j \in Jobs : Stop(j) \/ StopLosesRegistry(j)
         \/ BeginShutdown \/ Shutdown \/ ShutdownLosesRegistry \/ RequestReload
  PROVE  Bears(k)
  <1>1. /\ state \in [Jobs -> {"none"} \cup Active \cup Terminal]
        /\ stp \in [Jobs -> {"none", "new", "int", "term", "kill", "done"}]
    BY DEF TypeOK, RegistryType, ServerType
  <1>2. UNCHANGED <<proc, owned>>
    BY DEF Stop, StopLosesRegistry, BeginShutdown, Shutdown, ShutdownLosesRegistry, RequestReload,
       processVars
  <1>3. /\ state'[k] # state[k] => state[k] \in Active /\ state'[k] = "stopping"
        /\ stp'[k] \in {stp[k], "new"}
    <2>1. ASSUME NEW j \in Jobs, Stop(j) \/ StopLosesRegistry(j)
          PROVE  /\ state'[k] # state[k] => state[k] \in Active /\ state'[k] = "stopping"
                 /\ stp'[k] \in {stp[k], "new"}
      BY <1>1, <2>1 DEF Stop, StopLosesRegistry, WriteFails, Stoppable
    <2>2. CASE BeginShutdown \/ RequestReload
      BY <2>2 DEF BeginShutdown, RequestReload, registryVars
    <2>3. CASE Shutdown
      BY <1>1, <2>3 DEF Shutdown, Stopping, Stoppable
    <2>4. CASE ShutdownLosesRegistry
      BY <1>1, <2>4, ShutdownLosesShape DEF Stopping, Stoppable
    <2> QED BY <2>1, <2>2, <2>3, <2>4
  <1>4. Alive(k)' => Alive(k)
    BY <1>2 DEF Alive
  <1> QED BY <1>2, <1>3, <1>4, NoStartBears DEF Active

LEMMA MonitorBears ==
  ASSUME TypeOK, IInv, WorkInv, NEW j \in Jobs, Monitor(j), NEW k \in Jobs
  PROVE  Bears(k)
  <1>1. /\ state \in [Jobs -> {"none"} \cup Active \cup Terminal]
        /\ stp \in [Jobs -> {"none", "new", "int", "term", "kill", "done"}]
    BY DEF TypeOK, RegistryType, ServerType
  <1>2. MonitorLeaves(j) /\ \A i \in Jobs \ {j} : Apart(i)
    BY MonitorStepLeaves
  <1>3. Alive(k)' => Alive(k)
    BY <1>2 DEF MonitorLeaves, Alive
  <1>4. CASE k # j
    BY <1>2, <1>3, <1>4, NoStartBears DEF Apart
  <1>5. CASE k = j
    <2>1. state'[j] \in Active \cup {"abandoned"} => state[j] \in Active \/ state'[j] = state[j]
      BY <1>2 DEF MonitorLeaves
    <2>2. state'[j] = "abandoned" => state[j] = "abandoned"
      BY <1>1, OutcomeType DEF Monitor, MonitorProgress, MonitorProgressLosesRegistry,
         MonitorTerminal, MonitorProtocolError, MonitorEOF, MonitorFinish,
         MonitorFinishLosesRegistry, MonitorRelease, WriteFails, registryVars
    <2>3. stp'[j] \in {stp[j], "new"}
      BY <1>1 DEF Monitor, MonitorProgress, MonitorProgressLosesRegistry, MonitorTerminal,
         MonitorProtocolError, MonitorEOF, MonitorFinish, MonitorFinishLosesRegistry,
         MonitorRelease
    <2>4. owned' \subseteq owned
      BY DEF Monitor, MonitorProgress, MonitorProgressLosesRegistry, MonitorTerminal,
         MonitorProtocolError, MonitorEOF, MonitorFinish, MonitorFinishLosesRegistry,
         MonitorRelease
    <2> QED BY <1>3, <1>5, <2>1, <2>2, <2>3, <2>4, NoStartBears
  <1> QED BY <1>4, <1>5

LEMMA StopperBears ==
  ASSUME TypeOK, NEW j \in Jobs, Stopper(j), NEW k \in Jobs
  PROVE  Bears(k)
  <1>1. stp \in [Jobs -> {"none", "new", "int", "term", "kill", "done"}]
    BY DEF TypeOK, ServerType
  <1>2. UNCHANGED <<state, owned, proc>>
    BY DEF Stopper, StopperInterrupts, StopperReturns, StopperEscalates, StopperReaps,
       registryVars, processVars
  <1>3. stp'[k] # stp[k] => stp'[k] # "none" /\ (stp'[k] = "done" => Exited(k))
    BY <1>1 DEF Stopper, StopperInterrupts, StopperReturns, StopperEscalates, StopperReaps
  <1>4. (Exited(k) => ~Alive(k)) /\ (Alive(k)' <=> Alive(k))
    BY <1>2 DEF Exited, Alive
  <1> QED BY <1>2, <1>3, <1>4, NoStartBears

LEMMA WorkerBears ==
  ASSUME TypeOK, IInv, NEW j \in Jobs, Worker(j), NEW k \in Jobs
  PROVE  Bears(k)
  <1>1. proc \in [Jobs -> {"none", "boot", "idle", "run", "ending", "sent", "exit0", "exit1"}]
    BY DEF TypeOK, WorkerType
  <1>2. UNCHANGED <<state, owned, stp>> /\ proc[j] \notin {"none", "exit0", "exit1"}
    BY WorkerStepLeaves DEF WorkerLeaves
  <1>3. k # j => proc'[k] = proc[k]
    BY <1>1 DEF Worker, WorkerBegins, WorkerRefused, WorkerLosesPipe, WorkerPasses,
       WorkerFinishesChunk, WorkerCompletes, WorkerRaises, WorkerSends, WorkerExits,
       WorkerInterrupted, InterruptAfterFrame, WorkerDies, WorkerMisprints, Ends, Unwinds,
       processVars
  <1>4. Alive(k)' => Alive(k)
    BY <1>1, <1>2, <1>3 DEF Alive
  <1> QED BY <1>2, <1>4, NoStartBears

LEMMA StepBears ==
  ASSUME TypeOK, IInv, WorkInv, [Next]_vars, restarts' = restarts, NEW k \in Jobs
  PROVE  Bears(k)
  <1>1. ~Restart
    <2>1. restarts \in Nat
      BY DEF TypeOK, BoundsType
    <2> QED BY <2>1 DEF Restart
  <1>2. CASE UNCHANGED vars
    BY <1>2, NoStartBears DEF vars, registryVars, processVars, Alive
  <1> QED BY <1>1, <1>2, StartBears, ApiBears, MonitorBears, StopperBears, WorkerBears
          DEF Next, Threads

LEMMA StepLeaving ==
  ASSUME TypeOK, IInv, WorkInv, LeavingIsLast, [Next]_vars, [ServerNext]_allVars
  PROVE  LeavingIsLast'
  <1>1. CASE Exec
    <2>1. \A j \in Jobs : ~Alive(j)
      BY <1>1 DEF Exec, LeavingIsLast
    <2>2. (\A j \in Jobs : ~Alive(j)') /\ main' = "boot"
      BY <1>1, <2>1 DEF Exec, Fresh, Restart, processVars, Alive
    <2> QED BY <2>2 DEF LeavingIsLast, OverIsOver
  <1>2. ASSUME ~Exec
        PROVE  ClosesOn /\ \A j \in Jobs : Bears(j)
    BY <1>2, OnlyExecRestarts, ClosingIsFinal, StepBears
  <1>3. ASSUME ~Exec PROVE \A j \in Jobs : OverIsOver(j)'
    BY <1>2, <1>3 DEF Bears, LeavingIsLast
  <1>4. CASE Aside /\ ~Exec
    <2>1. main' = main /\ (raised' = raised \/ raised' = TRUE)
      BY <1>4, AsideLeaves
    <2>2. raised => raised'
      BY <2>1
    <2>3. ClosesOn /\ \A j \in Jobs : Bears(j)
      BY <1>2, <1>4
    <2> QED BY <1>3, <1>4, <2>1, <2>2, <2>3 DEF LeavingIsLast, ClosesOn, Bears
  <1>5. CASE OpenServer \/ ReadHandoff \/ AllResumed \/ LoopReloads \/ LoopDrained \/ LoopStops
    <2>1. main' \notin {"draining", "stopping", "joining", "leaving", "down"} /\ ~Exec
      BY <1>5 DEF OpenServer, ReadHandoff, AllResumed, LoopReloads, LoopDrained, LoopStops, Exec
    <2> QED BY <1>3, <2>1 DEF LeavingIsLast
  <1>6. CASE Resume
    <2>1. main' \in {"resuming", "closing"} /\ main = "resuming"
      BY <1>6 DEF Resume, ResumeRaises, ResumeStarts, serveVars
    <2> QED BY <1>3, <2>1 DEF LeavingIsLast, Exec
  <1>7. CASE CloseApi
    <2>1. main = "closing" /\ main' = "draining" /\ closing'
      BY <1>7 DEF CloseApi, BeginShutdown
    <2> QED BY <1>3, <2>1 DEF LeavingIsLast, Exec
  <1>8. CASE LeaveHttp
    <2>1. main = "draining" /\ main' = "stopping" /\ closing' = closing
      BY <1>8 DEF LeaveHttp, vars
    <2> QED BY <1>3, <2>1 DEF LeavingIsLast, Exec
  <1>9. CASE StopJobs
    <2>1. CASE Shutdown /\ main' = "joining"
      <3>1. stp \in [Jobs -> {"none", "new", "int", "term", "kill", "done"}]
        BY DEF TypeOK, ServerType
      <3>2. closing' /\ \A j \in Jobs : ~Stoppable(j)'
        BY <2>1, <3>1 DEF Shutdown, Stopping, Stoppable
      <3> QED BY <1>3, <1>9, <2>1, <3>2 DEF LeavingIsLast, StopJobs, Exec
    <2>2. CASE ShutdownLosesRegistry /\ main' = "leaving" /\ raised' = TRUE
      <3>1. closing' /\ regFailed'
        BY <2>2, ShutdownLosesShape DEF ShutdownLosesRegistry, TypeOK, RegistryType
      <3> QED BY <1>3, <1>9, <2>2, <3>1 DEF LeavingIsLast, StopJobs, Exec
    <2> QED BY <1>9, <2>1, <2>2 DEF StopJobs
  <1>10. CASE JoinJobs
    <2>1. main = "joining" /\ main' = "leaving" /\ closing' = closing /\ proc' = proc
      BY <1>10 DEF JoinJobs, vars, processVars
    <2>2. ASSUME NEW j \in Jobs, Alive(j) PROVE FALSE
      <3>1. state[j] # "abandoned" /\ stp[j] # "done"
        BY <2>2 DEF LeavingIsLast, OverIsOver
      <3>2. j \in owned /\ state[j] \in Active
        BY <2>2, <3>1 DEF IInv, LiveWorkerIsOwned, ThreadsAgree
      <3>3. stp[j] = "none"
        BY <1>10, <3>1, <3>2 DEF JoinJobs, Joined
      <3> QED BY <2>1, <3>2, <3>3 DEF LeavingIsLast, Stoppable
    <2>3. \A j \in Jobs : ~Alive(j)'
      BY <2>1, <2>2 DEF Alive
    <2> QED BY <1>3, <2>1, <2>3 DEF LeavingIsLast, Exec
  <1>11. CASE Leave
    <2>1. /\ main = "leaving" /\ main' = "down"
          /\ UNCHANGED <<closing, proc, raised, regFailed>>
      BY <1>11 DEF Leave, vars, registryVars, processVars
    <2>2. ~Exec
      BY <2>1 DEF Exec, Fresh
    <2> QED BY <1>3, <2>1, <2>2 DEF LeavingIsLast, Alive
  <1> QED BY <1>1, <1>4, <1>5, <1>6, <1>7, <1>8, <1>9, <1>10, <1>11 DEF ServerNext, Main, Aside

\* A job that was cancelled for a successor keeps its record, or its successor, in every step
\* that moves records; a job that becomes "cancelled" now leaves one.
LEMMA StepKept ==
  ASSUME TypeOK, IInv, WorkInv, HandoffPlaced, ReloadedWorkIsKept, [Next]_vars,
         [ServerNext]_allVars
  PROVE  ReloadedWorkIsKept'
  <1> SUFFICES ASSUME NEW j \in Jobs, state'[j] = "cancelled", j \notin asked'
               PROVE  (HandedOver(j) \/ HasSuccessor(j) \/ stopping \/ raised)'
    BY DEF ReloadedWorkIsKept
  <1>1. j \notin asked
    BY NothingIsDropped
  <1>2. state[j] = "cancelled" => HandedOver(j) \/ HasSuccessor(j) \/ stopping \/ raised
    BY <1>1 DEF ReloadedWorkIsKept
  <1>3. CASE Exec
    <2>1. state[j] = "cancelled" /\ ~stopping /\ ~raised
      BY <1>3 DEF Exec, Fresh, Restart
    <2>2. handoff = {} /\ resuming = {} /\ handoff' = reloadSpecs /\ resumed' = resumed
      BY <1>3, <2>1 DEF Exec, Fresh, HandoffPlaced
    <2> QED BY <1>2, <2>1, <2>2 DEF HandedOver, HasSuccessor
  <1>4. ASSUME ~Exec, state[j] # "cancelled" PROVE HandedOver(j)'
    BY <1>4, CancelLeavesRest DEF HandedOver
  <1>5. ASSUME ~Exec PROVE reloadSpecs \subseteq reloadSpecs'
    BY <1>5, OnlyExecRestarts, NothingIsDropped
  <1>6. ASSUME ~Exec, state[j] = "cancelled", handoff \cup resuming \subseteq handoff' \cup resuming',
               resumed \subseteq resumed', stopping => stopping', raised => raised'
        PROVE  (HandedOver(j) \/ HasSuccessor(j) \/ stopping \/ raised)'
    BY <1>2, <1>5, <1>6 DEF HandedOver, HasSuccessor
  <1>7. CASE Aside
    <2>1. /\ UNCHANGED <<handoff, resuming, resumed>>
          /\ stopping' = stopping \/ stopping' = TRUE
          /\ raised' = raised \/ raised' = TRUE
      BY <1>7, AsideLeaves
    <2>2. stopping => stopping'
      BY <2>1
    <2>3. raised => raised'
      BY <2>1
    <2> QED BY <1>3, <1>4, <1>6, <2>1, <2>2, <2>3
  <1>8. CASE ReadHandoff
    <2>1. resuming = {}
      BY <1>8 DEF ReadHandoff, HandoffPlaced
    <2>2. /\ handoff \cup resuming \subseteq handoff' \cup resuming' /\ resumed' = resumed
          /\ stopping' = stopping /\ raised' = raised
      BY <1>8, <2>1 DEF ReadHandoff
    <2> QED BY <1>3, <1>4, <1>6, <2>2
  <1>9. ASSUME NEW r \in resuming, NEW k \in Jobs, ResumeStarts(r, k), ~Exec
        PROVE  (HandedOver(j) \/ HasSuccessor(j) \/ stopping \/ raised)'
    <2>1. /\ resuming' = resuming \ {r} /\ handoff' = handoff
          /\ resumed' = resumed \cup {[from |-> r.from, by |-> k]}
          /\ stopping' = stopping /\ raised' = raised
      BY <1>9 DEF ResumeStarts, serveVars
    <2>2. CASE state[j] = "cancelled" /\ j = r.from
      <3>1. [from |-> r.from, by |-> k] \in resumed'
        BY <2>1
      <3>2. HasSuccessor(j)'
        BY <2>2, <3>1 DEF HasSuccessor
      <3> QED BY <3>2
    <2>3. CASE state[j] = "cancelled" /\ j # r.from
      BY <1>2, <1>5, <1>9, <2>1, <2>3 DEF HandedOver, HasSuccessor
    <2> QED BY <1>4, <1>9, <2>2, <2>3
  <1>10. ASSUME NEW r \in resuming, ResumeRaises(r) PROVE raised'
    BY <1>10 DEF ResumeRaises
  <1>11. CASE \/ OpenServer \/ AllResumed \/ LoopReloads \/ LoopDrained \/ LoopStops
              \/ CloseApi \/ LeaveHttp \/ StopJobs \/ JoinJobs \/ Leave
    <2>1. UNCHANGED <<handoff, resuming, resumed, stopping>>
      BY <1>11 DEF OpenServer, AllResumed, LoopReloads, LoopDrained, LoopStops, CloseApi,
         LeaveHttp, StopJobs, JoinJobs, Leave, handoffVars
    <2>2. raised' = raised \/ raised' = (raised \/ http # "down") \/ raised' = TRUE
      BY <1>11 DEF OpenServer, AllResumed, LoopReloads, LoopDrained, LoopStops, CloseApi,
         LeaveHttp, StopJobs, JoinJobs, Leave
    <2>3. raised => raised'
      BY <2>2
    <2> QED BY <1>3, <1>4, <1>6, <2>1, <2>3
  <1> QED BY <1>3, <1>7, <1>8, <1>9, <1>10, <1>11 DEF ServerNext, Main, Resume, Aside

LEMMA ServerWorkInductive == ServerSpec => [](TypeOK /\ IInv /\ WorkInv /\ LifeInv)
  <1>1. ServerInit => WorkInv /\ LifeInv
    BY InitWork DEF ServerInit, Init, LifeInv, HandoffPlaced, LeavingIsLast, OverIsOver, Alive,
       ReloadedWorkIsKept
  <1>2. TypeOK /\ IInv /\ ServerInv /\ WorkInv /\ LifeInv /\ [ServerNext]_allVars
          => (WorkInv /\ LifeInv)'
    BY ServerStepImplements, StepWork, StepPlaced, StepLeaving, StepKept DEF LifeInv
  <1> QED BY <1>1, <1>2, ServerInductive, PTL DEF ServerSpec

\* A job that a reload cancelled is on its way to a successor or has one, through every
\* drain, handoff file and re-execution, unless the server was stopped or serve() raised:
\* for any number of jobs and of reloads.
THEOREM WorkIsKept == ServerSpec => []ReloadedWorkIsKept
  <1>1. LifeInv => ReloadedWorkIsKept
    BY DEF LifeInv
  <1> QED BY <1>1, ServerWorkInductive, PTL

\* When serve() has returned, or the process is about to re-execute itself, no worker is
\* alive: for any number of jobs, reloads and registry write errors, and whatever the HTTP
\* thread did.  Where a worker survives, a registry write error is why shutdown() and with it
\* serve() have raised.
THEOREM NoneLeftBehind == ServerSpec => []NoWorkerOutlivesServer
  <1>1. LifeInv => NoWorkerOutlivesServer
    BY DEF LifeInv, LeavingIsLast, NoWorkerOutlivesServer
  <1> QED BY <1>1, ServerWorkInductive, PTL

=============================================================================
