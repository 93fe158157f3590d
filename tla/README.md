# Intelitex in TLA+

Intelitex translates books with language models. A web server owns *jobs*
(analysis, translation, export, ...); each job is a worker process that edits one
project directory; what jobs did, and may still have to do, is kept in files. This
directory models that machinery in TLA+, checks it with TLC and proves theorems about
it with TLAPS. Translation prompts, EPUB layout and the web pages are not its subject.

To check: `tlc -config <run>.cfg <module>` for the runs of the table in section 4, and
`tlapm <module>.tla` for `ServerProofs` (which is about `Supervisor` too), `JobRegistryProofs`,
`EventStreamProofs`, `StateFilesProofs`, `WorkspaceProofs`, `PreparationProofs`,
`SourceSessionProofs` and `SourceRuntimeProofs`. `PROJECT.json` has the same information in a form for tools:
components, runs, the source lines of every definition, hazards, findings, and for each
property a *mutant*: a plausible bug, written in the module as a "faulty variant" next to
the definition it would replace, that makes TLC report the property violated. No
specification uses a faulty variant.

## 1. Inventory

Paths are relative to `src/bookpipe/`.

| Component | State | Operations | Interacts with |
|---|---|---|---|
| **Job supervisor** `runtime/supervisor.py`, `processes.py` | `owned` workers (with `ready`, `reload_requested`, `reload_signalled`, `stopper`), `closing`, `reload_specs` | start, stop, request_reload, begin_shutdown, shutdown; per job a monitor thread and a stopper thread | called by HTTP threads and by the server's main thread; writes the registry; reads frames from workers and signals them |
| **Worker** `runtime/worker.py`, `protocol.py` | signal handlers, its place in the operation, the stdout pipe | run one operation, send progress frames and one terminal frame, react to SIGINT and SIGUSR1 | monitor (pipe), project lock, project files |
| **Pass loop** `application/pipeline.py` | chunks to do, pass of the current chunk | run a pass, checkpoint it, finish a chunk, stop for a reload | store, engine |
| **Project lock** `util.py`, `application/sessions.py` | a `flock` per project | enter or be refused, released by the kernel when its holder dies | workers, CLI commands, archive |
| **Server process** `server/__init__.py`, `reload.py` | events `stopping` and `reloading`, phase of `serve()`, the HTTP thread, the handoff file | signals, drain, handoff, re-execution, shutdown | supervisor, HTTP service |
| **HTTP service** `server/service.py`, `asgi.py`, ... | archived flags; otherwise none of its own | start, stop, archive, edits, queries, event stream | supervisor, registry, project files |
| **Job registry** `runtime/registry.py` | a record file per job, the manifest `registry.json`; in memory records, cursor, order, receipts, replay buffer | reserve, save, append, request, receipt, events; recovery | supervisor, event stream |
| **Event broker** `runtime/events.py` and the browser's event consumer `web/src/realtime` | replay buffer of 1000 events; the client's jobs, activity, cursor | publish, read after a cursor; snapshot, progress, refresh | registry |
| **State store** `state_files.py`, `store.py` | content-addressed objects and commits, `HEAD.json` | open, transaction, publish, rollback, migrate | every process that has a project open |
| **Translation state** `application/pipeline.py`, `engine.py`, `store.py`, `artifacts.py` | per chunk: results of passes, the selected ones, dirty passes, the final, its status | run or rerun a pass, invalidate, finish a chunk | store, approval, provider |
| **Analysis and reset** `application/pipeline.py`, `analysis_reset.py` | per unit: frozen inputs, answer, job, merged memory, receipt; `pending.json` and a shelf of moved files | analyse, write the draft, reset | store, artifact files |
| **Review and approval** `application/review.py` | the draft and its revision, the terms, the approved lexicon, the receipt | patch, confirm, approve | store, translation |
| **Publishing** `application/publishing.py` | EPUB files, the record of the last success and of all editions | publish | store |
| **Source sessions** `source_sessions.py`, `engine.py` | a manifest per slot: P0, intents, submissions, cleanup; a record per attempt | acquire, recover, submit, collect, save, finalize, close | the app-server, the store |
| **Source runtime** `source_runtime.py`, `source_sessions.py` | the native directories, the migration journal, the owner of record | acquire, migrate, retire, purge | the app-server, source sessions |
| **Preparation** `application/projects.py`, `runtime/worker.py`, `server/catalog.py` | the configured draft, the installed plan and its directories, the stage of a rebuild, the versions put aside, the section choices | prepare, prepare again with its swap and rollback, choose sections | supervisor, project lock, state store, the source in the Library |

The remaining components (parsing of books, catalogue, queries, providers, prompts, settings,
one-time migrations, command line, the rest of the user interface) are listed in
`PROJECT.json` with the reason each is left out: they parse, display, talk to the network,
or configure.

What is hard, and which properties make each part correct:

* **Supervisor.** Monitor, stopper, callers and worker run concurrently: a stop races
  the end of the worker, a final state is recorded before the job is disowned, a write
  error can kill a monitor or a launch half-way. Correct means: one job per workspace,
  nobody loses track of a live worker, final states mean what they say, a stop ends.
* **Reload.** SIGUSR1 kills a Python process without a handler; the rest of a limit
  must survive a restart, and 0 means "all". Correct means: the work is handed over
  once and whole.
* **Server process.** SIGTERM and SIGHUP come at any time, the HTTP thread may hang,
  clients are served while the handoff is read. Correct means: no worker outlives it, a
  stop always gets through, a reload gets through, a client cannot get in between.
* **Registry.** A death or an I/O error between two file operations, an answer that is
  lost and a request that is repeated. Correct means: what was acknowledged is on the
  disk, identifiers are not reused, the next server can load what is there.
* **Event stream.** A snapshot, the events after it and the responses of plain requests
  overtake each other on the way to the page; the replay buffer is finite. Correct means:
  what is shown of a job does not go back, no job vanishes, and the page catches up or, while
  it is hidden, stops saying that it is Live.
* **State store.** Failure, death and loss of power between any two file operations,
  and connections that are stale. Correct means: a log of whole states, no lost update.
* **One project.** Analysis, reset, review, translation, reruns and publishing change the
  same rows and files, one operation at a time, and any of them may die half-way. Correct
  means: nobody works on a half-reset project, nothing "done" rests on replaced text or
  an unapproved name, an edition that was recorded stays.
* **Preparation.** A plan is replaced directory by directory, with renames that a stop, a
  failure or a death may come between, after checks that were made without the lock. Correct
  means: the installed plan is never lost, choices are never read against another plan, a
  plan with results is not replaced, and a plan is of the source that was selected.
* **Source session.** A request may have reached the model although nobody saw the
  answer. Correct means: it is not paid for twice, and none is lost from the accounts.
* **Source runtime.** Some thirty changes on the disk move a session's state, while an
  app-server may outlive its run. Correct means: one copy, one writer, no turn lost.

The complete list, each at its line, is `PROJECT.json` "hazards".

## 2. Plan

Done, in this order:

1. `JobLifecycle` (abstract) and `Supervisor` with its workers and the project lock;
   `MCSupervisor`.
2. `Server`, which EXTENDS `Supervisor` and composes it with `serve()`, its clients and
   the handoff file; `MCServer`; `ServerProofs`, the theorems about both.
3. `JobRecords` (abstract) and `JobRegistry`, the files behind the job states, which
   implements it; `MCJobRegistry`; `JobRegistryProofs`.
4. `EventStream`: replay buffer, snapshots, evicted events, reconnection, and what the
   browser makes of them; `EventStreamProofs`.
5. `StateLog` (abstract) and `StateFiles`, which implements it; `MCStateFiles`;
   `StateFilesProofs`.
6. `ProjectStore`, the transactions of one project, and the operations on it: `Analysis`
   with the reset, `Approval`, `Translation`, `Publishing`; `Workspace` composes them;
   `MCWorkspace`; `WorkspaceProofs`.
7. `SourceSession`, one slot of the app-server; `SourceSessionProofs`.
8. `NativeSession` (abstract) and `SourceRuntime`, which implements it;
   `SourceRuntimeProofs`.

9. `Preparation`, a workspace from its draft to its plan and from one plan to the next;
   `MCPreparation`; `PreparationProofs`.
10. The invariants that were only model-checked, proved: what final states and handed-over
    limits mean, that a reload keeps the work and a server leaves no worker behind
    (`ServerProofs`), `DoneIsCurrent` and `UnlimitedRunFinishesAll` (`WorkspaceProofs`).

Left, the most important first:

11. One generation of a pass: the attempts and repairs of `Runner._run`, the answer files
    and records of an attempt, the accounting of what was paid (`engine.py`, `chat.py`,
    `codex_transport.py`). Two things seen in reading that it should show: for two of the
    providers the answer is written before its metadata, so that a death in between loses a
    paid answer; and a failure right after a resumed thread records the usage of its parent.
12. The request and reply matching of `_RpcSession` (`codex_transport.py`), of which
    `SourceSession` has only what a caller sees, and `source_preload.py`, which runs
    several slots after one another.
13. `SourceSession` on top of `SourceRuntime`: one specification of a slot and its
    directory. They meet in the manifest's `turn` and `retired`.

## 3. The modules

### JobLifecycle (abstract)

What clients may rely on: the states of a job in order, a final state is final, a
workspace is given to a job only when it is free. `Supervisor` implements it with
`ws <- spec[.].ws` and `busy <- Busy`, the jobs that are active or still owned.

### Supervisor

Every method of `JobSupervisor` runs under one lock and is one action; between them
come the steps of other actors. Per job: the monitor (`mon`), the stopper (`stp`), the
worker (`proc`), the pipe, the signals on their way (`intr`, `dying`, `reloadSig`).

| Code | Actions |
|---|---|
| `start` | `StartRuns`, `StartLaunchFails`, `StartLosesRegistry` |
| `stop`, `_stop` | `Stop`, `StopLosesRegistry`; `StopperInterrupts`, `StopperReturns`, `StopperEscalates`, `StopperReaps` |
| `_monitor` | `MonitorProgress`, `MonitorTerminal`, `MonitorProtocolError`, `MonitorEOF`, `MonitorFinish`, `MonitorRelease`, and the `...LosesRegistry` forms, in which the write raises and the thread ends |
| `request_reload`, `reload_drained`, `begin_shutdown`, `shutdown` | `RequestReload`, `ReloadDrained`, `BeginShutdown`, `Shutdown`, `ShutdownLosesRegistry` |
| `worker.main`, `execute`, `execute_translate` | `WorkerBegins` ... `WorkerExits`; signals: `WorkerInterrupted`, `InterruptAfterFrame`, `WorkerDies` |
| death of the server and `JobRegistry.__init__` | `Restart` |

Abstractions. A frame is its type and, for a reload, the number of chunks done. A
translate job is a loop over `todo` chunks of `Passes` passes; that finishing a chunk can
reopen later ones is in `Translation`. One progress frame stands for those of a pass.
An operation other than translate is a body that may end at any time. The publication
lock is part of the project lock. A worker left behind by a dead server keeps its
`proc` and its lock, and loses its pipe. A write error stops all later writes
(`regFailed`); a write that raises may have reached the disk (`WriteFails`).

### Server

EXTENDS `Supervisor`; each action is a step of it with the server's own variables, or
leaves it alone. `main` is where the main thread is in `serve()`:
boot → handoff → resuming → serving → closing → draining → stopping → joining →
leaving → down, or `Exec`, back to boot. `http` is the HTTP thread, `stopping` and
`reloading` the two events. `HttpStart`, `HttpStop`, `HttpArchive` are handlers;
`HttpArchive` takes part because it asks the same questions as a start.

Abstractions. A server that dies without unwinding is in `Supervisor` (`Restart`) and not
here; here `Restart` is the re-execution. When the server is down its background threads
are not followed. The registration in `serve.json`, used to find the process to signal,
is left out. Configuration edits and queries change nothing in this model.

### JobRecords (abstract) and JobRegistry

`JobRecords` is what a client may rely on: one map of records, of which a commit changes
one, to a later version of itself; the server learns of the commit, and may answer, or the
write fails and nothing is written until a restart has found out what is there. `JobRegistry`
implements it with `stored <- manifest`, `refusing <- failed` and, as `view`, the server's
memory or, between two servers, what the next one will find.

The manifest, its `cursor_floor` and the record files (disk), the memory of one server,
and a write in four steps: `WriteRecord`, `SwitchManifest`, `Commit`, with `Writes` as its
beginning; `WriteFails` and `Dies` may come between any two. `Load`, `Abandon` and `Opened`
are `__init__`. Methods hold `JobRegistry.lock`, so one write is in flight; `.runtime.lock`
admits one server, so the memory is one.

Abstractions. A record is its order, state, sequence number, last event, retained events
and receipt; states are starting, running (for stopping too) and final. A checksum is the
record itself: file names differ when records differ. `seen` and `answered` are history:
events that may have been shown, requests that got an answer. The first creation of
`.runtime` is left out (the model begins after it; a death in the middle of it leaves a
directory that no server can open, and nothing promises otherwise). Loss of power is left
out: a death loses memory and not completed file operations; what is modelled of `fsync`
is that it may raise after the replacement. A record that fails its checksum is not
produced by anything in the model. An unlink that fails leaves only an unused file.

### EventStream

One server's registry as the stream sees it, one connection (`wire`) and one page.
`JobStarts`, `JobProgresses` and `JobEnds` publish events and evict old ones; `Connect`,
`StreamSends` and `Answer` are the server's side (`stream()` of `asgi.py`, GET
`/api/jobs`); `SnapshotArrives`, `ProgressArrives`, `RefreshArrives`, `TimerFires`,
`Polls`, `Resumes` and `PageHides` are `state.ts` and `coordinator.tsx`, with the connection
indicator (`live`). `StreamBreaks` loses what is on the connection and leaves a request alone;
`RefreshFails` is the rejected request, after which nothing asks again but a refresh that was
asked for meanwhile, the next event or the next poll; `GoesOffline` is the browser's event.
`Restart` and `Replace` are a new server on the same registry and on another; a request dies
with its server.

Abstractions. Starting, running and stopping are one state, "running". The activity list, the
limit of 10,000 on identifiers already seen and the branches for a message that cannot be
parsed are left out. `online` is a `Resumes`, whatever `navigator.onLine` says before. A new
job's UUID is the first identifier not used yet. A snapshot at the head of a connection that was overtaken by the response of a
request also makes the page start over; that is what the code does (`Resets`), and
`NeverGoesBack` excuses a start-over.

### StateLog (abstract) and StateFiles

`StateLog` is what `docs/state-json-migration.md` promises under "Transaction boundary": a
log of whole states that a connection may extend only if nobody has since it read it.
`StateFiles` has the steps of `state_files.py`: open, create, migrate, change rows, and the
commit with its objects, commit file, directory syncs and the replacement of `HEAD.json`;
`CommitFails` (an `OSError` at any step), `Dies`, and `PowerLoss`, which keeps synced entries
and any part of the others. `ImplementsLog` maps the log to what `HEAD` names.

Abstractions. A digest is what it digests. The application's project lock is deliberately
not assumed: these files have a lock and a check of their own. The nesting depth of
`with store.db`, read-only connections, the backup, the baseline written after a migration
(a death in between makes every later verification raise) and the loss of the directory
above the project are left out. Something the model makes visible: a failure after the
replacement of `HEAD` is rolled back in memory although it is committed on disk, and that
connection never publishes again.

### ProjectStore, Analysis, Approval, Translation, Publishing, Workspace

One project under its lock. `ProjectStore` has the state and, as operators, the
transactions of `store.py`; each of the next four adds the actions of one part of the
application, and `Workspace` takes the disjunction and adds `Dies`.

| Module | Code | Actions |
|---|---|---|
| `Analysis` | `execute_analyze` and what it calls, `reset_analysis` | `AnalyzeBegins` ... `UnitRunEnds`, `WriteReview`; `ResetBegins` ... `ResetCompletes`, `ResetFails` |
| `Approval` | `review.py`, `Store.commit_approval` | `PatchTerm`, `SetConfirmed`, `ApproveBegins`, `CommitApproval`, `WriteApprovedReview`, `WriteLexicon`, `SaveApprovalRevision` |
| `Translation` | `execute_translate`, `execute_target_pass`, `Runner._run` | `TranslateBegins`, `TargetBegins`, `UseSavedResult`, `RecoverAnswer`, `AskProvider`, `SaveJob`, `RecordGenerated`, `FinishChunk`, `AcceptTargetPass` |
| `Publishing` | `publish` | `PublishBegins`, `PublishReuses`, `BuildEpub`, `RecordEdition`, `PublishFails` |

Abstractions. A transaction is one step, which `StateFiles` justifies; so are files written
one after the other with nothing between them. A result is the key it was made for and one
of a few texts; `Suffix` is what the next chunk is shown of a text and `Ends` what it ends
with, so that a text may grow in front of what was read. `torn` is a history variable: an approval died after its commit. `edits`
counts patches and withdrawn confirmations. `Dies` also stands for an exception that stops
an operation, other than the two the code handles: a reset that moves everything back, and
a publication that records its failure. `pending.json` stays after both a failed and a dead
reset, so such a project is blocked until a reset succeeds. A publication may begin
whenever the lock is free, because a translation that completes a book publishes after it
gave the lock back. Left out: the export of `book_memory.json`, bulk review, notes and
custom forms, the selection and exclusion of sections and metadata of an EPUB, the library.

### Preparation

A workspace before any work is done in it. `source` is the version of the book in the
Library, `setup` the version the draft was configured for; `root`, `stage` and `versions`
say of each directory which plan's content is where.

| Code | Actions |
|---|---|
| the server's checks (`catalog.py`, `check_reprepare`) | `Prepare`, `Reprepare`; `Configure` for the choice of a section |
| `worker.py`, setup and lock | `WorkerStarts`, `WorkerRefuses`, `WorkerLocks`, `WorkerIsRefused` |
| `import_folder` into the workspace or the stage | `ReadSource`, `WriteDirectory`, `ImportWritten`, `RegisterChunks` |
| the swap of `reprepare` and its rollback (`projects.py`) | `PutVersionAside`, `MoveOld`, `MoveNew`, `RecordMove`, `ResetChoices`, `InstallBook`, `SwapEnds`; `UndoBook`, `UndoConfig`, `UndoNew`, `UndoOld`, `RemoveVersion`; `WorkerEnds` |
| what goes wrong, and others | `OperationFails`, `StopInterrupts`, `StopsEarly`, `StageStays`, `WorkerDies`; `CommandBegins`, `CommandEnds`, and the edit of the source |

Abstractions. A plan is a number, the directories it has and the version of the source it
was made of. The chunks of a plan are in the store or not. A write of one directory is one
step, which a death may precede or follow. `work` stands for everything that
`check_reprepare` refuses to throw away. A stop is an exception at the next step, wherever the
worker is, and the only one of its job; a failure may come at each write, those of the rollback
included. `cut` is history: it names what a failure or a stop has cut short, a rename without
its record, a rollback without its rest, or the removal of the stage, and the properties go by
it. A stage or a version whose removal was cut short is left whole in the model. A death may
come anywhere.

### SourceSession

One slot and two tasks. The manifest (`state`, the active submission, the ones to clean),
the records of the attempts, the saved answers and job rows, the native history, and where
the run is. `Begins` to `Stops` follow `acquire`, `recover_submission`, `cleanup`, `submit`,
`verify_completion`, `save` and `finalize`, and the acceptance in `Runner._run`; `TurnStarts`,
`TurnEnds`, `RequestIsLost` and `OrphanExits` are the app-server, which is external.

Abstractions. A task's prompt is the same in every attempt. A request may be lost although
the model saw it. A completed turn may have no final answer (`HoldsSilent`: no run gets past
it). Recovery is one step. Closing and interrupting is `Stops`, with the
app-server left behind as an orphan; a turn may stay "active" for ever. The generation of an
explicit rebuild, the usage hold and the cleaning before an analysis reset are left out.

### NativeSession (abstract) and SourceRuntime

`NativeSession`: at most one app-server may write the state, the state is the last one
written, and it goes only when the session was retired and purged, and not while a turn was
just asked for. A turn that is held (`recovery_required`) does not protect it: the guard of a
purge (`source_sessions.py:982-983`) only knows the two states before that.
`SourceRuntime` is where that state lies. `dirs` has four places: the old and the new
directory, and the temporary neighbours that a copy is made in and a removal is made from. The
manifest names the place in force and holds the journal. Actions `OpensJournal` to
`CompletesJournal` are `migrate_runtime`, one per change on the disk, `rmtree` entry by
entry; `MakesSlot` to `Releases` are acquire, connect and close; `Retires` and `Purges` are
`retire_session`. `Dies` may come between any two; app-servers outlive it.

Abstractions. A directory is the versions of its parts, what its index points to, its
marker and whether a temporary file was left in it. One operation at a time holds the
project's lock (`operations.py`). A run that dies between starting an app-server and
recording it (`source_sessions.py:303-306`) leaves one that `_idle` does not see; it never
got a request, and the writers of the abstract session are recorded, live owners. Left out:
the link to shared credentials, the generation of a rebuild, inodes and births of
processes, and loss of power.

## 4. The runs

| Run | Question | Bounds |
|---|---|---|
| `supervisor_job` | What does a job's final state mean, and do stops and drains end? `SuccessIsComplete`, `RestIsHandedOver`, `ReloadSignalsInstalledHandler`, `StopEnds`, `DrainEnds` | 1 job, 3 chunks of 4 passes, limits 0, 1, 2, every kind of operation, corrupt frames, a pipe of 2 frames |
| `supervisor_crash` | Who owns a workspace and a worker? `LiveWorkerIsOwned`, `AtMostOneWriter`, and `ImplementsLifecycle`: refinement of `JobLifecycle` | 2 jobs on 1 workspace, 1 write error, 1 death of the server |
| `server_reload` | Is reloaded work kept, and done once? `ReloadedWorkIsKept`, `ReloadedWorkIsDoneOnce` | 2 job identifiers, 2 chunks, 1 re-execution, a competing client |
| `server_exit` | Does a server end, and alone? `NoWorkerOutlivesServer`, `StopEndsServer`, `ReloadEnds` | 1 job, 1 write error, an HTTP thread that fails or hangs |
| `registry` | Does the disk keep what was acknowledged? `AlwaysLoadable`, `NamesAreUnique`, `AcknowledgedSurvives`, `NoGhostJobs`, and `ImplementsRecords`: refinement of `JobRecords` | 2 jobs, 1 key, 2 request bodies, 1 retained event of 2, 2 deaths, any number of write errors |
| `event_stream` | Does a page stay right? `NothingIsTakenBack`, `EventuallyCurrent` | 2 jobs, 3 events, 1 of them replayed, 2 broken connections, rejected requests, restarts or replacements; 800,000 states |
| `workspace` | Does a project stay consistent? `ResetIsWhole`, `UnitsReadPredecessors`, `AgreedUnlessTorn`, `DoneIsCurrent`, `EditionsHold`, `UnlimitedRunFinishesAll` | 2 units, 2 chunks, 1 term in the first, 2 forms, limits 0 and 1, reruns of passes 3 and 5, 1 edit, 1 rerun, 2 EPUBs, 1 death; 1.8 million states |
| `source_session` | Is a turn paid for once and accounted for? `NoDuplicateTurn`, `TurnsAccounted`, `HeldForCause` | 2 tasks, 5 turns, 3 deaths; 1.15 million states |
| `state_files` | Do the store's files keep a log? `CommittedIsReadable`, `ImplementsLog` | 2 processes, 2 tables of 2 contents, 3 states, 2 faults, 1 loss of power; 2.6 million states |
| `source_runtime` | Is there one session, wherever it lies? `NoSecondRuntime`, `RefusedForCause`, `ImplementsSession` | 2 parts, 2 app-servers, 2 turns, 3 deaths; 256,000 states |
| `preparation` | Is a plan replaced whole, and for cause? `PlanSurvives`, `SettledPlanIsWhole`, `ChoicesFitPlan`, `MadeFromSelected`, `WorkIsKept` | 3 plans over 3 directories, 2 versions of the source, 3 failures or stops, 1 death; 295,000 states |
| `server_handoff` | finding 1 | as `server_reload` |

The modules carry the bounds as constants (`MaxRestarts`, `MaxFailures`, `MaxEvents`,
`MaxDeaths`, `MaxTurns`, `MaxLog`, `PipeCap` and so on, and the sizes of the sets); nothing
else is bounded. The type invariants are proved instead of run.

Why the bounds are enough. Jobs interact only through their workspace and the write
error, so two jobs on one workspace are the contested case; a third would wait as the
second does. A limit is below, at and above the number of chunks (1, 2, 3 with limits 1
and 2, and 0). Four passes let a reload land after the first, a middle and the last pass.
A pipe of one frame blocks after one write; with two, a terminal frame and the one too
many after it fit. One death of the server leaves an orphan for the next server, and two
deaths of a registry let the second land in the recovery from the first. With one
retained event of two, an identifier survives its event. Of three plans, the second has a
directory the first has not and lacks one, and the third is the rebuild after one that was
rolled back. Symmetry is over identifiers that
are only compared; runs with liveness properties have none.

Deadlock is not checked: job identifiers, events and deaths run out, and a server ends.

**Fairness.** `FairSpec` has weak fairness for each monitor, each stopper, and the landing
of a signal that kills: they are threads in a `Popen.wait` with a timeout or a blocking
`readline`, and the kernel. Workers get none: an operation may hang. `StopEnds` holds with
that alone. `DrainEnds` and `ReloadEnds` say "if workers go on working", as formulas and
not as part of the specification, since a drain has no deadline in the code. `Server` adds
the main thread and uvicorn's drain, which has a deadline. Clients and signals have no
fairness. `EventStream` has weak fairness for the browser's own reconnection, for the
stream's loop, for what the page does with what arrived, for its timers and, while it is
visible, for its polling; a request is answered unless it is one that fails (`RefreshFails`,
at most `MaxDrops` faults of all kinds). The user has none: a page may stay hidden, and
`EventuallyCurrent` then allows it to stay behind if it does not say that it is Live.

## 5. What the models found

1. `server_handoff`: the HTTP thread runs before the handoff is resumed. A client that
   starts a job on that workspace first makes `supervisor.start` raise; `serve()` unwinds,
   stops every job and ends, and the handoff is lost.

Promises of a comment or a document that the code does not keep. Each is an invariant of its
module that no run checks: given as the only `INVARIANT` of the configuration named here, TLC
shows the trace in seconds. The properties that the runs check hold because they name these
cases, which says that nothing else breaks them.

2. `GracefulStopStopsWorkers` (`Server`, `server_exit.cfg`): `docs/server-runtime.md:109`, "Graceful shutdown stops all workers owned
   by this server." `shutdown()` calls `stop()` for one worker after the other and the first
   registry write that raises ends it (`supervisor.py:240`): the rest is not signalled,
   nothing is joined and `serve()` raises. `NoWorkerOutlivesServer` says that this is the only
   way for a worker to outlive its server.
3. `CurrentMeansAgreed` (`Approval`, `workspace.cfg`): `review.py:437`, "Written last: a crash during approval leaves freshness
   false, never false success." The choices are committed at 426, the draft follows at 431, the
   lexicon at 432 and the receipt last. A *first* approval that dies after 431 has no receipt,
   so `approval_current` takes it for a legacy one and compares the draft with the store only:
   it is current, and there is no lexicon. A later approval that dies after its commit still
   has the receipt of the one before, and is current again once the draft is put back to what
   that receipt says. `AgreedUnlessTorn` excuses both as `torn`.
4. `AcceptedIsOnlyReverted` (`SourceSession`, `source_session.cfg`): a recovered answer is saved as a job at `engine.py:709`, the
   attempt's record says that it passed only at 724-725. After a death in between, every later
   run's cleanup reads "not_run" in that record, and `durable_cleanup_outcome`
   (`source_sessions.py:753-754`) raises for ever, although
   `docs/prd-p0-p5-persistent-sessions.md:374` promises "Revert only; never regenerate Pn."
   `HeldForCause` names the case in its last disjunct.
5. `HeadIsDurable` (`StateFiles`, `state_files.cfg`): `docs/state-json-migration.md:24-25`, "A commit writes changed table
   snapshots and a commit record, fsyncs their directory entries, then atomically replaces and
   fsyncs HEAD." `_write_object` takes a file that exists (`state_files.py:161`) without
   syncing it. If a writer that failed before its own sync left it, the commit stands on a
   file that a loss of power may take. `CommittedIsReadable` excuses the case as `reused`.
6. `EveryInterruptionIsReconciled` (`SourceRuntime`, `source_runtime.cfg`): `docs/prd-p0-p5-persistent-sessions.md:217`, "A durable migration
   journal reconciles every interruption boundary without inference or a second writable
   runtime." A death between the marker's temporary file and its replacement, or in an
   `rmtree` that took the marker before the rest, leaves a directory that is refused for ever
   as "Unowned runtime migration temporary directory" (`source_runtime.py:389-390`).
   `RefusedForCause` names these points in `torn`, and the like of a new slot's temporary
   identity file (`bind_directory`, 55-60) and of a purge that took the identity file first.
7. `InterruptionIsHarmless` (`Preparation`, `preparation.cfg`): `projects.py:284-285`, "Keeping old pending rows also makes an
   interruption before book.json switches harmless to the old plan", and
   `docs/web/contract-map.md:84`, "The backend preserves the old plan on ordinary
   staging/commit failure." A stop that raises between a rename and `moved.append`
   (`projects.py:297-298`) is not undone: the rollback goes by `moved`, and `rmtree` (312)
   then removes the version that has the only copy of that directory. A stop in the rollback
   (304-313) cuts it short. `PlanSurvives` and `SettledPlanIsWhole` name both through `cut`.

Without a formula:

8. Archive (`HttpArchive` of `Server`). A workspace can be archived while a reload is between
   a job and its successor; the successor is started without the check that clients' starts
   get, and runs on an archived workspace. No property excludes it.
9. Stop (`Supervisor`). `docs/server-runtime.md:132`, "A requested stop becomes `cancelled`,
   including forced termination." A SIGINT that arrives after the worker's terminal frame
   makes `main()` send a second one (`worker.py:138-140`); the monitor takes it for a
   protocol error and a job that had just succeeded is recorded as failed
   (`supervisor.py:127`). No property claims that a stop ends as cancelled; `SuccessIsComplete`
   and `RestIsHandedOver` say what the two states mean when they are recorded.
10. Registry (left out of `JobRegistry`). A death between the creation of `.runtime` and its
   first `registry.json` leaves a directory that no later server opens (`registry.py:71`).
11. Rebuild (`StartChecks`). The setup of a workspace without `workspace.json` has no
   fingerprint, and the worker of its rebuild ends with a `KeyError` (`worker.py:32`), though
   the server's check accepts it (`tests/test_web_production.py:284`).
12. Rebuild (`NothingUnexpected`). A stage that a dead worker left is an unexpected file and
   makes every later rebuild of the workspace fail (`projects.py:244-245`, `266`).
13. Purge (`SourceSession`, `SourceRuntime`). The guard says "Uncertain/incomplete native
   submission cannot be purged.", but a slot that is held for an uncertain submission is in
   neither of the states it tests (`source_sessions.py:982-983`). No property excludes it.

## 6. What is proved

For every value of the constants, from the `ASSUME`s that name their types and say that
`None` is none of the values it stands beside. `Server` also assumes that what is left of a
permitted limit is one; `StateFiles`, that there is a table; `SourceSession`, that P0 is no
task; `Translation`, that limits are naturals;
`Preparation`, that a plan has directories of the list that is swapped, each listed once;
`SourceRuntime`, that there is a part and that the identity file is none.

| Theorem | States |
|---|---|
| `TypeCorrect` | `Supervisor`: `[]TypeOK` |
| `Exclusion` | `[]OneJobPerWorkspace`: one busy job per workspace |
| `Ownership` | `[]LiveWorkerIsOwned`: no live worker without an owner, except after a death |
| `MutualExclusion` | `[]AtMostOneWriter`: two workers never change one project, orphans included |
| `Refinement` | `Spec => Lifecycle!Spec` |
| `Completeness` | `[]SuccessIsComplete`: a job that succeeded did all it was asked for |
| `ReloadIsHandled` | `[]ReloadSignalsInstalledHandler` |
| `HandOver` | `[]RestIsHandedOver`: what a reload leaves has one owner, with what is left of the limit |
| `ServerImplementsSupervisor` | `ServerSpec => Spec`, so all of the above hold of a server with its clients |
| `WorkIsDoneOnce` | `[]ReloadedWorkIsDoneOnce`, over any number of reloads |
| `WorkIsKept` | `[]ReloadedWorkIsKept`, over any number of reloads |
| `NoneLeftBehind` | `[]NoWorkerOutlivesServer`: a worker survives only a `serve()` that a registry write error made raise |
| `RegistryTypeCorrect` | `JobRegistry`: `[]TypeOK` |
| `Recoverable` | `[]AlwaysLoadable`: the next server can load what is there |
| `NothingIsNamedTwice` | `[]NamesAreUnique`: an identifier names one event, a repeated request one job |
| `Durability` | `[]AcknowledgedSurvives`: what was shown or answered is on the disk |
| `NoGhosts` | `[]NoGhostJobs`: no active job of an earlier server in an open registry |
| `RegistryImplementsRecords` | `JobRegistry` implements `JobRecords` |
| `PageIsStable` | `NothingIsTakenBack`: what a page shows of a job does not go back, no listed job vanishes |
| `EveryRevisionIsReadable` | `[]CommittedIsReadable`: the revision `HEAD` stands on can be read |
| `FilesImplementTheLog` | `StateFiles` implements `StateLog` |
| `NobodyWorksOnAHalfReset` | `[]ResetIsWhole` |
| `EveryUnitReadItsPredecessors` | `[]UnitsReadPredecessors`: a unit was analysed with the findings of those before it |
| `ApprovalsAgree` | `[]AgreedUnlessTorn`: draft, store and lexicon agree when approval is current |
| `EditionsStay` | `[]EditionsHold`: a recorded edition can be read as it was recorded |
| `DoneMeansCurrent` | `[]DoneIsCurrent`: a done chunk rests on the forms and drafts of now and on an end of the earlier text of now |
| `UnlimitedRunFinishes` | `UnlimitedRunFinishesAll`: a run without a limit leaves every chunk done |
| `TypeCorrect`, `ChoicesFit`, `MadeFromSource` | `Preparation`: `[]TypeOK`, `[]ChoicesFitPlan`, `[]MadeFromSelected` |
| `WorkKept` | `WorkIsKept`: a plan with results is not replaced |
| `PlanKept`, `SettledWhole` | `[]PlanSurvives` and `[]SettledPlanIsWhole`: a plan outlives failed, stopped and interrupted rebuilds, but for a rename without its record |
| `ManifestIsTyped` | `SourceSession`: `[]TypeOK` |
| `NoTurnIsPaidForTwice` | `[]NoDuplicateTurn` |
| `EveryTurnIsAccounted` | `[]TurnsAccounted` |
| `RunsAreHeldForCause` | `[]HeldForCause` |
| `OneRuntime` | `[]NoSecondRuntime`: one copy of the native state in force |
| `RefusalsHaveCause` | `[]RefusedForCause`: no check of a migration ever fails, a refusal has a reason |
| `RuntimeImplementsSession` | `SourceRuntime` implements `NativeSession` |

**Supervisor.** `ServerProofs` proves `TypeOK` first, one lemma per actor, one step per
action. The inductive invariant `IInv` adds to `OneJobPerWorkspace` and `LiveWorkerIsOwned`:

* `ThreadsAgree`: what a monitor's position says about its job. A monitor that reads or
  reaps has an owned, active job; one that joins has an exited worker and a final state; a
  live worker's job is active, or abandoned by a restart. Without it `MonitorRelease` could
  disown a job whose worker is alive, and `MonitorFinish` could overwrite a final state.
* `WritersHoldLock`: a running worker is the recorded holder of its project's lock. Without
  it nothing relates an orphan to the worker of the next server; `AtMostOneWriter` follows
  at once from it.

`Refinement` uses the same invariant: each action maps to `Reserve`, `Interrupt`, `Finish`,
`Release` or `Restart` of `JobLifecycle`, or to a stutter.

What a final state means rests on a second invariant, `WorkInv`, over the first. A monitor
sees only frames and an exit code, so it says of each job, at every point of its life, what
these tell of the worker. A worker that ended with a result has done what it was asked for, and
one that ended with a reload has something left of its limit (`WorkerSpeaks`); a frame says
what the worker did, and a cancellation that somebody, or a frame nobody could read, has
provoked it (`FramesTell`, `StopsAgree`); the final state agrees with how the process ended
(`EndsAgree`); and a record of work left over has exactly what the limit leaves of the finished
chunks (`RestsFit`). `RestIsLeft` speaks of one server process, because `reloadSpecs` is its
memory; `ReloadedWorkIsKept` follows the records beyond it.

**Server.** Each action of `Server` is one of `Supervisor`'s or leaves `vars` unchanged, the
handoff's starts included (this is where the types of handed-over limits are needed). Its
invariant for the handoff, `ServerInv`: a job that is handed over is in a final state, with a
limit that `start` accepts; it is in one of `reloadSpecs`, `handoff` and `resuming` only; and
jobs that have a successor are over and in none of them. `LifeInv` adds where the records of a
handoff can be at each phase of `serve()` (`HandoffPlaced`), that no job is started once
`serve()` unwinds, that once `shutdown()` is past its loop no active job is without its
stopper, and that a server that leaves has no live worker unless `shutdown()` has raised
(`LeavingIsLast`). The last two come from what no step of a closing server can do (`Bears`):
give a job a worker, make it active again, or finish its stopper before its worker. With them
a record is dropped only when the server is stopped or its start raised, and no worker is left.

**Registry.** `JobRegistryProofs` has one invariant, `RInv`, for all its theorems. The
properties speak of the disk, and the steps compute the disk from the memory, so what has
to be carried along is how the two relate at each point of a write:

* `DiskInv`: the disk can be loaded (`AlwaysLoadable`), and no record's last event is above
  the manifest's `cursor_floor`.
* `EventsInv`: an event that may have been shown is not later than its job's record, so its
  identifier is not above the floor either, although the event itself may have been
  evicted. New identifiers are above the cursor, hence unused.
* `AnswersInv`: the receipt that an answer was read from is on the disk.
* `MemoryInv`: while nothing is being committed and nothing has failed, memory *is* the
  manifest and the cursor is the floor. After a failure the manifest may be ahead, and the
  registry refuses to write; the refinement fails without that refusal.
* `WriteInv`: a record in flight is the next version of its job (`Follows`: same order and
  receipt, same or next sequence number, no return from a final state), its file exists once
  `WriteRecord` is done, and at `"commit"` the manifest is ahead of memory by exactly it.

`NamesAreUnique` and `AcknowledgedSurvives` follow from the first three. The refinement uses
the last two: the replacement of the manifest is the commit, `_accept` the step that learns of
it, and a failed replacement, in or out of place, is the abstract failure.

**Event stream.** The invariant says that everything under way (the buffer, the wire, the
answers, what the page has put off) is faithful to the record of the job it speaks of, and
that nothing shown is ahead of the record. A step of the page then shows either something
newer or a start-over.

**State store.** Per process, what its connection is based on and which files of a commit in
progress are written; what was told to writers is no further than any `HEAD` a loss of power
may leave, and these no further than `HEAD`; a `HEAD` implies synced directories; and the
revision `HEAD` stands on is whole on the disk. The refinement maps each step to one of
`StateLog` or to a stutter.

**Project.** `WInv` has a part per module. Units: a receipt implies a merged memory, that a
job row, that the files, and those the receipts of all units before, unless a reset is
pending, in which case the position of the reset says which of these are gone. Approval:
unless torn, an approval that counts as current has the same forms in receipt, terms and
lexicon. Editions: the files named by the record exist and carry numbers that `NewFile` does
not give out again; its minimum is least because `<` is well-founded.

**Translation.** `DoneIsCurrent` is not inductive: the transactions that mark chunks stale look
for them by other traces than the inputs themselves. `TInv` therefore says of a done chunk
(`IsCurrent`) that its text was made from the inputs its last pass would be given now, but
that the text before it may have grown in front of what was shown of it (`ContextHolds`), that
there is a text before every chunk before it, and that each transaction can find it: it
recorded the terms it mentions (`deps`, which an approval goes by), its second pass is valid and
saw the same context (which the invalidation of readers goes by), and the results after each
selected one exist (which a rerun goes by). Of a run it says that the passes behind it on its
chunk are selected with the inputs of now (`PassDone`), and that it never has a chunk
before it without a text, nor, without a limit, a chunk outside its list that is not done
(`TodoInv`): so a chunk that finishes finds its predecessors finished, and an unlimited run ends
with nothing left. Whatever was approved, revised or rerun in between, each step either keeps
the inputs of a done chunk or makes it stale.

**Preparation.** The invariant `IInv` says what the worker knows at each point (which checks it
made under the lock, what a rebuild finds in the workspace, in the stage and in its version).
`ChoicesFitPlan` needs the order of two writes each way: choices are reset before the new plan
is installed and put back after the old one is. `SwapInv` is about the swap: the recorded
renames are a stack in which the old directory of a part was moved before the new one took its
place (`Stack`); with the rename not yet recorded they determine where every directory of the
new plan is, and which ones of the workspace were put aside (`Placed`); what the swap has found
there is the old plan, unless an earlier rollback was cut short, and then what is missing of
the old plan is in an earlier version (`Restorable`); and the parts before the current one are
through, those after it untouched (`Progress`). So the rollback, popping the stack, never
renames over a directory and ends in the workspace the swap began with (`Settled`). All this
holds until a rename is left without its record; `VersionsAreNew` is what keeps a new version
from taking the place of an earlier one.

**Source session.** The invariant is a ledger. The attempts' records, the native history and
the job rows agree on what became of each turn; the manifest names whatever lies above P0; an
active turn is missing from the history only if it never got there or if it was reverted
after its outcome was durable; and what the run knows at each place in the code follows from
these.

**Source runtime.** A migration takes the disk through phases that the manifest tells apart:
no manifest, unopened, opened, switched, settled. For each phase the invariant says which
directories there are and what they hold (the source as the journal has it, the copy as it
was sealed), what the operation knows at its place, and what a death left that a later
operation cannot tell from foreign files. The switch is a stutter of `NativeSession` because
the sealed copy has the entries of the journal's source.

Only model-checked: liveness (`StopEnds`, `DrainEnds`, `StopEndsServer`, `ReloadEnds`,
`EventuallyCurrent`), which is out of the prover's reach. Every invariant and action property
of the passing runs is proved.

## 7. Not modelled

The plan has what is to come. Beyond it: the content of prompts, results and EPUB files,
schemas and their validation, the parsing of books (a plan is a set of directories), accounting, providers and their
transports (to these models something that completes, raises or hangs), read-only queries
and the rest of the user interface, one-time migrations but for the first commit of a store,
settings, the command line, the experiments, logging and wording. This is most of the
repository's lines and little of its state: the code that decides what is durable, who may
write and what is stale is in the modules above.
