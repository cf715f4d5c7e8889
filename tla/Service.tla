------------------------------ MODULE Service ------------------------------
(***************************************************************************)
(* The life of one service process and of the database file it leaves to   *)
(* the next: configuration, connection, migrations, wiring, the two        *)
(* listeners, the periodic loops, and the way down again.  What an RPC, a  *)
(* REST request or a background task does is modelled elsewhere; here each *)
(* is a worker that needs the connection until it ends.                    *)
(***************************************************************************)
EXTENDS Naturals, FiniteSets

CONSTANTS
  Rpcs,         \* RPCs of one life of the process
  Rests,        \* REST requests of one life of the process
  Loops,        \* sweeper, report pruner, audit-log pruner
  Limit,        \* grpc.max_in_flight_rpcs; 0 disables the limiter
  LastVersion,  \* versions 1 .. LastVersion of the packaged migrations
  MaxStarts     \* bound: starts of the process

Versions == 1 .. LastVersion
Tasks == Rpcs \union Loops   \* an assembly task is named by its FinalizeRun

ASSUME LimitAssumption == Limit \in Nat
ASSUME VersionsAssumption == LastVersion \in Nat /\ MaxStarts \in Nat
ASSUME WorkersAssumption ==
  Rpcs \intersect Loops = {} /\ IsFiniteSet(Rpcs)

\* The steps of _assemble_service that read a file, probe a directory, check
\* the configuration or write to the database, in their order.
Assembly == <<"vocabulary", "manifest", "reports", "overrides", "handlers",
              "archive", "admin">>

Phase == {"down", "config", "open", "migrate", "assemble", "grpc", "rest",
          "loops", "running", "stopping", "shutdown", "draining", "cancelling",
          "closing", "closed", "exited"}

VARIABLES
  \* the database file
  applied,        \* how often each migration's statements took effect
  recorded,       \* versions in _migrations
  \* the process
  phase,
  starts,
  conn,           \* the aiosqlite connection: "none", "open", "closed"
  staged,         \* versions whose statements ran in the open transaction
  assembled,      \* steps of Assembly that are done
  exitCode,
  grpc,           \* the listeners: "none", "serving", "stopping", "ended"
  rest,
  shutdownEvent,
  stopEvent,      \* the loops' _stop_event
  shuttingDown,   \* the scheduler's flag
  inFlight,       \* the limiter's counter
  rpc,            \* the workers
  request,
  task,
  drained,        \* await_all's snapshot
  \* history
  unguarded,      \* a PRAGMA failed, outside the guard of build_service
  abrupt,         \* the finally clause ran with the listeners up
  restDied,       \* uvicorn's serve task ended by itself
  refused         \* FinalizeRun calls whose task the scheduler refused

file == <<applied, recorded>>
startup == <<starts, staged, assembled, exitCode>>
listeners == <<grpc, rest, shutdownEvent>>
background == <<stopEvent, shuttingDown, task, drained>>
workers == <<inFlight, rpc, request>>
history == <<unguarded, abrupt, restDied, refused>>
vars == <<file, phase, conn, startup, listeners, background, workers, history>>

RpcState == {"new", "busy", "committed", "cancelled", "rejected", "done"}
TaskState == {"none", "busy", "idle", "cancelled", "done"}

TypeOK ==
  /\ applied \in [Versions -> Nat] /\ recorded \subseteq Versions
  /\ phase \in Phase /\ starts \in Nat
  /\ conn \in {"none", "open", "closed"}
  /\ staged \subseteq Versions
  /\ assembled \in 0 .. 7 /\ exitCode \in 0 .. 2
  /\ grpc \in {"none", "serving", "stopping", "ended"}
  /\ rest \in {"none", "serving", "stopping", "ended"}
  /\ shutdownEvent \in BOOLEAN /\ stopEvent \in BOOLEAN /\ shuttingDown \in BOOLEAN
  /\ inFlight \in Nat
  /\ rpc \in [Rpcs -> RpcState]
  /\ request \in [Rests -> {"new", "busy", "done"}]
  /\ task \in [Tasks -> TaskState]
  /\ drained \subseteq Tasks
  /\ unguarded \in BOOLEAN /\ abrupt \in BOOLEAN /\ restDied \in BOOLEAN
  /\ refused \subseteq Rpcs

Init ==
  /\ applied = [v \in Versions |-> 0] /\ recorded = {}
  /\ phase = "down" /\ starts = 0 /\ conn = "none"
  /\ staged = {} /\ assembled = 0 /\ exitCode = 0
  /\ grpc = "none" /\ rest = "none" /\ shutdownEvent = FALSE
  /\ stopEvent = FALSE /\ shuttingDown = FALSE /\ inFlight = 0
  /\ rpc = [r \in Rpcs |-> "new"] /\ request = [q \in Rests |-> "new"]
  /\ task = [t \in Tasks |-> "none"] /\ drained = {}
  /\ unguarded = FALSE /\ abrupt = FALSE /\ restDied = FALSE /\ refused = {}

\* A process without listeners, tasks and connection.
Fresh ==
  /\ conn' = "none" /\ staged' = {} /\ assembled' = 0 /\ exitCode' = 0
  /\ grpc' = "none" /\ rest' = "none" /\ shutdownEvent' = FALSE
  /\ stopEvent' = FALSE /\ shuttingDown' = FALSE /\ inFlight' = 0
  /\ rpc' = [r \in Rpcs |-> "new"] /\ request' = [q \in Rests |-> "new"]
  /\ task' = [t \in Tasks |-> "none"] /\ drained' = {}
  /\ unguarded' = FALSE /\ abrupt' = FALSE /\ restDied' = FALSE /\ refused' = {}

-----------------------------------------------------------------------------
(* Startup.                                                                *)

\* The supervisor starts the process; main() resolves the path.
Start ==
  /\ phase \in {"down", "exited"} /\ starts < MaxStarts
  /\ phase' = "config" /\ starts' = starts + 1
  /\ Fresh
  /\ UNCHANGED file

\* The process is killed: the transaction that is open is rolled back by the
\* next open of the file.
Crash ==
  /\ phase \notin {"down", "exited"}
  /\ phase' = "down"
  /\ Fresh
  /\ UNCHANGED <<file, starts>>

Exit(code) == phase' = "exited" /\ exitCode' = code

\* load_config: a bad file ends the process with code 2.
LoadConfig ==
  /\ phase = "config"
  /\ \/ phase' = "open" /\ UNCHANGED exitCode
     \/ Exit(2)
  /\ UNCHANGED <<file, conn, starts, staged, assembled, listeners, background,
                 workers, history>>

\* open_connection: the file may not open; a PRAGMA may fail once it is open.
OpenConnection ==
  /\ phase = "open"
  /\ \/ conn' = "open" /\ phase' = "migrate" /\ UNCHANGED <<exitCode, unguarded>>
     \/ Exit(1) /\ UNCHANGED <<conn, unguarded>>
     \/ conn' = "open" /\ unguarded' = TRUE /\ Exit(1)
  /\ UNCHANGED <<file, starts, staged, assembled, listeners, background,
                 workers, abrupt, restDied, refused>>

\* The finally clause of build_service.
AssemblyFails ==
  /\ conn' = "closed"
  /\ Exit(1)

\* The loop of apply_migrations: the lowest version without a row is next.
Pending(v) == v \notin recorded /\ \A w \in 1 .. (v - 1) : w \in recorded

\* Mutant of RunScript: a bare executescript commits every statement.
RunScriptAutocommit ==
  /\ phase = "migrate"
  /\ \E v \in Versions :
       /\ Pending(v) /\ v \notin staged
       /\ \/ /\ staged' = {v} /\ applied' = [applied EXCEPT ![v] = @ + 1]
             /\ UNCHANGED <<conn, phase, exitCode>>
          \/ staged' = {} /\ AssemblyFails /\ UNCHANGED applied
  /\ UNCHANGED <<recorded, starts, assembled, listeners, background, workers,
                 history>>

\* _apply_one up to COMMIT: BEGIN and the statements of the script.  A
\* statement that fails rolls the transaction back.
RunScript ==
  /\ phase = "migrate"
  /\ \E v \in Versions :
       /\ Pending(v) /\ v \notin staged
       /\ \/ staged' = {v} /\ UNCHANGED <<conn, phase, exitCode>>
          \/ staged' = {} /\ AssemblyFails
  /\ UNCHANGED <<file, starts, assembled, listeners, background, workers, history>>

\* The bookkeeping insert and COMMIT.
CommitScript ==
  /\ phase = "migrate" /\ staged # {}
  /\ \/ /\ applied' = [v \in Versions |->
                         IF v \in staged THEN applied[v] + 1 ELSE applied[v]]
        /\ recorded' = recorded \union staged
        /\ UNCHANGED <<conn, phase, exitCode>>
     \/ AssemblyFails /\ UNCHANGED file
  /\ staged' = {}
  /\ UNCHANGED <<starts, assembled, listeners, background, workers, history>>

MigrationsDone ==
  /\ phase = "migrate" /\ staged = {}
  /\ recorded = Versions
  /\ phase' = "assemble"
  /\ UNCHANGED <<file, conn, startup, listeners, background, workers, history>>

\* The next step of _assemble_service succeeds, or ends the startup.
AssembleStep ==
  /\ phase = "assemble" /\ assembled < 7
  /\ \/ assembled' = assembled + 1 /\ UNCHANGED <<conn, phase, exitCode>>
     \/ AssemblyFails /\ UNCHANGED assembled
  /\ UNCHANGED <<file, starts, staged, listeners, background, workers, history>>

\* build_service returns the wired Service.
ServiceBuilt ==
  /\ phase = "assemble" /\ assembled = 7
  /\ phase' = "grpc"
  /\ UNCHANGED <<file, conn, startup, listeners, background, workers, history>>

\* _build_grpc_server; a port that cannot be bound ends in shutdown_service.
StartGrpc ==
  /\ phase = "grpc"
  /\ \/ grpc' = "serving" /\ phase' = "rest" /\ UNCHANGED exitCode
     \/ phase' = "shutdown" /\ exitCode' = 1 /\ UNCHANGED grpc
  /\ UNCHANGED <<file, conn, starts, staged, assembled, rest, shutdownEvent,
                 background, workers, history>>

\* _build_uvicorn_server and the serve task.  create_app may raise.
StartRest ==
  /\ phase = "rest"
  /\ \/ rest' = "serving" /\ phase' = "loops" /\ UNCHANGED <<exitCode, abrupt>>
     \/ phase' = "shutdown" /\ exitCode' = 1 /\ abrupt' = TRUE /\ UNCHANGED rest
  /\ UNCHANGED <<file, conn, starts, staged, assembled, grpc, shutdownEvent,
                 background, workers, unguarded, restDied, refused>>

\* SweeperLoop.start and the starts of the two pruner loops.  No await since
\* the serve task was made: it has not run yet.
StartLoops ==
  /\ phase = "loops"
  /\ phase' = "running"
  /\ task' = [t \in Tasks |-> IF t \in Loops THEN "busy" ELSE task[t]]
  /\ UNCHANGED <<file, conn, startup, listeners, stopEvent, shuttingDown, drained,
                 workers, history>>

-----------------------------------------------------------------------------
(* Workers.                                                                *)

Counted == IF Limit > 0 THEN 1 ELSE 0

\* ConcurrencyLimitInterceptor: compare and count without an await between.
RpcArrives(r) ==
  /\ grpc = "serving" /\ rpc[r] = "new"
  /\ IF Limit > 0 /\ inFlight >= Limit
     THEN rpc' = [rpc EXCEPT ![r] = "rejected"] /\ UNCHANGED inFlight
     ELSE rpc' = [rpc EXCEPT ![r] = "busy"] /\ inFlight' = inFlight + Counted
  /\ UNCHANGED <<file, phase, conn, startup, listeners, background, request, history>>

\* FinalizeRun has committed and is about to schedule the assembly.
RpcCommits(r) ==
  /\ rpc[r] = "busy" /\ conn = "open"
  /\ rpc' = [rpc EXCEPT ![r] = "committed"]
  /\ UNCHANGED <<file, phase, conn, startup, listeners, background, inFlight,
                 request, history>>

\* The finally clause of the interceptor.
Release(r) ==
  /\ rpc' = [rpc EXCEPT ![r] = "done"]
  /\ inFlight' = inFlight - Counted

\* AsyncioBackgroundTaskScheduler.schedule and the end of FinalizeRun.
RpcSchedules(r) ==
  /\ rpc[r] = "committed"
  /\ Release(r)
  /\ IF shuttingDown
     THEN refused' = refused \union {r} /\ UNCHANGED task
     ELSE task' = [task EXCEPT ![r] = "busy"] /\ UNCHANGED refused
  /\ UNCHANGED <<file, phase, conn, startup, listeners, stopEvent, shuttingDown,
                 drained, request, unguarded, abrupt, restDied>>

\* Mutant of RpcEnds: the permit of an RPC that was cancelled is not returned.
RpcEndsKeepsPermit(r) ==
  /\ rpc[r] \in {"busy", "cancelled"}
  /\ rpc' = [rpc EXCEPT ![r] = "done"]
  /\ inFlight' = IF rpc[r] = "cancelled" THEN inFlight ELSE inFlight - Counted
  /\ UNCHANGED <<file, phase, conn, startup, listeners, background, request, history>>

\* Any other RPC answers, fails, or has unwound after its cancellation.
RpcEnds(r) ==
  /\ rpc[r] \in {"busy", "cancelled"}
  /\ Release(r)
  /\ UNCHANGED <<file, phase, conn, startup, listeners, background, request, history>>

RequestArrives(q) ==
  /\ rest = "serving" /\ phase # "loops" /\ request[q] = "new"
  /\ request' = [request EXCEPT ![q] = "busy"]
  /\ UNCHANGED <<file, phase, conn, startup, listeners, background, inFlight, rpc,
                 history>>

RequestEnds(q) ==
  /\ request[q] = "busy"
  /\ request' = [request EXCEPT ![q] = "done"]
  /\ UNCHANGED <<file, phase, conn, startup, listeners, background, inFlight, rpc,
                 history>>

\* _on_task_done: an assembly ends, or a task has unwound after its cancellation.
TaskEnds(t) ==
  /\ \/ task[t] = "busy" /\ t \notin Loops
     \/ task[t] = "cancelled"
  /\ task' = [task EXCEPT ![t] = "done"]
  /\ UNCHANGED <<file, phase, conn, startup, listeners, stopEvent, shuttingDown,
                 drained, workers, history>>

\* The loops' _run: a tick that always returns, then a wait for the interval or
\* for the stop event.
LoopRuns(t) ==
  /\ t \in Loops
  /\ \/ /\ task[t] = "busy"
        /\ task' = [task EXCEPT ![t] = IF stopEvent THEN "done" ELSE "idle"]
     \/ /\ task[t] = "idle"
        /\ task' = [task EXCEPT ![t] = IF stopEvent THEN "done" ELSE "busy"]
  /\ UNCHANGED <<file, phase, conn, startup, listeners, stopEvent, shuttingDown,
                 drained, workers, history>>

-----------------------------------------------------------------------------
(* The way down.                                                           *)

\* SIGTERM or SIGINT.
Signal ==
  /\ phase \notin {"down", "config", "exited"} /\ ~shutdownEvent
  /\ shutdownEvent' = TRUE
  /\ UNCHANGED <<file, phase, conn, startup, grpc, rest, background, workers, history>>

\* Mutant of RestDies: the serve task has no done-callback.
RestDiesUnnoticed ==
  /\ phase = "running" /\ rest = "serving"
  /\ rest' = "ended" /\ restDied' = TRUE
  /\ UNCHANGED <<file, phase, conn, startup, grpc, shutdownEvent, background,
                 workers, unguarded, abrupt, refused>>

\* uvicorn's serve task ends by itself; _on_rest_task_done asks for shutdown.
RestDies ==
  /\ phase = "running" /\ rest = "serving"
  /\ rest' = "ended" /\ shutdownEvent' = TRUE /\ restDied' = TRUE
  /\ UNCHANGED <<file, phase, conn, startup, grpc, background, workers, unguarded,
                 abrupt, refused>>

\* _run is cancelled at its wait: straight to the finally clause.
RunCancelled ==
  /\ phase = "running" /\ ~shutdownEvent
  /\ phase' = "shutdown" /\ exitCode' = 1 /\ abrupt' = TRUE
  /\ UNCHANGED <<file, conn, starts, staged, assembled, listeners, background,
                 workers, unguarded, restDied, refused>>

\* The wait returns: should_exit and grpc_server.stop(grace).
StopListeners ==
  /\ phase = "running" /\ shutdownEvent
  /\ phase' = "stopping" /\ grpc' = "stopping"
  /\ rest' = IF rest = "serving" THEN "stopping" ELSE rest
  /\ UNCHANGED <<file, conn, startup, shutdownEvent, background, workers, history>>

Serving(r) == rpc[r] \in {"busy", "committed"}

\* stop(grace) returns once its calls are over; after the grace period it
\* cancels what is left and does not wait for the handlers to unwind.
GrpcStops ==
  /\ phase = "stopping" /\ grpc = "stopping"
  /\ grpc' = "ended"
  /\ rpc' = [r \in Rpcs |-> IF Serving(r) THEN "cancelled" ELSE rpc[r]]
  /\ UNCHANGED <<file, phase, conn, startup, rest, shutdownEvent, background,
                 inFlight, request, history>>

\* uvicorn waits for its requests, without a limit.
RestStops ==
  /\ phase = "stopping" /\ rest = "stopping"
  /\ \A q \in Rests : request[q] # "busy"
  /\ rest' = "ended"
  /\ UNCHANGED <<file, phase, conn, startup, grpc, shutdownEvent, background,
                 workers, history>>

\* The gather over both.
ListenersStopped ==
  /\ phase = "stopping" /\ grpc = "ended" /\ rest = "ended"
  /\ phase' = "shutdown"
  /\ UNCHANGED <<file, conn, startup, listeners, background, workers, history>>

\* The tasks of the scheduler's set.
Active == {t \in Tasks : task[t] \in {"busy", "idle", "cancelled"}}

\* Mutant of BeginShutdown: the tasks are not waited for.
BeginShutdownForgets ==
  /\ phase = "shutdown"
  /\ stopEvent' = TRUE /\ shuttingDown' = TRUE
  /\ drained' = {}
  /\ phase' = "draining"
  /\ UNCHANGED <<file, conn, startup, listeners, task, workers, history>>

\* shutdown_service up to the wait of await_all.
BeginShutdown ==
  /\ phase = "shutdown"
  /\ stopEvent' = TRUE /\ shuttingDown' = TRUE
  /\ drained' = Active
  /\ phase' = "draining"
  /\ UNCHANGED <<file, conn, startup, listeners, task, workers, history>>

\* asyncio.wait over the snapshot: all done, or the timeout and the cancels.
Drain ==
  /\ phase = "draining"
  /\ \/ /\ drained \intersect Active = {}
        /\ phase' = "closing" /\ UNCHANGED task
     \/ /\ drained \intersect Active # {}
        /\ phase' = "cancelling"
        /\ task' = [t \in Tasks |->
                      IF t \in drained \intersect Active THEN "cancelled" ELSE task[t]]
  /\ UNCHANGED <<file, conn, startup, listeners, stopEvent, shuttingDown, drained,
                 workers, history>>

\* The gather over the cancelled tasks.
CancelledAreDone ==
  /\ phase = "cancelling" /\ drained \intersect Active = {}
  /\ phase' = "closing"
  /\ UNCHANGED <<file, conn, startup, listeners, background, workers, history>>

\* uow_factory.close
CloseConnection ==
  /\ phase = "closing"
  /\ conn' = "closed"
  /\ phase' = "closed"
  /\ UNCHANGED <<file, startup, listeners, background, workers, history>>

\* The end of main(): what is left of the workers goes with the event loop.
ProcessExits ==
  /\ phase = "closed"
  /\ phase' = "exited"
  /\ UNCHANGED <<file, conn, startup, listeners, background, workers, history>>

Down ==
  \/ StopListeners \/ GrpcStops \/ RestStops \/ ListenersStopped
  \/ BeginShutdown \/ Drain \/ CancelledAreDone \/ CloseConnection \/ ProcessExits
Up ==
  \/ LoadConfig \/ OpenConnection \/ RunScript \/ CommitScript \/ MigrationsDone
  \/ AssembleStep \/ ServiceBuilt \/ StartGrpc \/ StartRest \/ StartLoops

Work ==
  \/ \E r \in Rpcs : RpcArrives(r) \/ RpcCommits(r) \/ RpcSchedules(r) \/ RpcEnds(r)
  \/ \E q \in Rests : RequestArrives(q) \/ RequestEnds(q)
  \/ \E t \in Tasks : TaskEnds(t) \/ LoopRuns(t)

Next ==
  \/ Start \/ Crash \/ Up \/ Down
  \/ Signal \/ RestDies \/ RunCancelled
  \/ phase # "exited" /\ Work

Spec == Init /\ [][Next]_vars

\* The event loop runs what is ready, and a cancelled task unwinds.  Nothing
\* makes an RPC, a REST request or an assembly end by itself.
FairSpec ==
  /\ Spec
  /\ WF_vars(Up) /\ WF_vars(Down)
  /\ \A t \in Tasks : WF_vars(task[t] = "cancelled" /\ TaskEnds(t))

-----------------------------------------------------------------------------
(* Properties.                                                             *)

\* L3-PERS-036, L3-PERS-004, L2-AUTH-011: across failures and kills at any
\* point, a migration's statements took effect exactly when it has its row,
\* never twice, in order; and whatever is reached from outside runs on the
\* complete schema of a service that is wholly assembled.
MigrationsExactlyOnce ==
  /\ \A v \in Versions : applied[v] = IF v \in recorded THEN 1 ELSE 0
  /\ \A v \in recorded : 1 .. v \subseteq recorded
  /\ (\E r \in Rpcs : rpc[r] # "new") \/ (\E q \in Rests : request[q] # "new")
       => recorded = Versions /\ assembled = 7

\* L3-API-020: the counter is the number of RPCs that have a permit, whichever
\* way they end, and never more than the limit.
PermitsConserved ==
  Limit > 0 =>
    /\ inFlight = Cardinality({r \in Rpcs : rpc[r] \in {"busy", "committed", "cancelled"}})
    /\ inFlight <= Limit

\* L3-PERS-030, L3-PERS-037, L2-RUN-013: nothing that could still write is
\* alive when the connection closes (a cancelled RPC only rolls back), and a
\* FinalizeRun that has committed READY finds a scheduler that takes its task,
\* unless the listeners were never stopped or uvicorn died under its requests.
\* A process that ends by itself has closed its connection, wherever the
\* startup failed, except for a PRAGMA that fails inside open_connection, which
\* the guard of build_service does not reach.
ClosedWhenQuiet ==
  /\ conn = "closed" =>
       /\ Active = {}
       /\ abrupt \/ \A r \in Rpcs : ~Serving(r)
       /\ abrupt \/ restDied \/ \A q \in Rests : request[q] # "busy"
  /\ refused # {} => abrupt
  /\ phase = "exited" => conn # "open" \/ unguarded

\* L3-DEP-019 and L2-DEP-006: a shutdown, asked for by a signal or by the death
\* of the REST listener, ends, whatever RPCs and background tasks do, if no
\* REST request stays for ever.
ShutdownCompletes ==
  (\A q \in Rests : []<>(request[q] # "busy"))
    => ((shutdownEvent \/ restDied) ~> phase \in {"exited", "down"})
=============================================================================
