---------------------------- MODULE ServiceProofs ----------------------------
(***************************************************************************)
(* The startup and shutdown of the service, for any number of migrations,  *)
(* RPCs, requests and loops and any limit on RPCs: scripts take effect     *)
(* once, permits are conserved, and the connection closes last.            *)
(***************************************************************************)
EXTENDS Service, FiniteSetTheorems, TLAPS

Building == {"down", "config", "open", "migrate", "assemble", "grpc"}
Built == {"grpc", "rest", "loops", "running", "stopping", "shutdown",
          "draining", "cancelling", "closing", "closed"}
Leaving == {"shutdown", "draining", "cancelling", "closing", "closed"}

IsActive(t) == task[t] \in {"busy", "idle", "cancelled"}
Idle == \A t \in Tasks : ~IsActive(t)
NoneServing == \A r \in Rpcs : ~Serving(r)
NoneBusy == \A q \in Rests : request[q] # "busy"

\* A script that ran and is not committed is the next one, and a script ran
\* exactly when it is recorded.
ScriptsInv ==
  /\ \A v \in staged : Pending(v)
  /\ \A v, w \in staged : v = w
  /\ staged # {} => phase = "migrate"
  /\ \A v \in Versions : applied[v] = IF v \in recorded THEN 1 ELSE 0
  /\ \A v \in recorded : \A w \in 1 .. v : w \in recorded

\* Nothing is at work before the service is built, and then it is complete.
BuiltInv ==
  /\ phase \in Building =>
       /\ grpc = "none" /\ rest = "none" /\ ~shuttingDown /\ refused = {}
       /\ \A r \in Rpcs : rpc[r] = "new"
       /\ \A q \in Rests : request[q] = "new"
       /\ \A t \in Tasks : task[t] = "none"
  /\ phase \in Built \union {"assemble"} => \A v \in Versions : v \in recorded
  /\ phase \in Built => assembled = 7
  /\ \/ (\A v \in Versions : v \in recorded) /\ assembled = 7
     \/ /\ \A r \in Rpcs : rpc[r] = "new"
        /\ \A q \in Rests : request[q] = "new"

\* What is left of the listeners and of the tasks at each step of the way down.
LeavingInv ==
  /\ grpc \in {"none", "ended"} => NoneServing
  /\ rest \in {"none", "ended"} => restDied \/ NoneBusy
  /\ phase \in Leaving =>
       abrupt \/ (grpc \in {"none", "ended"} /\ rest \in {"none", "ended"})
  /\ shuttingDown => phase \in (Leaving \ {"shutdown"}) \union {"exited"}
  /\ phase \in Leaving \ {"shutdown"} => shuttingDown
  /\ phase \in {"draining", "cancelling"} => \A t \in Tasks : IsActive(t) => t \in drained
  /\ phase \in {"closing", "closed"} => Idle
  /\ refused # {} => abrupt

\* Where the connection is open.
ConnectionInv ==
  /\ phase \in {"config", "open"} => conn = "none"
  /\ phase = "closed" => conn = "closed"
  /\ phase = "exited" => conn # "open" \/ unguarded
  /\ conn = "closed" =>
       /\ phase \in {"closed", "exited"}
       /\ Idle
       /\ abrupt \/ NoneServing
       /\ abrupt \/ restDied \/ NoneBusy

\* Those that have a permit, and their count.
Held == {"busy", "committed", "cancelled"}
Holders == {r \in Rpcs : rpc[r] \in Held}
PermitsInv ==
  Limit > 0 => inFlight = Cardinality(Holders) /\ inFlight <= Limit


\* Scripts, listeners, tasks and connection in their order.
Order == ScriptsInv /\ BuiltInv /\ LeavingInv /\ ConnectionInv

IInv == TypeOK /\ PermitsInv /\ Order

\* The flags, apart from the rest: the provers take them one kind at a time.
Flags ==
  /\ shutdownEvent \in BOOLEAN /\ stopEvent \in BOOLEAN /\ shuttingDown \in BOOLEAN
  /\ unguarded \in BOOLEAN /\ abrupt \in BOOLEAN /\ restDied \in BOOLEAN

-----------------------------------------------------------------------------
(* Permits.                                                                *)

\* Whoever holds a permit is counted.
LEMMA PermitHeld ==
  ASSUME TypeOK, PermitsInv, NEW r \in Rpcs, rpc[r] \in Held
  PROVE  inFlight - Counted \in Nat
<1>1. IsFiniteSet(Holders)
  BY WorkersAssumption, FS_Subset DEF Holders
<1>2. r \in Holders
  BY DEF Holders
<1>3. Cardinality(Holders) \in Nat /\ Cardinality(Holders) # 0
  BY <1>1, <1>2, FS_CardinalityType, FS_EmptySet
<1> QED
  BY <1>3, LimitAssumption DEF PermitsInv, Counted, TypeOK

\* An RPC that gets its permit, or gives it back, changes the count by one.
LEMMA PermitTaken ==
  ASSUME TypeOK, PermitsInv, NEW r \in Rpcs, RpcArrives(r)
  PROVE  PermitsInv'
<1> USE LimitAssumption DEF PermitsInv, TypeOK, Counted
<1>1. IsFiniteSet(Holders)
  BY WorkersAssumption, FS_Subset DEF Holders
<1>2. CASE Limit > 0 /\ inFlight >= Limit
  <2>1. Holders' = Holders
    BY <1>2 DEF RpcArrives, Holders, Held
  <2> QED
    BY <1>2, <2>1 DEF RpcArrives
<1>3. CASE Limit > 0 /\ inFlight < Limit
  <2>1. Holders' = Holders \union {r} /\ r \notin Holders
    BY <1>3 DEF RpcArrives, Holders, Held
  <2>2. Cardinality(Holders') = Cardinality(Holders) + 1
    BY <1>1, <2>1, FS_AddElement
  <2> QED
    BY <1>3, <2>2 DEF RpcArrives
<1> QED
  BY <1>2, <1>3

\* The permit of an RPC goes back once, however the RPC ended.
LEMMA PermitReturned ==
  ASSUME TypeOK, PermitsInv, NEW r \in Rpcs, rpc[r] \in Held, Release(r)
  PROVE  PermitsInv'
<1> USE LimitAssumption DEF PermitsInv, TypeOK, Counted
<1>1. IsFiniteSet(Holders)
  BY WorkersAssumption, FS_Subset DEF Holders
<1>2. Holders' = Holders \ {r} /\ r \in Holders
  BY DEF Release, Holders, Held
<1>3. Cardinality(Holders') = Cardinality(Holders) - 1
  BY <1>1, <1>2, FS_RemoveElement
<1>4. Cardinality(Holders) \in Nat
  BY <1>1, FS_CardinalityType
<1> QED
  BY <1>3, <1>4 DEF Release

\* Every step keeps the count of the permits.
LEMMA PermitsStep ==
  ASSUME TypeOK, PermitsInv, [Next]_vars
  PROVE  PermitsInv'
<1>1. CASE UNCHANGED <<rpc, inFlight>>
  BY <1>1 DEF PermitsInv, Holders
<1>2. CASE Fresh
  <2>1. Holders' = {}
    BY <1>2 DEF Fresh, Holders, Held
  <2>2. Cardinality(Holders') = 0
    BY <2>1, FS_EmptySet
  <2> QED
    BY <1>2, <2>2, LimitAssumption DEF Fresh, PermitsInv
<1>3. ASSUME NEW r \in Rpcs, RpcArrives(r)
      PROVE  PermitsInv'
  BY <1>3, PermitTaken
<1>4. ASSUME NEW r \in Rpcs, RpcCommits(r)
      PROVE  PermitsInv'
  <2>1. Holders' = Holders
    BY <1>4 DEF RpcCommits, Holders, Held, TypeOK
  <2> QED
    BY <1>4, <2>1 DEF RpcCommits, PermitsInv
<1>5. ASSUME NEW r \in Rpcs, RpcSchedules(r) \/ RpcEnds(r)
      PROVE  PermitsInv'
  BY <1>5, PermitReturned DEF RpcSchedules, RpcEnds, Held
<1>6. CASE GrpcStops
  <2>1. Holders' = Holders
    BY <1>6 DEF GrpcStops, Serving, Holders, Held, TypeOK
  <2> QED
    BY <1>6, <2>1 DEF GrpcStops, PermitsInv
<1>7. CASE Up \/ Signal \/ RestDies \/ RunCancelled
  <2>1. UNCHANGED <<rpc, inFlight>>
    BY <1>7 DEF Up, LoadConfig, OpenConnection, RunScript, CommitScript,
       MigrationsDone, AssembleStep, ServiceBuilt, StartGrpc, StartRest,
       StartLoops, Signal, RestDies, RunCancelled, workers
  <2> QED
    BY <1>1, <2>1
<1>8. CASE Down
  <2>1. GrpcStops \/ UNCHANGED <<rpc, inFlight>>
    BY <1>8 DEF Down, StopListeners, RestStops, ListenersStopped,
       BeginShutdown, Drain, CancelledAreDone, CloseConnection, ProcessExits,
       workers
  <2> QED
    BY <1>1, <1>6, <2>1
<1>9. ASSUME NEW q \in Rests, RequestArrives(q) \/ RequestEnds(q)
      PROVE  PermitsInv'
  BY <1>1, <1>9 DEF RequestArrives, RequestEnds
<1>10. ASSUME NEW t \in Tasks, TaskEnds(t) \/ LoopRuns(t)
       PROVE  PermitsInv'
  BY <1>1, <1>10 DEF TaskEnds, LoopRuns, workers
<1>11. CASE UNCHANGED vars
  BY <1>1, <1>11 DEF vars, workers
<1> QED
  BY <1>2, <1>3, <1>4, <1>5, <1>7, <1>8, <1>9, <1>10, <1>11
     DEF Next, Work, Start, Crash

-----------------------------------------------------------------------------
(* Types, and the order of things.                                         *)

\* Every step keeps the types.
LEMMA TypeStep ==
  ASSUME TypeOK, PermitsInv, [Next]_vars
  PROVE  TypeOK'
<1> USE LimitAssumption, VersionsAssumption DEF TypeOK, Phase, RpcState,
     TaskState, Tasks, file, startup, listeners, background, workers, history
<1>1. CASE Start
  <2>1. Flags'
    BY <1>1 DEF Start, Fresh, Flags
  <2> QED
    BY <1>1, <2>1 DEF Start, Fresh, Flags
<1>2. CASE Crash
  <2>1. Flags'
    BY <1>2 DEF Crash, Fresh, Flags
  <2> QED
    BY <1>2, <2>1 DEF Crash, Fresh, Flags
<1>3. CASE Signal
  BY <1>3 DEF Signal
<1>4. CASE RestDies
  BY <1>4 DEF RestDies
<1>5. CASE RunCancelled
  BY <1>5 DEF RunCancelled
<1>6. CASE LoadConfig
  BY <1>6 DEF LoadConfig, Exit
<1>7. CASE OpenConnection
  <2>1. Flags'
    BY <1>7 DEF OpenConnection, Exit, Flags
  <2> QED
    BY <1>7, <2>1 DEF OpenConnection, Exit, Flags
<1>8. CASE RunScript
  BY <1>8 DEF RunScript, AssemblyFails, Exit
<1>9. CASE CommitScript
  BY <1>9 DEF CommitScript, AssemblyFails, Exit
<1>10. CASE MigrationsDone
  BY <1>10 DEF MigrationsDone
<1>11. CASE AssembleStep
  BY <1>11 DEF AssembleStep, AssemblyFails, Exit
<1>12. CASE ServiceBuilt
  BY <1>12 DEF ServiceBuilt
<1>13. CASE StartGrpc
  BY <1>13 DEF StartGrpc
<1>14. CASE StartRest
  <2>1. Flags'
    BY <1>14 DEF StartRest, Flags
  <2> QED
    BY <1>14, <2>1 DEF StartRest, Flags
<1>15. CASE StartLoops
  BY <1>15 DEF StartLoops
<1>16. CASE StopListeners
  BY <1>16 DEF StopListeners
<1>17. CASE GrpcStops
  BY <1>17 DEF GrpcStops
<1>18. CASE RestStops
  BY <1>18 DEF RestStops
<1>19. CASE ListenersStopped
  BY <1>19 DEF ListenersStopped
<1>20. CASE BeginShutdown
  BY <1>20 DEF BeginShutdown, Active
<1>21. CASE Drain
  BY <1>21 DEF Drain, Active
<1>22. CASE CancelledAreDone
  BY <1>22 DEF CancelledAreDone, Active
<1>23. CASE CloseConnection
  BY <1>23 DEF CloseConnection
<1>24. CASE ProcessExits
  BY <1>24 DEF ProcessExits
<1>25. ASSUME NEW r \in Rpcs, RpcArrives(r), phase # "exited"
      PROVE  TypeOK'
  BY <1>25 DEF RpcArrives, Counted
<1>26. ASSUME NEW r \in Rpcs, RpcCommits(r), phase # "exited"
      PROVE  TypeOK'
  BY <1>26 DEF RpcCommits
<1>27. ASSUME NEW r \in Rpcs, RpcSchedules(r), phase # "exited"
      PROVE  TypeOK'
  <2>1. inFlight - Counted \in Nat
    BY <1>27, PermitHeld DEF RpcSchedules, Held
  <2> QED
    BY <1>27, <2>1 DEF RpcSchedules, Release
<1>28. ASSUME NEW r \in Rpcs, RpcEnds(r), phase # "exited"
      PROVE  TypeOK'
  <2>1. inFlight - Counted \in Nat
    BY <1>28, PermitHeld DEF RpcEnds, Held
  <2> QED
    BY <1>28, <2>1 DEF RpcEnds, Release
<1>29. ASSUME NEW q \in Rests, RequestArrives(q), phase # "exited"
      PROVE  TypeOK'
  BY <1>29 DEF RequestArrives
<1>30. ASSUME NEW q \in Rests, RequestEnds(q), phase # "exited"
      PROVE  TypeOK'
  BY <1>30 DEF RequestEnds
<1>31. ASSUME NEW t \in Tasks, TaskEnds(t), phase # "exited"
      PROVE  TypeOK'
  BY <1>31 DEF TaskEnds
<1>32. ASSUME NEW t \in Tasks, LoopRuns(t), phase # "exited"
      PROVE  TypeOK'
  BY <1>32 DEF LoopRuns
<1>33. CASE UNCHANGED vars
  BY <1>33 DEF vars
<1> QED
  BY <1>1, <1>2, <1>3, <1>4, <1>5, <1>6, <1>7, <1>8, <1>9, <1>10, <1>11,
     <1>12, <1>13, <1>14, <1>15, <1>16, <1>17, <1>18, <1>19, <1>20, <1>21,
     <1>22, <1>23, <1>24, <1>25, <1>26, <1>27, <1>28, <1>29, <1>30, <1>31,
     <1>32, <1>33 DEF Next, Up, Down, Work

\* Every step keeps the order of startup, work and shutdown.
LEMMA OrderStep ==
  ASSUME TypeOK, Order, [Next]_vars
  PROVE  Order'
<1> USE VersionsAssumption DEF Order, Versions, TypeOK, Phase, RpcState,
     TaskState, Tasks, ScriptsInv, Pending, BuiltInv, LeavingInv,
     ConnectionInv, Building, Built, Leaving, IsActive, Idle, NoneServing,
     NoneBusy, Serving, file, startup, listeners, background, workers,
     history
<1>1. CASE Start
  BY <1>1 DEF Start, Fresh
<1>2. CASE Crash
  BY <1>2 DEF Crash, Fresh
<1>3. CASE Signal
  BY <1>3 DEF Signal
<1>4. CASE RestDies
  BY <1>4 DEF RestDies
<1>5. CASE RunCancelled
  BY <1>5 DEF RunCancelled
<1>6. CASE LoadConfig
  BY <1>6 DEF LoadConfig, Exit
<1>7. CASE OpenConnection
  BY <1>7 DEF OpenConnection, Exit
<1>8. CASE RunScript
  BY <1>8 DEF RunScript, AssemblyFails, Exit
<1>9. CASE CommitScript
  <2>1. staged' = {}
    BY <1>9 DEF CommitScript
  <2>2. CASE /\ applied' = [v \in Versions |->
                  IF v \in staged THEN applied[v] + 1 ELSE applied[v]]
             /\ recorded' = recorded \union staged
    <3>1. /\ staged \subseteq Versions
          /\ \A v \in staged : Pending(v)
      OBVIOUS
    <3>2. \A v \in Versions : applied'[v] = IF v \in recorded' THEN 1 ELSE 0
      BY <2>2, <3>1
    <3>3. ASSUME NEW v \in recorded', NEW w \in 1 .. v
          PROVE  w \in recorded'
      BY <2>2, <3>1, <3>3
    <3>4. ScriptsInv'
      BY <2>1, <3>2, <3>3
    <3> QED
      BY <1>9, <3>4 DEF CommitScript, AssemblyFails, Exit
  <2>3. CASE AssemblyFails /\ UNCHANGED file
    BY <1>9, <2>1, <2>3 DEF CommitScript, AssemblyFails, Exit
  <2> QED
    BY <1>9, <2>2, <2>3 DEF CommitScript
<1>10. CASE MigrationsDone
  BY <1>10 DEF MigrationsDone
<1>11. CASE AssembleStep
  BY <1>11 DEF AssembleStep, AssemblyFails, Exit
<1>12. CASE ServiceBuilt
  BY <1>12 DEF ServiceBuilt
<1>13. CASE StartGrpc
  BY <1>13 DEF StartGrpc
<1>14. CASE StartRest
  BY <1>14 DEF StartRest
<1>15. CASE StartLoops
  BY <1>15 DEF StartLoops
<1>16. CASE StopListeners
  BY <1>16 DEF StopListeners
<1>17. CASE GrpcStops
  BY <1>17 DEF GrpcStops
<1>18. CASE RestStops
  BY <1>18 DEF RestStops
<1>19. CASE ListenersStopped
  BY <1>19 DEF ListenersStopped
<1>20. CASE BeginShutdown
  BY <1>20 DEF BeginShutdown, Active
<1>21. CASE Drain
  BY <1>21 DEF Drain, Active
<1>22. CASE CancelledAreDone
  BY <1>22 DEF CancelledAreDone, Active
<1>23. CASE CloseConnection
  BY <1>23 DEF CloseConnection
<1>24. CASE ProcessExits
  BY <1>24 DEF ProcessExits
<1>25. ASSUME NEW r \in Rpcs, RpcArrives(r), phase # "exited"
      PROVE  Order'
  BY <1>25 DEF RpcArrives, Counted
<1>26. ASSUME NEW r \in Rpcs, RpcCommits(r), phase # "exited"
      PROVE  Order'
  BY <1>26 DEF RpcCommits
<1>27. ASSUME NEW r \in Rpcs, RpcSchedules(r), phase # "exited"
      PROVE  Order'
  BY <1>27 DEF RpcSchedules, Release, Counted
<1>28. ASSUME NEW r \in Rpcs, RpcEnds(r), phase # "exited"
      PROVE  Order'
  BY <1>28 DEF RpcEnds, Release, Counted
<1>29. ASSUME NEW q \in Rests, RequestArrives(q), phase # "exited"
      PROVE  Order'
  BY <1>29 DEF RequestArrives
<1>30. ASSUME NEW q \in Rests, RequestEnds(q), phase # "exited"
      PROVE  Order'
  BY <1>30 DEF RequestEnds
<1>31. ASSUME NEW t \in Tasks, TaskEnds(t), phase # "exited"
      PROVE  Order'
  BY <1>31 DEF TaskEnds
<1>32. ASSUME NEW t \in Tasks, LoopRuns(t), phase # "exited"
      PROVE  Order'
  BY <1>32 DEF LoopRuns
<1>33. CASE UNCHANGED vars
  BY <1>33 DEF vars
<1> QED
  BY <1>1, <1>2, <1>3, <1>4, <1>5, <1>6, <1>7, <1>8, <1>9, <1>10, <1>11,
     <1>12, <1>13, <1>14, <1>15, <1>16, <1>17, <1>18, <1>19, <1>20, <1>21,
     <1>22, <1>23, <1>24, <1>25, <1>26, <1>27, <1>28, <1>29, <1>30, <1>31,
     <1>32, <1>33 DEF Next, Up, Down, Work

-----------------------------------------------------------------------------
(* Theorems.                                                               *)

\* Before the first start nothing runs and no script has been applied.
LEMMA InitInv == Init => IInv
<1> SUFFICES ASSUME Init PROVE IInv
  OBVIOUS
<1>1. TypeOK
  <2>1. Flags
    BY DEF Init, Flags
  <2> QED
    BY <2>1, VersionsAssumption
       DEF Init, TypeOK, Flags, Phase, RpcState, TaskState
<1>2. PermitsInv
  <2>1. Holders = {}
    BY DEF Init, Holders, Held
  <2> QED
    BY <2>1, FS_EmptySet, LimitAssumption DEF Init, PermitsInv
<1>3. Order
  BY DEF Init, Order, ScriptsInv, BuiltInv, LeavingInv, ConnectionInv, Building,
     Built, Leaving, IsActive, Idle, NoneServing, NoneBusy, Serving
<1> QED
  BY <1>1, <1>2, <1>3 DEF IInv

\* The inductive invariant: types, permits, and the order of startup and
\* shutdown.
THEOREM Invariance == Spec => []IInv
<1>1. IInv /\ [Next]_vars => IInv'
  BY TypeStep, PermitsStep, OrderStep DEF IInv
<1> QED
  BY InitInv, <1>1, PTL DEF Spec

\* Every variable of the process keeps its type.
THEOREM TypeCorrect == Spec => []TypeOK
<1>1. IInv => TypeOK
  BY DEF IInv
<1> QED
  BY <1>1, Invariance, PTL

\* apply_migrations: scripts take effect once and in order over any number of
\* interrupted starts, and nothing is served before they all did.
THEOREM MigrationsExactlyOnceHolds == Spec => []MigrationsExactlyOnce
<1>1. IInv => MigrationsExactlyOnce
  <2> SUFFICES ASSUME IInv PROVE MigrationsExactlyOnce
    OBVIOUS
  <2>1. recorded \subseteq Versions
    BY DEF IInv, TypeOK
  <2>2. /\ \A v \in Versions : applied[v] = IF v \in recorded THEN 1 ELSE 0
        /\ \A v \in recorded : 1 .. v \subseteq recorded
    BY DEF IInv, Order, ScriptsInv
  <2>3. (\E r \in Rpcs : rpc[r] # "new") \/ (\E q \in Rests : request[q] # "new")
          => recorded = Versions /\ assembled = 7
    BY <2>1 DEF IInv, Order, BuiltInv
  <2> QED
    BY <2>2, <2>3 DEF MigrationsExactlyOnce
<1> QED
  BY <1>1, Invariance, PTL

\* ConcurrencyLimitInterceptor: the counter is the number of permits that are
\* held, and within the limit, however RPCs end.
THEOREM PermitsConservedHolds == Spec => []PermitsConserved
<1>1. IInv => PermitsConserved
  BY DEF IInv, PermitsInv, Holders, Held, PermitsConserved
<1> QED
  BY <1>1, Invariance, PTL

\* shutdown_service: whoever could still write is gone when the connection
\* closes, no committed FinalizeRun is refused its task, and an exit leaves no
\* open connection, but for the exceptions the property names.
THEOREM ClosedWhenQuietHolds == Spec => []ClosedWhenQuiet
<1>1. IInv => ClosedWhenQuiet
  <2> SUFFICES ASSUME IInv PROVE ClosedWhenQuiet
    OBVIOUS
  <2>1. conn = "closed" => Active = {}
    BY DEF IInv, Order, ConnectionInv, Idle, IsActive, Active
  <2> QED
    BY <2>1 DEF IInv, Order, ConnectionInv, LeavingInv, NoneServing, NoneBusy,
       ClosedWhenQuiet
<1> QED
  BY <1>1, Invariance, PTL
=============================================================================
