----------------------------- MODULE UnitOfWork -----------------------------
(***************************************************************************)
(* SqliteUnitOfWork: one shared connection, one asyncio.Lock held from     *)
(* BEGIN to COMMIT or ROLLBACK.  The connection is driven by a worker      *)
(* thread (aiosqlite) that executes commands in the order they were put on *)
(* its queue.  A task that awaits a command can be cancelled; its command  *)
(* stays on the queue and is executed all the same.                        *)
(*                                                                         *)
(* Each task opens one unit of work.  The connection is external code,     *)
(* modelled from how this class uses it.                                   *)
(***************************************************************************)
EXTENDS Naturals, Sequences

CONSTANTS
  Tasks,         \* RPC handlers, background tasks and loops
  Cancellable,   \* the awaits a cancellation may hit
  Faulty         \* the commands the connection may fail

Command == {"BEGIN", "WRITE", "COMMIT", "ROLLBACK"}
Queued == [task : Tasks, cmd : Command]
Await == {"waiting", "begin", "write", "commit", "rollback",
          "xcommit", "xrollback"}

ASSUME CancellableAssumption == Cancellable \subseteq Await
ASSUME FaultyAssumption == Faulty \subseteq Command

NoTask == "none"
ASSUME TaskAssumption == NoTask \notin Tasks

VARIABLES
  lock,      \* the task whose _lock_held flag is set, or NoTask
  waiters,   \* the lock's FIFO of waiting tasks
  pc,        \* where the unit of work of a task is
  result,    \* what the command a task awaits came to
  outcome,   \* how the unit of work ended for its caller
  queue,     \* commands the worker thread has not executed
  txn,       \* who opened the transaction on the connection, or NoTask
  dirty,     \* tasks with writes in the open transaction
  durable,   \* tasks whose writes are committed
  wrote,     \* tasks with a write that was executed
  collided,  \* some BEGIN found a transaction open
  failed     \* commands that failed

taskVars == <<pc, result, outcome>>
connVars == <<queue, txn, dirty, durable, wrote, collided, failed>>
vars == <<lock, waiters, taskVars, connVars>>

\* Every variable ranges over what its field may hold.
TypeOK ==
  /\ lock \in Tasks \union {NoTask}
  /\ waiters \in Seq(Tasks)
  /\ pc \in [Tasks -> Await \union {"out", "body", "end"}]
  /\ result \in [Tasks -> {"none", "pending", "ok", "error"}]
  /\ outcome \in [Tasks -> {"none", "committed", "undone", "cancelled"}]
  /\ queue \in Seq(Queued)
  /\ txn \in Tasks \union {NoTask}
  /\ dirty \subseteq Tasks
  /\ durable \subseteq Tasks /\ wrote \subseteq Tasks
  /\ collided \in BOOLEAN /\ failed \subseteq Queued

Init ==
  /\ lock = NoTask /\ waiters = <<>>
  /\ pc = [t \in Tasks |-> "out"]
  /\ result = [t \in Tasks |-> "none"]
  /\ outcome = [t \in Tasks |-> "none"]
  /\ queue = <<>> /\ txn = NoTask
  /\ dirty = {} /\ durable = {} /\ wrote = {} /\ collided = FALSE /\ failed = {}

-----------------------------------------------------------------------------
(* Steps of a task.                                                        *)

\* Put a command on the worker's queue and await its result at step p.
Issue(t, cmd, p) ==
  /\ queue' = Append(queue, [task |-> t, cmd |-> cmd])
  /\ pc' = [pc EXCEPT ![t] = p]
  /\ result' = [result EXCEPT ![t] = "pending"]
  /\ UNCHANGED <<txn, dirty, durable, wrote, collided, failed>>

\* The unit of work is over for its caller.
End(t, how) ==
  /\ pc' = [pc EXCEPT ![t] = "end"]
  /\ result' = [result EXCEPT ![t] = "none"]
  /\ outcome' = [outcome EXCEPT ![t] = how]
  /\ UNCHANGED connVars

\* _release_lock
Release(t) == lock = t /\ lock' = NoTask

\* __aenter__ on a free lock that nobody waits for, or behind the others.
Enter(t) ==
  /\ pc[t] = "out"
  /\ IF lock = NoTask /\ waiters = <<>>
     THEN /\ lock' = t
          /\ Issue(t, "BEGIN", "begin")
          /\ UNCHANGED <<waiters, outcome>>
     ELSE /\ waiters' = Append(waiters, t)
          /\ pc' = [pc EXCEPT ![t] = "waiting"]
          /\ UNCHANGED <<lock, result, outcome, connVars>>

\* The first waiter resumes with the lock and issues BEGIN.
Acquire(t) ==
  /\ pc[t] = "waiting" /\ lock = NoTask /\ t = Head(waiters)
  /\ lock' = t
  /\ waiters' = Tail(waiters)
  /\ Issue(t, "BEGIN", "begin")
  /\ UNCHANGED outcome

\* Mutant of Begun: a failed BEGIN raises without releasing the lock.
BegunKeepsLock(t) ==
  /\ pc[t] = "begin"
  /\ \/ /\ result[t] = "ok"
        /\ pc' = [pc EXCEPT ![t] = "body"]
        /\ result' = [result EXCEPT ![t] = "none"]
        /\ UNCHANGED <<outcome, connVars>>
     \/ result[t] = "error" /\ End(t, "undone")
  /\ UNCHANGED <<lock, waiters>>

\* BEGIN returned, or raised: then the lock is released.
Begun(t) ==
  /\ pc[t] = "begin"
  /\ \/ /\ result[t] = "ok"
        /\ pc' = [pc EXCEPT ![t] = "body"]
        /\ result' = [result EXCEPT ![t] = "none"]
        /\ UNCHANGED <<lock, outcome, connVars>>
     \/ /\ result[t] = "error"
        /\ Release(t)
        /\ End(t, "undone")
  /\ UNCHANGED waiters

\* The block writes through a repository.
Write(t) ==
  /\ pc[t] = "body"
  /\ Issue(t, "WRITE", "write")
  /\ UNCHANGED <<lock, waiters, outcome>>

\* The write returned; a failed one raises in the block and rolls back.
Written(t) ==
  /\ pc[t] = "write"
  /\ \/ /\ result[t] = "ok"
        /\ pc' = [pc EXCEPT ![t] = "body"]
        /\ result' = [result EXCEPT ![t] = "none"]
        /\ UNCHANGED connVars
     \/ /\ result[t] = "error"
        /\ Issue(t, "ROLLBACK", "rollback")
  /\ UNCHANGED <<lock, waiters, outcome>>

\* Mutant of Close: rollback() commits, as commit() does.
CloseCommits(t) ==
  /\ pc[t] = "body"
  /\ \/ Issue(t, "COMMIT", "commit")
     \/ Issue(t, "ROLLBACK", "rollback")
     \/ Issue(t, "COMMIT", "xcommit")
     \/ Issue(t, "COMMIT", "xrollback")
  /\ UNCHANGED <<lock, waiters, outcome>>

\* The block ends: __aexit__ commits, or rolls back an exception of the
\* caller's; or the block calls commit() or rollback() itself.
Close(t) ==
  /\ pc[t] = "body"
  /\ \/ Issue(t, "COMMIT", "commit")
     \/ Issue(t, "ROLLBACK", "rollback")
     \/ Issue(t, "COMMIT", "xcommit")
     \/ Issue(t, "ROLLBACK", "xrollback")
  /\ UNCHANGED <<lock, waiters, outcome>>

\* Mutant of Committed: a failed commit is not rolled back.
CommittedNoRollback(t) ==
  /\ pc[t] = "commit"
  /\ result[t] \in {"ok", "error"}
  /\ Release(t)
  /\ End(t, IF result[t] = "ok" THEN "committed" ELSE "undone")
  /\ UNCHANGED waiters

\* __aexit__ after its commit: release, or roll back a failed commit first.
Committed(t) ==
  /\ pc[t] = "commit"
  /\ \/ result[t] = "ok" /\ Release(t) /\ End(t, "committed")
     \/ /\ result[t] = "error"
        /\ Issue(t, "ROLLBACK", "rollback")
        /\ UNCHANGED <<lock, outcome>>
  /\ UNCHANGED waiters

\* __aexit__ after its rollback, whether that worked or not.
RolledBack(t) ==
  /\ pc[t] = "rollback"
  /\ result[t] \in {"ok", "error"}
  /\ Release(t)
  /\ End(t, IF outcome[t] = "none" THEN "undone" ELSE outcome[t])
  /\ UNCHANGED waiters

\* commit() or rollback() returned: the unit of work is finalized and the lock
\* released inside the block; a failure raises in the block and rolls back.
Finalized(t) ==
  /\ pc[t] \in {"xcommit", "xrollback"}
  /\ \/ /\ result[t] = "ok" /\ Release(t)
        /\ End(t, IF pc[t] = "xcommit" THEN "committed" ELSE "undone")
     \/ /\ result[t] = "error"
        /\ Issue(t, "ROLLBACK", "rollback")
        /\ UNCHANGED <<lock, outcome>>
  /\ UNCHANGED waiters

-----------------------------------------------------------------------------
(* CancelledError, by the await it hits.                                   *)

\* asyncio.Lock.acquire removes the waiter.
CancelWaiting(t) ==
  /\ pc[t] = "waiting" /\ "waiting" \in Cancellable
  /\ \E k \in 1 .. Len(waiters) :
       /\ waiters[k] = t
       /\ waiters' = [i \in 1 .. Len(waiters) - 1 |->
                       IF i < k THEN waiters[i] ELSE waiters[i + 1]]
  /\ End(t, "cancelled")
  /\ UNCHANGED lock

\* __aenter__ catches Exception only: the error leaves with the lock held.
CancelBegin(t) ==
  /\ pc[t] = "begin" /\ "begin" \in Cancellable
  /\ End(t, "cancelled")
  /\ UNCHANGED <<lock, waiters>>

\* In the block, or in commit() and rollback(): __aexit__ rolls back.
CancelBlock(t) ==
  /\ pc[t] \in {"write", "xcommit", "xrollback"} /\ pc[t] \in Cancellable
  /\ Issue(t, "ROLLBACK", "rollback")
  /\ outcome' = [outcome EXCEPT ![t] = "cancelled"]
  /\ UNCHANGED <<lock, waiters>>

\* In __aexit__: its finally releases the lock, the command is still queued.
CancelExit(t) ==
  /\ pc[t] \in {"commit", "rollback"} /\ pc[t] \in Cancellable
  /\ Release(t)
  /\ End(t, "cancelled")
  /\ UNCHANGED waiters

-----------------------------------------------------------------------------
(* The worker thread executes the command at the head of its queue.        *)

Done(t, ok) ==
  /\ queue' = Tail(queue)
  /\ result' = IF result[t] = "pending" /\ \A k \in 2 .. Len(queue) : queue[k].task # t
               THEN [result EXCEPT ![t] = IF ok THEN "ok" ELSE "error"]
               ELSE result
  /\ UNCHANGED <<lock, waiters, pc, outcome>>

\* A command fails; a failed BEGIN opens nothing, a failed COMMIT or ROLLBACK
\* leaves the transaction as it is.
Fail ==
  /\ queue # <<>> /\ Head(queue).cmd \in Faulty
  /\ Done(Head(queue).task, FALSE)
  /\ failed' = failed \union {Head(queue)}
  /\ UNCHANGED <<txn, dirty, durable, wrote, collided>>

Execute ==
  /\ queue # <<>>
  /\ UNCHANGED failed
  /\ LET t == Head(queue).task IN
     CASE Head(queue).cmd = "BEGIN" ->
            /\ IF txn = NoTask THEN txn' = t /\ UNCHANGED collided
                               ELSE collided' = TRUE /\ UNCHANGED txn
            /\ Done(t, txn = NoTask)
            /\ UNCHANGED <<dirty, durable, wrote>>
       [] Head(queue).cmd = "WRITE" ->
            /\ dirty' = dirty \union {t} /\ wrote' = wrote \union {t}
            /\ Done(t, TRUE)
            /\ UNCHANGED <<txn, durable, collided>>
       [] Head(queue).cmd = "COMMIT" ->
            /\ durable' = durable \union dirty
            /\ dirty' = {} /\ txn' = NoTask
            /\ Done(t, TRUE)
            /\ UNCHANGED <<wrote, collided>>
       [] Head(queue).cmd = "ROLLBACK" ->
            /\ dirty' = {} /\ txn' = NoTask
            /\ Done(t, TRUE)
            /\ UNCHANGED <<durable, wrote, collided>>

TaskSteps(t) ==
  \/ Acquire(t) \/ Begun(t) \/ Written(t) \/ Close(t)
  \/ Committed(t) \/ RolledBack(t) \/ Finalized(t)

Cancelled(t) ==
  CancelWaiting(t) \/ CancelBegin(t) \/ CancelBlock(t) \/ CancelExit(t)

Next ==
  \/ \E t \in Tasks : Enter(t) \/ TaskSteps(t) \/ Write(t) \/ Cancelled(t)
  \/ Execute \/ Fail

Spec == Init /\ [][Next]_vars

\* The event loop runs every ready task, every block issues finitely many
\* writes, the worker thread executes what is queued.
FairSpec ==
  /\ Spec
  /\ \A t \in Tasks : WF_vars(TaskSteps(t)) /\ SF_vars(Close(t))
  /\ WF_vars(Execute \/ Fail)

-----------------------------------------------------------------------------
(* Properties.                                                             *)

\* What leaves a transaction open for good: a ROLLBACK that fails, or a COMMIT
\* that fails with nobody left to roll back.
LeftOpen ==
  \E c \in failed : \/ c.cmd = "ROLLBACK"
                    \/ c.cmd = "COMMIT" /\ outcome[c.task] = "cancelled"

\* Although a cancelled exit releases the lock while its COMMIT or ROLLBACK is
\* still queued, no BEGIN ever meets an open transaction (L2-PERS-004), unless
\* one was left open by a failure; and the open transaction holds writes of its
\* opener only: a write left on the queue by a cancelled task is never
\* committed by the next unit of work.
Isolated ==
  /\ TypeOK
  /\ collided => LeftOpen
  /\ dirty \subseteq {txn}

\* What a unit of work told its caller is true: after a commit whatever it
\* wrote is durable, and one that was rolled back, by an error of the block, of
\* a write or of the commit, has left nothing behind.
OutcomeIsTruthful ==
  \A t \in Tasks :
    /\ outcome[t] = "undone" => t \notin durable
    /\ outcome[t] = "committed" => t \notin dirty /\ (t \in wrote => t \in durable)

\* Where the unit of work of a task is, for a reader of the tables.
StorePhase ==
  [t \in Tasks |-> CASE txn = t -> IF t \in dirty THEN "dirty" ELSE "clean"
                     [] txn # t /\ t \in durable -> "stored"
                     [] txn # t /\ t \in wrote \ durable -> "dropped"
                     [] OTHER -> "idle"]

Store == INSTANCE AtomicStore WITH Clients <- Tasks, phase <- StorePhase, told <- outcome

\* Lock, queue and worker together make a unit of work atomic, which every use
\* case takes for granted (L2-PERS-004): one is open at a time, its writes are
\* stored in one step, all or none, and never after its caller was told that
\* they were undone; one that was told of a commit finds them stored.
ImplementsStore == Store!StoreSpec

\* L3-PERS-007: the lock spans a unit of work; no lock outlives the task that
\* took it.
LockSpansUnitOfWork == lock # NoTask => pc[lock] # "end"

\* Nobody waits for ever: unless a cancelled task died with the lock, every
\* task that queues for it gets to the end of its unit of work.
EveryTaskEnds ==
  [](lock # NoTask => outcome[lock] # "cancelled" \/ pc[lock] # "end")
    => \A t \in Tasks : pc[t] # "out" ~> pc[t] = "end"
=============================================================================
