-------------------------- MODULE UnitOfWorkProofs --------------------------
(***************************************************************************)
(* Units of work are isolated and truthful about their outcome, for any    *)
(* number of tasks, cancelled at any await, over a connection that may     *)
(* fail any command.                                                       *)
(*                                                                         *)
(* What makes it so is the shape of the worker's queue: it holds commands  *)
(* of the task that has the lock, and before its BEGIN at most two of one  *)
(* task that was cancelled on its way out, which close the transaction.    *)
(***************************************************************************)
EXTENDS UnitOfWork, TLAPS

Is(k, t, cmd) == queue[k].task = t /\ queue[k].cmd = cmd

\* The first n commands are what a cancelled exit of u left on the queue.
Rest(u, n) ==
  /\ pc[u] = "end" /\ outcome[u] = "cancelled" /\ u # lock
  /\ \/ n = 1 /\ Is(1, u, "COMMIT") /\ txn = u
     \/ n = 1 /\ Is(1, u, "ROLLBACK") /\ txn \in {u, NoTask}
     \/ /\ n = 2 /\ Is(2, u, "ROLLBACK") /\ txn = u
        /\ Is(1, u, "WRITE") \/ Is(1, u, "COMMIT") \/ Is(1, u, "ROLLBACK")

\* What a BEGIN behind the first n commands will find.
Before(n) ==
  \/ n = 0 /\ (txn # NoTask => LeftOpen)
  \/ \E u \in Tasks : Rest(u, n)

BeginQueued(t) ==
  Len(queue) > 0 /\ Is(Len(queue), t, "BEGIN") /\ Before(Len(queue) - 1)

\* The task with the lock has one command queued, or its result.
Awaits(t, cmd) ==
  \/ Len(queue) = 1 /\ Is(1, t, cmd) /\ result[t] = "pending" /\ txn = t
  \/ /\ Len(queue) = 0 /\ result[t] = "error" /\ txn = t
     /\ [task |-> t, cmd |-> cmd] \in failed

RollingBack(t) ==
  \/ /\ Len(queue) = 2 /\ Is(2, t, "ROLLBACK")
     /\ \/ Is(1, t, "WRITE") \/ Is(1, t, "ROLLBACK")
        \/ Is(1, t, "COMMIT") /\ outcome[t] = "cancelled"
     /\ result[t] = "pending" /\ txn = t
  \/ /\ Len(queue) = 1 /\ Is(1, t, "ROLLBACK")
     /\ result[t] = "pending" /\ txn \in {t, NoTask}
  \/ Len(queue) = 0 /\ result[t] = "ok" /\ txn = NoTask
  \/ Len(queue) = 0 /\ result[t] = "error" /\ LeftOpen /\ txn \in {t, NoTask}

\* Queue, result and transaction at each step of the task with the lock.
Holds(t) ==
  \/ pc[t] = "begin" /\ result[t] = "pending" /\ BeginQueued(t)
  \/ pc[t] = "begin" /\ result[t] = "ok" /\ Len(queue) = 0 /\ txn = t
  \/ pc[t] = "begin" /\ result[t] = "error" /\ Len(queue) = 0 /\ (txn # NoTask => LeftOpen)
  \/ pc[t] = "end" /\ outcome[t] = "cancelled" /\ result[t] = "none"
       /\ (BeginQueued(t) \/ Len(queue) = 0)
  \/ pc[t] = "body" /\ Len(queue) = 0 /\ txn = t
  \/ /\ pc[t] = "write"
     /\ Awaits(t, "WRITE") \/ (Len(queue) = 0 /\ result[t] = "ok" /\ txn = t)
  \/ /\ pc[t] \in {"commit", "xcommit"}
     /\ Awaits(t, "COMMIT") \/ (Len(queue) = 0 /\ result[t] = "ok" /\ txn = NoTask)
  \/ /\ pc[t] = "xrollback"
     /\ Awaits(t, "ROLLBACK") \/ (Len(queue) = 0 /\ result[t] = "ok" /\ txn = NoTask)
  \/ pc[t] = "rollback" /\ RollingBack(t)

QueueInv ==
  /\ lock = NoTask => Before(Len(queue))
  /\ lock # NoTask => Holds(lock)

\* Who is inside a unit of work has the lock, and who waits is in the queue.
LockInv ==
  \A t \in Tasks :
    /\ pc[t] \notin {"out", "waiting", "end"} => lock = t
    /\ pc[t] = "waiting" => \E k \in 1 .. Len(waiters) : waiters[k] = t

\* What is known of the outcome at each step.
OutcomeInv ==
  \A t \in Tasks :
    /\ pc[t] \notin {"rollback", "end"} => outcome[t] = "none"
    /\ pc[t] = "rollback" => outcome[t] \in {"none", "cancelled"}
    /\ outcome[t] = "committed" => txn # t

\* Whose writes are durable: a task that was told so or will be, or one that
\* was cancelled.
DurableInv ==
  \A t \in durable :
    \/ outcome[t] \in {"committed", "cancelled"}
    \/ pc[t] \in {"commit", "xcommit"} /\ result[t] = "ok"

\* Whoever wrote has its writes in the open transaction, or that is not its own;
\* it will not begin again, and once its commit is done they are durable.
WroteInv ==
  /\ durable \subseteq wrote /\ dirty \subseteq wrote
  /\ txn \notin durable
  /\ txn \in wrote => txn \in dirty
  /\ \A t \in wrote :
       /\ pc[t] \notin {"out", "waiting", "begin"}
       /\ \A k \in 1 .. Len(queue) : ~Is(k, t, "BEGIN")
       /\ outcome[t] = "committed" => t \in durable
       /\ pc[t] \in {"commit", "xcommit"} /\ result[t] = "ok" => t \in durable

IInv == Isolated /\ QueueInv /\ LockInv /\ OutcomeInv /\ DurableInv /\ WroteInv

-----------------------------------------------------------------------------
(* The worker's queue.                                                     *)

\* A command that is issued joins the end of the queue.
LEMMA QueueGrows ==
  ASSUME TypeOK, NEW t \in Tasks, NEW cmd \in Command, NEW p, Issue(t, cmd, p)
  PROVE  /\ queue' \in Seq(Queued)
         /\ Len(queue) \in Nat /\ Len(queue') = Len(queue) + 1
         /\ \A k \in 1 .. Len(queue) : queue'[k] = queue[k]
         /\ queue'[Len(queue) + 1] = [task |-> t, cmd |-> cmd]
<1>1. queue \in Seq(Queued) /\ [task |-> t, cmd |-> cmd] \in Queued
  BY DEF TypeOK, Queued
<1> QED
  BY <1>1 DEF Issue

\* A command that is executed leaves its head.
LEMMA QueueShrinks ==
  ASSUME TypeOK, queue # <<>>, queue' = Tail(queue)
  PROVE  /\ queue' \in Seq(Queued)
         /\ Len(queue) \in Nat \ {0} /\ Len(queue') = Len(queue) - 1
         /\ \A k \in 1 .. Len(queue) - 1 : queue'[k] = queue[k + 1]
         /\ Head(queue) = queue[1]
         /\ queue[1] \in Queued
<1>1. queue \in Seq(Queued)
  BY DEF TypeOK
<1> QED
  BY <1>1

\* The commands on the queue.
LEMMA QueueTyped ==
  ASSUME TypeOK
  PROVE  /\ Len(queue) \in Nat
         /\ \A k \in 1 .. Len(queue) :
              queue[k].task \in Tasks /\ queue[k].cmd \in Command
<1>1. queue \in Seq(Queued)
  BY DEF TypeOK
<1>2. Len(queue) \in Nat /\ \A k \in 1 .. Len(queue) : queue[k] \in Queued
  BY <1>1
<1> QED
  BY <1>2 DEF Queued

\* The worker takes the first command and touches no task but its issuer, whose
\* result it sets if that is still awaited.
LEMMA WorkerStep ==
  ASSUME TypeOK, Execute \/ Fail
  PROVE  LET t == queue[1].task IN
         /\ Len(queue) \in Nat \ {0} /\ Len(queue') = Len(queue) - 1
         /\ queue' \in Seq(Queued)
         /\ \A k \in 1 .. Len(queue) - 1 : queue'[k] = queue[k + 1]
         /\ t \in Tasks /\ queue[1].cmd \in Command /\ queue[1] \in Queued
         /\ UNCHANGED <<lock, waiters, pc, outcome>>
         /\ failed \subseteq failed' /\ failed' \subseteq Queued
         /\ result' \in [Tasks -> {"none", "pending", "ok", "error"}]
         /\ \A u \in Tasks : u # t => result'[u] = result[u]
         /\ result[t] # "pending" => result'[t] = result[t]
         /\ Len(queue) = 1 /\ result[t] = "pending" => result'[t] \in {"ok", "error"}
         /\ Len(queue) = 2 /\ queue[2].task = t => result'[t] = result[t]
<1>1. queue # <<>>
  BY DEF Execute, Fail
<1>2. /\ Head(queue) = queue[1] /\ Len(queue) \in Nat \ {0} /\ queue[1] \in Queued
      /\ queue[1].task \in Tasks /\ queue[1].cmd \in Command
  <2>1. Head(queue) = queue[1] /\ Len(queue) \in Nat \ {0} /\ queue[1] \in Queued
    BY <1>1 DEF TypeOK
  <2> QED
    BY <2>1 DEF Queued
<1>3. PICK ok \in BOOLEAN : Done(queue[1].task, ok)
  BY <1>2 DEF Execute, Fail, Command
<1>4. /\ queue' = Tail(queue)
      /\ UNCHANGED <<lock, waiters, pc, outcome>>
  BY <1>3 DEF Done
<1>5. /\ queue' \in Seq(Queued) /\ Len(queue') = Len(queue) - 1
      /\ \A k \in 1 .. Len(queue) - 1 : queue'[k] = queue[k + 1]
  BY <1>1, <1>4, QueueShrinks
<1>6. failed \subseteq failed' /\ failed' \subseteq Queued
  <2>1. failed \subseteq Queued
    BY DEF TypeOK
  <2>2. failed' = failed \/ failed' = failed \union {queue[1]}
    BY <1>2 DEF Execute, Fail
  <2> QED
    BY <1>2, <2>1, <2>2
<1>7. result \in [Tasks -> {"none", "pending", "ok", "error"}]
  BY DEF TypeOK
<1>8. /\ result' \in [Tasks -> {"none", "pending", "ok", "error"}]
      /\ \A u \in Tasks : u # queue[1].task => result'[u] = result[u]
      /\ result[queue[1].task] # "pending" => result'[queue[1].task] = result[queue[1].task]
      /\ Len(queue) = 1 /\ result[queue[1].task] = "pending" =>
           result'[queue[1].task] \in {"ok", "error"}
      /\ Len(queue) = 2 /\ queue[2].task = queue[1].task =>
           result'[queue[1].task] = result[queue[1].task]
  BY <1>2, <1>3, <1>7 DEF Done
<1> QED
  BY <1>2, <1>4, <1>5, <1>6, <1>8

\* What was left open stays so: failures are not forgotten, nor is a
\* cancellation.
LEMMA LeftOpenStable ==
  ASSUME TypeOK, failed \subseteq failed',
         \A u \in Tasks : outcome[u] = "cancelled" => outcome'[u] = "cancelled",
         LeftOpen
  PROVE  LeftOpen'
<1>1. PICK c \in failed : \/ c.cmd = "ROLLBACK"
                          \/ c.cmd = "COMMIT" /\ outcome[c.task] = "cancelled"
  BY DEF LeftOpen
<1>2. c \in failed' /\ c.task \in Tasks
  BY DEF TypeOK, Queued
<1> QED
  BY <1>1, <1>2 DEF LeftOpen

\* What lies before a BEGIN is not touched by a step that leaves the connection
\* and the tasks that have ended alone.
LEMMA BeforeKept ==
  ASSUME NEW n \in Nat, Before(n), txn' = txn, LeftOpen => LeftOpen',
         \A k \in 1 .. n : queue'[k] = queue[k],
         \A u \in Tasks : pc[u] = "end" /\ outcome[u] = "cancelled" /\ u # lock =>
           pc'[u] = "end" /\ outcome'[u] = "cancelled" /\ u # lock'
  PROVE  Before(n)'
<1>1. CASE n = 0 /\ (txn # NoTask => LeftOpen)
  BY <1>1 DEF Before
<1>2. ASSUME NEW u \in Tasks, Rest(u, n)
      PROVE  Before(n)'
  <2>1. n \in {1, 2} /\ pc'[u] = "end" /\ outcome'[u] = "cancelled" /\ u # lock'
    BY <1>2 DEF Rest
  <2>2. queue'[1] = queue[1] /\ (n = 2 => queue'[2] = queue[2])
    BY <2>1
  <2>3. Rest(u, n)'
    BY <1>2, <2>1, <2>2 DEF Rest, Is
  <2> QED
    BY <2>3 DEF Before
<1> QED
  BY <1>1, <1>2 DEF Before

\* The commands a cancelled exit left are executed from the first to the last,
\* and the last closes the transaction or fails to.
LEMMA RestRuns ==
  ASSUME TypeOK, NEW n \in Nat, NEW u \in Tasks, Rest(u, n), n <= Len(queue),
         Execute \/ Fail
  PROVE  Before(n - 1)'
<1>1. n \in {1, 2} /\ queue[1].task = u /\ queue[1].cmd \in {"WRITE", "COMMIT", "ROLLBACK"}
  BY DEF Rest, Is
<1>2. Head(queue) = queue[1]
  BY WorkerStep DEF TypeOK
<1>3. n = 2 => queue'[1] = queue[2]
  BY WorkerStep
<1>4. lock' = lock /\ pc' = pc /\ outcome' = outcome
  BY WorkerStep
<1>5. CASE Fail
  <2>1. txn' = txn /\ failed' = failed \union {queue[1]}
    BY <1>5, <1>2 DEF Fail
  <2>2. CASE n = 1
    <3>1. LeftOpen'
      BY <2>1, <2>2, <1>4 DEF LeftOpen, Rest, Is
    <3> QED
      BY <3>1, <2>2 DEF Before
  <2>3. CASE n = 2
    <3>1. Rest(u, n - 1)'
      BY <2>1, <2>3, <1>3, <1>4 DEF Rest, Is
    <3> QED
      BY <3>1 DEF Before
  <2> QED
    BY <1>1, <2>2, <2>3
<1>6. CASE Execute
  <2>1. /\ queue[1].cmd = "WRITE" => txn' = txn
        /\ queue[1].cmd \in {"COMMIT", "ROLLBACK"} => txn' = NoTask
    BY <1>6, <1>2, <1>1 DEF Execute
  <2>2. CASE n = 1
    BY <2>1, <2>2 DEF Before, Rest, Is
  <2>3. CASE n = 2
    <3>1. Rest(u, n - 1)'
      BY <2>1, <2>3, <1>3, <1>4 DEF Rest, Is
    <3> QED
      BY <3>1 DEF Before
  <2> QED
    BY <1>1, <2>2, <2>3
<1> QED
  BY <1>5, <1>6

-----------------------------------------------------------------------------
(* Types, the lock, and who is told what.                                  *)

\* A task that has the lock does not wait for it, and one that has ended
\* with the lock was cancelled in BEGIN.
LEMMA HolderBusy ==
  ASSUME QueueInv, lock # NoTask
  PROVE  pc[lock] \notin {"out", "waiting"}
BY DEF QueueInv, Holds

\* Steps of tasks keep the types.
LEMMA TypeStep ==
  ASSUME IInv, [Next]_vars
  PROVE  TypeOK'
<1> USE DEF IInv, Isolated
<1>1. ASSUME NEW t \in Tasks, NEW cmd \in Command, NEW p \in Await, Issue(t, cmd, p)
      PROVE  /\ queue' \in Seq(Queued)
             /\ pc' \in [Tasks -> Await \union {"out", "body", "end"}]
             /\ result' \in [Tasks -> {"none", "pending", "ok", "error"}]
             /\ UNCHANGED <<txn, dirty, durable, wrote, collided, failed>>
  BY <1>1, QueueGrows DEF Issue, TypeOK
<1>2. ASSUME NEW t \in Tasks, NEW how \in {"committed", "undone", "cancelled"},
             End(t, how)
      PROVE  /\ pc' \in [Tasks -> Await \union {"out", "body", "end"}]
             /\ result' \in [Tasks -> {"none", "pending", "ok", "error"}]
             /\ outcome' \in [Tasks -> {"none", "committed", "undone", "cancelled"}]
             /\ UNCHANGED connVars
  BY <1>2 DEF End, TypeOK
<1>3. ASSUME NEW t \in Tasks, Enter(t)
      PROVE  TypeOK'
  <2>1. CASE lock = NoTask /\ waiters = <<>>
    <3>1. Issue(t, "BEGIN", "begin") /\ lock' = t /\ UNCHANGED <<waiters, outcome>>
      BY <1>3, <2>1 DEF Enter
    <3> QED
      BY <3>1, <1>1 DEF TypeOK, Await, Command
  <2>2. CASE ~(lock = NoTask /\ waiters = <<>>)
    <3>1. /\ waiters' = Append(waiters, t) /\ pc' = [pc EXCEPT ![t] = "waiting"]
          /\ UNCHANGED <<lock, result, outcome, connVars>>
      BY <1>3, <2>2 DEF Enter
    <3> QED
      BY <3>1 DEF TypeOK, Await, connVars
  <2> QED
    BY <2>1, <2>2
<1>4. ASSUME NEW t \in Tasks, Acquire(t)
      PROVE  TypeOK'
  <2>1. Issue(t, "BEGIN", "begin") /\ lock' = t /\ waiters' = Tail(waiters) /\ UNCHANGED outcome
    BY <1>4 DEF Acquire
  <2>2. waiters # <<>>
    BY <1>4 DEF Acquire, LockInv, TypeOK
  <2>3. waiters' \in Seq(Tasks)
    BY <2>1, <2>2 DEF TypeOK
  <2> QED
    BY <2>1, <2>3, <1>1 DEF TypeOK, Await, Command
<1>5. ASSUME NEW t \in Tasks, Begun(t)
      PROVE  TypeOK'
  <2>1. CASE End(t, "undone") /\ Release(t) /\ UNCHANGED waiters
    BY <2>1, <1>2 DEF TypeOK, Release, connVars
  <2>2. CASE /\ pc' = [pc EXCEPT ![t] = "body"]
             /\ result' = [result EXCEPT ![t] = "none"]
             /\ UNCHANGED <<lock, outcome, connVars, waiters>>
    BY <2>2 DEF TypeOK, connVars
  <2> QED
    BY <1>5, <2>1, <2>2 DEF Begun, connVars
<1>6. ASSUME NEW t \in Tasks, Write(t)
      PROVE  TypeOK'
  BY <1>6, <1>1 DEF Write, TypeOK, Await, Command
<1>7. ASSUME NEW t \in Tasks, Written(t)
      PROVE  TypeOK'
  <2>1. CASE Issue(t, "ROLLBACK", "rollback") /\ UNCHANGED <<lock, waiters, outcome>>
    BY <2>1, <1>1 DEF TypeOK, Await, Command
  <2>2. CASE /\ pc' = [pc EXCEPT ![t] = "body"]
             /\ result' = [result EXCEPT ![t] = "none"]
             /\ UNCHANGED <<lock, waiters, outcome, connVars>>
    BY <2>2 DEF TypeOK, connVars
  <2> QED
    BY <1>7, <2>1, <2>2 DEF Written, connVars
<1>8. ASSUME NEW t \in Tasks, Close(t)
      PROVE  TypeOK'
  BY <1>8, <1>1 DEF Close, TypeOK, Await, Command
<1>9. ASSUME NEW t \in Tasks, NEW how \in {"committed", "undone", "cancelled"},
             End(t, how), Release(t), UNCHANGED waiters
      PROVE  TypeOK'
  BY <1>9, <1>2 DEF TypeOK, Release, connVars
<1>10. ASSUME NEW t \in Tasks, Issue(t, "ROLLBACK", "rollback"),
              UNCHANGED <<lock, waiters>>,
              outcome' = outcome \/ outcome' = [outcome EXCEPT ![t] = "cancelled"]
       PROVE  TypeOK'
  BY <1>10, <1>1 DEF TypeOK, Await, Command
<1>11. ASSUME NEW t \in Tasks, Committed(t) \/ Finalized(t) \/ CancelBlock(t)
       PROVE  TypeOK'
  BY <1>9, <1>10, <1>11 DEF Committed, Finalized, CancelBlock
<1>12. ASSUME NEW t \in Tasks, RolledBack(t)
       PROVE  TypeOK'
  <2>1. (IF outcome[t] = "none" THEN "undone" ELSE outcome[t]) \in {"committed", "undone", "cancelled"}
    BY DEF TypeOK
  <2> QED
    BY <2>1, <1>9, <1>12 DEF RolledBack
<1>13. ASSUME NEW t \in Tasks, CancelExit(t)
       PROVE  TypeOK'
  BY <1>9, <1>13 DEF CancelExit
<1>14. ASSUME NEW t \in Tasks, CancelBegin(t)
       PROVE  TypeOK'
  BY <1>2, <1>14 DEF CancelBegin, TypeOK, connVars
<1>15. ASSUME NEW t \in Tasks, CancelWaiting(t)
       PROVE  TypeOK'
  <2>1. waiters' \in Seq(Tasks)
    <3>1. PICK k \in 1 .. Len(waiters) :
            waiters' = [i \in 1 .. Len(waiters) - 1 |->
                          IF i < k THEN waiters[i] ELSE waiters[i + 1]]
      BY <1>15 DEF CancelWaiting
    <3>2. waiters \in Seq(Tasks) /\ Len(waiters) \in Nat /\ Len(waiters) - 1 \in Nat
      BY DEF TypeOK
    <3>3. \A i \in 1 .. Len(waiters) - 1 :
            (IF i < k THEN waiters[i] ELSE waiters[i + 1]) \in Tasks
      BY <3>2
    <3> QED
      BY <3>1, <3>2, <3>3
  <2> QED
    BY <2>1, <1>2, <1>15 DEF CancelWaiting, TypeOK, connVars
<1>16. CASE Execute \/ Fail
  <2>1. /\ txn' \in Tasks \union {NoTask} /\ dirty' \subseteq Tasks
        /\ durable' \subseteq Tasks /\ wrote' \subseteq Tasks /\ collided' \in BOOLEAN
    <3>1. Head(queue) = queue[1] /\ queue[1].task \in Tasks /\ queue[1].cmd \in Command
      BY <1>16, WorkerStep DEF TypeOK
    <3>2. txn' \in Tasks \union {NoTask}
      BY <1>16, <3>1 DEF Execute, Fail, TypeOK, Command
    <3>3. dirty' \subseteq Tasks /\ durable' \subseteq Tasks /\ wrote' \subseteq Tasks
      <4>1. /\ dirty' = dirty \/ dirty' = {} \/ dirty' = dirty \union {queue[1].task}
            /\ durable' = durable \/ durable' = durable \union dirty
            /\ wrote' = wrote \/ wrote' = wrote \union {queue[1].task}
        BY <1>16, <3>1 DEF Execute, Fail, Command
      <4> QED
        BY <3>1, <4>1 DEF TypeOK
    <3>4. collided' \in BOOLEAN
      <4>1. collided' = TRUE \/ collided' = collided
        BY <1>16, <3>1 DEF Execute, Fail, Command
      <4> QED
        BY <4>1 DEF TypeOK
    <3> QED
      BY <3>2, <3>3, <3>4
  <2> QED
    BY <1>16, <2>1, WorkerStep DEF TypeOK
<1>17. CASE UNCHANGED vars
  BY <1>17 DEF vars, taskVars, connVars, TypeOK
<1> QED
  BY <1>3, <1>4, <1>5, <1>6, <1>7, <1>8, <1>11, <1>12, <1>13, <1>14, <1>15,
     <1>16, <1>17 DEF Next, TaskSteps, Cancelled

\* Who waits is in the queue of the lock, and who is inside has it.
LEMMA LockStep ==
  ASSUME IInv, [Next]_vars
  PROVE  LockInv'
<1> USE DEF IInv, Isolated
<1>1. TypeOK
  OBVIOUS
<1>2. ASSUME NEW t \in Tasks, Enter(t)
      PROVE  LockInv'
  <2>1. CASE lock = NoTask /\ waiters = <<>>
    BY <1>1, <1>2, <2>1, TaskAssumption DEF Enter, Issue, LockInv, TypeOK
  <2>2. CASE ~(lock = NoTask /\ waiters = <<>>)
    <3>1. /\ waiters' = Append(waiters, t) /\ pc' = [pc EXCEPT ![t] = "waiting"]
          /\ lock' = lock
      BY <1>2, <2>2 DEF Enter
    <3>2. /\ Len(waiters) \in Nat /\ Len(waiters') = Len(waiters) + 1
          /\ \A k \in 1 .. Len(waiters) : waiters'[k] = waiters[k]
          /\ waiters'[Len(waiters) + 1] = t
      BY <3>1 DEF TypeOK
    <3> QED
      BY <1>1, <3>1, <3>2 DEF LockInv, TypeOK
  <2> QED
    BY <2>1, <2>2
<1>3. ASSUME NEW t \in Tasks, Acquire(t)
      PROVE  LockInv'
  <2>1. waiters # <<>> /\ t = Head(waiters) /\ waiters' = Tail(waiters)
    BY <1>3 DEF Acquire, LockInv, TypeOK
  <2>2. /\ Len(waiters) \in Nat \ {0} /\ Len(waiters') = Len(waiters) - 1
        /\ \A k \in 1 .. Len(waiters) - 1 : waiters'[k] = waiters[k + 1]
        /\ waiters[1] = t
    BY <2>1 DEF TypeOK
  <2>3. ASSUME NEW u \in Tasks, u # t, NEW k \in 1 .. Len(waiters), waiters[k] = u
        PROVE  \E i \in 1 .. Len(waiters') : waiters'[i] = u
    <3>1. k - 1 \in 1 .. Len(waiters') /\ waiters'[k - 1] = u
      BY <2>2, <2>3
    <3> QED
      BY <3>1
  <2> QED
    BY <1>1, <1>3, <2>3, TaskAssumption DEF Acquire, Issue, LockInv, TypeOK
<1>4. ASSUME NEW t \in Tasks, CancelWaiting(t)
      PROVE  LockInv'
  <2>1. PICK k \in 1 .. Len(waiters) :
          waiters[k] = t /\ waiters' = [i \in 1 .. Len(waiters) - 1 |->
                                          IF i < k THEN waiters[i] ELSE waiters[i + 1]]
    BY <1>4 DEF CancelWaiting
  <2>2. Len(waiters) \in Nat /\ Len(waiters) - 1 \in Nat /\ Len(waiters') = Len(waiters) - 1
    BY <2>1 DEF TypeOK
  <2>3. ASSUME NEW u \in Tasks, u # t, NEW j \in 1 .. Len(waiters), waiters[j] = u
        PROVE  \E i \in 1 .. Len(waiters') : waiters'[i] = u
    <3>1. CASE j < k
      BY <2>1, <2>2, <2>3, <3>1
    <3>2. CASE j > k
      <4>1. j - 1 \in 1 .. Len(waiters') /\ waiters'[j - 1] = u
        BY <2>1, <2>2, <2>3, <3>2
      <4> QED
        BY <4>1
    <3> QED
      BY <2>1, <2>2, <2>3, <3>1, <3>2
  <2> QED
    BY <1>1, <1>4, <2>3 DEF CancelWaiting, End, LockInv, TypeOK
<1>5. ASSUME NEW t \in Tasks,
             Begun(t) \/ Written(t) \/ Close(t) \/ Write(t) \/ CancelBegin(t) \/ CancelBlock(t)
      PROVE  LockInv'
  BY <1>1, <1>5 DEF Begun, Written, Close, Write, CancelBegin, CancelBlock,
     Issue, End, Release, LockInv, TypeOK
<1>6. ASSUME NEW t \in Tasks,
             Committed(t) \/ RolledBack(t) \/ Finalized(t) \/ CancelExit(t)
      PROVE  LockInv'
  BY <1>1, <1>6 DEF Committed, RolledBack, Finalized, CancelExit,
     Issue, End, Release, LockInv, TypeOK
<1>7. CASE Execute \/ Fail
  BY <1>7, WorkerStep DEF LockInv
<1>8. CASE UNCHANGED vars
  BY <1>8 DEF vars, taskVars, LockInv
<1> QED
  BY <1>2, <1>3, <1>4, <1>5, <1>6, <1>7, <1>8 DEF Next, TaskSteps, Cancelled

\* A task is told its outcome once, and one that was told of its commit has no
\* open transaction.
LEMMA OutcomeStep ==
  ASSUME IInv, [Next]_vars
  PROVE  /\ OutcomeInv'
         /\ \A u \in Tasks : outcome[u] = "cancelled" => outcome'[u] = "cancelled"
<1> USE DEF IInv, Isolated
<1>1. TypeOK /\ OutcomeInv /\ LockInv
  OBVIOUS
<1>2. ASSUME NEW t \in Tasks, Enter(t) \/ Acquire(t) \/ Write(t) \/ Close(t)
      PROVE  OutcomeInv' /\ outcome' = outcome
  BY <1>1, <1>2 DEF Enter, Acquire, Write, Close, Issue, connVars, OutcomeInv, TypeOK
<1>3. ASSUME NEW t \in Tasks, Begun(t) \/ Written(t)
      PROVE  OutcomeInv' /\ outcome' = [outcome EXCEPT ![t] = outcome'[t]]
             /\ outcome[t] = "none"
  BY <1>1, <1>3 DEF Begun, Written, Issue, End, connVars, OutcomeInv, TypeOK
<1>4. ASSUME NEW t \in Tasks, CancelWaiting(t) \/ CancelBegin(t) \/ CancelBlock(t) \/ CancelExit(t)
      PROVE  OutcomeInv' /\ outcome' = [outcome EXCEPT ![t] = "cancelled"]
  BY <1>1, <1>4 DEF CancelWaiting, CancelBegin, CancelBlock, CancelExit,
     Issue, End, connVars, OutcomeInv, TypeOK
<1>5. ASSUME NEW t \in Tasks, Committed(t) \/ Finalized(t)
      PROVE  OutcomeInv' /\ outcome' = [outcome EXCEPT ![t] = outcome'[t]]
             /\ outcome[t] = "none"
  <2>1. lock = t /\ lock # NoTask
    BY <1>1, <1>5, TaskAssumption DEF Committed, Finalized, LockInv
  <2>2. result[t] = "ok" => txn = NoTask
    BY <1>5, <2>1 DEF QueueInv, Holds, Awaits, Committed, Finalized
  <2> QED
    BY <1>1, <1>5, <2>2, TaskAssumption DEF Committed, Finalized, Issue, End, connVars,
       OutcomeInv, TypeOK
<1>6. ASSUME NEW t \in Tasks, RolledBack(t)
      PROVE  OutcomeInv' /\ \A u \in Tasks : outcome[u] = "cancelled" => outcome'[u] = "cancelled"
  BY <1>1, <1>6 DEF RolledBack, End, connVars, OutcomeInv, TypeOK
<1>7. CASE Execute \/ Fail
  <2>1. pc' = pc /\ outcome' = outcome /\ queue[1].task \in Tasks /\ queue[1].cmd \in Command
        /\ Head(queue) = queue[1]
    BY <1>7, WorkerStep DEF TypeOK
  <2>2. \/ txn' = txn \/ txn' = NoTask
        \/ txn' = queue[1].task /\ queue[1].cmd = "BEGIN"
    BY <1>7, <2>1 DEF Execute, Fail, Command
  <2>3. queue[1].cmd = "BEGIN" => outcome[queue[1].task] # "committed"
    <3>1. Len(queue) \in Nat \ {0}
      BY <1>7, WorkerStep
    <3>2. CASE lock = NoTask
      BY <3>1, <3>2 DEF QueueInv, Before, Rest, Is
    <3>3. CASE lock # NoTask
      <4>1. lock \in Tasks /\ Holds(lock)
        BY <3>3 DEF QueueInv, TypeOK
      <4> QED
        BY <1>1, <3>1, <4>1 DEF Holds, BeginQueued, Awaits, RollingBack, Before, Rest, Is, OutcomeInv
    <3> QED
      BY <3>2, <3>3
  <2> QED
    BY <1>1, <2>1, <2>2, <2>3, TaskAssumption DEF OutcomeInv
<1>8. CASE UNCHANGED vars
  BY <1>8 DEF vars, taskVars, connVars, OutcomeInv
<1> QED
  BY <1>1, <1>2, <1>3, <1>4, <1>5, <1>6, <1>7, <1>8, WorkerStep
     DEF Next, TaskSteps, Cancelled, vars, taskVars, TypeOK

-----------------------------------------------------------------------------
(* The shape of the queue.                                                 *)

\* A task that takes the free lock puts its BEGIN behind what is there.
LEMMA BeginIssued ==
  ASSUME TypeOK, NEW t \in Tasks, lock = NoTask, Before(Len(queue)), pc[t] # "end",
         Issue(t, "BEGIN", "begin"), lock' = t, outcome' = outcome
  PROVE  QueueInv'
<1>1. PICK n \in Nat : n = Len(queue)
  BY QueueTyped
<1>2. /\ Len(queue') = n + 1
      /\ \A k \in 1 .. n : queue'[k] = queue[k]
      /\ queue'[n + 1] = [task |-> t, cmd |-> "BEGIN"]
  BY <1>1, QueueGrows DEF Command
<1>3. LeftOpen => LeftOpen'
  BY LeftOpenStable DEF Issue
<1>4. \A u \in Tasks : pc[u] = "end" => pc'[u] = "end" /\ u # t
  BY DEF Issue, TypeOK
<1>5. Before(n)'
  BY <1>1, <1>2, <1>3, <1>4, BeforeKept DEF Issue
<1>6. n = Len(queue') - 1 /\ Len(queue') > 0 /\ Len(queue') = n + 1
  BY <1>2
<1>7. Before(Len(queue) - 1)'
  BY <1>5, <1>6 DEF Before, Rest
<1>8. BeginQueued(t)'
  BY <1>2, <1>6, <1>7 DEF BeginQueued, Is
<1>9. pc'[t] = "begin" /\ result'[t] = "pending"
  BY DEF Issue, TypeOK
<1> QED
  BY <1>8, <1>9, TaskAssumption DEF QueueInv, Holds

\* A step of a task that neither has the lock nor has ended leaves the others
\* as they are.
LEMMA QueueKept ==
  ASSUME IInv, NEW t \in Tasks, t # lock, pc[t] # "end", lock' = lock,
         UNCHANGED connVars,
         \A u \in Tasks : u # t =>
           pc'[u] = pc[u] /\ result'[u] = result[u] /\ outcome'[u] = outcome[u],
         \A u \in Tasks : outcome[u] = "cancelled" => outcome'[u] = "cancelled"
  PROVE  QueueInv'
<1>1. PICK n \in Nat : n = Len(queue)
  BY QueueTyped DEF IInv, Isolated
<1>2. LeftOpen => LeftOpen'
  BY LeftOpenStable DEF IInv, Isolated, connVars
<1>3. ASSUME NEW m \in Nat, Before(m)
      PROVE  Before(m)'
  BY <1>2, <1>3, BeforeKept DEF connVars
<1>4. CASE lock = NoTask
  <2>1. Before(n)'
    BY <1>1, <1>3, <1>4 DEF IInv, QueueInv
  <2>2. n = Len(queue')
    BY <1>1 DEF connVars
  <2> QED
    BY <1>4, <2>1, <2>2 DEF QueueInv
<1>5. CASE lock # NoTask
  <2>1. lock \in Tasks /\ Holds(lock)
    BY <1>5 DEF IInv, Isolated, TypeOK, QueueInv
  <2>2. /\ pc'[lock] = pc[lock] /\ result'[lock] = result[lock]
        /\ outcome'[lock] = outcome[lock]
    BY <2>1
  <2>3. BeginQueued(lock) => BeginQueued(lock)'
    <3>1. SUFFICES ASSUME BeginQueued(lock)
                   PROVE  BeginQueued(lock)'
      OBVIOUS
    <3>2. n > 0 /\ n - 1 \in Nat /\ Before(n - 1)
      BY <1>1, <3>1 DEF BeginQueued
    <3>3. Before(n - 1)'
      BY <1>3, <3>2
    <3>4. n = Len(queue')
      BY <1>1 DEF connVars
    <3> QED
      BY <1>1, <3>1, <3>3, <3>4 DEF BeginQueued, Is, connVars
  <2>4. Holds(lock)'
    BY <1>2, <2>1, <2>2, <2>3 DEF Holds, Awaits, RollingBack, Is, connVars
  <2> QED
    BY <1>5, <2>4 DEF QueueInv
<1> QED
  BY <1>4, <1>5

\* What the last command on the queue comes to, when its issuer awaits it.
LEMMA LastRuns ==
  ASSUME TypeOK, Execute \/ Fail, Len(queue) = 1,
         NEW t \in Tasks, NEW cmd \in Command, Is(1, t, cmd), result[t] = "pending"
  PROVE  /\ queue[1] = [task |-> t, cmd |-> cmd]
         /\ Len(queue') = 0
         /\ \/ cmd = "BEGIN" /\ result'[t] = "ok" /\ txn' = t
            \/ cmd = "BEGIN" /\ result'[t] = "error" /\ txn' = txn
            \/ cmd = "WRITE" /\ result'[t] = "ok" /\ txn' = txn
            \/ cmd \in {"COMMIT", "ROLLBACK"} /\ result'[t] = "ok" /\ txn' = NoTask
            \/ [task |-> t, cmd |-> cmd] \in failed' /\ result'[t] = "error" /\ txn' = txn
<1>1. /\ queue[1] \in Queued /\ Head(queue) = queue[1] /\ Len(queue') = 0
  BY WorkerStep DEF TypeOK
<1>2. queue[1].task = t /\ queue[1].cmd = cmd
  BY DEF Is
<1>3. queue[1] = [task |-> t, cmd |-> cmd]
  BY <1>1, <1>2 DEF Queued
<1>4. ASSUME NEW ok \in BOOLEAN, Done(t, ok)
      PROVE  result'[t] = IF ok THEN "ok" ELSE "error"
  BY <1>4 DEF Done, TypeOK
<1>5. CASE Fail
  <2>1. Done(t, FALSE) /\ failed' = failed \union {queue[1]} /\ txn' = txn
    BY <1>1, <1>2, <1>5 DEF Fail
  <2>2. result'[t] = "error"
    BY <1>4, <2>1
  <2> QED
    BY <1>1, <1>3, <2>1, <2>2
<1>6. CASE Execute
  <2>1. CASE cmd = "BEGIN"
    <3>1. /\ Done(t, txn = NoTask)
          /\ txn = NoTask => txn' = t
          /\ txn # NoTask => txn' = txn
      BY <1>1, <1>2, <1>6, <2>1 DEF Execute
    <3>2. result'[t] = IF txn = NoTask THEN "ok" ELSE "error"
      BY <1>4, <3>1
    <3> QED
      BY <1>1, <1>3, <2>1, <3>1, <3>2
  <2>2. CASE cmd = "WRITE"
    <3>1. Done(t, TRUE) /\ txn' = txn
      BY <1>1, <1>2, <1>6, <2>2 DEF Execute
    <3> QED
      BY <1>1, <1>3, <1>4, <2>2, <3>1
  <2>3. CASE cmd \in {"COMMIT", "ROLLBACK"}
    <3>1. Done(t, TRUE) /\ txn' = NoTask
      BY <1>1, <1>2, <1>6, <2>3 DEF Execute
    <3> QED
      BY <1>1, <1>3, <1>4, <2>3, <3>1
  <2> QED
    BY <2>1, <2>2, <2>3 DEF Command
<1> QED
  BY <1>5, <1>6

\* The task that is inside a unit of work has the lock.
LEMMA Inside ==
  ASSUME IInv, NEW t \in Tasks, pc[t] \notin {"out", "waiting", "end"}
  PROVE  lock = t /\ lock # NoTask /\ Holds(t)
BY TaskAssumption DEF IInv, LockInv, QueueInv

\* A task that gives up the lock with nothing left to undo leaves an empty
\* queue and no transaction, or one that nobody could close.
LEMMA Released ==
  ASSUME lock' = NoTask, Len(queue') = 0, txn' # NoTask => LeftOpen'
  PROVE  QueueInv'
BY DEF QueueInv, Before

\* A task that issues a ROLLBACK behind at most one command of its own.
LEMMA RollbackIssued ==
  ASSUME TypeOK, NEW t \in Tasks, Issue(t, "ROLLBACK", "rollback"), lock' = t,
         \/ Len(queue) = 0 /\ txn \in {t, NoTask}
         \/ /\ Len(queue) = 1 /\ txn = t
            /\ \/ Is(1, t, "WRITE") \/ Is(1, t, "ROLLBACK")
               \/ Is(1, t, "COMMIT") /\ outcome'[t] = "cancelled"
  PROVE  QueueInv'
<1>1. /\ Len(queue) \in Nat /\ Len(queue') = Len(queue) + 1
      /\ \A k \in 1 .. Len(queue) : queue'[k] = queue[k]
      /\ queue'[Len(queue) + 1] = [task |-> t, cmd |-> "ROLLBACK"]
  BY QueueGrows DEF Command
<1>2. pc'[t] = "rollback" /\ result'[t] = "pending" /\ txn' = txn
  BY DEF Issue, TypeOK
<1>3. RollingBack(t)'
  <2>1. CASE Len(queue) = 0
    BY <1>1, <1>2, <2>1 DEF RollingBack, Is
  <2>2. CASE Len(queue) = 1
    <3>1. queue'[1] = queue[1] /\ Len(queue') = 2 /\ queue'[2] = [task |-> t, cmd |-> "ROLLBACK"]
      BY <1>1, <2>2
    <3> QED
      BY <1>2, <2>2, <3>1 DEF RollingBack, Is
  <2> QED
    BY <2>1, <2>2
<1>4. Holds(t)'
  BY <1>2, <1>3 DEF Holds
<1> QED
  BY <1>4, TaskAssumption DEF QueueInv

\* The worker's step, from what the task with the lock is waiting for.
LEMMA QueueWorker ==
  ASSUME IInv, Execute \/ Fail
  PROVE  QueueInv'
<1> USE DEF IInv, Isolated
<1>1. PICK n \in Nat : n = Len(queue) /\ n # 0
  BY WorkerStep
<1>2. /\ lock' = lock /\ pc' = pc /\ outcome' = outcome /\ Len(queue') = n - 1
      /\ \A k \in 1 .. n - 1 : queue'[k] = queue[k + 1]
      /\ failed \subseteq failed'
  BY <1>1, WorkerStep
<1>3. LeftOpen => LeftOpen'
  BY <1>2, LeftOpenStable
<1>4. CASE lock = NoTask
  <2>1. PICK u \in Tasks : Rest(u, n)
    BY <1>1, <1>4 DEF QueueInv, Before
  <2>2. Before(n - 1)'
    BY <1>1, <2>1, RestRuns
  <2> QED
    BY <1>2, <1>4, <2>2 DEF QueueInv
<1>5. CASE lock # NoTask
  <2> DEFINE t == lock
  <2>1. t \in Tasks /\ Holds(t)
    BY <1>5 DEF QueueInv, TypeOK
  <2>2. CASE BeginQueued(t) /\ n > 1
    <3>1. PICK u \in Tasks : Rest(u, n - 1)
      BY <1>1, <2>2 DEF BeginQueued, Before
    <3>2. Before(n - 1 - 1)'
      BY <1>1, <2>2, <3>1, RestRuns
    <3>3. queue'[n - 1] = queue[n]
      BY <1>2, <2>2
    <3>4. u # t /\ queue[1].task = u
      BY <3>1 DEF Rest, Is
    <3>5. result'[t] = result[t]
      BY <2>1, <3>4, WorkerStep
    <3>6. BeginQueued(t)'
      BY <1>1, <1>2, <2>2, <3>2, <3>3 DEF BeginQueued, Is
    <3>7. Holds(t)'
      BY <1>1, <1>2, <2>1, <2>2, <3>5, <3>6 DEF Holds, BeginQueued, Awaits, RollingBack, Is
    <3> QED
      BY <1>2, <1>5, <3>7 DEF QueueInv
  <2>3. CASE BeginQueued(t) /\ n = 1
    <3>1. Is(1, t, "BEGIN") /\ (txn # NoTask => LeftOpen)
      BY <1>1, <2>3 DEF BeginQueued, Before, Rest
    <3>2. CASE pc[t] = "begin" /\ result[t] = "pending"
      <4>1. \/ result'[t] = "ok" /\ txn' = t
            \/ result'[t] = "error" /\ txn' = txn
        BY <1>1, <2>1, <2>3, <3>1, <3>2, LastRuns DEF Command
      <4>2. Holds(t)'
        BY <1>2, <1>3, <2>3, <3>1, <3>2, <4>1 DEF Holds
      <4> QED
        BY <1>2, <1>5, <4>2 DEF QueueInv
    <3>3. CASE pc[t] = "end" /\ outcome[t] = "cancelled" /\ result[t] = "none"
      <4>1. result'[t] = "none"
        BY <2>1, <3>1, <3>3, WorkerStep DEF Is
      <4>2. Holds(t)'
        BY <1>2, <2>3, <3>3, <4>1 DEF Holds
      <4> QED
        BY <1>2, <1>5, <4>2 DEF QueueInv
    <3> QED
      BY <1>1, <2>1, <2>3, <3>1, <3>2, <3>3 DEF Holds, Awaits, RollingBack, Is
  <2>4. ASSUME NEW cmd \in Command, Awaits(t, cmd)
        PROVE  /\ Len(queue') = 0
               /\ \/ cmd = "WRITE" /\ result'[t] = "ok" /\ txn' = t
                  \/ cmd \in {"COMMIT", "ROLLBACK"} /\ result'[t] = "ok" /\ txn' = NoTask
                  \/ cmd = "BEGIN"
                  \/ Awaits(t, cmd)'
    <3>1. Len(queue) = 1 /\ Is(1, t, cmd) /\ result[t] = "pending" /\ txn = t
      BY <1>1, <2>4 DEF Awaits
    <3> QED
      BY <1>2, <2>1, <3>1, LastRuns DEF Awaits
  <2>5. CASE pc[t] = "write"
    <3>1. Awaits(t, "WRITE")
      BY <1>1, <2>1, <2>5 DEF Holds
    <3>2. Holds(t)'
      BY <1>2, <2>4, <2>5, <3>1 DEF Holds, Command
    <3> QED
      BY <1>2, <1>5, <3>2 DEF QueueInv
  <2>6. CASE pc[t] \in {"commit", "xcommit"}
    <3>1. Awaits(t, "COMMIT")
      BY <1>1, <2>1, <2>6 DEF Holds
    <3>2. Holds(t)'
      BY <1>2, <2>4, <2>6, <3>1 DEF Holds, Command
    <3> QED
      BY <1>2, <1>5, <3>2 DEF QueueInv
  <2>7. CASE pc[t] = "xrollback"
    <3>1. Awaits(t, "ROLLBACK")
      BY <1>1, <2>1, <2>7 DEF Holds
    <3>2. Holds(t)'
      BY <1>2, <2>4, <2>7, <3>1 DEF Holds, Command
    <3> QED
      BY <1>2, <1>5, <3>2 DEF QueueInv
  <2>8. CASE pc[t] = "rollback"
    <3>1. RollingBack(t)
      BY <2>1, <2>8 DEF Holds
    <3>2. CASE n = 1
      <4>1. Is(1, t, "ROLLBACK") /\ result[t] = "pending" /\ txn \in {t, NoTask}
        BY <1>1, <3>1, <3>2 DEF RollingBack
      <4>2. \/ result'[t] = "ok" /\ txn' = NoTask
            \/ /\ [task |-> t, cmd |-> "ROLLBACK"] \in failed'
               /\ result'[t] = "error" /\ txn' = txn
        BY <1>1, <2>1, <3>2, <4>1, LastRuns DEF Command
      <4>3. [task |-> t, cmd |-> "ROLLBACK"] \in failed' => LeftOpen'
        BY DEF LeftOpen
      <4>4. RollingBack(t)'
        BY <1>2, <3>2, <4>1, <4>2, <4>3 DEF RollingBack
      <4> QED
        BY <1>2, <1>5, <2>8, <4>4 DEF QueueInv, Holds
    <3>3. CASE n = 2
      <4>1. /\ Is(2, t, "ROLLBACK") /\ result[t] = "pending" /\ txn = t
            /\ queue[1].task = t /\ queue[1].cmd \in {"WRITE", "COMMIT", "ROLLBACK"}
        BY <1>1, <3>1, <3>3 DEF RollingBack, Is
      <4>2. result'[t] = "pending"
        BY <1>1, <3>3, <4>1, WorkerStep DEF Is
      <4>3. Head(queue) = queue[1]
        BY WorkerStep DEF TypeOK
      <4>4. txn' \in {txn, NoTask}
        BY <4>1, <4>3 DEF Execute, Fail
      <4>5. RollingBack(t)'
        BY <1>2, <3>3, <4>1, <4>2, <4>4 DEF RollingBack, Is
      <4> QED
        BY <1>2, <1>5, <2>8, <4>5 DEF QueueInv, Holds
    <3> QED
      BY <1>1, <3>1, <3>2, <3>3 DEF RollingBack
  <2> QED
    BY <1>1, <2>1, <2>2, <2>3, <2>5, <2>6, <2>7, <2>8 DEF Holds
<1> QED
  BY <1>4, <1>5

\* Every step keeps the shape of the queue.
LEMMA QueueStep ==
  ASSUME IInv, [Next]_vars
  PROVE  QueueInv'
<1> USE DEF IInv, Isolated
<1>1. PICK n \in Nat : n = Len(queue)
  BY QueueTyped
<1>2. \A u \in Tasks : outcome[u] = "cancelled" => outcome'[u] = "cancelled"
  BY OutcomeStep
<1>3. failed' = failed => (LeftOpen => LeftOpen')
  BY <1>2, LeftOpenStable
<1>4. ASSUME NEW t \in Tasks, Enter(t)
      PROVE  QueueInv'
  <2>1. t # lock
    BY <1>4, HolderBusy, TaskAssumption DEF Enter
  <2>2. CASE lock = NoTask /\ waiters = <<>>
    BY <1>4, <2>2, BeginIssued DEF Enter, QueueInv
  <2>3. CASE ~(lock = NoTask /\ waiters = <<>>)
    BY <1>2, <1>4, <2>1, <2>3, QueueKept DEF Enter, TypeOK
  <2> QED
    BY <2>2, <2>3
<1>5. ASSUME NEW t \in Tasks, Acquire(t)
      PROVE  QueueInv'
  BY <1>5, BeginIssued DEF Acquire, QueueInv
<1>6. ASSUME NEW t \in Tasks, CancelWaiting(t)
      PROVE  QueueInv'
  <2>1. t # lock
    BY <1>6, HolderBusy, TaskAssumption DEF CancelWaiting
  <2> QED
    BY <1>2, <1>6, <2>1, QueueKept DEF CancelWaiting, End, TypeOK
<1>7. ASSUME NEW t \in Tasks, Begun(t)
      PROVE  QueueInv'
  <2>1. lock = t /\ lock # NoTask /\ Holds(t) /\ queue' = queue /\ txn' = txn /\ failed' = failed
    BY <1>7, Inside DEF Begun, End, connVars
  <2>2. CASE result[t] = "ok"
    <3>1. Len(queue) = 0 /\ txn = t
      BY <1>7, <2>1, <2>2 DEF Begun, Holds
    <3>2. lock' = t /\ pc'[t] = "body"
      BY <1>7, <2>1, <2>2 DEF Begun, TypeOK
    <3> QED
      BY <2>1, <3>1, <3>2 DEF QueueInv, Holds
  <2>3. CASE result[t] = "error"
    <3>1. Len(queue) = 0 /\ (txn # NoTask => LeftOpen)
      BY <1>7, <2>1, <2>3 DEF Begun, Holds
    <3>2. lock' = NoTask
      BY <1>7, <2>3 DEF Begun, Release
    <3> QED
      BY <1>3, <2>1, <3>1, <3>2, Released
  <2> QED
    BY <1>7, <2>2, <2>3 DEF Begun
<1>8. ASSUME NEW t \in Tasks, NEW cmd \in Command, NEW p, Issue(t, cmd, p),
             pc[t] = "body", lock' = lock
      PROVE  /\ lock = t /\ lock' # NoTask /\ pc'[t] = p
             /\ Awaits(t, cmd)'
             /\ Len(queue) = 0 /\ txn = t
  <2>1. lock = t /\ lock # NoTask /\ Holds(t)
    BY <1>8, Inside
  <2>2. Len(queue) = 0 /\ txn = t
    BY <1>8, <2>1 DEF Holds
  <2>3. Len(queue') = 1 /\ queue'[1] = [task |-> t, cmd |-> cmd]
    BY <1>8, <2>2, QueueGrows
  <2>4. pc'[t] = p /\ result'[t] = "pending" /\ txn' = txn
    BY <1>8 DEF Issue, TypeOK
  <2> QED
    BY <1>8, <2>1, <2>2, <2>3, <2>4 DEF Awaits, Is
<1>9. ASSUME NEW t \in Tasks, Write(t)
      PROVE  QueueInv'
  <2>1. lock' = t /\ lock' # NoTask /\ pc'[t] = "write" /\ Awaits(t, "WRITE")'
    BY <1>8, <1>9 DEF Write, Command
  <2> QED
    BY <2>1 DEF QueueInv, Holds
<1>10. ASSUME NEW t \in Tasks, Close(t)
       PROVE  QueueInv'
  <2>1. CASE Issue(t, "ROLLBACK", "rollback")
    <3>1. lock' = t /\ Len(queue) = 0 /\ txn = t
      BY <1>8, <1>10, <2>1 DEF Close, Command
    <3> QED
      BY <2>1, <3>1, RollbackIssued
  <2>2. CASE Issue(t, "COMMIT", "commit") \/ Issue(t, "COMMIT", "xcommit")
    <3>1. /\ lock' = t /\ lock' # NoTask /\ pc'[t] \in {"commit", "xcommit"}
          /\ Awaits(t, "COMMIT")'
      BY <1>8, <1>10, <2>2 DEF Close, Command
    <3> QED
      BY <3>1 DEF QueueInv, Holds
  <2>3. CASE Issue(t, "ROLLBACK", "xrollback")
    <3>1. /\ lock' = t /\ lock' # NoTask /\ pc'[t] = "xrollback"
          /\ Awaits(t, "ROLLBACK")'
      BY <1>8, <1>10, <2>3 DEF Close, Command
    <3> QED
      BY <3>1 DEF QueueInv, Holds
  <2> QED
    BY <1>10, <2>1, <2>2, <2>3 DEF Close
<1>11. ASSUME NEW t \in Tasks, Written(t)
       PROVE  QueueInv'
  <2>1. lock = t /\ lock # NoTask /\ Holds(t) /\ lock' = t
    BY <1>11, Inside DEF Written
  <2>2. Len(queue) = 0 /\ txn = t
    BY <1>11, <2>1 DEF Written, Holds, Awaits
  <2>3. CASE result[t] = "ok"
    <3>1. queue' = queue /\ txn' = txn /\ pc'[t] = "body"
      BY <1>11, <2>3 DEF Written, connVars, TypeOK
    <3> QED
      BY <2>1, <2>2, <3>1 DEF QueueInv, Holds
  <2>4. CASE Issue(t, "ROLLBACK", "rollback")
    BY <2>1, <2>2, <2>4, RollbackIssued
  <2> QED
    BY <1>11, <2>3, <2>4 DEF Written
<1>12. ASSUME NEW t \in Tasks, Committed(t) \/ Finalized(t)
       PROVE  QueueInv'
  <2>1. lock = t /\ lock # NoTask /\ Holds(t)
    BY <1>12, Inside DEF Committed, Finalized
  <2>2. CASE result[t] = "ok"
    <3>1. Len(queue) = 0 /\ txn = NoTask
      BY <1>12, <2>1, <2>2 DEF Committed, Finalized, Holds, Awaits
    <3>2. lock' = NoTask /\ queue' = queue /\ txn' = txn
      BY <1>12, <2>2 DEF Committed, Finalized, Release, End, connVars
    <3> QED
      BY <3>1, <3>2, Released
  <2>3. CASE result[t] = "error"
    <3>1. Len(queue) = 0 /\ txn = t
      BY <1>12, <2>1, <2>3 DEF Committed, Finalized, Holds, Awaits
    <3>2. lock' = t /\ Issue(t, "ROLLBACK", "rollback")
      BY <1>12, <2>1, <2>3 DEF Committed, Finalized
    <3> QED
      BY <3>1, <3>2, RollbackIssued
  <2> QED
    BY <1>12, <2>2, <2>3 DEF Committed, Finalized
<1>13. ASSUME NEW t \in Tasks, RolledBack(t)
       PROVE  QueueInv'
  <2>1. lock = t /\ lock # NoTask /\ Holds(t)
    BY <1>13, Inside DEF RolledBack
  <2>2. Len(queue) = 0 /\ (txn # NoTask => LeftOpen)
    BY <1>13, <2>1 DEF RolledBack, Holds, RollingBack
  <2>3. lock' = NoTask /\ queue' = queue /\ txn' = txn /\ failed' = failed
    BY <1>13 DEF RolledBack, Release, End, connVars
  <2> QED
    BY <1>3, <2>2, <2>3, Released
<1>14. ASSUME NEW t \in Tasks, CancelBegin(t)
       PROVE  QueueInv'
  <2>1. lock = t /\ lock # NoTask /\ Holds(t)
    BY <1>14, Inside DEF CancelBegin
  <2>2. /\ UNCHANGED <<queue, txn, failed>> /\ lock' = lock
        /\ pc'[t] = "end" /\ outcome'[t] = "cancelled" /\ result'[t] = "none"
        /\ \A u \in Tasks : u # t => pc'[u] = pc[u] /\ outcome'[u] = outcome[u]
    BY <1>14 DEF CancelBegin, End, connVars, TypeOK
  <2>3. CASE BeginQueued(t)
    <3>1. n > 0 /\ n - 1 \in Nat /\ Before(n - 1)
      BY <1>1, <2>3 DEF BeginQueued
    <3>2. Before(n - 1)'
      BY <1>3, <2>1, <2>2, <3>1, BeforeKept
    <3>3. n = Len(queue')
      BY <1>1, <2>2
    <3>4. BeginQueued(t)'
      BY <1>1, <2>2, <2>3, <3>1, <3>2, <3>3 DEF BeginQueued, Is
    <3> QED
      BY <2>1, <2>2, <3>4 DEF QueueInv, Holds
  <2>4. CASE Len(queue) = 0
    BY <2>1, <2>2, <2>4 DEF QueueInv, Holds
  <2> QED
    BY <1>14, <2>1, <2>3, <2>4 DEF Holds, CancelBegin
<1>15. ASSUME NEW t \in Tasks, CancelBlock(t)
       PROVE  QueueInv'
  <2>1. lock = t /\ lock # NoTask /\ Holds(t) /\ lock' = t
    BY <1>15, Inside DEF CancelBlock
  <2>2. /\ Issue(t, "ROLLBACK", "rollback") /\ outcome'[t] = "cancelled"
        /\ pc[t] \in {"write", "xcommit", "xrollback"}
    BY <1>15 DEF CancelBlock, TypeOK
  <2>3. \/ Len(queue) = 0 /\ txn \in {t, NoTask}
        \/ /\ Len(queue) = 1 /\ txn = t
           /\ \/ Is(1, t, "WRITE") \/ Is(1, t, "ROLLBACK") \/ Is(1, t, "COMMIT")
    BY <2>1, <2>2 DEF Holds, Awaits
  <2> QED
    BY <2>1, <2>2, <2>3, RollbackIssued
<1>16. ASSUME NEW t \in Tasks, CancelExit(t)
       PROVE  QueueInv'
  <2>1. lock = t /\ lock # NoTask /\ Holds(t) /\ pc[t] \in {"commit", "rollback"}
    BY <1>16, Inside DEF CancelExit
  <2>2. /\ UNCHANGED <<queue, txn, failed>> /\ lock' = NoTask
        /\ pc'[t] = "end" /\ outcome'[t] = "cancelled"
    BY <1>16 DEF CancelExit, Release, End, connVars, TypeOK
  <2>3. CASE n = 0
    <3>1. txn # NoTask => LeftOpen \/ [task |-> t, cmd |-> "COMMIT"] \in failed
      BY <1>1, <2>1, <2>3 DEF Holds, Awaits, RollingBack
    <3>2. [task |-> t, cmd |-> "COMMIT"] \in failed => LeftOpen'
      BY <2>2 DEF LeftOpen
    <3> QED
      BY <1>1, <1>3, <2>2, <2>3, <3>1, <3>2, Released
  <2>4. CASE n # 0
    <3>1. /\ n = Len(queue')
          /\ \/ n = 1 /\ Is(1, t, "COMMIT") /\ txn = t
             \/ n = 1 /\ Is(1, t, "ROLLBACK") /\ txn \in {t, NoTask}
             \/ /\ n = 2 /\ Is(2, t, "ROLLBACK") /\ txn = t
                /\ Is(1, t, "WRITE") \/ Is(1, t, "COMMIT") \/ Is(1, t, "ROLLBACK")
      BY <1>1, <2>1, <2>2, <2>4 DEF Holds, Awaits, RollingBack
    <3>2. Rest(t, n)'
      BY <2>1, <2>2, <3>1 DEF Rest, Is
    <3> QED
      BY <2>2, <3>1, <3>2 DEF QueueInv, Before
  <2> QED
    BY <2>3, <2>4
<1>17. CASE Execute \/ Fail
  BY <1>17, QueueWorker
<1>18. CASE UNCHANGED vars
  <2>1. ASSUME NEW m \in Nat, Before(m)
        PROVE  Before(m)'
    BY <1>3, <1>18, <2>1, BeforeKept DEF vars, taskVars, connVars
  <2>2. n = Len(queue')
    BY <1>1, <1>18 DEF vars, connVars
  <2>3. CASE lock = NoTask
    <3>1. Before(n)'
      BY <1>1, <2>1, <2>3 DEF QueueInv
    <3> QED
      BY <1>18, <2>2, <2>3, <3>1 DEF QueueInv, vars
  <2>4. CASE lock # NoTask
    <3>1. BeginQueued(lock) => n > 0 /\ n - 1 \in Nat /\ Before(n - 1)
      BY <1>1 DEF BeginQueued
    <3>2. BeginQueued(lock) => BeginQueued(lock)'
      <4>1. SUFFICES ASSUME BeginQueued(lock)
                     PROVE  BeginQueued(lock)'
        OBVIOUS
      <4>2. Before(n - 1)'
        BY <2>1, <3>1, <4>1
      <4> QED
        BY <1>1, <1>18, <2>2, <4>1, <4>2 DEF BeginQueued, Is, vars, connVars
    <3>3. Holds(lock)'
      BY <1>3, <1>18, <2>4, <3>2
         DEF QueueInv, Holds, Awaits, RollingBack, Is, vars, taskVars, connVars
    <3> QED
      BY <1>18, <2>4, <3>3 DEF QueueInv, vars
  <2> QED
    BY <2>3, <2>4
<1> QED
  BY <1>4, <1>5, <1>6, <1>7, <1>9, <1>10, <1>11, <1>12, <1>13, <1>14, <1>15,
     <1>16, <1>17, <1>18 DEF Next, TaskSteps, Cancelled

-----------------------------------------------------------------------------
(* Isolation and truthful outcomes.                                        *)

\* What the command the worker executes next finds on the connection.
LEMMA HeadOwner ==
  ASSUME IInv, Execute \/ Fail
  PROVE  LET t == queue[1].task IN
         /\ queue[1].cmd = "BEGIN" => (txn # NoTask => LeftOpen)
         /\ queue[1].cmd \in {"WRITE", "COMMIT"} => txn = t
         /\ queue[1].cmd = "COMMIT" =>
              \/ outcome[t] = "cancelled"
              \/ pc[t] \in {"commit", "xcommit"} /\ Len(queue) = 1 /\ result[t] = "pending"
<1> USE DEF IInv, Isolated
<1>1. PICK n \in Nat : n = Len(queue) /\ n # 0
  BY WorkerStep
<1>2. ASSUME NEW u \in Tasks, NEW m, Rest(u, m)
      PROVE  /\ queue[1].task = u /\ outcome[u] = "cancelled"
             /\ queue[1].cmd # "BEGIN"
             /\ queue[1].cmd \in {"WRITE", "COMMIT"} => txn = u
  BY <1>2 DEF Rest, Is
<1>3. CASE lock = NoTask
  BY <1>1, <1>2, <1>3 DEF QueueInv, Before
<1>4. CASE lock # NoTask
  <2>1. lock \in Tasks /\ Holds(lock)
    BY <1>4 DEF QueueInv, TypeOK
  <2>2. CASE BeginQueued(lock)
    <3>1. CASE \E u \in Tasks : Rest(u, n - 1)
      BY <1>2, <3>1
    <3>2. CASE n = 1 /\ (txn # NoTask => LeftOpen)
      BY <1>1, <2>2, <3>2 DEF BeginQueued, Is
    <3> QED
      BY <1>1, <2>2, <3>1, <3>2 DEF BeginQueued, Before
  <2>3. CASE ~BeginQueued(lock)
    BY <1>1, <2>1, <2>3 DEF Holds, Awaits, RollingBack, Is
  <2> QED
    BY <2>2, <2>3
<1> QED
  BY <1>3, <1>4

\* A step of a task does not execute commands.
LEMMA ConnectionKept ==
  ASSUME [Next]_vars, ~(Execute \/ Fail)
  PROVE  UNCHANGED <<txn, dirty, durable, wrote, collided, failed>>
<1>1. ASSUME NEW t \in Tasks, Enter(t) \/ Acquire(t) \/ Begun(t) \/ Write(t) \/ Written(t) \/ Close(t)
      PROVE  UNCHANGED <<txn, dirty, durable, wrote, collided, failed>>
  BY <1>1 DEF Enter, Acquire, Begun, Write, Written, Close, Issue, End, connVars
<1>2. ASSUME NEW t \in Tasks, Committed(t) \/ RolledBack(t) \/ Finalized(t) \/ Cancelled(t)
      PROVE  UNCHANGED <<txn, dirty, durable, wrote, collided, failed>>
  BY <1>2 DEF Committed, RolledBack, Finalized, Cancelled, CancelWaiting, CancelBegin,
     CancelBlock, CancelExit, Issue, End, connVars
<1>3. CASE UNCHANGED vars
  BY <1>3 DEF vars, connVars
<1> QED
  BY <1>1, <1>2, <1>3 DEF Next, TaskSteps

\* Every step keeps the units of work isolated.
LEMMA IsolatedStep ==
  ASSUME IInv, [Next]_vars
  PROVE  Isolated'
<1>1. TypeOK'
  BY TypeStep
<1>2. failed \subseteq failed' => (LeftOpen => LeftOpen')
  BY OutcomeStep, LeftOpenStable DEF IInv, Isolated
<1>3. CASE Execute \/ Fail
  <2>1. /\ Head(queue) = queue[1] /\ queue[1].task \in Tasks
        /\ queue[1].cmd \in Command /\ failed \subseteq failed'
    BY <1>3, WorkerStep DEF IInv, Isolated, TypeOK
  <2>2. /\ dirty \subseteq {txn} /\ (txn = NoTask => dirty = {})
    BY TaskAssumption DEF IInv, Isolated, TypeOK
  <2>3. dirty' \subseteq {txn'}
    <3>1. \/ dirty' = {}
          \/ dirty' = dirty /\ (txn' = txn \/ txn = NoTask)
          \/ dirty' = dirty \union {queue[1].task} /\ txn' = txn /\ queue[1].cmd = "WRITE"
      BY <1>3, <2>1 DEF Execute, Fail, Command
    <3> QED
      BY <1>3, <2>2, <3>1, HeadOwner
  <2>4. collided' => LeftOpen'
    <3>1. \/ collided' = collided
          \/ queue[1].cmd = "BEGIN" /\ txn # NoTask
      BY <1>3, <2>1 DEF Execute, Fail, Command
    <3> QED
      BY <1>2, <1>3, <2>1, <3>1, HeadOwner DEF IInv, Isolated
  <2> QED
    BY <1>1, <2>3, <2>4 DEF Isolated
<1>4. CASE ~(Execute \/ Fail)
  <2>1. UNCHANGED <<txn, dirty, collided, failed>>
    BY <1>4, ConnectionKept
  <2> QED
    BY <1>1, <1>2, <2>1 DEF IInv, Isolated
<1> QED
  BY <1>3, <1>4

\* Writes become durable with the commit that their task awaits, or that it
\* was cancelled in.
LEMMA DurableStep ==
  ASSUME IInv, [Next]_vars
  PROVE  DurableInv'
<1> USE DEF IInv, Isolated
<1>1. TypeOK /\ OutcomeInv /\ DurableInv
  OBVIOUS
<1>2. CASE Execute \/ Fail
  <2> DEFINE h == queue[1].task
  <2>1. /\ Head(queue) = queue[1] /\ h \in Tasks
        /\ queue[1].cmd \in Command /\ pc' = pc /\ outcome' = outcome
        /\ \A u \in Tasks : result[u] # "pending" => result'[u] = result[u]
    BY <1>2, WorkerStep DEF TypeOK
  <2>2. SUFFICES ASSUME NEW u \in durable'
                 PROVE  \/ outcome'[u] \in {"committed", "cancelled"}
                        \/ pc'[u] \in {"commit", "xcommit"} /\ result'[u] = "ok"
    BY DEF DurableInv
  <2>3. CASE u \in durable
    BY <1>1, <2>1, <2>3 DEF DurableInv, TypeOK
  <2>4. CASE u \notin durable
    <3>1. u \in dirty /\ queue[1].cmd = "COMMIT" /\ Execute
      BY <1>2, <2>1, <2>2, <2>4 DEF Execute, Fail, Command
    <3>2. u = h
      BY <1>2, <3>1, HeadOwner
    <3>3. CASE outcome[h] = "cancelled"
      BY <2>1, <3>2, <3>3
    <3>4. CASE pc[h] \in {"commit", "xcommit"} /\ Len(queue) = 1 /\ result[h] = "pending"
      <4>1. Done(h, TRUE)
        BY <2>1, <3>1 DEF Execute
      <4>2. result'[h] = "ok"
        BY <2>1, <3>4, <4>1 DEF Done, TypeOK
      <4> QED
        BY <2>1, <3>2, <3>4, <4>2
    <3> QED
      BY <1>2, <3>1, <3>3, <3>4, HeadOwner
  <2> QED
    BY <2>3, <2>4
<1>3. CASE ~(Execute \/ Fail)
  <2>1. durable' = durable
    BY <1>3, ConnectionKept
  <2>2. ASSUME NEW t \in Tasks, Enter(t) \/ Acquire(t) \/ Begun(t) \/ Write(t) \/ Written(t) \/ Close(t)
        PROVE  DurableInv'
    BY <1>1, <2>1, <2>2 DEF Enter, Acquire, Begun, Write, Written, Close, Issue, End,
       DurableInv, OutcomeInv, TypeOK
  <2>3. ASSUME NEW t \in Tasks, Committed(t) \/ RolledBack(t) \/ Finalized(t)
        PROVE  DurableInv'
    BY <1>1, <2>1, <2>3 DEF Committed, RolledBack, Finalized, Issue, End,
       DurableInv, OutcomeInv, TypeOK
  <2>4. ASSUME NEW t \in Tasks, Cancelled(t)
        PROVE  DurableInv'
    BY <1>1, <2>1, <2>4 DEF Cancelled, CancelWaiting, CancelBegin, CancelBlock, CancelExit,
       Issue, End, DurableInv, OutcomeInv, TypeOK
  <2>5. CASE UNCHANGED vars
    BY <1>1, <2>5 DEF vars, taskVars, connVars, DurableInv
  <2> QED
    BY <1>3, <2>2, <2>3, <2>4, <2>5 DEF Next, TaskSteps
<1> QED
  BY <1>2, <1>3

\* Whose command the worker executes next, and where that task is.
LEMMA HeadShape ==
  ASSUME IInv, Execute \/ Fail
  PROVE  LET t == queue[1].task IN
         /\ outcome[t] \in {"none", "cancelled"}
         /\ queue[1].cmd = "BEGIN" => pc[t] \in {"begin", "end"}
         /\ queue[1].cmd = "WRITE" => pc[t] \in {"write", "rollback", "end"}
         /\ queue[1].cmd = "ROLLBACK" => /\ pc[t] \in {"rollback", "xrollback", "end"}
                                         /\ txn \in {t, NoTask}
         /\ queue[1].cmd = "WRITE" => \A k \in 1 .. Len(queue) : ~Is(k, t, "BEGIN")
<1> USE DEF IInv, Isolated
<1>1. PICK n \in Nat : n = Len(queue) /\ n # 0
  BY WorkerStep
<1>2. ASSUME NEW u \in Tasks, NEW m, Rest(u, m)
      PROVE  /\ queue[1].task = u /\ pc[u] = "end" /\ outcome[u] = "cancelled" /\ u # lock
             /\ m \in {1, 2} /\ \A k \in 1 .. m : queue[k].cmd # "BEGIN"
             /\ queue[1].cmd \in {"WRITE", "COMMIT", "ROLLBACK"}
             /\ queue[1].cmd = "ROLLBACK" => txn \in {u, NoTask}
  BY <1>2 DEF Rest, Is
<1>3. CASE lock = NoTask
  <2>1. PICK u \in Tasks : Rest(u, n)
    BY <1>1, <1>3 DEF QueueInv, Before
  <2> QED
    BY <1>1, <1>2, <2>1 DEF Is
<1>4. CASE lock # NoTask
  <2>1. lock \in Tasks /\ Holds(lock)
    BY <1>4 DEF QueueInv, TypeOK
  <2>2. CASE BeginQueued(lock)
    <3>1. queue[n].task = lock /\ queue[n].cmd = "BEGIN"
      BY <1>1, <2>2 DEF BeginQueued, Is
    <3>2. ASSUME NEW u \in Tasks, Rest(u, n - 1)
          PROVE  \A k \in 1 .. Len(queue) : ~Is(k, u, "BEGIN")
      <4>1. \A k \in 1 .. n - 1 : queue[k].cmd # "BEGIN"
        BY <1>2, <3>2
      <4>2. queue[n].task # u
        BY <1>2, <3>1, <3>2
      <4> QED
        BY <1>1, <4>1, <4>2 DEF Is
    <3>3. CASE \E u \in Tasks : Rest(u, n - 1)
      BY <1>2, <3>2, <3>3
    <3>4. CASE n = 1
      <4>1. pc[lock] \in {"begin", "end"} /\ outcome[lock] \in {"none", "cancelled"}
        BY <1>1, <2>1, <3>1, <3>4 DEF Holds, Awaits, RollingBack, Is, OutcomeInv
      <4> QED
        BY <3>1, <3>4, <4>1
    <3> QED
      BY <1>1, <2>2, <3>3, <3>4 DEF BeginQueued, Before
  <2>3. CASE ~BeginQueued(lock)
    <3>1. /\ queue[1].task = lock
          /\ queue[1].cmd = "WRITE" => pc[lock] \in {"write", "rollback"}
          /\ queue[1].cmd = "ROLLBACK" => /\ pc[lock] \in {"rollback", "xrollback"}
                                          /\ txn \in {lock, NoTask}
          /\ queue[1].cmd # "BEGIN"
          /\ pc[lock] # "end"
          /\ Len(queue) = 1 \/ (Len(queue) = 2 /\ queue[2].cmd # "BEGIN")
      BY <1>1, <2>1, <2>3 DEF Holds, Awaits, RollingBack, Is
    <3>2. outcome[lock] \in {"none", "cancelled"}
      BY <2>1, <3>1 DEF OutcomeInv
    <3> QED
      BY <3>1, <3>2 DEF Is
  <2> QED
    BY <2>2, <2>3
<1> QED
  BY <1>3, <1>4

\* Who wrote, and what became of it, from one step to the next.
LEMMA WroteStep ==
  ASSUME IInv, [Next]_vars
  PROVE  WroteInv'
<1> USE DEF IInv, Isolated
<1>1. TypeOK /\ OutcomeInv /\ WroteInv /\ NoTask \notin durable
  BY TaskAssumption DEF TypeOK
<1>2. CASE Execute \/ Fail
  <2> DEFINE h == queue[1].task
  <2>1. /\ Head(queue) = queue[1] /\ h \in Tasks /\ h # NoTask
        /\ queue[1].cmd \in Command /\ pc' = pc /\ outcome' = outcome
        /\ Len(queue) \in Nat \ {0} /\ Len(queue') = Len(queue) - 1
        /\ \A k \in 1 .. Len(queue) - 1 : queue'[k] = queue[k + 1]
        /\ \A u \in Tasks : u # h => result'[u] = result[u]
    BY <1>2, WorkerStep, TaskAssumption DEF TypeOK
  <2>2. ASSUME NEW u \in Tasks, \A k \in 1 .. Len(queue) : ~Is(k, u, "BEGIN")
        PROVE  \A k \in 1 .. Len(queue') : ~Is(k, u, "BEGIN")'
    <3>1. ASSUME NEW k \in 1 .. Len(queue')
          PROVE  ~Is(k, u, "BEGIN")'
      <4>1. k + 1 \in 1 .. Len(queue) /\ queue'[k] = queue[k + 1]
        BY <2>1
      <4> QED
        BY <2>2, <4>1 DEF Is
    <3> QED
      BY <3>1
  <2>3. wrote \subseteq Tasks /\ dirty \subseteq {txn} /\ durable \subseteq Tasks
    BY DEF TypeOK
  <2>4. CASE Fail
    <3>1. UNCHANGED <<txn, dirty, durable, wrote>> /\ Done(h, FALSE)
      BY <2>1, <2>4 DEF Fail
    <3>2. result'[h] = "ok" => result[h] = "ok"
      BY <2>1, <3>1 DEF Done, TypeOK
    <3> QED
      BY <1>1, <2>1, <2>2, <2>3, <3>1, <3>2 DEF WroteInv
  <2>5. CASE Execute /\ queue[1].cmd = "BEGIN"
    <3>1. UNCHANGED <<dirty, durable, wrote>> /\ (txn' = txn \/ txn' = h)
      BY <2>1, <2>5 DEF Execute
    <3>2. h \notin wrote
      BY <1>1, <2>1, <2>5 DEF WroteInv, Is
    <3> QED
      BY <1>1, <2>1, <2>2, <2>3, <3>1, <3>2 DEF WroteInv
  <2>6. CASE Execute /\ queue[1].cmd = "WRITE"
    <3>1. /\ UNCHANGED <<txn, durable>>
          /\ dirty' = dirty \union {h} /\ wrote' = wrote \union {h}
      BY <2>1, <2>6 DEF Execute
    <3>2. txn = h /\ pc[h] \in {"write", "rollback", "end"} /\ outcome[h] # "committed"
          /\ \A k \in 1 .. Len(queue) : ~Is(k, h, "BEGIN")
      BY <1>2, <2>6, HeadOwner, HeadShape
    <3> QED
      BY <1>1, <2>1, <2>2, <2>3, <3>1, <3>2 DEF WroteInv
  <2>7. CASE Execute /\ queue[1].cmd = "COMMIT"
    <3>1. /\ durable' = durable \union dirty /\ dirty' = {} /\ txn' = NoTask
          /\ wrote' = wrote
      BY <2>1, <2>7 DEF Execute
    <3>2. txn = h
      BY <1>2, <2>7, HeadOwner
    <3>3. NoTask \notin durable'
      BY <1>1, <2>1, <2>3, <3>1, <3>2
    <3>4. h \in wrote => h \in durable'
      BY <1>1, <3>1, <3>2 DEF WroteInv
    <3>5. durable' \subseteq wrote
      BY <1>1, <3>1 DEF WroteInv
    <3>6. NoTask \notin wrote
      BY <2>3, TaskAssumption
    <3> QED
      BY <1>1, <2>1, <2>2, <2>3, <3>1, <3>3, <3>4, <3>5, <3>6 DEF WroteInv
  <2>8. CASE Execute /\ queue[1].cmd = "ROLLBACK"
    <3>1. dirty' = {} /\ txn' = NoTask /\ durable' = durable /\ wrote' = wrote
      BY <2>1, <2>8 DEF Execute
    <3>2. pc[h] \notin {"commit", "xcommit"}
      BY <1>2, <2>8, HeadShape
    <3>3. NoTask \notin wrote
      BY <2>3, TaskAssumption
    <3> QED
      BY <1>1, <2>1, <2>2, <2>3, <3>1, <3>2, <3>3 DEF WroteInv
  <2> QED
    BY <1>2, <2>1, <2>4, <2>5, <2>6, <2>7, <2>8 DEF Command
<1>3. CASE ~(Execute \/ Fail)
  <2>1. UNCHANGED <<txn, dirty, durable, wrote>>
    BY <1>3, ConnectionKept
  <2>2. wrote \subseteq Tasks
    BY DEF TypeOK
  <2>3. ASSUME NEW t \in Tasks, NEW cmd \in Command, NEW p, Issue(t, cmd, p),
               cmd = "BEGIN" => t \notin wrote,
               NEW u \in wrote
        PROVE  \A k \in 1 .. Len(queue') : ~Is(k, u, "BEGIN")'
    <3>1. /\ Len(queue) \in Nat /\ Len(queue') = Len(queue) + 1
          /\ \A k \in 1 .. Len(queue) : queue'[k] = queue[k]
          /\ queue'[Len(queue) + 1] = [task |-> t, cmd |-> cmd]
      BY <2>3, QueueGrows
    <3>2. \A k \in 1 .. Len(queue) : ~Is(k, u, "BEGIN")
      BY <1>1, <2>3 DEF WroteInv
    <3> QED
      BY <2>3, <3>1, <3>2 DEF Is
  <2>4. ASSUME NEW t \in Tasks, NEW cmd \in Command, NEW p \in Await, Issue(t, cmd, p),
               p \in {"begin", "waiting"} \/ cmd = "BEGIN" => t \notin wrote,
               \A u \in Tasks : outcome'[u] = "committed" => outcome[u] = "committed"
        PROVE  WroteInv'
    <3>1. /\ \A u \in Tasks : u # t => pc'[u] = pc[u] /\ result'[u] = result[u]
          /\ pc'[t] = p /\ result'[t] = "pending"
      BY <1>1, <2>4 DEF Issue, TypeOK
    <3>2. \A u \in wrote : \A k \in 1 .. Len(queue') : ~Is(k, u, "BEGIN")'
      BY <2>3, <2>4
    <3>3. p # "out"
      BY DEF Await
    <3> QED
      BY <1>1, <2>1, <2>2, <2>4, <3>1, <3>2, <3>3 DEF WroteInv
  <2>5. ASSUME NEW t \in Tasks, UNCHANGED queue,
               \A u \in Tasks : u # t => /\ pc'[u] = pc[u] /\ result'[u] = result[u]
                                          /\ outcome'[u] = outcome[u],
               t \in wrote => pc'[t] \in {"body", "end"},
               outcome'[t] = "committed" => (t \in wrote => t \in durable)
        PROVE  WroteInv'
    BY <1>1, <2>1, <2>2, <2>5 DEF WroteInv, Is
  <2>6. ASSUME NEW t \in Tasks, NEW how, End(t, how), how = "committed" => (t \in wrote => t \in durable)
        PROVE  WroteInv'
    BY <1>1, <2>5, <2>6 DEF End, connVars, TypeOK
  <2>7. ASSUME NEW t \in Tasks, Enter(t)
        PROVE  WroteInv'
    <3>1. t \notin wrote
      BY <1>1, <2>7 DEF Enter, WroteInv
    <3>2. CASE Issue(t, "BEGIN", "begin") /\ UNCHANGED outcome
      BY <2>4, <3>1, <3>2 DEF Await, Command
    <3>3. CASE pc' = [pc EXCEPT ![t] = "waiting"] /\ UNCHANGED <<result, outcome, connVars>>
      BY <1>1, <2>5, <3>1, <3>3 DEF TypeOK, connVars, WroteInv
    <3> QED
      BY <2>7, <3>2, <3>3 DEF Enter
  <2>8. ASSUME NEW t \in Tasks, Acquire(t)
        PROVE  WroteInv'
    BY <1>1, <2>4, <2>8 DEF Acquire, WroteInv, Await, Command
  <2>9. ASSUME NEW t \in Tasks, pc' = [pc EXCEPT ![t] = "body"],
               result' = [result EXCEPT ![t] = "none"], UNCHANGED <<outcome, connVars>>
        PROVE  WroteInv'
    BY <1>1, <2>5, <2>9 DEF TypeOK, connVars, WroteInv
  <2>10. ASSUME NEW t \in Tasks, Begun(t) \/ Written(t) \/ Write(t) \/ Close(t)
         PROVE  WroteInv'
    <3>1. ASSUME NEW cmd \in {"WRITE", "COMMIT", "ROLLBACK"},
                 NEW p \in {"write", "commit", "rollback", "xcommit", "xrollback"},
                 Issue(t, cmd, p), UNCHANGED outcome
          PROVE  WroteInv'
      BY <2>4, <3>1 DEF Await, Command
    <3> QED
      BY <2>6, <2>9, <2>10, <3>1 DEF Begun, Written, Write, Close
  <2>11. ASSUME NEW t \in Tasks, Issue(t, "ROLLBACK", "rollback"),
                outcome' = outcome \/ outcome' = [outcome EXCEPT ![t] = "cancelled"]
         PROVE  WroteInv'
    <3>1. \A u \in Tasks : outcome'[u] = "committed" => outcome[u] = "committed"
      BY <1>1, <2>11 DEF TypeOK
    <3> QED
      BY <2>4, <2>11, <3>1 DEF Await, Command
  <2>12. ASSUME NEW t \in Tasks, Committed(t) \/ Finalized(t)
         PROVE  WroteInv'
    <3>1. CASE Issue(t, "ROLLBACK", "rollback") /\ UNCHANGED outcome
      BY <2>11, <3>1
    <3>2. CASE pc[t] \in {"commit", "xcommit"} /\ result[t] = "ok" /\ End(t, "committed")
      BY <1>1, <2>6, <3>2 DEF WroteInv
    <3>3. CASE End(t, "undone")
      BY <2>6, <3>3
    <3> QED
      BY <2>12, <3>1, <3>2, <3>3 DEF Committed, Finalized
  <2>13. ASSUME NEW t \in Tasks, RolledBack(t)
         PROVE  WroteInv'
    <3>1. outcome[t] # "committed"
      BY <1>1, <2>13 DEF RolledBack, OutcomeInv
    <3> QED
      BY <2>6, <2>13, <3>1 DEF RolledBack
  <2>14. ASSUME NEW t \in Tasks, Cancelled(t)
         PROVE  WroteInv'
    BY <2>6, <2>11, <2>14 DEF Cancelled, CancelWaiting, CancelBegin, CancelBlock, CancelExit
  <2>15. CASE UNCHANGED vars
    BY <1>1, <2>15 DEF vars, taskVars, connVars, WroteInv, Is
  <2> QED
    BY <1>3, <2>7, <2>8, <2>10, <2>12, <2>13, <2>14, <2>15 DEF Next, TaskSteps
<1> QED
  BY <1>2, <1>3

\* The strengthened invariant: the shape of the worker's queue, who has the
\* lock, and who was told what, hold from the start and after every step.
THEOREM Invariance == Spec => []IInv
<1>1. Init => IInv
  <2>1. SUFFICES ASSUME Init
                 PROVE  IInv
    OBVIOUS
  <2>2. Isolated
    <3>1. lock = NoTask /\ txn = NoTask /\ waiters \in Seq(Tasks) /\ queue \in Seq(Queued)
      BY <2>1 DEF Init
    <3>2. /\ pc \in [Tasks -> Await \union {"out", "body", "end"}]
          /\ result \in [Tasks -> {"none", "pending", "ok", "error"}]
          /\ outcome \in [Tasks -> {"none", "committed", "undone", "cancelled"}]
      BY <2>1 DEF Init
    <3>3. dirty = {} /\ durable = {} /\ wrote = {} /\ failed = {} /\ collided = FALSE
      BY <2>1 DEF Init
    <3>4. collided \in BOOLEAN /\ ~collided
      BY <3>3
    <3> QED
      BY <3>1, <3>2, <3>3, <3>4 DEF Isolated, TypeOK
  <2>3. QueueInv
    BY <2>1 DEF Init, QueueInv, Before
  <2>4. LockInv /\ OutcomeInv /\ DurableInv /\ WroteInv
    BY <2>1 DEF Init, LockInv, OutcomeInv, DurableInv, WroteInv
  <2> QED
    BY <2>2, <2>3, <2>4 DEF IInv
<1>2. IInv /\ [Next]_vars => IInv'
  BY IsolatedStep, QueueStep, LockStep, OutcomeStep, DurableStep, WroteStep DEF IInv
<1> QED
  BY <1>1, <1>2, PTL DEF Spec

\* L2-PERS-004, for any number of tasks: no BEGIN of the shared connection
\* meets an open transaction, cancelled exits included, unless a failed
\* ROLLBACK, or a failed COMMIT of a cancelled task, left it open; and nobody's
\* writes are in another's transaction.
THEOREM IsolatedHolds == Spec => []Isolated
<1>1. IInv => Isolated
  BY DEF IInv
<1> QED
  BY <1>1, Invariance, PTL

\* What __aexit__, commit() and rollback() tell their caller is true, for any
\* number of tasks: nothing of a unit of work that was undone is durable, and
\* whatever a committed one wrote is.
THEOREM OutcomeIsTruthfulHolds == Spec => []OutcomeIsTruthful
<1>1. IInv => OutcomeIsTruthful
  BY DEF IInv, Isolated, TypeOK, OutcomeInv, DurableInv, WroteInv, OutcomeIsTruthful
<1> QED
  BY <1>1, Invariance, PTL

-----------------------------------------------------------------------------
(* Units of work are atomic.                                               *)

\* The phase of each unit of work, by what is on the connection.
LEMMA PhaseOf ==
  ASSUME NEW t \in Tasks
  PROVE  /\ txn = t /\ t \in dirty => StorePhase[t] = "dirty"
         /\ txn = t /\ t \notin dirty => StorePhase[t] = "clean"
         /\ txn # t /\ t \in durable => StorePhase[t] = "stored"
         /\ txn # t /\ t \notin durable /\ t \in wrote => StorePhase[t] = "dropped"
         /\ txn # t /\ t \notin durable /\ t \notin wrote => StorePhase[t] = "idle"
BY DEF StorePhase

\* The same after a step.
LEMMA PhaseAfter ==
  ASSUME NEW t \in Tasks
  PROVE  /\ txn' = t /\ t \in dirty' => StorePhase'[t] = "dirty"
         /\ txn' = t /\ t \notin dirty' => StorePhase'[t] = "clean"
         /\ txn' # t /\ t \in durable' => StorePhase'[t] = "stored"
         /\ txn' # t /\ t \notin durable' /\ t \in wrote' => StorePhase'[t] = "dropped"
         /\ txn' # t /\ t \notin durable' /\ t \notin wrote' => StorePhase'[t] = "idle"
BY DEF StorePhase

\* A step that changes the phase of one unit of work.
LEMMA PhaseChanges ==
  ASSUME NEW t \in Tasks, NEW p, StorePhase'[t] = p,
         \A u \in Tasks : u # t => StorePhase'[u] = StorePhase[u]
  PROVE  StorePhase' = [StorePhase EXCEPT ![t] = p]
<1>1. /\ StorePhase = [u \in Tasks |-> StorePhase[u]]
      /\ StorePhase' = [u \in Tasks |-> StorePhase'[u]]
  BY DEF StorePhase
<1> QED
  BY <1>1

\* Whoever is told something is told it once, and it is true.
LEMMA ToldOnce ==
  ASSUME IInv, [Next]_vars, ~(Execute \/ Fail)
  PROVE  \/ outcome' = outcome
         \/ \E t \in Tasks, how \in {"committed", "undone", "cancelled"} :
              /\ outcome[t] = "none"
              /\ outcome' = [outcome EXCEPT ![t] = how]
              /\ how = "committed" => txn # t /\ (t \in wrote => t \in durable)
              /\ how = "undone" => t \notin durable
<1> USE DEF IInv, Isolated
<1> DEFINE Told == \E t \in Tasks, how \in {"committed", "undone", "cancelled"} :
                     /\ outcome[t] = "none"
                     /\ outcome' = [outcome EXCEPT ![t] = how]
                     /\ how = "committed" => txn # t /\ (t \in wrote => t \in durable)
                     /\ how = "undone" => t \notin durable
<1>1. TypeOK /\ OutcomeInv /\ DurableInv /\ WroteInv
  OBVIOUS
<1>2. ASSUME NEW t \in Tasks, Enter(t) \/ Acquire(t) \/ Write(t) \/ Written(t) \/ Close(t)
      PROVE  outcome' = outcome
  BY <1>2 DEF Enter, Acquire, Write, Written, Close
<1>3. ASSUME NEW t \in Tasks, Begun(t)
      PROVE  outcome' = outcome \/ Told
  <2>1. t \notin durable /\ outcome[t] = "none"
    BY <1>1, <1>3 DEF Begun, OutcomeInv, DurableInv
  <2> QED
    BY <1>3, <2>1 DEF Begun, End
<1>4. ASSUME NEW t \in Tasks, Committed(t) \/ Finalized(t)
      PROVE  outcome' = outcome \/ Told
  <2>1. outcome[t] = "none"
    BY <1>1, <1>4 DEF Committed, Finalized, OutcomeInv
  <2>2. CASE outcome' = outcome
    BY <2>2
  <2>3. CASE pc[t] \in {"commit", "xcommit"} /\ result[t] = "ok" /\ End(t, "committed")
    <3>1. txn = NoTask
      BY <2>3, Inside DEF Holds, Awaits
    <3>2. t \in wrote => t \in durable
      BY <1>1, <2>3 DEF WroteInv
    <3> QED
      BY <2>1, <2>3, <3>1, <3>2, TaskAssumption DEF End
  <2>4. CASE pc[t] = "xrollback" /\ End(t, "undone")
    <3>1. t \notin durable
      BY <1>1, <2>1, <2>4 DEF DurableInv
    <3> QED
      BY <2>1, <2>4, <3>1 DEF End
  <2> QED
    BY <1>4, <2>2, <2>3, <2>4 DEF Committed, Finalized
<1>5. ASSUME NEW t \in Tasks, RolledBack(t)
      PROVE  outcome' = outcome \/ Told
  <2>1. pc[t] = "rollback" /\ outcome[t] \in {"none", "cancelled"}
    BY <1>1, <1>5 DEF RolledBack, OutcomeInv
  <2>2. CASE outcome[t] = "cancelled"
    BY <1>1, <1>5, <2>2 DEF RolledBack, End, TypeOK
  <2>3. CASE outcome[t] = "none"
    <3>1. t \notin durable
      BY <1>1, <2>1, <2>3 DEF DurableInv
    <3> QED
      BY <1>5, <2>3, <3>1 DEF RolledBack, End
  <2> QED
    BY <2>1, <2>2, <2>3
<1>6. ASSUME NEW t \in Tasks, Cancelled(t)
      PROVE  outcome' = outcome \/ Told
  <2>1. outcome' = [outcome EXCEPT ![t] = "cancelled"]
    BY <1>6 DEF Cancelled, CancelWaiting, CancelBegin, CancelBlock, CancelExit, End
  <2>2. outcome[t] \in {"none", "cancelled"}
    BY <1>1, <1>6 DEF Cancelled, CancelWaiting, CancelBegin, CancelBlock, CancelExit,
       OutcomeInv
  <2> QED
    BY <1>1, <2>1, <2>2 DEF TypeOK
<1>7. CASE UNCHANGED vars
  BY <1>7 DEF vars, taskVars
<1> QED
  BY <1>2, <1>3, <1>4, <1>5, <1>6, <1>7 DEF Next, TaskSteps

\* Every step is a step of the store or changes nothing it shows: the worker
\* begins, changes, commits or aborts, a task is told.
LEMMA StoreStep ==
  ASSUME IInv, [Next]_vars
  PROVE  [Store!StoreNext]_(Store!storeVars)
<1> USE DEF IInv, Isolated
<1>1. TypeOK /\ OutcomeInv /\ WroteInv /\ dirty \subseteq {txn} /\ NoTask \notin Tasks
  BY TaskAssumption
<1>2. dirty \subseteq Tasks /\ (txn = NoTask => dirty = {})
  BY <1>1 DEF TypeOK
<1>3. CASE Execute \/ Fail
  <2> DEFINE h == queue[1].task
  <2>1. /\ Head(queue) = queue[1] /\ h \in Tasks /\ queue[1].cmd \in Command
        /\ outcome' = outcome
    BY <1>3, WorkerStep DEF TypeOK
  <2>2. ~Store!Settled(h)
    BY <1>3, HeadShape DEF Store!Settled
  <2>3. CASE UNCHANGED <<txn, dirty, durable, wrote>>
    <3>1. StorePhase' = StorePhase
      BY <2>3 DEF StorePhase
    <3> QED
      BY <2>1, <3>1 DEF Store!storeVars
  <2>4. CASE Execute /\ queue[1].cmd = "BEGIN" /\ txn = NoTask
    <3>1. txn' = h /\ UNCHANGED <<dirty, durable, wrote>>
      BY <2>1, <2>4 DEF Execute
    <3>2. Len(queue) \in Nat \ {0} /\ h \notin wrote /\ h \notin durable
      BY <1>1, <1>3, <2>4, WorkerStep DEF WroteInv, Is
    <3>3. \A u \in Tasks : u # h => StorePhase'[u] = StorePhase[u]
      BY <1>1, <2>4, <3>1, PhaseOf, PhaseAfter
    <3>4. StorePhase[h] = "idle" /\ StorePhase'[h] = "clean"
      BY <1>1, <1>2, <2>1, <2>4, <3>1, <3>2, PhaseOf, PhaseAfter
    <3>5. \A u \in Tasks : StorePhase[u] \notin Store!Open
      BY <1>1, <2>4, PhaseOf DEF Store!Open
    <3>6. Store!Begin(h)
      BY <2>1, <2>2, <3>3, <3>4, <3>5, PhaseChanges DEF Store!Begin, Store!Becomes
    <3> QED
      BY <2>1, <3>6 DEF Store!StoreNext
  <2>5. CASE Execute /\ queue[1].cmd = "WRITE"
    <3>1. /\ txn' = txn /\ durable' = durable
          /\ dirty' = dirty \union {h} /\ wrote' = wrote \union {h}
      BY <2>1, <2>5 DEF Execute
    <3>2. txn = h
      BY <1>3, <2>5, HeadOwner
    <3>3. \A u \in Tasks : u # h => StorePhase'[u] = StorePhase[u]
      BY <1>1, <3>1, <3>2, PhaseOf, PhaseAfter
    <3>4. StorePhase[h] \in Store!Open /\ StorePhase'[h] = "dirty"
      BY <2>1, <3>1, <3>2, PhaseOf, PhaseAfter DEF Store!Open
    <3>5. Store!Change(h)
      BY <2>1, <2>2, <3>3, <3>4, PhaseChanges DEF Store!Change, Store!Becomes
    <3> QED
      BY <2>1, <3>5 DEF Store!StoreNext
  <2>6. CASE Execute /\ queue[1].cmd = "COMMIT"
    <3>1. /\ txn' = NoTask /\ dirty' = {} /\ durable' = durable \union dirty
          /\ wrote' = wrote
      BY <2>1, <2>6 DEF Execute
    <3>2. txn = h /\ dirty \subseteq {h}
      BY <1>1, <1>3, <2>6, HeadOwner
    <3>3. \A u \in Tasks : u # h => StorePhase'[u] = StorePhase[u]
      BY <1>1, <3>1, <3>2, PhaseOf, PhaseAfter
    <3>4. /\ StorePhase[h] = IF h \in dirty THEN "dirty" ELSE "clean"
          /\ StorePhase'[h] = IF h \in dirty THEN "stored" ELSE "idle"
      BY <1>1, <2>1, <3>1, <3>2, PhaseOf, PhaseAfter DEF WroteInv
    <3>5. Store!Commit(h)
      BY <2>1, <2>2, <3>3, <3>4, PhaseChanges DEF Store!Commit, Store!Becomes, Store!Open
    <3> QED
      BY <2>1, <3>5 DEF Store!StoreNext
  <2>7. CASE Execute /\ queue[1].cmd = "ROLLBACK" /\ txn # NoTask
    <3>1. txn' = NoTask /\ dirty' = {} /\ durable' = durable /\ wrote' = wrote
      BY <2>1, <2>7 DEF Execute
    <3>2. txn = h
      BY <1>3, <2>7, HeadShape
    <3>3. \A u \in Tasks : u # h => StorePhase'[u] = StorePhase[u]
      BY <1>1, <3>1, <3>2, PhaseOf, PhaseAfter
    <3>4. /\ StorePhase[h] = IF h \in dirty THEN "dirty" ELSE "clean"
          /\ StorePhase'[h] = IF h \in dirty THEN "dropped" ELSE "idle"
      BY <1>1, <2>1, <3>1, <3>2, PhaseOf, PhaseAfter DEF WroteInv
    <3>5. Store!Abort(h)
      BY <2>1, <2>2, <3>3, <3>4, PhaseChanges DEF Store!Abort, Store!Becomes, Store!Open
    <3> QED
      BY <2>1, <3>5 DEF Store!StoreNext
  <2>8. CASE Fail
    BY <2>3, <2>8 DEF Fail
  <2>9. CASE Execute /\ queue[1].cmd = "BEGIN" /\ txn # NoTask
    BY <2>1, <2>3, <2>9 DEF Execute
  <2>10. CASE Execute /\ queue[1].cmd = "ROLLBACK" /\ txn = NoTask
    BY <1>2, <2>1, <2>3, <2>10 DEF Execute
  <2> QED
    BY <1>3, <2>1, <2>4, <2>5, <2>6, <2>7, <2>8, <2>9, <2>10 DEF Command
<1>4. CASE ~(Execute \/ Fail)
  <2>1. UNCHANGED <<txn, dirty, durable, wrote>>
    BY <1>4, ConnectionKept
  <2>2. StorePhase' = StorePhase
    BY <2>1 DEF StorePhase
  <2>3. CASE outcome' = outcome
    BY <2>2, <2>3 DEF Store!storeVars
  <2>4. ASSUME NEW t \in Tasks, NEW how \in {"committed", "undone", "cancelled"},
               outcome[t] = "none", outcome' = [outcome EXCEPT ![t] = how],
               how = "committed" => txn # t /\ (t \in wrote => t \in durable),
               how = "undone" => t \notin durable
        PROVE  Store!StoreNext
    <3>1. how = "committed" => StorePhase[t] \in {"idle", "stored"}
      BY <2>4, PhaseOf
    <3>2. how = "undone" => StorePhase[t] # "stored"
      BY <2>4, PhaseOf
    <3>3. Store!Tell(t, how)
      BY <2>2, <2>4, <3>1, <3>2 DEF Store!Tell
    <3> QED
      BY <3>3 DEF Store!StoreNext
  <2> QED
    BY <1>4, <2>3, <2>4, ToldOnce
<1> QED
  BY <1>3, <1>4

\* The unit of work implements the atomic store, for any number of tasks,
\* cancelled at any await, over a connection that may fail any command: one is
\* open at a time, its writes are stored in one step or never, and what a caller
\* is told is true.  This is the atomicity every use case relies on.
THEOREM Refinement == Spec => ImplementsStore
<1>1. Init => Store!StoreInit
  <2> SUFFICES ASSUME Init
               PROVE  Store!StoreInit
    OBVIOUS
  <2>1. /\ txn = NoTask /\ durable = {} /\ wrote = {}
        /\ outcome = [t \in Tasks |-> "none"]
    BY DEF Init
  <2>2. \A t \in Tasks : StorePhase[t] = "idle"
    BY <2>1, PhaseOf, TaskAssumption
  <2>3. StorePhase = [t \in Tasks |-> StorePhase[t]]
    BY DEF StorePhase
  <2>4. StorePhase = [t \in Tasks |-> "idle"]
    BY <2>2, <2>3
  <2> QED
    BY <2>1, <2>4 DEF Store!StoreInit
<1>2. IInv /\ [Next]_vars => [Store!StoreNext]_(Store!storeVars)
  BY StoreStep
<1> QED
  BY <1>1, <1>2, Invariance, PTL DEF Spec, ImplementsStore, Store!StoreSpec
=============================================================================
