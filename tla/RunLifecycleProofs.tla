------------------------- MODULE RunLifecycleProofs -------------------------
(***************************************************************************)
(* Theorems about RunLifecycle, for every set of runs, stages and contents *)
(* and every timeout and bound.                                            *)
(***************************************************************************)
EXTENDS RunLifecycle, TLAPS

-----------------------------------------------------------------------------
(* The request queue.                                                      *)

\* What the three arrivals queue are requests.
LEMMA RequestsTyped ==
  ASSUME TypeOK
  PROVE  /\ \A r \in Runs, D \in SUBSET Stages :
              [op |-> "begin", run |-> r, stages |-> D, now |-> clock] \in Request
         /\ \A r \in Runs, s \in Stages, c \in Contents :
              [op |-> "submit", run |-> r, stage |-> s, content |-> c,
               now |-> clock] \in Request
         /\ \A r \in Runs :
              [op |-> "finalize", run |-> r, now |-> clock] \in Request
BY DEF TypeOK, Request, BeginRequest, SubmitRequest, FinalizeRequest

\* Removing a queued request, from the head or from the middle, leaves a queue.
LEMMA QueueShrinks ==
  ASSUME NEW q \in Seq(Request), q # <<>>
  PROVE  /\ Head(q) \in Request
         /\ Tail(q) \in Seq(Request)
         /\ \A i \in DOMAIN q :
              [j \in 1 .. Len(q) - 1 |-> IF j < i THEN q[j] ELSE q[j + 1]]
                \in Seq(Request)
<1>1. Head(q) \in Request /\ Tail(q) \in Seq(Request)
  OBVIOUS
<1>2. ASSUME NEW i \in DOMAIN q
      PROVE  [j \in 1 .. Len(q) - 1 |-> IF j < i THEN q[j] ELSE q[j + 1]]
               \in Seq(Request)
  <2>1. Len(q) - 1 \in Nat
    OBVIOUS
  <2>2. \A j \in 1 .. Len(q) - 1 :
          (IF j < i THEN q[j] ELSE q[j + 1]) \in Request
    OBVIOUS
  <2> QED
    BY <2>1, <2>2
<1> QED
  BY <1>1, <1>2

\* Every request names a run and a reading of the clock.
LEMMA RequestFields ==
  ASSUME NEW q \in Request
  PROVE  /\ q.run \in Runs
         /\ q.now \in Nat
         /\ q.op \in {"begin", "submit", "finalize"}
         /\ q.op = "begin" => q.stages \in SUBSET Stages
         /\ q.op = "submit" => q.stage \in Stages /\ q.content \in Contents
BY DEF Request, BeginRequest, SubmitRequest, FinalizeRequest

-----------------------------------------------------------------------------
(* Type correctness.                                                       *)

\* The step of the RPC at the head of the queue keeps every variable typed.
LEMMA RpcTyped ==
  ASSUME TypeOK, inflight # <<>>, RpcServed(Head(inflight))
  PROVE  TypeOK'
<1> DEFINE q == Head(inflight)
<1>1. q \in Request /\ inflight' \in Seq(Request)
  <2>1. inflight' = Tail(inflight)
    BY DEF RpcServed, BeginRun, SubmitStageReport, FinalizeRun,
           FinalizeInterrupted, RpcRejected, GetsLock
  <2> QED
    BY <2>1, QueueShrinks DEF TypeOK
<1>2. /\ q.run \in Runs /\ q.now \in Nat
      /\ q.op = "begin" => q.stages \in SUBSET Stages
      /\ q.op = "submit" => q.stage \in Stages /\ q.content \in Contents
  BY <1>1, RequestFields
<1> HIDE DEF q
<1>3. CASE BeginRun(q)
  BY <1>1, <1>2, <1>3
  DEF BeginRun, TypeOK, timeVars, taskVars, sweepVars, RunState, StageState, Absent
<1>4. CASE SubmitStageReport(q)
  BY <1>1, <1>2, <1>4
  DEF SubmitStageReport, TypeOK, timeVars, taskVars, sweepVars, rowVars,
      UpdateState, NextStageState, RunState, StageState
<1>5. CASE FinalizeRun(q)
  BY <1>1, <1>2, <1>5
  DEF FinalizeRun, TypeOK, timeVars, stageVars, sweepVars, UpdateState,
      RunState, TaskPc, TaskStep
<1>6. CASE FinalizeInterrupted(q)
  BY <1>1, <1>2, <1>6
  DEF FinalizeInterrupted, TypeOK, timeVars, stageVars, taskVars, sweepVars,
      UpdateState, RunState
<1>7. CASE RpcRejected(q)
  BY <1>1, <1>7
  DEF RpcRejected, TypeOK, timeVars, rowVars, stageVars, taskVars, sweepVars
<1> QED
  BY <1>3, <1>4, <1>5, <1>6, <1>7 DEF RpcServed, q

\* The arrival of a request, or the loss of one, changes the queue alone.
LEMMA QueueTyped ==
  ASSUME TypeOK,
         RpcArrives \/ \E i \in DOMAIN inflight : RpcDropped(i)
  PROVE  TypeOK'
<1>1. ASSUME NEW q \in Request, Arrive(q)
      PROVE  TypeOK'
  <2>1. inflight' \in Seq(Request)
    BY <1>1 DEF Arrive, TypeOK
  <2> QED
    BY <1>1, <2>1
    DEF Arrive, TypeOK, timeVars, rowVars, stageVars, taskVars, sweepVars
<1>2. CASE RpcArrives
  BY <1>1, <1>2, RequestsTyped
  DEF RpcArrives, BeginRunArrives, SubmitArrives, FinalizeArrives
<1>3. ASSUME NEW i \in DOMAIN inflight, RpcDropped(i)
      PROVE  TypeOK'
  <2>1. inflight \in Seq(Request) /\ inflight # <<>>
    BY DEF TypeOK
  <2>2. inflight' \in Seq(Request)
    BY <1>3, <2>1, QueueShrinks DEF RpcDropped
  <2> QED
    BY <1>3, <2>2
    DEF RpcDropped, TypeOK, timeVars, rowVars, stageVars, taskVars, sweepVars
<1> QED
  BY <1>2, <1>3

\* What the delivery task renders is a page of contents.
LEMMA AssembledTyped ==
  ASSUME TypeOK, NEW r \in Runs
  PROVE  Assembled(r) \in [Stages -> Contents \union {NoContent}]
BY DEF TypeOK, Assembled

\* The runs table stays typed over an update of a run's state.
LEMMA RowTyped ==
  ASSUME TypeOK, NEW r \in Runs, NEW to \in RunState, NEW now \in Nat,
         UpdateState(r, to, now)
  PROVE  /\ state' \in [Runs -> RunState \union {Absent}]
         /\ declared' \in [Runs -> SUBSET Stages]
         /\ createdAt' \in [Runs -> Nat]
         /\ updatedAt' \in [Runs -> Nat]
BY DEF UpdateState, TypeOK

\* The audit log stays typed over a SEND_REPORT record.
LEMMA AuditTyped ==
  ASSUME TypeOK, NEW r \in Runs, NEW outcome \in {"SUCCESS", "FAILURE"},
         NEW prior \in RunState, NEW new \in RunState,
         Record(r, outcome, prior, new)
  PROVE  sendAudit' \in [Runs -> Seq(AuditRecord)]
<1> DEFINE a == [outcome |-> outcome, prior |-> prior, new |-> new]
<1>1. a \in AuditRecord
  BY DEF AuditRecord
<1>2. Append(sendAudit[r], a) \in Seq(AuditRecord)
  BY <1>1 DEF TypeOK
<1>3. sendAudit' = [sendAudit EXCEPT ![r] = Append(sendAudit[r], a)]
  BY DEF Record
<1> QED
  BY <1>2, <1>3 DEF TypeOK

\* The step that closes a delivery keeps every variable typed.
LEMMA FinalizeTyped ==
  ASSUME TypeOK, NEW r \in Runs,
         NEW outcome \in {"SUCCESS", "FAILURE"}, NEW to \in RunState,
         NEW next \in TaskPc, Finalize(r, outcome, to, next)
  PROVE  TypeOK'
<1>1. pc' \in [Runs -> TaskPc]
  <2>1. "dead" \in TaskPc
    BY DEF TaskPc
  <2>2. GoTo(r, next) \/ GoTo(r, "dead")
    BY DEF Finalize
  <2> QED
    BY <2>1, <2>2 DEF GoTo, TypeOK
<1>2. clock \in Nat /\ (Loads(r) => state[r] \in RunState)
  BY DEF TypeOK, Loads
<1>3. sendAudit' \in [Runs -> Seq(AuditRecord)]
  <2>1. \/ Loads(r) /\ Record(r, outcome, state[r], state[r])
        \/ Loads(r) /\ Record(r, outcome, state[r], to)
        \/ UNCHANGED sendAudit
    BY DEF Finalize
  <2> QED
    BY <1>2, <2>1, AuditTyped DEF TypeOK
<1>4. /\ state' \in [Runs -> RunState \union {Absent}]
      /\ declared' \in [Runs -> SUBSET Stages]
      /\ createdAt' \in [Runs -> Nat]
      /\ updatedAt' \in [Runs -> Nat]
  <2>1. UNCHANGED rowVars \/ UpdateState(r, to, clock)
    BY DEF Finalize
  <2> QED
    BY <1>2, <2>1, RowTyped DEF TypeOK, rowVars
<1> QED
  BY <1>1, <1>3, <1>4 DEF Finalize, TypeOK, timeVars, stageVars, sweepVars

\* Every step of a delivery task keeps every variable typed.
LEMMA TaskTyped ==
  ASSUME TypeOK, NEW r \in Runs, TaskAdvances(r) \/ TaskDies(r)
  PROVE  TypeOK'
<1> USE DEF TypeOK, GoTo, timeVars, rowVars, stageVars, taskVars, sweepVars,
            TaskPc, TaskStep
<1>1. CASE ClaimForSending(r)
  <2>1. CASE UpdateState(r, "SENDING", clock) /\ GoTo(r, "claimed")
    <3>1. "SENDING" \in RunState /\ clock \in Nat
      BY DEF RunState
    <3> QED
      BY <1>1, <2>1, <3>1, RowTyped DEF ClaimForSending
  <2>2. CASE UNCHANGED rowVars /\ GoTo(r, "dead")
    BY <1>1, <2>2 DEF ClaimForSending
  <2> QED
    BY <1>1, <2>1, <2>2 DEF ClaimForSending
<1>2. CASE LoadAndRender(r)
  BY <1>2, AssembledTyped DEF LoadAndRender
<1>3. CASE ResolveRecipients(r)
  BY <1>3 DEF ResolveRecipients
<1>4. CASE SendMail(r)
  <2>1. mailed' \in [Runs -> Nat]
    BY <1>4 DEF SendMail
  <2>2. pc' \in [Runs -> TaskPc]
    BY <1>4 DEF SendMail
  <2> QED
    BY <1>4, <2>1, <2>2 DEF SendMail
<1>5. CASE FinalizeSent(r)
  <2>1. "SENT" \in RunState /\ "done" \in TaskPc
    BY DEF RunState
  <2> QED
    BY <1>5, <2>1, FinalizeTyped DEF FinalizeSent
<1>6. CASE FinalizeFailed(r)
  <2>1. "FAILED" \in RunState /\ {"done", "notifying"} \subseteq TaskPc
    BY DEF RunState
  <2> QED
    BY <1>6, <2>1, FinalizeTyped DEF FinalizeFailed
<1>7. CASE NotifyAdmins(r)
  BY <1>7 DEF NotifyAdmins
<1>8. CASE TaskDies(r)
  BY <1>8 DEF TaskDies
<1> QED
  BY <1>1, <1>2, <1>3, <1>4, <1>5, <1>6, <1>7, <1>8 DEF TaskAdvances

\* Every step of the sweeper keeps every variable typed.
LEMMA SweepTyped ==
  ASSUME TypeOK, Sweep \/ SweepAborts
  PROVE  TypeOK'
<1> USE DEF TypeOK, Advance, timeVars, rowVars, stageVars, taskVars
<1>1. CASE SweepBegins
  BY <1>1 DEF SweepBegins
<1>2. CASE SweepLists
  BY <1>2 DEF SweepLists
<1>3. ASSUME NEW r \in Runs, OrphanCandidate(r)
      PROVE  TypeOK'
  <2>1. PendingStages(r) \in SUBSET Stages
    BY DEF PendingStages
  <2>2. "ORPHANED" \in RunState
    BY DEF RunState
  <2>3. /\ candidates' \subseteq Runs
        /\ sweepNow' \in Nat \union {NotSweeping}
    BY <1>3 DEF OrphanCandidate
  <2>4. CASE UNCHANGED <<rowVars, pendingAtOrphan, dispositions>>
    BY <1>3, <2>3, <2>4 DEF OrphanCandidate
  <2>5. CASE /\ UpdateState(r, "ORPHANED", clock)
             /\ pendingAtOrphan' = [pendingAtOrphan EXCEPT ![r] = PendingStages(r)]
             /\ dispositions' = [dispositions EXCEPT ![r] = @ + 1]
    <3>1. dispositions' \in [Runs -> Nat]
      BY <2>5
    <3>2. pendingAtOrphan' \in [Runs -> SUBSET Stages]
      BY <2>1, <2>5
    <3>3. clock \in Nat
      OBVIOUS
    <3> QED
      BY <1>3, <2>2, <2>3, <2>5, <3>1, <3>2, <3>3, RowTyped DEF OrphanCandidate
  <2> QED
    BY <1>3, <2>4, <2>5 DEF OrphanCandidate
<1>4. CASE SweepAborts
  BY <1>4 DEF SweepAborts
<1> QED
  BY <1>1, <1>2, <1>3, <1>4 DEF Sweep

\* Crashes and the clock keep every variable typed.
LEMMA EnvironmentTyped ==
  ASSUME TypeOK, CrashAndRestart \/ Tick \/ StepBack
  PROVE  TypeOK'
<1> USE DEF TypeOK, timeVars, rowVars, stageVars, taskVars, sweepVars
<1>1. CASE CrashAndRestart
  BY <1>1 DEF CrashAndRestart, Advance, TaskPc, TaskStep
<1>2. CASE Tick
  BY <1>2 DEF Tick
<1>3. CASE StepBack
  BY <1>3 DEF StepBack
<1> QED
  BY <1>1, <1>2, <1>3

LEMMA InitTyped == Init => TypeOK
BY DEF Init, TypeOK, TaskPc, Absent

LEMMA StepTyped == TypeOK /\ [Next]_vars => TypeOK'
<1> SUFFICES ASSUME TypeOK, [Next]_vars
             PROVE  TypeOK'
  OBVIOUS
<1>1. CASE Next
  BY <1>1, RpcTyped, QueueTyped, TaskTyped, SweepTyped, EnvironmentTyped
  DEF Next
<1>2. CASE UNCHANGED vars
  BY <1>2
  DEF vars, TypeOK, timeVars, rowVars, stageVars, taskVars, sweepVars
<1> QED
  BY <1>1, <1>2

\* The tables, the queue and the program counters stay within their types.
THEOREM TypeCorrect == Spec => []TypeOK
BY InitTyped, StepTyped, PTL DEF Spec

-----------------------------------------------------------------------------
(* The inductive invariant: what ties the queue, the runs table, the       *)
(* delivery task and the sweeper's records together.                       *)

\* The run of a queued BeginRun has no row, and nobody else knows its id.
BeginsAreFresh ==
  \A i \in DOMAIN inflight : inflight[i].op = "begin" =>
    /\ state[inflight[i].run] = Absent
    /\ \A j \in DOMAIN inflight \ {i} : inflight[j].run # inflight[i].run

Delivering == {"claimed", "rendered", "resolved", "delivered", "undelivered",
               "oversize"}

\* A task exists only past FinalizeRun, and the run it works for is where the
\* task left it, or orphaned.
TaskMatchesRun(r) ==
  /\ state[r] \in {Absent, "INITIATED", "AGGREGATING"} => pc[r] = "none"
  /\ pc[r] = "scheduled" => state[r] \in {"READY", "ORPHANED"}
  /\ pc[r] \in Delivering => state[r] \in {"SENDING", "ORPHANED"}

\* Nothing is mailed before the send step, and that step is taken once.
DeliveryCounted(r) ==
  /\ mailed[r] <= 1
  /\ pc[r] \in {"none", "scheduled", "claimed", "rendered", "resolved"}
       => mailed[r] = 0
  /\ pc[r] = "delivered" => mailed[r] = 1 \/ recipients[r] = "none"

\* From rendering on, the task's snapshot is what the stages table holds.
PageKept(r) ==
  pc[r] \in {"rendered", "resolved"} \/ mailed[r] > 0 => snap[r] = Assembled(r)

\* The audit log has no record until the task is finalized, then the right one.
AuditKept(r) ==
  /\ pc[r] \in Delivering \union {"none", "scheduled"} => sendAudit[r] = <<>>
  /\ pc[r] \in {"notifying", "done"} =>
       /\ Len(sendAudit[r]) = 1
       /\ LET a == sendAudit[r][1] IN
            /\ a.new = state[r]
            /\ state[r] \in TERMINAL_STATES
            /\ a.prior = a.new <=> state[r] = "ORPHANED"
            /\ state[r] = "SENT" => a.outcome = "SUCCESS"
            /\ state[r] = "FAILED" => a.outcome = "FAILURE"
            /\ a.outcome = "SUCCESS" => mailed[r] = 1 \/ recipients[r] = "none"

\* The sweeper's records of a run agree with its state.
SweepKept(r) ==
  /\ dispositions[r] = IF state[r] = "ORPHANED" THEN 1 ELSE 0
  /\ state[r] = "ORPHANED" => pendingAtOrphan[r] = PendingStages(r)

\* A run that does not exist has no stage rows.
BlankBeforeBegin(r) ==
  state[r] = Absent => \A s \in Stages : stageState[r][s] = Absent

RunInv(r) ==
  /\ TaskMatchesRun(r)
  /\ DeliveryCounted(r)
  /\ PageKept(r)
  /\ AuditKept(r)
  /\ SweepKept(r)
  /\ BlankBeforeBegin(r)

IInv == TypeOK /\ BeginsAreFresh /\ \A r \in Runs : RunInv(r)

LEMMA InitInv == Init => IInv
<1> SUFFICES ASSUME Init
             PROVE  IInv
  OBVIOUS
<1>1. TypeOK
  BY InitTyped
<1>2. BeginsAreFresh
  BY DEF Init, BeginsAreFresh
<1>3. ASSUME NEW r \in Runs
      PROVE  RunInv(r)
  BY DEF Init, RunInv, TaskMatchesRun, DeliveryCounted, PageKept, AuditKept,
         SweepKept, BlankBeforeBegin, Delivering, Absent
<1> QED
  BY <1>1, <1>2, <1>3 DEF IInv

\* A step that leaves everything about a run alone keeps the run's invariant.
LEMMA Untouched ==
  ASSUME NEW r \in Runs, RunInv(r),
         state'[r] = state[r], declared'[r] = declared[r],
         stageState'[r] = stageState[r], content'[r] = content[r],
         pc'[r] = pc[r], snap'[r] = snap[r], recipients'[r] = recipients[r],
         mailed'[r] = mailed[r], sendAudit'[r] = sendAudit[r],
         dispositions'[r] = dispositions[r],
         pendingAtOrphan'[r] = pendingAtOrphan[r]
  PROVE  RunInv(r)'
<1>1. Assembled(r)' = Assembled(r)
  BY DEF Assembled
<1>2. PendingStages(r)' = PendingStages(r)
  BY DEF PendingStages
<1> QED
  BY <1>1, <1>2
  DEF RunInv, TaskMatchesRun, DeliveryCounted, PageKept, AuditKept, SweepKept,
      BlankBeforeBegin

-----------------------------------------------------------------------------
(* The steps keep begin requests fresh.                                    *)

\* Serving the head of the queue, or losing a request, keeps the others fresh.
LEMMA ShrinkFresh ==
  ASSUME TypeOK, BeginsAreFresh, NEW k \in DOMAIN inflight,
         inflight' = [j \in 1 .. Len(inflight) - 1 |->
                        IF j < k THEN inflight[j] ELSE inflight[j + 1]],
         \A r \in Runs : state[r] = Absent /\ r # inflight[k].run
                           => state'[r] = Absent,
         \A i \in DOMAIN inflight \ {k} :
           inflight[i].op = "begin" => inflight[i].run # inflight[k].run
  PROVE  BeginsAreFresh'
<1> DEFINE old(j) == IF j < k THEN j ELSE j + 1
<1>1. Len(inflight) \in Nat /\ DOMAIN inflight = 1 .. Len(inflight)
  BY DEF TypeOK
<1>2. DOMAIN inflight' = 1 .. Len(inflight) - 1
  OBVIOUS
<1>3. ASSUME NEW j \in DOMAIN inflight'
      PROVE  /\ old(j) \in DOMAIN inflight \ {k}
             /\ inflight'[j] = inflight[old(j)]
             /\ inflight'[j].run \in Runs
  <2>1. old(j) \in DOMAIN inflight \ {k} /\ inflight'[j] = inflight[old(j)]
    BY <1>1, <1>2
  <2>2. inflight[old(j)] \in Request
    BY <2>1 DEF TypeOK
  <2> QED
    BY <2>1, <2>2, RequestFields
<1>4. ASSUME NEW i \in DOMAIN inflight', NEW j \in DOMAIN inflight', i # j
      PROVE  old(i) # old(j)
  BY <1>1, <1>2, <1>4
<1> HIDE DEF old
<1>5. ASSUME NEW i \in DOMAIN inflight', inflight'[i].op = "begin"
      PROVE  /\ state'[inflight'[i].run] = Absent
             /\ \A j \in DOMAIN inflight' \ {i} :
                  inflight'[j].run # inflight'[i].run
  <2>1. /\ inflight[old(i)].op = "begin"
        /\ state[inflight[old(i)].run] = Absent
        /\ inflight[old(i)].run # inflight[k].run
    BY <1>3, <1>5 DEF BeginsAreFresh
  <2>2. state'[inflight'[i].run] = Absent
    BY <1>3, <2>1
  <2>3. ASSUME NEW j \in DOMAIN inflight' \ {i}
        PROVE  inflight'[j].run # inflight'[i].run
    <3>1. old(j) \in DOMAIN inflight \ {old(i)}
      BY <1>3, <1>4
    <3> QED
      BY <1>3, <2>1, <3>1 DEF BeginsAreFresh
  <2> QED
    BY <2>2, <2>3
<1> QED
  BY <1>5 DEF BeginsAreFresh

\* Appending a request keeps the others fresh.
LEMMA ArriveFresh ==
  ASSUME TypeOK, BeginsAreFresh, RpcArrives
  PROVE  BeginsAreFresh'
<1>1. PICK q \in Request :
        /\ Arrive(q)
        /\ \/ /\ q.op = "begin" /\ state[q.run] = Absent
              /\ \A i \in DOMAIN inflight : inflight[i].run # q.run
           \/ q.op # "begin" /\ state[q.run] # Absent
  BY RequestsTyped
  DEF RpcArrives, BeginRunArrives, SubmitArrives, FinalizeArrives
<1>2. inflight' = Append(inflight, q) /\ state' = state
  BY <1>1 DEF Arrive, rowVars
<1>3. /\ DOMAIN inflight' = DOMAIN inflight \union {Len(inflight) + 1}
      /\ \A i \in DOMAIN inflight : inflight'[i] = inflight[i]
      /\ inflight'[Len(inflight) + 1] = q
      /\ Len(inflight) + 1 \notin DOMAIN inflight
  BY <1>2 DEF TypeOK
<1> QED
  BY <1>1, <1>2, <1>3 DEF BeginsAreFresh

\* A step that keeps the queue and the absent runs keeps begin requests fresh.
LEMMA SameQueueFresh ==
  ASSUME TypeOK, BeginsAreFresh, inflight' = inflight,
         \A r \in Runs : state[r] = Absent => state'[r] = Absent
  PROVE  BeginsAreFresh'
<1>1. \A i \in DOMAIN inflight : inflight[i].run \in Runs
  BY RequestFields DEF TypeOK
<1> QED
  BY <1>1 DEF BeginsAreFresh

-----------------------------------------------------------------------------
(* The steps of the RPCs.                                                  *)

\* The head of the queue leaves it, as if dropped from the first place.
LEMMA ServedIsDropped ==
  ASSUME TypeOK, inflight # <<>>, inflight' = Tail(inflight)
  PROVE  /\ 1 \in DOMAIN inflight /\ inflight[1] = Head(inflight)
         /\ inflight' = [j \in 1 .. Len(inflight) - 1 |->
                           IF j < 1 THEN inflight[j] ELSE inflight[j + 1]]
<1> DEFINE t == Tail(inflight)
<1>1. 1 \in DOMAIN inflight /\ inflight[1] = Head(inflight)
  BY DEF TypeOK
<1>2. /\ t \in Seq(Request) /\ Len(t) = Len(inflight) - 1
      /\ \A j \in 1 .. Len(t) : t[j] = inflight[j + 1]
  BY DEF TypeOK
<1> HIDE DEF t
<1>3. t = [j \in 1 .. Len(t) |-> t[j]]
  <2>1. t \in [1 .. Len(t) -> Request]
    BY <1>2
  <2> QED
    BY <2>1
<1>4. \A j \in 1 .. Len(t) :
        t[j] = IF j < 1 THEN inflight[j] ELSE inflight[j + 1]
  BY <1>2
<1> QED
  BY <1>1, <1>2, <1>3, <1>4 DEF t

LEMMA RpcKeepsInv ==
  ASSUME IInv, inflight # <<>>, NEW q, q = Head(inflight), RpcServed(q)
  PROVE  IInv'
<1>1. TypeOK /\ TypeOK' /\ BeginsAreFresh
  BY RpcTyped DEF IInv
<1>2. /\ q \in Request /\ q.run \in Runs
      /\ q.op = "begin" => q.stages \in SUBSET Stages
      /\ q.op = "submit" => q.stage \in Stages /\ q.content \in Contents
  BY <1>1, QueueShrinks, RequestFields DEF TypeOK
<1>3. inflight' = Tail(inflight) /\ q = inflight[1] /\ 1 \in DOMAIN inflight
  <2>1. inflight' = Tail(inflight)
    BY DEF RpcServed, BeginRun, SubmitStageReport, FinalizeRun,
           FinalizeInterrupted, RpcRejected, GetsLock
  <2> QED
    BY <1>1, <2>1, ServedIsDropped
<1>4. q.op = "begin" => state[q.run] = Absent
  BY <1>1, <1>3 DEF BeginsAreFresh
<1>5. \A r \in Runs : RunInv(r)
  BY DEF IInv
<1>6. ASSUME NEW r \in Runs, r # q.run
      PROVE  RunInv(r)' /\ (state[r] = Absent => state'[r] = Absent)
  <2>1. /\ state'[r] = state[r] /\ declared'[r] = declared[r]
        /\ stageState'[r] = stageState[r] /\ content'[r] = content[r]
        /\ pc'[r] = pc[r]
        /\ snap' = snap /\ recipients' = recipients /\ mailed' = mailed
        /\ sendAudit' = sendAudit /\ dispositions' = dispositions
        /\ pendingAtOrphan' = pendingAtOrphan
    <3> USE <1>1, <1>2, <1>6 DEF TypeOK, rowVars, stageVars, taskVars, sweepVars
    <3>1. CASE BeginRun(q)
      BY <3>1 DEF BeginRun
    <3>2. CASE SubmitStageReport(q)
      <4>1. state'[r] = state[r] /\ declared'[r] = declared[r]
        <5>1. UNCHANGED rowVars \/ UpdateState(q.run, "AGGREGATING", q.now)
          BY <3>2 DEF SubmitStageReport
        <5> QED
          BY <5>1 DEF UpdateState
      <4>2. stageState'[r] = stageState[r] /\ content'[r] = content[r]
        BY <3>2 DEF SubmitStageReport
      <4> QED
        BY <3>2, <4>1, <4>2 DEF SubmitStageReport
    <3>3. CASE FinalizeRun(q)
      BY <3>3 DEF FinalizeRun, UpdateState
    <3>4. CASE FinalizeInterrupted(q)
      BY <3>4 DEF FinalizeInterrupted, UpdateState
    <3>5. CASE RpcRejected(q)
      BY <3>5 DEF RpcRejected
    <3> QED
      BY <3>1, <3>2, <3>3, <3>4, <3>5 DEF RpcServed
  <2>2. RunInv(r)
    BY <1>5
  <2>3. RunInv(r)'
    BY <2>1, <2>2, Untouched
  <2> QED
    BY <2>1, <2>3
<1>7. RunInv(q.run)'
  <2> DEFINE r == q.run
  <2>0. r \in Runs /\ RunInv(r)
    BY <1>2, <1>5
  <2> USE DEF RunInv, TaskMatchesRun, DeliveryCounted, PageKept, AuditKept,
              SweepKept, BlankBeforeBegin, Delivering
  <2>1. CASE BeginRun(q)
    <3>1. state[r] = Absent /\ pc[r] = "none" /\ mailed[r] = 0
      BY <1>4, <2>0, <2>1 DEF BeginRun
    <3>2. /\ state'[r] = "INITIATED"
          /\ UNCHANGED <<pc, mailed, sendAudit, recipients, dispositions>>
      BY <1>1, <1>2, <2>1 DEF BeginRun, TypeOK, taskVars, sweepVars
    <3> QED
      BY <2>0, <3>1, <3>2 DEF Absent
  <2>2. CASE SubmitStageReport(q)
    <3>1. /\ state[r] \in {"INITIATED", "AGGREGATING"}
          /\ pc[r] = "none" /\ mailed[r] = 0
      BY <2>0, <2>2 DEF SubmitStageReport, SubmitAccepted, RUN_SUBMISSION_SOURCES
    <3>2. /\ state'[r] = "AGGREGATING"
          /\ UNCHANGED <<pc, mailed, sendAudit, recipients, dispositions>>
      BY <1>1, <1>2, <2>2, <3>1
      DEF SubmitStageReport, UpdateState, TypeOK, taskVars, sweepVars, rowVars
    <3> QED
      BY <2>0, <3>1, <3>2 DEF Absent
  <2>3. CASE FinalizeRun(q) \/ FinalizeInterrupted(q)
    <3>1. state[r] = "AGGREGATING" /\ pc[r] = "none" /\ mailed[r] = 0
      BY <2>0, <2>3 DEF FinalizeRun, FinalizeInterrupted, FinalizeAccepted
    <3>2. /\ state'[r] = "READY" /\ pc'[r] \in {"none", "scheduled"}
          /\ UNCHANGED <<mailed, sendAudit, recipients, dispositions>>
      BY <1>1, <1>2, <2>3, <3>1
      DEF FinalizeRun, FinalizeInterrupted, UpdateState, TypeOK, taskVars,
          sweepVars
    <3> QED
      BY <2>0, <3>1, <3>2 DEF Absent
  <2>4. CASE RpcRejected(q)
    BY <2>0, <2>4, Untouched
    DEF RpcRejected, rowVars, stageVars, taskVars, sweepVars
  <2> QED
    BY <2>1, <2>2, <2>3, <2>4 DEF RpcServed
<1>8. BeginsAreFresh'
  <2>1. \A i \in DOMAIN inflight \ {1} :
          inflight[i].op = "begin" => inflight[i].run # inflight[1].run
    BY <1>1, <1>3 DEF BeginsAreFresh
  <2> QED
    BY <1>1, <1>3, <1>6, <2>1, ServedIsDropped, ShrinkFresh
<1> QED
  BY <1>1, <1>6, <1>7, <1>8 DEF IInv

\* Arrivals and losses touch the queue alone.
LEMMA QueueKeepsInv ==
  ASSUME IInv, RpcArrives \/ \E i \in DOMAIN inflight : RpcDropped(i)
  PROVE  IInv'
<1>1. TypeOK /\ TypeOK' /\ BeginsAreFresh
  BY QueueTyped DEF IInv
<1>2. UNCHANGED <<rowVars, stageVars, taskVars, sweepVars>>
  BY DEF RpcArrives, BeginRunArrives, SubmitArrives, FinalizeArrives, Arrive,
         RpcDropped
<1>3. \A r \in Runs : RunInv(r)'
  BY <1>2, Untouched DEF IInv, rowVars, stageVars, taskVars, sweepVars
<1>4. BeginsAreFresh'
  <2>1. CASE RpcArrives
    BY <1>1, <2>1, ArriveFresh
  <2>2. ASSUME NEW k \in DOMAIN inflight, RpcDropped(k)
        PROVE  BeginsAreFresh'
    <3>1. \A i \in DOMAIN inflight \ {k} :
            inflight[i].op = "begin" => inflight[i].run # inflight[k].run
      BY <1>1 DEF BeginsAreFresh
    <3>2. state' = state
      BY <1>2 DEF rowVars
    <3> QED
      BY <1>1, <2>2, <3>1, <3>2, ShrinkFresh DEF RpcDropped
  <2> QED
    BY <2>1, <2>2
<1> QED
  BY <1>1, <1>3, <1>4 DEF IInv

-----------------------------------------------------------------------------
(* The steps of the delivery task.                                         *)

\* A task step leaves the other runs, the stages table and the queue alone.
LEMMA TaskFrame ==
  ASSUME TypeOK, NEW r \in Runs, TaskAdvances(r) \/ TaskDies(r)
  PROVE  /\ UNCHANGED <<stageState, content, inflight, dispositions,
                        pendingAtOrphan, declared>>
         /\ \A x \in Runs \ {r} :
              /\ state'[x] = state[x] /\ pc'[x] = pc[x]
              /\ snap'[x] = snap[x] /\ recipients'[x] = recipients[x]
              /\ mailed'[x] = mailed[x] /\ sendAudit'[x] = sendAudit[x]
<1> USE DEF TypeOK, GoTo, UpdateState, rowVars, stageVars, sweepVars, taskVars
<1>1. CASE ClaimForSending(r)
  BY <1>1 DEF ClaimForSending
<1>2. CASE LoadAndRender(r)
  BY <1>2 DEF LoadAndRender
<1>3. CASE ResolveRecipients(r)
  BY <1>3 DEF ResolveRecipients
<1>4. CASE SendMail(r)
  BY <1>4 DEF SendMail
<1>5. ASSUME NEW outcome, NEW to, NEW next, Finalize(r, outcome, to, next)
      PROVE  /\ UNCHANGED <<stageState, content, inflight, dispositions,
                            pendingAtOrphan, declared>>
             /\ \A x \in Runs \ {r} :
                  /\ state'[x] = state[x] /\ pc'[x] = pc[x]
                  /\ snap'[x] = snap[x] /\ recipients'[x] = recipients[x]
                  /\ mailed'[x] = mailed[x] /\ sendAudit'[x] = sendAudit[x]
  BY <1>5 DEF Finalize, Record
<1>6. CASE FinalizeSent(r)
  BY <1>5, <1>6 DEF FinalizeSent
<1>7. CASE FinalizeFailed(r)
  BY <1>5, <1>7 DEF FinalizeFailed
<1>8. CASE NotifyAdmins(r)
  BY <1>8 DEF NotifyAdmins
<1>9. CASE TaskDies(r)
  BY <1>9 DEF TaskDies
<1> QED
  BY <1>1, <1>2, <1>3, <1>4, <1>6, <1>7, <1>8, <1>9 DEF TaskAdvances

\* The closing step of a delivery leaves one record, and it is the right one.
LEMMA FinalizeKeepsRun ==
  ASSUME TypeOK, NEW r \in Runs, RunInv(r),
         NEW outcome \in {"SUCCESS", "FAILURE"},
         NEW next \in {"done", "notifying"},
         pc[r] \in Delivering,
         outcome = "SUCCESS" => mailed[r] = 1 \/ recipients[r] = "none",
         Finalize(r, outcome, IF outcome = "SUCCESS" THEN "SENT" ELSE "FAILED",
                  next)
  PROVE  RunInv(r)'
<1> DEFINE to == IF outcome = "SUCCESS" THEN "SENT" ELSE "FAILED"
<1>1. /\ UNCHANGED <<stageState, content, declared, snap, recipients, mailed,
                     dispositions, pendingAtOrphan>>
      /\ state[r] \in {"SENDING", "ORPHANED"}
      /\ sendAudit[r] = <<>>
  BY DEF Finalize, UpdateState, rowVars, stageVars, sweepVars, RunInv,
         TaskMatchesRun, AuditKept
<1>2. Assembled(r)' = Assembled(r) /\ PendingStages(r)' = PendingStages(r)
  BY <1>1 DEF Assembled, PendingStages
<1>3. \/ /\ state[r] = "ORPHANED" /\ state'[r] = "ORPHANED" /\ pc'[r] = next
         /\ sendAudit'[r] = <<[outcome |-> outcome, prior |-> "ORPHANED",
                               new |-> "ORPHANED"]>>
      \/ /\ state[r] = "SENDING" /\ state'[r] = to /\ pc'[r] = next
         /\ sendAudit'[r] = <<[outcome |-> outcome, prior |-> "SENDING",
                               new |-> to]>>
      \/ /\ state'[r] = state[r] /\ pc'[r] = "dead"
         /\ sendAudit'[r] = <<>>
  BY <1>1
  DEF Finalize, Record, GoTo, UpdateState, TypeOK, rowVars, TERMINAL_STATES
<1>4. /\ state'[r] = "ORPHANED" <=> state[r] = "ORPHANED"
      /\ state'[r] \notin {Absent, "INITIATED", "AGGREGATING"}
      /\ pc'[r] \in {"done", "notifying", "dead"}
  BY <1>1, <1>3 DEF Absent
<1>5. TaskMatchesRun(r)' /\ DeliveryCounted(r)'
  BY <1>1, <1>4 DEF RunInv, TaskMatchesRun, DeliveryCounted, Delivering
<1>6. PageKept(r)' /\ SweepKept(r)' /\ BlankBeforeBegin(r)'
  BY <1>1, <1>2, <1>4 DEF RunInv, PageKept, SweepKept, BlankBeforeBegin
<1>7. AuditKept(r)'
  <2>1. CASE pc'[r] = "dead"
    BY <2>1 DEF AuditKept, Delivering
  <2>2. CASE state'[r] = "ORPHANED" /\ pc'[r] # "dead"
    <3> DEFINE a == [outcome |-> outcome, prior |-> "ORPHANED", new |-> "ORPHANED"]
    <3>1. sendAudit'[r] = <<a>>
      BY <1>3, <2>2
    <3>2. Len(sendAudit'[r]) = 1 /\ sendAudit'[r][1] = a
      BY <3>1
    <3> QED
      BY <1>1, <1>4, <2>2, <3>2 DEF AuditKept, Delivering, TERMINAL_STATES
  <2>3. CASE state'[r] # "ORPHANED" /\ pc'[r] # "dead"
    <3> DEFINE a == [outcome |-> outcome, prior |-> "SENDING", new |-> to]
    <3>1. sendAudit'[r] = <<a>> /\ state'[r] = to
      BY <1>3, <2>3
    <3>2. Len(sendAudit'[r]) = 1 /\ sendAudit'[r][1] = a
      BY <3>1
    <3> QED
      BY <1>1, <1>4, <2>3, <3>1, <3>2 DEF AuditKept, Delivering, TERMINAL_STATES
  <2> QED
    BY <2>1, <2>2, <2>3
<1> QED
  BY <1>5, <1>6, <1>7 DEF RunInv

LEMMA TaskKeepsInv ==
  ASSUME IInv, NEW r \in Runs, TaskAdvances(r) \/ TaskDies(r)
  PROVE  IInv'
<1>1. TypeOK /\ TypeOK' /\ BeginsAreFresh /\ RunInv(r)
  BY TaskTyped DEF IInv
<1>2. /\ stageState' = stageState /\ content' = content /\ declared' = declared
      /\ inflight' = inflight /\ dispositions' = dispositions
      /\ pendingAtOrphan' = pendingAtOrphan
      /\ \A x \in Runs \ {r} :
           /\ state'[x] = state[x] /\ pc'[x] = pc[x]
           /\ snap'[x] = snap[x] /\ recipients'[x] = recipients[x]
           /\ mailed'[x] = mailed[x] /\ sendAudit'[x] = sendAudit[x]
  BY <1>1, TaskFrame
<1>3. ASSUME NEW x \in Runs \ {r}
      PROVE  RunInv(x)'
  <2>1. RunInv(x)
    BY DEF IInv
  <2> QED
    BY <1>2, <2>1, Untouched
<1>4. Assembled(r)' = Assembled(r) /\ PendingStages(r)' = PendingStages(r)
  BY <1>2 DEF Assembled, PendingStages
<1>5. RunInv(r)' /\ (state[r] = Absent => state'[r] = Absent)
  <2> USE <1>1, <1>2, <1>4
      DEF RunInv, TaskMatchesRun, DeliveryCounted, PageKept, AuditKept,
          SweepKept, BlankBeforeBegin, Delivering
  <2>0. pc[r] # "none"
    BY DEF TaskAdvances, ClaimForSending, LoadAndRender, ResolveRecipients,
           SendMail, FinalizeSent, FinalizeFailed, NotifyAdmins, TaskDies,
           TaskStep
  <2>1. state[r] \notin {Absent, "INITIATED", "AGGREGATING"}
    BY <2>0
  <2>2. CASE ClaimForSending(r)
    <3>1. /\ \/ state[r] = "READY" /\ state'[r] = "SENDING" /\ pc'[r] = "claimed"
             \/ state'[r] = state[r] /\ pc'[r] = "dead"
          /\ UNCHANGED <<mailed, sendAudit, recipients, snap>>
      BY <2>2
      DEF ClaimForSending, GoTo, UpdateState, TypeOK, rowVars, CanTransition,
          TRANSITIONS, NON_TERMINAL_STATES, TERMINAL_STATES, RunState
    <3> QED
      BY <2>1, <2>2, <3>1 DEF ClaimForSending, Absent
  <2>3. CASE LoadAndRender(r)
    <3>1. /\ snap'[r] = Assembled(r) /\ pc'[r] \in {"rendered", "undelivered"}
          /\ UNCHANGED <<state, mailed, sendAudit, recipients>>
      BY <2>3 DEF LoadAndRender, GoTo, TypeOK, rowVars
    <3> QED
      BY <2>1, <2>3, <3>1 DEF LoadAndRender
  <2>4. CASE ResolveRecipients(r)
    <3>1. /\ \/ recipients'[r] = "none" /\ pc'[r] = "delivered"
             \/ recipients'[r] = "some" /\ pc'[r] = "resolved"
          /\ UNCHANGED <<state, mailed, sendAudit, snap>>
      BY <2>4 DEF ResolveRecipients, GoTo, TypeOK, rowVars
    <3> QED
      BY <2>1, <2>4, <3>1 DEF ResolveRecipients
  <2>5. CASE SendMail(r)
    <3>1. /\ \/ pc'[r] = "delivered" /\ mailed'[r] = 1
             \/ pc'[r] \in {"oversize", "undelivered"} /\ mailed'[r] \in {0, 1}
          /\ UNCHANGED <<state, sendAudit, snap, recipients>>
      BY <2>5 DEF SendMail, GoTo, TypeOK, rowVars
    <3> QED
      BY <2>1, <2>5, <3>1 DEF SendMail
  <2>6. CASE FinalizeSent(r)
    <3>1. RunInv(r)'
      BY <2>6, FinalizeKeepsRun DEF FinalizeSent
    <3> QED
      BY <2>1, <3>1
  <2>7. CASE FinalizeFailed(r)
    <3>1. RunInv(r)'
      BY <2>7, FinalizeKeepsRun DEF FinalizeFailed
    <3> QED
      BY <2>1, <3>1
  <2>8. CASE NotifyAdmins(r)
    <3>1. /\ pc[r] = "notifying" /\ pc'[r] = "done"
          /\ UNCHANGED <<state, mailed, sendAudit, snap, recipients>>
      BY <2>8 DEF NotifyAdmins, GoTo, TypeOK, rowVars
    <3> QED
      BY <2>1, <3>1
  <2>9. CASE TaskDies(r)
    <3>1. /\ pc'[r] = "dead"
          /\ UNCHANGED <<state, mailed, sendAudit, snap, recipients>>
      BY <2>9 DEF TaskDies, GoTo, TypeOK, rowVars
    <3> QED
      BY <2>1, <3>1
  <2> QED
    BY <2>2, <2>3, <2>4, <2>5, <2>6, <2>7, <2>8, <2>9 DEF TaskAdvances
<1>6. BeginsAreFresh'
  BY <1>1, <1>2, <1>5, SameQueueFresh
<1> QED
  BY <1>1, <1>3, <1>5, <1>6 DEF IInv

-----------------------------------------------------------------------------
(* The steps of the sweeper and of the environment.                        *)

LEMMA OrphanKeepsInv ==
  ASSUME IInv, NEW r \in Runs, OrphanCandidate(r)
  PROVE  IInv'
<1>1. TypeOK /\ TypeOK' /\ BeginsAreFresh /\ RunInv(r)
  BY SweepTyped DEF IInv, Sweep
<1>2. /\ stageState' = stageState /\ content' = content /\ declared' = declared
      /\ inflight' = inflight /\ pc' = pc /\ snap' = snap
      /\ recipients' = recipients /\ mailed' = mailed /\ sendAudit' = sendAudit
  BY DEF OrphanCandidate, UpdateState, rowVars, stageVars, taskVars
<1>3. \/ UNCHANGED <<state, pendingAtOrphan, dispositions>>
      \/ /\ state[r] \in NON_TERMINAL_STATES
         /\ state' = [state EXCEPT ![r] = "ORPHANED"]
         /\ pendingAtOrphan' = [pendingAtOrphan EXCEPT ![r] = PendingStages(r)]
         /\ dispositions' = [dispositions EXCEPT ![r] = @ + 1]
  BY DEF OrphanCandidate, UpdateState, rowVars, CanTransition, TRANSITIONS,
         NON_TERMINAL_STATES, TERMINAL_STATES, RunState
<1>4. ASSUME NEW x \in Runs \ {r}
      PROVE  RunInv(x)' /\ state'[x] = state[x]
  <2>1. /\ state'[x] = state[x] /\ pendingAtOrphan'[x] = pendingAtOrphan[x]
        /\ dispositions'[x] = dispositions[x]
    BY <1>1, <1>3 DEF TypeOK
  <2>2. RunInv(x)
    BY DEF IInv
  <2> QED
    BY <1>2, <2>1, <2>2, Untouched
<1>5. RunInv(r)' /\ (state[r] = Absent => state'[r] = Absent)
  <2>1. Assembled(r)' = Assembled(r) /\ PendingStages(r)' = PendingStages(r)
    BY <1>2 DEF Assembled, PendingStages
  <2>2. CASE UNCHANGED <<state, pendingAtOrphan, dispositions>>
    BY <1>1, <1>2, <2>2, Untouched
  <2>3. CASE /\ state[r] \in NON_TERMINAL_STATES
             /\ state' = [state EXCEPT ![r] = "ORPHANED"]
             /\ pendingAtOrphan' = [pendingAtOrphan EXCEPT ![r] = PendingStages(r)]
             /\ dispositions' = [dispositions EXCEPT ![r] = @ + 1]
    <3>1. /\ state'[r] = "ORPHANED" /\ pendingAtOrphan'[r] = PendingStages(r)
          /\ dispositions'[r] = dispositions[r] + 1
      BY <1>1, <2>3 DEF TypeOK
    <3>2. state[r] \in {"INITIATED", "AGGREGATING", "READY", "SENDING"}
      BY <2>3 DEF NON_TERMINAL_STATES, TERMINAL_STATES, RunState
    <3>3. SweepKept(r)'
      BY <1>1, <2>1, <3>1, <3>2 DEF RunInv, SweepKept
    <3>4. TaskMatchesRun(r)' /\ DeliveryCounted(r)' /\ PageKept(r)'
          /\ BlankBeforeBegin(r)'
      BY <1>1, <1>2, <2>1, <3>1
      DEF RunInv, TaskMatchesRun, DeliveryCounted, PageKept, BlankBeforeBegin,
          Absent
    <3>5. AuditKept(r)'
      BY <1>1, <1>2, <3>1, <3>2 DEF RunInv, AuditKept, TERMINAL_STATES
    <3> QED
      BY <3>2, <3>3, <3>4, <3>5 DEF RunInv, Absent
  <2> QED
    BY <1>3, <2>2, <2>3
<1>6. BeginsAreFresh'
  BY <1>1, <1>2, <1>4, <1>5, SameQueueFresh
<1> QED
  BY <1>1, <1>4, <1>5, <1>6 DEF IInv

\* Listing, aborting, crashing and the clock leave the tables alone; a crash
\* empties the queue and kills the tasks.
LEMMA OthersKeepInv ==
  ASSUME IInv,
         \/ SweepBegins \/ SweepLists \/ SweepAborts
         \/ CrashAndRestart \/ Tick \/ StepBack
  PROVE  IInv'
<1>1. TypeOK /\ TypeOK' /\ BeginsAreFresh
  BY SweepTyped, EnvironmentTyped DEF IInv, Sweep
<1>2. CASE SweepBegins \/ SweepLists \/ SweepAborts \/ Tick \/ StepBack
  <2>1. UNCHANGED <<rowVars, stageVars, taskVars, inflight, dispositions,
                    pendingAtOrphan>>
    BY <1>2 DEF SweepBegins, SweepLists, SweepAborts, Tick, StepBack, sweepVars
  <2>2. \A x \in Runs : RunInv(x)'
    BY <2>1, Untouched DEF IInv, rowVars, stageVars, taskVars
  <2>3. BeginsAreFresh'
    BY <1>1, <2>1, SameQueueFresh DEF rowVars
  <2> QED
    BY <1>1, <2>2, <2>3 DEF IInv
<1>3. CASE CrashAndRestart
  <2>1. /\ UNCHANGED <<state, declared, stageState, content, snap, recipients,
                       mailed, sendAudit, dispositions, pendingAtOrphan>>
        /\ inflight' = <<>>
    BY <1>3 DEF CrashAndRestart, rowVars, stageVars
  <2>2. ASSUME NEW x \in Runs
        PROVE  RunInv(x)'
    <3>1. RunInv(x)
      BY DEF IInv
    <3>2. CASE pc'[x] = pc[x]
      BY <2>1, <3>1, <3>2, Untouched
    <3>3. CASE pc[x] \in TaskStep /\ pc'[x] = "dead"
      <4>1. Assembled(x)' = Assembled(x) /\ PendingStages(x)' = PendingStages(x)
        BY <2>1 DEF Assembled, PendingStages
      <4> QED
        BY <2>1, <3>1, <3>3, <4>1
        DEF RunInv, TaskMatchesRun, DeliveryCounted, PageKept, AuditKept,
            SweepKept, BlankBeforeBegin, Delivering, TaskStep
    <3> QED
      BY <1>1, <1>3, <3>2, <3>3 DEF CrashAndRestart, TypeOK
  <2>3. BeginsAreFresh'
    BY <2>1 DEF BeginsAreFresh
  <2> QED
    BY <1>1, <2>2, <2>3 DEF IInv
<1> QED
  BY <1>2, <1>3

LEMMA StepInv == IInv /\ [Next]_vars => IInv'
<1> SUFFICES ASSUME IInv, [Next]_vars
             PROVE  IInv'
  OBVIOUS
<1>1. CASE Next
  BY <1>1, RpcKeepsInv, QueueKeepsInv, TaskKeepsInv, OrphanKeepsInv,
     OthersKeepInv
  DEF Next, Sweep
<1>2. CASE UNCHANGED vars
  <2>1. TypeOK' /\ BeginsAreFresh'
    BY <1>2, StepTyped, SameQueueFresh DEF IInv, vars, rowVars
  <2>2. \A r \in Runs : RunInv(r)'
    BY <1>2, Untouched
    DEF IInv, vars, rowVars, stageVars, taskVars, sweepVars
  <2> QED
    BY <2>1, <2>2 DEF IInv
<1> QED
  BY <1>1, <1>2

\* The inductive invariant holds of every reachable state.
THEOREM Invariance == Spec => []IInv
BY InitInv, StepInv, PTL DEF Spec

-----------------------------------------------------------------------------
(* The safety properties of the runs.                                      *)

\* What a mail carried is what the stages table still holds.
THEOREM MailedIsStoredHolds == Spec => []MailedIsStored
<1>1. IInv => MailedIsStored
  BY DEF IInv, RunInv, PageKept, MailedIsStored
<1> QED
  BY <1>1, Invariance, PTL

\* At most one call of mailer.send delivers a run.
THEOREM AtMostOneDeliveryHolds == Spec => []AtMostOneDelivery
<1>1. IInv => AtMostOneDelivery
  BY DEF IInv, RunInv, DeliveryCounted, AtMostOneDelivery
<1> QED
  BY <1>1, Invariance, PTL

\* A delivery task that ran to its end left one truthful SEND_REPORT record.
THEOREM OutcomeRecordedHolds == Spec => []OutcomeRecorded
<1>1. IInv => OutcomeRecorded
  BY DEF IInv, RunInv, AuditKept, OutcomeRecorded
<1> QED
  BY <1>1, Invariance, PTL

\* Disposition actions are enqueued exactly once, for orphaned runs only.
THEOREM DispositionOnceHolds == Spec => []DispositionOnce
<1>1. IInv => DispositionOnce
  BY DEF IInv, RunInv, SweepKept, DispositionOnce
<1> QED
  BY <1>1, Invariance, PTL

\* The pending stages of a SWEEP_ORPHAN record stay true.
THEOREM OrphanRecordAccurateHolds == Spec => []OrphanRecordAccurate
<1>1. IInv => OrphanRecordAccurate
  BY DEF IInv, RunInv, SweepKept, OrphanRecordAccurate
<1> QED
  BY <1>1, Invariance, PTL

-----------------------------------------------------------------------------
(* The time stamps of runs, up to the first backward correction of the     *)
(* host clock.                                                             *)


\* Stamps are ordered and none lies ahead of the clock.
StampsOrdered ==
  \A r \in Runs : createdAt[r] <= updatedAt[r] /\ updatedAt[r] <= clock

\* The lock is first in first out and requests read the clock as they join the
\* queue, so their readings are ordered as the queue is.
ReadingsOrdered ==
  \A i, j \in DOMAIN inflight :
    /\ inflight[i].now <= clock
    /\ i < j => inflight[i].now <= inflight[j].now

\* A queued request for a run that still collects has read the clock no earlier
\* than the run was last stamped.
ReadingsCurrent ==
  \A i \in DOMAIN inflight :
    inflight[i].op # "begin"
      /\ state[inflight[i].run] \in {"INITIATED", "AGGREGATING"}
    => updatedAt[inflight[i].run] <= inflight[i].now

ClockInv == IInv /\ StampsOrdered /\ ReadingsOrdered /\ ReadingsCurrent

\* What UpdatedAtMonotone says of one step.
StampsAdvance ==
  \A r \in Runs : state[r] # Absent => updatedAt'[r] >= updatedAt[r]

LEMMA ClockInit == Init => ClockInv
<1>1. Init => StampsOrdered /\ ReadingsOrdered /\ ReadingsCurrent
  BY DEF Init, StampsOrdered, ReadingsOrdered, ReadingsCurrent
<1> QED
  BY <1>1, InitInv DEF ClockInv

\* Stamps are numbers.
LEMMA StampsTyped ==
  ASSUME TypeOK
  PROVE  /\ clock \in Nat
         /\ \A r \in Runs : createdAt[r] \in Nat /\ updatedAt[r] \in Nat
BY DEF TypeOK

\* A request stays a request of its run while the queue shrinks around it.
LEMMA ShrinkOrdered ==
  ASSUME TypeOK, ReadingsOrdered, NEW k \in DOMAIN inflight,
         inflight' = [j \in 1 .. Len(inflight) - 1 |->
                        IF j < k THEN inflight[j] ELSE inflight[j + 1]],
         clock' = clock
  PROVE  /\ ReadingsOrdered'
         /\ \A j \in DOMAIN inflight' : \E i \in DOMAIN inflight :
              /\ i # k /\ inflight'[j] = inflight[i]
              /\ k = 1 => i > 1
<1>1. Len(inflight) \in Nat /\ DOMAIN inflight = 1 .. Len(inflight)
  BY DEF TypeOK
<1>2. \A i \in DOMAIN inflight : inflight[i].now \in Nat
  BY RequestFields DEF TypeOK
<1> DEFINE old(j) == IF j < k THEN j ELSE j + 1
<1>3. ASSUME NEW j \in DOMAIN inflight'
      PROVE  /\ old(j) \in DOMAIN inflight /\ old(j) # k
             /\ inflight'[j] = inflight[old(j)]
             /\ k = 1 => old(j) > 1
             /\ \A i \in DOMAIN inflight' : i < j => old(i) < old(j)
  BY <1>1
<1> HIDE DEF old
<1>4. ReadingsOrdered'
  BY <1>3 DEF ReadingsOrdered
<1> QED
  BY <1>3, <1>4

\* Serving an RPC: the stamp it writes is neither early nor ahead of those
\* that wait behind it.
LEMMA ServedOnTime ==
  ASSUME ClockInv, inflight # <<>>, NEW q, q = Head(inflight), RpcServed(q)
  PROVE  StampsOrdered' /\ ReadingsOrdered' /\ ReadingsCurrent' /\ StampsAdvance
<1>1. TypeOK /\ BeginsAreFresh /\ TypeOK'
  BY RpcTyped DEF ClockInv, IInv
<1>2. inflight' = Tail(inflight) /\ clock' = clock
  BY DEF RpcServed, BeginRun, SubmitStageReport, FinalizeRun,
         FinalizeInterrupted, RpcRejected, GetsLock, timeVars
<1>3. /\ 1 \in DOMAIN inflight /\ q = inflight[1]
      /\ inflight' = [j \in 1 .. Len(inflight) - 1 |->
                        IF j < 1 THEN inflight[j] ELSE inflight[j + 1]]
  BY <1>1, <1>2, ServedIsDropped
<1>4. /\ q.run \in Runs /\ q.now \in Nat /\ q.now <= clock
      /\ \A i \in DOMAIN inflight : inflight[i].run \in Runs /\ inflight[i].now \in Nat
  BY <1>1, <1>3, RequestFields DEF TypeOK, ClockInv, ReadingsOrdered
<1>5. /\ ReadingsOrdered'
      /\ \A j \in DOMAIN inflight' : \E i \in DOMAIN inflight :
           /\ i # 1 /\ inflight'[j] = inflight[i] /\ q.now <= inflight[i].now
  <2>1. ReadingsOrdered
    BY DEF ClockInv
  <2>2. /\ ReadingsOrdered'
        /\ \A j \in DOMAIN inflight' : \E i \in DOMAIN inflight :
             i # 1 /\ inflight'[j] = inflight[i] /\ i > 1
    BY <1>1, <1>2, <1>3, <2>1, ShrinkOrdered
  <2> QED
    BY <1>3, <2>1, <2>2 DEF ReadingsOrdered
<1>6. CASE BeginRun(q)
  <2>1. /\ state[q.run] = Absent
        /\ \A i \in DOMAIN inflight \ {1} : inflight[i].run # q.run
    BY <1>1, <1>3, <1>6 DEF BeginRun, BeginsAreFresh
  <2>2. \A r \in Runs :
          IF r = q.run
          THEN /\ state'[r] = "INITIATED"
               /\ createdAt'[r] = q.now /\ updatedAt'[r] = q.now
          ELSE /\ state'[r] = state[r]
               /\ createdAt'[r] = createdAt[r] /\ updatedAt'[r] = updatedAt[r]
    BY <1>1, <1>4, <1>6 DEF BeginRun, TypeOK
  <2>3. StampsOrdered' /\ StampsAdvance
    BY <1>1, <1>2, <1>4, <2>1, <2>2, StampsTyped
    DEF ClockInv, StampsOrdered, StampsAdvance
  <2>4. ReadingsCurrent'
    <3>1. ASSUME NEW j \in DOMAIN inflight', inflight'[j].op # "begin",
                 state'[inflight'[j].run] \in {"INITIATED", "AGGREGATING"}
          PROVE  updatedAt'[inflight'[j].run] <= inflight'[j].now
      <4>1. PICK i \in DOMAIN inflight : i # 1 /\ inflight'[j] = inflight[i]
        BY <1>5
      <4>2. inflight[i].run \in Runs /\ inflight[i].run # q.run
        BY <1>4, <2>1, <4>1
      <4> QED
        BY <2>2, <3>1, <4>1, <4>2 DEF ClockInv, ReadingsCurrent
    <3> QED
      BY <3>1 DEF ReadingsCurrent
  <2> QED
    BY <1>5, <2>3, <2>4
<1>7. ASSUME NEW to, UpdateState(q.run, to, q.now), q.op # "begin",
             state[q.run] \in {"INITIATED", "AGGREGATING"}
      PROVE  StampsOrdered' /\ ReadingsCurrent' /\ StampsAdvance
  <2>1. updatedAt[q.run] <= q.now
    BY <1>3, <1>7 DEF ClockInv, ReadingsCurrent
  <2>2. \A r \in Runs :
          /\ createdAt'[r] = createdAt[r]
          /\ IF r = q.run
             THEN state'[r] = to /\ updatedAt'[r] = q.now
             ELSE state'[r] = state[r] /\ updatedAt'[r] = updatedAt[r]
    BY <1>1, <1>4, <1>7 DEF UpdateState, TypeOK
  <2>3. StampsOrdered' /\ StampsAdvance
    BY <1>1, <1>2, <1>4, <2>1, <2>2, StampsTyped
    DEF ClockInv, StampsOrdered, StampsAdvance
  <2>4. ReadingsCurrent'
    <3>1. ASSUME NEW j \in DOMAIN inflight', inflight'[j].op # "begin",
                 state'[inflight'[j].run] \in {"INITIATED", "AGGREGATING"}
          PROVE  updatedAt'[inflight'[j].run] <= inflight'[j].now
      <4>1. PICK i \in DOMAIN inflight :
              inflight'[j] = inflight[i] /\ q.now <= inflight[i].now
        BY <1>5
      <4>2. inflight[i].run \in Runs
        BY <1>4
      <4>3. CASE inflight[i].run = q.run
        BY <2>2, <4>1, <4>2, <4>3
      <4>4. CASE inflight[i].run # q.run
        BY <2>2, <3>1, <4>1, <4>2, <4>4 DEF ClockInv, ReadingsCurrent
      <4> QED
        BY <4>3, <4>4
    <3> QED
      BY <3>1 DEF ReadingsCurrent
  <2> QED
    BY <2>3, <2>4
<1>8. ASSUME UNCHANGED rowVars
      PROVE  StampsOrdered' /\ ReadingsCurrent' /\ StampsAdvance
  BY <1>1, <1>2, <1>5, <1>8
  DEF ClockInv, StampsOrdered, ReadingsCurrent, StampsAdvance, rowVars, TypeOK
<1>9. CASE SubmitStageReport(q)
  BY <1>5, <1>7, <1>8, <1>9
  DEF SubmitStageReport, SubmitAccepted, RUN_SUBMISSION_SOURCES
<1>10. CASE FinalizeRun(q) \/ FinalizeInterrupted(q)
  BY <1>5, <1>7, <1>10 DEF FinalizeRun, FinalizeInterrupted, FinalizeAccepted
<1>11. CASE RpcRejected(q)
  BY <1>5, <1>8, <1>11 DEF RpcRejected
<1> QED
  BY <1>6, <1>9, <1>10, <1>11 DEF RpcServed

\* Arrivals read the clock now; losses keep the order of the others.
LEMMA QueuedOnTime ==
  ASSUME ClockInv, RpcArrives \/ \E i \in DOMAIN inflight : RpcDropped(i)
  PROVE  StampsOrdered' /\ ReadingsOrdered' /\ ReadingsCurrent' /\ StampsAdvance
<1>1. TypeOK /\ ReadingsOrdered /\ StampsOrdered /\ ReadingsCurrent
  BY DEF ClockInv, IInv
<1>2. /\ state' = state /\ createdAt' = createdAt /\ updatedAt' = updatedAt
      /\ clock' = clock
  BY DEF RpcArrives, BeginRunArrives, SubmitArrives, FinalizeArrives, Arrive,
         RpcDropped, rowVars, timeVars
<1>3. StampsOrdered' /\ StampsAdvance
  BY <1>1, <1>2 DEF StampsOrdered, StampsAdvance, TypeOK
<1>4. ASSUME NEW k \in DOMAIN inflight, RpcDropped(k)
      PROVE  ReadingsOrdered' /\ ReadingsCurrent'
  <2>1. /\ ReadingsOrdered'
        /\ \A j \in DOMAIN inflight' : \E i \in DOMAIN inflight :
             inflight'[j] = inflight[i]
    BY <1>1, <1>2, <1>4, ShrinkOrdered DEF RpcDropped
  <2> QED
    BY <1>1, <1>2, <2>1 DEF ReadingsCurrent
<1>5. ASSUME RpcArrives
      PROVE  ReadingsOrdered' /\ ReadingsCurrent'
  <2>1. PICK q \in Request : Arrive(q) /\ q.now = clock
    BY <1>1, <1>5, RequestsTyped
    DEF RpcArrives, BeginRunArrives, SubmitArrives, FinalizeArrives
  <2>2. /\ DOMAIN inflight' = DOMAIN inflight \union {Len(inflight) + 1}
        /\ \A i \in DOMAIN inflight :
             inflight'[i] = inflight[i] /\ i < Len(inflight) + 1
        /\ inflight'[Len(inflight) + 1] = q
        /\ Len(inflight) + 1 \in Nat
    BY <1>1, <2>1 DEF Arrive, TypeOK
  <2>3. q.run \in Runs /\ updatedAt[q.run] <= q.now
    BY <1>1, <2>1, RequestFields DEF StampsOrdered
  <2>4. ReadingsCurrent'
    BY <1>1, <1>2, <2>2, <2>3 DEF ReadingsCurrent
  <2>5. ReadingsOrdered'
    <3>1. clock \in Nat /\ \A i \in DOMAIN inflight : i \in Nat
      BY <1>1 DEF TypeOK
    <3> QED
      BY <1>1, <1>2, <2>1, <2>2, <3>1 DEF ReadingsOrdered
  <2> QED
    BY <2>4, <2>5
<1> QED
  BY <1>3, <1>4, <1>5

\* The delivery task and the sweeper stamp the clock as they hold the lock.
LEMMA StampedNow ==
  ASSUME ClockInv, NEW r \in Runs, inflight' = inflight, clock' = clock,
         \/ UNCHANGED rowVars
         \/ \E to \in {"SENDING", "SENT", "FAILED", "ORPHANED"} :
              UpdateState(r, to, clock)
  PROVE  StampsOrdered' /\ ReadingsOrdered' /\ ReadingsCurrent' /\ StampsAdvance
<1>1. TypeOK /\ ReadingsOrdered /\ StampsOrdered /\ ReadingsCurrent
  BY DEF ClockInv, IInv
<1>2. \A i \in DOMAIN inflight : inflight[i].run \in Runs
  BY <1>1, RequestFields DEF TypeOK
<1>3. ReadingsOrdered'
  BY <1>1 DEF ReadingsOrdered
<1>4. CASE UNCHANGED rowVars
  BY <1>1, <1>3, <1>4
  DEF StampsOrdered, ReadingsCurrent, StampsAdvance, rowVars, TypeOK
<1>5. ASSUME NEW to \in {"SENDING", "SENT", "FAILED", "ORPHANED"},
             UpdateState(r, to, clock)
      PROVE  StampsOrdered' /\ ReadingsCurrent' /\ StampsAdvance
  <2>1. \A x \in Runs :
          /\ createdAt'[x] = createdAt[x]
          /\ IF x = r
             THEN state'[x] = to /\ updatedAt'[x] = clock
             ELSE state'[x] = state[x] /\ updatedAt'[x] = updatedAt[x]
    BY <1>1, <1>5 DEF UpdateState, TypeOK
  <2>2. StampsOrdered' /\ StampsAdvance
    BY <1>1, <2>1, StampsTyped DEF StampsOrdered, StampsAdvance
  <2>3. ReadingsCurrent'
    BY <1>1, <1>2, <2>1 DEF ReadingsCurrent
  <2> QED
    BY <2>2, <2>3
<1> QED
  BY <1>3, <1>4, <1>5

LEMMA TaskOnTime ==
  ASSUME ClockInv, NEW r \in Runs, TaskAdvances(r) \/ TaskDies(r)
  PROVE  StampsOrdered' /\ ReadingsOrdered' /\ ReadingsCurrent' /\ StampsAdvance
<1>1. inflight' = inflight /\ clock' = clock
  BY DEF TaskAdvances, ClaimForSending, LoadAndRender, ResolveRecipients,
         SendMail, FinalizeSent, FinalizeFailed, Finalize, NotifyAdmins,
         TaskDies, timeVars
<1>2. \/ UNCHANGED rowVars
      \/ \E to \in {"SENDING", "SENT", "FAILED", "ORPHANED"} :
           UpdateState(r, to, clock)
  BY DEF TaskAdvances, ClaimForSending, LoadAndRender, ResolveRecipients,
         SendMail, FinalizeSent, FinalizeFailed, Finalize, NotifyAdmins,
         TaskDies
<1> QED
  BY <1>1, <1>2, StampedNow

LEMMA SweepOnTime ==
  ASSUME ClockInv, Sweep \/ SweepAborts
  PROVE  StampsOrdered' /\ ReadingsOrdered' /\ ReadingsCurrent' /\ StampsAdvance
<1>1. ASSUME NEW r \in Runs, OrphanCandidate(r)
      PROVE  StampsOrdered' /\ ReadingsOrdered' /\ ReadingsCurrent' /\ StampsAdvance
  <2>1. /\ inflight' = inflight /\ clock' = clock
        /\ UNCHANGED rowVars \/ UpdateState(r, "ORPHANED", clock)
    BY <1>1 DEF OrphanCandidate, timeVars
  <2> QED
    BY <2>1, StampedNow
<1>2. CASE SweepBegins \/ SweepLists \/ SweepAborts
  <2>1. UNCHANGED <<clock, inflight, state, createdAt, updatedAt>>
    BY <1>2 DEF SweepBegins, SweepLists, SweepAborts, timeVars, rowVars
  <2>2. StampsOrdered' /\ ReadingsOrdered' /\ ReadingsCurrent'
    BY <2>1 DEF ClockInv, StampsOrdered, ReadingsOrdered, ReadingsCurrent
  <2>3. StampsAdvance
    BY <2>1, StampsTyped DEF ClockInv, IInv, StampsAdvance
  <2> QED
    BY <2>2, <2>3
<1> QED
  BY <1>1, <1>2 DEF Sweep

LEMMA EnvironmentOnTime ==
  ASSUME ClockInv, stepBacks' = 0, CrashAndRestart \/ Tick \/ StepBack
  PROVE  StampsOrdered' /\ ReadingsOrdered' /\ ReadingsCurrent' /\ StampsAdvance
<1>1. /\ TypeOK /\ StampsOrdered /\ ReadingsOrdered /\ ReadingsCurrent
      /\ state' = state /\ createdAt' = createdAt /\ updatedAt' = updatedAt
  BY DEF ClockInv, IInv, CrashAndRestart, Tick, StepBack, rowVars
<1>2. \A i \in DOMAIN inflight : inflight[i].now \in Nat
  BY <1>1, RequestFields DEF TypeOK
<1>3. StampsAdvance
  BY <1>1, StampsTyped DEF StampsAdvance
<1>4. CASE CrashAndRestart
  BY <1>1, <1>3, <1>4
  DEF CrashAndRestart, timeVars, StampsOrdered, ReadingsOrdered, ReadingsCurrent
<1>5. CASE Tick
  <2>1. inflight' = inflight /\ clock' = clock + 1
    BY <1>5 DEF Tick
  <2>2. StampsOrdered'
    BY <1>1, <2>1, StampsTyped DEF StampsOrdered
  <2>3. ReadingsOrdered'
    BY <1>1, <1>2, <2>1, StampsTyped DEF ReadingsOrdered
  <2>4. ReadingsCurrent'
    BY <1>1, <2>1 DEF ReadingsCurrent
  <2> QED
    BY <1>3, <2>2, <2>3, <2>4
<1>6. CASE StepBack
  BY <1>1, <1>6 DEF StepBack, TypeOK
<1> QED
  BY <1>4, <1>5, <1>6

\* The clock has not been set back, or nothing is claimed of the stamps.
UntilSetBack == IInv /\ (stepBacks = 0 => ClockInv)

LEMMA ClockStep ==
  UntilSetBack /\ [Next]_vars
    => UntilSetBack' /\ [stepBacks' = 0 => StampsAdvance]_vars
<1> SUFFICES ASSUME UntilSetBack, [Next]_vars
             PROVE  UntilSetBack' /\ [stepBacks' = 0 => StampsAdvance]_vars
  OBVIOUS
<1>1. IInv'
  BY StepInv DEF UntilSetBack
<1>2. ASSUME stepBacks' = 0
      PROVE  ClockInv
  <2>1. stepBacks \in Nat
    BY DEF UntilSetBack, IInv, TypeOK
  <2>2. stepBacks' = stepBacks \/ stepBacks' = stepBacks + 1
    BY DEF Next, RpcArrives, BeginRunArrives, SubmitArrives, FinalizeArrives,
           Arrive, RpcServed, BeginRun, SubmitStageReport, FinalizeRun,
           FinalizeInterrupted, RpcRejected, RpcDropped, TaskAdvances,
           ClaimForSending, LoadAndRender, ResolveRecipients, SendMail,
           FinalizeSent, FinalizeFailed, Finalize, NotifyAdmins, TaskDies,
           Sweep, SweepBegins, SweepLists, OrphanCandidate, SweepAborts,
           CrashAndRestart, Tick, StepBack, vars, timeVars
  <2> QED
    BY <1>2, <2>1, <2>2 DEF UntilSetBack
<1>3. ASSUME stepBacks' = 0, Next
      PROVE  ClockInv' /\ StampsAdvance
  BY <1>1, <1>2, <1>3, ServedOnTime, QueuedOnTime, TaskOnTime, SweepOnTime,
     EnvironmentOnTime
  DEF Next, ClockInv
<1>4. ASSUME stepBacks' = 0, UNCHANGED vars
      PROVE  ClockInv'
  BY <1>1, <1>2, <1>4
  DEF ClockInv, StampsOrdered, ReadingsOrdered, ReadingsCurrent, vars, timeVars,
      rowVars
<1> QED
  BY <1>1, <1>3, <1>4 DEF UntilSetBack

\* Until the host clock is set back every stored run loads: RPCs that wait for
\* the lock with an old reading never stamp a run earlier than its creation.
THEOREM RowsReadableHolds == Spec => []RowsReadable
<1>1. Init => UntilSetBack
  BY ClockInit DEF UntilSetBack, ClockInv
<1>2. UntilSetBack => RowsReadable
  BY StampsTyped
  DEF UntilSetBack, ClockInv, IInv, StampsOrdered, RowsReadable,
      NoUnreadableRow, Readable
<1> QED
  BY <1>1, <1>2, ClockStep, PTL DEF Spec

\* Until the host clock is set back updated_at never goes back.
THEOREM UpdatedAtMonotoneHolds == Spec => UpdatedAtMonotone
<1>1. Init => UntilSetBack
  BY ClockInit DEF UntilSetBack, ClockInv
<1>2. UntilSetBack /\ [Next]_vars
        => [\A r \in Runs : stepBacks' = 0 /\ state[r] # Absent
                             => updatedAt'[r] >= updatedAt[r]]_vars
  BY ClockStep DEF StampsAdvance
<1> QED
  BY <1>1, <1>2, ClockStep, PTL DEF Spec, UpdatedAtMonotone

-----------------------------------------------------------------------------
(***************************************************************************)
(* RunLifecycle implements ReportContract: under the mapping of the module *)
(* (Phase, Assembled, the terminal state and the copies mailed), initial   *)
(* states are initial and every step of the service is a step of the       *)
(* contract or a stutter.                                                  *)
(***************************************************************************)

\* The abstract variables as functions of the concrete state.
phaseOf == [r \in Runs |-> Phase(r)]
bookOf == [r \in Runs |-> Assembled(r)]
verdictOf == [r \in Runs |-> IF state[r] \in TERMINAL_STATES
                             THEN state[r] ELSE "none"]
copiesOf == [r \in Runs |-> IF mailed[r] = 0 THEN {}
                            ELSE {<<mailed[r], snap[r]>>}]

\* The phase of a run by the state of its row.
LEMMA PhaseTable ==
  ASSUME NEW r \in Runs
  PROVE  /\ state[r] = Absent => Phase(r) = "absent"
         /\ state[r] \in {"INITIATED", "AGGREGATING"} => Phase(r) = "collecting"
         /\ state[r] \in {"READY", "SENDING"} => Phase(r) = "sealed"
         /\ state[r] \in TERMINAL_STATES => Phase(r) = "closed"
BY DEF Phase, Absent, RUN_SUBMISSION_SOURCES, TERMINAL_STATES

\* A step that keeps the phase, the pages, the verdicts and the copies of every
\* run is a stutter of the contract.
LEMMA Stutters ==
  ASSUME state' = state, stageState' = stageState, content' = content,
         \A r \in Runs : /\ mailed'[r] = mailed[r]
                         /\ mailed[r] # 0 => snap'[r] = snap[r]
  PROVE  UNCHANGED <<phaseOf, bookOf, verdictOf, copiesOf>>
<1>1. \A r \in Runs : Phase(r)' = Phase(r) /\ Assembled(r)' = Assembled(r)
  BY DEF Phase, Assembled
<1> QED
  BY <1>1 DEF phaseOf, bookOf, verdictOf, copiesOf

LEMMA ContractVars ==
  UNCHANGED <<phaseOf, bookOf, verdictOf, copiesOf>> <=> UNCHANGED Contract!vars
BY DEF Contract!vars, phaseOf, bookOf, verdictOf, copiesOf

LEMMA ContractInit == Init => Contract!Init
<1> SUFFICES ASSUME Init
             PROVE  Contract!Init
  OBVIOUS
<1>1. \A r \in Runs : /\ Phase(r) = "absent"
                      /\ Assembled(r) = [s \in Stages |-> NoContent]
                      /\ state[r] \notin TERMINAL_STATES
                      /\ mailed[r] = 0
  BY PhaseTable
  DEF Init, Assembled, IncludedStates, TERMINAL_STATES, Absent
<1> QED
  BY <1>1 DEF Contract!Init, Contract!Blank

\* A step that only moves the row of one run keeps the pages and the copies;
\* the contract sees the phase and the verdict of that run.
LEMMA RowMoves ==
  ASSUME TypeOK, NEW r \in Runs, NEW to \in RunState,
         state' = [state EXCEPT ![r] = to],
         stageState' = stageState, content' = content,
         mailed' = mailed, snap' = snap
  PROVE  /\ bookOf' = bookOf /\ copiesOf' = copiesOf
         /\ phaseOf' = [phaseOf EXCEPT ![r] = Phase(r)']
         /\ verdictOf' = [verdictOf EXCEPT ![r] =
                            IF to \in TERMINAL_STATES THEN to ELSE "none"]
         /\ state'[r] = to
<1>1. /\ \A x \in Runs : Assembled(x)' = Assembled(x)
      /\ state'[r] = to /\ \A x \in Runs \ {r} : state'[x] = state[x]
  BY DEF Assembled, TypeOK
<1>2. \A x \in Runs \ {r} : Phase(x)' = Phase(x)
  BY <1>1 DEF Phase
<1> QED
  BY <1>1, <1>2 DEF phaseOf, bookOf, verdictOf, copiesOf

\* FinalizeRun seals the book.
LEMMA SealStep ==
  ASSUME TypeOK, NEW r \in Runs, state[r] = "AGGREGATING",
         state' = [state EXCEPT ![r] = "READY"],
         stageState' = stageState, content' = content,
         mailed' = mailed, snap' = snap
  PROVE  Contract!Next
<1>1. "READY" \in RunState /\ "READY" \notin TERMINAL_STATES
  BY DEF RunState, TERMINAL_STATES
<1>2. /\ bookOf' = bookOf /\ copiesOf' = copiesOf
      /\ phaseOf' = [phaseOf EXCEPT ![r] = Phase(r)']
      /\ verdictOf' = [verdictOf EXCEPT ![r] = "none"]
      /\ state'[r] = "READY"
  BY <1>1, RowMoves
<1>3. /\ phaseOf[r] = "collecting" /\ Phase(r)' = "sealed"
      /\ verdictOf[r] = "none"
  BY <1>2, PhaseTable DEF phaseOf, verdictOf, Phase, RUN_SUBMISSION_SOURCES,
                          TERMINAL_STATES, Absent
<1>4. verdictOf' = verdictOf
  BY <1>2, <1>3 DEF verdictOf
<1>5. Contract!Seal(r)
  BY <1>2, <1>3, <1>4 DEF Contract!Seal, phaseOf, bookOf, verdictOf, copiesOf
<1> QED
  BY <1>5 DEF Contract!Next

\* A run reaches a terminal state once, from where the contract allows it.
LEMMA CloseStep ==
  ASSUME TypeOK, NEW r \in Runs, NEW to \in TERMINAL_STATES,
         \/ state[r] \in {"READY", "SENDING"}
         \/ state[r] \in {"INITIATED", "AGGREGATING"} /\ to = "ORPHANED",
         state' = [state EXCEPT ![r] = to],
         stageState' = stageState, content' = content,
         mailed' = mailed, snap' = snap
  PROVE  Contract!Next
<1>1. to \in RunState /\ to \in {"SENT", "FAILED", "ORPHANED"}
  BY DEF RunState, TERMINAL_STATES
<1>2. /\ bookOf' = bookOf /\ copiesOf' = copiesOf
      /\ phaseOf' = [phaseOf EXCEPT ![r] = Phase(r)']
      /\ verdictOf' = [verdictOf EXCEPT ![r] = to]
      /\ state'[r] = to
  BY <1>1, RowMoves
<1>3. /\ \/ phaseOf[r] = "sealed"
         \/ phaseOf[r] = "collecting" /\ to = "ORPHANED"
      /\ Phase(r)' = "closed"
  BY <1>1, <1>2, PhaseTable DEF phaseOf, Phase, RUN_SUBMISSION_SOURCES,
                                TERMINAL_STATES, Absent
<1>4. Contract!Close(r, to)
  BY <1>2, <1>3 DEF Contract!Close, phaseOf, bookOf, verdictOf, copiesOf
<1> QED
  BY <1>1, <1>4 DEF Contract!Next

\* BeginRun opens a blank book.
LEMMA OpenStep ==
  ASSUME IInv, NEW q \in Request, BeginRun(q), state[q.run] = Absent
  PROVE  Contract!Next
<1> DEFINE r == q.run
<1>1. r \in Runs /\ TypeOK /\ RunInv(r)
  BY RequestFields DEF IInv
<1>2. /\ state' = [state EXCEPT ![r] = "INITIATED"]
      /\ \A x \in Runs \ {r} : /\ state'[x] = state[x]
                              /\ stageState'[x] = stageState[x]
                              /\ content'[x] = content[x]
      /\ state'[r] = "INITIATED"
      /\ \A s \in Stages : stageState'[r][s] \in {"PENDING", Absent}
      /\ mailed' = mailed /\ snap' = snap
  BY <1>1 DEF BeginRun, TypeOK, taskVars
<1>3. \A x \in Runs : Assembled(x)' = Assembled(x)
  <2>1. \A x \in Runs \ {r} : Assembled(x)' = Assembled(x)
    BY <1>2 DEF Assembled
  <2>2. Assembled(r) = [s \in Stages |-> NoContent]
    BY <1>1 DEF RunInv, BlankBeforeBegin, Assembled, IncludedStates, Absent
  <2>3. [s \in Stages |-> IF stageState'[r][s] \in IncludedStates
                          THEN content'[r][s] ELSE NoContent]
          = [s \in Stages |-> NoContent]
    BY <1>2 DEF IncludedStates, Absent
  <2> QED
    BY <2>1, <2>2, <2>3 DEF Assembled
<1>4. /\ bookOf' = bookOf /\ copiesOf' = copiesOf /\ verdictOf' = verdictOf
  BY <1>1, <1>2, <1>3 DEF bookOf, copiesOf, verdictOf, TERMINAL_STATES, Absent
<1>5. phaseOf[r] = "absent" /\ phaseOf' = [phaseOf EXCEPT ![r] = "collecting"]
  <2>1. \A x \in Runs \ {r} : Phase(x)' = Phase(x)
    BY <1>2 DEF Phase
  <2>2. Phase(r)' = "collecting"
    BY <1>2 DEF Phase, RUN_SUBMISSION_SOURCES, TERMINAL_STATES, Absent
  <2> QED
    BY <1>1, <2>1, <2>2, PhaseTable DEF phaseOf
<1>6. Contract!Open(r)
  BY <1>4, <1>5 DEF Contract!Open, phaseOf, bookOf, verdictOf, copiesOf
<1> QED
  BY <1>1, <1>6 DEF Contract!Next

\* A stage report writes one page.
LEMMA WriteStep ==
  ASSUME IInv, NEW q \in Request, SubmitStageReport(q)
  PROVE  Contract!Next
<1> DEFINE r == q.run
<1>1. /\ r \in Runs /\ q.stage \in Stages /\ q.content \in Contents
      /\ TypeOK /\ RunInv(r)
  BY RequestFields DEF IInv, SubmitStageReport
<1>2. /\ state[r] \in {"INITIATED", "AGGREGATING"}
      /\ mailed' = mailed /\ snap' = snap
      /\ stageState[r][q.stage] \in {"PENDING", "SUBMITTED", "RETRIED"}
  BY DEF SubmitStageReport, SubmitAccepted, RUN_SUBMISSION_SOURCES,
         STAGE_SUBMISSION_SOURCES, taskVars
<1>3. /\ state'[r] = "AGGREGATING"
      /\ \A x \in Runs \ {r} : state'[x] = state[x]
  <2>1. \/ state[r] = "INITIATED" /\ UpdateState(r, "AGGREGATING", q.now)
        \/ state[r] = "AGGREGATING" /\ UNCHANGED rowVars
    BY <1>2 DEF SubmitStageReport
  <2> QED
    BY <1>1, <2>1 DEF UpdateState, rowVars, TypeOK
<1>4. \E new \in {"SUBMITTED", "RETRIED"} :
        /\ stageState' = [stageState EXCEPT ![r][q.stage] = new]
        /\ content' = [content EXCEPT ![r][q.stage] = q.content]
  BY DEF SubmitStageReport, NextStageState
<1>5. bookOf' = [bookOf EXCEPT ![r][q.stage] = q.content]
  <2>1. \A x \in Runs \ {r} : stageState'[x] = stageState[x] /\ content'[x] = content[x]
    BY <1>1, <1>4 DEF TypeOK
  <2>2. \A x \in Runs \ {r} : Assembled(x)' = Assembled(x)
    BY <2>1 DEF Assembled
  <2>3. /\ stageState'[r][q.stage] \in IncludedStates
        /\ content'[r][q.stage] = q.content
        /\ \A s \in Stages \ {q.stage} : /\ stageState'[r][s] = stageState[r][s]
                                       /\ content'[r][s] = content[r][s]
    BY <1>1, <1>4 DEF TypeOK, IncludedStates
  <2>4. Assembled(r)' = [Assembled(r) EXCEPT ![q.stage] = q.content]
    BY <1>1, <2>3 DEF Assembled
  <2> QED
    BY <1>1, <2>2, <2>4 DEF bookOf
<1>6. /\ phaseOf[r] = "collecting" /\ phaseOf' = phaseOf
      /\ verdictOf' = verdictOf /\ copiesOf' = copiesOf
  <2>1. \A x \in Runs \ {r} : Phase(x)' = Phase(x)
    BY <1>3 DEF Phase
  <2>2. Phase(r) = "collecting" /\ Phase(r)' = "collecting"
    BY <1>2, <1>3 DEF Phase, RUN_SUBMISSION_SOURCES, TERMINAL_STATES, Absent
  <2>3. phaseOf[r] = "collecting" /\ phaseOf' = phaseOf
    BY <1>1, <2>1, <2>2 DEF phaseOf
  <2> QED
    BY <1>1, <1>2, <1>3, <2>3 DEF verdictOf, copiesOf, TERMINAL_STATES
<1>7. Contract!Write(r)
  BY <1>1, <1>5, <1>6 DEF Contract!Write, phaseOf, bookOf, verdictOf, copiesOf
<1> QED
  BY <1>1, <1>7 DEF Contract!Next

\* The send step hands over the sealed page, or nothing.
LEMMA DeliverStep ==
  ASSUME IInv, NEW r \in Runs, SendMail(r)
  PROVE  [Contract!Next]_(Contract!vars)
<1>1. /\ TypeOK /\ RunInv(r) /\ pc[r] = "resolved"
      /\ state' = state /\ stageState' = stageState /\ content' = content
      /\ snap' = snap
      /\ mailed' = mailed \/ mailed' = [mailed EXCEPT ![r] = @ + 1]
  BY DEF IInv, SendMail, rowVars, stageVars
<1>2. CASE mailed' = mailed
  BY <1>1, <1>2, Stutters, ContractVars
<1>3. CASE mailed' = [mailed EXCEPT ![r] = @ + 1]
  <2>1. /\ mailed[r] = 0 /\ snap[r] = Assembled(r)
        /\ state[r] \in {"SENDING", "ORPHANED"}
        /\ mailed'[r] = 1 /\ \A x \in Runs \ {r} : mailed'[x] = mailed[x]
    BY <1>1, <1>3
    DEF RunInv, DeliveryCounted, PageKept, TaskMatchesRun, Delivering, TypeOK
  <2>2. phaseOf' = phaseOf /\ bookOf' = bookOf /\ verdictOf' = verdictOf
    <3>1. \A x \in Runs : Phase(x)' = Phase(x) /\ Assembled(x)' = Assembled(x)
      BY <1>1 DEF Phase, Assembled
    <3> QED
      BY <1>1, <3>1 DEF phaseOf, bookOf, verdictOf
  <2>3. copiesOf[r] = {} /\ copiesOf' = [copiesOf EXCEPT ![r] = {<<1, bookOf[r]>>}]
    <3>1. bookOf[r] = Assembled(r) /\ copiesOf[r] = {}
      BY <2>1 DEF bookOf, copiesOf
    <3>2. /\ copiesOf'[r] = {<<1, Assembled(r)>>}
          /\ \A x \in Runs \ {r} : copiesOf'[x] = copiesOf[x]
      BY <1>1, <2>1 DEF copiesOf
    <3>3. copiesOf' = [x \in Runs |-> copiesOf'[x]]
      BY DEF copiesOf
    <3>4. copiesOf' = [copiesOf EXCEPT ![r] = {<<1, Assembled(r)>>}]
      BY <3>2, <3>3 DEF copiesOf
    <3> QED
      BY <3>1, <3>4
  <2>4. phaseOf[r] \in {"sealed", "closed"}
    BY <2>1, PhaseTable DEF phaseOf, TERMINAL_STATES
  <2>5. Contract!Deliver(r)
    BY <2>2, <2>3, <2>4 DEF Contract!Deliver, phaseOf, bookOf, verdictOf, copiesOf
  <2> QED
    BY <2>5 DEF Contract!Next
<1> QED
  BY <1>1, <1>2, <1>3

\* The unit of work of an RPC opens, writes, seals or stutters.
LEMMA RpcSimulates ==
  ASSUME IInv, inflight # <<>>, NEW q, q = Head(inflight), RpcServed(q)
  PROVE  [Contract!Next]_(Contract!vars)
<1>1. TypeOK /\ q \in Request /\ q.run \in Runs
  BY QueueShrinks, RequestFields DEF IInv, TypeOK
<1>2. CASE BeginRun(q)
  <2>1. 1 \in DOMAIN inflight /\ inflight[1] = q
    BY <1>1 DEF TypeOK
  <2>2. state[q.run] = Absent
    BY <1>2, <2>1 DEF IInv, BeginsAreFresh, BeginRun
  <2> QED
    BY <1>1, <1>2, <2>2, OpenStep
<1>3. CASE SubmitStageReport(q)
  BY <1>1, <1>3, WriteStep
<1>4. CASE FinalizeRun(q) \/ FinalizeInterrupted(q)
  <2>1. /\ state[q.run] = "AGGREGATING"
        /\ state' = [state EXCEPT ![q.run] = "READY"]
        /\ stageState' = stageState /\ content' = content
        /\ mailed' = mailed /\ snap' = snap
    BY <1>4
    DEF FinalizeRun, FinalizeInterrupted, FinalizeAccepted, UpdateState,
        stageVars, taskVars
  <2> QED
    BY <1>1, <2>1, SealStep
<1>5. CASE RpcRejected(q)
  BY <1>5, Stutters, ContractVars DEF RpcRejected, rowVars, stageVars, taskVars
<1> QED
  BY <1>2, <1>3, <1>4, <1>5 DEF RpcServed

\* The steps of a delivery task deliver, close or stutter.
LEMMA TaskSimulates ==
  ASSUME IInv, NEW r \in Runs, TaskAdvances(r) \/ TaskDies(r)
  PROVE  [Contract!Next]_(Contract!vars)
<1>1. TypeOK /\ RunInv(r)
  BY DEF IInv
<1>2. CASE SendMail(r)
  BY <1>2, DeliverStep
<1>3. CASE LoadAndRender(r)
  <2>1. /\ state' = state /\ stageState' = stageState /\ content' = content
        /\ mailed' = mailed /\ mailed[r] = 0
        /\ \A x \in Runs \ {r} : snap'[x] = snap[x]
    BY <1>1, <1>3
    DEF LoadAndRender, rowVars, stageVars, RunInv, DeliveryCounted, TypeOK
  <2>2. \A x \in Runs : mailed'[x] = mailed[x] /\ (mailed[x] # 0 => snap'[x] = snap[x])
    BY <2>1
  <2> QED
    BY <2>1, <2>2, Stutters, ContractVars
<1>4. CASE ClaimForSending(r)
  <2>1. /\ stageState' = stageState /\ content' = content
        /\ mailed' = mailed /\ snap' = snap
        /\ \/ state' = state
           \/ state[r] = "READY" /\ state' = [state EXCEPT ![r] = "SENDING"]
    BY <1>4
    DEF ClaimForSending, UpdateState, rowVars, stageVars, CanTransition,
        TRANSITIONS, NON_TERMINAL_STATES, TERMINAL_STATES, RunState
  <2>2. CASE state' = state
    BY <2>1, <2>2, Stutters, ContractVars
  <2>3. CASE state[r] = "READY" /\ state' = [state EXCEPT ![r] = "SENDING"]
    <3>1. "SENDING" \in RunState /\ "SENDING" \notin TERMINAL_STATES
      BY DEF RunState, TERMINAL_STATES
    <3>2. /\ bookOf' = bookOf /\ copiesOf' = copiesOf
          /\ phaseOf' = [phaseOf EXCEPT ![r] = Phase(r)']
          /\ verdictOf' = [verdictOf EXCEPT ![r] = "none"]
          /\ state'[r] = "SENDING"
      BY <1>1, <2>1, <2>3, <3>1, RowMoves
    <3>3. phaseOf[r] = "sealed" /\ Phase(r)' = "sealed" /\ verdictOf[r] = "none"
      BY <2>3, <3>2, PhaseTable
      DEF phaseOf, verdictOf, Phase, RUN_SUBMISSION_SOURCES, TERMINAL_STATES,
          Absent
    <3>4. phaseOf' = phaseOf /\ verdictOf' = verdictOf
      BY <3>2, <3>3 DEF phaseOf, verdictOf
    <3> QED
      BY <3>2, <3>4, ContractVars
  <2> QED
    BY <2>1, <2>2, <2>3
<1>5. ASSUME NEW outcome, NEW to \in {"SENT", "FAILED"}, NEW next,
             pc[r] \in Delivering, Finalize(r, outcome, to, next)
      PROVE  [Contract!Next]_(Contract!vars)
  <2>1. /\ stageState' = stageState /\ content' = content
        /\ mailed' = mailed /\ snap' = snap
        /\ \/ state' = state
           \/ /\ state[r] \notin TERMINAL_STATES
              /\ state' = [state EXCEPT ![r] = to]
    BY <1>5 DEF Finalize, UpdateState, rowVars, stageVars
  <2>2. state[r] \in {"SENDING", "ORPHANED"} /\ to \in TERMINAL_STATES
    BY <1>1, <1>5 DEF RunInv, TaskMatchesRun, TERMINAL_STATES
  <2>3. CASE state' = state
    BY <2>1, <2>3, Stutters, ContractVars
  <2>4. CASE state[r] \notin TERMINAL_STATES /\ state' = [state EXCEPT ![r] = to]
    <3>1. state[r] = "SENDING"
      BY <2>2, <2>4 DEF TERMINAL_STATES
    <3> QED
      BY <1>1, <2>1, <2>2, <2>4, <3>1, CloseStep
  <2> QED
    BY <2>1, <2>3, <2>4
<1>6. CASE FinalizeSent(r) \/ FinalizeFailed(r)
  BY <1>5, <1>6 DEF FinalizeSent, FinalizeFailed, Delivering
<1>7. CASE ResolveRecipients(r) \/ NotifyAdmins(r) \/ TaskDies(r)
  BY <1>7, Stutters, ContractVars
  DEF ResolveRecipients, NotifyAdmins, TaskDies, rowVars, stageVars
<1> QED
  BY <1>2, <1>3, <1>4, <1>6, <1>7 DEF TaskAdvances

\* The sweeper closes a run, or stutters.
LEMMA OrphanSimulates ==
  ASSUME IInv, NEW r \in Runs, OrphanCandidate(r)
  PROVE  [Contract!Next]_(Contract!vars)
<1>1. /\ stageState' = stageState /\ content' = content
      /\ mailed' = mailed /\ snap' = snap
      /\ \/ state' = state
         \/ /\ state[r] \in NON_TERMINAL_STATES
            /\ state' = [state EXCEPT ![r] = "ORPHANED"]
  BY DEF OrphanCandidate, UpdateState, rowVars, stageVars, taskVars,
         CanTransition, TRANSITIONS, NON_TERMINAL_STATES, TERMINAL_STATES,
         RunState
<1>2. CASE state' = state
  BY <1>1, <1>2, Stutters, ContractVars
<1>3. CASE /\ state[r] \in NON_TERMINAL_STATES
           /\ state' = [state EXCEPT ![r] = "ORPHANED"]
  <2>1. /\ state[r] \in {"INITIATED", "AGGREGATING", "READY", "SENDING"}
        /\ "ORPHANED" \in TERMINAL_STATES
    BY <1>3 DEF NON_TERMINAL_STATES, TERMINAL_STATES, RunState
  <2> QED
    BY <1>1, <1>3, <2>1, CloseStep DEF IInv
<1> QED
  BY <1>1, <1>2, <1>3

LEMMA StepSimulates ==
  IInv /\ [Next]_vars => [Contract!Next]_(Contract!vars)
<1> SUFFICES ASSUME IInv, [Next]_vars
             PROVE  [Contract!Next]_(Contract!vars)
  OBVIOUS
<1>1. CASE UNCHANGED <<rowVars, stageVars, mailed, snap>>
  BY <1>1, Stutters, ContractVars DEF rowVars, stageVars
<1>2. CASE \/ RpcArrives \/ \E i \in DOMAIN inflight : RpcDropped(i)
           \/ SweepBegins \/ SweepLists \/ SweepAborts
           \/ CrashAndRestart \/ Tick \/ StepBack \/ UNCHANGED vars
  <2>1. UNCHANGED <<rowVars, stageVars, mailed, snap>>
    BY <1>2
    DEF RpcArrives, BeginRunArrives, SubmitArrives, FinalizeArrives, Arrive,
        RpcDropped, SweepBegins, SweepLists, SweepAborts, CrashAndRestart,
        Tick, StepBack, vars, taskVars
  <2> QED
    BY <1>1, <2>1
<1> QED
  BY <1>2, RpcSimulates, TaskSimulates, OrphanSimulates DEF Next, Sweep

\* The service implements the report contract: a book is sealed before it is
\* delivered, delivered at most once, and closed for ever with one verdict.
THEOREM Refinement == Spec => ImplementsContract
<1>1. Init => Contract!Init
  BY ContractInit
<1>2. IInv /\ [Next]_vars => [Contract!Next]_(Contract!vars)
  BY StepSimulates
<1> QED
  BY <1>1, <1>2, Invariance, PTL DEF Spec, ImplementsContract, Contract!Spec
=============================================================================
