---------------------------- MODULE RunLifecycle ----------------------------
(***************************************************************************)
(* The life of a run: the pipeline RPCs (BeginRun, SubmitStageReport,      *)
(* FinalizeRun), the background delivery task (AssembleAndDeliver), the    *)
(* orphan sweeper, crashes and restarts, over the runs and stages tables.  *)
(*                                                                         *)
(* Every unit of work holds the one connection lock from BEGIN to COMMIT,  *)
(* so a unit of work is one action; the interleaving is between units of   *)
(* work.  An RPC reads the clock, THEN queues for the lock: the reading is *)
(* the request's now, and inflight is the queue, first in first out as     *)
(* asyncio.Lock is.  The delivery task and the sweeper are sequences of    *)
(* units of work, with pc and candidates as their program counters; a      *)
(* crash loses these and keeps the tables.                                 *)
(***************************************************************************)
EXTENDS Integers, FiniteSets, Sequences, RunStates

CONSTANTS
  Runs,          \* run identifiers a BeginRun may draw
  Stages,        \* stage identifiers
  Contents,      \* payloads a stage report may carry
  NoContent,     \* the NULL of the context columns
  Timeout,       \* sweeper.run_timeout_seconds, in clock ticks
  MaxCandidates, \* sweeper.max_candidates_per_iteration
  MaxInFlight,   \* bound: RPCs waiting for the connection lock at once
  Horizon,       \* bound: arrivals and failures happen up to this time
  MaxStepBacks   \* bound: backward corrections of the host clock

ASSUME ContentAssumption == NoContent \notin Contents
ASSUME TimeoutAssumption == Timeout \in Nat \ {0}
ASSUME HorizonAssumption == Horizon \in Nat
ASSUME CandidatesAssumption == MaxCandidates \in Nat \ {0}
ASSUME BoundsAssumption == MaxInFlight \in Nat /\ MaxStepBacks \in Nat

Absent == "ABSENT"
NotSweeping == -1

\* The clock runs one timeout past the horizon, so that a run touched at the
\* horizon can still expire.
MaxTime == Horizon + Timeout

VARIABLES
  clock,       \* SystemClock.now()
  stepBacks,   \* backward corrections so far
  state,       \* runs.state, Absent before the row exists
  declared,    \* the stage ids of runs.declared_stages_json
  createdAt,   \* runs.created_at
  updatedAt,   \* runs.updated_at
  stageState,  \* stages.state of a declared stage
  content,     \* the context columns of a stage row
  inflight,    \* RPC handlers between their clock reading and their unit of work
  pc,          \* where the delivery task of a run is
  snap,        \* the stage contents the delivery task has rendered
  recipients,  \* what the delivery task resolved: unknown, none or some
  mailed,      \* calls of mailer.send that left a copy with the relay
  sendAudit,   \* SEND_REPORT audit records of a run, oldest first
  sweepNow,    \* the sweeper's clock reading of this tick, or NotSweeping
  candidates,  \* runs this tick listed as expired and has not handled yet
  dispositions,\* batches of disposition actions enqueued for a run
  pendingAtOrphan \* pending_stage_ids of a run's SWEEP_ORPHAN record

rowVars == <<state, declared, createdAt, updatedAt>>
stageVars == <<stageState, content>>
taskVars == <<pc, snap, recipients, mailed, sendAudit>>
sweepVars == <<sweepNow, candidates, dispositions, pendingAtOrphan>>
timeVars == <<clock, stepBacks>>
vars == <<timeVars, rowVars, stageVars, inflight, taskVars, sweepVars>>

BeginRequest == [op : {"begin"}, run : Runs, stages : SUBSET Stages, now : Nat]
SubmitRequest == [op : {"submit"}, run : Runs, stage : Stages,
                  content : Contents, now : Nat]
FinalizeRequest == [op : {"finalize"}, run : Runs, now : Nat]
Request == BeginRequest \union SubmitRequest \union FinalizeRequest

TaskStep == {"scheduled", "claimed", "rendered", "resolved",
             "delivered", "undelivered", "oversize", "notifying"}
TaskPc == TaskStep \union {"none", "done", "dead"}

AuditRecord == [outcome : {"SUCCESS", "FAILURE"},
                prior : RunState, new : RunState]

\* Every variable ranges over what its column or its field may hold.
TypeOK ==
  /\ clock \in Nat
  /\ stepBacks \in Nat
  /\ state \in [Runs -> RunState \union {Absent}]
  /\ declared \in [Runs -> SUBSET Stages]
  /\ createdAt \in [Runs -> Nat]
  /\ updatedAt \in [Runs -> Nat]
  /\ stageState \in [Runs -> [Stages -> StageState \union {Absent}]]
  /\ content \in [Runs -> [Stages -> Contents \union {NoContent}]]
  /\ inflight \in Seq(Request)
  /\ pc \in [Runs -> TaskPc]
  /\ snap \in [Runs -> [Stages -> Contents \union {NoContent}]]
  /\ recipients \in [Runs -> {"unknown", "none", "some"}]
  /\ mailed \in [Runs -> Nat]
  /\ sendAudit \in [Runs -> Seq(AuditRecord)]
  /\ sweepNow \in Nat \union {NotSweeping}
  /\ candidates \subseteq Runs
  /\ dispositions \in [Runs -> Nat]
  /\ pendingAtOrphan \in [Runs -> SUBSET Stages]

Init ==
  /\ clock = 0 /\ stepBacks = 0
  /\ state = [r \in Runs |-> Absent]
  /\ declared = [r \in Runs |-> {}]
  /\ createdAt = [r \in Runs |-> 0]
  /\ updatedAt = [r \in Runs |-> 0]
  /\ stageState = [r \in Runs |-> [s \in Stages |-> Absent]]
  /\ content = [r \in Runs |-> [s \in Stages |-> NoContent]]
  /\ inflight = <<>>
  /\ pc = [r \in Runs |-> "none"]
  /\ snap = [r \in Runs |-> [s \in Stages |-> NoContent]]
  /\ recipients = [r \in Runs |-> "unknown"]
  /\ mailed = [r \in Runs |-> 0]
  /\ sendAudit = [r \in Runs |-> <<>>]
  /\ sweepNow = NotSweeping
  /\ candidates = {}
  /\ dispositions = [r \in Runs |-> 0]
  /\ pendingAtOrphan = [r \in Runs |-> {}]

-----------------------------------------------------------------------------
(* The runs table.                                                         *)

\* Run.__post_init__ refuses updated_at < created_at, and every read of a row
\* goes through it: such a row raises PersistenceError wherever it is read.
Readable(r) == updatedAt[r] >= createdAt[r]

\* run_repo.get followed by the handler's state test: the row exists and loads.
Loads(r) == state[r] # Absent /\ Readable(r)

\* run_repo.update_state: an unconditional UPDATE of state and updated_at.
UpdateState(r, to, now) ==
  /\ state' = [state EXCEPT ![r] = to]
  /\ updatedAt' = [updatedAt EXCEPT ![r] = now]
  /\ UNCHANGED <<declared, createdAt>>

\* Bound: processes crash, tasks die and clients leave up to the horizon only.
MayFail == clock <= Horizon

-----------------------------------------------------------------------------
(* Pipeline RPCs: arrival, then the unit of work.                          *)

RUN_SUBMISSION_SOURCES == {"INITIATED", "AGGREGATING"}
STAGE_SUBMISSION_SOURCES == {"PENDING", "SUBMITTED", "RETRIED"}

\* Validation is over, the handler has read the clock and awaits the lock.
Arrive(q) ==
  /\ clock <= Horizon
  /\ Len(inflight) < MaxInFlight
  /\ inflight' = Append(inflight, q)
  /\ UNCHANGED <<timeVars, rowVars, stageVars, taskVars, sweepVars>>

\* The uuid4 of a BeginRun is fresh: no row and no other request carries it.
BeginRunArrives(r, D) ==
  /\ state[r] = Absent
  /\ \A i \in DOMAIN inflight : inflight[i].run # r
  /\ Arrive([op |-> "begin", run |-> r, stages |-> D, now |-> clock])

SubmitArrives(r, s, c) ==
  /\ state[r] # Absent
  /\ Arrive([op |-> "submit", run |-> r, stage |-> s, content |-> c,
             now |-> clock])

FinalizeArrives(r) ==
  /\ state[r] # Absent
  /\ Arrive([op |-> "finalize", run |-> r, now |-> clock])

\* The request that has waited longest leaves the queue with the connection.
GetsLock(q) ==
  /\ inflight # <<>> /\ q = Head(inflight)
  /\ inflight' = Tail(inflight)

BeginRun(q) ==
  /\ q.op = "begin" /\ GetsLock(q)
  /\ state' = [state EXCEPT ![q.run] = "INITIATED"]
  /\ declared' = [declared EXCEPT ![q.run] = q.stages]
  /\ createdAt' = [createdAt EXCEPT ![q.run] = q.now]
  /\ updatedAt' = [updatedAt EXCEPT ![q.run] = q.now]
  /\ stageState' = [stageState EXCEPT ![q.run] =
                      [s \in Stages |-> IF s \in q.stages THEN "PENDING"
                                                          ELSE Absent]]
  /\ content' = [content EXCEPT ![q.run] = [s \in Stages |-> NoContent]]
  /\ UNCHANGED <<timeVars, taskVars, sweepVars>>

\* Mutants of SubmitAccepted: any open run takes reports; any run does.
SubmitAcceptedOpenRun(q) ==
  /\ Loads(q.run)
  /\ state[q.run] \notin TERMINAL_STATES
  /\ q.stage \in declared[q.run]
  /\ stageState[q.run][q.stage] \in STAGE_SUBMISSION_SOURCES

SubmitAcceptedAnyRun(q) ==
  /\ Loads(q.run)
  /\ q.stage \in declared[q.run]
  /\ stageState[q.run][q.stage] \in STAGE_SUBMISSION_SOURCES

SubmitAccepted(q) ==
  /\ Loads(q.run)
  /\ state[q.run] \in RUN_SUBMISSION_SOURCES
  /\ q.stage \in declared[q.run]
  /\ stageState[q.run][q.stage] \notin STAGE_TERMINAL
  /\ stageState[q.run][q.stage] \in STAGE_SUBMISSION_SOURCES

NextStageState(prior) == IF prior = "PENDING" THEN "SUBMITTED" ELSE "RETRIED"

\* The stage row is replaced; only the first submission of a run moves the
\* run, and only a move touches runs.updated_at.
SubmitStageReport(q) ==
  /\ q.op = "submit" /\ GetsLock(q)
  /\ SubmitAccepted(q)
  /\ LET prior == stageState[q.run][q.stage] IN
       /\ CanTransitionStage(prior, NextStageState(prior))
       /\ stageState' =
            [stageState EXCEPT ![q.run][q.stage] = NextStageState(prior)]
       /\ content' = [content EXCEPT ![q.run][q.stage] = q.content]
  /\ IF state[q.run] = "INITIATED"
     THEN UpdateState(q.run, "AGGREGATING", q.now)
     ELSE UNCHANGED rowVars
  /\ UNCHANGED <<timeVars, taskVars, sweepVars>>

\* Mutant of FinalizeAccepted: a repeated FinalizeRun of an open run succeeds.
FinalizeAcceptedAgain(q) ==
  Loads(q.run) /\ state[q.run] \in NON_TERMINAL_STATES \ {"INITIATED"}

FinalizeAccepted(q) == Loads(q.run) /\ state[q.run] = "AGGREGATING"

\* The unit of work commits READY; the task is scheduled only afterwards.
FinalizeRun(q) ==
  /\ q.op = "finalize" /\ GetsLock(q)
  /\ FinalizeAccepted(q)
  /\ UpdateState(q.run, "READY", q.now)
  /\ pc' = [pc EXCEPT ![q.run] = "scheduled"]
  /\ UNCHANGED <<timeVars, stageVars, snap, recipients, mailed, sendAudit,
                 sweepVars>>

\* The handler is cancelled while it awaits the commit, or the scheduler
\* refuses the coroutine because it is shutting down: READY without a task.
FinalizeInterrupted(q) ==
  /\ MayFail
  /\ q.op = "finalize" /\ GetsLock(q)
  /\ FinalizeAccepted(q)
  /\ UpdateState(q.run, "READY", q.now)
  /\ UNCHANGED <<timeVars, stageVars, taskVars, sweepVars>>

\* Every other outcome of the unit of work raises and rolls back.
RpcRejected(q) ==
  /\ GetsLock(q)
  /\ \/ q.op = "submit" /\ ~SubmitAccepted(q)
     \/ q.op = "finalize" /\ ~FinalizeAccepted(q)
  /\ UNCHANGED <<timeVars, rowVars, stageVars, taskVars, sweepVars>>

\* The client goes away while the handler waits, or its unit of work fails.
RpcDropped(i) ==
  /\ MayFail
  /\ inflight' = [j \in 1 .. Len(inflight) - 1 |->
                    IF j < i THEN inflight[j] ELSE inflight[j + 1]]
  /\ UNCHANGED <<timeVars, rowVars, stageVars, taskVars, sweepVars>>

-----------------------------------------------------------------------------
(* The delivery task of a run: AssembleAndDeliverUseCase.execute.          *)

IncludedStates == {"SUBMITTED", "ACCEPTED", "RETRIED"}

\* What _load_and_render_stages reads: the contents of the stages that reported.
Assembled(r) ==
  [s \in Stages |-> IF stageState[r][s] \in IncludedStates
                    THEN content[r][s] ELSE NoContent]

GoTo(r, step) == pc' = [pc EXCEPT ![r] = step]

\* Mutant of ClaimForSending: the run's state is not checked.
ClaimForSendingUnchecked(r) ==
  /\ pc[r] = "scheduled"
  /\ UpdateState(r, "SENDING", clock) /\ GoTo(r, "claimed")
  /\ UNCHANGED <<timeVars, stageVars, inflight, snap, recipients, mailed,
                 sendAudit, sweepVars>>

\* Unit of work 1: READY -> SENDING.  A run the sweeper has reclaimed makes
\* transition_run raise; the scheduler absorbs the exception.
ClaimForSending(r) ==
  /\ pc[r] = "scheduled"
  /\ IF Loads(r) /\ CanTransition(state[r], "SENDING")
     THEN UpdateState(r, "SENDING", clock) /\ GoTo(r, "claimed")
     ELSE UNCHANGED rowVars /\ GoTo(r, "dead")
  /\ UNCHANGED <<timeVars, stageVars, inflight, snap, recipients, mailed,
                 sendAudit, sweepVars>>

\* Stages are loaded in one unit of work and rendered; one of the four
\* expected render errors leads to _finalize_failed.
LoadAndRender(r) ==
  /\ pc[r] = "claimed"
  /\ snap' = [snap EXCEPT ![r] = Assembled(r)]
  /\ \/ GoTo(r, "rendered")
     \/ GoTo(r, "undelivered")
  /\ UNCHANGED <<timeVars, rowVars, stageVars, inflight, recipients, mailed,
                 sendAudit, sweepVars>>

\* No recipients: finalize as SENT without the mailer.
ResolveRecipients(r) ==
  /\ pc[r] = "rendered"
  /\ \/ /\ recipients' = [recipients EXCEPT ![r] = "none"]
        /\ GoTo(r, "delivered")
     \/ /\ recipients' = [recipients EXCEPT ![r] = "some"]
        /\ GoTo(r, "resolved")
  /\ UNCHANGED <<timeVars, rowVars, stageVars, inflight, snap, mailed,
                 sendAudit, sweepVars>>

\* mailer.send: accepted; refused by the size gate before any connection; an
\* EmailDeliveryError, which may follow a transmission the relay accepted.
SendMail(r) ==
  /\ pc[r] = "resolved"
  /\ \/ GoTo(r, "delivered") /\ mailed' = [mailed EXCEPT ![r] = @ + 1]
     \/ GoTo(r, "oversize") /\ UNCHANGED mailed
     \/ GoTo(r, "undelivered") /\ UNCHANGED mailed
     \/ GoTo(r, "undelivered") /\ mailed' = [mailed EXCEPT ![r] = @ + 1]
  /\ UNCHANGED <<timeVars, rowVars, stageVars, inflight, snap, recipients,
                 sendAudit, sweepVars>>

Record(r, outcome, prior, new) ==
  sendAudit' = [sendAudit EXCEPT ![r] =
                  Append(@, [outcome |-> outcome, prior |-> prior, new |-> new])]

\* Mutant of Finalize: a reconciliation record claims the intended state.
FinalizeClaimsState(r, outcome, to, next) ==
  /\ IF Loads(r) /\ state[r] \in TERMINAL_STATES
     THEN /\ Record(r, outcome, state[r], to)
          /\ UNCHANGED rowVars
          /\ GoTo(r, next)
     ELSE IF Loads(r) /\ CanTransition(state[r], to)
     THEN /\ Record(r, outcome, state[r], to)
          /\ UpdateState(r, to, clock)
          /\ GoTo(r, next)
     ELSE UNCHANGED <<rowVars, sendAudit>> /\ GoTo(r, "dead")
  /\ UNCHANGED <<timeVars, stageVars, inflight, snap, recipients, mailed,
                 sweepVars>>

\* The common shape of _finalize_sent and _finalize_failed: re-read the run
\* inside the unit of work; a terminal run gets a reconciliation record and
\* keeps its state; an illegal transition or an unreadable row raises.
Finalize(r, outcome, to, next) ==
  /\ IF Loads(r)
     THEN IF state[r] \in TERMINAL_STATES
          THEN /\ Record(r, outcome, state[r], state[r])
               /\ UNCHANGED rowVars
               /\ GoTo(r, next)
          ELSE IF CanTransition(state[r], to)
          THEN /\ Record(r, outcome, state[r], to)
               /\ UpdateState(r, to, clock)
               /\ GoTo(r, next)
          ELSE UNCHANGED <<rowVars, sendAudit>> /\ GoTo(r, "dead")
     ELSE UNCHANGED <<rowVars, sendAudit>> /\ GoTo(r, "dead")
  /\ UNCHANGED <<timeVars, stageVars, inflight, snap, recipients, mailed,
                 sweepVars>>

FinalizeSent(r) ==
  /\ pc[r] = "delivered"
  /\ Finalize(r, "SUCCESS", "SENT", "done")

FinalizeFailed(r) ==
  \/ pc[r] = "undelivered" /\ Finalize(r, "FAILURE", "FAILED", "done")
  \/ pc[r] = "oversize" /\ Finalize(r, "FAILURE", "FAILED", "notifying")

\* The best-effort administrator notification after a size refusal.
NotifyAdmins(r) ==
  /\ pc[r] = "notifying"
  /\ GoTo(r, "done")
  /\ UNCHANGED <<timeVars, rowVars, stageVars, inflight, snap, recipients,
                 mailed, sendAudit, sweepVars>>

TaskAdvances(r) ==
  \/ ClaimForSending(r) \/ LoadAndRender(r) \/ ResolveRecipients(r)
  \/ SendMail(r) \/ FinalizeSent(r) \/ FinalizeFailed(r) \/ NotifyAdmins(r)

\* An exception execute does not expect (a failed unit of work), or the
\* cancellation of a task that outlives the shutdown grace period.
TaskDies(r) ==
  /\ MayFail
  /\ pc[r] \in TaskStep
  /\ GoTo(r, "dead")
  /\ UNCHANGED <<timeVars, rowVars, stageVars, inflight, snap, recipients,
                 mailed, sendAudit, sweepVars>>

-----------------------------------------------------------------------------
(* The orphan sweeper: SweeperUseCase.tick.                                *)

SweepBegins ==
  /\ sweepNow = NotSweeping
  /\ sweepNow' = clock
  /\ UNCHANGED <<timeVars, rowVars, stageVars, inflight, taskVars, candidates,
                 dispositions, pendingAtOrphan>>

\* Mutant of Expired: the query leaves out a non-terminal state.
ExpiredNotSending(r, now) ==
  /\ state[r] \in NON_TERMINAL_STATES \ {"SENDING"}
  /\ updatedAt[r] + Timeout <= now

\* updated_at <= now - timeout, the boundary included.
Expired(r, now) ==
  state[r] \in NON_TERMINAL_STATES /\ updatedAt[r] + Timeout <= now

\* The oldest MaxCandidates expired runs; ties are broken arbitrarily.
IsOldest(C, now) ==
  LET all == {r \in Runs : Expired(r, now)} IN
  /\ C \subseteq all
  /\ C = all \/ Cardinality(C) = MaxCandidates
  /\ Cardinality(C) <= MaxCandidates
  /\ \A r \in C, x \in all \ C : updatedAt[r] <= updatedAt[x]

\* list_expired builds every listed run: one unreadable row fails the tick.
SweepLists ==
  /\ sweepNow # NotSweeping /\ candidates = {}
  /\ \E C \in SUBSET Runs :
       /\ IsOldest(C, sweepNow)
       /\ candidates' = IF \A r \in C : Readable(r) THEN C ELSE {}
       /\ sweepNow' = IF candidates' = {} THEN NotSweeping ELSE sweepNow
  /\ UNCHANGED <<timeVars, rowVars, stageVars, inflight, taskVars,
                 dispositions, pendingAtOrphan>>

Advance(C) ==
  /\ candidates' = C
  /\ sweepNow' = IF C = {} THEN NotSweeping ELSE sweepNow

PendingStages(r) == {s \in declared[r] : stageState[r][s] = "PENDING"}

\* Mutants of OrphanCandidate: a run that raced to a terminal state has its
\* actions enqueued all the same; the tick's clock reading is stamped.
OrphanCandidateNoSkip(r) ==
  /\ r \in candidates
  /\ IF Loads(r) /\ CanTransition(state[r], "ORPHANED")
     THEN /\ UpdateState(r, "ORPHANED", clock)
          /\ pendingAtOrphan' = [pendingAtOrphan EXCEPT ![r] = PendingStages(r)]
     ELSE UNCHANGED <<rowVars, pendingAtOrphan>>
  /\ dispositions' = [dispositions EXCEPT ![r] = @ + 1]
  /\ Advance(IF Loads(r) THEN candidates \ {r} ELSE {})
  /\ UNCHANGED <<timeVars, stageVars, inflight, taskVars>>

OrphanCandidateTickReading(r) ==
  /\ r \in candidates
  /\ IF Loads(r) /\ CanTransition(state[r], "ORPHANED")
     THEN /\ UpdateState(r, "ORPHANED", sweepNow)
          /\ pendingAtOrphan' = [pendingAtOrphan EXCEPT ![r] = PendingStages(r)]
          /\ dispositions' = [dispositions EXCEPT ![r] = @ + 1]
     ELSE UNCHANGED <<rowVars, pendingAtOrphan, dispositions>>
  /\ Advance(IF Loads(r) THEN candidates \ {r} ELSE {})
  /\ UNCHANGED <<timeVars, stageVars, inflight, taskVars>>

\* _transition_audit_and_enqueue: one unit of work per candidate.  A run that
\* raced to a terminal state is skipped; an unreadable row ends the tick.
OrphanCandidate(r) ==
  /\ r \in candidates
  /\ IF Loads(r) /\ CanTransition(state[r], "ORPHANED")
     THEN /\ UpdateState(r, "ORPHANED", clock)
          /\ pendingAtOrphan' = [pendingAtOrphan EXCEPT ![r] = PendingStages(r)]
          /\ dispositions' = [dispositions EXCEPT ![r] = @ + 1]
     ELSE UNCHANGED <<rowVars, pendingAtOrphan, dispositions>>
  /\ Advance(IF Loads(r) THEN candidates \ {r} ELSE {})
  /\ UNCHANGED <<timeVars, stageVars, inflight, taskVars>>

\* A unit of work of the tick fails: the loop logs it and the tick is over.
SweepAborts ==
  /\ MayFail
  /\ sweepNow # NotSweeping
  /\ Advance({})
  /\ UNCHANGED <<timeVars, rowVars, stageVars, inflight, taskVars,
                 dispositions, pendingAtOrphan>>

-----------------------------------------------------------------------------
(* The environment.                                                        *)

\* The process dies and starts again: requests, tasks and the tick are gone.
\* Nothing at startup reschedules a READY or SENDING run.
CrashAndRestart ==
  /\ MayFail
  /\ inflight' = <<>>
  /\ pc' = [r \in Runs |-> IF pc[r] \in TaskStep THEN "dead" ELSE pc[r]]
  /\ Advance({})
  /\ UNCHANGED <<timeVars, rowVars, stageVars, snap, recipients, mailed,
                 sendAudit, dispositions, pendingAtOrphan>>

Tick ==
  /\ clock < MaxTime
  /\ clock' = clock + 1
  /\ UNCHANGED <<stepBacks, rowVars, stageVars, inflight, taskVars, sweepVars>>

\* A backward correction of the host clock, which SystemClock passes on.
StepBack ==
  /\ stepBacks < MaxStepBacks
  /\ clock > 0
  /\ clock' = clock - 1
  /\ stepBacks' = stepBacks + 1
  /\ UNCHANGED <<rowVars, stageVars, inflight, taskVars, sweepVars>>

RpcArrives ==
  \/ \E r \in Runs, D \in SUBSET Stages : BeginRunArrives(r, D)
  \/ \E r \in Runs, s \in Stages, c \in Contents : SubmitArrives(r, s, c)
  \/ \E r \in Runs : FinalizeArrives(r)

\* The unit of work of the RPC that holds the lock.
RpcServed(q) ==
  \/ BeginRun(q) \/ SubmitStageReport(q)
  \/ FinalizeRun(q) \/ FinalizeInterrupted(q) \/ RpcRejected(q)

Sweep == SweepBegins \/ SweepLists \/ \E r \in Runs : OrphanCandidate(r)

Next ==
  \/ RpcArrives
  \/ inflight # <<>> /\ RpcServed(Head(inflight))
  \/ \E i \in DOMAIN inflight : RpcDropped(i)
  \/ \E r \in Runs : TaskAdvances(r) \/ TaskDies(r)
  \/ Sweep \/ SweepAborts
  \/ CrashAndRestart \/ Tick \/ StepBack

Spec == Init /\ [][Next]_vars

\* Time passes, the sweeper loop keeps ticking, a started delivery task moves
\* on (the mailer bounds every attempt by a timeout and their number).
FairSpec ==
  /\ Spec
  /\ WF_vars(Tick)
  /\ WF_vars(Sweep)
  /\ \A r \in Runs : WF_vars(TaskAdvances(r))

-----------------------------------------------------------------------------
(* Properties.                                                             *)

\* Every stored run loads.
NoUnreadableRow == \A r \in Runs : state[r] # Absent => Readable(r)

\* Until the host clock is set back every stored run loads: whatever waits for
\* the lock between an RPC's clock reading and its write, updated_at never
\* precedes created_at, so no read through Run.__post_init__ fails and no row
\* can stop the sweeper.
RowsReadable == stepBacks = 0 => NoUnreadableRow

\* Until the host clock is set back updated_at never goes back once a run
\* exists, although RPCs stamp a reading taken before they waited for the lock
\* while the delivery task and the sweeper stamp one taken under it: the age
\* the sweeper judges is never overstated by a late write.
UpdatedAtMonotone ==
  [][\A r \in Runs : stepBacks' = 0 /\ state[r] # Absent
                       => updatedAt'[r] >= updatedAt[r]]_vars

\* What a mail carried is what the stages table still holds: a submission that
\* waited for the lock across FinalizeRun, rendering or an orphaning is
\* neither slipped into the tables after the snapshot nor lost from it.
MailedIsStored ==
  \A r \in Runs : mailed[r] > 0 => snap[r] = Assembled(r)

\* At most one call of mailer.send delivers a run: no interleaving of repeated
\* FinalizeRun calls, crashes and sweeps runs its delivery twice (a retry
\* inside the mailer belongs to the same call).
AtMostOneDelivery == \A r \in Runs : mailed[r] <= 1

\* A delivery task that ran to its end left exactly one SEND_REPORT record,
\* whose state is the run's final one; it is a reconciliation record exactly
\* when the sweeper orphaned the run under the delivery; SUCCESS is recorded
\* only for a report the relay took or nobody subscribed to.
OutcomeRecorded ==
  \A r \in Runs : pc[r] = "done" =>
    /\ Len(sendAudit[r]) = 1
    /\ LET a == sendAudit[r][1] IN
         /\ a.new = state[r]
         /\ state[r] \in TERMINAL_STATES
         /\ a.prior = a.new <=> state[r] = "ORPHANED"
         /\ state[r] = "SENT" => a.outcome = "SUCCESS"
         /\ state[r] = "FAILED" => a.outcome = "FAILURE"
         /\ a.outcome = "SUCCESS" => mailed[r] = 1 \/ recipients[r] = "none"

\* Disposition actions are enqueued exactly once for an orphaned run and never
\* for another, over repeated, aborted and crashed ticks.
DispositionOnce ==
  \A r \in Runs : dispositions[r] = IF state[r] = "ORPHANED" THEN 1 ELSE 0

\* The pending_stage_ids of the SWEEP_ORPHAN record stay true: no submission
\* still queued for the lock reports a stage of an orphaned run afterwards.
OrphanRecordAccurate ==
  \A r \in Runs :
    state[r] = "ORPHANED" => pendingAtOrphan[r] = PendingStages(r)

\* Every run ends: a crash, a lost task or an interrupted FinalizeRun may
\* strand it, but the sweeper reclaims it.
EveryRunEnds ==
  \A r \in Runs : state[r] # Absent ~> state[r] \in TERMINAL_STATES

(* The report contract, read off the tables and the delivery task.         *)
Phase(r) ==
  CASE state[r] = Absent -> "absent"
    [] state[r] \in RUN_SUBMISSION_SOURCES -> "collecting"
    [] state[r] \in {"READY", "SENDING"} -> "sealed"
    [] state[r] \in TERMINAL_STATES -> "closed"

Contract == INSTANCE ReportContract WITH
  phase <- [r \in Runs |-> Phase(r)],
  book <- [r \in Runs |-> Assembled(r)],
  verdict <- [r \in Runs |-> IF state[r] \in TERMINAL_STATES
                             THEN state[r] ELSE "none"],
  copies <- [r \in Runs |-> IF mailed[r] = 0 THEN {}
                            ELSE {<<mailed[r], snap[r]>>}]

\* The service implements the report contract.
ImplementsContract == Contract!Spec
=============================================================================
