------------------------------- MODULE Outbox -------------------------------
(***************************************************************************)
(* The sweeper_actions outbox and its dispatcher.  The sweeper enqueues    *)
(* the disposition actions of an orphaned run in one unit of work; the     *)
(* dispatcher abandons exhausted rows, claims a batch, invokes handlers    *)
(* outside any unit of work, and settles each row in a unit of work of its *)
(* own.  A crash, or a failed unit of work, leaves claimed rows behind,    *)
(* which become claimable again once their claim is stale.                 *)
(*                                                                         *)
(* Rows are numbered by action_id.  The clock does not go back here, so    *)
(* enqueued_at grows with action_id and claim order is action_id order.    *)
(***************************************************************************)
EXTENDS Integers, Sequences, FiniteSets

CONSTANTS
  MaxRows,      \* bound: rows ever enqueued
  Policy,       \* the number of configured disposition actions
  BatchLimit,   \* dispatcher batch_limit
  Stale,        \* sweeper.stale_claim_threshold_seconds, in clock ticks
  MaxAttempts,  \* sweeper.max_dispatch_attempts
  Horizon       \* bound: arrivals and failures happen up to this time

ASSUME RowsAssumption == MaxRows \in Nat /\ Policy \in Nat \ {0}
ASSUME LimitsAssumption ==
  /\ BatchLimit \in Nat \ {0}
  /\ Stale \in Nat \ {0}
  /\ MaxAttempts \in Nat \ {0}
  /\ Horizon \in Nat

Ids == 1 .. MaxRows
Null == -1
MaxTime == Horizon + Stale

VARIABLES
  clock,      \* SystemClock.now()
  count,      \* rows enqueued so far
  claimedAt,  \* claimed_at, Null until the first claim
  settled,    \* how completed_at came to be set, "no" while it is NULL
  attempts,   \* attempts
  phase,      \* where dispatch_pending is
  batch,      \* claimed rows of this drain that are not settled yet
  outcomes,   \* handler outcomes of the batch, in batch order
  calls       \* handler invocations of a row, over all drains

rowVars == <<count, claimedAt, settled, attempts>>
drainVars == <<phase, batch, outcomes>>
vars == <<clock, rowVars, drainVars, calls>>

Settlement == {"no", "completed", "failed", "abandoned"}
HandlerOutcome == {"ok", "error"}

\* Every variable ranges over what its column or its field may hold.
TypeOK ==
  /\ clock \in Nat
  /\ count \in 0 .. MaxRows
  /\ claimedAt \in [Ids -> Nat \union {Null}]
  /\ settled \in [Ids -> Settlement]
  /\ attempts \in [Ids -> Nat]
  /\ phase \in {"idle", "claiming", "handling", "settling"}
  /\ batch \in Seq(Ids)
  /\ outcomes \in Seq(HandlerOutcome)
  /\ calls \in [Ids -> Nat]

Init ==
  /\ clock = 0 /\ count = 0
  /\ claimedAt = [i \in Ids |-> Null]
  /\ settled = [i \in Ids |-> "no"]
  /\ attempts = [i \in Ids |-> 0]
  /\ phase = "idle" /\ batch = <<>> /\ outcomes = <<>>
  /\ calls = [i \in Ids |-> 0]

MayFail == clock <= Horizon

\* The sweeper's unit of work: one row per configured action, in policy order.
\* One loop ticks the sweeper and then drains: never both at once.
Enqueue ==
  /\ phase = "idle"
  /\ clock <= Horizon
  /\ count + Policy <= MaxRows
  /\ count' = count + Policy
  /\ UNCHANGED <<clock, claimedAt, settled, attempts, drainVars, calls>>

-----------------------------------------------------------------------------
(* ORDER BY key, action_id LIMIT n.                                        *)

\* Mutant of Before: newest first.
BeforeNewest(key, i, j) == key[i] > key[j] \/ (key[i] = key[j] /\ i > j)

Before(key, i, j) == key[i] < key[j] \/ (key[i] = key[j] /\ i < j)

\* q lists the n first members of S, or all of them.
IsFirst(q, S, n, key) ==
  /\ \A i, j \in DOMAIN q : i < j => Before(key, q[i], q[j])
  /\ Len(q) <= n
  /\ \A x \in S \ {q[i] : i \in DOMAIN q} :
       Len(q) = n /\ \A i \in DOMAIN q : Before(key, q[i], x)

\* The lists over S of at most n rows.
ListsOf(S, n) == UNION {[1 .. k -> S] : k \in 0 .. n}

Rows == 1 .. count

\* claimed_at IS NULL
Fresh == {i \in Rows : claimedAt[i] = Null}

\* Mutant of StaleClaims: completed_at IS NULL is left out.
StaleClaimsSettledToo ==
  {i \in Rows : claimedAt[i] # Null /\ claimedAt[i] + Stale <= clock}

\* completed_at IS NULL, claimed and the claim at least Stale old
StaleClaims ==
  {i \in Rows : /\ settled[i] = "no"
                /\ claimedAt[i] # Null
                /\ claimedAt[i] + Stale <= clock}

Stuck == {i \in StaleClaims : attempts[i] < MaxAttempts}

\* Mutant of Exhausted: off by one.
ExhaustedLate == {i \in StaleClaims : attempts[i] > MaxAttempts}

Exhausted == {i \in StaleClaims : attempts[i] >= MaxAttempts}

-----------------------------------------------------------------------------
(* dispatch_pending.                                                       *)

\* _abandon_exhausted_rows, one unit of work.
AbandonExhausted ==
  /\ phase = "idle"
  /\ \E q \in ListsOf(Exhausted, BatchLimit) :
       /\ IsFirst(q, Exhausted, BatchLimit, claimedAt)
       /\ settled' = [i \in Ids |-> IF \E k \in DOMAIN q : q[k] = i
                                    THEN "abandoned" ELSE settled[i]]
  /\ phase' = "claiming"
  /\ UNCHANGED <<clock, count, claimedAt, attempts, batch, outcomes, calls>>

\* Mutant of ClaimBatch: a reclaim does not count as an attempt.
ClaimBatchUncounted ==
  /\ phase = "claiming"
  /\ \E fresh \in ListsOf(Fresh, BatchLimit) :
     \E stuck \in ListsOf(Stuck, BatchLimit - Len(fresh)) :
       /\ IsFirst(fresh, Fresh, BatchLimit, [i \in Ids |-> i])
       /\ IsFirst(stuck, Stuck, BatchLimit - Len(fresh), claimedAt)
       /\ batch' = fresh \o stuck
       /\ claimedAt' = [i \in Ids |-> IF \E k \in DOMAIN batch' : batch'[k] = i
                                      THEN clock ELSE claimedAt[i]]
  /\ phase' = IF batch' = <<>> THEN "idle" ELSE "handling"
  /\ UNCHANGED <<clock, count, settled, attempts, outcomes, calls>>

\* claim_pending, then reclaim_stuck with what is left of the batch.
ClaimBatch ==
  /\ phase = "claiming"
  /\ \E fresh \in ListsOf(Fresh, BatchLimit) :
     \E stuck \in ListsOf(Stuck, BatchLimit - Len(fresh)) :
       /\ IsFirst(fresh, Fresh, BatchLimit, [i \in Ids |-> i])
       /\ IsFirst(stuck, Stuck, BatchLimit - Len(fresh), claimedAt)
       /\ batch' = fresh \o stuck
       /\ claimedAt' = [i \in Ids |-> IF \/ \E k \in DOMAIN fresh : fresh[k] = i
                                         \/ \E k \in DOMAIN stuck : stuck[k] = i
                                      THEN clock ELSE claimedAt[i]]
       /\ attempts' = [i \in Ids |-> IF \E k \in DOMAIN stuck : stuck[k] = i
                                     THEN attempts[i] + 1 ELSE attempts[i]]
  /\ phase' = IF batch' = <<>> THEN "idle" ELSE "handling"
  /\ UNCHANGED <<clock, count, settled, outcomes, calls>>

\* The next row of the batch whose handler has not been invoked.
Current == batch[Len(outcomes) + 1]

Outcome(how) ==
  /\ outcomes' = Append(outcomes, how)
  /\ phase' = IF Len(outcomes) + 1 = Len(batch) THEN "settling" ELSE "handling"
  /\ UNCHANGED <<clock, rowVars, batch>>

\* handler.handle(run): it returns, or raises and the exception is caught.
InvokeHandler ==
  /\ phase = "handling"
  /\ \E how \in HandlerOutcome : Outcome(how)
  /\ calls' = [calls EXCEPT ![Current] = @ + 1]

\* The run is gone, or the restarted service has no handler of that name.
SkipHandler ==
  /\ phase = "handling"
  /\ Outcome("error")
  /\ UNCHANGED calls

\* Mutant of SettleRow: outcomes are paired with the batch from the wrong end.
SettleRowMispaired ==
  /\ phase = "settling"
  /\ settled' = [settled EXCEPT ![Head(batch)] =
                   IF outcomes[Len(outcomes)] = "ok" THEN "completed" ELSE "failed"]
  /\ batch' = Tail(batch)
  /\ outcomes' = [k \in 1 .. Len(outcomes) - 1 |-> outcomes[k]]
  /\ phase' = IF Len(batch) = 1 THEN "idle" ELSE "settling"
  /\ UNCHANGED <<clock, count, claimedAt, attempts, calls>>

\* mark_completed or mark_failed, one unit of work per row.
SettleRow ==
  /\ phase = "settling"
  /\ LET i == Head(batch) IN
       IF Head(outcomes) = "ok"
       THEN /\ settled' = [settled EXCEPT ![i] = "completed"]
            /\ UNCHANGED attempts
       ELSE /\ settled' = [settled EXCEPT ![i] = "failed"]
            /\ attempts' = [attempts EXCEPT ![i] = @ + 1]
  /\ batch' = Tail(batch)
  /\ outcomes' = Tail(outcomes)
  /\ phase' = IF Len(batch) = 1 THEN "idle" ELSE "settling"
  /\ UNCHANGED <<clock, count, claimedAt, calls>>

\* The process dies and starts again, or a unit of work of the drain fails
\* and the loop abandons the drain: claimed rows stay claimed.
Interrupted ==
  /\ MayFail
  /\ phase # "idle"
  /\ phase' = "idle" /\ batch' = <<>> /\ outcomes' = <<>>
  /\ UNCHANGED <<clock, rowVars, calls>>

Tick ==
  /\ clock < MaxTime
  /\ clock' = clock + 1
  /\ UNCHANGED <<rowVars, drainVars, calls>>

Dispatch ==
  \/ AbandonExhausted \/ ClaimBatch \/ InvokeHandler \/ SkipHandler \/ SettleRow

Next == Enqueue \/ Dispatch \/ Interrupted \/ Tick

Spec == Init /\ [][Next]_vars

\* Time passes and the sweeper loop drains the outbox again and again.
FairSpec == Spec /\ WF_vars(Tick) /\ WF_vars(Dispatch)

-----------------------------------------------------------------------------
(* Properties.                                                             *)

\* However often drains are cut short, a handler runs at most once per claim:
\* the first claim and at most MaxAttempts reclaims.
InvocationsBounded == \A i \in Ids : calls[i] <= MaxAttempts + 1

\* A settled row is final: no later drain claims it, invokes its handler or
\* settles it differently.
SettledIsFinal ==
  [][\A i \in Ids : settled[i] # "no"
       => /\ settled'[i] = settled[i]
          /\ claimedAt'[i] = claimedAt[i]
          /\ calls'[i] = calls[i]]_vars

\* The status of a row tells what happened to it, over claims, reclaims and
\* lost batches: one marked completed had its handler invoked, and one given
\* up had the full number of claims and is not held by the running drain.
StatusIsTruthful ==
  \A i \in Ids :
    /\ settled[i] = "completed" => calls[i] > 0
    /\ settled[i] = "abandoned" =>
         /\ attempts[i] = MaxAttempts
         /\ \A k \in DOMAIN batch : batch[k] # i

\* Fresh rows are claimed before stuck ones, so after an interrupted drain a
\* run's second action may be handled before its first.  Only an interruption
\* does that: a row is handled before an older one only if a drain had claimed
\* the older one already.
OvertakenWasClaimed ==
  \A i, j \in Rows : j < i /\ calls[i] > 0 => claimedAt[j] # Null

\* No disposition is lost: every enqueued row is eventually completed, failed
\* or abandoned, whatever crashes between claim and settle.
EveryRowSettles ==
  \A i \in Ids : i <= count ~> settled[i] # "no"
=============================================================================
