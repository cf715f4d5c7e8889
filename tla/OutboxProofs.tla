---------------------------- MODULE OutboxProofs ----------------------------
(***************************************************************************)
(* Theorems about the disposition outbox, for any number of rows, any      *)
(* batch limit and any number of attempts.                                 *)
(***************************************************************************)
EXTENDS Outbox, SequenceTheorems, TLAPS

\* The batch and the outcomes fit the phase of the drain.
BatchFits ==
  /\ phase \in {"idle", "claiming"} => batch = <<>> /\ outcomes = <<>>
  /\ phase = "handling" => Len(outcomes) < Len(batch)
  /\ phase = "settling" => batch # <<>> /\ Len(outcomes) = Len(batch)

\* The running drain holds distinct rows that are claimed and not settled.
BatchOpen ==
  /\ \A j, k \in DOMAIN batch : j # k => batch[j] # batch[k]
  /\ \A k \in DOMAIN batch :
       settled[batch[k]] = "no" /\ claimedAt[batch[k]] # Null

\* What the books say of a row: one handler call per claim at most.
RowBooked(i) ==
  /\ claimedAt[i] = Null => settled[i] = "no" /\ calls[i] = 0 /\ attempts[i] = 0
  /\ settled[i] = "no" => attempts[i] <= MaxAttempts /\ calls[i] <= attempts[i] + 1
  /\ calls[i] <= MaxAttempts + 1
  /\ settled[i] = "completed" => calls[i] > 0
  /\ settled[i] = "abandoned" => attempts[i] = MaxAttempts

\* A row of the batch whose turn has not come has a call to spare; a handler
\* that succeeded was called.
BatchBooked ==
  \A k \in DOMAIN batch :
    /\ k > Len(outcomes) => calls[batch[k]] <= attempts[batch[k]]
    /\ k <= Len(outcomes) /\ outcomes[k] = "ok" => calls[batch[k]] > 0

IInv ==
  /\ TypeOK /\ BatchFits /\ BatchOpen /\ BatchBooked
  /\ \A i \in Ids : RowBooked(i)

\* What SettledIsFinal says of one step.
StaysSettled ==
  \A i \in Ids : settled[i] # "no"
    => /\ settled'[i] = settled[i]
       /\ claimedAt'[i] = claimedAt[i]
       /\ calls'[i] = calls[i]

LEMMA InitInv == Init => IInv
BY RowsAssumption, LimitsAssumption
DEF Init, IInv, TypeOK, BatchFits, BatchOpen, BatchBooked, RowBooked, Ids, Null,
    Settlement

\* A LIMIT query returns a sequence of distinct rows of the set it selects.
LEMMA ListDistinct ==
  ASSUME NEW S \in SUBSET Ids, NEW n \in Nat, NEW q \in ListsOf(S, n),
         NEW key \in [Ids -> Int], IsFirst(q, S, n, key)
  PROVE  /\ q \in Seq(S) /\ Len(q) <= n
         /\ \A j, k \in DOMAIN q : j # k => q[j] # q[k]
<1>1. PICK m \in 0 .. n : q \in [1 .. m -> S]
  BY DEF ListsOf
<1>2. q \in Seq(S) /\ Len(q) = m /\ DOMAIN q = 1 .. m
  BY <1>1
<1>3. ASSUME NEW j \in DOMAIN q, NEW k \in DOMAIN q, j < k
      PROVE  q[j] # q[k]
  <2>1. Before(key, q[j], q[k])
    BY <1>3 DEF IsFirst
  <2>2. q[j] \in Ids /\ key[q[j]] \in Int /\ q[j] \in Int
    <3>1. q[j] \in Ids
      BY <1>1, <1>2
    <3>2. \A i \in Ids : i \in Int
      BY RowsAssumption DEF Ids
    <3> QED
      BY <3>1, <3>2
  <2>3. ASSUME q[j] = q[k]
        PROVE  FALSE
    <3> DEFINE x == q[j]
    <3>1. key[x] < key[x] \/ (key[x] = key[x] /\ x < x)
      BY <2>1, <2>3 DEF Before
    <3>2. key[x] \in Int /\ x \in Int
      BY <2>2
    <3> HIDE DEF x
    <3> QED
      BY <3>1, <3>2
  <2> QED
    BY <2>3
<1> QED
  BY <1>2, <1>3

LEMMA EnqueueInv ==
  ASSUME IInv, Enqueue
  PROVE  IInv' /\ StaysSettled
<1>1. TypeOK'
  BY RowsAssumption DEF IInv, TypeOK, Enqueue, drainVars, Ids
<1> QED
  BY <1>1
  DEF IInv, BatchFits, BatchOpen, BatchBooked, RowBooked, StaysSettled, Enqueue,
      drainVars

LEMMA AbandonInv ==
  ASSUME IInv, AbandonExhausted
  PROVE  IInv' /\ StaysSettled
<1>1. PICK q \in ListsOf(Exhausted, BatchLimit) :
        settled' = [i \in Ids |-> IF \E k \in DOMAIN q : q[k] = i
                                  THEN "abandoned" ELSE settled[i]]
  BY DEF AbandonExhausted
<1>2. \A k \in DOMAIN q : q[k] \in Exhausted
  BY DEF ListsOf
<1>3. \A i \in Ids : \/ settled'[i] = settled[i]
                     \/ settled'[i] = "abandoned" /\ i \in Exhausted
  BY <1>1, <1>2
<1>4. /\ batch = <<>> /\ outcomes = <<>> /\ phase' = "claiming"
      /\ UNCHANGED <<clock, count, claimedAt, attempts, batch, outcomes, calls>>
  BY DEF IInv, BatchFits, AbandonExhausted
<1>5. TypeOK'
  BY <1>1, <1>4 DEF IInv, TypeOK, Settlement
<1>6. BatchFits' /\ BatchOpen' /\ BatchBooked'
  BY <1>4 DEF BatchFits, BatchOpen, BatchBooked
<1>7. ASSUME NEW i \in Ids
      PROVE  RowBooked(i)'
  <2>1. CASE settled'[i] = settled[i]
    BY <1>4, <2>1 DEF IInv, RowBooked
  <2>2. CASE settled'[i] = "abandoned" /\ i \in Exhausted
    <3>1. /\ settled[i] = "no" /\ claimedAt[i] # Null
          /\ attempts[i] >= MaxAttempts
      BY <2>2 DEF Exhausted, StaleClaims
    <3>2. attempts[i] = MaxAttempts
      BY <3>1, LimitsAssumption DEF IInv, RowBooked, TypeOK
    <3> QED
      BY <1>4, <2>2, <3>1, <3>2 DEF IInv, RowBooked
  <2> QED
    BY <1>3, <2>1, <2>2
<1>8. StaysSettled
  BY <1>3, <1>4 DEF StaysSettled, Exhausted, StaleClaims
<1> QED
  BY <1>5, <1>6, <1>7, <1>8 DEF IInv

LEMMA ClaimInv ==
  ASSUME IInv, ClaimBatch
  PROVE  IInv' /\ StaysSettled
<1>1. PICK fresh \in ListsOf(Fresh, BatchLimit) :
      \E stuck \in ListsOf(Stuck, BatchLimit - Len(fresh)) :
        /\ IsFirst(fresh, Fresh, BatchLimit, [i \in Ids |-> i])
        /\ IsFirst(stuck, Stuck, BatchLimit - Len(fresh), claimedAt)
        /\ batch' = fresh \o stuck
        /\ claimedAt' = [i \in Ids |-> IF \/ \E k \in DOMAIN fresh : fresh[k] = i
                                          \/ \E k \in DOMAIN stuck : stuck[k] = i
                                       THEN clock ELSE claimedAt[i]]
        /\ attempts' = [i \in Ids |-> IF \E k \in DOMAIN stuck : stuck[k] = i
                                      THEN attempts[i] + 1 ELSE attempts[i]]
  BY DEF ClaimBatch
<1>2. PICK stuck \in ListsOf(Stuck, BatchLimit - Len(fresh)) :
        /\ IsFirst(fresh, Fresh, BatchLimit, [i \in Ids |-> i])
        /\ IsFirst(stuck, Stuck, BatchLimit - Len(fresh), claimedAt)
        /\ batch' = fresh \o stuck
        /\ claimedAt' = [i \in Ids |-> IF \/ \E k \in DOMAIN fresh : fresh[k] = i
                                          \/ \E k \in DOMAIN stuck : stuck[k] = i
                                       THEN clock ELSE claimedAt[i]]
        /\ attempts' = [i \in Ids |-> IF \E k \in DOMAIN stuck : stuck[k] = i
                                      THEN attempts[i] + 1 ELSE attempts[i]]
  BY <1>1
<1>3. /\ TypeOK /\ batch = <<>> /\ outcomes = <<>>
      /\ phase' = IF batch' = <<>> THEN "idle" ELSE "handling"
      /\ UNCHANGED <<clock, count, settled, outcomes, calls>>
  BY DEF IInv, BatchFits, ClaimBatch
<1>4. /\ Fresh \subseteq Ids /\ Stuck \subseteq Ids
      /\ \A i \in Fresh : claimedAt[i] = Null
      /\ \A i \in Stuck : /\ settled[i] = "no" /\ claimedAt[i] # Null
                          /\ attempts[i] < MaxAttempts
  BY <1>3, RowsAssumption DEF Fresh, Stuck, StaleClaims, Rows, Ids, TypeOK
<1>5. /\ fresh \in Seq(Fresh) /\ Len(fresh) <= BatchLimit
      /\ \A j, k \in DOMAIN fresh : j # k => fresh[j] # fresh[k]
  <2>1. [i \in Ids |-> i] \in [Ids -> Int]
    BY DEF Ids
  <2> QED
    BY <1>2, <1>4, <2>1, ListDistinct, LimitsAssumption
<1>6. /\ stuck \in Seq(Stuck)
      /\ \A j, k \in DOMAIN stuck : j # k => stuck[j] # stuck[k]
  <2>1. claimedAt \in [Ids -> Int]
    BY <1>3 DEF TypeOK, Null
  <2>2. BatchLimit - Len(fresh) \in Nat
    BY <1>5, LimitsAssumption
  <2> QED
    BY <1>2, <1>4, <2>1, <2>2, ListDistinct
<1>7. /\ fresh \in Seq(Ids) /\ stuck \in Seq(Ids)
      /\ \A k \in DOMAIN fresh : fresh[k] \in Fresh
      /\ \A k \in DOMAIN stuck : stuck[k] \in Stuck
  BY <1>4, <1>5, <1>6, SeqMonotonic
<1>8. /\ batch' \in Seq(Ids)
      /\ \A k \in DOMAIN batch' :
           \/ k \in DOMAIN fresh /\ batch'[k] = fresh[k]
           \/ k - Len(fresh) \in DOMAIN stuck /\ batch'[k] = stuck[k - Len(fresh)]
  BY <1>2, <1>7, ConcatProperties
<1>9. \A k \in DOMAIN batch' : batch'[k] \in Fresh \/ batch'[k] \in Stuck
  BY <1>7, <1>8
<1>10. ASSUME NEW j \in DOMAIN batch', NEW k \in DOMAIN batch', j # k
       PROVE  batch'[j] # batch'[k]
  <2>1. j \in Int /\ k \in Int /\ Len(fresh) \in Int
    BY <1>7, <1>8
  <2>2. \A i \in Ids : ~(i \in Fresh /\ i \in Stuck)
    BY <1>4
  <2>3. CASE j \in DOMAIN fresh /\ batch'[j] = fresh[j]
    <3>1. CASE k \in DOMAIN fresh /\ batch'[k] = fresh[k]
      BY <1>5, <1>10, <2>3, <3>1
    <3>2. CASE k - Len(fresh) \in DOMAIN stuck /\ batch'[k] = stuck[k - Len(fresh)]
      BY <1>4, <1>7, <2>2, <2>3, <3>2
    <3> QED
      BY <1>8, <3>1, <3>2
  <2>4. CASE j - Len(fresh) \in DOMAIN stuck /\ batch'[j] = stuck[j - Len(fresh)]
    <3>1. CASE k \in DOMAIN fresh /\ batch'[k] = fresh[k]
      BY <1>4, <1>7, <2>2, <2>4, <3>1
    <3>2. CASE k - Len(fresh) \in DOMAIN stuck /\ batch'[k] = stuck[k - Len(fresh)]
      <4>1. j - Len(fresh) # k - Len(fresh)
        BY <1>10, <2>1
      <4> QED
        BY <1>6, <2>4, <3>2, <4>1
    <3> QED
      BY <1>8, <3>1, <3>2
  <2> QED
    BY <1>8, <2>3, <2>4
<1>11. \A i \in Ids :
         \/ i \in Fresh /\ claimedAt'[i] = clock /\ attempts'[i] = attempts[i]
         \/ i \in Stuck /\ claimedAt'[i] = clock /\ attempts'[i] = attempts[i] + 1
         \/ claimedAt'[i] = claimedAt[i] /\ attempts'[i] = attempts[i]
  BY <1>2, <1>4, <1>7
<1>12. \A k \in DOMAIN batch' :
         /\ batch'[k] \in Ids
         /\ claimedAt'[batch'[k]] = clock
         /\ \/ batch'[k] \in Fresh
            \/ batch'[k] \in Stuck /\ attempts'[batch'[k]] = attempts[batch'[k]] + 1
  BY <1>2, <1>4, <1>7, <1>8
<1>13. TypeOK'
  <2>1. claimedAt' \in [Ids -> Nat \union {Null}] /\ attempts' \in [Ids -> Nat]
    BY <1>2, <1>3 DEF TypeOK
  <2> QED
    BY <1>3, <1>8, <2>1 DEF TypeOK
<1>14. clock # Null
  BY <1>3 DEF TypeOK, Null
<1>15. BatchFits'
  <2>1. batch' # <<>> => Len(batch') > 0
    BY <1>8, EmptySeq
  <2> QED
    BY <1>3, <2>1 DEF BatchFits
<1>16. BatchOpen'
  BY <1>3, <1>4, <1>10, <1>12, <1>14 DEF BatchOpen, IInv, RowBooked
<1>17. BatchBooked'
  <2>1. ASSUME NEW k \in DOMAIN batch'
        PROVE  calls'[batch'[k]] <= attempts'[batch'[k]] /\ k > Len(outcomes')
    <3>1. k \in Nat /\ k > 0
      BY <1>8
    <3>2. RowBooked(batch'[k]) /\ attempts[batch'[k]] \in Nat /\ calls[batch'[k]] \in Nat
      BY <1>3, <1>12 DEF IInv, TypeOK
    <3>3. attempts'[batch'[k]] \in Nat
      BY <1>12, <1>13 DEF TypeOK
    <3> QED
      BY <1>3, <1>4, <1>12, <3>1, <3>2, <3>3 DEF RowBooked
  <2>2. \A k \in DOMAIN batch' : ~(k <= Len(outcomes'))
    BY <1>3, <1>8
  <2> QED
    BY <2>1, <2>2 DEF BatchBooked
<1>18. ASSUME NEW i \in Ids
       PROVE  RowBooked(i)'
  <2>1. /\ RowBooked(i) /\ attempts[i] \in Nat /\ calls[i] \in Nat
        /\ settled'[i] = settled[i] /\ calls'[i] = calls[i]
    BY <1>3 DEF IInv, TypeOK
  <2> QED
    BY <1>4, <1>11, <1>14, <2>1, LimitsAssumption DEF RowBooked
<1>19. StaysSettled
  BY <1>3, <1>4, <1>11 DEF StaysSettled, IInv, RowBooked
<1> QED
  BY <1>13, <1>15, <1>16, <1>17, <1>18, <1>19 DEF IInv

\* One handler is invoked, or found missing: its row uses the call it had.
LEMMA HandleInv ==
  ASSUME IInv, InvokeHandler \/ SkipHandler
  PROVE  IInv' /\ StaysSettled
<1> DEFINE n == Len(outcomes) + 1
<1>1. /\ phase = "handling" /\ TypeOK
      /\ n \in DOMAIN batch /\ Len(batch) \in Nat /\ Len(outcomes) \in Nat
      /\ DOMAIN batch = 1 .. Len(batch) /\ \A k \in DOMAIN batch : batch[k] \in Ids
      /\ n <= Len(batch)
  <2>1. phase = "handling" /\ TypeOK /\ Len(outcomes) < Len(batch)
    BY DEF IInv, BatchFits, InvokeHandler, SkipHandler
  <2> QED
    BY <2>1 DEF TypeOK
<1>2. PICK how \in HandlerOutcome :
        /\ Outcome(how)
        /\ \/ calls' = [calls EXCEPT ![batch[n]] = @ + 1]
           \/ calls' = calls /\ how = "error"
  BY DEF InvokeHandler, SkipHandler, Current, HandlerOutcome
<1>3. /\ outcomes' = Append(outcomes, how)
      /\ phase' = IF n = Len(batch) THEN "settling" ELSE "handling"
      /\ UNCHANGED <<clock, count, claimedAt, settled, attempts, batch>>
  BY <1>2 DEF Outcome, rowVars
<1>4. /\ outcomes' \in Seq(HandlerOutcome) /\ Len(outcomes') = n
      /\ \A k \in 1 .. Len(outcomes) : outcomes'[k] = outcomes[k]
      /\ outcomes'[n] = how
  <2>1. outcomes \in Seq(HandlerOutcome) /\ outcomes' = Append(outcomes, how)
    BY <1>1, <1>3 DEF TypeOK
  <2>2. outcomes' \in Seq(HandlerOutcome)
    BY <2>1
  <2>3. Len(outcomes') = n
    BY <2>1
  <2>4. \A k \in 1 .. Len(outcomes) : outcomes'[k] = outcomes[k]
    BY <2>1
  <2>5. outcomes'[n] = how
    BY <2>1
  <2> QED
    BY <2>2, <2>3, <2>4, <2>5
<1>5. \A i \in Ids : /\ calls[i] \in Nat /\ attempts[i] \in Nat
                     /\ calls'[i] \in Nat
                     /\ i # batch[n] => calls'[i] = calls[i]
  BY <1>1, <1>2 DEF TypeOK
<1>6. /\ calls[batch[n]] <= attempts[batch[n]]
      /\ \/ calls'[batch[n]] = calls[batch[n]] + 1
         \/ calls'[batch[n]] = calls[batch[n]] /\ how = "error"
  <2>1. n > Len(outcomes)
    BY <1>1
  <2> QED
    BY <1>1, <1>2, <2>1 DEF IInv, BatchBooked, TypeOK
<1>7. TypeOK'
  <2>1. calls' \in [Ids -> Nat]
    BY <1>1, <1>2, <1>5 DEF TypeOK
  <2> QED
    BY <1>1, <1>3, <1>4, <2>1 DEF TypeOK
<1>8. BatchFits'
  <2>1. batch # <<>>
    BY <1>1
  <2> QED
    <3>1. Len(outcomes') = n /\ batch' = batch
      BY <1>3, <1>4
    <3>2. CASE n = Len(batch)
      <4>1. phase' = "settling"
        BY <1>3, <3>2
      <4> QED
        BY <2>1, <3>1, <3>2, <4>1 DEF BatchFits
    <3>3. CASE n # Len(batch)
      <4>1. phase' = "handling"
        BY <1>3, <3>3
      <4>2. n < Len(batch)
        <5>1. Len(batch) \in Nat /\ Len(outcomes) + 1 \in Nat /\ n <= Len(batch)
          BY <1>1
        <5> QED
          BY <3>3, <5>1
      <4>3. Len(outcomes') < Len(batch')
        BY <3>1, <4>2
      <4> QED
        BY <4>1, <4>3 DEF BatchFits
    <3> QED
      BY <3>2, <3>3
<1>9. BatchOpen'
  BY <1>3 DEF BatchOpen, IInv
<1>10. BatchBooked'
  <2>1. ASSUME NEW k \in DOMAIN batch'
        PROVE  /\ k > Len(outcomes') => calls'[batch'[k]] <= attempts'[batch'[k]]
               /\ k <= Len(outcomes') /\ outcomes'[k] = "ok" => calls'[batch'[k]] > 0
    <3>1. k \in 1 .. Len(batch) /\ batch'[k] = batch[k] /\ batch[k] \in Ids
      BY <1>1, <1>3
    <3>2. CASE k = n
      <4>1. /\ Len(outcomes') = n /\ n \in Nat /\ outcomes'[k] = how
            /\ batch'[k] = batch[n] /\ batch[n] \in Ids
        BY <1>1, <1>4, <3>1, <3>2
      <4>2. how = "ok" => calls'[batch[n]] > 0
        BY <1>5, <1>6, <4>1
      <4> QED
        BY <3>2, <4>1, <4>2
    <3>3. CASE k # n
      <4>1. batch[k] # batch[n]
        BY <1>1, <3>1, <3>3 DEF IInv, BatchOpen
      <4>2. calls'[batch[k]] = calls[batch[k]] /\ attempts' = attempts
        BY <1>3, <1>5, <3>1, <4>1
      <4>3. /\ k > Len(outcomes) => calls[batch[k]] <= attempts[batch[k]]
            /\ k <= Len(outcomes) /\ outcomes[k] = "ok" => calls[batch[k]] > 0
        BY <1>1, <3>1 DEF IInv, BatchBooked
      <4>4. CASE k < n
        <5>1. k \in 1 .. Len(outcomes) /\ outcomes'[k] = outcomes[k]
          BY <1>1, <1>4, <3>1, <4>4
        <5> QED
          BY <1>1, <1>4, <3>1, <4>2, <4>3, <4>4, <5>1
      <4>5. CASE k > n
        BY <1>1, <1>4, <3>1, <4>2, <4>3, <4>5
      <4> QED
        BY <1>1, <3>1, <3>3, <4>4, <4>5
    <3> QED
      BY <3>2, <3>3
  <2> QED
    BY <2>1 DEF BatchBooked
<1>11. ASSUME NEW i \in Ids
       PROVE  RowBooked(i)'
  <2>1. CASE i # batch[n]
    BY <1>3, <1>5, <2>1 DEF IInv, RowBooked
  <2>2. CASE i = batch[n]
    <3>1. RowBooked(i) /\ settled[i] = "no" /\ claimedAt[i] # Null
      BY <1>1, <2>2 DEF IInv, BatchOpen
    <3> QED
      BY <1>3, <1>5, <1>6, <2>2, <3>1, LimitsAssumption DEF RowBooked
  <2> QED
    BY <2>1, <2>2
<1>12. StaysSettled
  <2>1. settled[batch[n]] = "no"
    BY <1>1 DEF IInv, BatchOpen
  <2> QED
    BY <1>3, <1>5, <2>1 DEF StaysSettled
<1> QED
  BY <1>7, <1>8, <1>9, <1>10, <1>11, <1>12 DEF IInv

\* The first row of the batch is settled with the first outcome.
LEMMA SettleInv ==
  ASSUME IInv, SettleRow
  PROVE  IInv' /\ StaysSettled
<1> DEFINE i0 == batch[1]
<1>1. /\ phase = "settling" /\ TypeOK
      /\ batch \in Seq(Ids) /\ outcomes \in Seq(HandlerOutcome)
      /\ batch # <<>> /\ outcomes # <<>> /\ Len(outcomes) = Len(batch)
      /\ Len(batch) \in Nat /\ Len(batch) > 0
      /\ DOMAIN batch = 1 .. Len(batch)
  <2>1. phase = "settling" /\ TypeOK /\ batch # <<>> /\ Len(outcomes) = Len(batch)
    BY DEF IInv, BatchFits, SettleRow
  <2>2. Len(batch) \in Nat \ {0}
    BY <2>1, EmptySeq DEF TypeOK
  <2> QED
    BY <2>1, <2>2 DEF TypeOK
<1>2. /\ Head(batch) = i0 /\ Head(outcomes) = outcomes[1]
      /\ i0 \in Ids /\ 1 \in DOMAIN batch
  BY <1>1
<1>3. /\ batch' = Tail(batch) /\ outcomes' = Tail(outcomes)
      /\ phase' = IF Len(batch) = 1 THEN "idle" ELSE "settling"
      /\ UNCHANGED <<clock, count, claimedAt, calls>>
      /\ \/ /\ outcomes[1] = "ok"
            /\ settled' = [settled EXCEPT ![i0] = "completed"]
            /\ attempts' = attempts
         \/ /\ outcomes[1] # "ok"
            /\ settled' = [settled EXCEPT ![i0] = "failed"]
            /\ attempts' = [attempts EXCEPT ![i0] = @ + 1]
  BY <1>2 DEF SettleRow
<1>4. /\ batch' \in Seq(Ids) /\ outcomes' \in Seq(HandlerOutcome)
      /\ Len(batch') = Len(batch) - 1 /\ Len(outcomes') = Len(batch')
      /\ DOMAIN batch' = 1 .. Len(batch) - 1
      /\ \A k \in DOMAIN batch' :
           /\ k + 1 \in DOMAIN batch /\ batch'[k] = batch[k + 1]
           /\ outcomes'[k] = outcomes[k + 1]
  BY <1>1, <1>3, HeadTailProperties
<1>5. \A x \in Ids : x # i0 => settled'[x] = settled[x] /\ attempts'[x] = attempts[x]
  BY <1>1, <1>2, <1>3 DEF TypeOK
<1>6. \A k \in DOMAIN batch' : batch'[k] \in Ids /\ batch'[k] # i0
  <2>1. ASSUME NEW k \in DOMAIN batch'
        PROVE  batch'[k] \in Ids /\ batch'[k] # i0
    <3>1. k + 1 \in DOMAIN batch /\ k + 1 # 1
      BY <1>1, <1>4
    <3> QED
      BY <1>1, <1>2, <1>4, <3>1 DEF IInv, BatchOpen
  <2> QED
    BY <2>1
<1>7. TypeOK'
  <2>1. settled' \in [Ids -> Settlement] /\ attempts' \in [Ids -> Nat]
    <3>1. settled \in [Ids -> Settlement] /\ attempts \in [Ids -> Nat]
      BY <1>1 DEF TypeOK
    <3>2. /\ \/ settled' = [settled EXCEPT ![i0] = "completed"]
             \/ settled' = [settled EXCEPT ![i0] = "failed"]
          /\ attempts' = attempts \/ attempts' = [attempts EXCEPT ![i0] = @ + 1]
      BY <1>3
    <3> QED
      BY <3>1, <3>2 DEF Settlement
  <2>2. phase' \in {"idle", "claiming", "handling", "settling"}
    BY <1>3
  <2>3. outcomes' \in Seq(HandlerOutcome)
    BY <1>4
  <2> QED
    BY <1>1, <1>3, <1>4, <2>1, <2>2, <2>3 DEF TypeOK
<1>8. BatchFits'
  <2>1. CASE Len(batch) = 1
    <3>1. batch' = <<>> /\ outcomes' = <<>>
      BY <1>4, <2>1, EmptySeq
    <3> QED
      BY <1>3, <2>1, <3>1 DEF BatchFits
  <2>2. CASE Len(batch) # 1
    <3>1. batch' # <<>>
      BY <1>1, <1>4, <2>2
    <3> QED
      BY <1>3, <1>4, <2>2, <3>1 DEF BatchFits
  <2> QED
    BY <2>1, <2>2
<1>9. BatchOpen'
  <2>1. ASSUME NEW j \in DOMAIN batch', NEW k \in DOMAIN batch', j # k
        PROVE  batch'[j] # batch'[k]
    <3>1. j + 1 # k + 1
      BY <1>1, <1>4, <2>1
    <3> QED
      BY <1>4, <3>1 DEF IInv, BatchOpen
  <2>2. ASSUME NEW k \in DOMAIN batch'
        PROVE  settled'[batch'[k]] = "no" /\ claimedAt'[batch'[k]] # Null
    BY <1>3, <1>4, <1>5, <1>6 DEF IInv, BatchOpen
  <2> QED
    BY <2>1, <2>2 DEF BatchOpen
<1>10. BatchBooked'
  <2>1. ASSUME NEW k \in DOMAIN batch'
        PROVE  /\ ~(k > Len(outcomes'))
               /\ outcomes'[k] = "ok" => calls'[batch'[k]] > 0
    <3>1. k + 1 <= Len(outcomes)
      BY <1>1, <1>4
    <3> QED
      BY <1>1, <1>3, <1>4, <3>1 DEF IInv, BatchBooked
  <2> QED
    BY <2>1 DEF BatchBooked
<1>11. ASSUME NEW x \in Ids
       PROVE  RowBooked(x)'
  <2>1. CASE x # i0
    BY <1>3, <1>5, <2>1 DEF IInv, RowBooked
  <2>2. CASE x = i0
    <3>1. /\ RowBooked(x) /\ claimedAt[x] # Null
          /\ outcomes[1] = "ok" => calls[x] > 0
      BY <1>1, <1>2, <2>2 DEF IInv, BatchOpen, BatchBooked
    <3>2. /\ settled'[x] \in {"completed", "failed"}
          /\ settled'[x] = "completed" => outcomes[1] = "ok"
      BY <1>1, <1>2, <1>3, <2>2 DEF TypeOK
    <3> QED
      BY <1>3, <3>1, <3>2 DEF RowBooked
  <2> QED
    BY <2>1, <2>2
<1>12. StaysSettled
  <2>1. settled[i0] = "no"
    BY <1>2 DEF IInv, BatchOpen
  <2> QED
    BY <1>3, <1>5, <2>1 DEF StaysSettled
<1> QED
  BY <1>7, <1>8, <1>9, <1>10, <1>11, <1>12 DEF IInv

LEMMA OtherInv ==
  ASSUME IInv, Interrupted \/ Tick \/ UNCHANGED vars
  PROVE  IInv' /\ StaysSettled
<1>1. UNCHANGED <<count, claimedAt, settled, attempts, calls>> /\ clock' \in Nat
  BY DEF IInv, TypeOK, Interrupted, Tick, vars, rowVars
<1>2. \/ UNCHANGED <<phase, batch, outcomes>>
      \/ phase' = "idle" /\ batch' = <<>> /\ outcomes' = <<>>
  BY DEF Interrupted, Tick, vars, drainVars
<1>3. TypeOK' /\ BatchFits' /\ BatchOpen' /\ BatchBooked'
  <2>1. CASE UNCHANGED <<phase, batch, outcomes>>
    BY <1>1, <2>1 DEF IInv, TypeOK, BatchFits, BatchOpen, BatchBooked
  <2>2. CASE phase' = "idle" /\ batch' = <<>> /\ outcomes' = <<>>
    <3>1. batch' \in Seq(Ids) /\ outcomes' \in Seq(HandlerOutcome) /\ DOMAIN batch' = {}
      BY <2>2
    <3>2. TypeOK'
      BY <1>1, <2>2, <3>1 DEF IInv, TypeOK
    <3> QED
      BY <2>2, <3>1, <3>2 DEF BatchFits, BatchOpen, BatchBooked
  <2> QED
    BY <1>2, <2>1, <2>2
<1> QED
  BY <1>1, <1>3 DEF IInv, RowBooked, StaysSettled

LEMMA StepInv == IInv /\ [Next]_vars => IInv' /\ StaysSettled
BY EnqueueInv, AbandonInv, ClaimInv, HandleInv, SettleInv, OtherInv
DEF Next, Dispatch

\* The invariant that keeps a row's books: a row not yet settled was handled at
\* most once per claim, and one whose turn is still to come has a call to spare.
THEOREM Invariance == Spec => []IInv
BY InitInv, StepInv, PTL DEF Spec

\* Every variable of the outbox keeps its type.
THEOREM TypeCorrect == Spec => []TypeOK
<1>1. IInv => TypeOK
  BY DEF IInv
<1> QED
  BY <1>1, Invariance, PTL

\* However often drains are cut short and rows reclaimed, the handler of an
\* action is invoked at most MaxAttempts + 1 times.
THEOREM InvocationsBoundedHolds == Spec => []InvocationsBounded
<1>1. IInv => InvocationsBounded
  BY DEF IInv, RowBooked, InvocationsBounded
<1> QED
  BY <1>1, Invariance, PTL

\* An action marked completed had its handler invoked; one is abandoned only
\* after all its attempts, never under a drain that still holds it.
THEOREM StatusIsTruthfulHolds == Spec => []StatusIsTruthful
<1>1. IInv => StatusIsTruthful
  BY DEF IInv, RowBooked, BatchOpen, StatusIsTruthful
<1> QED
  BY <1>1, Invariance, PTL

\* A settled row is never claimed, handled or settled again.
THEOREM SettledIsFinalHolds == Spec => SettledIsFinal
<1>1. IInv /\ [Next]_vars => [\A i \in Ids : settled[i] # "no"
        => /\ settled'[i] = settled[i]
           /\ claimedAt'[i] = claimedAt[i]
           /\ calls'[i] = calls[i]]_vars
  BY StepInv DEF StaysSettled
<1> QED
  BY <1>1, Invariance, PTL DEF Spec, SettledIsFinal

\* Rows are claimed for the first time in the order of their identifiers.
ClaimedInOrder ==
  \A i, j \in Ids : j < i /\ claimedAt[i] # Null => claimedAt[j] # Null

LEMMA ClaimOrder ==
  ASSUME IInv, ClaimedInOrder, ClaimBatch
  PROVE  ClaimedInOrder'
<1>1. PICK fresh \in ListsOf(Fresh, BatchLimit) :
      \E stuck \in ListsOf(Stuck, BatchLimit - Len(fresh)) :
        /\ IsFirst(fresh, Fresh, BatchLimit, [i \in Ids |-> i])
        /\ claimedAt' = [i \in Ids |-> IF \/ \E k \in DOMAIN fresh : fresh[k] = i
                                          \/ \E k \in DOMAIN stuck : stuck[k] = i
                                       THEN clock ELSE claimedAt[i]]
  BY DEF ClaimBatch
<1>2. PICK stuck \in ListsOf(Stuck, BatchLimit - Len(fresh)) :
        claimedAt' = [i \in Ids |-> IF \/ \E k \in DOMAIN fresh : fresh[k] = i
                                       \/ \E k \in DOMAIN stuck : stuck[k] = i
                                    THEN clock ELSE claimedAt[i]]
  BY <1>1
<1>3. /\ \A k \in DOMAIN stuck : claimedAt[stuck[k]] # Null
      /\ \A k \in DOMAIN fresh : fresh[k] \in Fresh
  BY DEF ListsOf, Stuck, StaleClaims
<1>4. SUFFICES ASSUME NEW i \in Ids, NEW j \in Ids, j < i,
                      claimedAt'[i] # Null, claimedAt'[j] = Null
               PROVE  FALSE
  BY DEF ClaimedInOrder
<1>5. clock # Null
  BY DEF IInv, TypeOK, Null
<1>6. claimedAt[j] = Null /\ \A k \in DOMAIN fresh : fresh[k] # j
  BY <1>2, <1>4, <1>5
<1>7. claimedAt[i] = Null
  BY <1>4, <1>6 DEF ClaimedInOrder
<1>8. PICK k \in DOMAIN fresh : fresh[k] = i
  BY <1>2, <1>3, <1>4, <1>7
<1>9. i \in Int /\ j \in Int /\ count \in Nat /\ j >= 1
  BY RowsAssumption DEF Ids, IInv, TypeOK
<1>10. j \in Fresh
  BY <1>3, <1>4, <1>6, <1>8, <1>9 DEF Fresh, Rows
<1>11. Before([x \in Ids |-> x], i, j)
  BY <1>1, <1>6, <1>8, <1>10 DEF IsFirst
<1> QED
  BY <1>4, <1>9, <1>11 DEF Before

LEMMA StepOrder == IInv /\ ClaimedInOrder /\ [Next]_vars => ClaimedInOrder'
<1> SUFFICES ASSUME IInv, ClaimedInOrder, [Next]_vars
             PROVE  ClaimedInOrder'
  OBVIOUS
<1>1. CASE ClaimBatch
  BY <1>1, ClaimOrder
<1>2. CASE ~ClaimBatch
  <2>1. claimedAt' = claimedAt
    BY <1>2 DEF Next, Dispatch, vars, rowVars, Enqueue, AbandonExhausted, InvokeHandler,
                SkipHandler, Outcome, SettleRow, Interrupted, Tick
  <2> QED
    BY <2>1 DEF ClaimedInOrder
<1> QED
  BY <1>1, <1>2

\* Whatever interruptions do, a row is handled before an older one only if a
\* drain had claimed the older one already.
THEOREM OvertakenWasClaimedHolds == Spec => []OvertakenWasClaimed
<1>1. Init => ClaimedInOrder
  BY DEF Init, ClaimedInOrder
<1>2. IInv /\ ClaimedInOrder => OvertakenWasClaimed
  <2> SUFFICES ASSUME IInv, ClaimedInOrder, NEW i \in Rows, NEW j \in Rows,
                      j < i, calls[i] > 0
               PROVE  claimedAt[j] # Null
    BY DEF OvertakenWasClaimed
  <2>1. i \in Ids /\ j \in Ids
    BY RowsAssumption DEF Rows, Ids, IInv, TypeOK
  <2>2. claimedAt[i] # Null
    BY <2>1 DEF IInv, RowBooked
  <2> QED
    BY <2>1, <2>2 DEF ClaimedInOrder
<1> QED
  BY <1>1, <1>2, StepOrder, Invariance, PTL DEF Spec
=============================================================================
