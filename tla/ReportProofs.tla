---------------------------- MODULE ReportProofs ----------------------------
(***************************************************************************)
(* The report of a run, for any number of runs, stages, files, requests,   *)
(* subscribers, administrators, resends and retries: what it shows (the    *)
(* module Templates) and whom it reaches (the module Delivery).            *)
(*                                                                         *)
(* The strengthening of Delivery keeps the books of every job: how many of *)
(* its attempts may have been accepted, whom it may have written to, and   *)
(* which record it has behind it.  That of Templates ties the rows of a    *)
(* run to the request and the manifest it began with and to the last       *)
(* submission of each stage, and every e-mail to the rows and the compiled *)
(* templates, so that it can be computed again from them.                  *)
(***************************************************************************)
EXTENDS Delivery, Templates, FiniteSetTheorems, WellFoundedInduction, TLAPS

-----------------------------------------------------------------------------
(* Delivery: whom a report reaches.                                        *)


Early == {"new", "check", "render", "resolve"}
FirstRecorded == \E rec \in audit : rec.job = First
Reached(cp) == \E a \in Addresses : cp[a] > 0

\* Job j, in entry e, with cp copies accepted and n replies lost: an attempt
\* may have lost its reply, each earlier one too, and none can be repeated
\* once the retries are used up.
Books(j, e, cp, n) ==
  /\ e.pc \in Early => /\ e.to = {} /\ e.outcome = "none" /\ n = 0
                       /\ \A a \in Addresses : cp[a] = 0
  /\ e.pc = "send" => /\ e.to # {} /\ e.outcome = "none"
                      /\ e.attempt >= 1 /\ e.attempt <= MaxRetries + 1
                      /\ n < e.attempt
                      /\ j = Notice \/ ~big
  /\ \A a \in Addresses :
       /\ cp[a] <= n + IF e.outcome = "SUCCESS" THEN 1 ELSE 0
       /\ cp[a] <= MaxRetries + 1
       /\ cp[a] > 0 => (j = Notice \/ ~big) /\ (a = Sender \/ a \in e.to)
  /\ e.outcome = "SUCCESS" /\ e.to # {} => Reached(cp)

\* A resend knows whom it may write to, and the report has its record.
ResendOK(j, e, cp) ==
  j \in Resends =>
    /\ e.to \subseteq known[j]
    /\ e.pc \notin {"new", "done", "lost"} => subscribed \subseteq known[j]
    /\ e.pc \in {"render", "resolve", "send", "settle"} \/ Reached(cp) => FirstRecorded

\* What a record keeps of the recipients in entry e of job j.
Keeps(rec, j, e) ==
  /\ rec.job = j /\ rec.count = Cardinality(e.to)
  /\ j \in Resends \/ runState = "SENT" => rec.to = e.to

\* A job that is done after the relay took its message has its record, and the
\* first delivery leaves a run whose state is settled.
Accounted(j, e, cp) ==
  j # Notice /\ e.pc = "done" =>
    /\ Reached(cp) => \E rec \in audit : Keeps(rec, j, e)
    /\ j = First => runState # "SENDING"

JobInv(j) ==
  /\ Books(j, job[j], copies[j], lostReplies[j])
  /\ ResendOK(j, job[j], copies[j])
  /\ Accounted(j, job[j], copies[j])

RecordsInv ==
  /\ \A rec \in audit : rec.outcome = "SUCCESS" /\ rec.count > 0 => Reached(copies[rec.job])
  /\ runState \in Resendable => FirstRecorded /\ job[First].pc = "done"
  /\ job[Notice].pc # "new" =>
       /\ job[First].pc = "done"
       /\ \E rec \in audit : rec.job = First /\ rec.outcome = "EMAIL_SIZE_EXCEEDED"

DeliveryInv == TypeOK /\ (\A j \in Jobs : JobInv(j)) /\ RecordsInv

-----------------------------------------------------------------------------
(* A step of one job.                                                      *)

LEMMA JobNames ==
  /\ First \in Jobs /\ Notice \in Jobs /\ First # Notice
  /\ First \notin Resends /\ Notice \notin Resends
BY JobsAssumption DEF Jobs, First, Notice

\* A job that a step leaves alone keeps its books.
LEMMA OtherJob ==
  ASSUME NEW k \in Jobs, JobInv(k), job'[k] = job[k], copies'[k] = copies[k],
         lostReplies'[k] = lostReplies[k], UNCHANGED <<subscribed, big, known>>,
         audit \subseteq audit', runState' = runState \/ runState = "SENDING"
  PROVE  JobInv(k)'
<1>1. Books(k, job[k], copies[k], lostReplies[k])'
  BY DEF JobInv, Books, Reached
<1>2. FirstRecorded => FirstRecorded'
  BY DEF FirstRecorded
<1>3. ResendOK(k, job[k], copies[k])'
  BY <1>2 DEF JobInv, ResendOK, Reached
<1>4. Accounted(k, job[k], copies[k])'
  <2>1. CASE k = First
    BY <2>1 DEF JobInv, Accounted, Keeps, Reached
  <2>2. CASE k \in Resends
    BY <2>2, JobNames DEF JobInv, Accounted, Keeps, Reached
  <2>3. CASE k = Notice
    BY <2>3 DEF Accounted
  <2> QED
    BY <2>1, <2>2, <2>3 DEF Jobs
<1> QED
  BY <1>1, <1>3, <1>4 DEF JobInv

\* Job j moves to entry e; the relay may have taken copies.
LEMMA OneJob ==
  ASSUME DeliveryInv, NEW j \in Jobs, NEW e \in Job, NEW cp \in [Addresses -> Nat], NEW n \in Nat,
         job' = [job EXCEPT ![j] = e], copies' = [copies EXCEPT ![j] = cp],
         lostReplies' = [lostReplies EXCEPT ![j] = n],
         UNCHANGED <<subscribed, runState, big, known>>,
         audit \subseteq audit', audit' \subseteq Record,
         \A rec \in audit' : \/ rec \in audit
                             \/ rec.job = j /\ (rec.outcome = "SUCCESS" /\ rec.count > 0 => Reached(cp)),
         Reached(copies[j]) => Reached(cp),
         Books(j, e, cp, n), ResendOK(j, e, cp)', Accounted(j, e, cp)',
         j \in Resends \/ job[j].pc \notin {"new", "done"}
  PROVE  DeliveryInv'
<1>1. TypeOK /\ RecordsInv
  BY DEF DeliveryInv
<1>2. /\ job'[j] = e /\ copies'[j] = cp /\ lostReplies'[j] = n
      /\ \A k \in Jobs : k # j => /\ job'[k] = job[k] /\ copies'[k] = copies[k]
                                  /\ lostReplies'[k] = lostReplies[k]
  BY <1>1 DEF TypeOK
<1>3. TypeOK'
  <2>1. job' \in [Jobs -> Job] /\ lostReplies' \in [Jobs -> Nat]
    BY <1>1 DEF TypeOK
  <2>2. copies' \in [Jobs -> [Addresses -> Nat]]
    BY <1>1 DEF TypeOK
  <2>3. big' \in BOOLEAN
    BY <1>1 DEF TypeOK
  <2> QED
    BY <1>1, <2>1, <2>2, <2>3 DEF TypeOK
<1>4. ASSUME NEW k \in Jobs
      PROVE  JobInv(k)'
  <2>1. CASE k # j
    BY <1>2, <2>1, OtherJob DEF DeliveryInv
  <2>2. CASE k = j
    <3>1. Books(k, job[k], copies[k], lostReplies[k])'
      BY <1>2, <2>2 DEF Books, Reached
    <3>2. ResendOK(k, job[k], copies[k])'
      BY <1>2, <2>2 DEF ResendOK, Reached
    <3>3. Accounted(k, job[k], copies[k])'
      BY <1>2, <2>2 DEF Accounted, Keeps, Reached
    <3> QED
      BY <3>1, <3>2, <3>3 DEF JobInv
  <2> QED
    BY <2>1, <2>2
<1>5. RecordsInv'
  <2>1. ASSUME NEW rec \in audit', rec.outcome = "SUCCESS", rec.count > 0
        PROVE  Reached(copies[rec.job])'
    <3>1. rec.job \in Jobs
      BY <2>1 DEF Record
    <3>2. CASE rec.job = j
      <4>1. Reached(cp)
        BY <1>1, <2>1, <3>2 DEF RecordsInv
      <4> QED
        BY <1>2, <3>2, <4>1 DEF Reached
    <3>3. CASE rec.job # j
      <4>1. Reached(copies[rec.job])
        BY <1>1, <2>1, <3>3 DEF RecordsInv
      <4> QED
        BY <1>2, <3>1, <3>3, <4>1 DEF Reached
    <3> QED
      BY <3>2, <3>3
  <2>2. runState' \in Resendable => FirstRecorded' /\ job'[First].pc = "done"
    BY <1>1, <1>2, JobNames DEF RecordsInv, FirstRecorded
  <2>3. ASSUME job'[Notice].pc # "new"
        PROVE  /\ job'[First].pc = "done"
               /\ \E rec \in audit' : rec.job = First /\ rec.outcome = "EMAIL_SIZE_EXCEEDED"
    BY <1>1, <1>2, <2>3, JobNames DEF RecordsInv
  <2> QED
    BY <2>1, <2>2, <2>3 DEF RecordsInv
<1> QED
  BY <1>3, <1>4, <1>5 DEF DeliveryInv

-----------------------------------------------------------------------------
(* The mailer.                                                             *)

\* What the entry of a job holds.
LEMMA EntryTyped ==
  ASSUME DeliveryInv, NEW j \in Jobs
  PROVE  /\ job[j] \in Job /\ job[j].pc \in Pc /\ job[j].to \subseteq Addresses
         /\ job[j].attempt \in Nat /\ job[j].outcome \in Outcome
         /\ copies[j] \in [Addresses -> Nat] /\ lostReplies[j] \in Nat
         /\ \A a \in Addresses : copies[j][a] \in Nat
         /\ JobInv(j)
<1>1. job[j] \in Job /\ copies[j] \in [Addresses -> Nat] /\ lostReplies[j] \in Nat
  BY DEF DeliveryInv, TypeOK
<1>2. /\ job[j].pc \in Pc /\ job[j].to \subseteq Addresses
      /\ job[j].attempt \in Nat /\ job[j].outcome \in Outcome
  BY <1>1 DEF Job
<1> QED
  BY <1>1, <1>2 DEF DeliveryInv

\* A step that leaves the relay alone.
LEMMA QuietJob ==
  ASSUME DeliveryInv, NEW j \in Jobs, NEW e \in Job, job' = [job EXCEPT ![j] = e],
         UNCHANGED <<subscribed, runState, big, known, copies, lostReplies>>,
         audit \subseteq audit', audit' \subseteq Record,
         \A rec \in audit' : \/ rec \in audit
                             \/ /\ rec.job = j
                                /\ rec.outcome = "SUCCESS" /\ rec.count > 0 => Reached(copies[j]),
         Books(j, e, copies[j], lostReplies[j]), ResendOK(j, e, copies[j])',
         Accounted(j, e, copies[j])',
         j \in Resends \/ job[j].pc \notin {"new", "done"}
  PROVE  DeliveryInv'
<1>1. copies[j] \in [Addresses -> Nat] /\ lostReplies[j] \in Nat
  BY EntryTyped
<1>2. PICK cp \in [Addresses -> Nat], n \in Nat : cp = copies[j] /\ n = lostReplies[j]
  BY <1>1
<1>3. copies' = [copies EXCEPT ![j] = cp] /\ lostReplies' = [lostReplies EXCEPT ![j] = n]
  BY <1>2 DEF DeliveryInv, TypeOK
<1>4. Books(j, e, cp, n)
  BY <1>2
<1>5. ResendOK(j, e, cp)' /\ Accounted(j, e, cp)'
  BY <1>2 DEF ResendOK, Accounted, Keeps, Reached
<1>6. /\ Reached(copies[j]) => Reached(cp)
      /\ \A rec \in audit' : \/ rec \in audit
                             \/ rec.job = j /\ (rec.outcome = "SUCCESS" /\ rec.count > 0 => Reached(cp))
  BY <1>2
<1> QED
  BY <1>3, <1>4, <1>5, <1>6, OneJob

\* The copies of an attempt that the relay accepted.
LEMMA AcceptedCopies ==
  ASSUME DeliveryInv, NEW j \in Jobs, Accepted(j)
  PROVE  \E cp \in [Addresses -> Nat] :
           /\ copies' = [copies EXCEPT ![j] = cp] /\ Reached(cp)
           /\ \A a \in Addresses :
                \/ cp[a] = copies[j][a]
                \/ cp[a] = copies[j][a] + 1 /\ (a = Sender \/ a \in job[j].to)
<1>1. PICK some \in (SUBSET Envelope(j)) \ {{}} :
        copies' = [copies EXCEPT ![j] =
                     [a \in Addresses |-> IF a \in some THEN copies[j][a] + 1 ELSE copies[j][a]]]
  BY DEF Accepted
<1>2. copies[j] \in [Addresses -> Nat] /\ job[j].to \subseteq Addresses
  BY EntryTyped
<1>3. PICK cp \in [Addresses -> Nat] :
        cp = [a \in Addresses |-> IF a \in some THEN copies[j][a] + 1 ELSE copies[j][a]]
  <2>1. \A a \in Addresses : (IF a \in some THEN copies[j][a] + 1 ELSE copies[j][a]) \in Nat
    BY <1>2
  <2>2. [a \in Addresses |-> IF a \in some THEN copies[j][a] + 1 ELSE copies[j][a]]
          \in [Addresses -> Nat]
    BY <2>1
  <2> QED
    BY <2>2
<1>4. some # {} /\ \A a \in some : a \in Addresses /\ (a = Sender \/ a \in job[j].to)
  BY <1>2 DEF Envelope, Addresses
<1>5. \A a \in Addresses : cp[a] = IF a \in some THEN copies[j][a] + 1 ELSE copies[j][a]
  BY <1>3
<1>6. Reached(cp)
  BY <1>2, <1>4, <1>5 DEF Reached
<1> QED
  BY <1>1, <1>3, <1>4, <1>5, <1>6

\* After an attempt the books are right, whatever it came to: job j goes to
\* entry e with the copies it was left with.
LEMMA AttemptBooks ==
  ASSUME DeliveryInv, NEW j \in Jobs, job[j].pc = "send", NEW e \in Job, NEW n \in Nat,
         NEW cp \in [Addresses -> Nat],
         e.to = job[j].to,
         \/ e.pc = "settle" /\ e.outcome # "none"
         \/ /\ e.pc = "send" /\ e.outcome = "none" /\ job[j].attempt <= MaxRetries
            /\ e.attempt = job[j].attempt + 1,
         e.outcome = "SUCCESS" => Reached(cp) /\ n = lostReplies[j],
         n = lostReplies[j] \/ n = lostReplies[j] + 1,
         \A a \in Addresses :
           \/ cp[a] = copies[j][a]
           \/ /\ cp[a] = copies[j][a] + 1 /\ (a = Sender \/ a \in job[j].to)
              /\ e.outcome = "SUCCESS" \/ n = lostReplies[j] + 1
  PROVE  Books(j, e, cp, n)
<1>1. /\ job[j].to # {} /\ job[j].outcome = "none" /\ lostReplies[j] < job[j].attempt
      /\ job[j].attempt >= 1 /\ job[j].attempt <= MaxRetries + 1 /\ (j = Notice \/ ~big)
      /\ \A a \in Addresses : /\ copies[j][a] <= lostReplies[j]
                              /\ copies[j][a] > 0 => a = Sender \/ a \in job[j].to
  <2>1. Books(j, job[j], copies[j], lostReplies[j])
    BY EntryTyped DEF JobInv
  <2>2. job[j].outcome = "none"
    BY <2>1 DEF Books
  <2> QED
    BY <2>1, <2>2, EntryTyped DEF Books
<1>2. /\ job[j].attempt \in Nat /\ lostReplies[j] \in Nat /\ e.attempt \in Nat
      /\ \A a \in Addresses : copies[j][a] \in Nat /\ cp[a] \in Nat
  BY EntryTyped DEF Job
<1>3. MaxRetries \in Nat
  BY MaxRetriesAssumption
<1>4. ASSUME NEW a \in Addresses
      PROVE  /\ cp[a] <= n + IF e.outcome = "SUCCESS" THEN 1 ELSE 0
             /\ cp[a] <= MaxRetries + 1
             /\ cp[a] > 0 => (j = Notice \/ ~big) /\ (a = Sender \/ a \in e.to)
  <2>1. copies[j][a] <= lostReplies[j] /\ (copies[j][a] > 0 => a = Sender \/ a \in job[j].to)
    BY <1>1
  <2>2. /\ cp[a] <= n + IF e.outcome = "SUCCESS" THEN 1 ELSE 0
        /\ cp[a] <= MaxRetries + 1
    <3>1. cp[a] \in Nat /\ copies[j][a] \in Nat
      BY <1>2
    <3>2. CASE cp[a] = copies[j][a]
      BY <1>1, <1>2, <1>3, <2>1, <3>1, <3>2
    <3>3. CASE cp[a] = copies[j][a] + 1 /\ e.outcome = "SUCCESS"
      BY <1>1, <1>2, <1>3, <2>1, <3>1, <3>3
    <3>4. CASE cp[a] = copies[j][a] + 1 /\ n = lostReplies[j] + 1
      BY <1>1, <1>2, <1>3, <2>1, <3>1, <3>4
    <3> QED
      BY <3>2, <3>3, <3>4
  <2> QED
    BY <1>1, <1>2, <2>1, <2>2
<1>5. e.pc \notin Early
  BY DEF Early
<1>6. e.pc = "send" => /\ e.attempt >= 1 /\ e.attempt <= MaxRetries + 1 /\ n < e.attempt
                       /\ e.outcome = "none"
  BY <1>1, <1>2, <1>3
<1> QED
  BY <1>1, <1>4, <1>5, <1>6 DEF Books

\* How send() leaves the entry of its job.
LEMMA EndedEntry ==
  ASSUME DeliveryInv, NEW j \in Jobs, NEW outcome \in Outcome, Ended(j, outcome)
  PROVE  \E e \in Job : /\ job' = [job EXCEPT ![j] = e]
                        /\ e.pc = "settle" /\ e.outcome = outcome
                        /\ e.to = job[j].to /\ e.attempt = job[j].attempt
<1>1. job \in [Jobs -> Job] /\ job[j] \in Job
  BY DEF DeliveryInv, TypeOK
<1>2. PICK e \in Job : e = [job[j] EXCEPT !.pc = "settle", !.outcome = outcome]
  BY <1>1 DEF Job, Pc
<1>3. job' = [job EXCEPT ![j] = e]
  BY <1>1, <1>2 DEF Ended
<1>4. /\ e.pc = "settle" /\ e.outcome = outcome
      /\ e.to = job[j].to /\ e.attempt = job[j].attempt
  BY <1>1, <1>2 DEF Job
<1> QED
  BY <1>3, <1>4

LEMMA RaisedEntry ==
  ASSUME DeliveryInv, NEW j \in Jobs, NEW f, Raised(j, f), job[j].pc = "send"
  PROVE  \E e \in Job :
           /\ job' = [job EXCEPT ![j] = e] /\ e.to = job[j].to
           /\ \/ e.pc = "settle" /\ e.outcome \in {"PERMANENT_SMTP_FAILURE", "RETRIES_EXHAUSTED"}
              \/ /\ e.pc = "send" /\ e.outcome = "none" /\ job[j].attempt <= MaxRetries
                 /\ e.attempt = job[j].attempt + 1
<1>1. /\ job \in [Jobs -> Job] /\ job[j] \in Job /\ job[j].attempt \in Nat
      /\ job[j].outcome = "none"
  <2>1. Books(j, job[j], copies[j], lostReplies[j])
    BY EntryTyped DEF JobInv
  <2> QED
    BY <2>1, EntryTyped DEF DeliveryInv, TypeOK, Books
<1>2. CASE \E outcome \in {"PERMANENT_SMTP_FAILURE", "RETRIES_EXHAUSTED"} : Ended(j, outcome)
  BY <1>2, EndedEntry DEF Outcome, Reason
<1>3. CASE /\ ~(job[j].attempt > MaxRetries)
           /\ job' = [job EXCEPT ![j].attempt = @ + 1]
  <2>1. PICK m \in Nat : m = job[j].attempt + 1
    BY <1>1
  <2>2. [job[j] EXCEPT !.attempt = m] \in Job
    BY <1>1 DEF Job
  <2>3. PICK e \in Job : e = [job[j] EXCEPT !.attempt = m]
    BY <2>2
  <2>4. job' = [job EXCEPT ![j] = e]
    BY <1>3, <2>1, <2>3
  <2>5. e.pc = "send" /\ e.outcome = "none" /\ e.to = job[j].to /\ e.attempt = m
    BY <1>1, <2>3 DEF Job
  <2>6. job[j].attempt <= MaxRetries
    BY <1>1, <1>3, MaxRetriesAssumption
  <2> QED
    BY <2>1, <2>4, <2>5, <2>6
<1> QED
  BY <1>2, <1>3 DEF Raised

\* An attempt keeps the books of its job and touches no other.
LEMMA SendStep ==
  ASSUME DeliveryInv, NEW j \in Jobs, Send(j)
  PROVE  DeliveryInv'
<1>1. /\ job[j].pc = "send" /\ UNCHANGED <<subscribed, runState, big, audit, known>>
      /\ copies \in [Jobs -> [Addresses -> Nat]] /\ lostReplies \in [Jobs -> Nat]
  BY DEF Send, AttemptSucceeds, AttemptUnanswered, AttemptFails, DeliveryInv, TypeOK
<1>2. ASSUME NEW e \in Job, e.to = job[j].to, e.pc \in {"send", "settle"},
             NEW cp \in [Addresses -> Nat]
      PROVE  ResendOK(j, e, cp)' /\ Accounted(j, e, cp)'
  <2>1. ResendOK(j, job[j], copies[j])
    BY EntryTyped DEF JobInv
  <2>2. ResendOK(j, e, cp)'
    BY <1>1, <1>2, <2>1 DEF ResendOK, FirstRecorded
  <2> QED
    BY <1>2, <2>2 DEF Accounted
<1>3. audit \subseteq audit' /\ audit' \subseteq Record /\ \A rec \in audit' : rec \in audit
  BY <1>1 DEF DeliveryInv, TypeOK
<1>4. ASSUME NEW e \in Job, NEW cp \in [Addresses -> Nat], NEW n \in Nat,
             job' = [job EXCEPT ![j] = e], copies' = [copies EXCEPT ![j] = cp],
             lostReplies' = [lostReplies EXCEPT ![j] = n],
             Reached(copies[j]) => Reached(cp),
             Books(j, e, cp, n), e.to = job[j].to, e.pc \in {"send", "settle"}
      PROVE  DeliveryInv'
  BY <1>1, <1>2, <1>3, <1>4, OneJob
<1>5. CASE AttemptSucceeds(j)
  <2>1. PICK e \in Job : /\ job' = [job EXCEPT ![j] = e]
                         /\ e.pc = "settle" /\ e.outcome = "SUCCESS" /\ e.to = job[j].to
    BY <1>5, EndedEntry DEF AttemptSucceeds, Outcome
  <2>2. PICK cp \in [Addresses -> Nat] :
          /\ copies' = [copies EXCEPT ![j] = cp] /\ Reached(cp)
          /\ \A a \in Addresses :
               \/ cp[a] = copies[j][a]
               \/ cp[a] = copies[j][a] + 1 /\ (a = Sender \/ a \in job[j].to)
    BY <1>5, AcceptedCopies DEF AttemptSucceeds
  <2>3. PICK n \in Nat : n = lostReplies[j]
    BY EntryTyped
  <2>4. lostReplies' = [lostReplies EXCEPT ![j] = n]
    BY <1>1, <1>5, <2>3 DEF AttemptSucceeds
  <2>5. Books(j, e, cp, n)
    BY <1>1, <2>1, <2>2, <2>3, AttemptBooks
  <2> QED
    BY <1>4, <2>1, <2>2, <2>4, <2>5
<1>6. CASE AttemptUnanswered(j)
  <2>1. PICK e \in Job :
          /\ job' = [job EXCEPT ![j] = e] /\ e.to = job[j].to
          /\ \/ e.pc = "settle" /\ e.outcome \in {"PERMANENT_SMTP_FAILURE", "RETRIES_EXHAUSTED"}
             \/ /\ e.pc = "send" /\ e.outcome = "none" /\ job[j].attempt <= MaxRetries
                /\ e.attempt = job[j].attempt + 1
    BY <1>1, <1>6, RaisedEntry DEF AttemptUnanswered
  <2>2. PICK cp \in [Addresses -> Nat] :
          /\ copies' = [copies EXCEPT ![j] = cp] /\ Reached(cp)
          /\ \A a \in Addresses :
               \/ cp[a] = copies[j][a]
               \/ cp[a] = copies[j][a] + 1 /\ (a = Sender \/ a \in job[j].to)
    BY <1>6, AcceptedCopies DEF AttemptUnanswered
  <2>3. PICK n \in Nat : n = lostReplies[j] + 1
    BY EntryTyped
  <2>4. lostReplies' = [lostReplies EXCEPT ![j] = n]
    BY <1>1, <1>6, <2>3 DEF AttemptUnanswered
  <2>5. e.outcome # "SUCCESS"
    BY <2>1
  <2>6. Books(j, e, cp, n)
    BY <1>1, <2>1, <2>2, <2>3, <2>5, AttemptBooks
  <2> QED
    BY <1>4, <2>1, <2>2, <2>4, <2>6
<1>7. CASE AttemptFails(j)
  <2>1. PICK e \in Job :
          /\ job' = [job EXCEPT ![j] = e] /\ e.to = job[j].to
          /\ \/ e.pc = "settle" /\ e.outcome \in {"PERMANENT_SMTP_FAILURE", "RETRIES_EXHAUSTED"}
             \/ /\ e.pc = "send" /\ e.outcome = "none" /\ job[j].attempt <= MaxRetries
                /\ e.attempt = job[j].attempt + 1
    BY <1>1, <1>7, RaisedEntry DEF AttemptFails
  <2>2. PICK cp \in [Addresses -> Nat], n \in Nat : cp = copies[j] /\ n = lostReplies[j]
    BY EntryTyped
  <2>3. copies' = [copies EXCEPT ![j] = cp] /\ lostReplies' = [lostReplies EXCEPT ![j] = n]
    BY <1>1, <1>7, <2>2 DEF AttemptFails
  <2>4. e.outcome # "SUCCESS" /\ (Reached(copies[j]) => Reached(cp))
        /\ \A a \in Addresses : cp[a] = copies[j][a]
    BY <2>1, <2>2
  <2>5. Books(j, e, cp, n)
    BY <1>1, <2>1, <2>2, <2>4, AttemptBooks
  <2> QED
    BY <1>4, <2>1, <2>3, <2>4, <2>5
<1> QED
  BY <1>5, <1>6, <1>7 DEF Send

-----------------------------------------------------------------------------
(* The other steps of a job.                                               *)

\* A job that only changes its place.
LEMMA Moved ==
  ASSUME DeliveryInv, NEW j \in Jobs, NEW p \in Pc
  PROVE  \E e \in Job : /\ e = [job[j] EXCEPT !.pc = p] /\ e.pc = p /\ e.to = job[j].to
                        /\ e.attempt = job[j].attempt /\ e.outcome = job[j].outcome
<1>1. job[j] \in Job
  BY EntryTyped
<1>2. [job[j] EXCEPT !.pc = p] \in Job
  BY <1>1 DEF Job
<1>3. PICK e \in Job : e = [job[j] EXCEPT !.pc = p]
  BY <1>2
<1>4. e.pc = p /\ e.to = job[j].to /\ e.attempt = job[j].attempt /\ e.outcome = job[j].outcome
  BY <1>1, <1>3 DEF Job
<1> QED
  BY <1>3, <1>4

LEMMA Placed ==
  ASSUME DeliveryInv, NEW j \in Jobs, NEW p \in Pc, job' = [job EXCEPT ![j].pc = p]
  PROVE  \E e \in Job : /\ job' = [job EXCEPT ![j] = e] /\ e.pc = p /\ e.to = job[j].to
                        /\ e.attempt = job[j].attempt /\ e.outcome = job[j].outcome
<1>1. PICK e \in Job : /\ e = [job[j] EXCEPT !.pc = p] /\ e.pc = p /\ e.to = job[j].to
                       /\ e.attempt = job[j].attempt /\ e.outcome = job[j].outcome
  BY Moved
<1>2. job' = [job EXCEPT ![j] = e]
  BY <1>1
<1> QED
  BY <1>1, <1>2

\* A job that has not come to its send has written to nobody.
LEMMA EarlyBooks ==
  ASSUME DeliveryInv, NEW j \in Jobs, job[j].pc \in Early
  PROVE  /\ job[j].to = {} /\ job[j].outcome = "none" /\ lostReplies[j] = 0
         /\ \A a \in Addresses : copies[j][a] = 0
         /\ ~Reached(copies[j])
<1>1. Books(j, job[j], copies[j], lostReplies[j])
  BY EntryTyped DEF JobInv
<1> QED
  BY <1>1 DEF Books, Reached

\* The books of a job from its start to the end of its send.
LEMMA QuietBooks ==
  ASSUME DeliveryInv, NEW j \in Jobs, NEW e \in Job,
         \/ /\ job[j].pc \in Early
            /\ \/ e.pc \in Early \union {"done", "lost", "settle"} /\ e.to = {}
                    /\ (e.outcome = "none" \/ e.pc = "settle")
               \/ e.pc = "settle" /\ e.outcome \notin {"none", "SUCCESS"}
               \/ /\ e.pc = "send" /\ e.to # {} /\ e.outcome = "none" /\ e.attempt = 1
                  /\ (j = Notice \/ ~big)
         \/ e.pc \in {"done", "lost"} /\ e.to = job[j].to /\ e.outcome = job[j].outcome,
         e.pc \in Early => e.outcome = "none"
  PROVE  Books(j, e, copies[j], lostReplies[j])
<1>1. Books(j, job[j], copies[j], lostReplies[j])
  BY EntryTyped DEF JobInv
<1>2. e.attempt \in Nat /\ MaxRetries \in Nat
  BY MaxRetriesAssumption DEF Job
<1>3. CASE job[j].pc \in Early
  <2>1. lostReplies[j] = 0 /\ \A a \in Addresses : copies[j][a] = 0
    BY <1>3, EarlyBooks
  <2>2. \A a \in Addresses :
          /\ copies[j][a] <= lostReplies[j] + IF e.outcome = "SUCCESS" THEN 1 ELSE 0
          /\ copies[j][a] <= MaxRetries + 1
          /\ ~(copies[j][a] > 0)
    BY <1>2, <2>1
  <2>3. CASE e.pc \in {"done", "lost"} /\ e.to = job[j].to /\ e.outcome = job[j].outcome
    BY <1>1, <2>1, <2>2, <2>3 DEF Books, Early
  <2>4. CASE \/ e.pc \in Early \union {"done", "lost", "settle"} /\ e.to = {}
                  /\ (e.outcome = "none" \/ e.pc = "settle")
             \/ e.pc = "settle" /\ e.outcome \notin {"none", "SUCCESS"}
    BY <2>1, <2>2, <2>4 DEF Books, Early
  <2>5. CASE /\ e.pc = "send" /\ e.to # {} /\ e.outcome = "none" /\ e.attempt = 1
             /\ (j = Notice \/ ~big)
    <3>1. e.attempt >= 1 /\ e.attempt <= MaxRetries + 1 /\ lostReplies[j] < e.attempt
      BY <1>2, <2>1, <2>5
    <3> QED
      BY <2>1, <2>2, <2>5, <3>1 DEF Books, Early
  <2> QED
    BY <2>3, <2>4, <2>5
<1>4. CASE job[j].pc \notin Early
  BY <1>1, <1>4 DEF Books, Early
<1> QED
  BY <1>3, <1>4

\* A step of job j that leaves everything else alone, up to its settling.
LEMMA QuietStep ==
  ASSUME DeliveryInv, NEW j \in Jobs, NEW e \in Job, job' = [job EXCEPT ![j] = e],
         UNCHANGED <<subscribed, runState, big, audit, copies, lostReplies, known>>,
         Books(j, e, copies[j], lostReplies[j]),
         j \in Resends \/ job[j].pc \notin {"new", "done"},
         e.to \subseteq job[j].to \union subscribed,
         job[j].pc \notin {"new", "done", "lost"},
         e.pc \in {"render", "resolve", "send", "settle"} /\ j \in Resends =>
           FirstRecorded,
         e.pc = "done" => j = Notice \/ (j # First /\ ~Reached(copies[j]))
  PROVE  DeliveryInv'
<1>1. ResendOK(j, job[j], copies[j])
  BY EntryTyped DEF JobInv
<1>2. ResendOK(j, e, copies[j])'
  BY <1>1 DEF ResendOK, FirstRecorded, Reached
<1>3. Accounted(j, e, copies[j])'
  BY DEF Accounted, Reached
<1>4. audit' \subseteq Record /\ audit \subseteq audit' /\ \A rec \in audit' : rec \in audit
  BY DEF DeliveryInv, TypeOK
<1> QED
  BY <1>2, <1>3, <1>4, QuietJob

LEMMA ResendArrivesStep ==
  ASSUME DeliveryInv, NEW j \in Jobs, ResendArrives(j)
  PROVE  DeliveryInv'
<1>1. /\ j \in Resends /\ job[j].pc = "new" /\ job' = [job EXCEPT ![j].pc = "check"]
      /\ known' = [known EXCEPT ![j] = subscribed]
      /\ UNCHANGED <<subscribed, runState, big, audit, copies, lostReplies>>
  BY DEF ResendArrives
<1>2. PICK e \in Job : /\ job' = [job EXCEPT ![j] = e] /\ e.pc = "check"
                       /\ e.to = job[j].to /\ e.outcome = job[j].outcome
  BY <1>1, Placed DEF Pc
<1>3. TypeOK /\ RecordsInv
  BY DEF DeliveryInv
<1>4. /\ job'[j] = e /\ known'[j] = subscribed
      /\ \A k \in Jobs : k # j => job'[k] = job[k]
      /\ \A k \in Resends : k # j => known'[k] = known[k]
  BY <1>1, <1>2, <1>3 DEF TypeOK
<1>5. TypeOK'
  <2>1. job' \in [Jobs -> Job] /\ known' \in [Resends -> SUBSET Subscribers]
    BY <1>1, <1>2, <1>3 DEF TypeOK
  <2>2. big' \in BOOLEAN
    BY <1>1, <1>3 DEF TypeOK
  <2> QED
    BY <1>1, <1>3, <2>1, <2>2 DEF TypeOK
<1>6. e.to = {} /\ e.outcome = "none"
  BY <1>1, <1>2, EarlyBooks DEF Early
<1>7. ASSUME NEW k \in Jobs
      PROVE  JobInv(k)'
  <2>1. CASE k = j
    <3>1. ~Reached(copies[j]) /\ lostReplies[j] = 0 /\ \A a \in Addresses : copies[j][a] = 0
      BY <1>1, EarlyBooks DEF Early
    <3>2. Books(j, e, copies[j], lostReplies[j])
      BY <1>1, <1>2, <1>6, QuietBooks DEF Early
    <3>3. Books(k, job[k], copies[k], lostReplies[k])'
      BY <1>1, <1>4, <2>1, <3>2 DEF Books, Reached
    <3>4. ResendOK(k, job[k], copies[k])'
      BY <1>1, <1>2, <1>4, <1>6, <2>1, <3>1 DEF ResendOK, Reached
    <3>5. Accounted(k, job[k], copies[k])'
      BY <1>2, <1>4, <2>1 DEF Accounted
    <3> QED
      BY <3>3, <3>4, <3>5 DEF JobInv
  <2>2. CASE k # j
    <3>1. /\ Books(k, job[k], copies[k], lostReplies[k])
          /\ ResendOK(k, job[k], copies[k]) /\ Accounted(k, job[k], copies[k])
      BY DEF DeliveryInv, JobInv
    <3>2. Books(k, job[k], copies[k], lostReplies[k])'
      BY <1>1, <1>4, <2>2, <3>1 DEF Books, Reached
    <3>3. ResendOK(k, job[k], copies[k])'
      BY <1>1, <1>4, <2>2, <3>1 DEF ResendOK, Reached, FirstRecorded
    <3>4. Accounted(k, job[k], copies[k])'
      BY <1>1, <1>4, <2>2, <3>1 DEF Accounted, Keeps, Reached
    <3> QED
      BY <3>2, <3>3, <3>4 DEF JobInv
  <2> QED
    BY <2>1, <2>2
<1>8. RecordsInv'
  <2>1. job'[First] = job[First] /\ job'[Notice] = job[Notice]
    BY <1>1, <1>4, JobNames
  <2>2. ASSUME NEW rec \in audit', rec.outcome = "SUCCESS", rec.count > 0
        PROVE  Reached(copies[rec.job])'
    BY <1>1, <1>3, <2>2 DEF RecordsInv, Reached
  <2>3. runState' \in Resendable => FirstRecorded' /\ job'[First].pc = "done"
    BY <1>1, <1>3, <2>1 DEF RecordsInv, FirstRecorded
  <2>4. ASSUME job'[Notice].pc # "new"
        PROVE  /\ job'[First].pc = "done"
               /\ \E rec \in audit' : rec.job = First /\ rec.outcome = "EMAIL_SIZE_EXCEEDED"
    <3>1. /\ job[First].pc = "done"
          /\ \E rec \in audit : rec.job = First /\ rec.outcome = "EMAIL_SIZE_EXCEEDED"
      BY <1>3, <2>1, <2>4 DEF RecordsInv
    <3>2. audit' = audit
      BY <1>1
    <3> QED
      BY <2>1, <3>1, <3>2
  <2> QED
    BY <2>2, <2>3, <2>4 DEF RecordsInv
<1> QED
  BY <1>5, <1>7, <1>8 DEF DeliveryInv

\* What a resend under way may rely on.
LEMMA ResendFacts ==
  ASSUME DeliveryInv, NEW j \in Resends
  PROVE  /\ j \in Jobs /\ j # First /\ j # Notice /\ job[j].to \subseteq known[j]
         /\ job[j].pc \notin {"new", "done", "lost"} => subscribed \subseteq known[j]
         /\ job[j].pc \in {"render", "resolve", "send", "settle"} => FirstRecorded
         /\ Reached(copies[j]) => FirstRecorded
<1>1. j \in Jobs /\ j # First /\ j # Notice
  BY JobNames DEF Jobs
<1>2. ResendOK(j, job[j], copies[j])
  BY <1>1, EntryTyped DEF JobInv
<1> QED
  BY <1>1, <1>2 DEF ResendOK

LEMMA CheckStateStep ==
  ASSUME DeliveryInv, NEW j \in Jobs, CheckState(j)
  PROVE  DeliveryInv'
<1>1. /\ j \in Resends /\ job[j].pc = "check"
      /\ UNCHANGED <<subscribed, runState, big, audit, copies, lostReplies, known>>
  BY DEF CheckState
<1>2. PICK p \in {"render", "done"} : /\ job' = [job EXCEPT ![j].pc = p]
                                      /\ p = "render" => runState \in Resendable
  BY DEF CheckState
<1>3. PICK e \in Job : /\ job' = [job EXCEPT ![j] = e] /\ e.pc = p
                       /\ e.to = job[j].to /\ e.outcome = job[j].outcome
  <2>1. p \in Pc
    BY DEF Pc
  <2>2. PICK e \in Job : /\ e = [job[j] EXCEPT !.pc = p] /\ e.pc = p
                         /\ e.to = job[j].to /\ e.outcome = job[j].outcome
    BY <2>1, Moved
  <2>3. job' = [job EXCEPT ![j] = e]
    BY <1>2, <2>2
  <2> QED
    BY <2>2, <2>3
<1>4. job[j].to = {} /\ job[j].outcome = "none" /\ ~Reached(copies[j]) /\ job[j].pc \in Early
  BY <1>1, EarlyBooks DEF Early
<1>5. Books(j, e, copies[j], lostReplies[j])
  BY <1>2, <1>3, <1>4, QuietBooks DEF Early
<1>6. e.pc \in {"render", "resolve", "send", "settle"} => FirstRecorded
  BY <1>2, <1>3 DEF DeliveryInv, RecordsInv
<1>7. j # First
  BY <1>1, JobNames
<1> QED
  BY <1>1, <1>3, <1>4, <1>5, <1>6, <1>7, QuietStep

LEMMA RenderStep ==
  ASSUME DeliveryInv, NEW j \in Jobs, Render(j)
  PROVE  DeliveryInv'
<1>1. /\ job[j].pc = "render"
      /\ UNCHANGED <<subscribed, runState, big, audit, copies, lostReplies, known>>
  BY DEF Render
<1>2. job[j].to = {} /\ job[j].outcome = "none" /\ job[j].pc \in Early
  BY <1>1, EarlyBooks DEF Early
<1>3. PICK e \in Job : /\ job' = [job EXCEPT ![j] = e] /\ e.to = job[j].to
                       /\ \/ e.pc = "resolve" /\ e.outcome = "none"
                          \/ e.pc = "settle" /\ e.outcome = "TEMPLATE_RENDER"
  <2>1. CASE job' = [job EXCEPT ![j].pc = "resolve"]
    <3>1. "resolve" \in Pc
      BY DEF Pc
    <3>2. PICK e \in Job : /\ job' = [job EXCEPT ![j] = e] /\ e.pc = "resolve"
                           /\ e.to = job[j].to /\ e.outcome = job[j].outcome
      <4>1. PICK e \in Job : /\ e = [job[j] EXCEPT !.pc = "resolve"] /\ e.pc = "resolve"
                             /\ e.to = job[j].to /\ e.outcome = job[j].outcome
        BY <3>1, Moved
      <4>2. job' = [job EXCEPT ![j] = e]
        BY <2>1, <4>1
      <4> QED
        BY <4>1, <4>2
    <3> QED
      BY <1>2, <3>2
  <2>2. CASE Ended(j, "TEMPLATE_RENDER")
    BY <2>2, EndedEntry DEF Outcome, Reason
  <2> QED
    BY <2>1, <2>2 DEF Render
<1>4. Books(j, e, copies[j], lostReplies[j])
  BY <1>2, <1>3, QuietBooks DEF Early
<1>5. j \in Resends => FirstRecorded
  BY <1>1, ResendFacts
<1>6. /\ e.to \subseteq job[j].to \union subscribed /\ e.pc # "done"
      /\ job[j].pc \notin {"new", "done", "lost"}
  BY <1>1, <1>3
<1> QED
  BY <1>1, <1>3, <1>4, <1>5, <1>6, QuietStep

LEMMA ResolveStep ==
  ASSUME DeliveryInv, NEW j \in Jobs, ResolveRecipients(j)
  PROVE  DeliveryInv'
<1>1. /\ job[j].pc = "resolve" /\ Submit(j, subscribed)
      /\ UNCHANGED <<subscribed, runState, big, audit, copies, lostReplies, known>>
  BY DEF ResolveRecipients
<1>2. job[j].to = {} /\ job[j].outcome = "none" /\ job[j].pc \in Early
  BY <1>1, EarlyBooks DEF Early
<1>3. job[j] \in Job /\ subscribed \in SUBSET Addresses
  BY EntryTyped DEF DeliveryInv, TypeOK, Addresses
<1>4. PICK e \in Job :
        /\ job' = [job EXCEPT ![j] = e] /\ e.to = subscribed
        /\ \/ e.pc = "settle" /\ e.outcome = "SUCCESS" /\ subscribed = {}
           \/ e.pc = "settle" /\ e.outcome = "EMAIL_SIZE_EXCEEDED"
           \/ e.pc = "send" /\ e.outcome = "none" /\ e.attempt = 1 /\ subscribed # {} /\ ~big
  <2>1. CASE subscribed = {}
    <3>1. Ended(j, "SUCCESS")
      BY <1>1, <2>1 DEF Submit, Ended
    <3> QED
      BY <1>2, <2>1, <3>1, EndedEntry DEF Outcome
  <2>2. CASE subscribed # {} /\ big
    <3>1. job' = [job EXCEPT ![j] = [job[j] EXCEPT !.pc = "settle", !.to = subscribed,
                                                   !.outcome = "EMAIL_SIZE_EXCEEDED"]]
      BY <1>1, <1>3, <2>2 DEF Submit, DeliveryInv, TypeOK
    <3>2. [job[j] EXCEPT !.pc = "settle", !.to = subscribed,
                         !.outcome = "EMAIL_SIZE_EXCEEDED"] \in Job
      BY <1>3 DEF Job, Pc, Outcome, Reason
    <3>3. PICK e \in Job : e = [job[j] EXCEPT !.pc = "settle", !.to = subscribed,
                                              !.outcome = "EMAIL_SIZE_EXCEEDED"]
      BY <3>2
    <3>4. e.pc = "settle" /\ e.to = subscribed /\ e.outcome = "EMAIL_SIZE_EXCEEDED"
      BY <1>3, <3>3 DEF Job
    <3> QED
      BY <3>1, <3>3, <3>4
  <2>3. CASE subscribed # {} /\ ~big
    <3>1. job' = [job EXCEPT ![j] = [job[j] EXCEPT !.pc = "send", !.to = subscribed,
                                                   !.attempt = 1]]
      BY <1>1, <1>3, <2>3 DEF Submit, DeliveryInv, TypeOK
    <3>2. [job[j] EXCEPT !.pc = "send", !.to = subscribed, !.attempt = 1] \in Job
      BY <1>3 DEF Job, Pc
    <3>3. PICK e \in Job : e = [job[j] EXCEPT !.pc = "send", !.to = subscribed, !.attempt = 1]
      BY <3>2
    <3>4. e.pc = "send" /\ e.to = subscribed /\ e.attempt = 1 /\ e.outcome = "none"
      BY <1>2, <1>3, <3>3 DEF Job
    <3> QED
      BY <2>3, <3>1, <3>3, <3>4
  <2> QED
    BY <2>1, <2>2, <2>3
<1>5. Books(j, e, copies[j], lostReplies[j])
  BY <1>2, <1>4, QuietBooks DEF Early
<1>6. j \in Resends => FirstRecorded
  BY <1>1, ResendFacts
<1>7. /\ e.to \subseteq job[j].to \union subscribed /\ e.pc # "done"
      /\ job[j].pc \notin {"new", "done", "lost"}
  BY <1>1, <1>4
<1> QED
  BY <1>1, <1>4, <1>5, <1>6, <1>7, QuietStep

LEMMA DiesStep ==
  ASSUME DeliveryInv, NEW j \in Jobs, Dies(j) \/ (j = Notice /\ SettleNotice)
  PROVE  DeliveryInv'
<1>1. /\ job[j].pc \notin {"new", "done", "lost"}
      /\ UNCHANGED <<subscribed, runState, big, audit, copies, lostReplies, known>>
  BY DEF Dies, Running, SettleNotice
<1>2. PICK p \in {"done", "lost"} : job' = [job EXCEPT ![j].pc = p] /\ (p = "done" => j = Notice)
  BY DEF Dies, SettleNotice
<1>3. PICK e \in Job : /\ job' = [job EXCEPT ![j] = e] /\ e.pc = p
                       /\ e.to = job[j].to /\ e.outcome = job[j].outcome
  <2>1. p \in Pc
    BY DEF Pc
  <2>2. PICK e \in Job : /\ e = [job[j] EXCEPT !.pc = p] /\ e.pc = p
                         /\ e.to = job[j].to /\ e.outcome = job[j].outcome
    BY <2>1, Moved
  <2>3. job' = [job EXCEPT ![j] = e]
    BY <1>2, <2>2
  <2> QED
    BY <2>2, <2>3
<1>4. Books(j, e, copies[j], lostReplies[j])
  BY <1>2, <1>3, QuietBooks DEF Early
<1>5. e.pc \notin {"render", "resolve", "send", "settle"}
  BY <1>2, <1>3
<1> QED
  BY <1>1, <1>2, <1>3, <1>4, <1>5, QuietStep

-----------------------------------------------------------------------------
(* Settling.                                                               *)

\* The record of a job that settles.
LEMMA SettleRecord ==
  ASSUME DeliveryInv, NEW j \in Jobs, NEW addresses \in SUBSET Addresses,
         audit' = Audited(j, addresses)
  PROVE  \E rec \in Record :
           /\ rec.job = j /\ rec.to = addresses /\ rec.count = Cardinality(job[j].to)
           /\ rec.outcome = job[j].outcome
           /\ audit' = audit \union {rec} /\ audit \subseteq audit' /\ audit' \subseteq Record
           /\ rec.outcome = "SUCCESS" /\ rec.count > 0 => Reached(copies[j])
<1>1. /\ job[j].to \subseteq Addresses /\ job[j].outcome \in Outcome
      /\ Books(j, job[j], copies[j], lostReplies[j])
  BY EntryTyped DEF JobInv
<1>2. IsFiniteSet(job[j].to) /\ Cardinality(job[j].to) \in Nat
  BY <1>1, AddressesAssumption, FS_Subset, FS_CardinalityType
<1>3. PICK rec \in Record :
        rec = [job |-> j, to |-> addresses, count |-> Cardinality(job[j].to),
               outcome |-> job[j].outcome]
  BY <1>1, <1>2 DEF Record
<1>4. /\ rec.job = j /\ rec.to = addresses /\ rec.count = Cardinality(job[j].to)
      /\ rec.outcome = job[j].outcome
  BY <1>3
<1>5. rec.count > 0 => job[j].to # {}
  BY <1>2, <1>4, FS_EmptySet
<1>6. rec.outcome = "SUCCESS" /\ rec.count > 0 => Reached(copies[j])
  BY <1>1, <1>4, <1>5 DEF Books
<1>7. audit' = audit \union {rec} /\ audit \subseteq Record
  BY <1>3 DEF Audited, DeliveryInv, TypeOK
<1> QED
  BY <1>4, <1>6, <1>7

LEMMA SettleResendStep ==
  ASSUME DeliveryInv, NEW j \in Jobs, SettleResend(j)
  PROVE  DeliveryInv'
<1>1. /\ j \in Resends /\ job[j].pc = "settle" /\ audit' = Audited(j, job[j].to)
      /\ job' = [job EXCEPT ![j].pc = "done"]
      /\ UNCHANGED <<subscribed, runState, big, copies, lostReplies, known>>
  BY DEF SettleResend
<1>2. PICK e \in Job : /\ job' = [job EXCEPT ![j] = e] /\ e.pc = "done"
                       /\ e.to = job[j].to /\ e.outcome = job[j].outcome
  BY <1>1, Placed DEF Pc
<1>3. PICK rec \in Record :
        /\ rec.job = j /\ rec.to = job[j].to /\ rec.count = Cardinality(job[j].to)
        /\ audit' = audit \union {rec}
        /\ audit \subseteq audit' /\ audit' \subseteq Record
        /\ rec.outcome = "SUCCESS" /\ rec.count > 0 => Reached(copies[j])
  <2>1. job[j].to \in SUBSET Addresses
    BY EntryTyped
  <2> QED
    BY <1>1, <2>1, SettleRecord
<1>4. Books(j, e, copies[j], lostReplies[j])
  BY <1>2, QuietBooks DEF Early
<1>5. ResendOK(j, e, copies[j])'
  BY <1>1, <1>2, <1>3, ResendFacts DEF ResendOK, Reached, FirstRecorded
<1>6. Accounted(j, e, copies[j])'
  <2>1. rec \in audit' /\ Keeps(rec, j, e)'
    BY <1>1, <1>2, <1>3 DEF Keeps
  <2> QED
    BY <1>1, <2>1, JobNames DEF Accounted
<1>7. \A q \in audit' : \/ q \in audit
                        \/ q.job = j /\ (q.outcome = "SUCCESS" /\ q.count > 0 => Reached(copies[j]))
  BY <1>3
<1> QED
  BY <1>1, <1>2, <1>3, <1>4, <1>5, <1>6, <1>7, QuietJob

\* The delivery settles: its record, its state, and the notice it may start.
LEMMA SettleStep ==
  ASSUME DeliveryInv, Settle
  PROVE  DeliveryInv'
<1>1. /\ job[First].pc = "settle" /\ audit' = Audited(First, RecordedAddresses)
      /\ UNCHANGED <<subscribed, big, copies, lostReplies, known>>
  BY DEF Settle
<1>2. TypeOK /\ RecordsInv
  BY DEF DeliveryInv
<1>3. PICK rec \in Record :
        /\ rec.job = First /\ rec.to = RecordedAddresses
        /\ rec.count = Cardinality(job[First].to) /\ rec.outcome = job[First].outcome
        /\ audit' = audit \union {rec}
        /\ audit \subseteq audit' /\ audit' \subseteq Record
        /\ rec.outcome = "SUCCESS" /\ rec.count > 0 => Reached(copies[First])
  <2>1. RecordedAddresses \in SUBSET Addresses
    BY EntryTyped, JobNames DEF RecordedAddresses
  <2> QED
    BY <1>1, <2>1, JobNames, SettleRecord
<1>4. job[Notice].pc = "new"
  BY <1>1, <1>2 DEF RecordsInv
<1>5. job[Notice] \in Job /\ job[Notice].outcome = "none" /\ job[Notice].pc \in Early
  <2>1. job[Notice].pc \in Early
    BY <1>4 DEF Early
  <2> QED
    BY <2>1, EntryTyped, EarlyBooks, JobNames
<1>6. "done" \in Pc
  BY DEF Pc
<1>7. PICK e \in Job : /\ e = [job[First] EXCEPT !.pc = "done"] /\ e.pc = "done"
                       /\ e.to = job[First].to /\ e.outcome = job[First].outcome
  BY <1>6, JobNames, Moved
<1>8. PICK m \in Job : /\ m = IF job[First].outcome = "EMAIL_SIZE_EXCEEDED" /\ Admins # {}
                              THEN [job[Notice] EXCEPT !.pc = "send", !.to = Admins, !.attempt = 1]
                              ELSE job[Notice]
                       /\ \/ m = job[Notice]
                          \/ /\ job[First].outcome = "EMAIL_SIZE_EXCEEDED" /\ Admins # {}
                             /\ m.pc = "send" /\ m.to # {} /\ m.attempt = 1 /\ m.outcome = "none"
  <2>1. CASE ~(job[First].outcome = "EMAIL_SIZE_EXCEEDED" /\ Admins # {})
    BY <1>5, <2>1
  <2>2. CASE job[First].outcome = "EMAIL_SIZE_EXCEEDED" /\ Admins # {}
    <3>1. Admins \in SUBSET Addresses
      BY DEF Addresses
    <3>2. [job[Notice] EXCEPT !.pc = "send", !.to = Admins, !.attempt = 1] \in Job
      BY <1>5, <3>1 DEF Job, Pc
    <3>3. PICK m \in Job :
            m = [job[Notice] EXCEPT !.pc = "send", !.to = Admins, !.attempt = 1]
      BY <3>2
    <3>4. m.pc = "send" /\ m.to = Admins /\ m.attempt = 1 /\ m.outcome = "none"
      BY <1>5, <3>3 DEF Job
    <3> QED
      BY <2>2, <3>3, <3>4
  <2> QED
    BY <2>1, <2>2
<1>9. job \in [Jobs -> Job]
  BY <1>2 DEF TypeOK
<1>10. /\ job' \in [Jobs -> Job] /\ job'[First] = e /\ job'[Notice] = m
       /\ \A k \in Jobs : k # First /\ k # Notice => job'[k] = job[k]
  <2>1. job' = [job EXCEPT ![First].pc = "done",
                  ![Notice] = IF job[First].outcome = "EMAIL_SIZE_EXCEEDED" /\ Admins # {}
                              THEN [@ EXCEPT !.pc = "send", !.to = Admins, !.attempt = 1]
                              ELSE @]
    BY DEF Settle
  <2>2. job' = [job EXCEPT ![First] = e, ![Notice] = m]
    BY <1>7, <1>8, <1>9, <2>1, JobNames
  <2> QED
    BY <1>9, <2>2, JobNames
<1>11. TypeOK'
  <2>1. runState' \in {"SENDING", "SENT", "FAILED", "ORPHANED"}
    BY <1>2 DEF TypeOK, Settle
  <2>2. big' \in BOOLEAN
    BY <1>1, <1>2 DEF TypeOK
  <2> QED
    BY <1>1, <1>2, <1>3, <1>10, <2>1, <2>2 DEF TypeOK
<1>12. Books(First, e, copies[First], lostReplies[First])
  BY <1>7, JobNames, QuietBooks DEF Early
<1>13. Books(Notice, m, copies[Notice], lostReplies[Notice])
  <2>1. CASE m = job[Notice]
    BY <2>1, JobNames, EntryTyped DEF JobInv
  <2>2. CASE m.pc = "send" /\ m.to # {} /\ m.attempt = 1 /\ m.outcome = "none"
    BY <1>5, <2>2, JobNames, QuietBooks DEF Early
  <2> QED
    BY <1>8, <2>1, <2>2
<1>14. ASSUME NEW k \in Jobs
       PROVE  JobInv(k)'
  <2>1. CASE k # First /\ k # Notice
    <3>1. job'[k] = job[k] /\ copies'[k] = copies[k] /\ lostReplies'[k] = lostReplies[k]
      BY <1>1, <1>10, <2>1
    <3>2. JobInv(k) /\ audit \subseteq audit' /\ UNCHANGED <<subscribed, big, known>>
      BY <1>1, <1>3 DEF DeliveryInv
    <3>3. runState' = runState \/ runState = "SENDING"
      BY DEF Settle
    <3> QED
      BY <3>1, <3>2, <3>3, OtherJob
  <2>2. CASE k = First
    <3>1. Books(k, job[k], copies[k], lostReplies[k])'
      BY <1>1, <1>10, <1>12, <2>2 DEF Books, Reached
    <3>2. ResendOK(k, job[k], copies[k])'
      BY <2>2, JobNames DEF ResendOK
    <3>3. rec \in audit' /\ copies'[First] = copies[First]
      BY <1>1, <1>3
    <3>4. runState' # "SENDING" /\ (runState' = "SENT" => rec.to = e.to)
      <4>1. runState' = IF runState # "SENDING" THEN runState
                        ELSE IF job[First].outcome = "SUCCESS" THEN "SENT" ELSE "FAILED"
        BY DEF Settle
      <4>2. CASE runState = "SENDING"
        BY <1>3, <1>7, <4>1, <4>2 DEF RecordedAddresses
      <4>3. CASE runState # "SENDING"
        BY <1>1, <1>2, <4>1, <4>3 DEF RecordsInv, Resendable
      <4> QED
        BY <4>2, <4>3
    <3>5. Keeps(rec, First, e)'
      BY <1>3, <1>7, <3>4, JobNames DEF Keeps
    <3>6. Accounted(k, job[k], copies[k])'
      BY <1>10, <2>2, <3>3, <3>4, <3>5 DEF Accounted
    <3> QED
      BY <3>1, <3>2, <3>6 DEF JobInv
  <2>3. CASE k = Notice
    <3>1. Books(k, job[k], copies[k], lostReplies[k])'
      BY <1>1, <1>10, <1>13, <2>3 DEF Books, Reached
    <3>2. ResendOK(k, job[k], copies[k])'
      BY <2>3, JobNames DEF ResendOK
    <3>3. Accounted(k, job[k], copies[k])'
      BY <2>3 DEF Accounted
    <3> QED
      BY <3>1, <3>2, <3>3 DEF JobInv
  <2> QED
    BY <2>1, <2>2, <2>3
<1>15. RecordsInv'
  <2>1. ASSUME NEW q \in audit', q.outcome = "SUCCESS", q.count > 0
        PROVE  Reached(copies[q.job])'
    <3>1. Reached(copies[q.job])
      <4>1. CASE q \in audit
        BY <1>2, <2>1, <4>1 DEF RecordsInv
      <4>2. CASE q = rec
        BY <1>3, <2>1, <4>2
      <4> QED
        BY <1>3, <4>1, <4>2
    <3> QED
      BY <1>1, <3>1 DEF Reached
  <2>2. FirstRecorded' /\ job'[First].pc = "done"
    BY <1>3, <1>7, <1>10 DEF FirstRecorded
  <2>3. ASSUME job'[Notice].pc # "new"
        PROVE  /\ job'[First].pc = "done"
               /\ \E q \in audit' : q.job = First /\ q.outcome = "EMAIL_SIZE_EXCEEDED"
    <3>1. job[First].outcome = "EMAIL_SIZE_EXCEEDED"
      BY <1>4, <1>8, <1>10, <2>3
    <3>2. rec \in audit' /\ job'[First].pc = "done"
      BY <1>3, <1>7, <1>10
    <3> QED
      BY <1>3, <3>1, <3>2
  <2> QED
    BY <2>1, <2>2, <2>3 DEF RecordsInv
<1> QED
  BY <1>11, <1>14, <1>15 DEF DeliveryInv

-----------------------------------------------------------------------------
(* The surroundings.                                                       *)

\* Whoever subscribes while a resend is on its way is known to it.
LEMMA SubscriptionStep ==
  ASSUME DeliveryInv, NEW u \in Subscribers, Subscription(u)
  PROVE  DeliveryInv'
<1>1. UNCHANGED <<runState, big, job, audit, copies, lostReplies>>
  BY DEF Subscription
<1>2. TypeOK /\ RecordsInv
  BY DEF DeliveryInv
<1>3. subscribed' \subseteq Subscribers
  BY <1>2 DEF Subscription, TypeOK
<1>4. known' = [j \in Resends |-> IF Running(j) THEN known[j] \union subscribed' ELSE known[j]]
  BY DEF Subscription
<1>5. ASSUME NEW j \in Resends
      PROVE  /\ known[j] \subseteq known'[j] /\ known'[j] \in SUBSET Subscribers
             /\ Running(j) => subscribed' \subseteq known'[j]
  <2>1. known[j] \in SUBSET Subscribers
    BY <1>2 DEF TypeOK
  <2>2. known'[j] = IF Running(j) THEN known[j] \union subscribed' ELSE known[j]
    BY <1>4
  <2> QED
    BY <1>3, <2>1, <2>2
<1>6. TypeOK'
  <2>1. known' \in [Resends -> SUBSET Subscribers]
    BY <1>4, <1>5
  <2>2. big' \in BOOLEAN
    BY <1>1, <1>2 DEF TypeOK
  <2> QED
    BY <1>1, <1>2, <1>3, <2>1, <2>2 DEF TypeOK
<1>7. ASSUME NEW k \in Jobs
      PROVE  JobInv(k)'
  <2>1. /\ Books(k, job[k], copies[k], lostReplies[k])
        /\ ResendOK(k, job[k], copies[k]) /\ Accounted(k, job[k], copies[k])
    BY DEF DeliveryInv, JobInv
  <2>2. Books(k, job[k], copies[k], lostReplies[k])'
    BY <1>1, <2>1 DEF Books, Reached
  <2>3. ResendOK(k, job[k], copies[k])'
    <3>1. job' = job /\ audit' = audit /\ copies' = copies
      BY <1>1
    <3> QED
      BY <1>5, <2>1, <3>1 DEF ResendOK, Reached, FirstRecorded, Running
  <2>4. Accounted(k, job[k], copies[k])'
    BY <1>1, <2>1 DEF Accounted, Keeps, Reached
  <2> QED
    BY <2>2, <2>3, <2>4 DEF JobInv
<1>8. RecordsInv'
  BY <1>1, <1>2 DEF RecordsInv, FirstRecorded, Reached
<1> QED
  BY <1>6, <1>7, <1>8 DEF DeliveryInv

\* The sweeper changes the state of the run, and stuttering nothing.
LEMMA OrphanedStep ==
  ASSUME DeliveryInv, Orphaned \/ UNCHANGED vars
  PROVE  DeliveryInv'
<1>1. UNCHANGED <<subscribed, big, job, audit, copies, lostReplies, known>>
  BY DEF Orphaned, vars
<1>2. runState' \in {runState, "ORPHANED"}
  BY DEF Orphaned, vars
<1>3. TypeOK /\ RecordsInv
  BY DEF DeliveryInv
<1>4. TypeOK'
  <2>1. big' \in BOOLEAN
    BY <1>1, <1>3 DEF TypeOK
  <2> QED
    BY <1>1, <1>2, <1>3, <2>1 DEF TypeOK
<1>5. ASSUME NEW k \in Jobs
      PROVE  JobInv(k)'
  <2>1. job'[k] = job[k] /\ copies'[k] = copies[k] /\ lostReplies'[k] = lostReplies[k]
    BY <1>1
  <2>2. JobInv(k) /\ audit \subseteq audit' /\ UNCHANGED <<subscribed, big, known>>
    BY <1>1 DEF DeliveryInv
  <2>3. runState' = runState \/ runState = "SENDING"
    BY DEF Orphaned, vars
  <2> QED
    BY <2>1, <2>2, <2>3, OtherJob
<1>6. RecordsInv'
  <2>1. runState' \in Resendable => runState \in Resendable
    BY <1>2 DEF Resendable
  <2> QED
    BY <1>1, <1>3, <2>1 DEF RecordsInv, FirstRecorded, Reached
<1> QED
  BY <1>4, <1>5, <1>6 DEF DeliveryInv

-----------------------------------------------------------------------------
(* The theorems.                                                           *)

LEMMA DeliveryInitInv == Init => DeliveryInv
<1> SUFFICES ASSUME Init
             PROVE  DeliveryInv
  OBVIOUS
<1>1. ASSUME NEW j \in Jobs
      PROVE  /\ job[j] \in Job /\ job[j].pc \in Early /\ job[j].to = {}
             /\ job[j].outcome = "none" /\ lostReplies[j] = 0
             /\ j # First => job[j].pc = "new"
             /\ j = First => job[j].pc = "render"
             /\ \A a \in Addresses : copies[j][a] = 0
  <2>1. job[j] = [pc |-> IF j = First THEN "render" ELSE "new",
                  to |-> {}, attempt |-> 0, outcome |-> "none"]
    BY DEF Init
  <2>2. job[j] \in Job
    BY <2>1 DEF Job, Pc, Outcome
  <2> QED
    BY <2>1, <2>2 DEF Init, Early
<1>2. TypeOK
  <2>1. job \in [Jobs -> Job]
    BY <1>1 DEF Init
  <2>2. copies \in [Jobs -> [Addresses -> Nat]] /\ lostReplies \in [Jobs -> Nat]
    BY DEF Init
  <2>3. known \in [Resends -> SUBSET Subscribers]
    BY DEF Init
  <2>4. big \in BOOLEAN
    BY DEF Init
  <2> QED
    BY <2>1, <2>2, <2>3, <2>4 DEF Init, TypeOK
<1>3. ASSUME NEW j \in Jobs
      PROVE  JobInv(j)
  <2>1. /\ \A a \in Addresses : copies[j][a] <= lostReplies[j] + 0 /\ ~(copies[j][a] > 0)
        /\ \A a \in Addresses : copies[j][a] <= MaxRetries + 1
    BY <1>1, MaxRetriesAssumption
  <2>2. Books(j, job[j], copies[j], lostReplies[j])
    BY <1>1, <2>1 DEF Books, Early
  <2>3. ~Reached(copies[j])
    BY <2>1 DEF Reached
  <2>4. ResendOK(j, job[j], copies[j])
    <3>1. j \in Resends => job[j].pc = "new"
      BY <1>1, JobNames
    <3> QED
      BY <1>1, <2>3, <3>1 DEF ResendOK
  <2>5. Accounted(j, job[j], copies[j])
    BY <1>1 DEF Accounted, Early
  <2> QED
    BY <2>2, <2>4, <2>5 DEF JobInv
<1>4. RecordsInv
  BY <1>1, JobNames DEF Init, RecordsInv, Resendable
<1> QED
  BY <1>2, <1>3, <1>4 DEF DeliveryInv

LEMMA DeliveryNextInv == DeliveryInv /\ [Next]_vars => DeliveryInv'
<1> SUFFICES ASSUME DeliveryInv, [Next]_vars
             PROVE  DeliveryInv'
  OBVIOUS
<1>1. ASSUME NEW j \in Jobs, ResendArrives(j)
      PROVE  DeliveryInv'
  BY <1>1, ResendArrivesStep
<1>2. ASSUME NEW j \in Jobs, CheckState(j)
      PROVE  DeliveryInv'
  BY <1>2, CheckStateStep
<1>3. ASSUME NEW j \in Jobs, Render(j)
      PROVE  DeliveryInv'
  BY <1>3, RenderStep
<1>4. ASSUME NEW j \in Jobs, ResolveRecipients(j)
      PROVE  DeliveryInv'
  BY <1>4, ResolveStep
<1>5. ASSUME NEW j \in Jobs, Send(j)
      PROVE  DeliveryInv'
  BY <1>5, SendStep
<1>6. ASSUME NEW j \in Jobs, SettleResend(j)
      PROVE  DeliveryInv'
  BY <1>6, SettleResendStep
<1>7. CASE Settle
  BY <1>7, SettleStep
<1>8. ASSUME NEW j \in Jobs, Dies(j) \/ (j = Notice /\ SettleNotice)
      PROVE  DeliveryInv'
  BY <1>8, DiesStep
<1>9. ASSUME NEW u \in Subscribers, Subscription(u)
      PROVE  DeliveryInv'
  BY <1>9, SubscriptionStep
<1>10. CASE Orphaned \/ UNCHANGED vars
  BY <1>10, OrphanedStep
<1> QED
  BY <1>1, <1>2, <1>3, <1>4, <1>5, <1>6, <1>7, <1>8, <1>9, <1>10 DEF Next, Steps

\* Every state the deliveries, the notice and the resends reach keeps the books.
THEOREM DeliveryInvariance == Spec => []DeliveryInv
BY DeliveryInitInv, DeliveryNextInv, PTL DEF Spec

\* A recipient gets a second copy only for a lost reply, never more than the
\* configured attempts allow, and an oversized report gets to nobody.
THEOREM CopiesAccountedHolds == Spec => []CopiesAccounted
<1>1. ASSUME DeliveryInv
      PROVE  CopiesAccounted
  <2>1. ASSUME NEW j \in Jobs
        PROVE  Books(j, job[j], copies[j], lostReplies[j])
    BY <1>1, EntryTyped DEF JobInv
  <2> QED
    BY <1>1, <2>1 DEF CopiesAccounted, Books, DeliveryInv, Attempted
<1> QED
  BY <1>1, DeliveryInvariance, PTL

\* The audit log accounts for whoever may have a copy of a job that was not cut
\* short: it names them for a resend and a SENT report and counts them for any
\* other, and a recorded success stands for a message the relay has taken.
THEOREM AuditMatchesRelayHolds == Spec => []AuditMatchesRelay
<1>1. ASSUME DeliveryInv
      PROVE  AuditMatchesRelay
  <2>1. ASSUME NEW j \in Jobs \ {Notice}, job[j].pc = "done", Mailboxes(j) # {}
        PROVE  \E rec \in audit :
                 /\ rec.job = j /\ Cardinality(Mailboxes(j)) <= rec.count
                 /\ j \in Resends \/ runState = "SENT" => Mailboxes(j) \subseteq rec.to
    <3>1. /\ Accounted(j, job[j], copies[j]) /\ Books(j, job[j], copies[j], lostReplies[j])
          /\ job[j].to \subseteq Addresses
      BY <1>1, EntryTyped DEF JobInv
    <3>2. Mailboxes(j) \subseteq job[j].to /\ Reached(copies[j])
      BY <2>1, <3>1 DEF Mailboxes, Books, Reached
    <3>3. PICK rec \in audit : Keeps(rec, j, job[j])
      BY <2>1, <3>1, <3>2 DEF Accounted
    <3>4. IsFiniteSet(job[j].to)
      BY <3>1, AddressesAssumption, FS_Subset
    <3>5. Cardinality(Mailboxes(j)) <= Cardinality(job[j].to)
      BY <3>2, <3>4, FS_Subset
    <3> QED
      BY <3>2, <3>3, <3>5 DEF Keeps
  <2>2. ASSUME NEW rec \in audit, rec.outcome = "SUCCESS", rec.count > 0
        PROVE  Attempted(rec.job)
    BY <1>1, <2>2 DEF DeliveryInv, RecordsInv, Reached, Attempted
  <2> QED
    BY <2>1, <2>2 DEF AuditMatchesRelay
<1> QED
  BY <1>1, DeliveryInvariance, PTL

\* Whoever gets a copy of a resend was subscribed while it was on its way.
THEOREM RecipientsCurrentHolds == Spec => []RecipientsCurrent
<1>1. ASSUME DeliveryInv
      PROVE  RecipientsCurrent
  <2>1. ASSUME NEW j \in Resends, NEW a \in Addresses \ {Sender}, copies[j][a] > 0
        PROVE  a \in known[j]
    <3>1. j \in Jobs /\ job[j].to \subseteq known[j]
      BY <1>1, ResendFacts
    <3>2. Books(j, job[j], copies[j], lostReplies[j])
      BY <1>1, <3>1, EntryTyped DEF JobInv
    <3>3. a \in job[j].to
      BY <2>1, <3>2 DEF Books
    <3> QED
      BY <3>1, <3>3
  <2> QED
    BY <2>1 DEF RecipientsCurrent
<1> QED
  BY <1>1, DeliveryInvariance, PTL

\* A report is resent, and administrators hear of an oversized one, only when
\* the outcome of the first delivery is on record.
THEOREM OutcomeComesFirstHolds == Spec => []OutcomeComesFirst
<1>1. ASSUME DeliveryInv
      PROVE  OutcomeComesFirst
  <2>1. ASSUME NEW j \in Resends, Attempted(j)
        PROVE  \E rec \in audit : rec.job = First
    <3>1. Reached(copies[j])
      BY <2>1 DEF Attempted, Reached
    <3> QED
      BY <1>1, <3>1, ResendFacts DEF FirstRecorded
  <2>2. job[Notice].pc # "new" =>
          \E rec \in audit : rec.job = First /\ rec.outcome = "EMAIL_SIZE_EXCEEDED"
    BY <1>1 DEF DeliveryInv, RecordsInv
  <2> QED
    BY <2>1, <2>2 DEF OutcomeComesFirst
<1> QED
  BY <1>1, DeliveryInvariance, PTL

-----------------------------------------------------------------------------
(* Templates: what a report shows.  First the operators it is computed     *)
(* with: least elements, first errors, highest versions, sorted stages.    *)

\* Every set of numbers has a least one: induction by least counterexample.
LEMMA Least ==
  ASSUME NEW T, T \subseteq Nat, T # {}
  PROVE  \E n \in T : \A m \in T : n <= m
<1> DEFINE R == OpToRel(<, Nat)
<1>1. IsWellFoundedOn(R, Nat)
  BY NatLessThanWellFounded
<1> HIDE DEF R
<1>2. PICK n \in T : \A m \in T : ~(<<m, n>> \in R)
  BY <1>1, WFMin
<1>3. \A m \in T : m < n => <<m, n>> \in R
  BY DEF R, OpToRel
<1>4. ASSUME NEW m \in T
      PROVE  n <= m
  <2>1. m \in Nat /\ n \in Nat /\ ~(m < n)
    BY <1>2, <1>3
  <2> QED
    BY <2>1
<1> QED
  BY <1>4

\* Min of FiniteSetsExt is the least element, also of an infinite set.
LEMMA MinIsLeast ==
  ASSUME NEW T, T \subseteq Nat, T # {}
  PROVE  Min(T) \in T /\ \A m \in T : Min(T) <= m
<1>1. \E n \in T : \A m \in T : n =< m
  BY Least
<1> QED
  BY <1>1, Zenon DEF Min

\* No error is raised only if every check passes.
LEMMA FirstErrorIsNone ==
  ASSUME NEW es, DOMAIN es \subseteq Nat, FirstError(es) = None
  PROVE  \A i \in DOMAIN es : es[i] = None
<1> DEFINE failed == {i \in DOMAIN es : es[i] # None}
<1>1. failed # {} => Min(failed) \in failed
  BY MinIsLeast
<1>2. FirstError(es) = IF failed = {} THEN None ELSE es[Min(failed)]
  BY DEF FirstError
<1> QED
  BY <1>1, <1>2

\* The error raised is that of a check before which all pass.
LEMMA FirstErrorIsFirst ==
  ASSUME NEW es, DOMAIN es \subseteq Nat, FirstError(es) # None
  PROVE  \E i \in DOMAIN es : /\ es[i] = FirstError(es)
                              /\ \A j \in DOMAIN es : j < i => es[j] = None
<1> DEFINE failed == {i \in DOMAIN es : es[i] # None}
<1>1. FirstError(es) = IF failed = {} THEN None ELSE es[Min(failed)]
  BY DEF FirstError
<1>2. failed # {} /\ FirstError(es) = es[Min(failed)]
  BY <1>1
<1>3. Min(failed) \in failed /\ \A m \in failed : Min(failed) <= m
  BY <1>2, MinIsLeast
<1>4. ASSUME NEW j \in DOMAIN es, j < Min(failed)
      PROVE  es[j] = None
  <2>1. Min(failed) \in Nat /\ j \in Nat
    BY <1>3
  <2> HIDE DEF failed
  <2>2. j \notin failed
    BY <1>3, <1>4, <2>1
  <2> QED
    BY <2>2 DEF failed
<1> QED
  BY <1>2, <1>3, <1>4

\* Among finitely many entries one is of highest rank.
LEMMA HighestExists ==
  ASSUME NEW n \in Nat, NEW C, C \subseteq 1 .. n, C # {},
         NEW rank \in [C -> Nat]
  PROVE  \E i \in C : \A j \in C : rank[j] <= rank[i]
<1> DEFINE upTo(k) == {i \in C : i <= k}
           highest(k) == \E i \in upTo(k) : \A j \in upTo(k) : rank[j] <= rank[i]
           T == {k \in Nat : upTo(k) # {} /\ ~highest(k)}
<1>1. T = {}
  <2> SUFFICES ASSUME T # {} PROVE FALSE
    OBVIOUS
  <2>1. PICK k \in T : \A m \in T : k <= m
    BY Least
  <2>2. k \in Nat /\ upTo(k) # {} /\ ~highest(k)
    BY <2>1
  <2>3. k # 0
    <3>1. \A i \in C : i \in Nat /\ i # 0
      OBVIOUS
    <3>2. PICK i \in C : i <= k
      BY <2>2
    <3> QED
      BY <2>2, <3>1, <3>2
  <2>4. k - 1 \in Nat /\ k - 1 \notin T
    BY <2>1, <2>2, <2>3
  <2>5. upTo(k) = IF k \in C THEN upTo(k - 1) \union {k} ELSE upTo(k - 1)
    <3>1. \A i \in C : i \in Nat
      OBVIOUS
    <3>2. \A i \in C : i <= k <=> i <= k - 1 \/ i = k
      BY <2>2, <3>1
    <3> QED
      BY <2>2, <3>2
  <2>6. CASE upTo(k - 1) = {}
    <3>1. upTo(k) = {k} /\ k \in C
      BY <2>2, <2>5, <2>6
    <3>2. rank[k] <= rank[k]
      BY <3>1
    <3> QED
      BY <2>2, <3>1, <3>2
  <2>7. CASE highest(k - 1)
    <3>1. PICK i \in upTo(k - 1) : \A j \in upTo(k - 1) : rank[j] <= rank[i]
      BY <2>7
    <3>2. i \in C /\ rank[i] \in Nat /\ i \in upTo(k)
      BY <2>5, <3>1
    <3>3. CASE k \in C /\ rank[i] < rank[k]
      <4>1. k \in upTo(k) /\ rank[k] \in Nat
        BY <2>5, <3>3
      <4>2. ASSUME NEW j \in upTo(k)
            PROVE  rank[j] <= rank[k]
        <5>1. j = k \/ j \in upTo(k - 1)
          BY <2>5, <3>3
        <5>2. rank[j] \in Nat
          BY <4>2
        <5>3. j \in upTo(k - 1) => rank[j] <= rank[i]
          BY <3>1
        <5> QED
          BY <3>2, <3>3, <4>1, <5>1, <5>2, <5>3
      <4> QED
        BY <2>2, <4>1, <4>2
    <3>4. CASE ~(k \in C /\ rank[i] < rank[k])
      <4>2. ASSUME NEW j \in upTo(k)
            PROVE  rank[j] <= rank[i]
        <5>1. (j = k /\ k \in C) \/ j \in upTo(k - 1)
          BY <2>5
        <5>2. rank[j] \in Nat
          BY <4>2
        <5>3. j \in upTo(k - 1) => rank[j] <= rank[i]
          BY <3>1
        <5> QED
          BY <3>2, <3>4, <5>1, <5>2, <5>3
      <4> QED
        BY <2>2, <3>2, <4>2
    <3> QED
      BY <3>3, <3>4
  <2> QED
    BY <2>4, <2>6, <2>7
<1>2. upTo(n) = C
  <2>1. \A i \in C : i <= n
    OBVIOUS
  <2> QED
    BY <2>1
<1> QED
  BY <1>1, <1>2

\* No stage is declared twice; then its index among the declared is unique.
DistinctIds(declared) ==
  \A i, j \in DOMAIN declared : declared[i].stage_id = declared[j].stage_id => i = j

IdsOf(declared) == {declared[i].stage_id : i \in DOMAIN declared}

\* stage_order of a stage is the one it was declared with.
LEMMA OrderOfIndex ==
  ASSUME NEW declared, DistinctIds(declared), NEW i \in DOMAIN declared
  PROVE  OrderOf(declared, declared[i].stage_id) = declared[i].stage_order
<1> DEFINE P(k) == k \in DOMAIN declared /\ declared[k].stage_id = declared[i].stage_id
           c == CHOOSE k \in DOMAIN declared : declared[k].stage_id = declared[i].stage_id
<1>1. c \in DOMAIN declared /\ declared[c].stage_id = declared[i].stage_id
  OBVIOUS
<1>2. c = i
  BY <1>1 DEF DistinctIds
<1> QED
  BY <1>2 DEF OrderOf

LEMMA OrderOfTyped ==
  ASSUME NEW declared, DistinctIds(declared),
         \A i \in DOMAIN declared : declared[i].stage_order \in Int,
         NEW s \in IdsOf(declared)
  PROVE  OrderOf(declared, s) \in Int
<1>1. PICK i \in DOMAIN declared : s = declared[i].stage_id
  BY DEF IdsOf
<1> QED
  BY <1>1, OrderOfIndex

LEMMA IdsFinite ==
  ASSUME NEW n \in Nat, NEW declared, DOMAIN declared = 1 .. n
  PROVE  IsFiniteSet(IdsOf(declared))
<1> DEFINE f == [i \in 1 .. n |-> declared[i].stage_id]
<1>1. f \in Surjection(1 .. n, IdsOf(declared))
  BY DEF Surjection, IdsOf
<1>2. IsFiniteSet(1 .. n)
  BY FS_Interval
<1> QED
  BY <1>1, <1>2, FS_Surjection

\* _sort_key is a strict total order on stages whose keys are numbers.
LEMMA SortKeyOrder ==
  ASSUME NEW declared, NEW S, S \subseteq Nat,
         \A s \in S : OrderOf(declared, s) \in Int
  PROVE  /\ \A s \in S : ~SortKeyBelow(declared, s, s)
         /\ \A s, t \in S : s = t \/ SortKeyBelow(declared, s, t) \/ SortKeyBelow(declared, t, s)
         /\ \A s, t, u \in S : SortKeyBelow(declared, s, t) /\ SortKeyBelow(declared, t, u)
                                 => SortKeyBelow(declared, s, u)
BY DEF SortKeyBelow

\* Every finite set of stages can be put in the order of the report: a stage
\* goes to the place after the stages below it.
LEMMA SortedExists ==
  ASSUME NEW declared, NEW S, IsFiniteSet(S), S \subseteq Nat,
         \A s \in S : OrderOf(declared, s) \in Int
  PROVE  \E q \in [1 .. Cardinality(S) -> S] :
           \A i, j \in 1 .. Cardinality(S) : i < j => SortKeyBelow(declared, q[i], q[j])
<1> DEFINE n == Cardinality(S)
           lower(s) == {t \in S : SortKeyBelow(declared, t, s)}
           pos == [s \in S |-> Cardinality(lower(s)) + 1]
<1>1. n \in Nat
  BY FS_CardinalityType
<1>2. ASSUME NEW s \in S
      PROVE  IsFiniteSet(lower(s)) /\ Cardinality(lower(s)) \in Nat
  BY FS_Subset, FS_CardinalityType
<1>3. ASSUME NEW s \in S, NEW t \in S, SortKeyBelow(declared, s, t)
      PROVE  Cardinality(lower(s)) < Cardinality(lower(t))
  <2>1. lower(s) \subseteq lower(t)
    BY <1>3, SortKeyOrder
  <2>2. s \in lower(t) /\ s \notin lower(s)
    BY <1>3, SortKeyOrder
  <2> HIDE DEF lower
  <2>3. Cardinality(lower(s)) <= Cardinality(lower(t))
        /\ Cardinality(lower(t)) # Cardinality(lower(s))
    BY <1>2, <2>1, <2>2, FS_Subset
  <2> QED
    BY <1>2, <2>3
<1>4. ASSUME NEW s \in S
      PROVE  Cardinality(lower(s)) < n
  <2>1. lower(s) \subseteq S /\ s \notin lower(s)
    BY SortKeyOrder
  <2> HIDE DEF lower
  <2>2. Cardinality(lower(s)) <= n /\ n # Cardinality(lower(s))
    BY <2>1, FS_Subset
  <2> QED
    BY <1>1, <1>2, <2>2
<1>5. pos \in [S -> 1 .. n]
  <2> HIDE DEF lower, n
  <2> QED
    BY <1>1, <1>2, <1>4
<1>6. ASSUME NEW s \in S, NEW t \in S, SortKeyBelow(declared, s, t)
      PROVE  pos[s] < pos[t]
  <2> HIDE DEF lower
  <2> QED
    BY <1>2, <1>3, <1>6
<1> HIDE DEF lower, pos
<1>7. IsInjective(pos)
  <2> SUFFICES ASSUME NEW s \in S, NEW t \in S, pos[s] = pos[t], s # t PROVE FALSE
    BY <1>5 DEF IsInjective
  <2>1. SortKeyBelow(declared, s, t) \/ SortKeyBelow(declared, t, s)
    BY SortKeyOrder
  <2>2. pos[s] \in Nat /\ pos[t] \in Nat
    BY <1>1, <1>5
  <2> QED
    BY <1>6, <2>1, <2>2
<1>8. pos \in Surjection(S, 1 .. n)
  <2>1. pos \in Injection(S, 1 .. n)
    BY <1>5, <1>7 DEF Injection
  <2>2. IsFiniteSet(1 .. n) /\ Cardinality(1 .. n) = n
    BY <1>1, FS_Interval
  <2> HIDE DEF n
  <2> QED
    BY <2>1, <2>2, FS_Injection DEF n
<1> DEFINE q == [i \in 1 .. n |-> CHOOSE s \in S : pos[s] = i]
<1>9. \A i \in 1 .. n : q[i] \in S /\ pos[q[i]] = i
  BY <1>8 DEF Surjection
<1>10. ASSUME NEW i \in 1 .. n, NEW j \in 1 .. n, i < j
       PROVE  SortKeyBelow(declared, q[i], q[j])
  <2>1. q[i] \in S /\ q[j] \in S /\ pos[q[i]] = i /\ pos[q[j]] = j
    BY <1>9
  <2> HIDE DEF q
  <2>2. q[i] # q[j]
    BY <1>10, <2>1
  <2>3. ~SortKeyBelow(declared, q[j], q[i])
    <3>1. SortKeyBelow(declared, q[j], q[i]) => pos[q[j]] < pos[q[i]]
      BY <1>6, <2>1
    <3>2. i \in Int /\ j \in Int
      BY <1>1
    <3> QED
      BY <1>10, <2>1, <3>1, <3>2
  <2> QED
    BY <2>1, <2>2, <2>3, SortKeyOrder
<1>11. q \in [1 .. n -> S]
  BY <1>9
<1> QED
  BY <1>10, <1>11

\* InOrder lists every stage of the set once, in the order of the report.
LEMMA InOrderFacts ==
  ASSUME NEW declared, NEW S, IsFiniteSet(S), S \subseteq Nat,
         \A s \in S : OrderOf(declared, s) \in Int
  PROVE  /\ Cardinality(S) \in Nat
         /\ InOrder(declared, S) \in [1 .. Cardinality(S) -> S]
         /\ DOMAIN InOrder(declared, S) = 1 .. Cardinality(S)
         /\ \A i, j \in 1 .. Cardinality(S) :
              i < j => SortKeyBelow(declared, InOrder(declared, S)[i], InOrder(declared, S)[j])
         /\ \A s \in S : \E i \in 1 .. Cardinality(S) : InOrder(declared, S)[i] = s
         /\ \A i, j \in 1 .. Cardinality(S) :
              InOrder(declared, S)[i] = InOrder(declared, S)[j] => i = j
<1> DEFINE n == Cardinality(S)
           q == InOrder(declared, S)
<1>1. n \in Nat
  BY FS_CardinalityType
<1>2. /\ q \in [1 .. n -> S]
      /\ \A i, j \in 1 .. n : i < j => SortKeyBelow(declared, q[i], q[j])
  BY SortedExists, Zenon DEF InOrder
<1> HIDE DEF q
<1>3. ASSUME NEW i \in 1 .. n, NEW j \in 1 .. n, q[i] = q[j]
      PROVE  i = j
  <2>1. q[i] \in S /\ ~SortKeyBelow(declared, q[i], q[i])
    BY <1>2, SortKeyOrder
  <2>2. ~(i < j) /\ ~(j < i)
    BY <1>2, <1>3, <2>1
  <2>3. i \in Int /\ j \in Int
    BY <1>1
  <2> QED
    BY <2>2, <2>3
<1>4. q \in Surjection(1 .. n, S)
  <2>1. q \in Injection(1 .. n, S)
    BY <1>2, <1>3 DEF Injection, IsInjective
  <2>2. IsFiniteSet(1 .. n) /\ Cardinality(1 .. n) = n
    BY <1>1, FS_Interval
  <2> QED
    BY <2>1, <2>2, FS_Injection
<1>5. \A s \in S : \E i \in 1 .. n : q[i] = s
  BY <1>4 DEF Surjection
<1> QED
  BY <1>1, <1>2, <1>3, <1>5 DEF q

-----------------------------------------------------------------------------
(* The inductive invariant.                                                *)

RunRow == [state : RunState, pipeline : Pipelines \union {None}, mode : Mode \union {None},
           agg : Key \union {NoRef}, declared : Seq(Declared)]

\* The templates an e-mail of r is made from.
EmailRefs(r) ==
  {stage[r][s].ref : s \in Rendered(r)}
    \union (IF run[r].mode = "PER_STAGE" THEN {} ELSE {run[r].agg})
    \union {BodyRef(r)}

ShapeInv ==
  /\ run \in [Runs -> RunRow]
  /\ DOMAIN stage = Runs /\ DOMAIN begun = Runs /\ DOMAIN latest = Runs
  /\ DOMAIN emails = Runs
  /\ tasks \subseteq Runs
  /\ file \in Files
  /\ text \in [Key -> Text]
  /\ cache \in [Key -> {"a", "b", None}]
  /\ up \in BOOLEAN

\* What a running process loaded passed every check of its start.
FilesInv ==
  /\ loaded \in Files \union {NoFile}
  /\ Loadable(loaded.templates) /\ VocabularyLoads(loaded.tags)
  /\ up => OverridesResolve(loaded.templates)
  /\ ~up => tasks = {} /\ \A r \in Runs : emails[r] = {}

\* The rows of a run that began, against the request and the manifest it began with.
Pinned(r) ==
  LET q == begun[r].request
      m == begun[r].manifest
      d == run[r].declared
  IN /\ q.declared \in Seq(Asked)
     /\ DOMAIN q.declared = DOMAIN d
     /\ \A i \in DOMAIN d : d[i].stage_id = q.declared[i].stage_id
     /\ \A i \in DOMAIN d : d[i].stage_order = q.declared[i].stage_order
     /\ \A i \in DOMAIN d : PinnedAs(q.declared[i].ref, d[i].ref, m)
     /\ \A i \in DOMAIN d : stage[r][d[i].stage_id].ref = d[i].ref
     /\ run[r].agg # NoRef => PinnedAs(q.agg, run[r].agg, m)
     /\ run[r].pipeline \in Pipelines
     /\ run[r].mode \in Mode
     /\ run[r].agg \in (IF run[r].mode = "PER_STAGE" THEN {NoRef} ELSE Key \ {NoRef})

\* The columns a stage has after the submission q.
StoredAs(row, q) ==
  /\ row.report = q.report
  /\ row.body = q.body
  /\ row.position = IF q.body = NULL THEN NULL ELSE DomainPosition(q.position)
  /\ q.body # NULL => DomainPosition(q.position) \in Position

\* A run's rows hold what was declared and, of each stage, what came last.
RowsInv(r) ==
  /\ DistinctIds(run[r].declared)
  /\ stage[r] \in [IdsOf(run[r].declared) -> Stage]
  /\ run[r].state = "none" => run[r].declared = <<>>
  /\ run[r].state # "none" => Pinned(r)
  /\ latest[r] \in [Reported(r) -> Submission]
  /\ \A s \in Reported(r) : StoredAs(stage[r][s].row, latest[r][s])

\* Every e-mail of r is the one its rows and the compiled templates give.
EmailInv(r) ==
  /\ r \in tasks => run[r].state = "READY"
  /\ emails[r] # {} => run[r].state \in {"SENT", "FAILED"}
  /\ emails[r] \subseteq {Email(r)}
  /\ emails[r] # {} => \A k \in EmailRefs(r) : k \in Key /\ cache[k] # None

AnswerInv == AnswersAreTruthful /\ answer.status \in Status

TemplatesInv ==
  /\ ShapeInv
  /\ FilesInv
  /\ AnswerInv
  /\ \A r \in Runs : RowsInv(r) /\ EmailInv(r)

-----------------------------------------------------------------------------
(* What an e-mail is made from.                                            *)

\* The stages of r and all its run row but the state are as before.
SameRows(r) ==
  /\ stage'[r] = stage[r]
  /\ run'[r].pipeline = run[r].pipeline
  /\ run'[r].mode = run[r].mode
  /\ run'[r].agg = run[r].agg
  /\ run'[r].declared = run[r].declared

\* What takes part in a report depends on the stage rows alone.
LEMMA SameReported ==
  ASSUME NEW r \in Runs, SameRows(r)
  PROVE  /\ Reported(r)' = Reported(r)
         /\ Rendered(r)' = Rendered(r)
         /\ BodyRef(r)' = BodyRef(r)
         /\ EmailRefs(r)' = EmailRefs(r)
<1>1. Reported(r)' = Reported(r)
  BY DEF SameRows, Reported
<1>2. Rendered(r)' = Rendered(r)
  BY <1>1 DEF SameRows, Rendered
<1>3. BodyRef(r)' = BodyRef(r)
  BY DEF SameRows, BodyRef
<1>4. {stage'[r][s].ref : s \in Rendered(r)'} = {stage[r][s].ref : s \in Rendered(r)}
  BY <1>2 DEF SameRows
<1>5. EmailRefs(r)' = EmailRefs(r)
  BY <1>3, <1>4 DEF SameRows, EmailRefs
<1> QED
  BY <1>1, <1>2, <1>3, <1>5

LEMMA SameIncluded ==
  ASSUME NEW r \in Runs, SameRows(r)
  PROVE  /\ Included(r)' = Included(r)
         /\ Attached(r)' = Attached(r)
<1>1. Included(r)' = Included(r)
  BY SameReported DEF SameRows, Included
<1>2. Attached(r)' = Attached(r)
  <2>1. {s \in Rendered(r)' : stage'[r][s].row.report \notin Blank}
          = {s \in Rendered(r) : stage[r][s].row.report \notin Blank}
    BY SameReported DEF SameRows
  <2>2. Shown(r)' = Shown(r)
    BY <2>1 DEF Shown
  <2> QED
    BY <2>2 DEF SameRows, Attached
<1> QED
  BY <1>1, <1>2

LEMMA SameBucket ==
  ASSUME NEW r \in Runs, SameRows(r), NEW p
  PROVE  Bucket(r, p)' = Bucket(r, p)
<1>1. {s \in Reported(r)' : stage'[r][s].row.position = p}
        = {s \in Reported(r) : stage[r][s].row.position = p}
  BY SameReported DEF SameRows
<1> QED
  BY <1>1 DEF SameRows, Bucket

\* The stages of a run are finitely many and have comparable sort keys.
LEMMA ReportedFacts ==
  ASSUME NEW r \in Runs, RowsInv(r), run \in [Runs -> RunRow]
  PROVE  /\ Reported(r) \subseteq IdsOf(run[r].declared)
         /\ \A S \in SUBSET IdsOf(run[r].declared) :
              /\ IsFiniteSet(S)
              /\ S \subseteq Nat
              /\ \A s \in S : OrderOf(run[r].declared, s) \in Int
<1>1. run[r].declared \in Seq(Declared) /\ DistinctIds(run[r].declared)
      /\ DOMAIN stage[r] = IdsOf(run[r].declared)
  BY DEF RowsInv, RunRow
<1>2. Len(run[r].declared) \in Nat /\ DOMAIN run[r].declared = 1 .. Len(run[r].declared)
      /\ \A i \in DOMAIN run[r].declared : run[r].declared[i] \in Declared
  BY <1>1
<1>3. /\ \A i \in DOMAIN run[r].declared : run[r].declared[i].stage_order \in Int
      /\ \A i \in DOMAIN run[r].declared : run[r].declared[i].stage_id \in Nat
  <2> SUFFICES ASSUME NEW i \in DOMAIN run[r].declared
               PROVE  /\ run[r].declared[i].stage_order \in Int
                      /\ run[r].declared[i].stage_id \in Nat
    OBVIOUS
  <2>1. run[r].declared[i] \in Declared
    BY <1>2
  <2>2. /\ run[r].declared[i].stage_order \in Nat
        /\ run[r].declared[i].stage_id \in StageIds
    BY <2>1 DEF Declared
  <2>3. (\A x \in StageIds : x \in Nat) /\ \A x \in Nat : x \in Int
    BY StageIdAssumption
  <2> QED
    BY <2>2, <2>3, Zenon
<1>4. IsFiniteSet(IdsOf(run[r].declared))
  BY <1>2, IdsFinite
<1>5. IdsOf(run[r].declared) \subseteq Nat
  BY <1>3 DEF IdsOf
<1>6. \A s \in IdsOf(run[r].declared) : OrderOf(run[r].declared, s) \in Int
  BY <1>1, <1>3, OrderOfTyped
<1>7. Reported(r) \subseteq IdsOf(run[r].declared)
  BY <1>1 DEF Reported
<1> QED
  BY <1>4, <1>5, <1>6, <1>7, FS_Subset

\* InOrder of a set of r's stages: each of them once, in the order of the report.
LEMMA StagesInOrder ==
  ASSUME NEW r \in Runs, RowsInv(r), run \in [Runs -> RunRow],
         NEW S, S \subseteq Reported(r)
  PROVE  LET q == InOrder(run[r].declared, S)
         IN /\ Cardinality(S) \in Nat
            /\ DOMAIN q = 1 .. Cardinality(S)
            /\ q \in [1 .. Cardinality(S) -> S]
            /\ \A i \in DOMAIN q : q[i] \in S
            /\ \A s \in S : \E i \in DOMAIN q : q[i] = s
            /\ \A i, j \in DOMAIN q : q[i] = q[j] => i = j
            /\ \A i, j \in DOMAIN q : i < j => SortKeyBelow(run[r].declared, q[i], q[j])
<1>1. S \in SUBSET IdsOf(run[r].declared)
  BY ReportedFacts
<1>2. IsFiniteSet(S) /\ S \subseteq Nat /\ \A s \in S : OrderOf(run[r].declared, s) \in Int
  BY <1>1, ReportedFacts
<1> DEFINE d == run[r].declared
<1>3. IsFiniteSet(S) /\ S \subseteq Nat /\ \A s \in S : OrderOf(d, s) \in Int
  BY <1>2
<1> HIDE DEF d
<1>4. /\ Cardinality(S) \in Nat
      /\ InOrder(d, S) \in [1 .. Cardinality(S) -> S]
      /\ DOMAIN InOrder(d, S) = 1 .. Cardinality(S)
      /\ \A i, j \in 1 .. Cardinality(S) :
           i < j => SortKeyBelow(d, InOrder(d, S)[i], InOrder(d, S)[j])
      /\ \A s \in S : \E i \in 1 .. Cardinality(S) : InOrder(d, S)[i] = s
      /\ \A i, j \in 1 .. Cardinality(S) : InOrder(d, S)[i] = InOrder(d, S)[j] => i = j
  BY <1>3, InOrderFacts
<1>5. \A i \in DOMAIN InOrder(d, S) : InOrder(d, S)[i] \in S
  BY <1>4
<1> QED
  BY <1>4, <1>5 DEF d

LEMMA IncludedFacts ==
  ASSUME NEW r \in Runs, RowsInv(r), run \in [Runs -> RunRow]
  PROVE  /\ \A i \in DOMAIN Included(r) : Included(r)[i] \in Reported(r)
         /\ \A s \in Reported(r) : \E i \in DOMAIN Included(r) : Included(r)[i] = s
         /\ \A i, j \in DOMAIN Included(r) :
              i < j => SortKeyBelow(run[r].declared, Included(r)[i], Included(r)[j])
         /\ DOMAIN Included(r) \subseteq Nat
<1> DEFINE q == InOrder(run[r].declared, Reported(r))
<1>1. /\ Cardinality(Reported(r)) \in Nat
      /\ DOMAIN q = 1 .. Cardinality(Reported(r))
      /\ \A i \in DOMAIN q : q[i] \in Reported(r)
      /\ \A s \in Reported(r) : \E i \in DOMAIN q : q[i] = s
      /\ \A i, j \in DOMAIN q : i < j => SortKeyBelow(run[r].declared, q[i], q[j])
  BY StagesInOrder
<1>2. DOMAIN q \subseteq Nat
  BY <1>1
<1>3. Included(r) = q
  BY DEF Included
<1> HIDE DEF q
<1> QED
  BY <1>1, <1>2, <1>3

\* Rows and texts as before give the e-mail as before.
LEMMA SameEmail ==
  ASSUME NEW r \in Runs, RowsInv(r), run \in [Runs -> RunRow], SameRows(r),
         \A k \in EmailRefs(r) : (IF cache'[k] # None THEN cache'[k] ELSE text'[k]) = TextOf(k)
  PROVE  Email(r)' = Email(r)
<1> DEFINE inc == Included(r)
           row(s) == stage[r][s].row
           new(k) == IF cache'[k] # None THEN cache'[k] ELSE text'[k]
           shown == [i \in DOMAIN inc |->
                       [stage_id |-> inc[i], report |-> row(inc[i]).report,
                        text |-> IF row(inc[i]).report = NULL THEN None
                                 ELSE TextOf(stage[r][inc[i]].ref)]]
           shownNow == [i \in DOMAIN inc |->
                       [stage_id |-> inc[i], report |-> row(inc[i]).report,
                        text |-> IF row(inc[i]).report = NULL THEN None
                                 ELSE new(stage[r][inc[i]].ref)]]
<1>1. \A i \in DOMAIN inc : inc[i] \in Reported(r)
  BY IncludedFacts
<1>2. ASSUME NEW i \in DOMAIN inc, row(inc[i]).report # NULL
      PROVE  new(stage[r][inc[i]].ref) = TextOf(stage[r][inc[i]].ref)
  <2>1. inc[i] \in Rendered(r)
    BY <1>1, <1>2 DEF Rendered
  <2>2. stage[r][inc[i]].ref \in EmailRefs(r)
    BY <2>1 DEF EmailRefs
  <2> QED
    BY <2>2
<1>3. shownNow = shown
  <2> HIDE DEF inc, new
  <2> QED
    BY <1>2
<1>4. run[r].mode # "PER_STAGE" => new(run[r].agg) = TextOf(run[r].agg)
  BY DEF EmailRefs
<1>5. new(BodyRef(r)) = TextOf(BodyRef(r))
  BY DEF EmailRefs
<1>6. Email(r) =
        [stages |-> shown,
         attached |-> IF run[r].mode = "PER_STAGE" THEN Attached(r) ELSE <<TextOf(run[r].agg)>>,
         body |-> TextOf(BodyRef(r)),
         before |-> Bucket(r, "BEFORE_STAGES_SUMMARY"),
         after |-> Bucket(r, "AFTER_STAGES_SUMMARY")]
  BY DEF Email
<1>7. Email(r)' =
        [stages |-> shownNow,
         attached |-> IF run[r].mode = "PER_STAGE" THEN Attached(r) ELSE <<new(run[r].agg)>>,
         body |-> new(BodyRef(r)),
         before |-> Bucket(r, "BEFORE_STAGES_SUMMARY"),
         after |-> Bucket(r, "AFTER_STAGES_SUMMARY")]
  <2>1. Included(r)' = inc /\ Attached(r)' = Attached(r) /\ BodyRef(r)' = BodyRef(r)
    BY SameIncluded, SameReported
  <2>2. /\ Bucket(r, "BEFORE_STAGES_SUMMARY")' = Bucket(r, "BEFORE_STAGES_SUMMARY")
        /\ Bucket(r, "AFTER_STAGES_SUMMARY")' = Bucket(r, "AFTER_STAGES_SUMMARY")
    BY SameBucket
  <2> QED
    BY <2>1, <2>2 DEF Email, TextOf, SameRows
<1> HIDE DEF shown, shownNow, new
<1> QED
  BY <1>3, <1>4, <1>5, <1>6, <1>7

\* A step that keeps the rows and the history of r.
LEMMA SameRowsInv ==
  ASSUME NEW r \in Runs, RowsInv(r), SameRows(r), latest'[r] = latest[r],
         begun'[r] = begun[r], run'[r].state = "none" <=> run[r].state = "none"
  PROVE  RowsInv(r)'
<1>1. Reported(r)' = Reported(r)
  BY SameReported
<1>2. Pinned(r) => Pinned(r)'
  BY DEF Pinned, SameRows
<1>3. \A s \in Reported(r)' : StoredAs(stage'[r][s].row, latest'[r][s])
  BY <1>1 DEF RowsInv, SameRows
<1>4. (\A s \in Reported(r) : StoredAs(stage[r][s].row, latest[r][s]))'
  BY <1>3 DEF StoredAs
<1>5. latest'[r] \in [Reported(r)' -> Submission]
  BY <1>1 DEF RowsInv
<1> QED
  BY <1>2, <1>4, <1>5 DEF RowsInv, SameRows

\* A step that keeps the rows of r and every compiled template.
LEMMA SameEmailInv ==
  ASSUME NEW r \in Runs, RowsInv(r), run \in [Runs -> RunRow], SameRows(r), EmailInv(r),
         emails'[r] \in {emails[r], {}},
         emails'[r] # {} => \A k \in Key : cache[k] # None => cache'[k] = cache[k],
         r \in tasks' => run'[r].state = "READY",
         emails'[r] # {} => run'[r].state \in {"SENT", "FAILED"}
  PROVE  EmailInv(r)'
<1>1. EmailRefs(r)' = EmailRefs(r)
  BY SameReported
<1>2. CASE emails'[r] = {}
  BY <1>2 DEF EmailInv
<1>3. CASE emails'[r] # {}
  <2>1. emails'[r] = emails[r] /\ emails[r] # {}
    BY <1>3
  <2>2. \A k \in EmailRefs(r) : k \in Key /\ cache[k] # None /\ cache'[k] = cache[k]
    BY <1>3, <2>1 DEF EmailInv
  <2>3. \A k \in EmailRefs(r) : (IF cache'[k] # None THEN cache'[k] ELSE text'[k]) = TextOf(k)
    BY <2>2 DEF TextOf
  <2>4. Email(r)' = Email(r)
    BY <2>3, SameEmail
  <2>5. emails'[r] \subseteq {Email(r)'}
    BY <2>1, <2>4 DEF EmailInv
  <2>6. \A k \in EmailRefs(r)' : k \in Key /\ cache'[k] # None
    BY <1>1, <2>2
  <2> QED
    BY <1>3, <2>5, <2>6 DEF EmailInv
<1> QED
  BY <1>2, <1>3

\* Steps that leave every row alone, and of each run the e-mails or nothing.
LEMMA QuietRuns ==
  ASSUME TemplatesInv, UNCHANGED <<run, stage, latest, begun>>, tasks' \subseteq tasks,
         \A r \in Runs : emails'[r] = {} \/ (emails'[r] = emails[r] /\ cache' = cache)
  PROVE  \A r \in Runs : RowsInv(r)' /\ EmailInv(r)'
<1> SUFFICES ASSUME NEW r \in Runs PROVE RowsInv(r)' /\ EmailInv(r)'
  OBVIOUS
<1>1. run \in [Runs -> RunRow] /\ RowsInv(r) /\ EmailInv(r)
  BY DEF TemplatesInv, ShapeInv
<1>2. SameRows(r)
  BY DEF SameRows
<1>3. RowsInv(r)'
  BY <1>1, <1>2, SameRowsInv
<1>4. emails[r] # {} => run[r].state \in {"SENT", "FAILED"}
  BY <1>1 DEF EmailInv
<1>5. r \in tasks => run[r].state = "READY"
  BY <1>1 DEF EmailInv
<1>6. EmailInv(r)'
  BY <1>1, <1>2, <1>4, <1>5, SameEmailInv
<1> QED
  BY <1>3, <1>6

\* A step that answers no RPC.
LEMMA NoAnswerInv ==
  ASSUME answer' = NoAnswer
  PROVE  AnswerInv'
<1>1. answer'.status = "OK" /\ answer'.retry = FALSE /\ answer'.expected = FALSE
  BY DEF NoAnswer
<1>2. answer'.retry = answer'.expected
  BY <1>1, Zenon
<1>3. answer'.status \in Status /\ answer'.status # "INTERNAL"
  BY <1>1 DEF Status
<1> QED
  BY <1>2, <1>3 DEF AnswerInv, AnswersAreTruthful

LEMMA NoFileLoads ==
  Loadable(NoFile.templates) /\ VocabularyLoads(NoFile.tags)
BY DEF NoFile, Loadable, VocabularyLoads

\* The invariant holds initially, and every step preserves it.
LEMMA TemplatesInitInv == TemplatesInit => TemplatesInv
<1> SUFFICES ASSUME TemplatesInit PROVE TemplatesInv
  OBVIOUS
<1>1. ShapeInv
  <2>1. NoRun \in RunRow
    BY DEF NoRun, RunRow, RunState, NoRef
  <2>2. "a" \in Text /\ up \in BOOLEAN
    BY DEF TemplatesInit, Text
  <2> QED
    BY <2>1, <2>2 DEF TemplatesInit, ShapeInv
<1>2. FilesInv
  BY NoFileLoads DEF TemplatesInit, FilesInv
<1>3. AnswerInv
  <2>1. answer.status = "OK" /\ answer.retry = FALSE /\ answer.expected = FALSE
    BY DEF TemplatesInit, NoAnswer
  <2>2. answer.retry = answer.expected
    BY <2>1, Zenon
  <2>3. answer.status \in Status /\ answer.status # "INTERNAL"
    BY <2>1 DEF Status
  <2> QED
    BY <2>2, <2>3 DEF AnswerInv, AnswersAreTruthful
<1>4. ASSUME NEW r \in Runs
      PROVE  RowsInv(r) /\ EmailInv(r)
  <2>1. run[r].state = "none" /\ run[r].declared = <<>> /\ stage[r] = <<>>
        /\ latest[r] = <<>> /\ emails[r] = {} /\ r \notin tasks
    BY DEF TemplatesInit, NoRun
  <2>2. DistinctIds(run[r].declared) /\ IdsOf(run[r].declared) = {}
    BY <2>1 DEF DistinctIds, IdsOf
  <2>3. Reported(r) = {}
    BY <2>1 DEF Reported
  <2>4. stage[r] \in [{} -> Stage] /\ latest[r] \in [{} -> Submission]
    BY <2>1
  <2>5. RowsInv(r)
    BY <2>1, <2>2, <2>3, <2>4 DEF RowsInv
  <2>6. EmailInv(r)
    BY <2>1 DEF EmailInv
  <2> QED
    BY <2>5, <2>6
<1> QED
  BY <1>1, <1>2, <1>3, <1>4 DEF TemplatesInv

LEMMA EditFilesInv == TemplatesInv /\ EditFiles => TemplatesInv'
<1> SUFFICES ASSUME TemplatesInv, EditFiles PROVE TemplatesInv'
  OBVIOUS
<1>1. UNCHANGED <<text, loaded, up, cache, run, stage, tasks, begun, latest, emails>>
      /\ file' \in Files /\ answer' = NoAnswer
  BY DEF EditFiles, process, rows, history
<1>2. ShapeInv' /\ FilesInv'
  BY <1>1 DEF TemplatesInv, ShapeInv, FilesInv
<1>3. \A r \in Runs : RowsInv(r)' /\ EmailInv(r)'
  BY <1>1, QuietRuns
<1> QED
  BY <1>1, <1>2, <1>3, NoAnswerInv DEF TemplatesInv

LEMMA EditSourceInv == TemplatesInv /\ EditSource => TemplatesInv'
<1> SUFFICES ASSUME TemplatesInv, EditSource PROVE TemplatesInv'
  OBVIOUS
<1>1. UNCHANGED <<file, loaded, up, cache, run, stage, tasks, begun, latest, emails>>
      /\ answer' = NoAnswer
  BY DEF EditSource, process, rows, history
<1>2. text' \in [Key -> Text]
  <2>1. PICK e \in Edits : text' = [text EXCEPT ![e[1]] = e[2]]
    BY DEF EditSource
  <2>2. e[1] \in Key /\ e[2] \in Text
    BY EditsAssumption
  <2>3. text \in [Key -> Text]
    BY DEF TemplatesInv, ShapeInv
  <2> HIDE DEF TemplatesInv
  <2> QED
    BY <2>1, <2>2, <2>3
<1>3. ShapeInv' /\ FilesInv'
  BY <1>1, <1>2 DEF TemplatesInv, ShapeInv, FilesInv
<1>4. \A r \in Runs : RowsInv(r)' /\ EmailInv(r)'
  BY <1>1, QuietRuns
<1> QED
  BY <1>1, <1>3, <1>4, NoAnswerInv DEF TemplatesInv

LEMMA StartInv == TemplatesInv /\ Start => TemplatesInv'
<1> SUFFICES ASSUME TemplatesInv, Start PROVE TemplatesInv'
  OBVIOUS
<1>1. UNCHANGED <<file, text, cache, run, stage, tasks, begun, latest, emails>>
      /\ answer' = NoAnswer /\ loaded' = file /\ up' = TRUE
  BY DEF Start, disk, rows, history
<1>2. ShapeInv'
  BY <1>1 DEF TemplatesInv, ShapeInv
<1>3. FilesInv'
  BY <1>1 DEF Start, TemplatesInv, ShapeInv, FilesInv
<1>4. \A r \in Runs : RowsInv(r)' /\ EmailInv(r)'
  BY <1>1, QuietRuns
<1> QED
  BY <1>1, <1>2, <1>3, <1>4, NoAnswerInv DEF TemplatesInv

LEMMA StopInv == TemplatesInv /\ Stop => TemplatesInv'
<1> SUFFICES ASSUME TemplatesInv, Stop PROVE TemplatesInv'
  OBVIOUS
<1>1. UNCHANGED <<file, text, run, stage, begun, latest>>
      /\ answer' = NoAnswer /\ loaded' = NoFile /\ up' = FALSE /\ tasks' = {}
      /\ emails' = [r \in Runs |-> {}] /\ cache' = [k \in Key |-> None]
  BY DEF Stop, disk, rows, history
<1>2. ShapeInv'
  BY <1>1 DEF TemplatesInv, ShapeInv
<1>3. FilesInv'
  BY <1>1, NoFileLoads DEF FilesInv
<1>4. \A r \in Runs : RowsInv(r)' /\ EmailInv(r)'
  BY <1>1, QuietRuns
<1> QED
  BY <1>1, <1>2, <1>3, <1>4, NoAnswerInv DEF TemplatesInv

-----------------------------------------------------------------------------
(* Requests: which error, which status.                                    *)

\* Every error of the three families has a status other than INTERNAL.
LEMMA StatusFacts ==
  ASSUME NEW err
  PROVE  /\ StatusCodeFor(err) \in Status
         /\ err \in ValidationErrors \union NotFoundErrors \union PreconditionErrors \union {None}
              => StatusCodeFor(err) # "INTERNAL"
BY DEF StatusCodeFor, Status, ValidationErrors, NotFoundErrors, PreconditionErrors, None

\* The checks of BeginRun: what a request passed that raised no error.
LEMMA BeginRunChecks ==
  ASSUME NEW q
  PROVE  /\ BeginRunError(q) \in ValidationErrors \union {None}
         /\ BeginRunError(q) = None =>
              LET mode == DomainMode(q.mode)
                  single == mode = "SINGLE_AGGREGATED"
                  D == DOMAIN q.declared
              IN /\ mode \in Mode
                 /\ \A i \in D : /\ RefGiven(q.declared[i].ref)
                                 /\ q.declared[i].stage_id # 0 /\ q.declared[i].stage_order >= 0
                 /\ HasRef(q.agg) => RefGiven(q.agg)
                 /\ q.pipeline \in Pipelines
                 /\ \A i, j \in D : q.declared[i].stage_id = q.declared[j].stage_id => i = j
                 /\ single => HasRef(q.agg)
                 /\ single => Known(q.agg)
                 /\ \A i \in D : Known(q.declared[i].ref)
<1> DEFINE mode == DomainMode(q.mode)
           single == mode = "SINGLE_AGGREGATED"
           D == DOMAIN q.declared
           c1 == mode \in Mode
           c2 == \A i \in D : /\ RefGiven(q.declared[i].ref)
                              /\ q.declared[i].stage_id # 0 /\ q.declared[i].stage_order >= 0
           c3 == HasRef(q.agg) => RefGiven(q.agg)
           c4 == q.pipeline # ""
           c5 == q.pipeline \in Pipelines
           c6 == \A t \in q.tags : ContainsTag(t)
           c7 == \A i, j \in D : q.declared[i].stage_id = q.declared[j].stage_id => i = j
           c8 == single => HasRef(q.agg)
           c9 == single => Known(q.agg)
           c10 == \A i \in D : Known(q.declared[i].ref)
           es == << Unless(c1, "MalformedRequest"), Unless(c2, "MalformedRequest"),
                    Unless(c3, "MalformedRequest"), Unless(c4, "MalformedRequest"),
                    Unless(c5, "UnknownPipelineType"), Unless(c6, "UnknownTag"),
                    Unless(c7, "DuplicateStageId"), Unless(c8, "MissingAggregationTemplate"),
                    Unless(c9, "UnknownTemplate"), Unless(c10, "UnknownTemplate") >>
<1>1. BeginRunError(q) = FirstError(es)
  BY DEF BeginRunError
<1> HIDE DEF c1, c2, c3, c4, c5, c6, c7, c8, c9, c10
<1>2. DOMAIN es = 1 .. 10
  OBVIOUS
<1>3. \A i \in DOMAIN es : es[i] \in ValidationErrors \union {None}
  <2>1. /\ es[1] \in ValidationErrors \union {None} /\ es[2] \in ValidationErrors \union {None}
        /\ es[3] \in ValidationErrors \union {None} /\ es[4] \in ValidationErrors \union {None}
        /\ es[5] \in ValidationErrors \union {None} /\ es[6] \in ValidationErrors \union {None}
        /\ es[7] \in ValidationErrors \union {None} /\ es[8] \in ValidationErrors \union {None}
        /\ es[9] \in ValidationErrors \union {None} /\ es[10] \in ValidationErrors \union {None}
    BY DEF Unless, ValidationErrors
  <2> HIDE DEF es
  <2>2. \A i \in 1 .. 10 : i \in {1, 2, 3, 4, 5, 6, 7, 8, 9, 10}
    OBVIOUS
  <2> QED
    BY <1>2, <2>1, <2>2
<1>4. ASSUME FirstError(es) = None
      PROVE  c1 /\ c2 /\ c3 /\ c5 /\ c7 /\ c8 /\ c9 /\ c10
  <2>1. \A i \in 1 .. 10 : es[i] = None
    <3>1. DOMAIN es \subseteq Nat
      BY <1>2
    <3> HIDE DEF es
    <3> QED
      BY <1>2, <1>4, <3>1, FirstErrorIsNone
  <2>2. /\ es[1] = None /\ es[2] = None /\ es[3] = None /\ es[5] = None /\ es[7] = None
        /\ es[8] = None /\ es[9] = None /\ es[10] = None
    <3> HIDE DEF es
    <3> QED
      BY <2>1
  <2> QED
    BY <2>2 DEF Unless, None
<1>5. FirstError(es) \in ValidationErrors \union {None}
  <2>1. DOMAIN es \subseteq Nat
    BY <1>2
  <2> HIDE DEF es
  <2> QED
    BY <1>3, <2>1, FirstErrorIsFirst
<1> HIDE DEF es
<1>6. BeginRunError(q) = None => c1 /\ c2 /\ c3 /\ c5 /\ c7 /\ c8 /\ c9 /\ c10
  BY <1>1, <1>4
<1> QED
  BY <1>1, <1>5, <1>6 DEF c1, c2, c3, c5, c7, c8, c9, c10

\* What is loaded has the shape of a manifest.
LEMMA LoadedTyped ==
  ASSUME FilesInv
  PROVE  /\ loaded.templates \in Seq(Entry)
         /\ Len(loaded.templates) \in Nat
         /\ DOMAIN loaded.templates = 1 .. Len(loaded.templates)
         /\ \A i \in DOMAIN loaded.templates : loaded.templates[i].key \in Key
         /\ Keys(loaded.templates) \subseteq Key
<1>1. loaded.templates \in Seq(Entry)
  <2>1. CASE loaded \in Files
    BY <2>1, FilesAssumption
  <2>2. CASE loaded = NoFile
    BY <2>2 DEF NoFile
  <2> QED
    BY <2>1, <2>2 DEF FilesInv
<1>2. /\ Len(loaded.templates) \in Nat
      /\ DOMAIN loaded.templates = 1 .. Len(loaded.templates)
      /\ \A i \in DOMAIN loaded.templates : loaded.templates[i] \in Entry
  BY <1>1
<1>3. \A i \in DOMAIN loaded.templates : loaded.templates[i].key \in Key
  BY <1>2 DEF Entry
<1> QED
  BY <1>1, <1>2, <1>3 DEF Keys

\* resolve_latest returns an entry of the name that none of the name outranks.
LEMMA ResolveLatestFacts ==
  ASSUME FilesInv, NEW name, Candidates(name) # {}
  PROVE  /\ ResolveLatest(name) \in Keys(loaded.templates)
         /\ ResolveLatest(name).name = name
         /\ \A k \in Keys(loaded.templates) :
              k.name = name => Rank[k.version] <= Rank[ResolveLatest(name).version]
<1> DEFINE t == loaded.templates
           C == Candidates(name)
           rank == [i \in C |-> Rank[t[i].key.version]]
           highest == {i \in C : \A j \in C : Rank[t[j].key.version] <= Rank[t[i].key.version]}
           m == Min(highest)
<1>1. Len(t) \in Nat /\ DOMAIN t = 1 .. Len(t) /\ \A i \in DOMAIN t : t[i].key \in Key
  BY LoadedTyped
<1>2. C \subseteq 1 .. Len(t) /\ \A i \in C : t[i].key.name = name
  BY <1>1 DEF Candidates
<1>3. \A i \in DOMAIN t : Rank[t[i].key.version] \in Nat
  <2> SUFFICES ASSUME NEW i \in DOMAIN t PROVE Rank[t[i].key.version] \in Nat
    OBVIOUS
  <2>1. t[i].key.version \in Versions
    BY <1>1 DEF Key
  <2> HIDE DEF t
  <2> QED
    BY <2>1, RankAssumption
<1>4. rank \in [C -> Nat]
  BY <1>1, <1>2, <1>3
<1>5. \E i \in C : \A j \in C : rank[j] <= rank[i]
  <2> HIDE DEF rank, C, t
  <2> QED
    BY <1>1, <1>2, <1>4, HighestExists DEF C
<1>6. highest # {}
  BY <1>5
<1>7. m \in highest
  <2>1. highest \subseteq Nat
    BY <1>1, <1>2
  <2> HIDE DEF highest
  <2> QED
    BY <1>6, <2>1, MinIsLeast
<1>8. ResolveLatest(name) = t[m].key
  BY DEF ResolveLatest
<1>9. m \in C /\ \A j \in C : Rank[t[j].key.version] <= Rank[t[m].key.version]
  BY <1>7
<1> HIDE DEF m, highest
<1>10. m \in DOMAIN t
  BY <1>1, <1>2, <1>9
<1>11. ASSUME NEW j \in DOMAIN t, t[j].key.name = name
       PROVE  Rank[t[j].key.version] <= Rank[t[m].key.version]
  <2>1. CASE Rank[t[j].key.version] = 0
    <3>1. Rank[t[m].key.version] \in Nat
      BY <1>3, <1>10
    <3> QED
      BY <2>1, <3>1
  <2>2. CASE Rank[t[j].key.version] # 0
    <3>1. j \in C
      BY <1>11, <2>2 DEF Candidates
    <3> QED
      BY <1>9, <3>1
  <2> QED
    BY <2>1, <2>2
<1>12. t[m].key \in Keys(t) /\ t[m].key.name = name
  BY <1>2, <1>9, <1>10 DEF Keys
<1>13. \A k \in Keys(t) : k.name = name => Rank[k.version] <= Rank[t[m].key.version]
  BY <1>11 DEF Keys
<1> HIDE DEF t
<1> QED
  BY <1>8, <1>12, <1>13 DEF t

\* A reference BeginRun accepts is pinned as promised.
LEMMA KnownIsPinned ==
  ASSUME FilesInv, NEW ref, Known(ref)
  PROVE  /\ PinnedAs(ref, MaybeResolveLatest(ref), loaded.templates)
         /\ MaybeResolveLatest(ref) \in Key
         /\ MaybeResolveLatest(ref).name = ref.name
<1>1. MaybeResolveLatest(ref) \in Keys(loaded.templates)
  BY DEF Known, Exists
<1>2. MaybeResolveLatest(ref) \in Key
  BY <1>1, LoadedTyped
<1>3. CASE ref.version = Latest
  <2>1. MaybeResolveLatest(ref) = ResolveLatest(ref.name) /\ Candidates(ref.name) # {}
    BY <1>3 DEF Known, MaybeResolveLatest
  <2>2. /\ ResolveLatest(ref.name).name = ref.name
        /\ \A k \in Keys(loaded.templates) :
             k.name = ref.name => Rank[k.version] <= Rank[ResolveLatest(ref.name).version]
    BY <2>1, ResolveLatestFacts
  <2> QED
    BY <1>1, <1>2, <1>3, <2>1, <2>2 DEF PinnedAs
<1>4. CASE ref.version # Latest
  BY <1>1, <1>2, <1>4 DEF PinnedAs, MaybeResolveLatest
<1> QED
  BY <1>3, <1>4

\* The declared stages of an accepted request, with their references pinned.
PinnedStages(q) ==
  [i \in DOMAIN q.declared |-> [q.declared[i] EXCEPT !.ref = MaybeResolveLatest(@)]]

\* An accepted request declares distinct stages, each with a pinned template.
LEMMA PinnedStagesFacts ==
  ASSUME FilesInv, NEW q \in BeginRequests, BeginRunError(q) = None
  PROVE  /\ PinnedStages(q) \in Seq(Declared)
         /\ DistinctIds(PinnedStages(q))
         /\ q.declared \in Seq(Asked)
         /\ DOMAIN q.declared = DOMAIN PinnedStages(q)
         /\ \A i \in DOMAIN q.declared :
              /\ PinnedStages(q)[i].stage_id = q.declared[i].stage_id
              /\ PinnedStages(q)[i].stage_order = q.declared[i].stage_order
              /\ PinnedStages(q)[i].ref \in Key
              /\ PinnedAs(q.declared[i].ref, PinnedStages(q)[i].ref, loaded.templates)
<1> DEFINE d == PinnedStages(q)
<1>1. q.declared \in Seq(Asked)
  BY RequestsAssumption
<1>2. Len(q.declared) \in Nat /\ DOMAIN q.declared = 1 .. Len(q.declared)
      /\ \A i \in DOMAIN q.declared : q.declared[i] \in Asked
  BY <1>1
<1>3. DOMAIN d = DOMAIN q.declared
  BY DEF PinnedStages
<1>4. ASSUME NEW i \in DOMAIN q.declared
      PROVE  /\ d[i].stage_id = q.declared[i].stage_id
             /\ d[i].stage_order = q.declared[i].stage_order
             /\ d[i].ref \in Key
             /\ PinnedAs(q.declared[i].ref, d[i].ref, loaded.templates)
             /\ d[i] \in Declared
  <2>1. Known(q.declared[i].ref) /\ q.declared[i].stage_order >= 0
    BY BeginRunChecks
  <2>2. q.declared[i] \in Asked
    BY <1>2
  <2>3. d[i] = [q.declared[i] EXCEPT !.ref = MaybeResolveLatest(@)]
    BY DEF PinnedStages
  <2>4. /\ q.declared[i] = [stage_id |-> q.declared[i].stage_id,
                            stage_order |-> q.declared[i].stage_order,
                            ref |-> q.declared[i].ref]
        /\ q.declared[i].stage_id \in StageIds /\ q.declared[i].stage_order \in Int
    BY <2>2 DEF Asked
  <2>5. d[i] = [stage_id |-> q.declared[i].stage_id,
                stage_order |-> q.declared[i].stage_order,
                ref |-> MaybeResolveLatest(q.declared[i].ref)]
    <3> HIDE DEF d
    <3> QED
      BY <2>3, <2>4
  <2>6. /\ MaybeResolveLatest(q.declared[i].ref) \in Key
        /\ PinnedAs(q.declared[i].ref, MaybeResolveLatest(q.declared[i].ref), loaded.templates)
    BY <2>1, KnownIsPinned
  <2>7. q.declared[i].stage_order \in Nat
    BY <2>1, <2>4
  <2> HIDE DEF d
  <2>8. d[i] \in Declared
    BY <2>4, <2>5, <2>6, <2>7 DEF Declared
  <2> QED
    BY <2>5, <2>6, <2>8
<1>5. \A i, j \in DOMAIN q.declared : q.declared[i].stage_id = q.declared[j].stage_id => i = j
  BY BeginRunChecks
<1>6. DistinctIds(d)
  BY <1>3, <1>4, <1>5 DEF DistinctIds
<1>7. d \in Seq(Declared)
  <2>1. d \in [1 .. Len(q.declared) -> Declared]
    <3>1. d = [i \in 1 .. Len(q.declared) |-> d[i]]
      BY <1>2 DEF PinnedStages
    <3> HIDE DEF d
    <3> QED
      BY <1>2, <1>4, <3>1
  <2> HIDE DEF d
  <2> QED
    BY <1>2, <2>1
<1> QED
  BY <1>1, <1>3, <1>4, <1>6, <1>7

\* What BeginRunUseCase writes.
LEMMA BegunFacts ==
  ASSUME TemplatesInv, NEW r \in Runs, NEW q \in BeginRequests, BeginRunError(q) = None,
         Begun(r, q)
  PROVE  LET d == PinnedStages(q)
             mode == DomainMode(q.mode)
             agg == IF mode = "SINGLE_AGGREGATED" THEN MaybeResolveLatest(q.agg) ELSE NoRef
         IN /\ run' = [run EXCEPT ![r] =
                 [state |-> "INITIATED", pipeline |-> q.pipeline, mode |-> mode,
                  agg |-> agg, declared |-> d]]
            /\ DOMAIN stage' = Runs
            /\ \A x \in Runs \ {r} : stage'[x] = stage[x]
            /\ DOMAIN stage'[r] = IdsOf(d)
            /\ stage'[r] \in [IdsOf(d) -> Stage]
            /\ \A s \in IdsOf(d) : stage'[r][s].state = "PENDING"
            /\ \A i \in DOMAIN d : stage'[r][d[i].stage_id].ref = d[i].ref
            /\ begun' = [begun EXCEPT ![r] = [request |-> q, manifest |-> loaded.templates]]
            /\ latest' = latest
            /\ mode \in Mode /\ q.pipeline \in Pipelines
            /\ agg # NoRef => PinnedAs(q.agg, agg, loaded.templates)
            /\ agg \in (IF mode = "PER_STAGE" THEN {NoRef} ELSE Key \ {NoRef})
<1> DEFINE d == PinnedStages(q)
           mode == DomainMode(q.mode)
           agg == IF mode = "SINGLE_AGGREGATED" THEN MaybeResolveLatest(q.agg) ELSE NoRef
           at(s) == CHOOSE i \in DOMAIN d : d[i].stage_id = s
           new == [s \in IdsOf(d) |-> [state |-> "PENDING", ref |-> d[at(s)].ref, row |-> Empty]]
<1>1. /\ run' = [run EXCEPT ![r] =
           [state |-> "INITIATED", pipeline |-> q.pipeline, mode |-> mode,
            agg |-> agg, declared |-> d]]
      /\ stage' = [stage EXCEPT ![r] = new]
      /\ begun' = [begun EXCEPT ![r] = [request |-> q, manifest |-> loaded.templates]]
      /\ latest' = latest
  BY DEF Begun, PinnedStages, IdsOf
<1>2. FilesInv /\ DOMAIN stage = Runs
  BY DEF TemplatesInv, ShapeInv
<1>3. mode \in Mode /\ q.pipeline \in Pipelines
  BY BeginRunChecks
<1>4. /\ agg # NoRef => PinnedAs(q.agg, agg, loaded.templates)
      /\ agg \in (IF mode = "PER_STAGE" THEN {NoRef} ELSE Key \ {NoRef})
  <2>1. CASE mode = "SINGLE_AGGREGATED"
    <3>1. HasRef(q.agg) /\ RefGiven(q.agg) /\ Known(q.agg)
      BY <2>1, BeginRunChecks
    <3>2. /\ PinnedAs(q.agg, MaybeResolveLatest(q.agg), loaded.templates)
          /\ MaybeResolveLatest(q.agg) \in Key
          /\ MaybeResolveLatest(q.agg).name = q.agg.name
      BY <1>2, <3>1, KnownIsPinned
    <3>3. MaybeResolveLatest(q.agg) # NoRef
      <4>1. q.agg.name # ""
        BY <3>1 DEF RefGiven
      <4>2. NoRef.name = ""
        BY DEF NoRef
      <4> QED
        BY <3>2, <4>1, <4>2, Zenon
    <3> QED
      BY <2>1, <3>2, <3>3
  <2>2. CASE mode # "SINGLE_AGGREGATED"
    <3>1. mode = "PER_STAGE"
      BY <1>3, <2>2 DEF Mode
    <3> QED
      BY <3>1
  <2> QED
    BY <2>1, <2>2
<1> HIDE DEF mode, agg
<1>5. /\ DistinctIds(d)
      /\ \A i \in DOMAIN d : d[i].ref \in Key
  BY <1>2, PinnedStagesFacts
<1> HIDE DEF d
<1>6. ASSUME NEW i \in DOMAIN d
      PROVE  d[i].stage_id \in IdsOf(d) /\ at(d[i].stage_id) = i
  <2>1. /\ at(d[i].stage_id) \in DOMAIN d
        /\ d[at(d[i].stage_id)].stage_id = d[i].stage_id
    OBVIOUS
  <2> HIDE DEF at
  <2> QED
    BY <1>5, <2>1 DEF DistinctIds, IdsOf
<1>7. \A s \in IdsOf(d) : d[at(s)].ref \in Key
  BY <1>5, <1>6 DEF IdsOf
<1> HIDE DEF at
<1>8. /\ new \in [IdsOf(d) -> Stage]
      /\ DOMAIN new = IdsOf(d)
      /\ \A s \in IdsOf(d) : new[s].state = "PENDING"
      /\ \A i \in DOMAIN d : new[d[i].stage_id].ref = d[i].ref
  <2>1. Empty \in Contribution
    BY DEF Empty, Contribution
  <2>2. \A s \in IdsOf(d) : [state |-> "PENDING", ref |-> d[at(s)].ref, row |-> Empty] \in Stage
    BY <1>7, <2>1 DEF Stage
  <2>3. \A s \in IdsOf(d) : new[s].state = "PENDING" /\ new[s].ref = d[at(s)].ref
    OBVIOUS
  <2>4. \A i \in DOMAIN d : new[d[i].stage_id].ref = d[i].ref
    <3> HIDE DEF new
    <3> QED
      BY <1>6, <2>3
  <2> QED
    BY <2>2, <2>3, <2>4
<1> HIDE DEF new
<1>9. DOMAIN stage' = Runs /\ stage'[r] = new /\ \A x \in Runs \ {r} : stage'[x] = stage[x]
  BY <1>1, <1>2
<1> QED
  BY <1>1, <1>3, <1>4, <1>8, <1>9 DEF d, mode, agg

\* The rows of a run that has just begun.
LEMMA BegunRows ==
  ASSUME TemplatesInv, NEW r \in Runs, NEW q \in BeginRequests, BeginRunError(q) = None,
         Begun(r, q), run[r].state = "none"
  PROVE  RowsInv(r)' /\ run' \in [Runs -> RunRow]
<1> DEFINE d == PinnedStages(q)
           mode == DomainMode(q.mode)
           agg == IF mode = "SINGLE_AGGREGATED" THEN MaybeResolveLatest(q.agg) ELSE NoRef
           row == [state |-> "INITIATED", pipeline |-> q.pipeline, mode |-> mode,
                   agg |-> agg, declared |-> d]
<1>1. /\ run' = [run EXCEPT ![r] = row]
      /\ DOMAIN stage'[r] = IdsOf(d)
      /\ stage'[r] \in [IdsOf(d) -> Stage]
      /\ \A s \in IdsOf(d) : stage'[r][s].state = "PENDING"
      /\ \A i \in DOMAIN d : stage'[r][d[i].stage_id].ref = d[i].ref
      /\ begun' = [begun EXCEPT ![r] = [request |-> q, manifest |-> loaded.templates]]
      /\ latest' = latest
      /\ mode \in Mode /\ q.pipeline \in Pipelines
      /\ agg # NoRef => PinnedAs(q.agg, agg, loaded.templates)
      /\ agg \in (IF mode = "PER_STAGE" THEN {NoRef} ELSE Key \ {NoRef})
  BY BegunFacts
<1>2. /\ FilesInv /\ run \in [Runs -> RunRow] /\ DOMAIN begun = Runs
      /\ RowsInv(r)
  BY DEF TemplatesInv, ShapeInv
<1>3. /\ d \in Seq(Declared)
      /\ DistinctIds(d)
      /\ q.declared \in Seq(Asked)
      /\ DOMAIN q.declared = DOMAIN d
      /\ \A i \in DOMAIN d : d[i].stage_id = q.declared[i].stage_id
      /\ \A i \in DOMAIN d : d[i].stage_order = q.declared[i].stage_order
      /\ \A i \in DOMAIN d : PinnedAs(q.declared[i].ref, d[i].ref, loaded.templates)
  BY <1>2, PinnedStagesFacts
<1> HIDE DEF d, mode, agg
<1>4. /\ row \in RunRow
      /\ row.state = "INITIATED" /\ row.pipeline = q.pipeline /\ row.mode = mode
      /\ row.agg = agg /\ row.declared = d
  <2>1. agg \in Key \union {NoRef}
    BY <1>1
  <2>2. "INITIATED" \in RunState
    BY DEF RunState
  <2> QED
    BY <1>1, <1>3, <2>1, <2>2 DEF RunRow
<1> HIDE DEF row
<1>5. run'[r] = row /\ run' \in [Runs -> RunRow]
  BY <1>1, <1>2, <1>4
<1>6. begun'[r].request = q /\ begun'[r].manifest = loaded.templates
  BY <1>1, <1>2
<1>7. Pinned(r)'
  BY <1>1, <1>3, <1>4, <1>5, <1>6 DEF Pinned
<1>8. Reported(r)' = {}
  BY <1>1 DEF Reported
<1>9. latest'[r] \in [Reported(r)' -> Submission]
  <2>1. run[r].declared = <<>>
    BY <1>2 DEF RowsInv
  <2>2. IdsOf(run[r].declared) = {}
    BY <2>1 DEF IdsOf
  <2>3. Reported(r) = {}
    BY <1>2, <2>2, ReportedFacts
  <2> QED
    BY <1>1, <1>2, <1>8, <2>3 DEF RowsInv
<1>10. DistinctIds(run'[r].declared) /\ stage'[r] \in [IdsOf(run'[r].declared) -> Stage]
  BY <1>1, <1>3, <1>4, <1>5
<1>11. run'[r].state # "none"
  BY <1>4, <1>5
<1>12. RowsInv(r)'
  BY <1>7, <1>8, <1>9, <1>10, <1>11 DEF RowsInv
<1> QED
  BY <1>5, <1>12

\* Runs other than the one a step is about.
LEMMA OtherRun ==
  ASSUME TemplatesInv, NEW x \in Runs, run'[x] = run[x], stage'[x] = stage[x],
         begun'[x] = begun[x], latest'[x] = latest[x], emails'[x] = emails[x],
         x \in tasks' => x \in tasks,
         \A k \in Key : cache[k] # None => cache'[k] = cache[k]
  PROVE  RowsInv(x)' /\ EmailInv(x)'
<1>1. RowsInv(x) /\ EmailInv(x) /\ run \in [Runs -> RunRow]
  BY DEF TemplatesInv, ShapeInv
<1>2. SameRows(x)
  BY DEF SameRows
<1>3. RowsInv(x)'
  BY <1>1, <1>2, SameRowsInv
<1>4. /\ emails'[x] \in {emails[x], {}}
      /\ x \in tasks' => run'[x].state = "READY"
      /\ emails'[x] # {} => run'[x].state \in {"SENT", "FAILED"}
  BY <1>1 DEF EmailInv
<1>5. EmailInv(x)'
  BY <1>1, <1>2, <1>4, SameEmailInv
<1> QED
  BY <1>3, <1>5

\* An answer is truthful if its error has a status of its own or its contexts
\* hold a number that is not finite.
LEMMA AnsweredInv ==
  ASSUME NEW rpc, NEW contexts, NEW err, NEW retry, NEW expected,
         Answer(rpc, contexts, err, retry, expected), retry = expected,
         \/ err \in ValidationErrors \union NotFoundErrors \union PreconditionErrors
                      \union {None}
         \/ contexts \intersect NonFinite # {}
  PROVE  AnswerInv'
<1>1. /\ answer'.status = StatusCodeFor(err) /\ answer'.contexts = contexts
      /\ answer'.retry = retry /\ answer'.expected = expected
  BY DEF Answer
<1>2. answer'.retry = answer'.expected
  BY <1>1, Zenon
<1>3. StatusCodeFor(err) \in Status
      /\ (StatusCodeFor(err) = "INTERNAL" => contexts \intersect NonFinite # {})
  BY StatusFacts
<1> QED
  BY <1>1, <1>2, <1>3 DEF AnswerInv, AnswersAreTruthful

LEMMA BeginRunInv ==
  ASSUME NEW r \in Runs, NEW q \in BeginRequests, TemplatesInv, BeginRun(r, q)
  PROVE  TemplatesInv'
<1> DEFINE err == BeginRunError(q)
<1>1. /\ UNCHANGED <<file, text, loaded, up, cache, tasks, emails>>
      /\ run[r].state = "none"
      /\ Answer("BeginRun", {}, err, FALSE, FALSE)
      /\ IF err = None THEN Begun(r, q) ELSE UNCHANGED <<run, stage, begun, latest>>
  BY DEF BeginRun, disk, process, rows, history
<1>2. AnswerInv'
  <2>1. err \in ValidationErrors \union {None}
    BY BeginRunChecks
  <2> HIDE DEF err
  <2> QED
    BY <1>1, <2>1, AnsweredInv
<1>3. FilesInv'
  BY <1>1 DEF TemplatesInv, FilesInv
<1>4. CASE err # None
  <2>1. UNCHANGED <<run, stage, begun, latest>>
    BY <1>1, <1>4
  <2>2. ShapeInv'
    BY <1>1, <2>1 DEF TemplatesInv, ShapeInv
  <2>3. \A x \in Runs : RowsInv(x)' /\ EmailInv(x)'
    BY <1>1, <2>1, QuietRuns
  <2> QED
    BY <1>2, <1>3, <2>2, <2>3 DEF TemplatesInv
<1>5. CASE err = None
  <2>1. Begun(r, q)
    BY <1>1, <1>5
  <2>2. RowsInv(r)' /\ run' \in [Runs -> RunRow]
    BY <1>1, <1>5, <2>1, BegunRows
  <2>3. /\ \A x \in Runs \ {r} : run'[x] = run[x]
        /\ DOMAIN stage' = Runs
        /\ \A x \in Runs \ {r} : stage'[x] = stage[x]
        /\ DOMAIN begun' = Runs
        /\ \A x \in Runs \ {r} : begun'[x] = begun[x]
        /\ latest' = latest
    <3>1. run \in [Runs -> RunRow] /\ DOMAIN begun = Runs
      BY DEF TemplatesInv, ShapeInv
    <3>2. /\ DOMAIN stage' = Runs
          /\ \A x \in Runs \ {r} : stage'[x] = stage[x]
          /\ latest' = latest
      BY <1>5, <2>1, BegunFacts
    <3>3. PICK row : run' = [run EXCEPT ![r] = row]
      BY <2>1 DEF Begun
    <3>4. PICK b : begun' = [begun EXCEPT ![r] = b]
      BY <2>1 DEF Begun
    <3>5. \A x \in Runs \ {r} : run'[x] = run[x]
      BY <3>1, <3>3
    <3>6. DOMAIN begun' = Runs /\ \A x \in Runs \ {r} : begun'[x] = begun[x]
      BY <3>1, <3>4
    <3> QED
      BY <3>2, <3>5, <3>6
  <2>4. ShapeInv'
    BY <1>1, <2>2, <2>3 DEF TemplatesInv, ShapeInv
  <2>5. ASSUME NEW x \in Runs \ {r}
        PROVE  RowsInv(x)' /\ EmailInv(x)'
    BY <1>1, <2>3, OtherRun
  <2>6. EmailInv(r)'
    <3>1. EmailInv(r)
      BY DEF TemplatesInv
    <3>2. emails[r] = {} /\ r \notin tasks
      BY <1>1, <3>1 DEF EmailInv
    <3>3. emails'[r] = {} /\ r \notin tasks'
      BY <1>1, <3>2
    <3> QED
      BY <3>3 DEF EmailInv
  <2>7. \A x \in Runs : RowsInv(x)' /\ EmailInv(x)'
    BY <2>2, <2>5, <2>6
  <2> QED
    BY <1>2, <1>3, <2>4, <2>7 DEF TemplatesInv
<1> QED
  BY <1>4, <1>5

\* The checks of SubmitStageReport: only a number that is not finite raises an
\* error without a status of its own.
LEMMA SubmitChecks ==
  ASSUME NEW r, NEW q
  PROVE  /\ \/ SubmitError(r, q) \in ValidationErrors \union NotFoundErrors
                                       \union PreconditionErrors \union {None}
            \/ {q.report, q.body} \intersect NonFinite # {}
         /\ SubmitError(r, q) = None =>
              /\ q.body # NULL => DomainPosition(q.position) \in Position
              /\ r \in Runs
              /\ run[r].state \in {"INITIATED", "AGGREGATING"}
              /\ q.stage_id \in DOMAIN stage[r]
<1> DEFINE began == r \in Runs /\ run[r].state # "none"
           Plain == ValidationErrors \union NotFoundErrors \union PreconditionErrors \union {None}
           c1 == q.report # NULL => Convertible(q.report)
           c2 == q.body # NULL => Convertible(q.body)
           c3 == q.body # NULL => DomainPosition(q.position) \in Position
           c4 == q.stage_id # 0
           c5 == r \in Runs
           c7 == began => run[r].state \in {"INITIATED", "AGGREGATING"}
           c8 == began => q.stage_id \in DOMAIN stage[r]
           es == << Unless(c1, "ValueError"), Unless(c2, "ValueError"),
                    Unless(c3, "MalformedRequest"), Unless(c4, "MalformedRequest"),
                    Unless(c5, "MalformedRequest"), Unless(began, "RunNotFound"),
                    Unless(c7, "InvalidRunState"), Unless(c8, "UnknownStage") >>
<1>1. SubmitError(r, q) = FirstError(es)
  BY DEF SubmitError
<1>2. ~(c1 /\ c2) => {q.report, q.body} \intersect NonFinite # {}
  BY DEF Convertible
<1> HIDE DEF c1, c2, c3, c4, c5, c7, c8, began
<1>3. DOMAIN es = 1 .. 8 /\ DOMAIN es \subseteq Nat
  OBVIOUS
<1>4. ASSUME c1, c2
      PROVE  \A i \in DOMAIN es : es[i] \in Plain
  <2>1. /\ es[1] \in Plain /\ es[2] \in Plain /\ es[3] \in Plain /\ es[4] \in Plain
        /\ es[5] \in Plain /\ es[6] \in Plain /\ es[7] \in Plain /\ es[8] \in Plain
    BY <1>4 DEF Unless, ValidationErrors, NotFoundErrors, PreconditionErrors
  <2> HIDE DEF es, Plain
  <2>2. \A i \in 1 .. 8 : i \in {1, 2, 3, 4, 5, 6, 7, 8}
    OBVIOUS
  <2> QED
    BY <1>3, <2>1, <2>2
<1>5. c1 /\ c2 => FirstError(es) \in Plain
  <2>1. None \in Plain
    OBVIOUS
  <2> HIDE DEF es, Plain
  <2> QED
    BY <1>3, <1>4, <2>1, FirstErrorIsFirst
<1>6. ASSUME FirstError(es) = None
      PROVE  c3 /\ c5 /\ began /\ c7 /\ c8
  <2>1. \A i \in 1 .. 8 : es[i] = None
    <3> HIDE DEF es
    <3> QED
      BY <1>3, <1>6, FirstErrorIsNone
  <2>2. es[3] = None /\ es[5] = None /\ es[6] = None /\ es[7] = None /\ es[8] = None
    <3> HIDE DEF es
    <3> QED
      BY <2>1
  <2> QED
    BY <2>2 DEF Unless, None
<1> HIDE DEF es
<1>7. SubmitError(r, q) = None => c3 /\ c5 /\ began /\ c7 /\ c8
  BY <1>1, <1>6
<1>8. SubmitError(r, q) \in Plain \/ {q.report, q.body} \intersect NonFinite # {}
  BY <1>1, <1>2, <1>5
<1> QED
  BY <1>7, <1>8 DEF c3, c5, c7, c8, began

\* What an accepted submission does to the rows of its run.
LEMMA SubmittedRows ==
  ASSUME TemplatesInv, NEW r \in Runs, NEW q \in Submissions, SubmitError(r, q) = None,
         stage' = [stage EXCEPT ![r][q.stage_id] =
                     [@ EXCEPT !.state = IF WasRetry(r, q.stage_id) THEN "RETRIED" ELSE "SUBMITTED",
                               !.row = ToRow(r, q)]],
         run' = [run EXCEPT ![r].state = "AGGREGATING"],
         latest' = [latest EXCEPT ![r] =
                      [x \in DOMAIN @ \union {q.stage_id} |-> IF x = q.stage_id THEN q ELSE @[x]]],
         begun' = begun
  PROVE  RowsInv(r)'
<1> DEFINE s == q.stage_id
           ids == IdsOf(run[r].declared)
           new == [stage[r][s] EXCEPT
                     !.state = IF WasRetry(r, s) THEN "RETRIED" ELSE "SUBMITTED",
                     !.row = ToRow(r, q)]
<1>1. /\ RowsInv(r) /\ run \in [Runs -> RunRow] /\ DOMAIN stage = Runs /\ DOMAIN latest = Runs
  BY DEF TemplatesInv, ShapeInv
<1>2. /\ q.body # NULL => DomainPosition(q.position) \in Position
      /\ run[r].state \in {"INITIATED", "AGGREGATING"}
      /\ s \in DOMAIN stage[r]
  BY SubmitChecks
<1>3. stage[r] \in [ids -> Stage] /\ s \in ids
  BY <1>1, <1>2 DEF RowsInv
<1>4. q \in Submission
  BY RequestsAssumption
<1>5. /\ ToRow(r, q) \in Contribution
      /\ StoredAs(ToRow(r, q), q)
  <2>1. q.report \in Contexts \union {NULL} /\ q.body \in Contexts \union {NULL}
    BY <1>4 DEF Submission
  <2>2. (IF q.body = NULL THEN NULL ELSE DomainPosition(q.position)) \in Position \union {NULL}
    BY <1>2
  <2> QED
    BY <1>2, <2>1, <2>2 DEF ToRow, Contribution, StoredAs
<1>6. /\ new \in Stage /\ new.state \in {"SUBMITTED", "RETRIED"}
      /\ new.ref = stage[r][s].ref /\ new.row = ToRow(r, q)
  <2>1. stage[r][s] \in Stage
    BY <1>3
  <2> HIDE DEF s
  <2> QED
    BY <1>5, <2>1 DEF Stage
<1>7. stage'[r] = [stage[r] EXCEPT ![s] = new]
  BY <1>1
<1> HIDE DEF new, s
<1>8. /\ stage'[r] \in [ids -> Stage]
      /\ stage'[r][s] = new
      /\ \A x \in ids \ {s} : stage'[r][x] = stage[r][x]
      /\ \A x \in ids : stage'[r][x].ref = stage[r][x].ref
  <2> DEFINE f == stage[r]
             g == stage'[r]
  <2>1. f \in [ids -> Stage] /\ g = [f EXCEPT ![s] = new]
    BY <1>3, <1>7
  <2> HIDE DEF f, g, ids
  <2>2. g \in [ids -> Stage] /\ g[s] = new /\ \A x \in ids \ {s} : g[x] = f[x]
    BY <1>3, <1>6, <2>1
  <2>3. new.ref = f[s].ref
    BY <1>6 DEF f
  <2>4. \A x \in ids : g[x].ref = f[x].ref
    BY <2>2, <2>3
  <2> QED
    BY <2>2, <2>4 DEF f, g
<1>9. /\ run'[r].declared = run[r].declared /\ run'[r].pipeline = run[r].pipeline
      /\ run'[r].mode = run[r].mode /\ run'[r].agg = run[r].agg
      /\ run'[r].state = "AGGREGATING"
  BY <1>1 DEF RunRow
<1>10. Reported(r)' = Reported(r) \union {s}
  <2>1. DOMAIN stage'[r] = ids /\ DOMAIN stage[r] = ids
    BY <1>3, <1>8
  <2>2. \A x \in ids : stage'[r][x].state \in {"SUBMITTED", "RETRIED"}
                         <=> x = s \/ stage[r][x].state \in {"SUBMITTED", "RETRIED"}
    BY <1>6, <1>8
  <2>3. Reported(r)' = {x \in ids : stage'[r][x].state \in {"SUBMITTED", "RETRIED"}}
    BY <2>1 DEF Reported
  <2>4. Reported(r) = {x \in ids : stage[r][x].state \in {"SUBMITTED", "RETRIED"}}
    BY <2>1 DEF Reported
  <2> HIDE DEF ids
  <2> QED
    BY <1>3, <2>2, <2>3, <2>4
<1>11. /\ latest[r] \in [Reported(r) -> Submission]
       /\ latest'[r] = [x \in DOMAIN latest[r] \union {s} |-> IF x = s THEN q ELSE latest[r][x]]
  BY <1>1 DEF RowsInv, s
<1>12. /\ latest'[r] \in [Reported(r)' -> Submission]
       /\ latest'[r][s] = q
       /\ \A x \in Reported(r) \ {s} : latest'[r][x] = latest[r][x]
  <2> DEFINE L == latest[r]
             L1 == latest'[r]
             R == Reported(r)
  <2>1. L \in [R -> Submission] /\ L1 = [x \in R \union {s} |-> IF x = s THEN q ELSE L[x]]
    BY <1>11
  <2> HIDE DEF L, L1, R
  <2>2. /\ L1 \in [R \union {s} -> Submission] /\ L1[s] = q
        /\ \A x \in R \ {s} : L1[x] = L[x]
    BY <1>4, <2>1
  <2> QED
    BY <1>10, <2>2 DEF L, L1, R
<1>13. ASSUME NEW x \in Reported(r)'
       PROVE  StoredAs(stage'[r][x].row, latest'[r][x])
  <2>1. CASE x = s
    BY <1>5, <1>6, <1>8, <1>12, <2>1
  <2>2. CASE x # s
    <3>1. x \in Reported(r) /\ x \in ids
      BY <1>10, <2>2, <1>1, ReportedFacts
    <3>2. stage'[r][x] = stage[r][x] /\ latest'[r][x] = latest[r][x]
      BY <1>8, <1>12, <2>2, <3>1
    <3>3. StoredAs(stage[r][x].row, latest[r][x])
      BY <1>1, <3>1 DEF RowsInv
    <3> QED
      BY <3>2, <3>3
  <2> QED
    BY <2>1, <2>2
<1>14. (\A x \in Reported(r) : StoredAs(stage[r][x].row, latest[r][x]))'
  BY <1>13 DEF StoredAs
<1>15. Pinned(r)'
  <2>1. Pinned(r)
    BY <1>1, <1>2 DEF RowsInv
  <2>2. ASSUME NEW i \in DOMAIN run[r].declared
        PROVE  stage'[r][run[r].declared[i].stage_id].ref = run[r].declared[i].ref
    <3>1. run[r].declared[i].stage_id \in ids
      BY DEF IdsOf
    <3> QED
      BY <1>8, <2>1, <3>1 DEF Pinned
  <2> QED
    BY <1>9, <2>1, <2>2 DEF Pinned
<1> QED
  BY <1>1, <1>8, <1>9, <1>12, <1>14, <1>15 DEF RowsInv

LEMMA SubmitStageReportInv ==
  ASSUME NEW r \in Runs \union {NotARun}, NEW q \in Submissions, TemplatesInv,
         SubmitStageReport(r, q)
  PROVE  TemplatesInv'
<1> DEFINE err == SubmitError(r, q)
           s == q.stage_id
<1>1. UNCHANGED <<file, text, loaded, up, cache, tasks, begun, emails>>
  BY DEF SubmitStageReport, disk, process
<1>2. FilesInv'
  BY <1>1 DEF TemplatesInv, FilesInv
<1>3. \/ err \in ValidationErrors \union NotFoundErrors \union PreconditionErrors \union {None}
      \/ {q.report, q.body} \intersect NonFinite # {}
  BY SubmitChecks
<1>4. CASE err # None
  <2>1. UNCHANGED <<run, stage, latest>>
        /\ Answer("SubmitStageReport", {q.report, q.body}, err, FALSE, FALSE)
    BY <1>4 DEF SubmitStageReport, rows
  <2>2. AnswerInv'
    <3> HIDE DEF err
    <3> QED
      BY <1>3, <2>1, AnsweredInv
  <2>3. ShapeInv'
    BY <1>1, <2>1 DEF TemplatesInv, ShapeInv
  <2>4. \A x \in Runs : RowsInv(x)' /\ EmailInv(x)'
    BY <1>1, <2>1, QuietRuns
  <2> QED
    BY <1>2, <2>2, <2>3, <2>4 DEF TemplatesInv
<1>5. CASE err = None
  <2>1. /\ q.body # NULL => DomainPosition(q.position) \in Position
        /\ r \in Runs
        /\ run[r].state \in {"INITIATED", "AGGREGATING"}
        /\ s \in DOMAIN stage[r]
    BY <1>5, SubmitChecks
  <2>2. /\ Answer("SubmitStageReport", {q.report, q.body}, err, WasRetry(r, s),
                  s \in DOMAIN latest[r])
        /\ stage' = [stage EXCEPT ![r][s] =
             [@ EXCEPT !.state = IF WasRetry(r, s) THEN "RETRIED" ELSE "SUBMITTED",
                       !.row = ToRow(r, q)]]
        /\ run' = [run EXCEPT ![r].state = "AGGREGATING"]
        /\ latest' = [latest EXCEPT ![r] =
             [x \in DOMAIN @ \union {s} |-> IF x = s THEN q ELSE @[x]]]
    BY <1>5 DEF SubmitStageReport
  <2>3. /\ RowsInv(r) /\ EmailInv(r) /\ run \in [Runs -> RunRow] /\ DOMAIN stage = Runs
        /\ DOMAIN latest = Runs
    BY <2>1 DEF TemplatesInv, ShapeInv
  <2>4. RowsInv(r)'
    BY <1>1, <1>5, <2>1, <2>2, SubmittedRows
  <2>5. AnswerInv'
    <3>1. WasRetry(r, s) <=> s \in DOMAIN latest[r]
      <4>1. stage[r][s] \in Stage
        BY <2>1, <2>3 DEF RowsInv
      <4>2. stage[r][s].state \in {"PENDING", "SUBMITTED", "RETRIED"}
        BY <4>1 DEF Stage
      <4>3. DOMAIN latest[r] = Reported(r)
        BY <2>3 DEF RowsInv
      <4> QED
        BY <2>1, <4>2, <4>3 DEF WasRetry, Reported
    <3>2. answer' = [rpc |-> "SubmitStageReport", contexts |-> {q.report, q.body},
                     status |-> StatusCodeFor(err), retry |-> WasRetry(r, s),
                     expected |-> s \in DOMAIN latest[r]]
      BY <2>2 DEF Answer
    <3>3. answer'.status = StatusCodeFor(err) /\ answer'.contexts = {q.report, q.body}
      BY <3>2
    <3>4. answer'.retry = WasRetry(r, s) /\ answer'.expected = (s \in DOMAIN latest[r])
      BY <3>2, Zenon
    <3>5. answer'.retry = answer'.expected
      <4>1. WasRetry(r, s) = (s \in DOMAIN latest[r])
        <5> DEFINE a == stage[r][s].state = "PENDING"
                   b == s \in DOMAIN latest[r]
        <5>1. ~a <=> b
          BY <3>1 DEF WasRetry
        <5>2. a \in BOOLEAN /\ b \in BOOLEAN
          OBVIOUS
        <5> HIDE DEF a, b
        <5>3. (~a) = b
          BY <5>1, <5>2
        <5> QED
          BY <5>3 DEF WasRetry, a, b
      <4> QED
        BY <3>4, <4>1, Zenon
    <3>6. StatusCodeFor(err) \in Status /\ StatusCodeFor(err) # "INTERNAL"
      BY <1>5, StatusFacts
    <3> QED
      BY <3>3, <3>5, <3>6 DEF AnswerInv, AnswersAreTruthful
  <2>6. /\ run' \in [Runs -> RunRow]
        /\ run'[r].state = "AGGREGATING"
        /\ \A x \in Runs \ {r} : run'[x] = run[x]
    <3>1. "AGGREGATING" \in RunState
      BY DEF RunState
    <3> QED
      BY <2>1, <2>2, <2>3, <3>1 DEF RunRow
  <2>7. /\ DOMAIN stage' = Runs
        /\ \A x \in Runs \ {r} : stage'[x] = stage[x]
    BY <2>2, <2>3
  <2>8. /\ DOMAIN latest' = Runs
        /\ \A x \in Runs \ {r} : latest'[x] = latest[x]
    BY <2>2, <2>3
  <2>9. ShapeInv'
    BY <1>1, <2>6, <2>7, <2>8 DEF TemplatesInv, ShapeInv
  <2>10. ASSUME NEW x \in Runs \ {r}
         PROVE  RowsInv(x)' /\ EmailInv(x)'
    BY <1>1, <2>6, <2>7, <2>8, OtherRun
  <2>11. EmailInv(r)'
    <3>1. emails[r] = {} /\ r \notin tasks
      BY <2>1, <2>3 DEF EmailInv
    <3>2. emails'[r] = {} /\ r \notin tasks'
      BY <1>1, <3>1
    <3> QED
      BY <3>2 DEF EmailInv
  <2>12. \A x \in Runs : RowsInv(x)' /\ EmailInv(x)'
    BY <2>4, <2>10, <2>11
  <2> QED
    BY <1>2, <2>5, <2>9, <2>12 DEF TemplatesInv
<1> QED
  BY <1>4, <1>5

LEMMA FinalizeRunInv ==
  ASSUME NEW r \in Runs \union {NotARun}, TemplatesInv, FinalizeRun(r)
  PROVE  TemplatesInv'
<1> DEFINE began == r \in Runs /\ run[r].state # "none"
           c1 == r \in Runs
           c3 == began => run[r].state = "AGGREGATING"
           es == << Unless(c1, "MalformedRequest"), Unless(began, "RunNotFound"),
                    Unless(c3, "InvalidRunState") >>
           err == FirstError(es)
           Plain == ValidationErrors \union NotFoundErrors \union PreconditionErrors \union {None}
<1>1. /\ UNCHANGED <<file, text, loaded, up, cache, stage, begun, latest, emails>>
      /\ up
      /\ Answer("FinalizeRun", {}, err, FALSE, FALSE)
      /\ IF err = None
         THEN run' = [run EXCEPT ![r].state = "READY"] /\ tasks' = tasks \union {r}
         ELSE UNCHANGED <<run, tasks>>
  BY DEF FinalizeRun, disk, process, history
<1> HIDE DEF began, c1, c3
<1>2. DOMAIN es = 1 .. 3 /\ DOMAIN es \subseteq Nat
  OBVIOUS
<1>3. err \in Plain
  <2>1. es[1] \in Plain /\ es[2] \in Plain /\ es[3] \in Plain /\ None \in Plain
    BY DEF Unless, ValidationErrors, NotFoundErrors, PreconditionErrors
  <2> HIDE DEF es, Plain
  <2>2. \A i \in 1 .. 3 : i \in {1, 2, 3}
    OBVIOUS
  <2>3. \A i \in DOMAIN es : es[i] \in Plain
    BY <1>2, <2>1, <2>2
  <2> QED
    BY <1>2, <2>1, <2>3, FirstErrorIsFirst
<1>4. err = None => c1 /\ began /\ c3
  <2>1. err = None => es[1] = None /\ es[2] = None /\ es[3] = None
    <3> HIDE DEF es
    <3>1. 1 \in DOMAIN es /\ 2 \in DOMAIN es /\ 3 \in DOMAIN es
      BY <1>2
    <3> QED
      BY <1>2, <3>1, FirstErrorIsNone
  <2>2. es[1] = None /\ es[2] = None /\ es[3] = None => c1 /\ began /\ c3
    BY DEF Unless, None
  <2> HIDE DEF es
  <2> QED
    BY <2>1, <2>2
<1> HIDE DEF es
<1>5. AnswerInv'
  <2> HIDE DEF err
  <2> QED
    BY <1>1, <1>3, AnsweredInv
<1>6. CASE err # None
  <2>1. UNCHANGED <<run, tasks>>
    BY <1>1, <1>6
  <2>2. ShapeInv' /\ FilesInv'
    BY <1>1, <2>1 DEF TemplatesInv, ShapeInv, FilesInv
  <2>3. \A x \in Runs : RowsInv(x)' /\ EmailInv(x)'
    BY <1>1, <2>1, QuietRuns
  <2> QED
    BY <1>5, <2>2, <2>3 DEF TemplatesInv
<1>7. CASE err = None
  <2>1. r \in Runs /\ run[r].state = "AGGREGATING"
        /\ run' = [run EXCEPT ![r].state = "READY"] /\ tasks' = tasks \union {r}
    BY <1>1, <1>4, <1>7 DEF c1, began, c3
  <2>2. RowsInv(r) /\ EmailInv(r) /\ run \in [Runs -> RunRow]
    BY <2>1 DEF TemplatesInv, ShapeInv
  <2>3. /\ run' \in [Runs -> RunRow]
        /\ run'[r].state = "READY"
        /\ \A x \in Runs \ {r} : run'[x] = run[x]
    <3>1. "READY" \in RunState
      BY DEF RunState
    <3> QED
      BY <2>1, <2>2, <3>1 DEF RunRow
  <2>4. SameRows(r)
    BY <1>1, <2>1, <2>2 DEF SameRows, RunRow
  <2>5. RowsInv(r)'
    BY <1>1, <2>1, <2>2, <2>3, <2>4, SameRowsInv
  <2>6. EmailInv(r)'
    <3>1. emails[r] = {}
      BY <2>1, <2>2 DEF EmailInv
    <3>2. emails'[r] = {}
      BY <1>1, <3>1
    <3> QED
      BY <2>3, <3>2 DEF EmailInv
  <2>7. ASSUME NEW x \in Runs \ {r}
        PROVE  RowsInv(x)' /\ EmailInv(x)'
    <3>1. x \in tasks' => x \in tasks
      BY <2>1
    <3> QED
      BY <1>1, <2>3, <3>1, OtherRun
  <2>8. ShapeInv' /\ FilesInv'
    BY <1>1, <2>1, <2>3 DEF TemplatesInv, ShapeInv, FilesInv
  <2>9. \A x \in Runs : RowsInv(x)' /\ EmailInv(x)'
    BY <2>5, <2>6, <2>7
  <2> QED
    BY <1>5, <2>8, <2>9 DEF TemplatesInv
<1> QED
  BY <1>6, <1>7

-----------------------------------------------------------------------------
(* Rendering: which error, and what the templates of an e-mail become.     *)

\* What render() raises, and what it found when it raised nothing.
LEMMA RenderChecks ==
  ASSUME NEW j
  PROVE  /\ RenderError(j) = None => Exists(j.ref) /\ TextOf(j.ref) # "undecodable"
                                     /\ TextOf(j.ref) \notin {"missing", "malformed"}
         /\ \/ RenderError(j) \in CaughtErrors \union {None}
            \/ RenderError(j) = "UnknownTemplate" /\ ~Exists(j.ref)
            \/ RenderError(j) = "UnicodeDecodeError" /\ TextOf(j.ref) = "undecodable"
            \/ RenderError(j) = "Unresolvable" /\ SchemaOf(j.ref) = "unresolvable"
            \/ /\ RenderError(j) = "ZeroDivisionError"
               /\ \E i \in DOMAIN j.contexts : j.contexts[i] \in Crashing
<1> DEFINE has(set) == \E i \in DOMAIN j.contexts : j.contexts[i] \in set
           t == TextOf(j.ref)
           c1 == Sum(j.contexts, j.measured) <= MaxContext
           c2 == SchemaOf(j.ref) = "strict" => ~has(OffSchema)
           c3 == Exists(j.ref)
           c4 == t # "undecodable"
           c5 == t \notin {"missing", "malformed"}
           c6 == ~has(Undefined)
           c7 == ~has(Crashing)
           c8 == Sum(j.contexts, Grown) <= MaxRendered
           c9 == SchemaOf(j.ref) # "unresolvable"
           es == << Unless(c1, "ContextSizeExceeded"), Unless(c9, "Unresolvable"),
                    Unless(c2, "ContextSchemaViolation"),
                    Unless(c3, "UnknownTemplate"), Unless(c4, "UnicodeDecodeError"),
                    Unless(c5, "TemplateRender"), Unless(c6, "TemplateRender"),
                    Unless(c7, "ZeroDivisionError"), Unless(c8, "RenderedSizeExceeded") >>
           Good == CaughtErrors \union {None}
           Kind(e) == \/ e \in Good
                      \/ e = "UnknownTemplate" /\ ~c3
                      \/ e = "UnicodeDecodeError" /\ ~c4
                      \/ e = "Unresolvable" /\ ~c9
                      \/ e = "ZeroDivisionError" /\ ~c7
<1>1. RenderError(j) = FirstError(es)
  BY DEF RenderError
<1> HIDE DEF c1, c2, c3, c4, c5, c6, c7, c8, c9
<1>2. DOMAIN es = 1 .. 9 /\ DOMAIN es \subseteq Nat
  OBVIOUS
<1>3. \A i \in DOMAIN es : Kind(es[i])
  <2>1. /\ Kind(es[1]) /\ Kind(es[2]) /\ Kind(es[3]) /\ Kind(es[4])
        /\ Kind(es[5]) /\ Kind(es[6]) /\ Kind(es[7]) /\ Kind(es[8]) /\ Kind(es[9])
    BY DEF Unless, CaughtErrors
  <2> HIDE DEF es, Kind
  <2>2. \A i \in 1 .. 9 : i \in {1, 2, 3, 4, 5, 6, 7, 8, 9}
    OBVIOUS
  <2> QED
    BY <1>2, <2>1, <2>2
<1>4. Kind(FirstError(es))
  <2>1. Kind(None)
    OBVIOUS
  <2> HIDE DEF es, Kind
  <2> QED
    BY <1>2, <1>3, <2>1, FirstErrorIsFirst
<1>5. FirstError(es) = None => c3 /\ c4 /\ c5
  <2>1. FirstError(es) = None => es[4] = None /\ es[5] = None /\ es[6] = None
    <3> HIDE DEF es
    <3>1. 4 \in DOMAIN es /\ 5 \in DOMAIN es /\ 6 \in DOMAIN es
      BY <1>2
    <3> QED
      BY <1>2, <3>1, FirstErrorIsNone
  <2>2. es[4] = None /\ es[5] = None /\ es[6] = None => c3 /\ c4 /\ c5
    BY DEF Unless, None
  <2> HIDE DEF es
  <2> QED
    BY <2>1, <2>2
<1> HIDE DEF es
<1> QED
  BY <1>1, <1>4, <1>5 DEF c3, c4, c5, c7, c9

\* c has the elements of a and of b, and its indices are 1 to their number.
Joined(a, b, c) ==
  /\ DOMAIN c \subseteq Nat
  /\ \A k \in DOMAIN c : 1 .. k - 1 \subseteq DOMAIN c
  /\ \A i \in DOMAIN a : \E k \in DOMAIN c : c[k] = a[i]
  /\ \A i \in DOMAIN b : \E k \in DOMAIN c : c[k] = b[i]
  /\ \A k \in DOMAIN c : \/ \E i \in DOMAIN a : c[k] = a[i]
                         \/ \E i \in DOMAIN b : c[k] = b[i]

LEMMA ConcatFacts ==
  ASSUME NEW S, NEW a \in Seq(S), NEW b \in Seq(S)
  PROVE  Joined(a, b, a \o b) /\ a \o b \in Seq(S)
<1> DEFINE c == a \o b
<1>1. /\ c \in Seq(S) /\ Len(a) \in Nat /\ Len(b) \in Nat
      /\ DOMAIN a = 1 .. Len(a) /\ DOMAIN b = 1 .. Len(b)
      /\ DOMAIN c = 1 .. (Len(a) + Len(b))
  OBVIOUS
<1>2. ASSUME NEW i \in DOMAIN a
      PROVE  i \in DOMAIN c /\ c[i] = a[i]
  BY <1>1
<1>3. ASSUME NEW i \in DOMAIN b
      PROVE  Len(a) + i \in DOMAIN c /\ c[Len(a) + i] = b[i]
  BY <1>1
<1> HIDE DEF c
<1>4. \A k \in DOMAIN c : \/ \E i \in DOMAIN a : c[k] = a[i]
                          \/ \E i \in DOMAIN b : c[k] = b[i]
  <2> SUFFICES ASSUME NEW k \in DOMAIN c
               PROVE  \/ \E i \in DOMAIN a : c[k] = a[i]
                      \/ \E i \in DOMAIN b : c[k] = b[i]
    OBVIOUS
  <2>1. CASE k <= Len(a)
    <3>1. k \in DOMAIN a
      BY <1>1, <2>1
    <3> QED
      BY <1>2, <3>1
  <2>2. CASE ~(k <= Len(a))
    <3>1. k - Len(a) \in DOMAIN b /\ Len(a) + (k - Len(a)) = k
      BY <1>1, <2>2
    <3> QED
      BY <1>3, <3>1
  <2> QED
    BY <2>1, <2>2
<1>5. /\ DOMAIN c \subseteq Nat
      /\ \A k \in DOMAIN c : 1 .. k - 1 \subseteq DOMAIN c
  BY <1>1
<1>6. \A i \in DOMAIN a : \E k \in DOMAIN c : c[k] = a[i]
  BY <1>2
<1>7. \A i \in DOMAIN b : \E k \in DOMAIN c : c[k] = b[i]
  <2> SUFFICES ASSUME NEW i \in DOMAIN b
               PROVE  \E k \in DOMAIN c : c[k] = b[i]
    OBVIOUS
  <2>1. Len(a) + i \in DOMAIN c /\ c[Len(a) + i] = b[i]
    BY <1>3
  <2> QED
    BY <2>1, Zenon
<1>8. Joined(a, b, c)
  BY <1>4, <1>5, <1>6, <1>7, Zenon DEF Joined
<1> QED
  BY <1>1, <1>8 DEF c

\* _bucket: the stages of the position, each once, with the body they stored.
LEMMA BucketFacts ==
  ASSUME NEW r \in Runs, RowsInv(r), run \in [Runs -> RunRow], NEW p
  PROVE  LET S == {s \in Reported(r) : stage[r][s].row.position = p}
             b == Bucket(r, p)
         IN /\ b \in Seq({[stage_id |-> s, context |-> stage[r][s].row.body] : s \in S})
            /\ \A i \in DOMAIN b : /\ b[i].stage_id \in S
                                   /\ b[i].context = stage[r][b[i].stage_id].row.body
                                   /\ b[i] = [stage_id |-> b[i].stage_id,
                                              context |-> stage[r][b[i].stage_id].row.body]
            /\ \A s \in S : \E i \in DOMAIN b : b[i].stage_id = s
            /\ \A i, j \in DOMAIN b : b[i].stage_id = b[j].stage_id => i = j
<1> DEFINE S == {s \in Reported(r) : stage[r][s].row.position = p}
           entry(s) == [stage_id |-> s, context |-> stage[r][s].row.body]
           ids == InOrder(run[r].declared, S)
           b == Bucket(r, p)
<1>1. b = [i \in DOMAIN ids |-> entry(ids[i])]
  BY DEF Bucket
<1>2. S \subseteq Reported(r)
  OBVIOUS
<1> HIDE DEF S
<1>3. /\ Cardinality(S) \in Nat
      /\ DOMAIN ids = 1 .. Cardinality(S)
      /\ \A i \in DOMAIN ids : ids[i] \in S
      /\ \A s \in S : \E i \in DOMAIN ids : ids[i] = s
      /\ \A i, j \in DOMAIN ids : ids[i] = ids[j] => i = j
  BY <1>2, StagesInOrder
<1> HIDE DEF ids, b
<1>4. DOMAIN b = DOMAIN ids /\ \A i \in DOMAIN b : b[i] = entry(ids[i])
  BY <1>1
<1>5. \A i \in DOMAIN b : b[i].stage_id = ids[i] /\ b[i].context = stage[r][ids[i]].row.body
  BY <1>4
<1>6. b \in Seq({entry(s) : s \in S})
  <2> DEFINE E == {entry(s) : s \in S}
             n == Cardinality(S)
  <2>1. \A i \in 1 .. n : entry(ids[i]) \in E
    BY <1>3
  <2>2. b = [i \in 1 .. n |-> entry(ids[i])]
    BY <1>1, <1>3
  <2>3. n \in Nat
    BY <1>3
  <2> HIDE DEF E, n, entry
  <2> QED
    BY <2>1, <2>2, <2>3 DEF E
<1>7. \A i \in DOMAIN b : b[i].stage_id \in S /\ b[i] = entry(b[i].stage_id)
  BY <1>3, <1>4, <1>5
<1>8. \A s \in S : \E i \in DOMAIN b : b[i].stage_id = s
  BY <1>3, <1>4, <1>5
<1>9. \A i, j \in DOMAIN b : b[i].stage_id = b[j].stage_id => i = j
  BY <1>3, <1>4, <1>5
<1> QED
  BY <1>5, <1>6, <1>7, <1>8, <1>9 DEF S, b

\* Every context of the e-mail body is the body contribution of a stage.
LEMMA BodyJobFacts ==
  ASSUME NEW r \in Runs, RowsInv(r), run \in [Runs -> RunRow]
  PROVE  /\ BodyJob(r).ref = BodyRef(r)
         /\ \A i \in DOMAIN BodyJob(r).contexts :
              \E s \in Reported(r) : BodyJob(r).contexts[i] = stage[r][s].row.body
<1> DEFINE b == Bucket(r, "BEFORE_STAGES_SUMMARY")
           a == Bucket(r, "AFTER_STAGES_SUMMARY")
           E == {[stage_id |-> s, context |-> stage[r][s].row.body] : s \in Reported(r)}
           all == b \o a
<1>1. b \in Seq(E) /\ a \in Seq(E)
  <2>1. ASSUME NEW p
        PROVE  Bucket(r, p) \in Seq(E)
    <3> DEFINE S == {s \in Reported(r) : stage[r][s].row.position = p}
               F == {[stage_id |-> s, context |-> stage[r][s].row.body] : s \in S}
    <3>1. Bucket(r, p) \in Seq(F)
      BY BucketFacts
    <3>2. F \subseteq E
      OBVIOUS
    <3> HIDE DEF E, F
    <3> QED
      BY <3>1, <3>2
  <2> QED
    BY <2>1
<1>2. BodyJob(r) = [ref |-> BodyRef(r), measured |-> Size,
                    contexts |-> [i \in DOMAIN all |-> all[i].context]]
  BY DEF BodyJob
<1>3. all \in Seq(E)
  <2> HIDE DEF E, a, b
  <2> QED
    BY <1>1
<1> HIDE DEF all
<1>4. \A i \in DOMAIN all : all[i] \in E
  <2> HIDE DEF E
  <2> QED
    BY <1>3
<1>5. \A i \in DOMAIN all : \E s \in Reported(r) : all[i].context = stage[r][s].row.body
  BY <1>4
<1> QED
  BY <1>2, <1>5

\* A rendered stage's job is of its pinned template and of its report.
LEMMA FragmentJobsFacts ==
  ASSUME NEW r \in Runs, RowsInv(r), run \in [Runs -> RunRow]
  PROVE  /\ FragmentJobs(r) \in Seq({[ref |-> stage[r][s].ref, measured |-> Size,
                                      contexts |-> <<stage[r][s].row.report>>] : s \in Rendered(r)})
         /\ \A s \in Rendered(r) : \E i \in DOMAIN FragmentJobs(r) :
              FragmentJobs(r)[i].ref = stage[r][s].ref
         /\ \A i \in DOMAIN FragmentJobs(r) : \E s \in Rendered(r) :
              FragmentJobs(r)[i].contexts = <<stage[r][s].row.report>>
<1> DEFINE S == Rendered(r)
           frag(s) == [ref |-> stage[r][s].ref, measured |-> Size,
                       contexts |-> <<stage[r][s].row.report>>]
           ids == InOrder(run[r].declared, S)
           f == FragmentJobs(r)
<1>1. f = [i \in DOMAIN ids |-> frag(ids[i])]
  BY DEF FragmentJobs
<1>2. S \subseteq Reported(r)
  BY DEF Rendered
<1> HIDE DEF S
<1>3. /\ Cardinality(S) \in Nat
      /\ DOMAIN ids = 1 .. Cardinality(S)
      /\ \A i \in DOMAIN ids : ids[i] \in S
      /\ \A s \in S : \E i \in DOMAIN ids : ids[i] = s
  BY <1>2, StagesInOrder
<1> HIDE DEF ids, f
<1>4. DOMAIN f = DOMAIN ids /\ \A i \in DOMAIN f : f[i] = frag(ids[i])
  BY <1>1
<1>5. \A i \in DOMAIN f : /\ f[i].ref = stage[r][ids[i]].ref
                          /\ f[i].contexts = <<stage[r][ids[i]].row.report>>
  BY <1>4
<1>6. f \in Seq({frag(s) : s \in S})
  <2> DEFINE E == {frag(s) : s \in S}
             n == Cardinality(S)
  <2>1. \A i \in 1 .. n : frag(ids[i]) \in E
    BY <1>3
  <2>2. f = [i \in 1 .. n |-> frag(ids[i])]
    BY <1>1, <1>3
  <2>3. n \in Nat
    BY <1>3
  <2> HIDE DEF E, n, frag
  <2> QED
    BY <2>1, <2>2, <2>3 DEF E
<1> HIDE DEF frag
<1>7. \A s \in S : \E i \in DOMAIN f : f[i].ref = stage[r][s].ref
  BY <1>3, <1>4, <1>5
<1>8. \A i \in DOMAIN f : \E s \in S : f[i].contexts = <<stage[r][s].row.report>>
  BY <1>3, <1>4, <1>5
<1> QED
  BY <1>6, <1>7, <1>8 DEF S, f, frag

\* The rendering jobs of r use every template of its e-mail, on nothing but
\* contexts that its stages stored.
LEMMA RenderJobsFacts ==
  ASSUME NEW r \in Runs, RowsInv(r), run \in [Runs -> RunRow]
  PROVE  /\ DOMAIN RenderJobs(r) \subseteq Nat
         /\ \A i \in DOMAIN RenderJobs(r) : 1 .. i - 1 \subseteq DOMAIN RenderJobs(r)
         /\ \A k \in EmailRefs(r) : \E i \in DOMAIN RenderJobs(r) : RenderJobs(r)[i].ref = k
         /\ \A i \in DOMAIN RenderJobs(r) : \A n \in DOMAIN RenderJobs(r)[i].contexts :
              \E s \in Reported(r) :
                RenderJobs(r)[i].contexts[n] \in {stage[r][s].row.report, stage[r][s].row.body}
<1> DEFINE f == FragmentJobs(r)
           aj == [ref |-> run[r].agg, measured |-> Grown,
                  contexts |-> [i \in DOMAIN f |-> f[i].contexts[1]]]
           a == AttachmentJobs(r)
           bj == BodyJob(r)
           F == {[ref |-> stage[r][s].ref, measured |-> Size,
                  contexts |-> <<stage[r][s].row.report>>] : s \in Rendered(r)}
           J == F \union {aj} \union {bj}
           FromRow(c) == \E s \in Reported(r) : c \in {stage[r][s].row.report, stage[r][s].row.body}
           Fine(job1) == \A n \in DOMAIN job1.contexts : FromRow(job1.contexts[n])
<1>1. Rendered(r) \subseteq Reported(r)
  BY DEF Rendered
<1>2. /\ f \in Seq(F)
      /\ \A s \in Rendered(r) : \E i \in DOMAIN f : f[i].ref = stage[r][s].ref
      /\ \A i \in DOMAIN f : \E s \in Rendered(r) : f[i].contexts = <<stage[r][s].row.report>>
  BY FragmentJobsFacts
<1> HIDE DEF f
<1>3. a = IF run[r].mode = "PER_STAGE" THEN <<>> ELSE <<aj>>
  BY DEF AttachmentJobs, f
<1>4. \A i \in DOMAIN f : Fine(f[i]) /\ FromRow(f[i].contexts[1])
  <2> SUFFICES ASSUME NEW i \in DOMAIN f
               PROVE  Fine(f[i]) /\ FromRow(f[i].contexts[1])
    OBVIOUS
  <2>1. PICK s \in Rendered(r) : f[i].contexts = <<stage[r][s].row.report>>
    BY <1>2
  <2>2. /\ DOMAIN f[i].contexts = {1}
        /\ f[i].contexts[1] = stage[r][s].row.report
    BY <2>1
  <2>3. s \in Reported(r)
    BY <1>1
  <2> QED
    BY <2>2, <2>3
<1>5. Fine(aj)
  <2>1. /\ DOMAIN aj.contexts = DOMAIN f
        /\ \A i \in DOMAIN f : aj.contexts[i] = f[i].contexts[1]
    OBVIOUS
  <2> HIDE DEF aj, FromRow
  <2> QED
    BY <1>4, <2>1
<1>6. aj.ref = run[r].agg
  OBVIOUS
<1>7. Fine(bj) /\ bj.ref = BodyRef(r)
  BY BodyJobFacts
<1> HIDE DEF aj, bj, F, Fine, FromRow
<1>8. f \in Seq(J) /\ a \in Seq(J) /\ <<bj>> \in Seq(J)
  <2>1. f \in Seq(J)
    BY <1>2
  <2>2. a \in Seq(J)
    <3>1. aj \in J
      OBVIOUS
    <3> HIDE DEF J, a
    <3>2. <<aj>> \in Seq(J) /\ <<>> \in Seq(J)
      BY <3>1
    <3> QED
      BY <1>3, <3>2, Zenon
  <2>3. <<bj>> \in Seq(J)
    OBVIOUS
  <2> QED
    BY <2>1, <2>2, <2>3
<1> DEFINE fa == f \o a
           last == <<bj>>
           jobs == fa \o last
<1>9. Joined(f, a, fa) /\ fa \in Seq(J)
  BY <1>8, ConcatFacts
<1>10. Joined(fa, last, jobs)
  <2> HIDE DEF fa
  <2> QED
    BY <1>8, <1>9, ConcatFacts
<1>11. RenderJobs(r) = jobs
  BY DEF RenderJobs, f, bj
<1>12. DOMAIN last = {1} /\ last[1] = bj
  OBVIOUS
<1> HIDE DEF J, a, fa, last, jobs
<1>13. /\ fa \in Seq(J)
       /\ \A i \in DOMAIN f : \E k \in DOMAIN fa : fa[k] = f[i]
       /\ \A i \in DOMAIN a : \E k \in DOMAIN fa : fa[k] = a[i]
       /\ \A k \in DOMAIN fa : (\E i \in DOMAIN f : fa[k] = f[i]) \/ (\E i \in DOMAIN a : fa[k] = a[i])
  BY <1>9 DEF Joined
<1>14. /\ DOMAIN jobs \subseteq Nat
       /\ \A i \in DOMAIN jobs : 1 .. i - 1 \subseteq DOMAIN jobs
       /\ \A i \in DOMAIN fa : \E k \in DOMAIN jobs : jobs[k] = fa[i]
       /\ \A i \in DOMAIN last : \E k \in DOMAIN jobs : jobs[k] = last[i]
       /\ \A k \in DOMAIN jobs : (\E i \in DOMAIN fa : jobs[k] = fa[i])
                                 \/ (\E i \in DOMAIN last : jobs[k] = last[i])
  BY <1>10 DEF Joined
<1>15. /\ run[r].mode = "PER_STAGE" => DOMAIN a = {}
       /\ run[r].mode # "PER_STAGE" => DOMAIN a = {1} /\ a[1] = aj
  BY <1>3
<1>16. \A k \in DOMAIN jobs : Fine(jobs[k])
  <2>1. \A k \in DOMAIN fa : Fine(fa[k])
    BY <1>4, <1>5, <1>13, <1>15
  <2> QED
    BY <1>7, <1>14, <1>12, <2>1
<1>17. \A k \in EmailRefs(r) : \E i \in DOMAIN jobs : jobs[i].ref = k
  <2>1. ASSUME NEW s \in Rendered(r)
        PROVE  \E i \in DOMAIN jobs : jobs[i].ref = stage[r][s].ref
    <3>1. PICK i \in DOMAIN f : f[i].ref = stage[r][s].ref
      BY <1>2
    <3>2. PICK k \in DOMAIN fa : fa[k] = f[i]
      BY <1>13
    <3>3. PICK n \in DOMAIN jobs : jobs[n] = fa[k]
      BY <1>14
    <3> QED
      BY <3>1, <3>2, <3>3
  <2>2. ASSUME run[r].mode # "PER_STAGE"
        PROVE  \E i \in DOMAIN jobs : jobs[i].ref = run[r].agg
    <3>1. PICK k \in DOMAIN fa : fa[k] = aj
      BY <1>13, <1>15, <2>2
    <3>2. PICK n \in DOMAIN jobs : jobs[n] = fa[k]
      BY <1>14
    <3> QED
      BY <1>6, <3>1, <3>2
  <2>3. \E i \in DOMAIN jobs : jobs[i].ref = BodyRef(r)
    BY <1>7, <1>14, <1>12
  <2> QED
    BY <2>1, <2>2, <2>3 DEF EmailRefs
<1> QED
  BY <1>14, <1>11, <1>16, <1>17 DEF Fine, FromRow

\* An assembly keeps every compiled template, and compiles to a usable text.
LEMMA CacheAfterFacts ==
  ASSUME NEW jobs, CacheAfter(jobs), cache \in [Key -> {"a", "b", None}]
  PROVE  /\ cache' \in [Key -> {"a", "b", None}]
         /\ \A k \in Key : cache[k] # None => cache'[k] = cache[k]
<1>1. cache' = [k \in Key |-> IF k \in CompiledBy(jobs) THEN TextOf(k) ELSE cache[k]]
  BY DEF CacheAfter
<1>2. \A k \in CompiledBy(jobs) : TextOf(k) \in {"a", "b"}
  BY DEF CompiledBy, Compiles
<1>3. \A k \in Key : cache[k] # None => TextOf(k) = cache[k]
  BY DEF TextOf
<1> QED
  BY <1>1, <1>2, <1>3

\* When everything rendered, every template of the e-mail is compiled, in the
\* text that was rendered.
LEMMA AssembledRefs ==
  ASSUME TemplatesInv, NEW r \in Runs, ErrorOf(RenderJobs(r)) = None,
         CacheAfter(RenderJobs(r))
  PROVE  \A k \in EmailRefs(r) : k \in Key /\ cache'[k] = TextOf(k) /\ cache'[k] # None
<1> DEFINE jobs == RenderJobs(r)
           es == [i \in DOMAIN jobs |-> RenderError(jobs[i])]
<1>1. /\ RowsInv(r) /\ run \in [Runs -> RunRow] /\ FilesInv
      /\ text \in [Key -> Text] /\ cache \in [Key -> {"a", "b", None}]
  BY DEF TemplatesInv, ShapeInv
<1>2. /\ DOMAIN jobs \subseteq Nat
      /\ \A i \in DOMAIN jobs : 1 .. i - 1 \subseteq DOMAIN jobs
      /\ \A k \in EmailRefs(r) : \E i \in DOMAIN jobs : jobs[i].ref = k
  BY <1>1, RenderJobsFacts
<1>3. ErrorOf(jobs) = FirstError(es)
  BY DEF ErrorOf
<1>7. ErrorOf(jobs) = None /\ CacheAfter(jobs)
  OBVIOUS
<1> HIDE DEF jobs
<1>4. \A i \in DOMAIN jobs : RenderError(jobs[i]) = None
  <2>1. DOMAIN es = DOMAIN jobs
    OBVIOUS
  <2>2. \A i \in DOMAIN es : es[i] = None
    <3> HIDE DEF es
    <3> QED
      BY <1>2, <1>3, <1>7, <2>1, FirstErrorIsNone
  <2> QED
    BY <2>1, <2>2
<1>5. ASSUME NEW i \in DOMAIN jobs
      PROVE  /\ jobs[i].ref \in CompiledBy(jobs) /\ jobs[i].ref \in Key
             /\ TextOf(jobs[i].ref) \in {"a", "b"}
  <2>1. /\ Exists(jobs[i].ref) /\ TextOf(jobs[i].ref) # "undecodable"
        /\ TextOf(jobs[i].ref) \notin {"missing", "malformed"}
    BY <1>4, RenderChecks
  <2>2. jobs[i].ref \in Key
    BY <1>1, <2>1, LoadedTyped DEF Exists
  <2>3. TextOf(jobs[i].ref) \in {"a", "b"}
    <3> DEFINE k == jobs[i].ref
    <3>1. cache[k] \in {"a", "b", None} /\ text[k] \in Text
      BY <1>1, <2>2
    <3> HIDE DEF k
    <3>2. TextOf(k) # "undecodable" /\ TextOf(k) # "missing" /\ TextOf(k) # "malformed"
          => TextOf(k) \in {"a", "b"}
      BY <3>1 DEF TextOf, Text
    <3> QED
      BY <2>1, <3>2 DEF k
  <2>4. Compiles(jobs[i])
    BY <1>4, <2>1, <2>3 DEF Compiles, None
  <2>5. \A n \in 1 .. i - 1 : RenderError(jobs[n]) = None
    <3>1. \A n \in 1 .. i - 1 : n \in DOMAIN jobs
      BY <1>2
    <3> QED
      BY <1>4, <3>1
  <2>6. jobs[i].ref \in CompiledBy(jobs)
    BY <2>4, <2>5 DEF CompiledBy
  <2> QED
    BY <2>2, <2>3, <2>6
<1>6. cache' = [k \in Key |-> IF k \in CompiledBy(jobs) THEN TextOf(k) ELSE cache[k]]
  BY <1>7 DEF CacheAfter
<1> QED
  BY <1>2, <1>5, <1>6 DEF None

\* A run whose e-mail was just assembled.
LEMMA AssembledInv ==
  ASSUME TemplatesInv, NEW r \in Runs, SameRows(r), CacheAfter(RenderJobs(r)),
         ErrorOf(RenderJobs(r)) = None,
         emails'[r] = emails[r] \union {Email(r)}, r \notin tasks',
         run'[r].state \in {"SENT", "FAILED"}
  PROVE  EmailInv(r)'
<1>1. RowsInv(r) /\ EmailInv(r) /\ run \in [Runs -> RunRow]
  BY DEF TemplatesInv, ShapeInv
<1>2. \A k \in EmailRefs(r) : k \in Key /\ cache'[k] = TextOf(k) /\ cache'[k] # None
  BY AssembledRefs
<1>3. \A k \in EmailRefs(r) : (IF cache'[k] # None THEN cache'[k] ELSE text'[k]) = TextOf(k)
  BY <1>2
<1>4. Email(r)' = Email(r)
  BY <1>1, <1>3, SameEmail
<1>5. EmailRefs(r)' = EmailRefs(r)
  BY SameReported
<1>6. emails'[r] \subseteq {Email(r)'}
  BY <1>1, <1>4 DEF EmailInv
<1>7. \A k \in EmailRefs(r)' : k \in Key /\ cache'[k] # None
  BY <1>2, <1>5
<1> QED
  BY <1>6, <1>7 DEF EmailInv

LEMMA DeliverInv ==
  ASSUME NEW r \in Runs, TemplatesInv, Deliver(r)
  PROVE  TemplatesInv'
<1>1. /\ UNCHANGED <<file, text, loaded, up, stage, begun, latest>>
      /\ r \in tasks /\ tasks' = tasks \ {r} /\ CacheAfter(DeliveryJobs(r)) /\ answer' = NoAnswer
  BY DEF Deliver, disk, process, history
<1>2. /\ RowsInv(r) /\ EmailInv(r) /\ run \in [Runs -> RunRow] /\ DOMAIN emails = Runs
      /\ cache \in [Key -> {"a", "b", None}]
  BY DEF TemplatesInv, ShapeInv
<1>3. run[r].state = "READY" /\ emails[r] = {}
  BY <1>1, <1>2 DEF EmailInv
<1>4. PICK s \in {"SENT", "FAILED", "SENDING"} :
        /\ run' = [run EXCEPT ![r].state = s]
        /\ \/ emails' = emails
           \/ /\ emails' = [emails EXCEPT ![r] = @ \union {Email(r)}]
              /\ DeliveryError(r) = None /\ s \in {"SENT", "FAILED"}
  BY DEF Deliver
<1>5. /\ cache' \in [Key -> {"a", "b", None}]
      /\ \A k \in Key : cache[k] # None => cache'[k] = cache[k]
  BY <1>1, <1>2, CacheAfterFacts
<1>6. /\ run' \in [Runs -> RunRow]
      /\ run'[r].state = s
      /\ \A x \in Runs \ {r} : run'[x] = run[x]
  <2>1. s \in RunState
    BY DEF RunState
  <2> QED
    BY <1>2, <1>4, <2>1 DEF RunRow
<1>7. SameRows(r)
  BY <1>1, <1>2, <1>4 DEF SameRows, RunRow
<1>8. RowsInv(r)'
  <2>1. run'[r].state # "none" /\ run[r].state # "none"
    BY <1>3, <1>6
  <2> QED
    BY <1>1, <1>2, <1>7, <2>1, SameRowsInv
<1>9. DOMAIN emails' = Runs /\ \A x \in Runs \ {r} : emails'[x] = emails[x]
  BY <1>2, <1>4
<1>10. r \notin tasks'
  BY <1>1
<1>11. EmailInv(r)'
  <2>1. CASE emails' = emails
    <3>1. emails'[r] = {}
      BY <1>3, <2>1
    <3> QED
      BY <1>10, <3>1 DEF EmailInv
  <2>2. CASE /\ emails' = [emails EXCEPT ![r] = @ \union {Email(r)}]
             /\ DeliveryError(r) = None /\ s \in {"SENT", "FAILED"}
    <3>1. emails'[r] = emails[r] \union {Email(r)}
      BY <1>2, <2>2
    <3>2. ErrorOf(RenderJobs(r)) = None /\ CacheAfter(RenderJobs(r))
      BY <1>1, <2>2 DEF DeliveryError, DeliveryJobs, None
    <3> QED
      BY <1>6, <1>7, <1>10, <2>2, <3>1, <3>2, AssembledInv
  <2> QED
    BY <1>4, <2>1, <2>2
<1>12. ASSUME NEW x \in Runs \ {r}
       PROVE  RowsInv(x)' /\ EmailInv(x)'
  <2>1. x \in tasks' => x \in tasks
    BY <1>1
  <2> QED
    BY <1>1, <1>5, <1>6, <1>9, <2>1, OtherRun
<1>13. ShapeInv'
  BY <1>1, <1>5, <1>6, <1>9 DEF TemplatesInv, ShapeInv
<1>14. FilesInv'
  BY <1>1 DEF TemplatesInv, FilesInv
<1>15. \A x \in Runs : RowsInv(x)' /\ EmailInv(x)'
  BY <1>8, <1>11, <1>12
<1> QED
  BY <1>1, <1>13, <1>14, <1>15, NoAnswerInv DEF TemplatesInv

LEMMA ResendInv ==
  ASSUME NEW r \in Runs, TemplatesInv, Resend(r)
  PROVE  TemplatesInv'
<1>1. /\ UNCHANGED <<file, text, loaded, up, run, stage, tasks, begun, latest>>
      /\ up /\ run[r].state \in {"SENT", "FAILED"} /\ CacheAfter(RenderJobs(r)) /\ answer' = NoAnswer
      /\ emails' = IF ErrorOf(RenderJobs(r)) = None
                   THEN [emails EXCEPT ![r] = @ \union {Email(r)}] ELSE emails
  BY DEF Resend, disk, process, rows, history
<1>2. /\ RowsInv(r) /\ EmailInv(r) /\ run \in [Runs -> RunRow] /\ DOMAIN emails = Runs
      /\ cache \in [Key -> {"a", "b", None}]
  BY DEF TemplatesInv, ShapeInv
<1>3. /\ cache' \in [Key -> {"a", "b", None}]
      /\ \A k \in Key : cache[k] # None => cache'[k] = cache[k]
  BY <1>1, <1>2, CacheAfterFacts
<1>4. DOMAIN emails' = Runs /\ \A x \in Runs \ {r} : emails'[x] = emails[x]
  BY <1>1, <1>2
<1>5. ASSUME NEW x \in Runs \ {r}
      PROVE  RowsInv(x)' /\ EmailInv(x)'
  BY <1>1, <1>3, <1>4, OtherRun
<1>6. RowsInv(r)' /\ EmailInv(r)'
  <2>1. CASE ErrorOf(RenderJobs(r)) # None
    BY <1>1, <1>3, <2>1, OtherRun
  <2>2. CASE ErrorOf(RenderJobs(r)) = None
    <3>1. emails'[r] = emails[r] \union {Email(r)}
      BY <1>1, <1>2, <2>2
    <3>2. SameRows(r) /\ run'[r].state \in {"SENT", "FAILED"}
      BY <1>1 DEF SameRows
    <3>3. r \notin tasks'
      BY <1>1, <1>2 DEF EmailInv
    <3>4. RowsInv(r)'
      BY <1>1, <1>2, <3>2, SameRowsInv
    <3> QED
      BY <1>1, <2>2, <3>1, <3>2, <3>3, <3>4, AssembledInv
  <2> QED
    BY <2>1, <2>2
<1>7. ShapeInv'
  BY <1>1, <1>3, <1>4 DEF TemplatesInv, ShapeInv
<1>8. FilesInv'
  BY <1>1 DEF TemplatesInv, FilesInv
<1>9. \A x \in Runs : RowsInv(x)' /\ EmailInv(x)'
  BY <1>5, <1>6
<1> QED
  BY <1>1, <1>7, <1>8, <1>9, NoAnswerInv DEF TemplatesInv

LEMMA TemplatesStutter ==
  ASSUME TemplatesInv, UNCHANGED templatesVars
  PROVE  TemplatesInv'
<1>1. UNCHANGED <<file, text, loaded, up, cache, run, stage, tasks, answer, begun, latest, emails>>
  BY DEF templatesVars
<1>2. \A r \in Runs : RowsInv(r)' /\ EmailInv(r)'
  BY <1>1, QuietRuns
<1>3. ShapeInv' /\ FilesInv'
  BY <1>1 DEF TemplatesInv, ShapeInv, FilesInv
<1>4. AnswerInv'
  BY <1>1 DEF TemplatesInv, AnswerInv, AnswersAreTruthful
<1> QED
  BY <1>2, <1>3, <1>4 DEF TemplatesInv

LEMMA TemplatesNextInv == TemplatesInv /\ [TemplatesNext]_templatesVars => TemplatesInv'
<1> SUFFICES ASSUME TemplatesInv, [TemplatesNext]_templatesVars PROVE TemplatesInv'
  OBVIOUS
<1>1. CASE EditFiles
  BY <1>1, EditFilesInv
<1>2. CASE EditSource
  BY <1>2, EditSourceInv
<1>3. CASE Start
  BY <1>3, StartInv
<1>4. CASE Stop
  BY <1>4, StopInv
<1>5. CASE \E r \in Runs, q \in BeginRequests : BeginRun(r, q)
  BY <1>5, BeginRunInv
<1>6. CASE \E r \in Runs \union {NotARun}, q \in Submissions : SubmitStageReport(r, q)
  BY <1>6, SubmitStageReportInv
<1>7. CASE \E r \in Runs \union {NotARun} : FinalizeRun(r)
  BY <1>7, FinalizeRunInv
<1>8. CASE \E r \in Runs : Deliver(r)
  BY <1>8, DeliverInv
<1>9. CASE \E r \in Runs : Resend(r)
  BY <1>9, ResendInv
<1>10. CASE UNCHANGED templatesVars
  BY <1>10, TemplatesStutter
<1> QED
  BY <1>1, <1>2, <1>3, <1>4, <1>5, <1>6, <1>7, <1>8, <1>9, <1>10 DEF TemplatesNext

\* The rows of every run, the e-mails and the answers are as TemplatesInv says
\* in every state of the service, whatever the operator does to its files.
THEOREM TemplatesInvariance == TemplatesSpec => []TemplatesInv
BY TemplatesInitInv, TemplatesNextInv, PTL DEF TemplatesSpec

-----------------------------------------------------------------------------
(* What follows from it.                                                   *)

\* The invariant contains the type invariant.
LEMMA TemplatesTyped == TemplatesInv => TemplatesTypeOK
<1> SUFFICES ASSUME TemplatesInv PROVE TemplatesTypeOK
  OBVIOUS
<1>1. ShapeInv /\ FilesInv /\ AnswerInv
  BY DEF TemplatesInv
<1>2. IsInjective([i \in DOMAIN loaded.templates |-> loaded.templates[i].key])
  BY <1>1 DEF FilesInv, Loadable, IsInjective
<1>3. \A i \in DOMAIN loaded.tags : loaded.tags[i].ok
  BY <1>1 DEF FilesInv, VocabularyLoads
<1>4. ASSUME NEW r \in Runs
      PROVE  /\ run[r].state \in RunState
             /\ run[r].state # "none" =>
                  /\ run[r].pipeline \in Pipelines
                  /\ run[r].mode \in Mode
                  /\ run[r].agg \in (IF run[r].mode = "PER_STAGE" THEN {NoRef} ELSE Key \ {NoRef})
                  /\ \A i \in DOMAIN run[r].declared : run[r].declared[i] \in Declared
             /\ \A s \in DOMAIN stage[r] : stage[r][s] \in Stage
  <2>1. RowsInv(r) /\ run[r] \in RunRow
    BY <1>1 DEF TemplatesInv, ShapeInv
  <2>2. run[r].state \in RunState /\ run[r].declared \in Seq(Declared)
    BY <2>1 DEF RunRow
  <2>3. \A i \in DOMAIN run[r].declared : run[r].declared[i] \in Declared
    BY <2>2
  <2>4. run[r].state # "none" =>
          /\ run[r].pipeline \in Pipelines
          /\ run[r].mode \in Mode
          /\ run[r].agg \in (IF run[r].mode = "PER_STAGE" THEN {NoRef} ELSE Key \ {NoRef})
    BY <2>1 DEF RowsInv, Pinned
  <2>5. \A s \in DOMAIN stage[r] : stage[r][s] \in Stage
    BY <2>1 DEF RowsInv
  <2> QED
    BY <2>2, <2>3, <2>4, <2>5
<1> QED
  BY <1>1, <1>2, <1>3, <1>4 DEF TemplatesTypeOK, ShapeInv, AnswerInv

\* PinsAreFrozen: through every edit of the manifest and every restart, a run
\* and its stages keep the templates that resolve_latest and the look-ups of
\* BeginRunUseCase gave them.
THEOREM PinsAreFrozenHolds == TemplatesSpec => []PinsAreFrozen
<1>1. TemplatesInv => PinsAreFrozen
  <2> SUFFICES ASSUME TemplatesInv PROVE PinsAreFrozen
    OBVIOUS
  <2>1. ASSUME NEW r \in Runs, run[r].state # "none"
        PROVE  Pinned(r)
    BY <2>1 DEF TemplatesInv, RowsInv
  <2>2. ASSUME NEW r \in Runs, run[r].state # "none",
               NEW i \in DOMAIN begun[r].request.declared
        PROVE  /\ PinnedAs(begun[r].request.declared[i].ref, run[r].declared[i].ref,
                           begun[r].manifest)
               /\ stage[r][begun[r].request.declared[i].stage_id].ref = run[r].declared[i].ref
    BY <2>1, <2>2 DEF Pinned
  <2>3. ASSUME NEW r \in Runs, run[r].state # "none", run[r].agg # NoRef
        PROVE  PinnedAs(begun[r].request.agg, run[r].agg, begun[r].manifest)
    BY <2>1, <2>3 DEF Pinned
  <2> QED
    BY <2>2, <2>3, TemplatesTyped DEF PinsAreFrozen
<1> QED
  BY <1>1, TemplatesInvariance, PTL

\* ResendShowsTheSame: what ResendRunUseCase assembles is what the delivery
\* task of this process assembled, whatever was edited in between.
THEOREM ResendShowsTheSameHolds == TemplatesSpec => []ResendShowsTheSame
<1>1. TemplatesInv => ResendShowsTheSame
  <2> SUFFICES ASSUME TemplatesInv, NEW r \in Runs PROVE Cardinality(emails[r]) <= 1
    BY DEF ResendShowsTheSame
  <2>1. emails[r] = {} \/ emails[r] = {Email(r)}
    BY DEF TemplatesInv, EmailInv
  <2>2. Cardinality({}) = 0 /\ Cardinality({Email(r)}) = 1
    BY FS_EmptySet, FS_Singleton
  <2> QED
    BY <2>1, <2>2
<1> QED
  BY <1>1, TemplatesInvariance, PTL

\* AnswersAreTruthful: translate_to_grpc_status answers INTERNAL only where
\* _struct_to_dict met a number that is not finite, and was_retry is true
\* exactly after an earlier accepted submission.
THEOREM AnswersAreTruthfulHolds == TemplatesSpec => []AnswersAreTruthful
<1>1. TemplatesInv => AnswersAreTruthful
  BY DEF TemplatesInv, AnswerInv
<1> QED
  BY <1>1, TemplatesInvariance, PTL

\* Why a delivery of r may raise what nobody catches.
StrandingCause(r) ==
  \/ \E k \in {RenderJobs(r)[i].ref : i \in DOMAIN RenderJobs(r)} :
       \/ ~Exists(k) /\ (k = BodyRef(r) => run[r].pipeline \notin DOMAIN Overrides)
       \/ TextOf(k) = "undecodable"
       \/ SchemaOf(k) = "unresolvable"
  \/ \E s \in Reported(r) : {stage[r][s].row.report, stage[r][s].row.body}
                              \intersect Crashing # {}
  \/ \E s \in Shown(r) : s \in NoPath

\* A rendering nobody catches the error of met one of its causes.
LEMMA UncaughtAssembly ==
  ASSUME TemplatesInv, NEW r \in Runs, up,
         ErrorOf(RenderJobs(r)) \notin CaughtErrors \union {None}
  PROVE  StrandingCause(r)
<1> DEFINE jobs == RenderJobs(r)
           es == [i \in DOMAIN jobs |-> RenderError(jobs[i])]
<1>1. RowsInv(r) /\ run \in [Runs -> RunRow] /\ OverridesResolve(loaded.templates)
  BY DEF TemplatesInv, ShapeInv, FilesInv
<1>2. /\ DOMAIN jobs \subseteq Nat
      /\ \A i \in DOMAIN jobs : \A n \in DOMAIN jobs[i].contexts :
           \E s \in Reported(r) : jobs[i].contexts[n] \in {stage[r][s].row.report, stage[r][s].row.body}
  BY <1>1, RenderJobsFacts
<1>3. ErrorOf(jobs) = FirstError(es)
  BY DEF ErrorOf
<1>9. ErrorOf(jobs) \notin CaughtErrors \union {None}
  OBVIOUS
<1> HIDE DEF jobs
<1>4. PICK i \in DOMAIN jobs : RenderError(jobs[i]) = ErrorOf(jobs)
  <2>1. DOMAIN es = DOMAIN jobs /\ \A i \in DOMAIN jobs : es[i] = RenderError(jobs[i])
    OBVIOUS
  <2>2. FirstError(es) # None
    BY <1>3, <1>9
  <2> HIDE DEF es
  <2>3. \E i \in DOMAIN es : es[i] = FirstError(es)
    BY <1>2, <2>1, <2>2, FirstErrorIsFirst
  <2> QED
    BY <1>3, <2>1, <2>3
<1> DEFINE k == jobs[i].ref
<1>5. \/ ~Exists(k)
      \/ TextOf(k) = "undecodable"
      \/ SchemaOf(k) = "unresolvable"
      \/ \E n \in DOMAIN jobs[i].contexts : jobs[i].contexts[n] \in Crashing
  BY <1>4, <1>9, RenderChecks
<1>6. k \in {jobs[n].ref : n \in DOMAIN jobs}
  OBVIOUS
<1>7. ~Exists(k) => (k = BodyRef(r) => run[r].pipeline \notin DOMAIN Overrides)
  BY <1>1 DEF OverridesResolve, BodyRef, Exists
<1>8. ASSUME NEW n \in DOMAIN jobs[i].contexts, jobs[i].contexts[n] \in Crashing
      PROVE  \E s \in Reported(r) : {stage[r][s].row.report, stage[r][s].row.body}
                                       \intersect Crashing # {}
  <2>1. PICK s \in Reported(r) :
          jobs[i].contexts[n] \in {stage[r][s].row.report, stage[r][s].row.body}
    BY <1>2
  <2>2. {stage[r][s].row.report, stage[r][s].row.body} \intersect Crashing # {}
    BY <1>8, <2>1
  <2> QED
    BY <2>2
<1> HIDE DEF k
<1> QED
  BY <1>5, <1>6, <1>7, <1>8 DEF jobs, StrandingCause

\* StrandingExplained: the except clauses of AssembleAndDeliverUseCase catch
\* every error but those of the manifest, of a file's encoding, of a schema
\* that refers to nowhere, of a context that makes a template divide by zero
\* and of a stage_id no path can be made of.
THEOREM StrandingExplainedHolds == TemplatesSpec => StrandingExplained
<1> DEFINE Explained == \A r \in tasks : run'[r].state = "SENDING" => StrandingCause(r)
<1>1. TemplatesInv /\ [TemplatesNext]_templatesVars => [Explained]_templatesVars
  <2> SUFFICES ASSUME TemplatesInv, TemplatesNext, NEW r \in tasks, run'[r].state = "SENDING"
               PROVE  StrandingCause(r)
    OBVIOUS
  <2>1. /\ r \in Runs /\ run[r].state = "READY" /\ run \in [Runs -> RunRow]
        /\ up
    BY DEF TemplatesInv, ShapeInv, EmailInv, FilesInv
  <2>2. CASE Deliver(r)
    <3>1. DeliveryError(r) \notin CaughtErrors \union {None}
      <4>1. ASSUME NEW s \in {"SENT", "FAILED"}, run' = [run EXCEPT ![r].state = s]
            PROVE  FALSE
        <5>1. run'[r].state = s
          BY <2>1, <4>1 DEF RunRow
        <5> QED
          BY <5>1
      <4> QED
        BY <2>2, <4>1 DEF Deliver
    <3>2. CASE SaveRaises(r)
      BY <3>2 DEF SaveRaises, StrandingCause
    <3>3. CASE ~SaveRaises(r)
      <4>1. ErrorOf(RenderJobs(r)) \notin CaughtErrors \union {None}
        BY <3>1, <3>3 DEF DeliveryError
      <4> QED
        BY <2>1, <4>1, UncaughtAssembly
    <3> QED
      BY <3>2, <3>3
  <2>3. ASSUME run'[r] = run[r] PROVE FALSE
    BY <2>1, <2>3
  <2>4. CASE EditFiles \/ EditSource \/ Start \/ Stop \/ \E x \in Runs : Resend(x)
    <3>1. run' = run
      BY <2>4 DEF EditFiles, EditSource, Start, Stop, Resend, rows
    <3> QED
      BY <2>3, <3>1
  <2>5. ASSUME NEW x \in Runs, NEW q \in BeginRequests, BeginRun(x, q) PROVE FALSE
    <3>1. x # r
      BY <2>1, <2>5 DEF BeginRun
    <3>2. run' = run \/ \E row : run' = [run EXCEPT ![x] = row]
      BY <2>5 DEF BeginRun, Begun, rows
    <3>3. run'[r] = run[r]
      BY <2>1, <3>1, <3>2
    <3> QED
      BY <2>3, <3>3
  <2>6. ASSUME NEW x \in Runs \union {NotARun}, NEW q \in Submissions, SubmitStageReport(x, q)
        PROVE  FALSE
    <3>1. run' = run \/ run' = [run EXCEPT ![x].state = "AGGREGATING"]
      BY <2>6 DEF SubmitStageReport, rows
    <3>2. CASE x = r
      <4>1. run'[r].state \in {run[r].state, "AGGREGATING"}
        BY <2>1, <3>1, <3>2 DEF RunRow
      <4> QED
        BY <2>1, <4>1
    <3>3. CASE x # r
      BY <2>1, <2>3, <3>1, <3>3
    <3> QED
      BY <3>2, <3>3
  <2>7. ASSUME NEW x \in Runs \union {NotARun}, FinalizeRun(x) PROVE FALSE
    <3>1. run' = run \/ run' = [run EXCEPT ![x].state = "READY"]
      BY <2>7 DEF FinalizeRun
    <3>2. CASE x = r
      <4>1. run'[r].state \in {run[r].state, "READY"}
        BY <2>1, <3>1, <3>2 DEF RunRow
      <4> QED
        BY <2>1, <4>1
    <3>3. CASE x # r
      BY <2>1, <2>3, <3>1, <3>3
    <3> QED
      BY <3>2, <3>3
  <2>8. ASSUME NEW x \in Runs, Deliver(x), x # r PROVE FALSE
    <3>1. PICK s : run' = [run EXCEPT ![x].state = s]
      BY <2>8 DEF Deliver
    <3>2. run'[r] = run[r]
      BY <2>1, <2>8, <3>1
    <3> QED
      BY <2>3, <3>2
  <2> QED
    BY <2>2, <2>4, <2>5, <2>6, <2>7, <2>8 DEF TemplatesNext
<1> QED
  BY <1>1, TemplatesInvariance, PTL DEF TemplatesSpec, StrandingExplained, StrandingCause

\* The order BeginRun was asked for is the order of the rows.
LEMMA OrderAsAsked ==
  ASSUME NEW r \in Runs, RowsInv(r), Pinned(r), NEW s \in IdsOf(run[r].declared)
  PROVE  OrderOf(begun[r].request.declared, s) = OrderOf(run[r].declared, s)
<1> DEFINE d == run[r].declared
           a == begun[r].request.declared
<1>1. /\ DOMAIN a = DOMAIN d
      /\ \A i \in DOMAIN d : d[i].stage_id = a[i].stage_id
      /\ \A i \in DOMAIN d : d[i].stage_order = a[i].stage_order
  BY DEF Pinned
<1>2. DistinctIds(d)
  BY DEF RowsInv
<1>3. PICK i \in DOMAIN d : s = d[i].stage_id
  BY DEF IdsOf
<1> HIDE DEF a, d
<1>4. DistinctIds(a)
  BY <1>1, <1>2 DEF DistinctIds
<1>5. OrderOf(d, s) = d[i].stage_order
  BY <1>2, <1>3, OrderOfIndex
<1>6. i \in DOMAIN a /\ s = a[i].stage_id
  BY <1>1, <1>3
<1>7. OrderOf(a, s) = a[i].stage_order
  BY <1>4, <1>6, OrderOfIndex
<1>8. OrderOf(a, s) = OrderOf(d, s)
  BY <1>1, <1>3, <1>5, <1>7
<1> QED
  BY <1>8 DEF a, d

\* How often a stage is in a bucket, and as what.
LEMMA BucketCounts ==
  ASSUME NEW r \in Runs, RowsInv(r), run \in [Runs -> RunRow], NEW p,
         NEW s \in Reported(r)
  PROVE  LET b == Bucket(r, p)
             n == Cardinality({i \in DOMAIN b : b[i].stage_id = s})
         IN /\ stage[r][s].row.position = p =>
                 n = 1 /\ \E i \in DOMAIN b :
                            b[i] = [stage_id |-> s, context |-> stage[r][s].row.body]
            /\ stage[r][s].row.position # p => n = 0
<1> DEFINE S == {x \in Reported(r) : stage[r][x].row.position = p}
           b == Bucket(r, p)
           at == {i \in DOMAIN b : b[i].stage_id = s}
<1>1. /\ \A i \in DOMAIN b : b[i].stage_id \in S
      /\ \A i \in DOMAIN b : b[i] = [stage_id |-> b[i].stage_id,
                                     context |-> stage[r][b[i].stage_id].row.body]
      /\ \A x \in S : \E i \in DOMAIN b : b[i].stage_id = x
      /\ \A i, j \in DOMAIN b : b[i].stage_id = b[j].stage_id => i = j
  BY BucketFacts
<1>2. s \in S <=> stage[r][s].row.position = p
  OBVIOUS
<1> HIDE DEF S, b
<1>3. CASE s \in S
  <2>1. PICK i \in DOMAIN b : b[i].stage_id = s
    BY <1>1, <1>3
  <2>2. at = {i}
    BY <1>1, <2>1
  <2>3. Cardinality(at) = 1
    BY <2>2, FS_Singleton
  <2>4. b[i] = [stage_id |-> s, context |-> stage[r][s].row.body]
    BY <1>1, <2>1
  <2> QED
    BY <1>2, <1>3, <2>3, <2>4 DEF b
<1>4. CASE s \notin S
  <2>1. at = {}
    BY <1>1, <1>4
  <2>2. Cardinality(at) = 0
    BY <2>1, FS_EmptySet
  <2> QED
    BY <1>2, <1>4, <2>2 DEF b
<1> QED
  BY <1>3, <1>4

\* LastSubmissionShown: what _load_and_render_stages, _sort_key and _bucket
\* make of the stage rows is the last accepted submission of each stage, each
\* once, in the order BeginRun was asked for.
THEOREM LastSubmissionShownHolds == TemplatesSpec => []LastSubmissionShown
<1>1. TemplatesInv => LastSubmissionShown
  <2> SUFFICES ASSUME TemplatesInv PROVE LastSubmissionShown
    OBVIOUS
  <2> SUFFICES ASSUME NEW r \in Runs, NEW e \in emails[r]
               PROVE
      LET shown == {e.stages[i].stage_id : i \in DOMAIN e.stages}
          order(s) == OrderOf(begun[r].request.declared, s)
          inBucket(bucket, s) == \E i \in DOMAIN bucket :
              bucket[i] = [stage_id |-> s, context |-> latest[r][s].body]
          count(bucket, s) == Cardinality({i \in DOMAIN bucket : bucket[i].stage_id = s})
      IN /\ shown = DOMAIN latest[r]
         /\ \A i \in DOMAIN e.stages :
              e.stages[i].report = latest[r][e.stages[i].stage_id].report
         /\ \A i, j \in DOMAIN e.stages : i < j =>
              LET s == e.stages[i].stage_id
                  t == e.stages[j].stage_id
              IN order(s) < order(t) \/ (order(s) = order(t) /\ s < t)
         /\ \A s \in shown :
              /\ count(e.before, s) + count(e.after, s)
                   = IF latest[r][s].body = NULL THEN 0 ELSE 1
              /\ latest[r][s].body # NULL =>
                   inBucket(IF latest[r][s].position = "BEFORE_STAGES_SUMMARY"
                            THEN e.before ELSE e.after, s)
    BY DEF LastSubmissionShown, OrderOf
  <2> DEFINE inc == Included(r)
             before == Bucket(r, "BEFORE_STAGES_SUMMARY")
             after == Bucket(r, "AFTER_STAGES_SUMMARY")
             count(bucket, s) == Cardinality({i \in DOMAIN bucket : bucket[i].stage_id = s})
             inBucket(bucket, s) == \E i \in DOMAIN bucket :
                 bucket[i] = [stage_id |-> s, context |-> latest[r][s].body]
             order(s) == OrderOf(begun[r].request.declared, s)
  <2>1. RowsInv(r) /\ EmailInv(r) /\ run \in [Runs -> RunRow]
    BY DEF TemplatesInv, ShapeInv
  <2>2. e = Email(r) /\ run[r].state # "none"
    BY <2>1 DEF EmailInv
  <2>3. Pinned(r)
    BY <2>1, <2>2 DEF RowsInv
  <2>4. /\ DOMAIN e.stages = DOMAIN inc
        /\ \A i \in DOMAIN inc : /\ e.stages[i].stage_id = inc[i]
                                 /\ e.stages[i].report = stage[r][inc[i]].row.report
        /\ e.before = before /\ e.after = after
    BY <2>2 DEF Email
  <2>5. /\ \A i \in DOMAIN inc : inc[i] \in Reported(r)
        /\ \A s \in Reported(r) : \E i \in DOMAIN inc : inc[i] = s
        /\ \A i, j \in DOMAIN inc : i < j => SortKeyBelow(run[r].declared, inc[i], inc[j])
    BY <2>1, IncludedFacts
  <2>6. DOMAIN latest[r] = Reported(r)
        /\ \A s \in Reported(r) : StoredAs(stage[r][s].row, latest[r][s])
    BY <2>1 DEF RowsInv
  <2> HIDE DEF inc, before, after
  <2>7. {e.stages[i].stage_id : i \in DOMAIN e.stages} = Reported(r)
    BY <2>4, <2>5
  <2>8. \A i \in DOMAIN e.stages : e.stages[i].report = latest[r][e.stages[i].stage_id].report
    BY <2>4, <2>5, <2>6 DEF StoredAs
  <2>9. ASSUME NEW i \in DOMAIN inc, NEW j \in DOMAIN inc, i < j
        PROVE  order(inc[i]) < order(inc[j])
                 \/ (order(inc[i]) = order(inc[j]) /\ inc[i] < inc[j])
    <3>1. inc[i] \in IdsOf(run[r].declared) /\ inc[j] \in IdsOf(run[r].declared)
      BY <2>1, <2>5, ReportedFacts
    <3>2. /\ order(inc[i]) = OrderOf(run[r].declared, inc[i])
          /\ order(inc[j]) = OrderOf(run[r].declared, inc[j])
      BY <2>1, <2>3, <3>1, OrderAsAsked
    <3>3. SortKeyBelow(run[r].declared, inc[i], inc[j])
      BY <2>5, <2>9
    <3> HIDE DEF order
    <3> QED
      BY <3>2, <3>3 DEF SortKeyBelow
  <2>10. ASSUME NEW s \in Reported(r)
         PROVE  /\ count(before, s) + count(after, s)
                     = IF latest[r][s].body = NULL THEN 0 ELSE 1
                /\ latest[r][s].body # NULL =>
                     inBucket(IF latest[r][s].position = "BEFORE_STAGES_SUMMARY"
                              THEN before ELSE after, s)
    <3> DEFINE pos == stage[r][s].row.position
               q == latest[r][s]
    <3>1. /\ stage[r][s].row.body = q.body
          /\ pos = IF q.body = NULL THEN NULL ELSE DomainPosition(q.position)
          /\ q.body # NULL => DomainPosition(q.position) \in Position
      BY <2>6 DEF StoredAs
    <3>2. /\ pos = "BEFORE_STAGES_SUMMARY" => count(before, s) = 1 /\ inBucket(before, s)
          /\ pos # "BEFORE_STAGES_SUMMARY" => count(before, s) = 0
          /\ pos = "AFTER_STAGES_SUMMARY" => count(after, s) = 1 /\ inBucket(after, s)
          /\ pos # "AFTER_STAGES_SUMMARY" => count(after, s) = 0
      <4>1. ASSUME NEW p
            PROVE  /\ pos = p => /\ count(Bucket(r, p), s) = 1
                                 /\ \E i \in DOMAIN Bucket(r, p) : Bucket(r, p)[i]
                                      = [stage_id |-> s, context |-> stage[r][s].row.body]
                   /\ pos # p => count(Bucket(r, p), s) = 0
        BY <2>1, BucketCounts
      <4>2. ASSUME NEW p
            PROVE  /\ pos = p => count(Bucket(r, p), s) = 1 /\ inBucket(Bucket(r, p), s)
                   /\ pos # p => count(Bucket(r, p), s) = 0
        <5> HIDE DEF count
        <5> QED
          BY <3>1, <4>1
      <4> HIDE DEF count, inBucket, pos
      <4> QED
        BY <4>2 DEF before, after
    <3> HIDE DEF count, inBucket
    <3>3. CASE q.body = NULL
      <4>1. pos # "BEFORE_STAGES_SUMMARY" /\ pos # "AFTER_STAGES_SUMMARY"
        BY <3>1, <3>3 DEF NULL
      <4> QED
        BY <3>2, <3>3, <4>1
    <3>4. CASE q.body # NULL /\ q.position = "BEFORE_STAGES_SUMMARY"
      <4>1. pos = "BEFORE_STAGES_SUMMARY" /\ pos # "AFTER_STAGES_SUMMARY"
        BY <3>1, <3>4 DEF DomainPosition
      <4> QED
        BY <3>2, <3>4, <4>1
    <3>5. CASE q.body # NULL /\ q.position # "BEFORE_STAGES_SUMMARY"
      <4>1. pos = "AFTER_STAGES_SUMMARY" /\ pos # "BEFORE_STAGES_SUMMARY"
        BY <3>1, <3>5 DEF DomainPosition, Position
      <4> QED
        BY <3>2, <3>5, <4>1
    <3> QED
      BY <3>3, <3>4, <3>5
  <2>11. \A i, j \in DOMAIN e.stages : i < j =>
           \/ order(e.stages[i].stage_id) < order(e.stages[j].stage_id)
           \/ /\ order(e.stages[i].stage_id) = order(e.stages[j].stage_id)
              /\ e.stages[i].stage_id < e.stages[j].stage_id
    <3> HIDE DEF order
    <3> QED
      BY <2>4, <2>9
  <2> HIDE DEF count, inBucket, order
  <2>12. \A s \in {e.stages[i].stage_id : i \in DOMAIN e.stages} :
           /\ count(e.before, s) + count(e.after, s)
                = IF latest[r][s].body = NULL THEN 0 ELSE 1
           /\ latest[r][s].body # NULL =>
                inBucket(IF latest[r][s].position = "BEFORE_STAGES_SUMMARY"
                         THEN e.before ELSE e.after, s)
    BY <2>4, <2>7, <2>10
  <2> QED
    BY <2>6, <2>7, <2>8, <2>11, <2>12 DEF count, inBucket, order
<1> QED
  BY <1>1, TemplatesInvariance, PTL
=============================================================================
