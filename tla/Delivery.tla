------------------------------ MODULE Delivery ------------------------------
(***************************************************************************)
(* How the report of one run reaches mailboxes: the delivery task, the     *)
(* notice to administrators about an oversized report, and the resends     *)
(* administrators ask for, each through AiosmtplibMailer and its retries.  *)
(* The relay is external: it may accept a message for some of its          *)
(* recipients, refuse it, or accept it and lose its reply.                 *)
(*                                                                         *)
(* The run is in SENDING when the module starts; how it got there, and the *)
(* sweeper that may orphan it meanwhile, is RunLifecycle's subject.        *)
(***************************************************************************)
EXTENDS Naturals, FiniteSets

CONSTANTS
  Subscribers,   \* accounts that may subscribe to the run's pipeline
  Admins,        \* mail.admin_recipients
  Sender,        \* mail.from_address
  Resends,       \* POST /runs/{id}/resend, each made once
  MaxRetries,    \* mail.retry.max_retries
  Codes          \* SMTP reply codes the relay may send

First == "first"     \* the send of AssembleAndDeliverUseCase
Notice == "notice"   \* the send of the administrator notification
Jobs == Resends \union {First, Notice}
Addresses == Subscribers \union Admins \union {Sender}

ASSUME JobsAssumption == {First, Notice} \intersect Resends = {}
ASSUME MaxRetriesAssumption == MaxRetries \in Nat
ASSUME CodesAssumption == Codes \subseteq Nat /\ IsFiniteSet(Codes)
ASSUME AddressesAssumption == IsFiniteSet(Addresses)

\* What an attempt may raise: a refused login, one reply code, the codes of a
\* refusal of every recipient, or a failure of the network.
Failures ==
  {[kind |-> "auth", codes |-> {}], [kind |-> "network", codes |-> {}]}
    \union [kind : {"response"}, codes : {{c} : c \in Codes}]
    \union [kind : {"refused"}, codes : (SUBSET Codes) \ {{}}]

Reason == {"TEMPLATE_RENDER", "EMAIL_SIZE_EXCEEDED", "PERMANENT_SMTP_FAILURE",
           "RETRIES_EXHAUSTED"}
Outcome == Reason \union {"none", "SUCCESS"}
Pc == {"new", "check", "render", "resolve", "send", "settle", "done", "lost"}
Job == [pc : Pc, to : SUBSET Addresses, attempt : Nat, outcome : Outcome]
\* What the details of a record keep of the recipients: how many they were (0
\* where recipient_count is left out, before anybody was resolved), and their
\* addresses where recipient_addresses is there.
Record == [job : Jobs, to : SUBSET Addresses, count : Nat, outcome : Outcome]

VARIABLES
  subscribed,  \* who list_recipients_for_run returns
  runState,
  big,         \* the encoded report is over mail.max_email_size_bytes
  job,
  audit,       \* SEND_REPORT (reconciling or not) and RESEND_REPORT records
  copies,      \* how often the relay accepted a job's message for an address
  lostReplies, \* attempts the relay accepted although they raised
  known        \* who was subscribed at some time since a resend began

vars == <<subscribed, runState, big, job, audit, copies, lostReplies, known>>

TypeOK ==
  /\ subscribed \subseteq Subscribers
  /\ runState \in {"SENDING", "SENT", "FAILED", "ORPHANED"}
  /\ big \in BOOLEAN
  /\ job \in [Jobs -> Job]
  /\ audit \subseteq Record
  /\ copies \in [Jobs -> [Addresses -> Nat]]
  /\ lostReplies \in [Jobs -> Nat]
  /\ known \in [Resends -> SUBSET Subscribers]

Init ==
  /\ subscribed \in SUBSET Subscribers
  /\ runState = "SENDING"
  /\ big \in BOOLEAN
  /\ job = [j \in Jobs |-> [pc |-> IF j = First THEN "render" ELSE "new",
                            to |-> {}, attempt |-> 0, outcome |-> "none"]]
  /\ audit = {}
  /\ copies = [j \in Jobs |-> [a \in Addresses |-> 0]]
  /\ lostReplies = [j \in Jobs |-> 0]
  /\ known = [j \in Resends |-> {}]

-----------------------------------------------------------------------------
(* The mailer.                                                             *)

\* _classify_response_code
ClassifyCode(code) ==
  IF code \in 400 .. 499 /\ code # 421 THEN "transient" ELSE "permanent"

\* _classify_smtp_error
Classify(f) ==
  CASE f.kind = "auth" -> "permanent"
    [] f.kind \in {"response", "refused"} ->
         IF \A c \in f.codes : ClassifyCode(c) = "permanent"
         THEN "permanent" ELSE "transient"
    [] f.kind = "network" -> "transient"

\* The envelope: To is the sender, Bcc the recipients.
Envelope(j) == job[j].to \union {Sender}

\* send() has ended, one way or the other.
Ended(j, outcome) ==
  job' = [job EXCEPT ![j].pc = "settle", ![j].outcome = outcome]

\* Mutant of Raised: one retry too many.
RaisedOnceMore(j, f) ==
  IF Classify(f) = "permanent" THEN Ended(j, "PERMANENT_SMTP_FAILURE")
  ELSE IF job[j].attempt > MaxRetries + 1 THEN Ended(j, "RETRIES_EXHAUSTED")
  ELSE job' = [job EXCEPT ![j].attempt = @ + 1]

\* The except clause of _send_with_retries: fail fast, give up, or sleep and
\* try again.
Raised(j, f) ==
  IF Classify(f) = "permanent" THEN Ended(j, "PERMANENT_SMTP_FAILURE")
  ELSE IF job[j].attempt > MaxRetries THEN Ended(j, "RETRIES_EXHAUSTED")
  ELSE job' = [job EXCEPT ![j].attempt = @ + 1]

\* The relay takes the message for some addresses of the envelope.
Accepted(j) ==
  \E some \in (SUBSET Envelope(j)) \ {{}} :
    copies' = [copies EXCEPT ![j] =
                 [a \in Addresses |-> IF a \in some THEN @[a] + 1 ELSE @[a]]]

\* _open_and_send returns; who was refused is in send_message's result, which
\* it drops.
AttemptSucceeds(j) ==
  /\ job[j].pc = "send"
  /\ Accepted(j)
  /\ Ended(j, "SUCCESS")
  /\ UNCHANGED <<subscribed, runState, big, audit, lostReplies, known>>

\* The relay accepted, and the reply is lost to a timeout or a disconnect.
AttemptUnanswered(j) ==
  /\ job[j].pc = "send"
  /\ Accepted(j)
  /\ lostReplies' = [lostReplies EXCEPT ![j] = @ + 1]
  /\ Raised(j, [kind |-> "network", codes |-> {}])
  /\ UNCHANGED <<subscribed, runState, big, audit, known>>

\* The attempt fails before the relay took the message.
AttemptFails(j) ==
  /\ job[j].pc = "send"
  /\ \E f \in Failures : Raised(j, f)
  /\ UNCHANGED <<subscribed, runState, big, audit, copies, lostReplies, known>>

\* With recipients resolved: nothing to send, too big to send, or send().
Submit(j, to) ==
  IF to = {}
  THEN job' = [job EXCEPT ![j].pc = "settle", ![j].outcome = "SUCCESS"]
  ELSE IF big
  THEN job' = [job EXCEPT ![j].pc = "settle", ![j].to = to,
                          ![j].outcome = "EMAIL_SIZE_EXCEEDED"]
  ELSE job' = [job EXCEPT ![j].pc = "send", ![j].to = to, ![j].attempt = 1]

-----------------------------------------------------------------------------
(* The three kinds of job.                                                 *)

Resendable == {"SENT", "FAILED"}

\* Mutant of CheckState: any run that has left READY may be resent.
CheckStateSending(j) ==
  /\ j \in Resends /\ job[j].pc = "check"
  /\ job' = [job EXCEPT ![j].pc = IF runState # "ORPHANED" THEN "render" ELSE "done"]
  /\ UNCHANGED <<subscribed, runState, big, audit, copies, lostReplies, known>>

ResendArrives(j) ==
  /\ j \in Resends /\ job[j].pc = "new"
  /\ job' = [job EXCEPT ![j].pc = "check"]
  /\ known' = [known EXCEPT ![j] = subscribed]
  /\ UNCHANGED <<subscribed, runState, big, audit, copies, lostReplies>>

\* ResendRunUseCase: the state precondition; 409 otherwise.
CheckState(j) ==
  /\ j \in Resends /\ job[j].pc = "check"
  /\ job' = [job EXCEPT ![j].pc = IF runState \in Resendable THEN "render" ELSE "done"]
  /\ UNCHANGED <<subscribed, runState, big, audit, copies, lostReplies, known>>

\* Stages, attachments and body are rendered, or one of the four render errors
\* is caught.
Render(j) ==
  /\ job[j].pc = "render"
  /\ \/ job' = [job EXCEPT ![j].pc = "resolve"]
     \/ Ended(j, "TEMPLATE_RENDER")
  /\ UNCHANGED <<subscribed, runState, big, audit, copies, lostReplies, known>>

\* Mutant of ResolveRecipients: a resend goes to whom the report went before.
ResolveEarlier(j) ==
  /\ job[j].pc = "resolve"
  /\ Submit(j, IF j \in Resends /\ job[First].to # {} THEN job[First].to ELSE subscribed)
  /\ UNCHANGED <<subscribed, runState, big, audit, copies, lostReplies, known>>

\* list_recipients_for_run in a unit of work of its own, and the send.
ResolveRecipients(j) ==
  /\ job[j].pc = "resolve"
  /\ Submit(j, subscribed)
  /\ UNCHANGED <<subscribed, runState, big, audit, copies, lostReplies, known>>

\* The record of job j, with the addresses it is given.
Audited(j, addresses) ==
  audit \union {[job |-> j, to |-> addresses, count |-> Cardinality(job[j].to),
                 outcome |-> job[j].outcome]}

\* The record of the first delivery has the addresses only if it is the one
\* that goes with SENDING -> SENT: that of a failure, and that of a delivery
\* the sweeper overtook, hold no more than recipient_count.
RecordedAddresses ==
  IF runState = "SENDING" /\ job[First].outcome = "SUCCESS" THEN job[First].to ELSE {}

\* Mutant of Settle: there is no way out of a run that was orphaned meanwhile.
SettleSendingOnly ==
  /\ job[First].pc = "settle" /\ runState = "SENDING"
  /\ audit' = Audited(First, RecordedAddresses)
  /\ runState' = IF job[First].outcome = "SUCCESS" THEN "SENT" ELSE "FAILED"
  /\ job' = [job EXCEPT
       ![First].pc = "done",
       ![Notice] = IF job[First].outcome = "EMAIL_SIZE_EXCEEDED" /\ Admins # {}
                   THEN [@ EXCEPT !.pc = "send", !.to = Admins, !.attempt = 1]
                   ELSE @]
  /\ UNCHANGED <<subscribed, big, copies, lostReplies, known>>

\* _finalize_sent and _finalize_failed: record and transition in one unit of
\* work, or a reconciliation record when the sweeper was there first.  Then,
\* for an oversized report, the notice, if there is anybody to notify.
Settle ==
  /\ job[First].pc = "settle"
  /\ audit' = Audited(First, RecordedAddresses)
  /\ runState' = IF runState # "SENDING" THEN runState
                 ELSE IF job[First].outcome = "SUCCESS" THEN "SENT" ELSE "FAILED"
  /\ job' = [job EXCEPT
       ![First].pc = "done",
       ![Notice] = IF job[First].outcome = "EMAIL_SIZE_EXCEEDED" /\ Admins # {}
                   THEN [@ EXCEPT !.pc = "send", !.to = Admins, !.attempt = 1]
                   ELSE @]
  /\ UNCHANGED <<subscribed, big, copies, lostReplies, known>>

\* The notification ends, delivered or not, with a log line only.
SettleNotice ==
  /\ job[Notice].pc = "settle"
  /\ job' = [job EXCEPT ![Notice].pc = "done"]
  /\ UNCHANGED <<subscribed, runState, big, audit, copies, lostReplies, known>>

\* Mutant of SettleResend: the recipients are looked up again for the record.
SettleResendLooksUp(j) ==
  /\ j \in Resends /\ job[j].pc = "settle"
  /\ audit' = audit \union {[job |-> j, to |-> subscribed, count |-> Cardinality(subscribed),
                             outcome |-> job[j].outcome]}
  /\ job' = [job EXCEPT ![j].pc = "done"]
  /\ UNCHANGED <<subscribed, runState, big, copies, lostReplies, known>>

\* The RESEND_REPORT record has the addresses whatever the outcome; those of a
\* render failure are none.
SettleResend(j) ==
  /\ j \in Resends /\ job[j].pc = "settle"
  /\ audit' = Audited(j, job[j].to)
  /\ job' = [job EXCEPT ![j].pc = "done"]
  /\ UNCHANGED <<subscribed, runState, big, copies, lostReplies, known>>

Running(j) == job[j].pc \notin {"new", "done", "lost"}

\* A unit of work fails, the request or task is cancelled, or an error none of
\* the handlers names: the job is over where it stands.
Dies(j) ==
  /\ Running(j)
  /\ job' = [job EXCEPT ![j].pc = "lost"]
  /\ UNCHANGED <<subscribed, runState, big, audit, copies, lostReplies, known>>

-----------------------------------------------------------------------------
(* The surroundings.                                                       *)

\* Somebody subscribes or unsubscribes.
Subscription(u) ==
  /\ subscribed' = IF u \in subscribed THEN subscribed \ {u} ELSE subscribed \union {u}
  /\ known' = [j \in Resends |->
                 IF Running(j) THEN known[j] \union subscribed' ELSE known[j]]
  /\ UNCHANGED <<runState, big, job, audit, copies, lostReplies>>

\* The sweeper gives up on a run that has been SENDING for too long.
Orphaned ==
  /\ runState = "SENDING"
  /\ runState' = "ORPHANED"
  /\ UNCHANGED <<subscribed, big, job, audit, copies, lostReplies, known>>

Send(j) == AttemptSucceeds(j) \/ AttemptUnanswered(j) \/ AttemptFails(j)

Steps(j) ==
  \/ CheckState(j) \/ Render(j) \/ ResolveRecipients(j) \/ Send(j)
  \/ SettleResend(j)
  \/ j = First /\ Settle
  \/ j = Notice /\ SettleNotice

Next ==
  \/ \E j \in Jobs : ResendArrives(j) \/ Steps(j) \/ Dies(j)
  \/ \E u \in Subscribers : Subscription(u)
  \/ Orphaned

Spec == Init /\ [][Next]_vars

\* Each await of a job comes back: attempts have a timeout.
FairSpec == Spec /\ \A j \in Jobs : WF_vars(Steps(j))

-----------------------------------------------------------------------------
(* Properties.                                                             *)

Attempted(j) == \E a \in Addresses : copies[j][a] > 0

\* L2-MAIL-006: a recipient gets a second copy of a message only for a reply
\* that was lost, a copy of a failed one likewise, and never more than the
\* configured attempts; an oversized message (L2-MAIL-008) gets to nobody.
CopiesAccounted ==
  /\ TypeOK
  /\ \A j \in Jobs :
       /\ \A a \in Addresses :
            copies[j][a] <= lostReplies[j] + IF job[j].outcome = "SUCCESS" THEN 1 ELSE 0
       /\ \A a \in Addresses : copies[j][a] <= MaxRetries + 1
       /\ big /\ j # Notice => ~Attempted(j)

\* Who, apart from the sender itself, may have a copy of the message of job j.
Mailboxes(j) == {a \in Addresses \ {Sender} : copies[j][a] > 0}

\* L3-DASH-013, and as much of L2-MAIL-012 as the code keeps: for a job that was
\* not cut short the audit log accounts for everyone who may have a copy, be it
\* of an attempt that failed in the end.  It names them for a resend and for a
\* report that was SENT, and otherwise says how many they may be; and a record
\* of success with recipients stands for a message the relay has taken.
AuditMatchesRelay ==
  /\ \A j \in Jobs \ {Notice} :
       job[j].pc = "done" /\ Mailboxes(j) # {} =>
         \E rec \in audit :
           /\ rec.job = j /\ Cardinality(Mailboxes(j)) <= rec.count
           /\ j \in Resends \/ runState = "SENT" => Mailboxes(j) \subseteq rec.to
  /\ \A rec \in audit : rec.outcome = "SUCCESS" /\ rec.count > 0 => Attempted(rec.job)

\* L2-DASH-008, L3-DASH-012: whoever gets a copy of a resend was subscribed
\* while it was on its way, not merely when the report was first sent.
RecipientsCurrent ==
  \A j \in Resends, a \in Addresses \ {Sender} :
    copies[j][a] > 0 => a \in known[j]

\* L3-DASH-028, L3-MAIL-030: a report is resent only when the outcome of its
\* first delivery is on record, so the two never mix on the relay; and
\* administrators hear of an oversized report only once that is on record.
OutcomeComesFirst ==
  /\ (\E j \in Resends : Attempted(j)) => \E rec \in audit : rec.job = First
  /\ job[Notice].pc # "new" =>
       \E rec \in audit : rec.job = First /\ rec.outcome = "EMAIL_SIZE_EXCEEDED"

\* Retries are bounded: every delivery, notice and resend comes to its end.
EveryJobEnds == \A j \in Jobs : Running(j) ~> ~Running(j)
=============================================================================
