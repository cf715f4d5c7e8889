--------------------------- MODULE ReportContract ---------------------------
(***************************************************************************)
(* What the service promises the reader of a report, with no tasks, locks  *)
(* or timeouts: a run collects stage contents; once sealed its contents    *)
(* never change; it is closed once, with one verdict, for ever; and the    *)
(* report leaves the service at most once, carrying exactly the sealed     *)
(* contents.  A copy may still leave after an ORPHANED verdict: the        *)
(* sweeper judges a run by age alone and does not recall a delivery.       *)
(***************************************************************************)
EXTENDS Naturals

CONSTANTS Runs, Stages, Contents, NoContent

VARIABLES phase,    \* absent, collecting, sealed or closed
          book,     \* the contents reported so far
          verdict,  \* how a closed run ended
          copies    \* the reports that left the service

vars == <<phase, book, verdict, copies>>

Page == [Stages -> Contents \union {NoContent}]
Blank == [s \in Stages |-> NoContent]

Init ==
  /\ phase = [r \in Runs |-> "absent"]
  /\ book = [r \in Runs |-> Blank]
  /\ verdict = [r \in Runs |-> "none"]
  /\ copies = [r \in Runs |-> {}]

Open(r) ==
  /\ phase[r] = "absent"
  /\ phase' = [phase EXCEPT ![r] = "collecting"]
  /\ UNCHANGED <<book, verdict, copies>>

Write(r) ==
  /\ phase[r] = "collecting"
  /\ \E s \in Stages, c \in Contents : book' = [book EXCEPT ![r][s] = c]
  /\ UNCHANGED <<phase, verdict, copies>>

Seal(r) ==
  /\ phase[r] = "collecting"
  /\ phase' = [phase EXCEPT ![r] = "sealed"]
  /\ UNCHANGED <<book, verdict, copies>>

Deliver(r) ==
  /\ phase[r] \in {"sealed", "closed"}
  /\ copies[r] = {}
  /\ copies' = [copies EXCEPT ![r] = {<<1, book[r]>>}]
  /\ UNCHANGED <<phase, book, verdict>>

\* Only a sealed run can be SENT or FAILED; any open run can be ORPHANED.
Close(r, v) ==
  /\ \/ phase[r] = "sealed"
     \/ phase[r] = "collecting" /\ v = "ORPHANED"
  /\ phase' = [phase EXCEPT ![r] = "closed"]
  /\ verdict' = [verdict EXCEPT ![r] = v]
  /\ UNCHANGED <<book, copies>>

Next ==
  \E r \in Runs :
    \/ Open(r) \/ Write(r) \/ Seal(r) \/ Deliver(r)
    \/ \E v \in {"SENT", "FAILED", "ORPHANED"} : Close(r, v)

Spec == Init /\ [][Next]_vars
=============================================================================
