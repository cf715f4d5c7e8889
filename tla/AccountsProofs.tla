--------------------------- MODULE AccountsProofs ---------------------------
(***************************************************************************)
(* Sessions, administrators, subscriptions and the audit log, for any      *)
(* accounts, any number of requests and any calls they make.               *)
(*                                                                         *)
(* The strengthening says what a request that has passed the middleware or *)
(* the gate may still rely on after it let go of the lock (its account     *)
(* exists, and has been an administrator if the route asks for one), and   *)
(* that the subscriptions table is what the audit log adds up to.          *)
(***************************************************************************)
EXTENDS Accounts, FiniteSetTheorems, TLAPS

UsersOK ==
  /\ accounts \subseteq Emails /\ FirstAccounts \subseteq accounts
  /\ admins \subseteq accounts /\ disabled \subseteq accounts
  /\ password \in [Emails -> Passwords]

SessionsOK ==
  /\ sessions \in [Token -> Session \union {NoSession}]
  /\ \A t \in Token : sessions[t] # NoSession =>
       /\ sessions[t].user \in accounts /\ sessions[t].created <= sessions[t].last
       /\ sessions[t].user \notin disabled
       /\ sessions[t].password = password[sessions[t].user]

\* The audit records of a request are written as it is answered.
AuditOK ==
  /\ audit \subseteq AuditRecord /\ IsFiniteSet(audit)
  /\ \A a \in audit : req[a.by].pc \in Status
  /\ OnlyAdministratorsAct

\* What a request that waits for the lock may rely on.
ReqOK ==
  /\ req \in [Requests -> Request] /\ lock \in Requests \union {Free}
  /\ \A r \in Requests :
       /\ req[r].pc \notin {"new"} \union Status => req[r].call \in Calls
       /\ req[r].pc = "auth" => req[r].cookie \in Token
       /\ req[r].user # Nobody => req[r].user \in accounts
       /\ req[r].pc \in {"gate", "exec"} /\ req[r].call.op # "login" =>
            req[r].user # Nobody
       /\ req[r].pc = "exec" /\ req[r].call.op \in AdminOps =>
            req[r].user \in entitled

ProcessOK == clock \in Nat /\ restarts \in Nat /\ issued \subseteq Token

HistoryOK ==
  /\ stale \in BOOLEAN /\ entitled \subseteq Emails
  /\ admins \ disabled \subseteq entitled

\* The subscription of an account to a target.
Has(s, u, g, x) == s.user = u /\ s.granularity = g /\ s.target = x

Log(action, u, g, x) == {b \in audit : b.action = action /\ Has(b, u, g, x)}

\* The unique indexes hold, and the log adds up to the table.
SubscriptionsOK ==
  /\ subscriptions \subseteq Subscription
  /\ \A s \in subscriptions : s.user \in accounts
  /\ \A s, q \in subscriptions : Has(s, q.user, q.granularity, q.target) => s = q
  /\ \A u \in Emails, g \in Granularity, x \in Target :
       Cardinality(Log("SUBSCRIBE", u, g, x)) =
         Cardinality(Log("UNSUBSCRIBE", u, g, x))
           + (IF \E s \in subscriptions : Has(s, u, g, x) THEN 1 ELSE 0)

IInv ==
  UsersOK /\ SessionsOK /\ AuditOK /\ ReqOK /\ ProcessOK /\ HistoryOK /\ SubscriptionsOK

-----------------------------------------------------------------------------
(* What a step does to the tables.                                         *)

\* LoginUseCase let an account in.
LoggedIn(r) ==
  LET u == req[r].call.who IN
  /\ Runs(r, "login") /\ u \in accounts \ disabled
  /\ sessions' = [sessions EXCEPT ![r] =
       [user |-> u, created |-> clock, last |-> clock, password |-> password[u]]]
  /\ audit' = Audited(r, "LOGIN", u, u)
  /\ issued' = issued \union {r}
  /\ Answer(r, "200")
  /\ UNCHANGED <<userTable, subscriptions, clock, restarts>>

\* It refused one.
Refused(r) ==
  LET u == req[r].call.who IN
  /\ Runs(r, "login")
  /\ audit' = Audited(r, "LOGIN_FAILED", u, u)
  /\ Answer(r, "401")
  /\ UNCHANGED <<sessions, userTable, subscriptions, process>>

Created(r) ==
  LET c == req[r].call IN
  /\ Runs(r, "create") /\ c.who \notin accounts
  /\ accounts' = accounts \union {c.who}
  /\ admins' = Flagged(admins, c.who, c.isAdmin)
  /\ disabled' = Flagged(disabled, c.who, c.disable)
  /\ password' = [password EXCEPT ![c.who] = r]
  /\ audit' = Audited(r, "CREATE_USER", req[r].user, c.who)
  /\ Answer(r, "200")
  /\ UNCHANGED <<sessions, subscriptions, process>>

Updated(r) ==
  LET c == req[r].call IN
  /\ Runs(r, "update") /\ ~LosesOwnAccess(req[r].user, c) /\ c.who \in accounts
  /\ admins' = Flagged(admins, c.who, c.isAdmin)
  /\ disabled' = Flagged(disabled, c.who, c.disable)
  /\ audit' = IF c.isAdmin = "keep" /\ c.disable = "keep" THEN audit
              ELSE Audited(r, "UPDATE_USER", req[r].user, c.who)
  /\ sessions' = IF c.disable = "on" THEN RevokedFor(c.who) ELSE sessions
  /\ Answer(r, "200")
  /\ UNCHANGED <<accounts, password, subscriptions, process>>

WasReset(r) ==
  LET u == req[r].call.who IN
  /\ Runs(r, "reset") /\ u \in accounts
  /\ password' = [password EXCEPT ![u] = r]
  /\ audit' = Audited(r, "UPDATE_USER", req[r].user, u)
  /\ sessions' = RevokedFor(u)
  /\ Answer(r, "200")
  /\ UNCHANGED <<accounts, admins, disabled, subscriptions, process>>

Added(r, u) ==
  LET c == req[r].call IN
  /\ req[r].pc = "exec" /\ c.op \in {"subscribe", "adminSubscribe"}
  /\ u = IF c.op = "subscribe" THEN req[r].user ELSE c.who
  /\ u \in accounts /\ ~IsDuplicate(u, c)
  /\ subscriptions' = subscriptions \union
       {[id |-> r, user |-> u, granularity |-> c.granularity, target |-> c.target]}
  /\ audit' = Audited(r, "SUBSCRIBE", req[r].user, u)
  /\ Answer(r, "200")
  /\ UNCHANGED <<userTable, sessions, process>>

Removed(r, s) ==
  LET c == req[r].call IN
  /\ req[r].pc = "exec" /\ c.op \in {"unsubscribe", "adminUnsubscribe"}
  /\ c.op = "unsubscribe" => s.user = req[r].user
  /\ Remove(r, s, s.user)

\* Steps that leave the tables alone.
Passes(r) ==
  Arrive(r) \/ RejectCsrf(r) \/ Route(r) \/ RequireAdmin(r)
    \/ \E status \in Status : Rejected(r, status)

\* Every step is one of these.
LEMMA StepKinds ==
  ASSUME IInv, [Next]_vars
  PROVE  \/ \E r \in Requests :
              \/ Passes(r) \/ Authenticate(r) \/ LoggedIn(r) \/ Refused(r) \/ Logout(r)
              \/ Created(r) \/ Updated(r) \/ WasReset(r)
              \/ \E u \in Emails : Added(r, u)
              \/ \E s \in subscriptions : Removed(r, s)
         \/ Tick \/ Restart \/ UNCHANGED vars
<1>1. ASSUME NEW r \in Requests, Login(r)
      PROVE  LoggedIn(r) \/ Refused(r)
  BY <1>1 DEF Login, LoggedIn, Refused, process
<1>2. ASSUME NEW r \in Requests, Read(r)
      PROVE  Passes(r)
  BY <1>2 DEF Read, Passes, Status
<1>3. ASSUME NEW r \in Requests, CreateUser(r)
      PROVE  Created(r) \/ Passes(r)
  BY <1>3 DEF CreateUser, Created, Passes, Status
<1>4. ASSUME NEW r \in Requests, UpdateUser(r)
      PROVE  Updated(r) \/ Passes(r)
  BY <1>4 DEF UpdateUser, Updated, Passes, Status
<1>5. ASSUME NEW r \in Requests, ResetPassword(r)
      PROVE  WasReset(r) \/ Passes(r)
  BY <1>5 DEF ResetPassword, WasReset, Passes, Status
<1>6. ASSUME NEW r \in Requests, NEW u \in accounts, Add(r, u), req[r].pc = "exec",
             req[r].call.op \in {"subscribe", "adminSubscribe"},
             u = IF req[r].call.op = "subscribe" THEN req[r].user ELSE req[r].call.who
      PROVE  Passes(r) \/ \E w \in Emails : Added(r, w)
  <2>1. u \in Emails
    BY DEF IInv, UsersOK
  <2> QED
    BY <1>6, <2>1 DEF Add, Added, Passes, Status
<1>7. ASSUME NEW r \in Requests, Subscribe(r)
      PROVE  Passes(r) \/ \E u \in Emails : Added(r, u)
  <2>1. req[r].user \in accounts
    BY <1>7 DEF IInv, ReqOK, Subscribe
  <2> QED
    BY <1>6, <1>7, <2>1 DEF Subscribe, Passes, Status
<1>8. ASSUME NEW r \in Requests, AdminSubscribe(r)
      PROVE  Passes(r) \/ \E u \in Emails : Added(r, u)
  BY <1>6, <1>8 DEF AdminSubscribe, Passes, Status
<1>9. ASSUME NEW r \in Requests, Unsubscribe(r)
      PROVE  Passes(r) \/ \E s \in subscriptions : Removed(r, s)
  BY <1>9 DEF Unsubscribe, Runs, Removed, Passes, Status
<1>10. ASSUME NEW r \in Requests, AdminUnsubscribe(r)
       PROVE  Passes(r) \/ \E s \in subscriptions : Removed(r, s)
  BY <1>10 DEF AdminUnsubscribe, Runs, Removed, Passes, Status
<1> QED
  BY <1>1, <1>2, <1>3, <1>4, <1>5, <1>7, <1>8, <1>9, <1>10 DEF Next, Handle, Passes

-----------------------------------------------------------------------------
(* Requests and accounts.                                                  *)

\* What is known of a call that has been accepted.
LEMMA CallTyped ==
  ASSUME IInv, NEW r \in Requests, req[r].pc \notin {"new"} \union Status
  PROVE  /\ req[r].call \in Calls
         /\ req[r].call.who \in Emails /\ req[r].call.op \in Ops
         /\ req[r].call.isAdmin \in Optional /\ req[r].call.disable \in Optional
         /\ req[r].call.granularity \in Granularity /\ req[r].call.target \in Target
<1>1. req[r].call \in Call
  BY AccountsAssumption DEF IInv, ReqOK
<1> QED
  BY <1>1 DEF IInv, ReqOK, Call

\* At its use case a request other than a login has an account, and one under
\* /admin an account that has been an administrator.
LEMMA AtUseCase ==
  ASSUME IInv, NEW r \in Requests, req[r].pc = "exec"
  PROVE  /\ req[r].pc \notin {"new"} \union Status
         /\ req[r].call.op # "login" => req[r].user \in accounts /\ req[r].user \in Emails
         /\ req[r].call.op \in AdminOps => req[r].user \in entitled
BY DEF IInv, ReqOK, UsersOK, Status

LEMMA FlaggedCases ==
  ASSUME NEW set, NEW u, NEW value \in Optional
  PROVE  /\ value = "on" => Flagged(set, u, value) = set \union {u}
         /\ value = "off" => Flagged(set, u, value) = set \ {u}
         /\ value = "keep" => Flagged(set, u, value) = set
BY DEF Flagged, Optional

\* The users table keeps its types, and rows are never deleted.
LEMMA UsersStep ==
  ASSUME IInv, [Next]_vars
  PROVE  UsersOK' /\ accounts \subseteq accounts'
<1> USE DEF IInv
<1>1. ASSUME NEW r \in Requests, Created(r)
      PROVE  UsersOK' /\ accounts \subseteq accounts'
  <2>1. /\ req[r].call.who \in Emails
        /\ req[r].call.isAdmin \in Optional /\ req[r].call.disable \in Optional
    BY <1>1, CallTyped, AtUseCase DEF Created, Runs
  <2>2. r \in Passwords
    BY DEF Passwords
  <2>3. password' \in [Emails -> Passwords]
    BY <1>1, <2>1, <2>2 DEF Created, UsersOK
  <2> QED
    BY <1>1, <2>1, <2>3, FlaggedCases DEF Created, UsersOK, Optional
<1>2. ASSUME NEW r \in Requests, Updated(r)
      PROVE  UsersOK' /\ accounts \subseteq accounts'
  <2>1. req[r].call.isAdmin \in Optional /\ req[r].call.disable \in Optional
    BY <1>2, CallTyped, AtUseCase DEF Updated, Runs
  <2> QED
    BY <1>2, <2>1, FlaggedCases DEF Updated, UsersOK, Optional
<1>3. ASSUME NEW r \in Requests, WasReset(r)
      PROVE  UsersOK' /\ accounts \subseteq accounts'
  <2>1. r \in Passwords
    BY DEF Passwords
  <2> QED
    BY <1>3, <2>1 DEF WasReset, UsersOK
<1>4. CASE Restart
  BY <1>4, AccountsAssumption DEF Restart, UsersOK
<1>5. CASE UNCHANGED userTable
  BY <1>5 DEF userTable, UsersOK
<1>6. ASSUME NEW r \in Requests, Passes(r) \/ Authenticate(r) \/ LoggedIn(r) \/ Refused(r) \/ Logout(r)
      PROVE  UNCHANGED userTable
  BY <1>6 DEF Passes, Arrive, RejectCsrf, Route, RequireAdmin, Rejected, tables,
     Authenticate, LoggedIn, Refused, Logout
<1>7. ASSUME NEW r \in Requests, NEW u, NEW s, Added(r, u) \/ Removed(r, s)
      PROVE  UNCHANGED userTable
  BY <1>7 DEF Added, Removed, Remove
<1>8. ASSUME Tick \/ UNCHANGED vars
      PROVE  UNCHANGED userTable
  BY <1>8 DEF Tick, vars, tables
<1> QED
  BY <1>1, <1>2, <1>3, <1>4, <1>5, <1>6, <1>7, <1>8, StepKinds

\* Who has been an administrator stays recorded, and includes who is one.
LEMMA HistoryStep ==
  ASSUME IInv, [Next]_vars
  PROVE  HistoryOK' /\ entitled \subseteq entitled'
<1>1. CASE History
  <2>1. stale' \in BOOLEAN
    BY <1>1 DEF History
  <2> QED
    BY <1>1, <2>1, UsersStep DEF IInv, HistoryOK, History, UsersOK
<1>2. CASE UNCHANGED vars
  BY <1>2 DEF vars, tables, userTable, IInv, HistoryOK
<1> QED
  BY <1>1, <1>2 DEF Next

LEMMA ProcessStep ==
  ASSUME IInv, [Next]_vars
  PROVE  ProcessOK'
<1> USE DEF IInv
<1>1. ASSUME NEW r \in Requests, LoggedIn(r)
      PROVE  ProcessOK'
  BY <1>1 DEF LoggedIn, ProcessOK, Token
<1>2. CASE Tick \/ Restart
  BY <1>2 DEF Tick, Restart, ProcessOK
<1>3. ASSUME NEW r \in Requests,
             Passes(r) \/ Authenticate(r) \/ Refused(r) \/ Logout(r)
               \/ Created(r) \/ Updated(r) \/ WasReset(r)
      PROVE  UNCHANGED process
  BY <1>3 DEF Passes, Arrive, RejectCsrf, Route, RequireAdmin, Rejected,
     Authenticate, Refused, Logout, Created, Updated, WasReset
<1>4. ASSUME NEW r \in Requests, NEW u, NEW s, Added(r, u) \/ Removed(r, s)
      PROVE  UNCHANGED process
  BY <1>4 DEF Added, Removed, Remove
<1>5. CASE UNCHANGED process \/ UNCHANGED vars
  BY <1>5 DEF process, vars, ProcessOK
<1> QED
  BY <1>1, <1>2, <1>3, <1>4, <1>5, StepKinds

-----------------------------------------------------------------------------
(* Requests in flight.                                                     *)

\* A request that is answered is over, the others are as they were.
LEMMA Answered ==
  ASSUME IInv, [Next]_vars, NEW r \in Requests, NEW status \in Status, Answer(r, status)
  PROVE  ReqOK' /\ req'[r].pc \in Status
<1>1. /\ accounts \subseteq accounts' /\ entitled \subseteq entitled'
  BY UsersStep, HistoryStep
<1>2. Idle(r, status) \in Request
  BY DEF Idle, Request, Status
<1>3. /\ req' \in [Requests -> Request] /\ lock' \in Requests \union {Free}
      /\ req'[r] = Idle(r, status)
      /\ \A q \in Requests : q # r => req'[q] = req[q]
  BY <1>2 DEF IInv, ReqOK, Answer
<1>4. /\ req'[r].pc = status /\ req'[r].user = Nobody
  BY <1>3 DEF Idle
<1>5. status \notin {"auth", "gate", "exec"}
  BY DEF Status
<1>6. ASSUME NEW q \in Requests
      PROVE  /\ req'[q].pc \notin {"new"} \union Status => req'[q].call \in Calls
             /\ req'[q].pc = "auth" => req'[q].cookie \in Token
             /\ req'[q].user # Nobody => req'[q].user \in accounts'
             /\ req'[q].pc \in {"gate", "exec"} /\ req'[q].call.op # "login" =>
                  req'[q].user # Nobody
             /\ req'[q].pc = "exec" /\ req'[q].call.op \in AdminOps =>
                  req'[q].user \in entitled'
  <2>1. CASE q = r
    BY <1>4, <1>5, <2>1
  <2>2. CASE q # r
    <3>1. req'[q] = req[q]
      BY <1>3, <2>2
    <3> QED
      BY <1>1, <3>1 DEF IInv, ReqOK
  <2> QED
    BY <2>1, <2>2
<1> QED
  BY <1>3, <1>4, <1>6 DEF ReqOK

\* A request that moves on, to an entry that fits.
LEMMA Moved ==
  ASSUME IInv, [Next]_vars, NEW r \in Requests, NEW e \in Request,
         req' = [req EXCEPT ![r] = e], lock' \in Requests \union {Free},
         e.pc \notin {"new"} \union Status => e.call \in Calls,
         e.pc = "auth" => e.cookie \in Token,
         e.user # Nobody => e.user \in accounts,
         e.pc \in {"gate", "exec"} /\ e.call.op # "login" => e.user # Nobody,
         e.pc = "exec" /\ e.call.op \in AdminOps => e.user \in entitled
  PROVE  ReqOK'
<1>1. /\ accounts \subseteq accounts' /\ entitled \subseteq entitled'
  BY UsersStep, HistoryStep
<1>2. /\ req' \in [Requests -> Request] /\ req'[r] = e
      /\ \A q \in Requests : q # r => req'[q] = req[q]
  BY DEF IInv, ReqOK
<1>3. ASSUME NEW q \in Requests
      PROVE  /\ req'[q].pc \notin {"new"} \union Status => req'[q].call \in Calls
             /\ req'[q].pc = "auth" => req'[q].cookie \in Token
             /\ req'[q].user # Nobody => req'[q].user \in accounts'
             /\ req'[q].pc \in {"gate", "exec"} /\ req'[q].call.op # "login" =>
                  req'[q].user # Nobody
             /\ req'[q].pc = "exec" /\ req'[q].call.op \in AdminOps =>
                  req'[q].user \in entitled'
  <2>1. CASE q = r
    BY <1>1, <1>2, <2>1
  <2>2. CASE q # r
    <3>1. req'[q] = req[q]
      BY <1>2, <2>2
    <3> QED
      BY <1>1, <3>1 DEF IInv, ReqOK
  <2> QED
    BY <2>1, <2>2
<1> QED
  BY <1>2, <1>3 DEF ReqOK

\* A request that only changes its place.
LEMMA Placed ==
  ASSUME IInv, [Next]_vars, NEW r \in Requests, NEW p \in {"route", "gate", "exec"},
         NEW u \in accounts \union {Nobody},
         req' = [req EXCEPT ![r] = [req[r] EXCEPT !.pc = p, !.user = u]],
         lock' \in Requests \union {Free},
         req[r].pc \notin {"new"} \union Status,
         p \in {"gate", "exec"} /\ req[r].call.op # "login" => u # Nobody,
         p = "exec" /\ req[r].call.op \in AdminOps => u \in entitled
  PROVE  ReqOK'
<1>1. req[r] \in Request /\ req[r].call \in Calls /\ u \in Emails \union {Nobody}
  BY DEF IInv, ReqOK, UsersOK
<1>2. [req[r] EXCEPT !.pc = p, !.user = u] \in Request
  BY <1>1 DEF Request
<1>3. PICK e \in Request : e = [req[r] EXCEPT !.pc = p, !.user = u]
  BY <1>2
<1>4. e.pc = p /\ e.user = u /\ e.call = req[r].call /\ p # "auth"
  BY <1>1, <1>3 DEF Request
<1>5. req' = [req EXCEPT ![r] = e]
  BY <1>3
<1>6. /\ e.call \in Calls
      /\ e.user # Nobody => e.user \in accounts
      /\ e.pc \in {"gate", "exec"} /\ e.call.op # "login" => e.user # Nobody
      /\ e.pc = "exec" /\ e.call.op \in AdminOps => e.user \in entitled
  BY <1>1, <1>4
<1> QED
  BY <1>4, <1>5, <1>6, Moved

\* Requests keep what they may rely on.
LEMMA ReqStep ==
  ASSUME IInv, [Next]_vars
  PROVE  ReqOK'
<1>1. ASSUME NEW r \in Requests, Arrive(r)
      PROVE  ReqOK'
  <2>1. PICK c \in Calls, k \in issued \union {NoCookie},
             id \in {r} \union {s.id : s \in subscriptions} :
          req' = [req EXCEPT ![r] =
            [pc |-> IF k = NoCookie THEN "route" ELSE "auth",
             call |-> c, cookie |-> k, now |-> clock, user |-> Nobody,
             secret |-> IF c.knows THEN password[c.who] ELSE WrongPassword,
             subId |-> id]]
    BY <1>1 DEF Arrive
  <2> DEFINE e == [pc |-> IF k = NoCookie THEN "route" ELSE "auth",
                   call |-> c, cookie |-> k, now |-> clock, user |-> Nobody,
                   secret |-> IF c.knows THEN password[c.who] ELSE WrongPassword,
                   subId |-> id]
  <2>2. id \in Requests
    BY DEF IInv, SubscriptionsOK, Subscription
  <2>3. c.who \in Emails
    BY AccountsAssumption DEF Call
  <2>4. (IF c.knows THEN password[c.who] ELSE WrongPassword) \in Passwords \union {WrongPassword}
    BY <2>3 DEF IInv, UsersOK
  <2>5. k \in Token \union {NoCookie} /\ clock \in Nat
    BY DEF IInv, ProcessOK
  <2>6. e \in Request
    BY <2>2, <2>4, <2>5 DEF Request
  <2>7. lock' \in Requests \union {Free}
    BY <1>1 DEF Arrive, IInv, ReqOK
  <2>8. /\ e.call \in Calls /\ e.user = Nobody /\ e.pc \notin {"gate", "exec"}
        /\ e.pc = "auth" => e.cookie \in Token
    BY <2>5
  <2> HIDE DEF e
  <2>9. req' = [req EXCEPT ![r] = e]
    BY <2>1 DEF e
  <2> QED
    BY <2>6, <2>7, <2>8, <2>9, Moved
<1>2. ASSUME NEW r \in Requests, Route(r)
      PROVE  ReqOK'
  <2>1. CASE Answer(r, "200") \/ Answer(r, "401")
    BY <2>1, Answered DEF Status
  <2>2. CASE /\ req[r].call.op = "login" \/ req[r].user # Nobody
             /\ GoTo(r, IF req[r].call.op \in AdminOps THEN "gate" ELSE "exec")
    <3> DEFINE p == IF req[r].call.op \in AdminOps THEN "gate" ELSE "exec"
    <3>1. p \in {"gate", "exec"} /\ req[r].pc \notin {"new"} \union Status
      BY <1>2 DEF Route, Status
    <3>2. req' = [req EXCEPT ![r] = [req[r] EXCEPT !.pc = p]] /\ lock' = lock
      BY <2>2 DEF GoTo
    <3>3. req[r] \in Request /\ req[r].user \in accounts \union {Nobody}
      BY DEF IInv, ReqOK
    <3>4. [req[r] EXCEPT !.pc = p] = [req[r] EXCEPT !.pc = p, !.user = req[r].user]
      BY <3>3 DEF Request
    <3>5. /\ p = "exec" => req[r].call.op \notin AdminOps
          /\ req[r].call.op # "login" => req[r].user # Nobody
          /\ p \in {"route", "gate", "exec"}
      BY <2>2, <3>1
    <3> HIDE DEF p
    <3> QED
      BY <3>1, <3>2, <3>3, <3>4, <3>5, Placed DEF IInv, ReqOK
  <2> QED
    BY <1>2, <2>1, <2>2 DEF Route
<1>3. ASSUME NEW r \in Requests, RequireAdmin(r)
      PROVE  ReqOK'
  <2>1. CASE Answer(r, "403") \/ Answer(r, "401")
    BY <2>1, Answered DEF Status
  <2>2. CASE IsActiveAdmin(req[r].user) /\ GoTo(r, "exec")
    <3>1. req[r].pc = "gate" /\ req[r].pc \notin {"new"} \union Status
      BY <1>3 DEF RequireAdmin, Status
    <3>2. req' = [req EXCEPT ![r] = [req[r] EXCEPT !.pc = "exec"]] /\ lock' = lock
      BY <2>2 DEF GoTo
    <3>3. req[r] \in Request /\ req[r].user \in accounts \union {Nobody}
      BY DEF IInv, ReqOK
    <3>4. [req[r] EXCEPT !.pc = "exec"] = [req[r] EXCEPT !.pc = "exec", !.user = req[r].user]
      BY <3>3 DEF Request
    <3>5. req[r].user \in entitled
      BY <2>2 DEF IsActiveAdmin, IInv, HistoryOK
    <3>6. req[r].call.op # "login" => req[r].user # Nobody
      BY <3>1 DEF IInv, ReqOK
    <3> QED
      BY <3>1, <3>2, <3>3, <3>4, <3>5, <3>6, Placed DEF IInv, ReqOK
  <2> QED
    BY <1>3, <2>1, <2>2 DEF RequireAdmin
<1>4. ASSUME NEW r \in Requests, Authenticate(r)
      PROVE  ReqOK'
  <2>1. req[r].pc = "auth" /\ req[r].pc \notin {"new"} \union Status /\ req[r].cookie \in Token
    BY <1>4 DEF Authenticate, Status, IInv, ReqOK
  <2>2. req[r] \in Request /\ req[r].user \in accounts \union {Nobody}
    BY DEF IInv, ReqOK
  <2>3. CASE UnknownSession(r) \/ ExpiredSession(r)
    <3>1. /\ req' = [req EXCEPT ![r] = [req[r] EXCEPT !.pc = "route"]]
          /\ lock' \in Requests \union {Free}
      BY <2>3 DEF UnknownSession, ExpiredSession, GoTo, IInv, ReqOK
    <3>2. [req[r] EXCEPT !.pc = "route"] = [req[r] EXCEPT !.pc = "route", !.user = req[r].user]
      BY <2>2 DEF Request
    <3> QED
      BY <2>1, <2>2, <3>1, <3>2, Placed
  <2>4. CASE LiveSession(r) /\ Answer(r, "500")
    BY <2>4, Answered DEF Status
  <2>5. CASE LiveSession(r) /\ ~Answer(r, "500")
    <3> DEFINE u == sessions[req[r].cookie].user
    <3>1. /\ req' = [req EXCEPT ![r] = [req[r] EXCEPT !.pc = "route", !.user = u]]
          /\ lock' \in Requests \union {Free} /\ sessions[req[r].cookie] # NoSession
      BY <2>5, <2>1, <2>2 DEF LiveSession, IInv, ReqOK
    <3>2. u \in accounts
      BY <2>1, <3>1 DEF IInv, SessionsOK
    <3> QED
      BY <2>1, <3>1, <3>2, Placed
  <2> QED
    BY <1>4, <2>3, <2>4, <2>5 DEF Authenticate
<1>5. CASE Restart
  <2>1. /\ accounts \subseteq accounts' /\ entitled \subseteq entitled'
    BY UsersStep, HistoryStep
  <2>2. \A r \in Requests : Idle(r, "lost") \in Request
    BY DEF Idle, Request, Status
  <2>3. /\ req' \in [Requests -> Request] /\ lock' \in Requests \union {Free}
        /\ \A r \in Requests : req'[r] = req[r] \/ req'[r] = Idle(r, "lost")
    BY <1>5, <2>2 DEF Restart, IInv, ReqOK
  <2>4. \A r \in Requests : /\ Idle(r, "lost").pc = "lost" /\ "lost" \in Status
                            /\ Idle(r, "lost").user = Nobody
    BY DEF Idle, Status
  <2> QED
    BY <2>1, <2>3, <2>4 DEF IInv, ReqOK
<1>6. CASE Tick \/ UNCHANGED vars
  <2>1. /\ accounts \subseteq accounts' /\ entitled \subseteq entitled'
    BY UsersStep, HistoryStep
  <2>2. req' = req /\ lock' = lock
    BY <1>6 DEF Tick, vars
  <2> QED
    BY <2>1, <2>2 DEF IInv, ReqOK
<1>7. ASSUME NEW r \in Requests,
             RejectCsrf(r) \/ LoggedIn(r) \/ Refused(r) \/ Logout(r)
               \/ Created(r) \/ Updated(r) \/ WasReset(r)
               \/ \E status \in Status : Rejected(r, status)
      PROVE  \E status \in Status : Answer(r, status)
  BY <1>7 DEF RejectCsrf, LoggedIn, Refused, Logout, Created, Updated, WasReset,
     Rejected, Status
<1>8. ASSUME NEW r \in Requests, NEW u, NEW s, Added(r, u) \/ Removed(r, s)
      PROVE  \E status \in Status : Answer(r, status)
  BY <1>8 DEF Added, Removed, Remove, Status
<1> QED
  BY <1>1, <1>2, <1>3, <1>4, <1>5, <1>6, <1>7, <1>8, Answered, StepKinds DEF Passes

-----------------------------------------------------------------------------
(* Sessions.                                                               *)

\* What a session that is there has in it.
LEMMA SessionTyped ==
  ASSUME IInv, NEW t \in Token
  PROVE  /\ sessions[t] # NoSession => sessions[t] \in Session /\ sessions[t].user \in Emails
         /\ NoSession.user = Nobody /\ Nobody \notin Emails
BY AccountsAssumption DEF IInv, SessionsOK, Session, NoSession

\* Sessions go with the account's access and with its password.
LEMMA SessionsStep ==
  ASSUME IInv, [Next]_vars
  PROVE  SessionsOK'
<1>2. ASSUME NEW r \in Requests, LoggedIn(r)
      PROVE  SessionsOK'
  <2> DEFINE u == req[r].call.who
             s == [user |-> u, created |-> clock, last |-> clock, password |-> password[u]]
  <2>1. /\ u \in Emails /\ u \in accounts /\ u \notin disabled /\ r \in Token
        /\ password[u] \in Passwords /\ clock \in Nat
    BY <1>2, CallTyped, AtUseCase DEF LoggedIn, Runs, Token, IInv, UsersOK, ProcessOK
  <2>2. /\ s \in Session /\ s.user = u /\ s.created = s.last /\ s.last \in Nat
        /\ s.password = password[u]
    BY <2>1 DEF Session
  <2>3. sessions' = [sessions EXCEPT ![r] = s] /\ UNCHANGED <<accounts, disabled, password>>
    BY <1>2 DEF LoggedIn, userTable
  <2> HIDE DEF s
  <2> QED
    BY <2>1, <2>2, <2>3 DEF IInv, SessionsOK
<1>3. ASSUME NEW r \in Requests, Logout(r)
      PROVE  SessionsOK'
  <2>1. sessions' = Without(req[r].cookie) /\ UNCHANGED <<accounts, disabled, password>>
    BY <1>3 DEF Logout, userTable
  <2> QED
    BY <2>1 DEF IInv, SessionsOK, Without
<1>4. ASSUME NEW r \in Requests, Created(r)
      PROVE  SessionsOK'
  <2> DEFINE u == req[r].call.who
  <2>1. /\ u \in Emails /\ u \notin accounts /\ req[r].call.disable \in Optional
    BY <1>4, CallTyped, AtUseCase DEF Created, Runs
  <2>2. /\ accounts \subseteq accounts' /\ disabled' \subseteq disabled \union {u}
        /\ sessions' = sessions /\ password' = [password EXCEPT ![u] = r]
    BY <1>4, <2>1, FlaggedCases DEF Created, Optional
  <2>3. \A t \in Token : sessions[t] # NoSession => sessions[t].user # u
    BY <2>1 DEF IInv, SessionsOK
  <2> QED
    BY <2>1, <2>2, <2>3, SessionTyped DEF IInv, SessionsOK, UsersOK
<1>5. ASSUME NEW u \in Emails
      PROVE  /\ RevokedFor(u) \in [Token -> Session \union {NoSession}]
             /\ \A t \in Token : RevokedFor(u)[t] # NoSession =>
                  RevokedFor(u)[t] = sessions[t] /\ sessions[t].user # u
  BY DEF RevokedFor, IInv, SessionsOK
<1>6. ASSUME NEW r \in Requests, Updated(r)
      PROVE  SessionsOK'
  <2> DEFINE u == req[r].call.who
  <2>1. u \in Emails /\ req[r].call.disable \in Optional
    BY <1>6, CallTyped, AtUseCase DEF Updated, Runs
  <2>2. UNCHANGED <<accounts, password>>
    BY <1>6 DEF Updated
  <2>3. CASE req[r].call.disable = "on"
    <3>1. disabled' = disabled \union {u} /\ sessions' = RevokedFor(u)
      BY <1>6, <2>1, <2>3, FlaggedCases DEF Updated
    <3> QED
      BY <1>5, <2>1, <2>2, <3>1 DEF IInv, SessionsOK
  <2>4. CASE req[r].call.disable # "on"
    <3>1. disabled' \subseteq disabled /\ sessions' = sessions
      BY <1>6, <2>1, <2>4, FlaggedCases DEF Updated, Optional
    <3> QED
      BY <2>2, <3>1 DEF IInv, SessionsOK
  <2> QED
    BY <2>3, <2>4
<1>7. ASSUME NEW r \in Requests, WasReset(r)
      PROVE  SessionsOK'
  <2> DEFINE u == req[r].call.who
  <2>1. /\ u \in Emails /\ UNCHANGED <<accounts, disabled>>
        /\ sessions' = RevokedFor(u) /\ password' = [password EXCEPT ![u] = r]
    BY <1>7, CallTyped, AtUseCase DEF WasReset, Runs
  <2> QED
    BY <1>5, <2>1, SessionTyped DEF IInv, SessionsOK, UsersOK
<1>8. ASSUME NEW r \in Requests, Authenticate(r)
      PROVE  SessionsOK'
  <2> DEFINE k == req[r].cookie
  <2>1. UNCHANGED <<accounts, disabled, password>> /\ k \in Token /\ req[r].now \in Nat
    BY <1>8 DEF Authenticate, userTable, IInv, ReqOK, Request
  <2>2. CASE sessions' = sessions
    BY <2>1, <2>2 DEF IInv, SessionsOK
  <2>3. CASE sessions' = Without(k)
    BY <2>1, <2>3 DEF IInv, SessionsOK, Without
  <2>4. CASE /\ sessions[k] # NoSession /\ req[r].now >= sessions[k].created
             /\ sessions' = [sessions EXCEPT ![k].last = req[r].now]
    <3> DEFINE s == [sessions[k] EXCEPT !.last = req[r].now]
    <3>1. sessions[k] \in Session
      BY <2>1, <2>4, SessionTyped
    <3>2. /\ s \in Session /\ s.user = sessions[k].user
          /\ s.password = sessions[k].password /\ s.created = sessions[k].created
          /\ s.last = req[r].now
      BY <2>1, <3>1 DEF Session
    <3>3. s.created <= s.last
      BY <2>1, <2>4, <3>1, <3>2 DEF Session
    <3>4. sessions' = [sessions EXCEPT ![k] = s]
      BY <2>4
    <3> HIDE DEF s
    <3> QED
      BY <2>1, <2>4, <3>2, <3>3, <3>4 DEF IInv, SessionsOK
  <2> QED
    BY <1>8, <2>2, <2>3, <2>4 DEF Authenticate, UnknownSession, ExpiredSession, LiveSession
<1>9. CASE Restart
  BY <1>9 DEF Restart, IInv, SessionsOK
<1>10. ASSUME NEW r \in Requests, Passes(r) \/ Refused(r)
       PROVE  UNCHANGED <<userTable, sessions>>
  BY <1>10 DEF Passes, Arrive, RejectCsrf, Route, RequireAdmin, Rejected, tables, Refused
<1>11. ASSUME NEW r \in Requests, NEW u, NEW s, Added(r, u) \/ Removed(r, s)
       PROVE  UNCHANGED <<userTable, sessions>>
  BY <1>11 DEF Added, Removed, Remove
<1>12. ASSUME Tick \/ UNCHANGED vars
       PROVE  UNCHANGED <<userTable, sessions>>
  BY <1>12 DEF Tick, vars, tables
<1>13. CASE UNCHANGED <<userTable, sessions>>
  BY <1>13 DEF userTable, IInv, SessionsOK
<1> QED
  BY <1>2, <1>3, <1>4, <1>6, <1>7, <1>8, <1>9, <1>10, <1>11, <1>12, <1>13, StepKinds

-----------------------------------------------------------------------------
(* The audit log.                                                          *)

\* A record of a change that only an administrator may make.
Privileged(a) ==
  \/ a.action \in {"CREATE_USER", "UPDATE_USER"}
  \/ a.action \in {"SUBSCRIBE", "UNSUBSCRIBE"} /\ a.actor # a.user

\* Request r is answered and its use case leaves record b.
Records(r, b) ==
  /\ b \in AuditRecord /\ b.by = r /\ audit' = audit \union {b}
  /\ req[r].pc = "exec" /\ req'[r].pc \in Status
  /\ Privileged(b) => b.actor \in entitled

\* A step leaves at most one record, and a subscription comes or goes with one
\* that says so.
LEMMA AuditKinds ==
  ASSUME IInv, [Next]_vars
  PROVE  \/ audit' = audit /\ subscriptions' = subscriptions
         \/ \E r \in Requests : \E b \in AuditRecord :
              /\ Records(r, b)
              /\ \/ /\ b.action \notin {"SUBSCRIBE", "UNSUBSCRIBE"}
                    /\ subscriptions' = subscriptions
                 \/ /\ b.action = "SUBSCRIBE" /\ b.user \in accounts
                    /\ \A q \in subscriptions : ~Has(q, b.user, b.granularity, b.target)
                    /\ \E s \in Subscription : /\ subscriptions' = subscriptions \union {s}
                                               /\ Has(s, b.user, b.granularity, b.target)
                 \/ /\ b.action = "UNSUBSCRIBE"
                    /\ \E s \in subscriptions : /\ subscriptions' = subscriptions \ {s}
                                                /\ Has(s, b.user, b.granularity, b.target)
<1>1. ASSUME NEW r \in Requests, req[r].pc = "exec", NEW action \in AuditAction,
             NEW actor \in Emails, NEW u \in Emails,
             audit' = Audited(r, action, actor, u), req'[r].pc \in Status,
             Privileged([action |-> action, actor |-> actor, user |-> u]) => actor \in entitled
      PROVE  \E b \in AuditRecord :
               /\ Records(r, b) /\ b.action = action /\ b.user = u
               /\ b.granularity = req[r].call.granularity /\ b.target = req[r].call.target
  <2>1. req[r].call.granularity \in Granularity /\ req[r].call.target \in Target
    BY <1>1, CallTyped, AtUseCase
  <2>2. PICK b \in AuditRecord :
          b = [by |-> r, action |-> action, actor |-> actor, user |-> u,
               granularity |-> req[r].call.granularity, target |-> req[r].call.target]
    BY <2>1 DEF AuditRecord
  <2>3. /\ b.by = r /\ b.action = action /\ b.actor = actor /\ b.user = u
        /\ b.granularity = req[r].call.granularity /\ b.target = req[r].call.target
    BY <2>2
  <2>4. audit' = audit \union {b}
    BY <1>1, <2>2 DEF Audited
  <2>5. Privileged(b) => b.actor \in entitled
    BY <1>1, <2>3 DEF Privileged
  <2>6. Records(r, b)
    BY <1>1, <2>3, <2>4, <2>5 DEF Records
  <2> QED
    BY <2>3, <2>6
<1>2. ASSUME NEW r \in Requests, LoggedIn(r) \/ Refused(r) \/ Logout(r)
      PROVE  \E b \in AuditRecord : /\ Records(r, b) /\ subscriptions' = subscriptions
                                    /\ b.action \notin {"SUBSCRIBE", "UNSUBSCRIBE"}
  <2>1. /\ req[r].pc = "exec" /\ subscriptions' = subscriptions
        /\ req[r].call.op = "logout" => req[r].user \in Emails
        /\ req[r].call.who \in Emails /\ req'[r].pc \in Status
    BY <1>2, CallTyped, AtUseCase, Answered DEF LoggedIn, Refused, Logout, Runs, Status
  <2>2. PICK action \in {"LOGIN", "LOGIN_FAILED", "LOGOUT"}, u \in Emails :
          audit' = Audited(r, action, u, u)
    BY <1>2, <2>1 DEF LoggedIn, Refused, Logout, Runs
  <2>3. /\ action \in AuditAction /\ action \notin {"SUBSCRIBE", "UNSUBSCRIBE"}
        /\ ~Privileged([action |-> action, actor |-> u, user |-> u])
    BY DEF AuditAction, Privileged
  <2> QED
    BY <1>1, <2>1, <2>2, <2>3
<1>3. ASSUME NEW r \in Requests, Created(r) \/ Updated(r) \/ WasReset(r)
      PROVE  /\ subscriptions' = subscriptions
             /\ \/ audit' = audit
                \/ \E b \in AuditRecord :
                     Records(r, b) /\ b.action \notin {"SUBSCRIBE", "UNSUBSCRIBE"}
  <2>1. /\ req[r].pc = "exec" /\ subscriptions' = subscriptions
        /\ req[r].call.op \in {"create", "update", "reset"}
        /\ req[r].call.who \in Emails /\ req'[r].pc \in Status
    BY <1>3, CallTyped, AtUseCase, Answered DEF Created, Updated, WasReset, Runs, Status
  <2>2. req[r].user \in Emails /\ req[r].user \in entitled
    BY <2>1, AtUseCase DEF AdminOps
  <2>3. CASE audit' = audit
    BY <2>1, <2>3
  <2>4. CASE audit' # audit
    <3>1. PICK action \in {"CREATE_USER", "UPDATE_USER"}, actor \in Emails, u \in Emails :
            audit' = Audited(r, action, actor, u) /\ actor \in entitled
      BY <1>3, <2>1, <2>2, <2>4 DEF Created, Updated, WasReset
    <3>2. action \in AuditAction /\ action \notin {"SUBSCRIBE", "UNSUBSCRIBE"}
      BY DEF AuditAction
    <3>3. Privileged([action |-> action, actor |-> actor, user |-> u]) => actor \in entitled
      BY <3>1
    <3>4. PICK b \in AuditRecord : Records(r, b) /\ b.action = action
      BY <1>1, <2>1, <3>1, <3>2, <3>3
    <3> QED
      BY <2>1, <3>2, <3>4
  <2> QED
    BY <2>3, <2>4
<1>4. ASSUME NEW r \in Requests, NEW u \in Emails, Added(r, u)
      PROVE  \E b \in AuditRecord :
               /\ Records(r, b) /\ b.action = "SUBSCRIBE" /\ b.user \in accounts
               /\ \A q \in subscriptions : ~Has(q, b.user, b.granularity, b.target)
               /\ \E s \in Subscription : /\ subscriptions' = subscriptions \union {s}
                                          /\ Has(s, b.user, b.granularity, b.target)
  <2> DEFINE c == req[r].call
  <2>1. /\ req[r].pc = "exec" /\ c.granularity \in Granularity /\ c.target \in Target
        /\ req'[r].pc \in Status
    BY <1>4, CallTyped, AtUseCase, Answered DEF Added, Status
  <2>2. req[r].user \in Emails
    BY <1>4, <2>1, AtUseCase DEF Added
  <2>3. req[r].user # u => req[r].user \in entitled
    BY <1>4, <2>1, AtUseCase DEF Added, AdminOps
  <2>4. Privileged([action |-> "SUBSCRIBE", actor |-> req[r].user, user |-> u]) =>
          req[r].user \in entitled
    BY <2>3 DEF Privileged
  <2>5. PICK b \in AuditRecord :
          /\ Records(r, b) /\ b.action = "SUBSCRIBE" /\ b.user = u
          /\ b.granularity = c.granularity /\ b.target = c.target
    BY <1>1, <1>4, <2>1, <2>2, <2>4 DEF Added, AuditAction
  <2>6. PICK s \in Subscription :
          s = [id |-> r, user |-> u, granularity |-> c.granularity, target |-> c.target]
    BY <2>1 DEF Subscription
  <2>7. subscriptions' = subscriptions \union {s} /\ Has(s, u, c.granularity, c.target)
    BY <1>4, <2>6 DEF Added, Has
  <2>8. \A q \in subscriptions : ~Has(q, u, c.granularity, c.target)
    BY <1>4 DEF Added, IsDuplicate, Has
  <2>9. u \in accounts
    BY <1>4 DEF Added
  <2> QED
    BY <2>5, <2>7, <2>8, <2>9
<1>5. ASSUME NEW r \in Requests, NEW s \in subscriptions, Removed(r, s)
      PROVE  \E b \in AuditRecord :
               /\ Records(r, b) /\ b.action = "UNSUBSCRIBE"
               /\ subscriptions' = subscriptions \ {s}
               /\ Has(s, b.user, b.granularity, b.target)
  <2>1. /\ req[r].pc = "exec" /\ req'[r].pc \in Status
    BY <1>5, Answered DEF Removed, Remove, Status
  <2>2. req[r].user \in Emails /\ (req[r].user # s.user => req[r].user \in entitled)
    BY <1>5, <2>1, AtUseCase DEF Removed, AdminOps
  <2>3. s.user \in Emails /\ s.granularity \in Granularity /\ s.target \in Target
    BY DEF IInv, SubscriptionsOK, Subscription
  <2>4. PICK b \in AuditRecord :
          b = [by |-> r, action |-> "UNSUBSCRIBE", actor |-> req[r].user,
               user |-> s.user, granularity |-> s.granularity, target |-> s.target]
    BY <2>2, <2>3 DEF AuditRecord, AuditAction
  <2>5. /\ b.by = r /\ b.action = "UNSUBSCRIBE" /\ b.actor = req[r].user
        /\ Has(s, b.user, b.granularity, b.target) /\ b.user = s.user
    BY <2>4 DEF Has
  <2>6. audit' = audit \union {b} /\ subscriptions' = subscriptions \ {s}
    BY <1>5, <2>4 DEF Removed, Remove
  <2>7. Privileged(b) => b.actor \in entitled
    BY <2>2, <2>5 DEF Privileged
  <2> QED
    BY <2>1, <2>5, <2>6, <2>7 DEF Records
<1>6. ASSUME NEW r \in Requests, Passes(r) \/ Authenticate(r)
      PROVE  audit' = audit /\ subscriptions' = subscriptions
  BY <1>6 DEF Passes, Arrive, RejectCsrf, Route, RequireAdmin, Rejected, tables, Authenticate
<1>7. CASE Tick \/ Restart \/ UNCHANGED vars
  BY <1>7 DEF Tick, Restart, vars, tables
<1> QED
  BY <1>2, <1>3, <1>4, <1>5, <1>6, <1>7, StepKinds

\* An answered request stays answered.
LEMMA AnsweredStays ==
  ASSUME IInv, [Next]_vars, NEW q \in Requests, req[q].pc \in Status
  PROVE  req'[q].pc \in Status
<1>1. req \in [Requests -> Request] /\ req[q].pc \notin {"new", "auth", "route", "gate", "exec"}
  BY DEF IInv, ReqOK, Status
<1>2. ASSUME NEW r \in Requests,
             Arrive(r) \/ Route(r) \/ RequireAdmin(r) \/ Authenticate(r)
      PROVE  r # q /\ req'[q] = req[q]
  BY <1>1, <1>2 DEF Arrive, Route, RequireAdmin, Authenticate, UnknownSession,
     ExpiredSession, LiveSession, GoTo, Answer
<1>3. ASSUME NEW r \in Requests, NEW status \in Status, Answer(r, status)
      PROVE  req'[q].pc \in Status
  <2>1. req'[q] = req[q] \/ req'[q] = Idle(r, status)
    BY <1>1, <1>3 DEF Answer
  <2> QED
    BY <2>1 DEF Idle
<1>4. ASSUME NEW r \in Requests,
             RejectCsrf(r) \/ LoggedIn(r) \/ Refused(r) \/ Logout(r)
               \/ Created(r) \/ Updated(r) \/ WasReset(r)
               \/ \E status \in Status : Rejected(r, status)
      PROVE  \E status \in Status : Answer(r, status)
  BY <1>4 DEF RejectCsrf, LoggedIn, Refused, Logout, Created, Updated, WasReset,
     Rejected, Status
<1>5. ASSUME NEW r \in Requests, NEW u, NEW s, Added(r, u) \/ Removed(r, s)
      PROVE  \E status \in Status : Answer(r, status)
  BY <1>5 DEF Added, Removed, Remove, Status
<1>6. CASE Restart \/ Tick \/ UNCHANGED vars
  BY <1>1, <1>6 DEF Restart, Tick, vars
<1> QED
  BY <1>2, <1>3, <1>4, <1>5, <1>6, StepKinds DEF Passes

LEMMA AuditStep ==
  ASSUME IInv, [Next]_vars
  PROVE  AuditOK'
<1>1. /\ audit \subseteq AuditRecord /\ IsFiniteSet(audit)
      /\ \A a \in audit : req[a.by].pc \in Status /\ a.by \in Requests
      /\ \A a \in audit : Privileged(a) => a.actor \in entitled
  BY DEF IInv, AuditOK, AuditRecord, OnlyAdministratorsAct, Privileged
<1>2. entitled \subseteq entitled'
  BY HistoryStep
<1>3. \A a \in audit : req'[a.by].pc \in Status
  BY <1>1, AnsweredStays
<1>4. CASE audit' = audit
  BY <1>1, <1>2, <1>3, <1>4 DEF AuditOK, OnlyAdministratorsAct, Privileged
<1>5. ASSUME NEW r \in Requests, NEW b \in AuditRecord, Records(r, b)
      PROVE  AuditOK'
  <2>1. IsFiniteSet(audit')
    BY <1>1, <1>5, FS_AddElement DEF Records
  <2> QED
    BY <1>1, <1>2, <1>3, <1>5, <2>1 DEF Records, AuditOK, OnlyAdministratorsAct, Privileged
<1> QED
  BY <1>4, <1>5, AuditKinds

-----------------------------------------------------------------------------
(* Subscriptions.                                                          *)

LEMMA LogFinite ==
  ASSUME IInv, NEW action, NEW u, NEW g, NEW x
  PROVE  /\ IsFiniteSet(Log(action, u, g, x))
         /\ Cardinality(Log(action, u, g, x)) \in Nat
<1>1. Log(action, u, g, x) \subseteq audit /\ IsFiniteSet(audit)
  BY DEF Log, IInv, AuditOK
<1>2. IsFiniteSet(Log(action, u, g, x))
  BY <1>1, FS_Subset
<1> QED
  BY <1>2, FS_CardinalityType

\* The record of a request counts once, where it belongs.
LEMMA LogGrows ==
  ASSUME IInv, NEW r \in Requests, NEW b \in AuditRecord, Records(r, b),
         NEW action, NEW u, NEW g, NEW x
  PROVE  Cardinality(Log(action, u, g, x)') =
           Cardinality(Log(action, u, g, x))
             + (IF b.action = action /\ Has(b, u, g, x) THEN 1 ELSE 0)
<1>1. b \notin audit /\ audit' = audit \union {b}
  BY DEF Records, IInv, AuditOK, Status
<1>2. IsFiniteSet(Log(action, u, g, x)) /\ Cardinality(Log(action, u, g, x)) \in Nat
  BY LogFinite
<1>3. CASE b.action = action /\ Has(b, u, g, x)
  <2>1. /\ Log(action, u, g, x)' = Log(action, u, g, x) \union {b}
        /\ b \notin Log(action, u, g, x)
    BY <1>1, <1>3 DEF Log, Has
  <2>2. Cardinality(Log(action, u, g, x) \union {b}) = Cardinality(Log(action, u, g, x)) + 1
    BY <1>2, <2>1, FS_AddElement
  <2> QED
    BY <1>3, <2>1, <2>2
<1>4. CASE ~(b.action = action /\ Has(b, u, g, x))
  <2>1. Log(action, u, g, x)' = Log(action, u, g, x)
    BY <1>1, <1>4 DEF Log, Has
  <2> QED
    BY <1>2, <1>4, <2>1
<1> QED
  BY <1>3, <1>4

\* The table stays what the log adds up to.
LEMMA SubscriptionsStep ==
  ASSUME IInv, [Next]_vars
  PROVE  SubscriptionsOK'
<1>1. /\ subscriptions \subseteq Subscription
      /\ \A s \in subscriptions : s.user \in accounts
      /\ \A s, q \in subscriptions : Has(s, q.user, q.granularity, q.target) => s = q
  BY DEF IInv, SubscriptionsOK
<1>2. accounts \subseteq accounts'
  BY UsersStep
<1>3. CASE audit' = audit /\ subscriptions' = subscriptions
  <2>1. \A action, u, g, x : Log(action, u, g, x)' = Log(action, u, g, x)
    BY <1>3 DEF Log, Has
  <2> QED
    BY <1>2, <1>3, <2>1 DEF IInv, SubscriptionsOK, Has
<1>4. ASSUME NEW r \in Requests, NEW b \in AuditRecord, Records(r, b),
             subscriptions' \subseteq Subscription,
             \A s \in subscriptions' : s.user \in accounts,
             \A s, q \in subscriptions' : Has(s, q.user, q.granularity, q.target) => s = q,
             \A u \in Emails, g \in Granularity, x \in Target :
               (IF \E s \in subscriptions' : Has(s, u, g, x) THEN 1 ELSE 0)
                 + (IF b.action = "UNSUBSCRIBE" /\ Has(b, u, g, x) THEN 1 ELSE 0)
               = (IF \E s \in subscriptions : Has(s, u, g, x) THEN 1 ELSE 0)
                 + (IF b.action = "SUBSCRIBE" /\ Has(b, u, g, x) THEN 1 ELSE 0)
      PROVE  SubscriptionsOK'
  <2>1. ASSUME NEW u \in Emails, NEW g \in Granularity, NEW x \in Target
        PROVE  Cardinality(Log("SUBSCRIBE", u, g, x)') =
                 Cardinality(Log("UNSUBSCRIBE", u, g, x)')
                   + (IF \E s \in subscriptions' : Has(s, u, g, x) THEN 1 ELSE 0)
    <3> DEFINE m == Cardinality(Log("SUBSCRIBE", u, g, x))
               n == Cardinality(Log("UNSUBSCRIBE", u, g, x))
               old == IF \E s \in subscriptions : Has(s, u, g, x) THEN 1 ELSE 0
               new == IF \E s \in subscriptions' : Has(s, u, g, x) THEN 1 ELSE 0
               plus == IF b.action = "SUBSCRIBE" /\ Has(b, u, g, x) THEN 1 ELSE 0
               minus == IF b.action = "UNSUBSCRIBE" /\ Has(b, u, g, x) THEN 1 ELSE 0
    <3>1. m \in Nat /\ n \in Nat /\ old \in Nat /\ new \in Nat /\ plus \in Nat /\ minus \in Nat
      BY LogFinite
    <3>2. Cardinality(Log("SUBSCRIBE", u, g, x)') = m + plus
      BY <1>4, LogGrows
    <3>3. Cardinality(Log("UNSUBSCRIBE", u, g, x)') = n + minus
      BY <1>4, LogGrows
    <3>4. m = n + old
      BY DEF IInv, SubscriptionsOK
    <3>5. new + minus = old + plus
      BY <1>4
    <3> HIDE DEF m, n, old, new, plus, minus
    <3>6. m + plus = n + minus + new
      BY <3>1, <3>4, <3>5
    <3> QED
      BY <3>2, <3>3, <3>6 DEF new
  <2> QED
    BY <1>2, <1>4, <2>1 DEF SubscriptionsOK, Has
<1>5. ASSUME NEW r \in Requests, NEW b \in AuditRecord, Records(r, b),
             b.action \notin {"SUBSCRIBE", "UNSUBSCRIBE"}, subscriptions' = subscriptions
      PROVE  SubscriptionsOK'
  BY <1>1, <1>4, <1>5
<1>6. ASSUME NEW r \in Requests, NEW b \in AuditRecord, Records(r, b),
             b.action = "SUBSCRIBE", b.user \in accounts,
             \A q \in subscriptions : ~Has(q, b.user, b.granularity, b.target),
             NEW s \in Subscription, subscriptions' = subscriptions \union {s},
             Has(s, b.user, b.granularity, b.target)
      PROVE  SubscriptionsOK'
  <2>1. \A u, g, x : Has(b, u, g, x) => /\ Has(s, u, g, x)
                                        /\ \A q \in subscriptions : ~Has(q, u, g, x)
    BY <1>6 DEF Has
  <2>2. \A u, g, x : Has(s, u, g, x) => Has(b, u, g, x)
    BY <1>6 DEF Has
  <2>3. \A p, q \in subscriptions' : Has(p, q.user, q.granularity, q.target) => p = q
    BY <1>1, <1>6 DEF Has
  <2>4. \A q \in subscriptions' : q.user \in accounts
    BY <1>1, <1>6 DEF Has
  <2>5. subscriptions' \subseteq Subscription
    BY <1>1, <1>6
  <2>6. ASSUME NEW u \in Emails, NEW g \in Granularity, NEW x \in Target
        PROVE  (\E q \in subscriptions' : Has(q, u, g, x)) <=>
                 (\E q \in subscriptions : Has(q, u, g, x)) \/ Has(b, u, g, x)
    BY <1>6, <2>1, <2>2
  <2> QED
    BY <1>4, <1>6, <2>1, <2>3, <2>4, <2>5, <2>6
<1>7. ASSUME NEW r \in Requests, NEW b \in AuditRecord, Records(r, b),
             b.action = "UNSUBSCRIBE",
             NEW s \in subscriptions, subscriptions' = subscriptions \ {s},
             Has(s, b.user, b.granularity, b.target)
      PROVE  SubscriptionsOK'
  <2>1. \A u, g, x : Has(b, u, g, x) => Has(s, u, g, x)
    BY <1>7 DEF Has
  <2>2. \A u, g, x : Has(s, u, g, x) => Has(b, u, g, x)
    BY <1>7 DEF Has
  <2>3. \A q \in subscriptions : \A u, g, x : Has(s, u, g, x) /\ Has(q, u, g, x) => q = s
    BY <1>1 DEF Has
  <2>4. ASSUME NEW u \in Emails, NEW g \in Granularity, NEW x \in Target
        PROVE  /\ Has(b, u, g, x) => /\ \E q \in subscriptions : Has(q, u, g, x)
                                     /\ ~\E q \in subscriptions' : Has(q, u, g, x)
               /\ ~Has(b, u, g, x) => ((\E q \in subscriptions' : Has(q, u, g, x)) <=>
                                         (\E q \in subscriptions : Has(q, u, g, x)))
    BY <1>7, <2>1, <2>2, <2>3
  <2> QED
    BY <1>1, <1>4, <1>7, <2>4
<1> QED
  BY <1>3, <1>5, <1>6, <1>7, AuditKinds

\* What the log says of a subscription is whether it is there.
LEMMA LogTellsSubscriptions ==
  ASSUME IInv, NEW a \in audit
  PROVE  /\ Holds(a) <=> \E s \in subscriptions : Has(s, a.user, a.granularity, a.target)
         /\ Holds(a) \/ Recorded(a, "SUBSCRIBE") = Recorded(a, "UNSUBSCRIBE")
<1>1. PICK u \in Emails, g \in Granularity, x \in Target :
        u = a.user /\ g = a.granularity /\ x = a.target
  BY DEF IInv, AuditOK, AuditRecord
<1>2. \A action : Recorded(a, action) = Cardinality(Log(action, u, g, x))
  BY <1>1 DEF Recorded, Log, Has
<1>3. /\ Cardinality(Log("SUBSCRIBE", u, g, x)) \in Nat
      /\ Cardinality(Log("UNSUBSCRIBE", u, g, x)) \in Nat
  BY LogFinite
<1>4. Cardinality(Log("SUBSCRIBE", u, g, x)) =
        Cardinality(Log("UNSUBSCRIBE", u, g, x))
          + (IF \E s \in subscriptions : Has(s, u, g, x) THEN 1 ELSE 0)
  BY DEF IInv, SubscriptionsOK
<1> QED
  BY <1>1, <1>2, <1>3, <1>4 DEF Holds

\* A subscription that is there was recorded.
LEMMA SubscriptionWasTaken ==
  ASSUME IInv, NEW s \in subscriptions
  PROVE  \E a \in Taken : Has(s, a.user, a.granularity, a.target)
<1>1. PICK u \in Emails, g \in Granularity, x \in Target :
        u = s.user /\ g = s.granularity /\ x = s.target
  BY DEF IInv, SubscriptionsOK, Subscription
<1>2. \E q \in subscriptions : Has(q, u, g, x)
  BY <1>1 DEF Has
<1>3. /\ Cardinality(Log("SUBSCRIBE", u, g, x)) \in Nat
      /\ Cardinality(Log("UNSUBSCRIBE", u, g, x)) \in Nat
  BY LogFinite
<1>4. Cardinality(Log("SUBSCRIBE", u, g, x)) = Cardinality(Log("UNSUBSCRIBE", u, g, x)) + 1
  BY <1>2 DEF IInv, SubscriptionsOK
<1>5. Log("SUBSCRIBE", u, g, x) # {}
  BY <1>3, <1>4, FS_EmptySet
<1> QED
  BY <1>1, <1>5 DEF Log, Has, Taken

LEMMA RoutingFollows == IInv => RoutingFollowsAudit
<1> SUFFICES ASSUME IInv
             PROVE  RoutingFollowsAudit
  OBVIOUS
<1>1. ASSUME NEW type \in Pipelines, NEW tags \in SUBSET Tags
      PROVE  Recipients(type, tags) =
               {a.user : a \in {b \in Taken : Holds(b) /\ b.user \notin disabled
                                  /\ Matches(b.granularity, b.target, type, tags)}}
  <2>1. ASSUME NEW u \in Recipients(type, tags)
        PROVE  \E a \in Taken : /\ Holds(a) /\ a.user \notin disabled /\ u = a.user
                                /\ Matches(a.granularity, a.target, type, tags)
    <3>1. PICK s \in subscriptions : s.user = u /\ Matches(s.granularity, s.target, type, tags)
      BY <2>1 DEF Recipients
    <3>2. PICK a \in Taken : Has(s, a.user, a.granularity, a.target)
      BY SubscriptionWasTaken
    <3>3. a \in audit
      BY DEF Taken
    <3>4. Holds(a)
      BY <3>2, <3>3, LogTellsSubscriptions
    <3> QED
      BY <2>1, <3>1, <3>2, <3>4 DEF Recipients, Has
  <2>2. ASSUME NEW a \in Taken, Holds(a), a.user \notin disabled,
               Matches(a.granularity, a.target, type, tags)
        PROVE  a.user \in Recipients(type, tags)
    <3>1. a \in audit
      BY DEF Taken
    <3>2. PICK s \in subscriptions : Has(s, a.user, a.granularity, a.target)
      BY <2>2, <3>1, LogTellsSubscriptions
    <3>3. s.user \in accounts
      BY DEF IInv, SubscriptionsOK
    <3> QED
      BY <2>2, <3>2, <3>3 DEF Recipients, Has
  <2> QED
    BY <2>1, <2>2
<1>2. ASSUME NEW a \in Taken
      PROVE  Holds(a) \/ Recorded(a, "SUBSCRIBE") = Recorded(a, "UNSUBSCRIBE")
  BY LogTellsSubscriptions DEF Taken
<1> QED
  BY <1>1, <1>2 DEF RoutingFollowsAudit

-----------------------------------------------------------------------------
(* Administrators.                                                         *)

\* An update leaves an administrator, or is one its author was no longer
\* entitled to, and then the history says so.
LEMMA AdministratorStep ==
  ASSUME IInv, AdministratorRemains, [Next]_vars
  PROVE  AdministratorRemains'
<1>1. CASE stale
  <2>1. stale'
    BY <1>1 DEF Next, History, vars
  <2> QED
    BY <2>1 DEF AdministratorRemains
<1>2. CASE ~stale
  <2>1. PICK w \in accounts : w \in admins /\ w \notin disabled
    BY <1>2 DEF AdministratorRemains, IsActiveAdmin
  <2>2. accounts \subseteq accounts'
    BY UsersStep
  <2>3. ASSUME NEW v \in accounts, v \in admins', v \notin disabled'
        PROVE  AdministratorRemains'
    BY <2>2, <2>3 DEF AdministratorRemains, IsActiveAdmin
  <2>4. CASE UNCHANGED <<admins, disabled>>
    BY <2>1, <2>3, <2>4
  <2>5. ASSUME NEW r \in Requests, Created(r)
        PROVE  AdministratorRemains'
    <3>1. /\ req[r].call.who \notin accounts
          /\ req[r].call.isAdmin \in Optional /\ req[r].call.disable \in Optional
      BY <2>5, CallTyped, AtUseCase DEF Created, Runs
    <3>2. w \in admins' /\ w \notin disabled'
      BY <2>1, <2>5, <3>1, FlaggedCases DEF Created, Optional
    <3> QED
      BY <2>3, <3>2
  <2>6. ASSUME NEW r \in Requests, Updated(r)
        PROVE  AdministratorRemains'
    <3> DEFINE c == req[r].call
               x == req[r].user
    <3>1. /\ c.isAdmin \in Optional /\ c.disable \in Optional /\ req[r].pc = "exec"
          /\ x \in Emails /\ x \in accounts
      BY <2>6, CallTyped, AtUseCase DEF Updated, Runs
    <3>2. CASE c.isAdmin = "keep" /\ c.disable = "keep"
      BY <2>1, <2>3, <2>6, <3>1, <3>2, FlaggedCases DEF Updated
    <3>3. CASE x \in admins /\ x \notin disabled
      <4>1. c.who = x => c.isAdmin # "off" /\ c.disable # "on"
        BY <2>6 DEF Updated, LosesOwnAccess
      <4>2. x \in admins' /\ x \notin disabled'
        BY <2>6, <3>1, <3>3, <4>1, FlaggedCases DEF Updated, Optional
      <4> QED
        BY <2>3, <3>1, <4>2
    <3>4. CASE ~(c.isAdmin = "keep" /\ c.disable = "keep") /\ ~(x \in admins /\ x \notin disabled)
      <4> DEFINE b == [by |-> r, action |-> "UPDATE_USER", actor |-> x, user |-> c.who,
                       granularity |-> c.granularity, target |-> c.target]
      <4>1. b \in audit'
        BY <2>6, <3>4 DEF Updated, Audited
      <4>2. b.by = r /\ b.action = "UPDATE_USER" /\ b.actor = x
        OBVIOUS
      <4>3. b \notin audit
        BY <3>1, <4>2 DEF IInv, AuditOK, Status
      <4>4. ~IsActiveAdmin(b.actor)
        BY <3>4, <4>2 DEF IsActiveAdmin
      <4> HIDE DEF b
      <4>5. History
        BY <4>1, <4>3 DEF Next, vars, tables
      <4>6. stale'
        BY <4>1, <4>2, <4>3, <4>4, <4>5 DEF History
      <4> QED
        BY <4>6 DEF AdministratorRemains
    <3> QED
      BY <3>2, <3>3, <3>4
  <2>7. CASE Restart
    BY <2>1, <2>3, <2>7 DEF Restart
  <2>8. ASSUME NEW r \in Requests,
               Passes(r) \/ Authenticate(r) \/ LoggedIn(r) \/ Refused(r) \/ Logout(r) \/ WasReset(r)
        PROVE  UNCHANGED <<admins, disabled>>
    BY <2>8 DEF Passes, Arrive, RejectCsrf, Route, RequireAdmin, Rejected, tables, userTable,
       Authenticate, LoggedIn, Refused, Logout, WasReset
  <2>9. ASSUME NEW r \in Requests, NEW u, NEW s, Added(r, u) \/ Removed(r, s)
        PROVE  UNCHANGED <<admins, disabled>>
    BY <2>9 DEF Added, Removed, Remove, userTable
  <2>10. ASSUME Tick \/ UNCHANGED vars
         PROVE  UNCHANGED <<admins, disabled>>
    BY <2>10 DEF Tick, vars, tables, userTable
  <2> QED
    BY <2>4, <2>5, <2>6, <2>7, <2>8, <2>9, <2>10, StepKinds
<1> QED
  BY <1>1, <1>2

-----------------------------------------------------------------------------
(* The theorems.                                                           *)

LEMMA InitInv == Init => IInv
<1> SUFFICES ASSUME Init
             PROVE  IInv
  OBVIOUS
<1>1. UsersOK
  BY AccountsAssumption DEF Init, UsersOK, Passwords
<1>2. SessionsOK
  <2>1. ASSUME NEW t \in FirstAccounts
        PROVE  /\ [user |-> t, created |-> 0, last |-> 0, password |-> FirstPassword] \in Session
               /\ t \in Emails
    BY AccountsAssumption DEF Session, Passwords
  <2> QED
    BY <2>1 DEF Init, SessionsOK, Token
<1>3. AuditOK
  BY FS_EmptySet DEF Init, AuditOK, OnlyAdministratorsAct
<1>4. ReqOK
  <2>1. ASSUME NEW r \in Requests
        PROVE  /\ Idle(r, "new") \in Request /\ Idle(r, "new").pc = "new"
               /\ Idle(r, "new").user = Nobody
    BY DEF Idle, Request
  <2> QED
    BY <2>1 DEF Init, ReqOK
<1>5. ProcessOK
  BY DEF Init, ProcessOK, Token
<1>6. HistoryOK
  <2>1. stale \in BOOLEAN
    BY DEF Init
  <2> QED
    BY <2>1, AccountsAssumption DEF Init, HistoryOK
<1>7. SubscriptionsOK
  <2>1. \A action, u, g, x : Log(action, u, g, x) = {}
    BY DEF Init, Log
  <2>2. subscriptions = {}
    BY DEF Init
  <2> QED
    BY <2>1, <2>2, FS_EmptySet DEF SubscriptionsOK
<1> QED
  BY <1>1, <1>2, <1>3, <1>4, <1>5, <1>6, <1>7 DEF IInv

\* The strengthened invariant: what requests in flight may rely on, who was
\* entitled, and the subscriptions table as the sum of the log.
THEOREM Invariance == Spec => []IInv
<1>1. IInv /\ [Next]_vars => IInv'
  BY UsersStep, SessionsStep, AuditStep, ReqStep, ProcessStep, HistoryStep,
     SubscriptionsStep DEF IInv
<1> QED
  BY <1>1, InitInv, PTL DEF Spec

\* L3-AUTH-020 and -021 for any accounts and any interleaving of requests: no
\* session outlives a disable of its account or a reset of its password.
THEOREM SessionsAreCurrentHolds == Spec => []SessionsAreCurrent
<1>1. IInv => SessionsAreCurrent
  BY DEF IInv, UsersOK, SessionsOK, AuditOK, ReqOK, ProcessOK, HistoryOK,
     SubscriptionsOK, SessionsAreCurrent, TypeOK
<1> QED
  BY <1>1, Invariance, PTL

\* L2-AUTH-007 and L2-DASH-007: whoever changed an account, or a subscription
\* of another, had been an administrator.
THEOREM OnlyAdministratorsActHolds == Spec => []OnlyAdministratorsAct
<1>1. IInv => OnlyAdministratorsAct
  BY DEF IInv, AuditOK
<1> QED
  BY <1>1, Invariance, PTL

\* The recipients of every run are the accounts that hold a matching
\* subscription by the audit log, for any pipelines and tags.
THEOREM RoutingFollowsAuditHolds == Spec => []RoutingFollowsAudit
BY RoutingFollows, Invariance, PTL

\* L2-AUTH-009: a database that starts with an administrator keeps one, unless
\* somebody's change was made after he lost the access it was checked for.
THEOREM AdministratorRemainsHolds ==
  ASSUME FirstAdmins # {}
  PROVE  Spec => []AdministratorRemains
<1>1. Init => AdministratorRemains
  BY AccountsAssumption DEF Init, AdministratorRemains, IsActiveAdmin
<1>2. IInv /\ AdministratorRemains /\ [Next]_vars => AdministratorRemains'
  BY AdministratorStep
<1> QED
  BY <1>1, <1>2, Invariance, PTL DEF Spec
=============================================================================
