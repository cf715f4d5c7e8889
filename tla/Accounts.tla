------------------------------ MODULE Accounts ------------------------------
(***************************************************************************)
(* The dashboard's accounts, sessions and subscriptions behind the REST    *)
(* middleware.  A request passes SessionAuthMiddleware, the gate of its    *)
(* route and one use case; each of the three opens its own unit of work,   *)
(* so what one of them read may be stale in the next.  A unit of work is   *)
(* one step, taken while nobody holds the connection lock (its inside is   *)
(* modelled in UnitOfWork).                                                *)
(*                                                                         *)
(* An account is named by its email, which is unique and never changes; a  *)
(* session by the token the client keeps in its cookie.                    *)
(***************************************************************************)
EXTENDS Naturals, FiniteSets

CONSTANTS
  Emails,           \* addresses an account may be created for
  FirstAccounts,    \* accounts of the initial database, all signed in
  FirstAdmins,      \* the administrators among them
  ConfiguredAdmin,  \* the account of [auth.admin], or Nobody
  Requests,         \* HTTP requests; each is made once
  Calls,            \* what a request may ask for
  IdleTimeout,      \* auth.session_idle_timeout_seconds
  MaxTime,          \* bound: clock readings
  MaxRestarts,      \* bound: restarts of the service
  Pipelines,        \* registered pipeline types
  Tags              \* the tag vocabulary

Nobody == "nobody"
NoCookie == "no cookie"
NoTarget == "no target"
Free == "free"
FirstPassword == "first password"
WrongPassword == "wrong password"

SessionOps == {"read", "subscribe", "unsubscribe"}
AdminOps == {"create", "update", "reset", "adminSubscribe",
             "adminUnsubscribe", "adminRead"}
Ops == SessionOps \union AdminOps \union {"login", "logout"}

Granularity == {"GLOBAL", "PIPELINE", "TAG"}
Target == Pipelines \union Tags \union {NoTarget, "unknown"}
Optional == {"keep", "on", "off"}

\* A call: who it is about, the fields a PATCH or a creation sets, the
\* subscription it asks for, whether a login knows the current password.
Call == [op : Ops, who : Emails, isAdmin : Optional, disable : Optional,
         granularity : Granularity, target : Target, knows : BOOLEAN]

Token == FirstAccounts \union Requests
Passwords == Requests \union {FirstPassword}
Session == [user : Emails, created : Nat, last : Nat, password : Passwords]
NoSession == [user |-> Nobody]
Subscription == [id : Requests, user : Emails, granularity : Granularity,
                 target : Target]
Status == {"200", "401", "403", "404", "409", "422", "500", "lost"}

\* What is known of a request: where it is (once answered, its status), the
\* call, the cookie, the reading SessionAuthMiddleware took, request.state's
\* user_id, the password a login sends, the subscription that is to go.
NoCall == [op |-> "none"]
Request == [pc : {"new", "auth", "route", "gate", "exec"} \union Status,
            call : Calls \union {NoCall}, cookie : Token \union {NoCookie},
            now : Nat, user : Emails \union {Nobody},
            secret : Passwords \union {WrongPassword}, subId : Requests]
Idle(r, p) == [pc |-> p, call |-> NoCall, cookie |-> NoCookie, now |-> 0,
               user |-> Nobody, secret |-> WrongPassword, subId |-> r]
AuditAction == {"LOGIN", "LOGIN_FAILED", "LOGOUT", "CREATE_USER",
                "UPDATE_USER", "SUBSCRIBE", "UNSUBSCRIBE"}
AuditRecord == [by : Requests, action : AuditAction, actor : Emails,
                user : Emails, granularity : Granularity, target : Target]

ASSUME AccountsAssumption ==
  /\ FirstAccounts \subseteq Emails
  /\ FirstAdmins \subseteq FirstAccounts
  /\ Nobody \notin Emails
  /\ ConfiguredAdmin \in FirstAccounts \union {Nobody}
  /\ Calls \subseteq Call
ASSUME RequestsAssumption ==
  /\ Requests \intersect (FirstAccounts \union {Free, NoCookie}) = {}
  /\ NoCookie \notin FirstAccounts
  /\ {FirstPassword, WrongPassword} \intersect Requests = {}
ASSUME BoundsAssumption ==
  IdleTimeout \in Nat \ {0} /\ MaxTime \in Nat /\ MaxRestarts \in Nat

VARIABLES
  \* users table
  accounts,       \* emails of the rows
  admins,         \* rows with is_admin
  disabled,       \* rows with disabled
  password,       \* what password_hash was made of
  \* sessions, subscriptions, audit_log tables
  sessions,
  subscriptions,
  audit,
  \* the process
  lock,           \* the request whose unit of work is open, or Free
  clock,
  restarts,
  issued,         \* tokens clients keep in their cookies
  req,            \* the requests
  \* history
  stale,          \* a change was made on a check that no longer held
  entitled        \* accounts that have been active administrators

userTable == <<accounts, admins, disabled, password>>
tables == <<userTable, sessions, subscriptions, audit>>
process == <<clock, restarts, issued>>
vars == <<tables, lock, process, req, stale, entitled>>

\* Every variable keeps its type, flags belong to rows that exist, and so do
\* the owners of sessions and subscriptions (the foreign keys).
TypeOK ==
  /\ accounts \subseteq Emails
  /\ admins \subseteq accounts
  /\ disabled \subseteq accounts
  /\ password \in [Emails -> Passwords]
  /\ sessions \in [Token -> Session \union {NoSession}]
  /\ \A t \in Token : sessions[t] # NoSession =>
       sessions[t].user \in accounts /\ sessions[t].created <= sessions[t].last
  /\ subscriptions \subseteq Subscription
  /\ \A s \in subscriptions : s.user \in accounts
  /\ audit \subseteq AuditRecord
  /\ lock \in Requests \union {Free}
  /\ clock \in Nat /\ restarts \in Nat
  /\ issued \subseteq Token
  /\ req \in [Requests -> Request]
  /\ stale \in BOOLEAN /\ entitled \subseteq Emails

Init ==
  /\ accounts = FirstAccounts /\ admins = FirstAdmins /\ disabled = {}
  /\ password = [e \in Emails |-> FirstPassword]
  /\ sessions = [t \in Token |->
       IF t \in FirstAccounts
       THEN [user |-> t, created |-> 0, last |-> 0, password |-> FirstPassword]
       ELSE NoSession]
  /\ subscriptions = {} /\ audit = {}
  /\ lock = Free /\ clock = 0 /\ restarts = 0 /\ issued = FirstAccounts
  /\ req = [r \in Requests |-> Idle(r, "new")]
  /\ stale = FALSE /\ entitled = FirstAdmins

-----------------------------------------------------------------------------
(* Repositories.                                                           *)

\* delete_by_token_hash, delete_by_user_id
Without(t) == [sessions EXCEPT ![t] = NoSession]
RevokedFor(u) ==
  [t \in Token |-> IF sessions[t].user = u THEN NoSession ELSE sessions[t]]

\* SqliteUserRepository.update of one flag column: None leaves it alone.
Flagged(set, u, value) ==
  CASE value = "on"   -> set \union {u}
    [] value = "off"  -> set \ {u}
    [] value = "keep" -> set

\* The target check of SqliteSubscriptionRepository.add.
WellFormed(c) == (c.granularity = "GLOBAL") <=> (c.target = NoTarget)

\* The UNIQUE indexes on (user_id, granularity, target_value).
IsDuplicate(u, c) ==
  \E s \in subscriptions :
    s.user = u /\ s.granularity = c.granularity /\ s.target = c.target

\* The branches of the WHERE clause of list_recipients_for_run.
Matches(granularity, target, type, tags) ==
  \/ granularity = "GLOBAL"
  \/ granularity = "PIPELINE" /\ target = type
  \/ granularity = "TAG" /\ target \in tags

\* list_recipients_for_run
Recipients(type, tags) ==
  {u \in accounts \ disabled :
     \E s \in subscriptions :
       s.user = u /\ Matches(s.granularity, s.target, type, tags)}

\* audit_log.record in the unit of work of request r.
Audited(r, action, actor, u) ==
  audit \union {[by |-> r, action |-> action, actor |-> actor, user |-> u,
                 granularity |-> req[r].call.granularity, target |-> req[r].call.target]}

-----------------------------------------------------------------------------
(* Middleware and gates.                                                   *)

\* The response is on its way out; a unit of work that the middleware still
\* has open is closed by it.
Answer(r, status) ==
  /\ req' = [req EXCEPT ![r] = Idle(r, status)]
  /\ lock' = IF lock = r THEN Free ELSE lock

GoTo(r, p) == req' = [req EXCEPT ![r].pc = p] /\ UNCHANGED lock

\* CsrfMiddleware refuses a state-changing call without the matching pair.
RejectCsrf(r) ==
  /\ req[r].pc = "new"
  /\ \E c \in Calls : c.op \notin {"login", "read", "adminRead"}
  /\ Answer(r, "403")
  /\ UNCHANGED <<tables, process>>

\* SessionAuthMiddleware up to its unit of work.
Arrive(r) ==
  /\ req[r].pc = "new"
  /\ \E c \in Calls, k \in issued \union {NoCookie},
        id \in {r} \union {s.id : s \in subscriptions} :
       /\ c.op \in {"unsubscribe", "adminUnsubscribe"} \/ id = r
       /\ req' = [req EXCEPT ![r] =
            [pc |-> IF k = NoCookie THEN "route" ELSE "auth",
             call |-> c, cookie |-> k, now |-> clock, user |-> Nobody,
             secret |-> IF c.knows THEN password[c.who] ELSE WrongPassword,
             subId |-> id]]
  /\ UNCHANGED <<tables, process, lock>>

\* No row: the middleware goes on unauthenticated, inside its unit of work.
UnknownSession(r) ==
  /\ sessions[req[r].cookie] = NoSession
  /\ lock' = r
  /\ req' = [req EXCEPT ![r].pc = "route"]
  /\ UNCHANGED sessions

\* Idle for too long: the row goes, the commit closes the unit of work.
ExpiredSession(r) ==
  /\ sessions[req[r].cookie] # NoSession
  /\ req[r].now >= sessions[req[r].cookie].last + IdleTimeout
  /\ sessions' = Without(req[r].cookie)
  /\ GoTo(r, "route")

\* touch and commit; the CHECK on last_activity_at refuses a reading from
\* before the session.
LiveSession(r) ==
  LET s == sessions[req[r].cookie] IN
  /\ s # NoSession
  /\ req[r].now < s.last + IdleTimeout
  /\ \/ /\ req[r].now < s.created
        /\ Answer(r, "500")
        /\ UNCHANGED sessions
     \/ /\ req[r].now >= s.created
        /\ sessions' = [sessions EXCEPT ![req[r].cookie].last = req[r].now]
        /\ req' = [req EXCEPT ![r].pc = "route", ![r].user = s.user]
        /\ UNCHANGED lock

\* SessionAuthMiddleware.dispatch, from its unit of work to call_next.
Authenticate(r) ==
  /\ req[r].pc = "auth" /\ lock = Free
  /\ UnknownSession(r) \/ ExpiredSession(r) \/ LiveSession(r)
  /\ UNCHANGED <<userTable, subscriptions, audit, process>>

\* Mutant of Route: require_admin is left out of the routes under /admin.
RouteUngated(r) ==
  /\ req[r].pc = "route"
  /\ IF req[r].call.op = "login" \/ req[r].user # Nobody
     THEN GoTo(r, "exec")
     ELSE Answer(r, "401")
  /\ UNCHANGED <<tables, process>>

\* The routes: /login needs no session, /logout does nothing without one, the
\* others are refused by require_session; /admin goes through require_admin.
Route(r) ==
  /\ req[r].pc = "route"
  /\ IF req[r].call.op = "login" \/ req[r].user # Nobody
     THEN GoTo(r, IF req[r].call.op \in AdminOps THEN "gate" ELSE "exec")
     ELSE Answer(r, IF req[r].call.op = "logout" THEN "200" ELSE "401")
  /\ UNCHANGED <<tables, process>>

IsActiveAdmin(u) == u \in admins \ disabled

\* require_admin: a unit of work of its own.
RequireAdmin(r) ==
  /\ req[r].pc = "gate" /\ lock = Free
  /\ IF IsActiveAdmin(req[r].user)
     THEN GoTo(r, "exec")
     ELSE Answer(r, IF req[r].user \in accounts \ disabled THEN "403" ELSE "401")
  /\ UNCHANGED <<tables, process>>

-----------------------------------------------------------------------------
(* Use cases.  Each waits for the lock and runs in one unit of work; an    *)
(* error raised inside it undoes everything.                               *)

Runs(r, op) == req[r].pc = "exec" /\ lock = Free /\ req[r].call.op = op

Rejected(r, status) ==
  /\ Answer(r, status)
  /\ UNCHANGED <<tables, process>>

\* LoginUseCase: a failure is recorded and committed before it is raised; a
\* success stores the session and hands the token to the client.
Login(r) ==
  LET u == req[r].call.who IN
  /\ Runs(r, "login")
  /\ IF u \in accounts \ disabled /\ req[r].secret = password[u]
     THEN /\ sessions' = [sessions EXCEPT ![r] =
               [user |-> u, created |-> clock, last |-> clock,
                password |-> password[u]]]
          /\ audit' = Audited(r, "LOGIN", u, u)
          /\ issued' = issued \union {r}
          /\ Answer(r, "200")
     ELSE /\ audit' = Audited(r, "LOGIN_FAILED", u, u)
          /\ Answer(r, "401")
          /\ UNCHANGED <<sessions, issued>>
  /\ UNCHANGED <<userTable, subscriptions, clock, restarts>>

\* LogoutUseCase
Logout(r) ==
  /\ Runs(r, "logout")
  /\ sessions' = Without(req[r].cookie)
  /\ audit' = Audited(r, "LOGOUT", req[r].user, req[r].user)
  /\ Answer(r, "200")
  /\ UNCHANGED <<userTable, subscriptions, process>>

\* The listings: a unit of work that writes nothing.
Read(r) ==
  /\ Runs(r, "read") \/ Runs(r, "adminRead")
  /\ Rejected(r, "200")

\* CreateUserUseCase; the UNIQUE index on email refuses a second row.
CreateUser(r) ==
  LET c == req[r].call IN
  /\ Runs(r, "create")
  /\ \/ /\ c.who \in accounts
        /\ Rejected(r, "409")
     \/ /\ c.who \notin accounts
        /\ accounts' = accounts \union {c.who}
        /\ admins' = Flagged(admins, c.who, c.isAdmin)
        /\ disabled' = Flagged(disabled, c.who, c.disable)
        /\ password' = [password EXCEPT ![c.who] = r]
        /\ audit' = Audited(r, "CREATE_USER", req[r].user, c.who)
        /\ Answer(r, "200")
        /\ UNCHANGED <<sessions, subscriptions, process>>

\* Mutant of LosesOwnAccess: demoting oneself is not refused.
LosesOwnAccessByDisable(u, c) == c.who = u /\ c.disable = "on"

\* SelfProtectionError
LosesOwnAccess(u, c) == c.who = u /\ (c.isAdmin = "off" \/ c.disable = "on")

\* Mutant of UpdateUser: sessions survive the disable.
UpdateUserKeepsSessions(r) ==
  LET c == req[r].call IN
  /\ Runs(r, "update")
  /\ ~LosesOwnAccess(req[r].user, c) /\ c.who \in accounts
  /\ admins' = Flagged(admins, c.who, c.isAdmin)
  /\ disabled' = Flagged(disabled, c.who, c.disable)
  /\ audit' = Audited(r, "UPDATE_USER", req[r].user, c.who)
  /\ Answer(r, "200")
  /\ UNCHANGED <<accounts, password, sessions, subscriptions, process>>

\* UpdateUserUseCase: self-protection before the unit of work, then the
\* flags, the audit record of a non-empty PATCH and, for a disable, the end
\* of the account's sessions.
UpdateUser(r) ==
  LET c == req[r].call IN
  \/ /\ req[r].pc = "exec" /\ c.op = "update" /\ LosesOwnAccess(req[r].user, c)
     /\ Rejected(r, "409")
  \/ /\ Runs(r, "update") /\ ~LosesOwnAccess(req[r].user, c)
     /\ c.who \notin accounts
     /\ Rejected(r, "404")
  \/ /\ Runs(r, "update") /\ ~LosesOwnAccess(req[r].user, c)
     /\ c.who \in accounts
     /\ admins' = Flagged(admins, c.who, c.isAdmin)
     /\ disabled' = Flagged(disabled, c.who, c.disable)
     /\ audit' = IF c.isAdmin = "keep" /\ c.disable = "keep" THEN audit
                 ELSE Audited(r, "UPDATE_USER", req[r].user, c.who)
     /\ sessions' = IF c.disable = "on" THEN RevokedFor(c.who) ELSE sessions
     /\ Answer(r, "200")
     /\ UNCHANGED <<accounts, password, subscriptions, process>>

\* ResetPasswordUseCase
ResetPassword(r) ==
  LET u == req[r].call.who IN
  /\ Runs(r, "reset")
  /\ \/ u \notin accounts /\ Rejected(r, "404")
     \/ /\ u \in accounts
        /\ password' = [password EXCEPT ![u] = r]
        /\ audit' = Audited(r, "UPDATE_USER", req[r].user, u)
        /\ sessions' = RevokedFor(u)
        /\ Answer(r, "200")
        /\ UNCHANGED <<accounts, admins, disabled, subscriptions, process>>

-----------------------------------------------------------------------------
(* Subscriptions.                                                          *)

\* L3-SUB-004: the registry and the vocabulary, before any persistence.
IsKnown(c) ==
  /\ c.granularity = "PIPELINE" => c.target \in Pipelines
  /\ c.granularity = "TAG" => c.target \in Tags \union {NoTarget}

\* subscription_repo.add and the audit record, for account u.
Add(r, u) ==
  LET c == req[r].call IN
  \/ ~WellFormed(c) /\ Rejected(r, "500")
  \/ WellFormed(c) /\ IsDuplicate(u, c) /\ Rejected(r, "409")
  \/ /\ WellFormed(c) /\ ~IsDuplicate(u, c)
     /\ subscriptions' = subscriptions \union
          {[id |-> r, user |-> u, granularity |-> c.granularity,
            target |-> c.target]}
     /\ audit' = Audited(r, "SUBSCRIBE", req[r].user, u)
     /\ Answer(r, "200")
     /\ UNCHANGED <<userTable, sessions, process>>

\* SubscribeUseCase, for the caller; the request model has already refused a
\* target that does not go with the granularity.
Subscribe(r) ==
  LET accepted == WellFormed(req[r].call) /\ IsKnown(req[r].call) IN
  /\ req[r].pc = "exec" /\ req[r].call.op = "subscribe"
  /\ \/ ~accepted /\ Rejected(r, "422")
     \/ lock = Free /\ accepted /\ Add(r, req[r].user)

\* AdminSubscribeUseCase, for an account that must exist.
AdminSubscribe(r) ==
  /\ req[r].pc = "exec" /\ req[r].call.op = "adminSubscribe"
  /\ \/ ~IsKnown(req[r].call) /\ Rejected(r, "422")
     \/ /\ lock = Free /\ IsKnown(req[r].call)
        /\ \/ req[r].call.who \notin accounts /\ Rejected(r, "404")
           \/ req[r].call.who \in accounts /\ Add(r, req[r].call.who)

\* get_by_id, the audit record and remove.
Remove(r, s, u) ==
  /\ subscriptions' = subscriptions \ {s}
  /\ audit' = audit \union {[by |-> r, action |-> "UNSUBSCRIBE", actor |-> req[r].user,
                user |-> u, granularity |-> s.granularity, target |-> s.target]}
  /\ Answer(r, "200")
  /\ UNCHANGED <<userTable, sessions, process>>

NotFound(r) == \A s \in subscriptions : s.id # req[r].subId

\* Mutant of Unsubscribe: the owner is not compared.
UnsubscribeAnyone(r) ==
  /\ Runs(r, "unsubscribe")
  /\ \/ NotFound(r) /\ Rejected(r, "404")
     \/ \E s \in subscriptions : s.id = req[r].subId /\ Remove(r, s, req[r].user)

\* UnsubscribeUseCase: only the owner's.
Unsubscribe(r) ==
  /\ Runs(r, "unsubscribe")
  /\ \/ NotFound(r) /\ Rejected(r, "404")
     \/ \E s \in subscriptions :
          /\ s.id = req[r].subId
          /\ \/ s.user # req[r].user /\ Rejected(r, "403")
             \/ s.user = req[r].user /\ Remove(r, s, req[r].user)

\* AdminUnsubscribeUseCase: only a subscription of the account in the path.
AdminUnsubscribe(r) ==
  /\ Runs(r, "adminUnsubscribe")
  /\ \/ /\ \/ NotFound(r)
           \/ \E s \in subscriptions : s.id = req[r].subId /\ s.user # req[r].call.who
        /\ Rejected(r, "404")
     \/ \E s \in subscriptions :
          /\ s.id = req[r].subId /\ s.user = req[r].call.who
          /\ Remove(r, s, req[r].call.who)

-----------------------------------------------------------------------------
(* The process.                                                            *)

Tick ==
  /\ clock < MaxTime
  /\ clock' = clock + 1
  /\ UNCHANGED <<tables, lock, restarts, issued, req>>

\* Requests in flight are lost, with the unit of work one of them had open;
\* _reconcile_admin_account re-asserts the configured administrator.
Restart ==
  /\ restarts < MaxRestarts
  /\ restarts' = restarts + 1
  /\ req' = [r \in Requests |->
               IF req[r].pc \in {"new"} \union Status THEN req[r] ELSE Idle(r, "lost")]
  /\ lock' = Free
  /\ admins' = admins \union ({ConfiguredAdmin} \ {Nobody})
  /\ disabled' = disabled \ {ConfiguredAdmin}
  /\ UNCHANGED <<accounts, password, sessions, subscriptions, audit, clock, issued>>

Handle(r) ==
  \/ Authenticate(r) \/ Route(r) \/ RequireAdmin(r)
  \/ Login(r) \/ Logout(r) \/ Read(r)
  \/ CreateUser(r) \/ UpdateUser(r) \/ ResetPassword(r)
  \/ Subscribe(r) \/ AdminSubscribe(r) \/ Unsubscribe(r) \/ AdminUnsubscribe(r)

\* What a step adds to the history: an account was changed on behalf of one
\* that was no active administrator then; who is an active administrator now.
History ==
  /\ stale' = (stale \/ \E a \in audit' \ audit :
                 /\ a.action \in {"CREATE_USER", "UPDATE_USER"}
                 /\ ~IsActiveAdmin(a.actor))
  /\ entitled' = entitled \union (admins' \ disabled')

Next ==
  /\ \/ \E r \in Requests : Arrive(r) \/ RejectCsrf(r) \/ Handle(r)
     \/ Tick
     \/ Restart
  /\ History

Spec == Init /\ [][Next]_vars

\* The event loop runs every ready task.
FairSpec == Spec /\ \A r \in Requests : WF_vars(Handle(r) /\ History)

-----------------------------------------------------------------------------
(* Properties.                                                             *)

\* L3-AUTH-020 and -021: a session belongs to an account that exists and is not
\* disabled, and none outlives the password it was opened with, whatever logins
\* and re-enablings surround the disable or the reset.
SessionsAreCurrent ==
  /\ TypeOK
  /\ \A t \in Token : sessions[t] # NoSession =>
       /\ sessions[t].user \notin disabled
       /\ sessions[t].password = password[sessions[t].user]

\* L2-AUTH-009: administrative access is lost only by a change that its author
\* was no longer entitled to when it was made; two administrators that demote
\* each other at the same time are the way to get there.
AdministratorRemains == stale \/ \E u \in accounts : IsActiveAdmin(u)

\* How often the audit log says that the account of record a took, or gave up,
\* the subscription of record a.
Recorded(a, action) ==
  Cardinality({b \in audit : /\ b.action = action /\ b.user = a.user
                             /\ b.granularity = a.granularity
                             /\ b.target = a.target})
Holds(a) == Recorded(a, "SUBSCRIBE") = Recorded(a, "UNSUBSCRIBE") + 1
Taken == {a \in audit : a.action = "SUBSCRIBE"}

\* The audit log accounts for the routing of reports: who gets the report of a
\* run is who, by the log, holds a matching subscription, self-made or made by
\* an administrator, and no subscription is held twice.
RoutingFollowsAudit ==
  /\ \A type \in Pipelines, tags \in SUBSET Tags :
       Recipients(type, tags) =
         {a.user : a \in {b \in Taken : Holds(b) /\ b.user \notin disabled
                            /\ Matches(b.granularity, b.target, type, tags)}}
  /\ \A a \in Taken :
       Holds(a) \/ Recorded(a, "SUBSCRIBE") = Recorded(a, "UNSUBSCRIBE")

\* L2-AUTH-007, L2-DASH-007: no route that changes an account, or a subscription
\* of another, goes without its gate: whoever did that has been an administrator
\* at some time.  That the gate may have gone stale since is no violation here;
\* AdministratorRemains is about that.
OnlyAdministratorsAct ==
  \A a \in audit :
    \/ a.action \in {"CREATE_USER", "UPDATE_USER"}
    \/ a.action \in {"SUBSCRIBE", "UNSUBSCRIBE"} /\ a.actor # a.user
    => a.actor \in entitled

\* Every request is answered.
EveryRequestAnswered ==
  \A r \in Requests : req[r].pc = "auth" ~> req[r].pc \in Status
=============================================================================
