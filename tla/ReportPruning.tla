--------------------------- MODULE ReportPruning ---------------------------
(***************************************************************************)
(* The report store and the pruner that empties it.                        *)
(*                                                                         *)
(* Delivery tasks save fragments and the email body while, and shortly     *)
(* after, their runs end.  The pruner's tick lists the runs that ended a   *)
(* retention time ago and removes their files one by one, with an audit    *)
(* record between two of them, so that tasks save files while it runs.     *)
(* The rows of pruned runs stay and are listed by every later tick.        *)
(***************************************************************************)
EXTENDS Integers, FiniteSets, FiniteSetsExt

CONSTANTS Runs,            \* run ids
          Names,           \* report files: the email body, fragments of stages
          NamesOf,         \* NamesOf[r]: those the delivery of r saves
          MaxPrunes,       \* max_prunes_per_iteration
          CandidateLimit,  \* _CANDIDATE_QUERY_LIMIT
          Retention,       \* report_retention_days, in ticks
          Horizon          \* bound: no run ends after this time

ASSUME LimitsAssumption ==
  /\ MaxPrunes \in Nat \ {0}
  /\ CandidateLimit \in Nat \ {0}
  /\ Retention \in Nat \ {0}
  /\ Horizon \in Nat

ASSUME NamesAssumption == NamesOf \in [Runs -> SUBSET Names]

VARIABLES
  clock,
  endedAt,      \* endedAt[r]: when run r became terminal (updated_at), or Null
  delivering,   \* runs whose delivery task is alive
  files,        \* files[r]: what lies in r's directory
  ticking,      \* a tick of the pruner is under way
  queue,        \* its candidates yet to come
  todo,         \* the files of the current one yet to be evicted
  budget        \* budget_remaining

runVars == <<endedAt, delivering>>
tickVars == <<ticking, queue, todo, budget>>
vars == <<clock, runVars, files, tickVars>>

Null == -1
MaxTime == Horizon + Retention

\* A file is under its name, or under the temporary one it is written to.
File == Names \X {"html", "tmp"}

TypeOK ==
  /\ clock \in 0 .. MaxTime
  /\ endedAt \in [Runs -> 0 .. MaxTime \cup {Null}]
  /\ delivering \in SUBSET Runs
  /\ files \in [Runs -> SUBSET File]
  /\ ticking \in BOOLEAN
  /\ queue \in SUBSET Runs
  /\ todo \in SUBSET (Runs \X File)
  /\ budget \in 0 .. MaxPrunes

Init ==
  /\ clock = 0
  /\ endedAt = [r \in Runs |-> Null]
  /\ delivering = Runs
  /\ files = [r \in Runs |-> {}]
  /\ ticking = FALSE /\ queue = {} /\ todo = {} /\ budget = 0

\* Operations fail only while the clock still runs.
MayFail == clock < MaxTime

-----------------------------------------------------------------------------
(* Runs and their delivery tasks.                                          *)

\* The task reaches its last unit of work and ends with the run.
FinishDelivery(r) ==
  /\ r \in delivering /\ endedAt[r] = Null /\ clock <= Horizon
  /\ endedAt' = [endedAt EXCEPT ![r] = clock]
  /\ delivering' = delivering \ {r}
  /\ UNCHANGED <<clock, files, tickVars>>

\* The sweeper orphans the run; the task may still be alive.
Orphan(r) ==
  /\ endedAt[r] = Null /\ clock <= Horizon
  /\ endedAt' = [endedAt EXCEPT ![r] = clock]
  /\ UNCHANGED <<clock, delivering, files, tickVars>>

\* The task finds its run orphaned and ends.
GiveUpDelivery(r) ==
  /\ r \in delivering /\ endedAt[r] # Null
  /\ delivering' = delivering \ {r}
  /\ UNCHANGED <<clock, endedAt, files, tickVars>>

\* save_fragment, save_email_body: written aside, then moved into place.
Save(r, n) ==
  /\ r \in delivering
  /\ files' = [files EXCEPT ![r] = (@ \ {<<n, "tmp">>}) \cup {<<n, "html">>}]
  /\ UNCHANGED <<clock, runVars, tickVars>>

\* The write fails half way; the task logs it and goes on.
SaveFails(r, n) ==
  /\ MayFail
  /\ r \in delivering
  /\ files' = [files EXCEPT ![r] = @ \cup {<<n, "tmp">>}]
  /\ UNCHANGED <<clock, runVars, tickVars>>

-----------------------------------------------------------------------------
(* run_once.                                                               *)

\* Mutant of Expired: the test on the state of the run is left out.
ExpiredOrRunning == {r \in Runs : endedAt[r] + Retention <= clock}

\* updated_at <= cutoff AND state IN terminal states
Expired == {r \in Runs : endedAt[r] # Null /\ endedAt[r] + Retention <= clock}

\* list_expired: ORDER BY updated_at ASC LIMIT.
ListExpired ==
  {c \in SUBSET Expired :
     /\ Cardinality(c) = Min({CandidateLimit, Cardinality(Expired)})
     /\ \A r \in c, s \in Expired \ c : endedAt[r] <= endedAt[s]}

StartTick ==
  /\ ~ticking
  /\ ticking' = TRUE
  /\ queue' \in ListExpired
  /\ budget' = MaxPrunes
  /\ UNCHANGED <<clock, runVars, files, todo>>

\* r is the next candidate; the files of the one before are dealt with.
IsNext(r) ==
  /\ ticking /\ todo = {}
  /\ r \in queue /\ \A s \in queue : endedAt[r] <= endedAt[s]

EndTick ==
  /\ ticking' = FALSE /\ queue' = {} /\ todo' = {} /\ budget' = 0

\* Mutant of SkipRun: the tick is over at the first run without files.
SkipRunEnds(r) ==
  /\ IsNext(r)
  /\ files[r] = {}
  /\ EndTick
  /\ UNCHANGED <<clock, runVars, files>>

\* "if not files: continue"
SkipRun(r) ==
  /\ IsNext(r)
  /\ files[r] = {}
  /\ queue' = queue \ {r}
  /\ UNCHANGED <<clock, runVars, files, ticking, todo, budget>>

\* Mutant of TakeRun: started with any budget left.
TakeRunPartly(r) ==
  /\ IsNext(r)
  /\ files[r] # {} /\ budget > 0
  /\ todo' = {r} \X files[r]
  /\ queue' = queue \ {r}
  /\ UNCHANGED <<clock, runVars, files, ticking, budget>>

\* All files of the run fit the budget.
TakeRun(r) ==
  /\ IsNext(r)
  /\ files[r] # {} /\ Cardinality(files[r]) <= budget
  /\ todo' = {r} \X files[r]
  /\ queue' = queue \ {r}
  /\ UNCHANGED <<clock, runVars, files, ticking, budget>>

\* "if len(files) > budget_remaining: break"
OverBudget(r) ==
  /\ IsNext(r)
  /\ Cardinality(files[r]) > budget
  /\ EndTick
  /\ UNCHANGED <<clock, runVars, files>>

\* _evict_file: unlink, then the audit record in a unit of work of its own.  A
\* file that is gone by now counts as a failure; so does a record that is lost.
Evict(r, f) ==
  /\ <<r, f>> \in todo
  /\ files' = [files EXCEPT ![r] = @ \ {f}]
  /\ todo' = todo \ {<<r, f>>}
  /\ budget' = budget - 1
  /\ UNCHANGED <<clock, runVars, ticking, queue>>

\* unlink raises: _record_failure, and the file stays for the next tick.
EvictFails(r, f) ==
  /\ MayFail
  /\ <<r, f>> \in todo
  /\ todo' = todo \ {<<r, f>>}
  /\ budget' = budget - 1
  /\ UNCHANGED <<clock, runVars, files, ticking, queue>>

FinishTick ==
  /\ ticking /\ queue = {} /\ todo = {}
  /\ EndTick
  /\ UNCHANGED <<clock, runVars, files>>

\* The process dies, in a tick or not, and starts again.
Crash ==
  /\ MayFail
  /\ EndTick
  /\ delivering' = {}
  /\ UNCHANGED <<clock, endedAt, files>>

Tick ==
  /\ clock < MaxTime
  /\ clock' = clock + 1
  /\ UNCHANGED <<runVars, files, tickVars>>

Prune ==
  \/ StartTick
  \/ \E r \in Runs : SkipRun(r) \/ TakeRun(r) \/ OverBudget(r)
  \/ \E r \in Runs, f \in File : Evict(r, f)
  \/ FinishTick

Next ==
  \/ \E r \in Runs : FinishDelivery(r) \/ Orphan(r) \/ GiveUpDelivery(r)
  \/ \E r \in Runs : \E n \in NamesOf[r] : Save(r, n) \/ SaveFails(r, n)
  \/ Prune
  \/ \E r \in Runs, f \in File : EvictFails(r, f)
  \/ Crash
  \/ Tick

Spec == Init /\ [][Next]_vars

\* Time passes, the loop runs tick after tick, and tasks end.
FairSpec ==
  /\ Spec
  /\ WF_vars(Tick)
  /\ WF_vars(Prune)
  /\ \A r \in Runs : WF_vars(GiveUpDelivery(r))

-----------------------------------------------------------------------------
(* Properties.                                                             *)

\* A report stays for the whole retention time, counted from the end of its
\* run, also when it is saved, orphaned or interrupted during a tick.
KeepsReports ==
  [][\A r \in Runs, n \in Names :
       <<n, "html">> \in files[r] \ files'[r]
         => endedAt[r] # Null /\ endedAt[r] + Retention <= clock]_vars

\* A run once started can be finished within the tick's budget, although
\* failures use it up and tasks add files: the pruner never stops half way
\* through a run of its own accord.
RunFitsBudget == TypeOK /\ Cardinality(todo) <= budget

\* The runs no later than r in the order of the candidates, itself among them.
UpTo(r) == {s \in Runs : endedAt[s] # Null /\ endedAt[s] <= endedAt[r]}

\* Rows of pruned runs stay candidates, and a run that never fits the budget
\* ends every tick: r is reached if the runs up to it are no more than a tick
\* lists and none of them has more files than a tick may remove.
WithinReach(r) ==
  /\ Cardinality(UpTo(r)) <= CandidateLimit
  /\ \A s \in UpTo(r) : Cardinality(files[s]) <= MaxPrunes

\* Runs not dealt with in this tick are picked up in a later one: of an ended
\* run that stays within reach every file is removed at last, whatever fails,
\* crashes or uses up the budget on the way.  Of a run out of reach the files
\* may stay for ever.
EveryFileGoes ==
  \A r \in Runs : <>[]WithinReach(r) => (endedAt[r] # Null ~> files[r] = {})
=============================================================================
