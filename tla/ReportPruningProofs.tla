------------------------ MODULE ReportPruningProofs ------------------------
(***************************************************************************)
(* The report pruner, for any runs and names (finitely many or not), any   *)
(* limits and any retention time.                                          *)
(*                                                                         *)
(* A tick works from what it has read: the runs it listed and the files it *)
(* found.  The strengthening says why that is still good when it is used:  *)
(* an expired run stays expired whatever its task and the sweeper do, and  *)
(* each file of the current run, evicted or not, takes one of the budget.  *)
(***************************************************************************)
EXTENDS ReportPruning, FiniteSetTheorems, TLAPS

\* Directories are finite, although names may not be.
FilesInv == (\A r \in Runs : IsFiniteSet(files[r])) /\ IsFiniteSet(todo)

\* What a tick still means to do, it may do.
TickInv ==
  /\ queue \subseteq Expired
  /\ \A r \in Runs, f \in File : <<r, f>> \in todo => r \in Expired
  /\ ~ticking => todo = {}
  /\ Cardinality(todo) <= budget

IInv == TypeOK /\ FilesInv /\ TickInv

-----------------------------------------------------------------------------
(* Operators.                                                              *)

\* Times add up.
LEMMA Times ==
  /\ MaxPrunes \in Nat /\ CandidateLimit \in Nat /\ Retention \in Nat /\ Horizon \in Nat
  /\ MaxTime \in Nat /\ Horizon <= MaxTime /\ MaxPrunes >= 1
BY LimitsAssumption DEF MaxTime

\* A run that is expired stays so: an end is never moved, and time goes on.
LEMMA ExpiredStays ==
  ASSUME TypeOK, clock' \in Nat, clock <= clock',
         \A r \in Runs : endedAt[r] # Null => endedAt'[r] = endedAt[r]
  PROVE  Expired \subseteq Expired'
<1>1. ASSUME NEW r \in Expired
      PROVE  r \in Expired'
  <2>1. r \in Runs /\ endedAt[r] # Null /\ endedAt[r] + Retention <= clock
    BY <1>1 DEF Expired
  <2>2. endedAt[r] \in Nat /\ clock \in Nat
    BY <2>1, Times DEF TypeOK
  <2>3. endedAt'[r] = endedAt[r]
    BY <2>1
  <2>4. endedAt[r] + Retention <= clock'
    BY <2>1, <2>2, Times
  <2> QED
    BY <2>1, <2>3, <2>4 DEF Expired
<1> QED
  BY <1>1

\* What is listed has expired.
LEMMA ListedExpired == \A c \in ListExpired : c \subseteq Expired
BY DEF ListExpired

LEMMA ExpiredRuns == Expired \subseteq Runs
BY DEF Expired

\* The files of one run, each with the run, are as many as the files.
LEMMA Paired ==
  ASSUME NEW r, NEW S, IsFiniteSet(S)
  PROVE  IsFiniteSet({r} \X S) /\ Cardinality({r} \X S) = Cardinality(S)
<1>1. IsFiniteSet({r}) /\ Cardinality({r}) = 1
  BY FS_Singleton
<1>2. Cardinality(S) \in Nat
  BY FS_CardinalityType
<1>3. /\ IsFiniteSet({r} \X S)
      /\ Cardinality({r} \X S) = Cardinality({r}) * Cardinality(S)
  BY <1>1, FS_Product
<1> QED
  BY <1>1, <1>2, <1>3

-----------------------------------------------------------------------------
(* Steps of the runs and of time.                                          *)

\* A step that leaves the files and the tick alone.
LEMMA TickKept ==
  ASSUME IInv, TypeOK', Expired \subseteq Expired', UNCHANGED <<files, tickVars>>
  PROVE  IInv'
<1>1. files' = files /\ queue' = queue /\ todo' = todo /\ ticking' = ticking /\ budget' = budget
  BY DEF tickVars
<1>2. FilesInv'
  BY <1>1 DEF IInv, FilesInv
<1>3. TickInv'
  <2>1. queue' \subseteq Expired'
    BY <1>1 DEF IInv, TickInv
  <2>2. \A r \in Runs, f \in File : <<r, f>> \in todo' => r \in Expired'
    BY <1>1 DEF IInv, TickInv
  <2>3. (~ticking' => todo' = {}) /\ Cardinality(todo') <= budget'
    BY <1>1 DEF IInv, TickInv
  <2> QED
    BY <2>1, <2>2, <2>3 DEF TickInv
<1> QED
  BY <1>2, <1>3 DEF IInv

\* A run ends, now, for the first time.
LEMMA RunEnds ==
  ASSUME IInv, NEW r \in Runs, endedAt[r] = Null, clock <= Horizon,
         endedAt' = [endedAt EXCEPT ![r] = clock], delivering' \subseteq delivering,
         UNCHANGED <<clock, files, tickVars>>
  PROVE  IInv'
<1>1. TypeOK /\ clock' = clock
  BY DEF IInv
<1>2. clock \in Nat /\ clock \in 0 .. MaxTime
  BY <1>1, Times DEF TypeOK
<1>3. endedAt' \in [Runs -> 0 .. MaxTime \cup {Null}]
  BY <1>1, <1>2 DEF TypeOK
<1>4. ticking' \in BOOLEAN
  BY <1>1 DEF TypeOK, tickVars
<1>5. TypeOK'
  BY <1>1, <1>3, <1>4 DEF TypeOK, tickVars
<1>6. \A s \in Runs : endedAt[s] # Null => endedAt'[s] = endedAt[s]
  BY <1>1 DEF TypeOK
<1>7. Expired \subseteq Expired'
  BY <1>1, <1>2, <1>6, ExpiredStays
<1> QED
  BY <1>5, <1>7, TickKept

\* Steps that change neither ends, files nor the tick.
LEMMA Elsewhere ==
  ASSUME IInv, delivering' \subseteq Runs,
         clock' \in 0 .. MaxTime, clock <= clock',
         UNCHANGED <<endedAt, files, tickVars>>
  PROVE  IInv'
<1>1. TypeOK
  BY DEF IInv
<1>2. ticking' \in BOOLEAN
  BY <1>1 DEF TypeOK, tickVars
<1>3. TypeOK'
  BY <1>1, <1>2 DEF TypeOK, tickVars
<1>4. clock' \in Nat
  BY Times
<1>5. Expired \subseteq Expired'
  BY <1>1, <1>4, ExpiredStays
<1> QED
  BY <1>3, <1>5, TickKept

\* A file is written, under either name.
LEMMA Written ==
  ASSUME IInv, NEW r \in Runs, NEW n \in Names, Save(r, n) \/ SaveFails(r, n)
  PROVE  IInv'
<1>1. TypeOK /\ FilesInv /\ TickInv /\ UNCHANGED <<clock, runVars, tickVars>>
  BY DEF IInv, Save, SaveFails
<1>2. PICK g \in {files[r], files[r] \ {<<n, "tmp">>}}, x \in File :
        files' = [files EXCEPT ![r] = g \cup {x}]
  BY DEF Save, SaveFails, File
<1>3. IsFiniteSet(files[r]) /\ files[r] \subseteq File
  BY <1>1 DEF TypeOK, FilesInv
<1>4. IsFiniteSet(g \cup {x}) /\ g \cup {x} \subseteq File
  <2>1. IsFiniteSet(files[r] \ {<<n, "tmp">>})
    BY <1>3, FS_RemoveElement
  <2>2. IsFiniteSet(g)
    BY <1>3, <2>1
  <2>3. g \subseteq File
    BY <1>3
  <2> QED
    BY <2>2, <2>3, FS_AddElement
<1>5. TypeOK'
  <2>1. files' \in [Runs -> SUBSET File]
    BY <1>1, <1>2, <1>4 DEF TypeOK
  <2>2. ticking' \in BOOLEAN
    BY <1>1 DEF TypeOK, tickVars
  <2> QED
    BY <1>1, <2>1, <2>2 DEF TypeOK, tickVars, runVars
<1>6. FilesInv'
  <2>1. \A s \in Runs : IsFiniteSet(files'[s])
    BY <1>1, <1>2, <1>4 DEF FilesInv, TypeOK
  <2> QED
    BY <1>1, <2>1 DEF FilesInv, tickVars
<1>7. TickInv'
  <2>1. Expired' = Expired
    BY <1>1 DEF Expired, runVars
  <2> QED
    BY <1>1, <2>1 DEF TickInv, tickVars
<1> QED
  BY <1>5, <1>6, <1>7 DEF IInv

-----------------------------------------------------------------------------
(* Steps of a tick.                                                        *)

LEMMA StartTickStep ==
  ASSUME IInv, StartTick
  PROVE  IInv'
<1>1. /\ ~ticking /\ ticking' = TRUE /\ queue' \in ListExpired /\ budget' = MaxPrunes
      /\ UNCHANGED <<clock, runVars, files, todo>>
  BY DEF StartTick
<1>2. TypeOK /\ FilesInv /\ TickInv
  BY DEF IInv
<1>3. queue' \subseteq Expired /\ queue' \subseteq Runs
  BY <1>1, ListedExpired, ExpiredRuns
<1>4. todo = {} /\ todo' = {} /\ Cardinality(todo') = 0
  BY <1>1, <1>2, FS_EmptySet DEF TickInv
<1>5. MaxPrunes \in 0 .. MaxPrunes /\ 0 <= MaxPrunes
  BY Times
<1>6. TypeOK'
  BY <1>1, <1>2, <1>3, <1>5 DEF TypeOK, runVars
<1>7. FilesInv'
  BY <1>1, <1>2 DEF FilesInv
<1>8. Expired' = Expired
  BY <1>1 DEF Expired, runVars
<1>9. TickInv'
  BY <1>1, <1>3, <1>4, <1>5, <1>8 DEF TickInv
<1> QED
  BY <1>6, <1>7, <1>9 DEF IInv

LEMMA SkipRunStep ==
  ASSUME IInv, NEW r \in Runs, SkipRun(r)
  PROVE  IInv'
<1>1. queue' = queue \ {r} /\ UNCHANGED <<clock, runVars, files, ticking, todo, budget>>
  BY DEF SkipRun
<1>2. TypeOK /\ FilesInv /\ TickInv
  BY DEF IInv
<1>3. ticking' \in BOOLEAN
  BY <1>1, <1>2 DEF TypeOK
<1>4. TypeOK'
  BY <1>1, <1>2, <1>3 DEF TypeOK, runVars
<1>5. FilesInv'
  BY <1>1, <1>2 DEF FilesInv
<1>6. Expired' = Expired
  BY <1>1 DEF Expired, runVars
<1>7. TickInv'
  BY <1>1, <1>2, <1>6 DEF TickInv
<1> QED
  BY <1>4, <1>5, <1>7 DEF IInv

\* The files of the run that is taken fit the budget.
LEMMA TakeRunStep ==
  ASSUME IInv, NEW r \in Runs, TakeRun(r)
  PROVE  IInv'
<1>1. /\ ticking /\ r \in queue /\ Cardinality(files[r]) <= budget /\ todo' = {r} \X files[r]
      /\ queue' = queue \ {r} /\ UNCHANGED <<clock, runVars, files, ticking, budget>>
  BY DEF TakeRun, IsNext
<1>2. TypeOK /\ FilesInv /\ TickInv
  BY DEF IInv
<1>3. IsFiniteSet(files[r]) /\ files[r] \subseteq File
  BY <1>2 DEF TypeOK, FilesInv
<1>4. IsFiniteSet(todo') /\ Cardinality(todo') = Cardinality(files[r])
  BY <1>1, <1>3, Paired
<1>5. todo' \in SUBSET (Runs \X File)
  BY <1>1, <1>3
<1>6. ticking' \in BOOLEAN
  BY <1>1, <1>2 DEF TypeOK
<1>7. TypeOK'
  BY <1>1, <1>2, <1>5, <1>6 DEF TypeOK, runVars
<1>8. FilesInv'
  BY <1>1, <1>2, <1>4 DEF FilesInv
<1>9. Expired' = Expired
  BY <1>1 DEF Expired, runVars
<1>10. r \in Expired
  BY <1>1, <1>2 DEF TickInv
<1>11. \A s \in Runs, f \in File : <<s, f>> \in todo' => s \in Expired'
  BY <1>1, <1>9, <1>10
<1>12. TickInv'
  BY <1>1, <1>2, <1>4, <1>9, <1>11 DEF TickInv
<1> QED
  BY <1>7, <1>8, <1>12 DEF IInv

\* A file is dealt with, evicted or not, and one of the budget is used.
LEMMA EvictStep ==
  ASSUME IInv, NEW r \in Runs, NEW f \in File, Evict(r, f) \/ EvictFails(r, f)
  PROVE  IInv'
<1>1. /\ <<r, f>> \in todo /\ todo' = todo \ {<<r, f>>} /\ budget' = budget - 1
      /\ UNCHANGED <<clock, runVars, ticking, queue>>
  BY DEF Evict, EvictFails
<1>2. TypeOK /\ FilesInv /\ TickInv
  BY DEF IInv
<1>3. files' = [files EXCEPT ![r] = files[r] \ {f}] \/ files' = files
  BY DEF Evict, EvictFails
<1>4. IsFiniteSet(files[r] \ {f})
  BY <1>2, FS_RemoveElement DEF FilesInv
<1>5. files' \in [Runs -> SUBSET File] /\ \A s \in Runs : IsFiniteSet(files'[s])
  BY <1>2, <1>3, <1>4 DEF TypeOK, FilesInv
<1>6. IsFiniteSet(todo') /\ Cardinality(todo') = Cardinality(todo) - 1
  BY <1>1, <1>2, FS_RemoveElement DEF FilesInv
<1>7. budget \in Nat /\ Cardinality(todo) \in Nat /\ Cardinality(todo') \in Nat
      /\ budget <= MaxPrunes /\ Cardinality(todo) <= budget
  BY <1>2, <1>6, Times, FS_CardinalityType DEF TypeOK, FilesInv, TickInv
<1>8. budget' \in 0 .. MaxPrunes /\ Cardinality(todo') <= budget'
  BY <1>1, <1>6, <1>7, Times
<1>9. ticking' \in BOOLEAN
  BY <1>1, <1>2 DEF TypeOK
<1>10. TypeOK'
  BY <1>1, <1>2, <1>5, <1>8, <1>9 DEF TypeOK, runVars
<1>11. FilesInv'
  BY <1>5, <1>6 DEF FilesInv
<1>12. Expired' = Expired
  BY <1>1 DEF Expired, runVars
<1>13. TickInv'
  BY <1>1, <1>2, <1>8, <1>12 DEF TickInv
<1> QED
  BY <1>10, <1>11, <1>13 DEF IInv

\* A tick ends, of its own accord or with the process.
LEMMA EndTickStep ==
  ASSUME IInv, EndTick, delivering' \subseteq Runs, UNCHANGED <<clock, endedAt, files>>
  PROVE  IInv'
<1>1. ticking' = FALSE /\ queue' = {} /\ todo' = {} /\ budget' = 0
  BY DEF EndTick
<1>2. TypeOK /\ FilesInv /\ TickInv
  BY DEF IInv
<1>3. 0 \in 0 .. MaxPrunes /\ IsFiniteSet(todo') /\ Cardinality(todo') <= budget'
  BY <1>1, Times, FS_EmptySet
<1>4. TypeOK'
  BY <1>1, <1>2, <1>3 DEF TypeOK
<1>5. FilesInv'
  BY <1>2, <1>3 DEF FilesInv
<1>6. TickInv'
  BY <1>1, <1>3 DEF TickInv
<1> QED
  BY <1>4, <1>5, <1>6 DEF IInv

-----------------------------------------------------------------------------
(* The theorems.                                                           *)

LEMMA InitInv == Init => IInv
<1> SUFFICES ASSUME Init
             PROVE  IInv
  OBVIOUS
<1>1. TypeOK
  <2>1. 0 \in 0 .. MaxTime /\ 0 \in 0 .. MaxPrunes
    BY Times
  <2>2. endedAt \in [Runs -> 0 .. MaxTime \cup {Null}]
    BY DEF Init
  <2>3. files \in [Runs -> SUBSET File]
    BY DEF Init
  <2>4. ticking \in BOOLEAN
    BY DEF Init
  <2> QED
    BY <2>1, <2>2, <2>3, <2>4 DEF Init, TypeOK
<1>2. FilesInv
  BY FS_EmptySet DEF Init, FilesInv
<1>3. TickInv
  BY FS_EmptySet DEF Init, TickInv
<1> QED
  BY <1>1, <1>2, <1>3 DEF IInv

LEMMA NextInv == IInv /\ [Next]_vars => IInv'
<1> SUFFICES ASSUME IInv, [Next]_vars
             PROVE  IInv'
  OBVIOUS
<1>1. clock \in Nat /\ clock \in 0 .. MaxTime /\ delivering \subseteq Runs
  BY Times DEF IInv, TypeOK
<1>2. ASSUME NEW r \in Runs, FinishDelivery(r) \/ Orphan(r)
      PROVE  IInv'
  <2>1. /\ endedAt[r] = Null /\ clock <= Horizon /\ endedAt' = [endedAt EXCEPT ![r] = clock]
        /\ UNCHANGED <<clock, files, tickVars>>
    BY <1>2 DEF FinishDelivery, Orphan
  <2>2. delivering' \subseteq delivering
    BY <1>2 DEF FinishDelivery, Orphan
  <2> QED
    BY <2>1, <2>2, RunEnds
<1>3. ASSUME NEW r \in Runs, GiveUpDelivery(r)
      PROVE  IInv'
  <2>1. delivering' \subseteq Runs /\ UNCHANGED <<clock, endedAt, files, tickVars>>
    BY <1>1, <1>3 DEF GiveUpDelivery
  <2>2. clock' \in 0 .. MaxTime /\ clock <= clock'
    BY <1>1, <2>1
  <2> QED
    BY <2>1, <2>2, Elsewhere
<1>4. ASSUME NEW r \in Runs, NEW n \in NamesOf[r], Save(r, n) \/ SaveFails(r, n)
      PROVE  IInv'
  <2>1. n \in Names
    BY NamesAssumption
  <2> QED
    BY <1>4, <2>1, Written
<1>5. CASE StartTick
  BY <1>5, StartTickStep
<1>6. ASSUME NEW r \in Runs, SkipRun(r)
      PROVE  IInv'
  BY <1>6, SkipRunStep
<1>7. ASSUME NEW r \in Runs, TakeRun(r)
      PROVE  IInv'
  BY <1>7, TakeRunStep
<1>8. ASSUME NEW r \in Runs, NEW f \in File, Evict(r, f) \/ EvictFails(r, f)
      PROVE  IInv'
  BY <1>8, EvictStep
<1>9. CASE FinishTick \/ Crash \/ \E r \in Runs : OverBudget(r)
  <2>1. EndTick /\ delivering' \subseteq Runs /\ UNCHANGED <<clock, endedAt, files>>
    BY <1>1, <1>9 DEF FinishTick, Crash, OverBudget, runVars
  <2> QED
    BY <2>1, EndTickStep
<1>10. CASE Tick
  <2>1. clock' \in 0 .. MaxTime /\ clock <= clock'
    BY <1>1, <1>10, Times DEF Tick
  <2>2. delivering' \subseteq Runs /\ UNCHANGED <<endedAt, files, tickVars>>
    BY <1>1, <1>10 DEF Tick, runVars
  <2> QED
    BY <2>1, <2>2, Elsewhere
<1>11. CASE UNCHANGED vars
  <2>1. clock' \in 0 .. MaxTime /\ clock <= clock'
    BY <1>1, <1>11 DEF vars
  <2>2. delivering' \subseteq Runs /\ UNCHANGED <<endedAt, files, tickVars>>
    BY <1>1, <1>11 DEF vars, runVars
  <2> QED
    BY <2>1, <2>2, Elsewhere
<1> QED
  BY <1>2, <1>3, <1>4, <1>5, <1>6, <1>7, <1>8, <1>9, <1>10, <1>11 DEF Next, Prune

\* What the pruner has listed and found is still good when it acts on it.
THEOREM Invariance == Spec => []IInv
BY InitInv, NextInv, PTL DEF Spec

\* A run once started can be finished within the budget of the tick, although
\* failures use it up and tasks add files.
THEOREM RunFitsBudgetHolds == Spec => []RunFitsBudget
<1>1. IInv => RunFitsBudget
  BY DEF IInv, TickInv, RunFitsBudget
<1> QED
  BY <1>1, Invariance, PTL

\* A report stays for the whole retention time from the end of its run on.
THEOREM KeepsReportsHolds == Spec => KeepsReports
<1> DEFINE Kept == \A r \in Runs, n \in Names :
                     <<n, "html">> \in files[r] \ files'[r]
                       => endedAt[r] # Null /\ endedAt[r] + Retention <= clock
<1>1. ASSUME IInv, [Next]_vars
      PROVE  [Kept]_vars
  <2>1. TypeOK /\ TickInv
    BY <1>1 DEF IInv
  <2>2. CASE files' = files
    BY <2>2
  <2>3. ASSUME NEW r \in Runs, NEW n \in Names, Save(r, n) \/ SaveFails(r, n)
        PROVE  Kept
    <3>1. \A s \in Runs, m \in Names : <<m, "html">> \in files[s] => <<m, "html">> \in files'[s]
      BY <2>1, <2>3 DEF Save, SaveFails, TypeOK
    <3> QED
      BY <3>1
  <2>4. ASSUME NEW r \in Runs, NEW f \in File, Evict(r, f)
        PROVE  Kept
    <3>1. r \in Expired
      BY <2>1, <2>4 DEF Evict, TickInv
    <3>2. \A s \in Runs : s # r => files'[s] = files[s]
      BY <2>1, <2>4 DEF Evict, TypeOK
    <3> QED
      BY <3>1, <3>2 DEF Expired
  <2>5. \/ files' = files
        \/ \E r \in Runs : \E n \in NamesOf[r] : Save(r, n) \/ SaveFails(r, n)
        \/ \E r \in Runs, f \in File : Evict(r, f)
    BY <1>1 DEF Next, Prune, vars, FinishDelivery, Orphan, GiveUpDelivery, StartTick, SkipRun,
                TakeRun, OverBudget, FinishTick, EvictFails, Crash, Tick
  <2>6. \A r \in Runs : NamesOf[r] \subseteq Names
    BY NamesAssumption
  <2> QED
    BY <2>2, <2>3, <2>4, <2>5, <2>6
<1> QED
  BY <1>1, Invariance, PTL DEF Spec, KeepsReports
=============================================================================
