------------------------- MODULE AuditArchiveProofs -------------------------
(***************************************************************************)
(* Theorems about the audit log's retention, for any writers, any batch    *)
(* size and any retention time that no writer's lag exceeds.               *)
(***************************************************************************)
EXTENDS AuditArchive, FiniteSetTheorems, TLAPS

\* A reading in use is no older than MaxLag.
ReadingsRecent ==
  \A w \in Writers : writer[w] # Null => clock - MaxLag <= writer[w]

\* The tick's cutoff lies a retention time back.
CutoffPast == cutoff <= clock - Retention

\* What was fetched is what the delete will select, and is archived by then.
BatchCurrent ==
  /\ phase \in {"archiving", "deleting"} => batch = OldestExpired
  /\ phase = "deleting" => batch \subseteq archive

IInv ==
  /\ TypeOK /\ ReadingsRecent /\ CutoffPast /\ BatchCurrent /\ DeletedIsArchived

USE SizesAssumption, LagAssumption DEF Null, Ids, MaxTime

LEMMA InitInv == Init => IInv
BY DEF Init, IInv, TypeOK, ReadingsRecent, CutoffPast, BatchCurrent,
       DeletedIsArchived, Phases, OldestExpired, Expired

\* A record inserted during a tick is too young for the tick's cutoff.
LEMMA RecordIsYoung ==
  ASSUME IInv, NEW w \in Writers, writer[w] # Null
  PROVE  writer[w] \in 0 .. MaxTime /\ ~(writer[w] < cutoff)
BY DEF IInv, TypeOK, ReadingsRecent, CutoffPast

\* So the selection of the tick stays what it is.
LEMMA RecordKeepsSelection ==
  ASSUME IInv, NEW w \in Writers, Record(w)
  PROVE  OldestExpired' = OldestExpired
<1> DEFINE n == count + 1
<1>1. /\ n \in Ids /\ n \notin table /\ table' = table \cup {n}
      /\ stamp' = [stamp EXCEPT ![n] = writer[w]] /\ UNCHANGED cutoff
  BY DEF IInv, TypeOK, Record, tickVars
<1>2. stamp'[n] = writer[w]
  BY <1>1 DEF IInv, TypeOK
<1>3. ~(stamp'[n] < cutoff')
  BY <1>1, <1>2, RecordIsYoung DEF Record
<1>4. \A i \in table : stamp'[i] = stamp[i]
  BY <1>1 DEF IInv, TypeOK
<1>5. Expired' = Expired
  BY <1>1, <1>3, <1>4 DEF Expired
<1>6. \A i, j \in Expired : Before(i, j)' <=> Before(i, j)
  BY <1>4 DEF Before, Expired
<1>7. \A i \in Expired :
        {j \in Expired : Before(j, i)'} = {j \in Expired : Before(j, i)}
  BY <1>6
<1>8. OldestExpired'
        = {i \in Expired : Cardinality({j \in Expired : Before(j, i)'}) < BatchSize}
  BY <1>5 DEF OldestExpired
<1> QED
  BY <1>7, <1>8 DEF OldestExpired

LEMMA WriterInv ==
  ASSUME IInv, NEW w \in Writers, ReadClock(w) \/ Record(w) \/ Leave(w)
  PROVE  IInv'
<1>1. CASE ReadClock(w) \/ Leave(w)
  <2>1. TypeOK' /\ ReadingsRecent' /\ CutoffPast'
    <3>1. CASE ReadClock(w)
      BY <3>1 DEF IInv, TypeOK, ReadingsRecent, CutoffPast, ReadClock, tickVars
    <3>2. CASE Leave(w)
      BY <3>2 DEF IInv, TypeOK, ReadingsRecent, CutoffPast, Leave, tickVars
    <3> QED
      BY <1>1, <3>1, <3>2
  <2>2. OldestExpired' = OldestExpired
    BY <1>1 DEF ReadClock, Leave, tickVars, OldestExpired, Expired, Before
  <2> QED
    BY <1>1, <2>1, <2>2
    DEF IInv, BatchCurrent, DeletedIsArchived, ReadClock, Leave, tickVars
<1>2. CASE Record(w)
  <2>1. /\ count' = count + 1 /\ count' \in 0 .. MaxRecords
        /\ table' = table \cup {count'} /\ UNCHANGED archive
    BY <1>2 DEF IInv, TypeOK, Record
  <2>2. TypeOK'
    BY <1>2, <2>1, RecordIsYoung DEF IInv, TypeOK, Record, tickVars
  <2>3. ReadingsRecent' /\ CutoffPast'
    BY <1>2 DEF IInv, ReadingsRecent, CutoffPast, Record, tickVars
  <2>4. BatchCurrent'
    BY <1>2, RecordKeepsSelection DEF IInv, BatchCurrent, Record, tickVars
  <2>5. DeletedIsArchived'
    BY <2>1 DEF IInv, TypeOK, DeletedIsArchived
  <2> QED
    BY <2>2, <2>3, <2>4, <2>5 DEF IInv
<1> QED
  BY <1>1, <1>2

LEMMA PruneInv ==
  ASSUME IInv, Prune \/ ArchiveFails \/ TickFails
  PROVE  IInv'
<1>1. UNCHANGED <<clock, writer, count, stamp>>
  BY DEF Prune, StartTick, FetchOlderThan, Archive, DeleteOlderThan,
         ArchiveFails, TickFails, logVars
<1>2. ReadingsRecent'
  BY <1>1 DEF IInv, ReadingsRecent
<1>3. CASE StartTick
  BY <1>2, <1>3
  DEF IInv, TypeOK, Phases, CutoffPast, BatchCurrent, DeletedIsArchived,
      StartTick, logVars
<1>4. CASE FetchOlderThan
  <2>1. OldestExpired' = OldestExpired
    BY <1>4 DEF FetchOlderThan, logVars, OldestExpired, Expired, Before
  <2>2. OldestExpired \subseteq Ids
    <3>1. table \subseteq Ids
      BY DEF IInv, TypeOK
    <3> QED
      BY <3>1 DEF OldestExpired, Expired
  <2> QED
    BY <1>2, <1>4, <2>1, <2>2
    DEF IInv, TypeOK, Phases, CutoffPast, BatchCurrent, DeletedIsArchived,
        FetchOlderThan, logVars
<1>5. CASE Archive
  <2>1. OldestExpired' = OldestExpired
    BY <1>5 DEF Archive, logVars, OldestExpired, Expired, Before
  <2>2. batch \subseteq 1 .. count
    BY <1>5 DEF Archive, IInv, BatchCurrent, TypeOK, OldestExpired, Expired
  <2> QED
    BY <1>2, <1>5, <2>1, <2>2
    DEF IInv, TypeOK, Phases, CutoffPast, BatchCurrent, DeletedIsArchived,
        Archive, logVars
<1>6. CASE DeleteOlderThan
  <2>1. OldestExpired \subseteq archive
    BY <1>6 DEF DeleteOlderThan, IInv, BatchCurrent
  <2> QED
    BY <1>2, <1>6, <2>1
    DEF IInv, TypeOK, Phases, CutoffPast, BatchCurrent, DeletedIsArchived,
        DeleteOlderThan
<1>7. CASE ArchiveFails
  <2>1. batch \subseteq 1 .. count
    BY <1>7 DEF ArchiveFails, IInv, BatchCurrent, TypeOK, OldestExpired, Expired
  <2> QED
    BY <1>2, <1>7, <2>1
    DEF IInv, TypeOK, Phases, CutoffPast, BatchCurrent, DeletedIsArchived,
        ArchiveFails, logVars
<1>8. CASE TickFails
  BY <1>2, <1>8
  DEF IInv, TypeOK, Phases, CutoffPast, BatchCurrent, DeletedIsArchived,
      TickFails, logVars
<1> QED
  BY <1>3, <1>4, <1>5, <1>6, <1>7, <1>8 DEF Prune

LEMMA TickInv ==
  ASSUME IInv, Tick
  PROVE  IInv'
<1>1. OldestExpired' = OldestExpired
  BY DEF Tick, logVars, tickVars, OldestExpired, Expired, Before
<1>2. TypeOK' /\ CutoffPast'
  BY DEF IInv, TypeOK, CutoffPast, Tick, logVars, tickVars
<1>3. ReadingsRecent'
  BY DEF IInv, TypeOK, ReadingsRecent, Tick, logVars
<1> QED
  BY <1>1, <1>2, <1>3
  DEF IInv, BatchCurrent, DeletedIsArchived, Tick, logVars, tickVars

LEMMA StutterInv ==
  ASSUME IInv, UNCHANGED vars
  PROVE  IInv'
<1>1. OldestExpired' = OldestExpired
  BY DEF vars, logVars, tickVars, OldestExpired, Expired, Before
<1> QED
  BY <1>1
  DEF IInv, TypeOK, ReadingsRecent, CutoffPast, BatchCurrent, DeletedIsArchived,
      vars, logVars, tickVars

\* The inductive invariant holds in every state.
THEOREM Invariance == Spec => []IInv
<1>1. IInv /\ [Next]_vars => IInv'
  BY WriterInv, PruneInv, TickInv, StutterInv DEF Next
<1> QED
  BY InitInv, <1>1, PTL DEF Spec

\* Every variable keeps its type.
THEOREM TypeCorrect == Spec => []TypeOK
<1>1. IInv => TypeOK
  BY DEF IInv
<1> QED
  BY Invariance, <1>1, PTL

\* No audit record leaves the table without being in the archive, whatever is
\* recorded while a tick is under way, as long as no writer lags longer than
\* the retention time.
THEOREM DeletedIsArchivedHolds == Spec => []DeletedIsArchived
<1>1. IInv => DeletedIsArchived
  BY DEF IInv
<1> QED
  BY Invariance, <1>1, PTL

\* A selected record is expired and older than every record left out.
LEMMA SelectionIsOldest ==
  ASSUME IInv, NEW i \in OldestExpired, NEW j \in table \ OldestExpired
  PROVE  Before(i, j)
<1>1. table \subseteq Ids /\ Expired \subseteq table /\ OldestExpired \subseteq Expired
  BY DEF IInv, TypeOK, Expired, OldestExpired
<1>2. /\ i \in Ids /\ j \in Ids /\ i # j /\ cutoff \in Int
      /\ \A k \in Ids : k \in Int /\ stamp[k] \in Int
  BY <1>1 DEF IInv, TypeOK
<1>3. stamp[i] < cutoff
  BY <1>1 DEF Expired
<1>4. CASE j \notin Expired
  <2>1. ~(stamp[j] < cutoff)
    BY <1>4 DEF Expired
  <2> QED
    BY <1>2, <1>3, <2>1 DEF Before
<1>5. CASE j \in Expired
  <2> DEFINE P(k) == {h \in Expired : Before(h, k)}
  <2>1. Cardinality(P(i)) < BatchSize /\ ~(Cardinality(P(j)) < BatchSize)
    BY <1>5 DEF OldestExpired
  <2>2. IsFiniteSet(Expired)
    <3>1. IsFiniteSet(1 .. MaxRecords)
      BY FS_Interval
    <3> QED
      BY <1>1, <3>1, FS_Subset
  <2>3. ASSUME Before(j, i)
        PROVE  FALSE
    <3>1. P(j) \subseteq P(i)
      <4>1. ASSUME NEW h \in Expired, Before(h, j)
            PROVE  Before(h, i)
        BY <1>1, <1>2, <2>3, <4>1 DEF Before
      <4> QED
        BY <4>1
    <3>2. IsFiniteSet(P(i)) /\ IsFiniteSet(P(j))
      <4>1. P(i) \subseteq Expired /\ P(j) \subseteq Expired
        OBVIOUS
      <4> QED
        BY <2>2, <4>1, FS_Subset
    <3>3. /\ Cardinality(P(j)) <= Cardinality(P(i))
          /\ Cardinality(P(i)) \in Nat /\ Cardinality(P(j)) \in Nat
      BY <3>1, <3>2, FS_Subset, FS_CardinalityType
    <3> HIDE DEF P
    <3> QED
      BY <2>1, <3>3
  <2>4. Before(i, j) \/ Before(j, i)
    BY <1>2 DEF Before
  <2> QED
    BY <2>3, <2>4
<1> QED
  BY <1>4, <1>5

\* The pruner shortens the log at its old end only: what it deletes is past
\* the retention time and older than everything it leaves.
THEOREM DeletesOldestExpiredHolds == Spec => DeletesOldestExpired
<1> DEFINE Step == \A i \in table \ table' :
                     /\ stamp[i] + Retention < clock
                     /\ \A j \in table' : Before(i, j)
<1>1. ASSUME IInv, [Next]_vars
      PROVE  Step
  <2>1. CASE DeleteOlderThan
    <3>1. table' = table \ OldestExpired
      BY <2>1 DEF DeleteOlderThan
    <3>2. ASSUME NEW i \in OldestExpired
          PROVE  stamp[i] + Retention < clock
      <4>1. i \in Ids /\ stamp[i] < cutoff
        BY <1>1 DEF OldestExpired, Expired, IInv, TypeOK
      <4> QED
        BY <1>1, <4>1 DEF IInv, TypeOK, CutoffPast
    <3> QED
      BY <1>1, <3>1, <3>2, SelectionIsOldest
  <2>2. CASE \E w \in Writers : Record(w)
    BY <2>2 DEF Record
  <2>3. CASE UNCHANGED table
    BY <2>3
  <2> QED
    BY <1>1, <2>1, <2>2, <2>3
    DEF Next, Prune, ReadClock, Leave, StartTick, FetchOlderThan, Archive,
        ArchiveFails, TickFails, Tick, vars, logVars
<1> QED
  BY Invariance, <1>1, PTL DEF Spec, DeletesOldestExpired
=============================================================================
