---------------------------- MODULE AuditArchive ----------------------------
(***************************************************************************)
(* The audit log, its retention pruner and the archive, with an archive    *)
(* directory configured.                                                   *)
(*                                                                         *)
(* A use case reads the clock once and stamps its records with that        *)
(* reading; the records reach the table later, when the use case holds the *)
(* lock.  The pruner's tick is a fetch, a file write in a thread and a     *)
(* delete, and everyone else runs between these.                           *)
(***************************************************************************)
EXTENDS Integers, FiniteSets

CONSTANTS Writers,     \* use cases that record events
          MaxRecords,  \* bound: records ever written
          BatchSize,   \* cleanup_batch_size
          Retention,   \* retention_days, in ticks
          MaxLag,      \* longest time from a reading to the last record it stamps
          Horizon      \* bound: no clock reading after this one is recorded

ASSUME SizesAssumption ==
  MaxRecords \in Nat /\ BatchSize \in Nat \ {0} /\ Horizon \in Nat

\* No use case holds a clock reading for longer than the retention time,
\* which is at least a day.
ASSUME LagAssumption ==
  Retention \in Nat \ {0} /\ MaxLag \in Nat \ {0} /\ MaxLag <= Retention

VARIABLES
  clock,
  writer,    \* writer[w]: the reading w stamps its records with, or Null
  count,     \* records ever inserted; audit_id is 1 .. count
  stamp,     \* stamp[i]: the timestamp column
  table,     \* records in audit_log
  archive,   \* records whose line is in an archive file
  phase,     \* where the pruner's tick is
  cutoff,    \* its cutoff
  batch      \* expired

logVars == <<writer, count, stamp, table>>
tickVars == <<phase, cutoff, batch>>
vars == <<clock, logVars, archive, tickVars>>

Null == -1
Ids == 1 .. MaxRecords
MaxTime == Horizon + Retention + 1
Phases == {"idle", "fetching", "archiving", "deleting"}

TypeOK ==
  /\ clock \in 0 .. MaxTime
  /\ writer \in [Writers -> 0 .. MaxTime \cup {Null}]
  /\ count \in 0 .. MaxRecords
  /\ stamp \in [Ids -> 0 .. MaxTime]
  /\ table \in SUBSET (1 .. count)
  /\ archive \in SUBSET (1 .. count)
  /\ phase \in Phases
  /\ cutoff \in -Retention .. MaxTime
  /\ batch \in SUBSET Ids

Init ==
  /\ clock = 0
  /\ writer = [w \in Writers |-> Null]
  /\ count = 0 /\ stamp = [i \in Ids |-> 0] /\ table = {}
  /\ archive = {}
  /\ phase = "idle" /\ cutoff = -Retention /\ batch = {}

-----------------------------------------------------------------------------
(* The log.                                                                *)

\* A use case reads the clock.
ReadClock(w) ==
  /\ writer[w] = Null
  /\ clock <= Horizon
  /\ writer' = [writer EXCEPT ![w] = clock]
  /\ UNCHANGED <<clock, count, stamp, table, archive, tickVars>>

\* record, committed.  A tick or a task may record more under one reading.
Record(w) ==
  /\ writer[w] # Null
  /\ count < MaxRecords
  /\ count' = count + 1
  /\ stamp' = [stamp EXCEPT ![count'] = writer[w]]
  /\ table' = table \cup {count'}
  /\ UNCHANGED <<clock, writer, archive, tickVars>>

\* The use case is over, however it ended.
Leave(w) ==
  /\ writer[w] # Null
  /\ writer' = [writer EXCEPT ![w] = Null]
  /\ UNCHANGED <<clock, count, stamp, table, archive, tickVars>>

\* ORDER BY timestamp ASC, audit_id ASC
Before(i, j) == stamp[i] < stamp[j] \/ (stamp[i] = stamp[j] /\ i < j)

\* Mutant of Expired: the boundary is a tick too early.
ExpiredEarly == {i \in table : stamp[i] < cutoff - 1}

\* WHERE timestamp < cutoff
Expired == {i \in table : stamp[i] < cutoff}

\* Mutant of OldestExpired: the table's order is taken for the order of time.
OldestExpiredById ==
  {i \in Expired : Cardinality({j \in Expired : j < i}) < BatchSize}

\* ... LIMIT batch_size.  The fetch and the delete share this selection.
OldestExpired ==
  {i \in Expired : Cardinality({j \in Expired : Before(j, i)}) < BatchSize}

-----------------------------------------------------------------------------
(* run_once.                                                               *)

\* Each attempt may fail while the clock still runs.
MayFail == clock < MaxTime

\* The clock is read once, for the fetch and the delete.
StartTick ==
  /\ phase = "idle"
  /\ cutoff' = clock - Retention
  /\ phase' = "fetching"
  /\ UNCHANGED <<clock, logVars, archive, batch>>

\* fetch_older_than in a unit of work of its own.
FetchOlderThan ==
  /\ phase = "fetching"
  /\ batch' = OldestExpired
  /\ phase' = IF batch' = {} THEN "deleting" ELSE "archiving"
  /\ UNCHANGED <<clock, logVars, archive, cutoff>>

\* The thread has written and synced every line.
Archive ==
  /\ phase = "archiving"
  /\ archive' = archive \cup batch
  /\ phase' = "deleting"
  /\ UNCHANGED <<clock, logVars, cutoff, batch>>

\* Mutant of ArchiveFails: the error is logged and the tick goes on.
ArchiveFailsGoesOn ==
  /\ MayFail
  /\ phase = "archiving"
  /\ \E written \in SUBSET batch : archive' = archive \cup written
  /\ phase' = "deleting"
  /\ UNCHANGED <<clock, logVars, cutoff, batch>>

\* OSError, or the process dies during the write: some lines were written,
\* and nothing is deleted in this tick.
ArchiveFails ==
  /\ MayFail
  /\ phase = "archiving"
  /\ \E written \in SUBSET batch : archive' = archive \cup written
  /\ phase' = "idle" /\ batch' = {}
  /\ UNCHANGED <<clock, logVars, cutoff>>

\* delete_older_than in a unit of work of its own.
DeleteOlderThan ==
  /\ phase = "deleting"
  /\ table' = table \ OldestExpired
  /\ phase' = "idle" /\ batch' = {}
  /\ UNCHANGED <<clock, writer, count, stamp, archive, cutoff>>

\* A unit of work of the tick fails or the process dies: the tick is over, and
\* the loop starts another.
TickFails ==
  /\ MayFail
  /\ phase \in {"fetching", "deleting"}
  /\ phase' = "idle" /\ batch' = {}
  /\ UNCHANGED <<clock, logVars, archive, cutoff>>

\* Time passes; no reading grows older than MaxLag.
Tick ==
  /\ clock < MaxTime
  /\ \A w \in Writers : writer[w] # Null => clock - writer[w] < MaxLag
  /\ clock' = clock + 1
  /\ UNCHANGED <<logVars, archive, tickVars>>

Prune == StartTick \/ FetchOlderThan \/ Archive \/ DeleteOlderThan

Next ==
  \/ \E w \in Writers : ReadClock(w) \/ Record(w) \/ Leave(w)
  \/ Prune
  \/ ArchiveFails
  \/ TickFails
  \/ Tick

Spec == Init /\ [][Next]_vars

\* Time passes, the loop runs tick after tick, and use cases end.
FairSpec ==
  /\ Spec
  /\ WF_vars(Tick)
  /\ WF_vars(Prune)
  /\ \A w \in Writers : WF_vars(Leave(w))

-----------------------------------------------------------------------------
(* Properties.                                                             *)

\* No audit record is lost: whatever is recorded between the fetch and the
\* delete, and wherever a tick fails, a record that has left the table is in
\* the archive.
DeletedIsArchived == 1 .. count \ table \subseteq archive

\* The log is shortened at its old end only: a record is deleted past its
\* retention time, and none that is older stays behind.
DeletesOldestExpired ==
  [][\A i \in table \ table' :
       /\ stamp[i] + Retention < clock
       /\ \A j \in table' : Before(i, j)]_vars

\* The log does not grow for ever: every record leaves the table once its
\* retention time is over, although writes to the archive fail.
EveryRecordExpires == \A i \in Ids : i \in table ~> i \notin table
=============================================================================
