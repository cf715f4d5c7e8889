CONSTANTS
  Runs = {r1}
  Stages = {s1, s2}
  Contents = {c1}
  NoContent = NoContent
  Timeout = 1
  MaxCandidates = 1
  MaxInFlight = 2
  Horizon = 1
  MaxStepBacks = 1
SYMMETRY Symmetry
SPECIFICATION Spec
INVARIANTS
  MailedIsStored
  AtMostOneDelivery
  OutcomeRecorded
  DispositionOnce
  OrphanRecordAccurate
PROPERTIES
  UpdatedAtMonotone
  ImplementsContract
