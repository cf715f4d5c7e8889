SPECIFICATION FairSpec
CONSTANTS
  u1 = u1
  u2 = u2
  sender = sender
  p1 = p1
  Subscribers <- MCSubscribers
  Admins <- MCAdmins
  Sender = sender
  Resends <- MCResends
  MaxRetries = 1
  Codes <- MCCodes
INVARIANTS
  CopiesAccounted
  AuditMatchesRelay
  RecipientsCurrent
  OutcomeComesFirst
PROPERTY EveryJobEnds
CHECK_DEADLOCK FALSE
