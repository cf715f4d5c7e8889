SPECIFICATION Spec
CONSTANTS
  Emails = {"ann", "bob", "eve"}
  FirstAccounts = {"ann", "bob"}
  FirstAdmins = {"ann"}
  ConfiguredAdmin = "ann"
  Requests = {r1, r2, r3}
  Calls <- MCCalls
  IdleTimeout = 1
  MaxTime = 1
  MaxRestarts = 1
  Pipelines = {"pipe"}
  Tags = {"tag"}
INVARIANTS
  SessionsAreCurrent
  AdministratorRemains
  RoutingFollowsAudit
  OnlyAdministratorsAct
ACTION_CONSTRAINT MCOpening
SYMMETRY MCSymmetry
CHECK_DEADLOCK FALSE
