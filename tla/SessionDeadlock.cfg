SPECIFICATION FairSpec
CONSTANTS
  Emails = {"ann"}
  FirstAccounts = {"ann"}
  FirstAdmins = {"ann"}
  ConfiguredAdmin = "ann"
  Requests = {r1, r2}
  Calls <- MCReturningCalls
  IdleTimeout = 1
  MaxTime = 1
  MaxRestarts = 0
  Pipelines = {"pipe"}
  Tags = {"tag"}
PROPERTY EveryRequestAnswered
CHECK_DEADLOCK FALSE
