SPECIFICATION TemplatesSpec
CONSTANTS
  r1 = r1
  p1 = p1
  p2 = p2
  Runs = {r1}
  StageIds = {0, 1, 2, 3}
  NoPath = {3}
  Names <- MCNames
  Versions <- MCVersions
  Rank <- MCRank
  Contexts <- MCContexts
  Size <- MCSize
  Grown <- MCGrown
  NonFinite = {"infinite"}
  OffSchema = {"odd"}
  Undefined = {"odd"}
  Crashing = {"dividing"}
  Blank = {"plain"}
  MaxContext = 3
  MaxRendered = 3
  Pipelines = {p1, p2}
  Tags = {"nightly", "Nightly!"}
  DefaultBody <- MCDefaultBody
  Overrides <- MCOverrides
  Files <- MCFiles
  Edits <- MCEdits
  BeginRequests <- MCBeginRequests
  Submissions <- MCSubmissions
INVARIANTS
  PinsAreFrozen
  LastSubmissionShown
  ResendShowsTheSame
  AnswersAreTruthful
PROPERTY StrandingExplained
CHECK_DEADLOCK FALSE
