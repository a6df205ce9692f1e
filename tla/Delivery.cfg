SPECIFICATION Spec
CONSTANTS
  Nil = Nil
  Strings <- MCStrings
  HeaderNames = {"X-A", "x-a", "Content-Type", "User-Agent", "Authorization"}
  Ports = {80}
  AppEnginePaths <- MCAppEnginePaths
  JSONPaths <- MCJSONPaths
  Canonical <- MCCanonical
  Hostname <- MCHostname
  DefaultHost = ""
  MaxHTTPBody = 2
  MaxAppEngineBody = 2
  MinDeadline = 15
  MaxHTTPDeadline = 30
  MaxAppEngineDeadline = 40
  QueueNames = {"q1", "q2"}
  InitialQueues = {"q1"}
  Fresh <- MCFresh
  Masks <- MCMasks
  Queries <- MCQueries
  TaskMessages <- MCTaskMessages
  TaskIds = {1}
  DefaultRate = 500
  DefaultAttempts = 100
  MaxUpdates = 2
INVARIANTS FieldsAsWritten OverridePrecedence RequestsSound
PROPERTIES QueueRoundTrips TaskRoundTrips UpdatesStayInScope
CHECK_DEADLOCK FALSE
