SPECIFICATION Spec
CONSTANTS
  c1 = c1
  c2 = c2
  Clients = {c1, c2}
  Placeholders <- MCPlaceholders
  Templates <- MCTemplates
  Operations <- MCOperations
  Contract <- MCContract
  Jobs <- MCJobs
  NoPointer = {"state"}
  SensitiveFields = {"secret", "token"}
  MaxEntries = 3
  RateLimitAfter = 6
  MaxFaults = 1
INVARIANTS
  NoPlaceholderIsSent LeftoversAreExplained SharedIdMeansOverlap CorpusTellsTheRun
CHECK_DEADLOCK FALSE
