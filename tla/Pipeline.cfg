SPECIFICATION PipelineSpec
CONSTANTS
  None = None
  Unparseable = Unparseable
  NotADate = NotADate
  Sequential = {}
  LocalServers = {}
  Matches <- MCMatching
  Matching <- MCMatching
  Validates <- Valid
  Protocols = {"openapi", "graphql", "grpc", "mcp"}
  Revisions <- MCRevisions
  Bases <- MCBases
  Projects <- MCProjects
  Writable <- MCWritable
  Calls <- MCCalls
  MaxSteps = 4
  Paths = {1, 2, 3}
  Teams = {"a", "b"}
  Unowned = "unowned"
  Contents <- MCContents
  BaseTree <- MCBaseTree
  RuleSets <- MCRuleSets
  Limit = 2
  MaxEdits = 2
  Manifests <- MCManifests
  Surfaces <- MCSurfaces
  Servers <- MCServers
  Grades <- MCGrades
  Replies <- MCReplies
  Asks <- MCAsks
  MaxPages = 2
  MaxDeploys = 2
  MaxJobs = 2
  Var = Var
  JsonTypes = {"json"}
  Wildcards <- MCWildcards
  SafeMethods = {"GET"}
  ValueCap = 2
  Runners = {"nightly", "release"}
  Ops <- MCOps
  Was <- MCWas
  Corpora <- MCCorpora
  Behaviours <- MCBehaviours
  Files = {"main"}
  Commands <- MCCommands
  Budgets <- MCBudgets
  Statuses = {None, 200, 405}
  MaxRuns = 3
  MaxRollouts = 1
  Contracts <- MCContractsMeasured
  Targets <- MCTargets
  Older <- MCOlder
  Tolerances <- MCTolerances
  Policies <- MCPolicies
  Warmup = 1
  Profiles <- MCProfiles
  PoolSize = 2
  TicksPerSlot = 2
  MaxBurst = 2
  MaxClock = 6
  MaxCommands = 2
  Interfaces <- MCInterfaces
  Services <- MCServices
  Runs <- MCRuns
  Secrets = {"secret"}
  MaxPairs = 60
  MaxMinimized = 10
  OutagesAfter = {0, 4}
  Collections <- MCCollections
  Functions <- MCFunctions
  DefaultScopes = {"read"}
  Holdings = {None, {}, {"read"}}
  Guards <- MCGuards
  Disks <- MCDisks
  Walked <- MCWalked
  Redone <- MCRedone
  MaxFiles = 4
  MaxRemote = 1
  MaxDepth = 3
  MaxSaves = 1
INVARIANTS AdviceHolds MissingIsTrueOrUnstable LockedMeansReviewed PassIsEarned DeadIsNeverGreen LoadIsAsAsked VerdictIsEarned ReferencesAreKept
PROPERTIES ReleasesAreVouchedFor FailureIsFollowed
CHECK_DEADLOCK FALSE
