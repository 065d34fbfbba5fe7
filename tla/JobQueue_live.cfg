SPECIFICATION FairSpec
CONSTANTS
  Clients = {c1}
  Workers = {w1}
  Keys = {k1, empty}
  NoKey = NoKey
  EmptyKey = empty
  Limit = 2
  Ops = {"enqueue", "record", "claim", "complete", "http_cancel"}
  RecordedAs = {"passed"}
  MaxSubmissions = 3
  MaxCrashes = 0
PROPERTY EveryRunEnds
