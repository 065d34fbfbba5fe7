SPECIFICATION Spec
CONSTANTS
  Clients = {c1, c2}
  Workers = {w1}
  Keys = {k1}
  NoKey = NoKey
  EmptyKey = empty
  Limit = 2
  Ops = {"enqueue", "claim", "complete", "cancel", "stream"}
  RecordedAs = {}
  MaxSubmissions = 2
  MaxCrashes = 0
SYMMETRY Symmetry
INVARIANTS SameKeySameRun HistoryIsTold
PROPERTY ImplementsRunPhases
