SPECIFICATION Spec
CONSTANTS
  Clients = {c1, c2}
  Workers = {w1, w2}
  Keys = {}
  NoKey = NoKey
  EmptyKey = empty
  Limit = 1
  Ops = {"enqueue", "claim", "complete"}
  RecordedAs = {}
  MaxSubmissions = 3
  MaxCrashes = 2
SYMMETRY Symmetry
INVARIANTS ClaimedOnce AnsweredIsDurable OvershootBounded
