SPECIFICATION Spec
CONSTANTS
  Clients = {c1}
  Workers = {w1}
  Keys = {k1}
  NoKey = NoKey
  EmptyKey = empty
  Limit = 1
  Ops = {"enqueue", "cancel"}
  RecordedAs = {}
  MaxSubmissions = 2
  MaxCrashes = 0
INVARIANT CreatedIsNew
