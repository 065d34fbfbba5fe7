SPECIFICATION Spec
CONSTANTS
  None = None
  Sequential = {"lines"}
  Matches <- MCMatches
  Starts <- MCStarts
  Payloads <- MCPayloads
  MaxEdits = 2
INVARIANTS LossIsReported OneEditOneFinding SilenceMeansEqual
CHECK_DEADLOCK FALSE
