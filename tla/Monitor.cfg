SPECIFICATION Spec
CONSTANTS
  Processes = {p1, p2}
  Operations = {op1, op2}
  Rules = {r1, r2}
  Unreachable = Unreachable
  Missing = Missing
  Torn = Torn
  MaxRuns = 3
SYMMETRY Symmetry
INVARIANTS  ReportsAddUp
