SPECIFICATION FairSpec
CONSTANTS
  Files = {f1, f2}
  MaxEdits = 2
INVARIANT SettledIsWhole
PROPERTIES EveryEditIsRun ComesToRest
CHECK_DEADLOCK FALSE
