SPECIFICATION FairSpec
CONSTANTS
  Uris = {u1, u2}
  Texts = {a, b}
  NoText = NoText
  Raising = {b}
  MaxMessages = 5
INVARIANT QuietMeansCurrent
PROPERTY EveryTextIsAnswered
CHECK_DEADLOCK FALSE
