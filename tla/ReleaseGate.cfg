SPECIFICATION Spec
CONSTANTS
  Threads = {t1, t2, t3}
  Nobody = Nobody
  Ops = {"freeze", "lift", "request", "decide", "publish", "verify", "deploy", "export"}
  MaxRequests = 5
  MaxCrashes = 1
SYMMETRY Symmetry
INVARIANTS OneOpenFreeze ChainIsValid ExportsContinue DecisionsMatchAudit StoppedMeansStopped
