SPECIFICATION DFairSpec
CONSTANTS
  Calls = {c1, c2}
  Workers = {w1}
  HttpCallbacks = {FALSE}
  Filters = {f1, f2}
  Contents = {"ok", "malformed", "lost"}
  MaxEarly = 1
INVARIANTS
  DTypeOK
  LetsThrough
  NobodyBlocks
  SettledMeansDone
  LateOnly
PROPERTIES
  AnswersSettle
