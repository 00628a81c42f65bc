SPECIFICATION FairSpec
CONSTANTS
  Calls = {c1, c2}
  Workers = {w1, w2}
  HttpCallbacks = {TRUE, FALSE}
INVARIANTS
  TypeOK
  LetsThrough
  CallbacksOnce
  CrashOnlyLate
PROPERTIES
  CallEnds
  CallbacksFollow
