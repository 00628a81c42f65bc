SPECIFICATION FairSpec
CONSTANTS
  Clients = {c1}
  Resources <- MCResources
  MaxSaid = 2
  MaxBackSaid = 1
  MaxBreaks = 2
  ReadLimit = 2
INVARIANTS
  TypeOK
  NoLossWithoutBreak
  FewOrphans
  CrashOnlyAfterFailure
PROPERTIES
  SessionsArePipes
  ReadsAgain
  PumpFollowsClient
