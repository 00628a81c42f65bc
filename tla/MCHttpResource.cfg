SPECIFICATION FairSpec
CONSTANTS
  Requests = {r1, r2}
  Bodies = {"b1", "b2"}
  Template = {"body"}
  Names = {"c", "q", "s"}
  Configs <- MCConfigs
INVARIANTS
  TypeOK
  EntryVetted
  HitVetted
  BackendGated
  OpaFirst
  DenialHolds
PROPERTIES
  EachKeepsChainPromise
  Answered
