SPECIFICATION FairSpec
CONSTANTS
  Names <- MCNames
  Chains <- MCChains
INVARIANTS
  TypeOK
  AwaitedFirst
  NotFoundHonest
  FailClosed
  ResponseIsProxys
  PanicNeedsSharedAwait
  IsolatedWhenAwaited
PROPERTIES
  KeepsChainPromise
  LeavesNothingBehind
