SPECIFICATION Spec
CONSTANTS
  Names <- MCNames
  Chains <- IsolationChains
INVARIANT
  ParallelIsolated
