SPECIFICATION Spec
CONSTANTS
  Names <- MCNames
  Chains <- SharedChains
INVARIANT
  AwaitNeverPanics
