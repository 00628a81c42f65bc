SPECIFICATION Spec
CONSTANTS
  Names <- MCNames
  Chains <- ConfiguredChains
INVARIANT
  SettingsHonoured
