SPECIFICATION Spec
CONSTANTS
  Inputs <- ShortDifferences
CHECK_DEADLOCK FALSE
INVARIANTS
  DifferencesAreSigned
