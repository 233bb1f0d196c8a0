SPECIFICATION Spec
CONSTANT
  Profiles <- MCProfiles
INVARIANTS
  CutMatchesPropagation
  CutsAreExact
PROPERTIES
  JoiningNeverStrengthens
CHECK_DEADLOCK FALSE
