\* An identity's life may end at any time: nobody has to propose.
SPECIFICATION Spec
CONSTANTS
  Rounds <- ThreeRounds
  Rivals <- Few
  MaxFaults = 1
INVARIANTS
  PastIsKept
  TrustIsEarned
  CoreIsGoverned
  
  LabelsAgree
CHECK_DEADLOCK FALSE
