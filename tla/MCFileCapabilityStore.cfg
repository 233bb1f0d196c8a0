SPECIFICATION Spec
CONSTANTS
  c1 = c1
  c2 = c2
  c3 = c3
  c4 = c4
  n1 = n1
  n2 = n2
  p1 = p1
  p2 = p2
  NoCall = NoCall
  Calls <- MCCalls
  Nonces <- MCNonces
  NonceOf <- MCNonceOf
  Processes <- MCProcesses
  ProcessOf <- MCProcessOf
INVARIANTS
  TypeOK
  SingleWinner
  WinnerIsDurable
PROPERTIES
  ImplementsOneShot
  ReuseOnlyUnwon
