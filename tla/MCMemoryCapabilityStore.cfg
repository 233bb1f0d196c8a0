SPECIFICATION FairSpec
CONSTANTS
  c1 = c1
  c2 = c2
  c3 = c3
  c4 = c4
  n1 = n1
  n2 = n2
  NoCall = NoCall
  Calls <- MCCalls
  Nonces <- MCNonces
  NonceOf <- MCNonceOf
  MaxResets = 2
INVARIANTS
  TypeOK
  LockExclusion
  SingleWinner
PROPERTIES
  ImplementsOneShot
  EveryConsumeReturns
  UsedStaysUsed
\* Finitely many calls: the store is quiescent when all have returned.
CHECK_DEADLOCK FALSE
