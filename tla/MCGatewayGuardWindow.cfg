SPECIFICATION MCGuardSpec
CONSTANTS
  d1 = d1
  d2 = d2
  NoRequest = NoRequest
  NoSample = NoSample
  NoCall = NoCall
  Dispatches <- MCDispatches
  Requests <- MCRequests
  Principals <- MCPrincipals
  Actions <- MCActions
  ScopeItems <- MCScopeItems
  Views <- MCViews
  PolicyEpochs <- MCPolicyEpochs
  MaxTime = 1
  MaxMoves = 2
  SkipGuards = FALSE
  Templates <- MCTemplates
  Attestations <- MCAttestations
  ChecksSignature = TRUE
  Admissions <- MCAdmissions
  Policy <- MCPolicy
  MaxTtl = 3
  LateGrants = FALSE
PROPERTIES
  GuardsHoldAtExecution
CHECK_DEADLOCK FALSE
