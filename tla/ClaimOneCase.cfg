SPECIFICATION Spec
CONSTANTS
  r1 = r1
  r2 = r2
  c1 = c1
  c2 = c2
  r3 = r3
  c3 = c3
  Requests <- ThreeRequests
  Correlations <- ThreeIds
  Inputs <- ManyIdInputs
  UpstreamFailures <- OneFailure
  ActionTypes <- Types
  LlmAnswers <- GoodAnswers
  RetrievedCases <- NoCases
  InitialPolicies <- SeededPolicies
  PolicyEdits <- NoEdits
  RequestEventRequired = FALSE
  MaxFaults = 0
  MaxEdits = 0
  ConfidenceThreshold = 65
  MinEvidenceCount = 2
INVARIANTS
  OneCasePerSignature
