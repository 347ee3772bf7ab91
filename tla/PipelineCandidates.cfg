SPECIFICATION Spec
CONSTANTS
  r1 = r1
  r2 = r2
  c1 = c1
  c2 = c2
  r3 = r3
  c3 = c3
  Requests <- OneRequest
  Correlations <- ThreeIds
  Inputs <- EveryMode
  UpstreamFailures <- BodyFailures
  ActionTypes <- TypesWithHost
  LlmAnswers <- AllAnswers
  RetrievedCases <- StoredCases
  InitialPolicies <- SeededHostPolicies
  PolicyEdits <- Everywhere
  RequestEventRequired = FALSE
  MaxFaults = 1
  MaxEdits = 2
  ConfidenceThreshold = 39
  MinEvidenceCount = 2
INVARIANTS
  OnlyClearedCorrectionRuns
  CommittedTrail
