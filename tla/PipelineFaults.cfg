SPECIFICATION FairSpec
CONSTANTS
  r1 = r1
  r2 = r2
  c1 = c1
  c2 = c2
  r3 = r3
  c3 = c3
  Requests <- BothRequests
  Correlations <- ThreeIds
  Inputs <- MixedInputs
  UpstreamFailures <- FewFailures
  ActionTypes <- Types
  LlmAnswers <- FewAnswers
  RetrievedCases <- NoCases
  InitialPolicies <- SeededPolicies
  PolicyEdits <- NoEdits
  RequestEventRequired = FALSE
  MaxFaults = 2
  MaxEdits = 0
  ConfidenceThreshold = 65
  MinEvidenceCount = 2
INVARIANTS
  TypeOK
  CountCoversExecutions
  CommittedTrail
  CorrectedOncePerCorrelation
  AnswerMatchesRecord
  EvidenceNeverSuffices
PROPERTIES
  ImplementsBudget
  EveryRequestSettles
