SPECIFICATION Spec
CONSTANTS
  t1 = t1
  t2 = t2
  t3 = t3
  t4 = t4
  proposed = proposed
  validated = validated
  f1 = f1
  x1 = x1
  x2 = x2
  Tasks <- FourTasks
  OldCases <- TwoCases
  Failures <- OneFailure
  Contexts <- TwoContexts
  InitialRows <- SeededRows
  Jobs <- AllJobs
  NewConfidence = 700
  ValidatedSuccessThreshold = 2
  EstablishedSuccessThreshold = 5
INVARIANTS
  TypeOK
  EvidenceIsReal
  PromotionIsEarned
  UnracedCaseIsExact
SYMMETRY Symmetry
