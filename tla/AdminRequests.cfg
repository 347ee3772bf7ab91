SPECIFICATION Spec
CONSTANTS
  t1 = t1
  t2 = t2
  t3 = t3
  seed = seed
  run = run
  candidate = candidate
  Tasks <- ThreeTasks
  OldRows <- TwoRows
  InitialRows <- OneOfEach
  KnownCandidates <- OneCandidate
  Names <- SomeNames
  Jobs <- SomeJobs
INVARIANTS
  TypeOK
  LookupsAreUnambiguous
  UnracedRowsAreAnswered
  PatchesCompose
  EvaluationIsWhole
