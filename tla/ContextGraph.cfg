SPECIFICATION MCSpec
CONSTANTS
  b1 = b1
  b2 = b2
  p1 = p1
  p2 = p2
  p3 = p3
  f1 = f1
  i1 = i1
  Builders <- TheBuilders
  Contexts <- SomeContexts
  FullRuns = {f1}
  IncrementalRuns = {i1}
  MaxDepth = 1
  MaxNodes = 3
  Distance <- SomeDistances
  MaxDistance = 2
  Limit = 1
SYMMETRY BuilderSymmetry
INVARIANTS
  TypeOK
  QueryTypeOK
  OneRowPerKey
  CommittedContextIsWhole
  RunsCoverTheirNodes
  StaleOnlyByOverlap
  NeighborhoodIsExact
  SearchIsExact
