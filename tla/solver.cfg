SPECIFICATION Spec
CONSTANTS
  Inner = {1, 2, 3}
  Meets = {TRUE, FALSE}
  Directions = {TRUE, FALSE}
  Boundaries = {{}, {"x"}}
  IterationCap = 6
  Problems <- MCProblems
INVARIANTS
  UnionIsExact
  IntersectionIsSafe
  OrderDoesNotMatter
  LeastSolution
PROPERTIES
  FlowGrows
  Converges
CHECK_DEADLOCK FALSE
