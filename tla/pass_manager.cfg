SPECIFICATION ManagedSpec
CONSTANTS
  Graphs <- MCGraphs
  Origins <- MCOrigins
  Passes <- MCPasses
  Pipelines <- MCPipelines
  Kinds <- MCKinds
  Asks <- MCAsks
  Facts <- MCFacts
  Apply <- MCApply
  PreservesCFG <- MCPreservesCFG
  SweepCap = 4
INVARIANTS
  CachesFresh
  SettledIsFixed
PROPERTIES
  ImplementsPipeline
  Terminates
CHECK_DEADLOCK FALSE
