CONSTANTS
  MaxIterations = 3
  MaxToolCalls = 5
  MaxRoutingAttempts = 2
  HostSearchTurns = 2
  HostsFound = 3
  ScansPlanned = 3
  NewHypotheses = 1
  BatchCapacity = 2
  HostCapacity = 2
  HypothesisCapacity = 2
  RejectionCapacity = 5
  IterationCapacity = 5
SPECIFICATION Spec
INVARIANTS
  TypeOK
  OutOfStepsMeansOverrun
  EndsExplained
  RetryKnowsWhy
PROPERTIES
  StopIsFinal
  ImplementsLoop
