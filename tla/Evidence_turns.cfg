CONSTANTS
  h1 = h1
  h2 = h2
  r1 = r1
  r2 = r2
  s1 = s1
  Hosts = {h1, h2}
  NoHost = NoHost
  Rows = {r1, r2}
  Subjects = {s1}
  Readings = {1}
  CurrentOnly = {}
  WindowPolicy = "standard"
  RetryAttempts = 2
  ToolError = ToolError
  Unanswered = Unanswered
  Scans <- MCScans
  ScansPlanned = 2
  Proposals <- MCProposals
  LongTexts = {"a long question"}
  Answers <- MCAnswers
  UnusableProposals = 1
  Citations = 1
  MaxToolCalls = 2
  MaxIterations = 2
  MaxRoutingAttempts = 1
  BatchCapacity = 2
  EvidenceCapacity = 2
  UnknownsCapacity = 4
  FactsCapacity = 1
SPECIFICATION LiveSpec
INVARIANTS
  TypeOK
  AllowedIsCalled
  ServedBounded
  EvidenceStands
  LossesAdmitted
PROPERTIES
  FiledUnderItsHost
  ImplementsLoop
  CollectionEnds
