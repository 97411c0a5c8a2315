CONSTANTS
  q1 = q1
  q2 = q2
  q3 = q3
  Requests = {q1, q2, q3}
  NoRequest = NoRequest
  NoTs = NoTs
  Workers = {w1}
  ReplyTo <- MCReplyTo
  MaxAttempts = 1
  MaxFaults = 0
  MaxInflight = 2
  FaultKinds = {"landed"}
SPECIFICATION Spec
INVARIANTS
  ContinuationAnswersAsked
  OneThread
PROPERTIES
  ImplementsLifecycle
