CONSTANTS
  q1 = q1
  q2 = q2
  q3 = q3
  Requests = {q1}
  NoRequest = NoRequest
  NoTs = NoTs
  Workers = {w1, w2}
  ReplyTo <- MCReplyTo
  MaxAttempts = 2
  MaxFaults = 2
  MaxInflight = 1
  FaultKinds = {"throw", "landed", "announce", "db", "crash", "lapse"}
SPECIFICATION Spec
SYMMETRY WorkerSymmetry
INVARIANTS
  TypeOK
  RecordedMeansShown
  NothingPublishedUnaudited
  OneDeliveryAtATime
  FailedIsFinal
  ReportRowIffCompleted
  SilenceNeedsFault
PROPERTIES
  SettledIsFinal
  NoRepeatAfterRecord
  AnchorIsStable
