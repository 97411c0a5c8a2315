CONSTANTS
  e1 = e1
  e2 = e2
  o1 = o1
  m1 = m1
  m2 = m2
  m3 = m3
  Events = {e1, e2}
  Others = {o1}
  Sections <- MCSections
  Packages <- MCPackages
  Templates <- MCTemplates
  Drafts <- MCDrafts
  EventText <- MCEventText
  NoText = NoText
  ReconcileLimit = 1
  FindingsCapacity = 2
  Marks = {m1, m2, m3}
  Praise = {m3}
  MaxEvents <- MCMaxEvents
  Deliveries <- MCDeliveries
SPECIFICATION Spec
INVARIANTS
  TypeOK
  EventsMentioned
  SilenceRecorded
  AskedOnce
  VerdictsMirror
