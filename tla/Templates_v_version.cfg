CONSTANTS
  Templates = {t1}
  t1 = t1
  Contents = {c1, c2}
  c1 = c1
  c2 = c2
  NoContent = NoContent
  Editors = {e1, e2}
  e1 = e1
  e2 = e2
  Starter = Starter
  MaxVersion = 2
SPECIFICATION Spec
SYMMETRY Interchangeable
INVARIANTS
  VersionNamesOneTemplate
