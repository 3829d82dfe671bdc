SPECIFICATION Spec
CONSTANTS
  Mains = {m1, m2}
  Related = {x1, x2}
  m1 = m1
  m2 = m2
  x1 = x1
  x2 = x2
  Null = Null
  Descriptors <- MCOneMany
INVARIANTS OwnRelatedOnly
\* One query is answered.
CHECK_DEADLOCK FALSE
