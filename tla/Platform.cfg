CONSTANTS
  d1 = d1
  d2 = d2
  d3 = d3
  d4 = d4
  i1 = i1
  i2 = i2
  q1 = q1
  q2 = q2
  m1 = m1
  m2 = m2
  w1 = w1
  w2 = w2
  x1 = x1
SPECIFICATION Spec
INVARIANTS TypeOK NothingIsLost NothingIsRepeated RecordsAreHonest
PROPERTIES NothingUnasked
CHECK_DEADLOCK FALSE
SYMMETRY Symmetry
