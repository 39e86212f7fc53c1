SPECIFICATION Spec
CONSTANTS
  d1 = d1
  d2 = d2
  w1 = w1
  w2 = w2
  Docs = {d1, d2}
  Windows = {w1, w2}
  WindowOf <- MCWindowOf
  Order <- MCOrder
  Requests = {r1}
  MaxEdits = 2
  MaxMishaps = 1
INVARIANTS TypeOK UnsavedIsScheduled  NothingHangs
 
CHECK_DEADLOCK FALSE
