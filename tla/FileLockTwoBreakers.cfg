SPECIFICATION Spec
CONSTANTS
  Thread = {a, b, c}
  Process = {p, q}
  processOf <- ProcessOf
  Retries = 1
  Absent = Absent
  a = a
  b = b
  c = c
  p = p
  q = q
INVARIANT Exclusive
CHECK_DEADLOCK FALSE
