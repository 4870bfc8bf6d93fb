\* Two workers, with and without Redis: stamps that reach Redis out of order,
\* failing pipelines, a window that slides past the first calls.
SPECIFICATION Spec
CONSTANTS
  None = None
  Workers = {w1, w2}
  Ips = {i1, i2}
  Calls = {c1, c2, c3, c4}
  Max = 2
  Window = 3
  MaxTime = 4
  MaxFaults = 1
SYMMETRY Symmetry
INVARIANT TypeOK MemoryWindow RedisWindow RefusedOverRate MemoryRefusesAdmitted
CHECK_DEADLOCK FALSE
