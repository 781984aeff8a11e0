\* Two processes, one session in the v1 file, one death, one damaged file.
SPECIFICATION Spec
CONSTANTS
  p = p
  q = q
  m1 = m1
  n1 = n1
  Nobody = Nobody
  Reading = Reading
  Looking = Looking
  Managing = Managing
  Process = {p, q}
  Name = {m1, n1}
  LegacyName = {m1}
  MaxManaged = 2
  MaxDeaths = 1
  MaxTampers = 1
INVARIANTS
  ChangesKept
  LegacyArrives
SYMMETRY Alike
CHECK_DEADLOCK FALSE
