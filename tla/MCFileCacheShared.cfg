CONSTANTS
  k1 = k1  k2 = k2  d1 = d1  p1 = p1  p2 = p2
  Keys = {k1, k2}
  Values = {v1, v2}
  Exportable = {v1}
  Ttls <- ZeroSeconds
  NoTtl = NoTtl
  Absent = Absent
  MaxClock = 0
  Procs = {p1, p2}
  Dirs = {d1}
  dirOf <- SharedShard
  SysTmp = SysTmp
  NoTmp = NoTmp
  Torn = Torn
  Faults = {"mkdir", "put", "rename", "unlink"}
  ThrowOnNotice = TRUE
  TextFiles = TRUE
  SameDevice = FALSE
SPECIFICATION Spec
SYMMETRY Workers
INVARIANTS NoTornEntry 
PROPERTIES KeepsPromise
