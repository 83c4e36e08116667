CONSTANTS
  k1 = k1  k2 = k2  d1 = d1  p1 = p1  p2 = p2
  Keys = {k1}
  Values = {v1}
  Exportable = {v1}
  Ttls <- OneSecond
  NoTtl = NoTtl
  Absent = Absent
  MaxClock = 2
  Procs = {p1, p2}
  Dirs = {d1}
  dirOf <- OneKey
  SysTmp = SysTmp
  NoTmp = NoTmp
  Torn = Torn
  Faults = {}
  ThrowOnNotice = FALSE
  TextFiles = TRUE
  SameDevice = FALSE
SPECIFICATION FairSpec
INVARIANTS NothingLost
PROPERTIES CallsReturn
