CONSTANTS
  Workers = {w1, w2}
  Modules = {m1, m2}
  None = None
  MaxDeploys = 2
  Wipes = TRUE
SPECIFICATION Spec
SYMMETRY Interchangeable
INVARIANTS LoadedIsIndexed  
