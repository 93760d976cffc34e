SPECIFICATION Spec
CONSTANTS
  Subnets = {s1, s2}
  Configs = {c1, c2, c3}
  Objects = {o1, o2, o3}
  Ids = {1, 2}
  Tags = {"all"}
  MaxHeld = 2
  ConstSelect = TRUE
  PassesConst = FALSE
SYMMETRY Interchangeable
INVARIANTS TypeOK NoDangling NoLeak
