CONSTANTS
  Kea = kea
  Workers = {w1, w2}
  Handles = {h1}
  Names = {n1, n2}
  Careless = {"throw"}
  NoThread = NoThread
  NoHandle = NoHandle
SPECIFICATION Spec
INVARIANTS KeaLeavesPython
SYMMETRY Symmetry
