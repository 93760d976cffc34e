CONSTANTS
  Kea = kea
  Workers = {w1, w2}
  Handles = {h1}
  Names = {n1, n2}
  Careless = {"rebind"}
  NoThread = NoThread
  NoHandle = NoHandle
SPECIFICATION Spec
INVARIANTS PythonHasGil
SYMMETRY Symmetry
