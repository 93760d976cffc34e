CONSTANTS
  Kea = kea
  Workers = {w1, w2}
  Handles = {h1}
  Names = {n1, n2}
  Careless = {}
  NoThread = NoThread
  NoHandle = NoHandle
SPECIFICATION FairSpec
INVARIANTS TypeOK PythonHasGil KeaLeavesPython NoSelfDeadlock
PROPERTIES KeaGetsBack WorkersRun OneThreadInPython
