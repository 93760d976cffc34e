CONSTANTS
  HookOrder <- MCHookOrder
  Commands = {"lease4-add", "lease4-del"}
  Handlers = {f1, f2}
  Closures = {c1, c2, c3}
  Distinct = TRUE
  MayStayMapped = FALSE
  NoClosure = NoClosure
  NoCallout = NoCallout
SPECIFICATION LifecycleSpec
INVARIANTS LifecycleTypeOK CalloutsIntact ClosuresOwned UnloadCallsLivePython LoadedIsComplete NothingLeft
PROPERTIES KeepsPromise LoadSettles
