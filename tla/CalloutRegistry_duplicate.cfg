CONSTANTS
  HookOrder <- MCHookOrder
  Commands = {"lease4-add", "lease4-del"}
  Handlers = {f1, f2}
  Closures = {c1, c2, c3}
  Distinct = FALSE
  NoClosure = NoClosure
  NoCallout = NoCallout
  f1 = f1
  f2 = f2
  c1 = c1
  c2 = c2
  c3 = c3
SPECIFICATION Spec
SYMMETRY Symmetry
INVARIANTS CalloutsIntact
