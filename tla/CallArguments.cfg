CONSTANTS
  Base = 2
  Objects <- MCObjects
  JSON <- MCJSON
  Depth <- MCDepth
  MaxDepth = 2
  Numbers <- MCNumbers
  Strings <- MCStrings
  Blobs <- MCBlobs
  KeaElements <- MCKeaElements
  KeaStrings <- MCKeaStrings
SPECIFICATION Spec
INVARIANTS TypeOK ReadsBack RefusedChangesNothing ErrorsReachKea
