CONSTANTS
  Names = {n1, n2}
  Values = {v1, v2}
  Servers = {"kea", "kea2"}
  MaxElems = 2
  None = None
  Malformed = Malformed
  TagLists <- MCTagLists
SPECIFICATION Spec
INVARIANTS TypeOK SetWritesPrefix AnswersWhatIsStored DeleteCountsGone
