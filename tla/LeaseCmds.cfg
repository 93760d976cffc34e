CONSTANTS
  Addrs = {1, 2, 3}
  Subnets = {5, 6}
  SubnetRange <- MCRange
  Clients = {"c1"}
  Expiry = {1, 2}
  NoLease = NoLease
SPECIFICATION Spec
INVARIANTS TypeOK FailureChangesNothing ChangesWhatItSays WipeReported GetAllComplete DeletesPresent
