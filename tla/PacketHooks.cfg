CONSTANTS
  Offered = {o1, o2}
  Asked = {a1, a2}
  Fixed = a1
  Types = {lease_time, routers}
  Unset = Unset
  Garbage = Garbage
SPECIFICATION Spec
INVARIANTS TypeOK HookServesClient NothingSaved OwnAddress
