--------------------------- MODULE ConfigObjects ---------------------------
(***************************************************************************)
(* The Python objects that share Kea's configuration: kea.CfgSubnets4 and  *)
(* kea.Subnet4 (cfg_subnets4.cc, subnet4.cc), reached through CfgMgr and   *)
(* SrvConfig (cfg_mgr.cc, srv_config.cc).                                  *)
(*                                                                         *)
(* A Kea object lives as long as a boost::shared_ptr owns it, a Python     *)
(* object as long as a reference to it exists, and each Python object      *)
(* owns the Kea object it wraps.  A Subnet4 wrapper has two pointers, ptr  *)
(* and const_ptr, of which one is null; is_const says which.  A null       *)
(* pointer that is used aborts the server: `aborted' records it.           *)
(*                                                                         *)
(* Allocation is assumed to succeed, so no call fails half way.            *)
(***************************************************************************)
EXTENDS Naturals, FiniteSets, Functions

CONSTANTS Subnets,      \* addresses of Subnet4 objects in Kea
          Configs,      \* addresses of CfgSubnets4 objects in Kea
          Objects,      \* addresses of Python objects
          Ids,          \* subnet ids
          Tags,         \* server tags
          MaxHeld,      \* bound: references a program keeps to one object
          ConstSelect,  \* built for Kea 3.0.0 or later: selectSubnet is const
          PassesConst   \* programs hand a const Subnet4 to add and replace

\* The addresses of the machine are finitely many.
ASSUME AddressAssumption == IsFiniteSet(Objects) /\ IsFiniteSet(Configs)
ASSUME HeldAssumption == MaxHeld \in Nat \ {0}
ASSUME BuildAssumption == ConstSelect \in BOOLEAN /\ PassesConst \in BOOLEAN

VARIABLES subnet,    \* what is at an address, Nothing when it is free
          uses,      \* use_count of a Subnet4
          cfg,       \* the subnets a CfgSubnets4 owns
          cfgUses,   \* use_count of a CfgSubnets4
          current, staging,
          object,    \* what is at a Python address
          refs,      \* reference count of a Python object
          held,      \* references that the Python program has to it
          aborted
kea  == <<subnet, uses, cfg, cfgUses, current, staging>>
vars == <<subnet, uses, cfg, cfgUses, current, staging, object, refs, held, aborted>>

Nothing == [type |-> "nothing"]
Null    == "null"

ASSUME NullAssumption == Null \notin Subnets

Subnet  == [id : Ids, tags : SUBSET Tags]
SubnetView == [type : {"Subnet4"}, ptr : Subnets \cup {Null}, const_ptr : Subnets \cup {Null},
               is_const : BOOLEAN]
ConfigView == [type : {"CfgSubnets4"}, ptr : Configs]

Free(o)     == object[o] = Nothing
Holds(o, t) == held[o] > 0 /\ object[o].type = t

\* The Kea object behind a Python object: what its shared_ptrs own.
Owned(o)   == IF object[o].type = "Subnet4" THEN {object[o].ptr, object[o].const_ptr} \ {Null} ELSE {}
\* The pointer that a method which reads uses.
Pointer(o) == IF object[o].is_const THEN object[o].const_ptr ELSE object[o].ptr

One(S, x)       == IF x \in S THEN 1 ELSE 0
Taken(count, S) == [x \in DOMAIN count |-> count[x] + One(S, x)]
Dropped(count, S) == [x \in DOMAIN count |-> count[x] - One(S, x)]
\* A Kea object is destroyed with the last shared_ptr to it.
Alive(count)    == [s \in Subnets |-> IF count[s] = 0 THEN Nothing ELSE subnet[s]]

FromPtr(s)      == [type |-> "Subnet4", ptr |-> s, const_ptr |-> Null, is_const |-> FALSE]
FromConstPtr(s) == [type |-> "Subnet4", ptr |-> Null, const_ptr |-> s, is_const |-> TRUE]
ConfigFromPtr(c) == [type |-> "CfgSubnets4", ptr |-> c]

\* New Python objects, each with n references, one of them the caller's.
CreatedWith(new, n) ==
    /\ object' = [o \in Objects |-> IF o \in DOMAIN new THEN new[o] ELSE object[o]]
    /\ refs'   = [o \in Objects |-> IF o \in DOMAIN new THEN n ELSE refs[o]]
    /\ held'   = [o \in Objects |-> IF o \in DOMAIN new THEN 1 ELSE held[o]]
Created(new) == CreatedWith(new, 1)
At(o, v) == [x \in {o} |-> v]

Python == <<object, refs, held>>
Abort  == aborted' = TRUE /\ UNCHANGED <<kea, Python>>

Init == /\ subnet = [s \in Subnets |-> Nothing] /\ uses = [s \in Subnets |-> 0]
        /\ current \in Configs /\ staging \in Configs \ {current}
        /\ cfg = [c \in Configs |-> {}]
        /\ cfgUses = [c \in Configs |-> IF c \in {current, staging} THEN 1 ELSE 0]
        /\ object = [o \in Objects |-> Nothing]
        /\ refs = [o \in Objects |-> 0] /\ held = [o \in Objects |-> 0] /\ aborted = FALSE

-----------------------------------------------------------------------------
(* Getting at the configuration.                                           *)

\* What CfgMgr.instance() gives: getCurrentCfg() and getStagingCfg().
InUse == {current, staging}
\* CfgMgr.instance().getCurrentCfg().getCfgSubnets4(), or the staging one.
\* The SrvConfig in between lives no longer than the expression.
GetCfgSubnets4(o, c) ==
    /\ Free(o) /\ c \in InUse
    /\ Created(At(o, ConfigFromPtr(c))) /\ cfgUses' = Taken(cfgUses, {c})
    /\ UNCHANGED <<subnet, uses, cfg, current, staging, aborted>>

\* Subnet4(prefix, ..., id).
NewSubnet(o, s, i) ==
    /\ Free(o) /\ subnet[s] = Nothing
    /\ subnet' = [subnet EXCEPT ![s] = [id |-> i, tags |-> {}]]
    /\ uses' = Taken(uses, {s}) /\ Created(At(o, FromPtr(s)))
    /\ UNCHANGED <<cfg, cfgUses, current, staging, aborted>>

\* A wrapper that does not own its subnet.
ReturnBorrowed(o, s, view) == Free(o) /\ Created(At(o, view)) /\ UNCHANGED <<kea, aborted>>
\* A call that returns one wrapper of s.
Return(o, s, view) ==
    /\ Free(o) /\ Created(At(o, view)) /\ uses' = Taken(uses, {s})
    /\ UNCHANGED <<subnet, cfg, cfgUses, current, staging, aborted>>

GetSubnet(c, o) ==
    /\ Holds(c, "CfgSubnets4")
    /\ \E s \in cfg[object[c].ptr] : Return(o, s, FromPtr(s))

SelectSubnet(c, o) ==
    /\ Holds(c, "CfgSubnets4")
    /\ \E s \in cfg[object[c].ptr] : Return(o, s, IF ConstSelect THEN FromConstPtr(s) ELSE FromPtr(s))

\* Wrappers of all the subnets, in a list that the program gets, each with
\* n references.
GetAllWith(c, n) ==
    /\ Holds(c, "CfgSubnets4")
    /\ LET all == cfg[object[c].ptr]
       IN  /\ all # {}
           /\ \E place \in Injection(all, {o \in Objects : Free(o)}) :
                CreatedWith([o \in Range(place) |-> FromPtr(AntiFunction(place)[o])], n)
           /\ uses' = Taken(uses, all)
           /\ UNCHANGED <<subnet, cfg, cfgUses, current, staging, aborted>>
\* With an append that steals: no reference is left.
GetAllStolen(c) == GetAllWith(c, 0)
\* PyList_Append takes a reference of its own and the code drops the one
\* of Subnet4_from_ptr: the list's is the only one.
GetAll(c) == GetAllWith(c, 1)

-----------------------------------------------------------------------------
(* Changing the configuration.  A call that Kea refuses (add of an id that *)
(* is there, replace and delSubnetID of one that is not) raises and leaves *)
(* everything as it was: it is no step.                                    *)

\* Both pass subnet->ptr to Kea, which reads the id from it.
Add(c, o) ==
    /\ Holds(c, "CfgSubnets4") /\ Holds(o, "Subnet4") /\ (object[o].is_const => PassesConst)
    /\ LET s == object[o].ptr  to == object[c].ptr
       IN  IF s = Null THEN Abort
           ELSE /\ \A t \in cfg[to] : subnet[t].id # subnet[s].id
                /\ cfg' = [cfg EXCEPT ![to] = @ \cup {s}] /\ uses' = Taken(uses, {s})
                /\ UNCHANGED <<subnet, cfgUses, current, staging, Python, aborted>>

\* The subnet with the same id goes out and is returned.
Replace(c, o, r) ==
    /\ Holds(c, "CfgSubnets4") /\ Holds(o, "Subnet4") /\ (object[o].is_const => PassesConst)
    /\ LET s == object[o].ptr  to == object[c].ptr
       IN  IF s = Null THEN Abort
           ELSE \E t \in cfg[to] :
                  /\ subnet[t].id = subnet[s].id /\ Free(r) /\ Created(At(r, FromPtr(t)))
                  /\ cfg' = [cfg EXCEPT ![to] = (@ \ {t}) \cup {s}]
                  /\ uses' = Taken(Taken(Dropped(uses, {t}), {s}), {t})
                  /\ UNCHANGED <<subnet, cfgUses, current, staging, aborted>>

\* The CfgSubnets4 at c gives up the subnets S.
Remove(c, S) ==
    /\ cfg' = [cfg EXCEPT ![c] = @ \ S] /\ uses' = Dropped(uses, S) /\ subnet' = Alive(uses')
    /\ UNCHANGED <<cfgUses, current, staging, Python, aborted>>

DelSubnetID(c, i) ==
    /\ Holds(c, "CfgSubnets4")
    /\ \E s \in cfg[object[c].ptr] : subnet[s].id = i /\ Remove(object[c].ptr, {s})

Clear(c) == Holds(c, "CfgSubnets4") /\ Remove(object[c].ptr, cfg[object[c].ptr])

-----------------------------------------------------------------------------
(* The methods of Subnet4.                                                 *)

\* getID, getServerTags, toElement...: nothing changes, if there is an object.
Read(o) == Holds(o, "Subnet4") /\ (IF Pointer(o) = Null THEN Abort ELSE UNCHANGED vars)

Tagged(o, tags) == IF object[o].ptr = Null THEN Abort
                   ELSE /\ subnet' = [subnet EXCEPT ![object[o].ptr].tags = tags]
                        /\ UNCHANGED <<uses, cfg, cfgUses, current, staging, Python, aborted>>
TagsOf(o) == subnet[Pointer(o)].tags

SetServerTag(o, t) == Holds(o, "Subnet4") /\ ~object[o].is_const /\ Tagged(o, TagsOf(o) \cup {t})
DelServerTag(o, t) == Holds(o, "Subnet4") /\ ~object[o].is_const /\ Tagged(o, TagsOf(o) \ {t})

-----------------------------------------------------------------------------
(* The life of the Python objects.                                         *)

\* Another variable, list or argument refers to the object.
Retain(o) == /\ held[o] \in 1..MaxHeld - 1
             /\ held' = [held EXCEPT ![o] = @ + 1] /\ refs' = [refs EXCEPT ![o] = @ + 1]
             /\ UNCHANGED <<kea, object, aborted>>

\* ~CfgSubnets4Ptr: the last one destroys the CfgSubnets4 and its own pointers.
ConfigReleased(c) == /\ cfgUses' = Dropped(cfgUses, {c})
                     /\ LET lost == IF cfgUses[c] = 1 THEN cfg[c] ELSE {}
                        IN  cfg' = [cfg EXCEPT ![c] = @ \ lost] /\ uses' = Dropped(uses, lost)
                     /\ subnet' = Alive(uses')
SubnetReleased(S) == /\ uses' = Dropped(uses, S) /\ subnet' = Alive(uses')
                     /\ UNCHANGED <<cfg, cfgUses>>

\* A destructor that forgets const_ptr.
SubnetDeallocPtr(o) == SubnetReleased({object[o].ptr} \ {Null})
SubnetDealloc(o)    == SubnetReleased(Owned(o))

Dealloc(o) == /\ object' = [object EXCEPT ![o] = Nothing]
              /\ IF object[o].type = "Subnet4" THEN SubnetDealloc(o) ELSE ConfigReleased(object[o].ptr)
Drop(o) == /\ held[o] > 0
           /\ held' = [held EXCEPT ![o] = @ - 1] /\ refs' = [refs EXCEPT ![o] = @ - 1]
           /\ IF refs[o] = 1 THEN Dealloc(o) ELSE UNCHANGED <<subnet, uses, cfg, cfgUses, object>>
           /\ UNCHANGED <<current, staging, aborted>>

\* Kea commits a configuration and starts on the next one, new.
Commit(new) == /\ cfgUses[new] = 0
               /\ current' = staging /\ staging' = new
               /\ cfgUses' = Taken(Dropped(cfgUses, {current}), {new})
               /\ LET lost == IF cfgUses[current] = 1 THEN cfg[current] ELSE {}
                  IN  cfg' = [cfg EXCEPT ![current] = @ \ lost] /\ uses' = Dropped(uses, lost)
               /\ subnet' = Alive(uses') /\ UNCHANGED <<Python, aborted>>

Program == \E o \in Objects :
    \/ \E c \in Configs : GetCfgSubnets4(o, c)
    \/ \E s \in Subnets, i \in Ids : NewSubnet(o, s, i)
    \/ \E c \in Objects : GetSubnet(c, o) \/ SelectSubnet(c, o) \/ Add(c, o)
    \/ \E c, r \in Objects : Replace(c, o, r)
    \/ \E i \in Ids : DelSubnetID(o, i)
    \/ GetAll(o) \/ Clear(o) \/ Read(o) \/ Retain(o) \/ Drop(o)
    \/ \E t \in Tags : SetServerTag(o, t) \/ DelServerTag(o, t)
Next == ~aborted /\ (Program \/ \E c \in Configs : Commit(c))
Spec == Init /\ [][Next]_vars

-----------------------------------------------------------------------------
\* Every variable has its type: a wrapper of a Subnet4 is const or not, and
\* a configuration that nobody has is empty.
TypeOK == /\ subnet \in [Subnets -> Subnet \cup {Nothing}] /\ uses \in [Subnets -> Nat]
          /\ cfg \in [Configs -> SUBSET Subnets] /\ cfgUses \in [Configs -> Nat]
          /\ current \in Configs /\ staging \in Configs \ {current}
          /\ object \in [Objects -> {Nothing} \cup ConfigView \cup SubnetView]
          /\ refs \in [Objects -> Nat] /\ held \in [Objects -> 0..MaxHeld] /\ aborted \in BOOLEAN

\* Whatever the program or a configuration refers to is still there: a
\* wrapper that is held has not been deallocated, its Subnet4 or CfgSubnets4
\* not destroyed, whatever was deleted, replaced, cleared or committed
\* meanwhile (test_cfg_subnets4.py keeps objects over clear and delSubnetID).
\* Nor does a method use the null pointer of a wrapper, if the program keeps
\* the const subnets of selectSubnet away from add and replace, which do not
\* look at is_const.
NoDangling ==
    /\ ~PassesConst => ~aborted
    /\ \A o \in Objects : held[o] > 0 => ~Free(o)
    /\ \A o \in Objects : ~Free(o) => \A s \in Owned(o) : subnet[s] # Nothing
    /\ \A o \in Objects : ~Free(o) /\ object[o].type = "CfgSubnets4" => cfgUses[object[o].ptr] > 0
    /\ \A c \in Configs : \A s \in cfg[c] : subnet[s] # Nothing

Views(s)   == {o \in Objects : ~Free(o) /\ s \in Owned(o)}
Viewers(c) == {o \in Objects : object[o] = ConfigFromPtr(c)}
\* Every reference is one that somebody has, so that nothing stays behind
\* when the program drops its last reference and Kea its configuration: the
\* use_count that the tests read is the number of owners (test_cfg_subnets4.py:8,
\* test_srv_config.py:20) and no Python object has more references than the
\* program.
NoLeak ==
    /\ \A o \in Objects : refs[o] = held[o] /\ (held[o] = 0 => Free(o))
    /\ \A s \in Subnets : /\ uses[s] = Cardinality(Views(s)) + Cardinality({c \in Configs : s \in cfg[c]})
                          /\ uses[s] = 0 <=> subnet[s] = Nothing
    /\ \A c \in Configs : /\ cfgUses[c] = Cardinality(Viewers(c)) + One(InUse, c)
                          /\ cfgUses[c] = 0 => cfg[c] = {}
=============================================================================
