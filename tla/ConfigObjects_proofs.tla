------------------------- MODULE ConfigObjects_proofs -------------------------
(***************************************************************************)
(* Ownership of the configuration for every set of addresses, ids, tags    *)
(* and every number of references a program keeps: each use_count and each *)
(* reference count is the number of owners, so nothing that is referred to *)
(* goes away and nothing stays that nobody refers to.                      *)
(***************************************************************************)
EXTENDS ConfigObjects, FiniteSetTheorems, TLAPS

\* What a Python object with contents v owns in Kea: subnets, a configuration.
Behind(v) == IF v.type = "Subnet4" THEN {v.ptr, v.const_ptr} \ {Null} ELSE {}
Of(v)     == IF v.type = "CfgSubnets4" THEN {v.ptr} ELSE {}

View == ConfigView \cup SubnetView

\* Of the two pointers of a wrapper of a Subnet4 the one that is_const names
\* is set.
OnePointer(v) ==
  v.type = "Subnet4" => IF v.is_const THEN v.ptr = Null /\ v.const_ptr # Null
                                      ELSE v.ptr # Null /\ v.const_ptr = Null

\* The configurations that own s.
Configured(s) == {c \in Configs : s \in cfg[c]}

\* Of the Python objects.
PythonInv ==
  /\ object \in [Objects -> {Nothing} \cup View]
  /\ refs \in [Objects -> Nat] /\ held \in [Objects -> 0 .. MaxHeld]
  /\ \A o \in Objects : refs[o] = held[o] /\ (held[o] = 0 <=> Free(o))
  /\ \A o \in Objects : OnePointer(object[o])

\* Of the subnets.  Without different ids in one configuration, a replace
\* could put in a subnet that is there and count it twice.
SubnetInv ==
  /\ subnet \in [Subnets -> Subnet \cup {Nothing}] /\ uses \in [Subnets -> Nat]
  /\ cfg \in [Configs -> SUBSET Subnets]
  /\ \A s \in Subnets : /\ uses[s] = Cardinality(Views(s)) + Cardinality(Configured(s))
                        /\ uses[s] = 0 <=> subnet[s] = Nothing
  /\ \A c \in Configs : \A s, t \in cfg[c] : subnet[s].id = subnet[t].id => s = t

\* Of the configurations.
ConfigInv ==
  /\ cfgUses \in [Configs -> Nat]
  /\ current \in Configs /\ staging \in Configs \ {current}
  /\ \A c \in Configs : /\ cfgUses[c] = Cardinality(Viewers(c)) + One(InUse, c)
                        /\ cfgUses[c] = 0 => cfg[c] = {}

AbortInv == aborted \in BOOLEAN /\ (~PassesConst => ~aborted)

IInv == PythonInv /\ SubnetInv /\ ConfigInv /\ AbortInv

-----------------------------------------------------------------------------
(* Counting.                                                               *)

\* Sets that differ at most in x differ in size by whether x is in them.
LEMMA DifferAtOne ==
  ASSUME NEW S, NEW T, NEW x, IsFiniteSet(S), IsFiniteSet(T), S \ {x} = T \ {x}
  PROVE  Cardinality(T) + One(S, x) = Cardinality(S) + One(T, x)
<1>1. /\ Cardinality(S) \in Nat /\ Cardinality(T) \in Nat
      /\ Cardinality(S \ {x}) \in Nat
  BY FS_CardinalityType, FS_RemoveElement
<1>2. Cardinality(S \ {x}) = IF x \in S THEN Cardinality(S) - 1 ELSE Cardinality(S)
  BY FS_RemoveElement
<1>3. Cardinality(T \ {x}) = IF x \in T THEN Cardinality(T) - 1 ELSE Cardinality(T)
  BY FS_RemoveElement
<1> QED
  BY <1>1, <1>2, <1>3 DEF One

\* Owners are counted, and a count of 0 says that there is none.
LEMMA Counts ==
  ASSUME NEW s, NEW c
  PROVE  /\ Cardinality(Views(s)) \in Nat /\ (Cardinality(Views(s)) = 0 <=> Views(s) = {})
         /\ Cardinality(Configured(s)) \in Nat
         /\ (Cardinality(Configured(s)) = 0 <=> Configured(s) = {})
         /\ Cardinality(Viewers(c)) \in Nat /\ (Cardinality(Viewers(c)) = 0 <=> Viewers(c) = {})
         /\ IsFiniteSet(Views(s)) /\ IsFiniteSet(Configured(s)) /\ IsFiniteSet(Viewers(c))
<1>1. /\ Views(s) \in SUBSET Objects /\ Viewers(c) \in SUBSET Objects
      /\ Configured(s) \in SUBSET Configs
  BY DEF Views, Viewers, Configured
<1>2. IsFiniteSet(Views(s)) /\ IsFiniteSet(Configured(s)) /\ IsFiniteSet(Viewers(c))
  BY <1>1, AddressAssumption, FS_Subset
<1> QED
  BY <1>2, FS_CardinalityType, FS_EmptySet

LEMMA CountsPrimed ==
  ASSUME NEW s, NEW c
  PROVE  /\ Cardinality(Views(s)') \in Nat /\ Cardinality(Configured(s)') \in Nat
         /\ Cardinality(Viewers(c)') \in Nat
         /\ IsFiniteSet(Views(s)') /\ IsFiniteSet(Configured(s)') /\ IsFiniteSet(Viewers(c)')
<1>1. /\ Views(s)' \in SUBSET Objects /\ Viewers(c)' \in SUBSET Objects
      /\ Configured(s)' \in SUBSET Configs
  BY DEF Views, Viewers, Configured
<1>2. IsFiniteSet(Views(s)') /\ IsFiniteSet(Configured(s)') /\ IsFiniteSet(Viewers(c)')
  BY <1>1, AddressAssumption, FS_Subset
<1> QED
  BY <1>2, FS_CardinalityType

\* What the kinds of Python objects own.
LEMMA BehindOf ==
  /\ Behind(Nothing) = {} /\ Of(Nothing) = {}
  /\ \A s \in Subnets : /\ FromPtr(s) \in SubnetView /\ FromConstPtr(s) \in SubnetView
                        /\ OnePointer(FromPtr(s)) /\ OnePointer(FromConstPtr(s))
                        /\ Behind(FromPtr(s)) = {s} /\ Behind(FromConstPtr(s)) = {s}
                        /\ Of(FromPtr(s)) = {} /\ Of(FromConstPtr(s)) = {}
  /\ \A c \in Configs : /\ ConfigFromPtr(c) \in ConfigView /\ OnePointer(ConfigFromPtr(c))
                        /\ Behind(ConfigFromPtr(c)) = {} /\ Of(ConfigFromPtr(c)) = {c}
  /\ Nothing \notin View
  BY NullAssumption DEF Behind, Of, Nothing, FromPtr, FromConstPtr, ConfigFromPtr, OnePointer, View,
                        SubnetView, ConfigView

\* The owners of s and of c, by what the objects own.
LEMMA OwnsWhatItIs ==
  ASSUME NEW v \in {Nothing} \cup View
  PROVE  /\ v = Nothing => Behind(v) = {}
         /\ \A c : v = ConfigFromPtr(c) <=> c \in Of(v)
<1>1. CASE v = Nothing
  BY <1>1 DEF Nothing, Of, Behind, ConfigFromPtr
<1>2. CASE v \in ConfigView
  BY <1>2 DEF ConfigView, Nothing, Of, Behind, ConfigFromPtr
<1>3. CASE v \in SubnetView
  BY <1>3 DEF SubnetView, Nothing, Of, Behind, ConfigFromPtr
<1> QED
  BY <1>1, <1>2, <1>3 DEF View

LEMMA ViewsAre ==
  /\ object \in [Objects -> {Nothing} \cup View] =>
       /\ \A s : Views(s) = {o \in Objects : s \in Behind(object[o])}
       /\ \A c : Viewers(c) = {o \in Objects : c \in Of(object[o])}
  /\ object' \in [Objects -> {Nothing} \cup View] =>
       /\ \A s : Views(s)' = {o \in Objects : s \in Behind(object'[o])}
       /\ \A c : Viewers(c)' = {o \in Objects : c \in Of(object'[o])}
  BY OwnsWhatItIs DEF Views, Viewers, Free, Owned, Behind

\* When what is at o becomes v, what it owned has an owner less, what v owns
\* one more.
LEMMA ViewChanges ==
  ASSUME object \in [Objects -> {Nothing} \cup View], NEW o \in Objects, NEW v \in {Nothing} \cup View,
         object' = [object EXCEPT ![o] = v]
  PROVE  /\ \A s : Cardinality(Views(s)') + One(Behind(object[o]), s) =
                     Cardinality(Views(s)) + One(Behind(v), s)
         /\ \A c : Cardinality(Viewers(c)') + One(Of(object[o]), c) =
                     Cardinality(Viewers(c)) + One(Of(v), c)
<1>1. object' \in [Objects -> {Nothing} \cup View]
  OBVIOUS
<1>2. ASSUME NEW s
      PROVE  Cardinality(Views(s)') + One(Behind(object[o]), s) =
               Cardinality(Views(s)) + One(Behind(v), s)
  <2>1. Views(s) = {p \in Objects : s \in Behind(object[p])}
    BY ViewsAre
  <2>2. Views(s)' = {p \in Objects : s \in Behind(object'[p])}
    BY <1>1, ViewsAre
  <2> DEFINE S == Views(s)
             T == Views(s)'
  <2>3. S \ {o} = T \ {o} /\ (o \in S <=> s \in Behind(object[o])) /\ (o \in T <=> s \in Behind(v))
    BY <2>1, <2>2
  <2>4. IsFiniteSet(S) /\ IsFiniteSet(T)
    BY Counts, CountsPrimed
  <2> HIDE DEF S, T
  <2>5. Cardinality(T) + One(S, o) = Cardinality(S) + One(T, o)
    BY <2>3, <2>4, DifferAtOne
  <2>6. One(S, o) = One(Behind(object[o]), s) /\ One(T, o) = One(Behind(v), s)
    BY <2>3 DEF One
  <2> QED
    BY <2>5, <2>6 DEF S, T
<1>3. ASSUME NEW c
      PROVE  Cardinality(Viewers(c)') + One(Of(object[o]), c) =
               Cardinality(Viewers(c)) + One(Of(v), c)
  <2>1. Viewers(c) = {p \in Objects : c \in Of(object[p])}
    BY ViewsAre
  <2>2. Viewers(c)' = {p \in Objects : c \in Of(object'[p])}
    BY <1>1, ViewsAre
  <2> DEFINE S == Viewers(c)
             T == Viewers(c)'
  <2>3. S \ {o} = T \ {o} /\ (o \in S <=> c \in Of(object[o])) /\ (o \in T <=> c \in Of(v))
    BY <2>1, <2>2
  <2>4. IsFiniteSet(S) /\ IsFiniteSet(T)
    BY Counts, CountsPrimed
  <2> HIDE DEF S, T
  <2>5. Cardinality(T) + One(S, o) = Cardinality(S) + One(T, o)
    BY <2>3, <2>4, DifferAtOne
  <2>6. One(S, o) = One(Of(object[o]), c) /\ One(T, o) = One(Of(v), c)
    BY <2>3 DEF One
  <2> QED
    BY <2>5, <2>6 DEF S, T
<1> QED
  BY <1>2, <1>3

\* When the configuration c comes to own S, the rest stays as it is.
LEMMA ConfiguredChanges ==
  ASSUME cfg \in [Configs -> SUBSET Subnets], NEW c \in Configs, NEW S \in SUBSET Subnets,
         cfg' = [cfg EXCEPT ![c] = S]
  PROVE  \A s : Cardinality(Configured(s)') + One(cfg[c], s) = Cardinality(Configured(s)) + One(S, s)
<1> SUFFICES ASSUME NEW s
             PROVE  Cardinality(Configured(s)') + One(cfg[c], s) = Cardinality(Configured(s)) + One(S, s)
  OBVIOUS
<1> DEFINE U == Configured(s)
           T == Configured(s)'
<1>1. U \ {c} = T \ {c} /\ (c \in U <=> s \in cfg[c]) /\ (c \in T <=> s \in S)
  BY DEF Configured
<1>2. IsFiniteSet(U) /\ IsFiniteSet(T)
  BY Counts, CountsPrimed
<1> HIDE DEF U, T
<1>3. Cardinality(T) + One(U, c) = Cardinality(U) + One(T, c)
  BY <1>1, <1>2, DifferAtOne
<1>4. One(U, c) = One(cfg[c], s) /\ One(T, c) = One(S, s)
  BY <1>1 DEF One
<1> QED
  BY <1>3, <1>4 DEF U, T

-----------------------------------------------------------------------------
(* The Python objects.                                                     *)

\* A new object, with the caller's reference.
LEMMA CreatedOne ==
  ASSUME PythonInv, NEW o \in Objects, Free(o), NEW v \in View, OnePointer(v), Created(At(o, v))
  PROVE  /\ PythonInv'
         /\ object' = [object EXCEPT ![o] = v] /\ object[o] = Nothing
         /\ \A s : Cardinality(Views(s)') = Cardinality(Views(s)) + One(Behind(v), s)
         /\ \A c : Cardinality(Viewers(c)') = Cardinality(Viewers(c)) + One(Of(v), c)
<1>1. /\ object' = [object EXCEPT ![o] = v]
      /\ refs' = [refs EXCEPT ![o] = 1]
      /\ held' = [held EXCEPT ![o] = 1]
  BY DEF Created, CreatedWith, At, PythonInv
<1>2. object[o] = Nothing /\ v # Nothing
  BY BehindOf DEF Free
<1>3. PythonInv'
  BY <1>1, <1>2, HeldAssumption DEF PythonInv, Free
<1>4. object \in [Objects -> {Nothing} \cup View]
  BY DEF PythonInv
<1>5. \A s : One(Behind(object[o]), s) = 0 /\ One(Of(object[o]), s) = 0
  BY <1>2, BehindOf DEF One
<1>6. \A s : Cardinality(Views(s)') + One(Behind(object[o]), s) =
               Cardinality(Views(s)) + One(Behind(v), s)
  BY <1>1, <1>4, ViewChanges
<1>7. \A c : Cardinality(Viewers(c)') + One(Of(object[o]), c) =
               Cardinality(Viewers(c)) + One(Of(v), c)
  BY <1>1, <1>4, ViewChanges
<1>8. \A s : Cardinality(Views(s)') \in Nat /\ Cardinality(Viewers(s)') \in Nat
  BY CountsPrimed
<1> QED
  BY <1>1, <1>2, <1>3, <1>5, <1>6, <1>7, <1>8

\* getAll() creates an object for each subnet, in different places.
LEMMA CreatedAll ==
  ASSUME PythonInv, NEW all \in SUBSET Subnets,
         NEW place \in Injection(all, {o \in Objects : Free(o)}),
         CreatedWith([o \in Range(place) |-> FromPtr(AntiFunction(place)[o])], 1)
  PROVE  /\ PythonInv'
         /\ \A s : Cardinality(Views(s)') = Cardinality(Views(s)) + One(all, s)
         /\ \A c : Viewers(c)' = Viewers(c)
<1>1. /\ place \in [all -> {o \in Objects : Free(o)}]
      /\ \A s, t \in all : place[s] = place[t] => s = t
  BY DEF Injection, IsInjective
<1>2. \A o \in Range(place) : /\ o \in Objects /\ object[o] = Nothing
                              /\ AntiFunction(place)[o] \in all
                              /\ place[AntiFunction(place)[o]] = o
  <2>1. /\ DOMAIN place = all
        /\ \A o \in Range(place) : \E s \in all : place[s] = o
    BY <1>1 DEF Range
  <2>2. ASSUME NEW o \in Range(place)
        PROVE  AntiFunction(place)[o] \in all /\ place[AntiFunction(place)[o]] = o
    BY <2>1, <2>2 DEF AntiFunction, Inverse
  <2> QED
    BY <1>1, <2>1, <2>2 DEF Free
<1>3. /\ \A o \in Range(place) : object'[o] = FromPtr(AntiFunction(place)[o])
      /\ \A o \in Objects \ Range(place) : object'[o] = object[o]
      /\ DOMAIN object' = Objects
      /\ object' = [o \in Objects |-> object'[o]]
      /\ refs' = [o \in Objects |-> IF o \in Range(place) THEN 1 ELSE refs[o]]
      /\ held' = [o \in Objects |-> IF o \in Range(place) THEN 1 ELSE held[o]]
  BY <1>2 DEF CreatedWith
<1>4. \A o \in Range(place) : /\ object'[o] \in SubnetView /\ object'[o] # Nothing
                              /\ OnePointer(object'[o])
                              /\ Behind(object'[o]) = {AntiFunction(place)[o]}
                              /\ Of(object'[o]) = {}
  BY <1>2, <1>3, BehindOf DEF View
<1>5. object' \in [Objects -> {Nothing} \cup View]
  BY <1>3, <1>4 DEF PythonInv, View
<1>6. PythonInv'
  <2>1. ASSUME NEW o \in Objects
        PROVE  /\ refs'[o] = held'[o] /\ (held'[o] = 0 <=> object'[o] = Nothing)
               /\ OnePointer(object'[o])
    <3>1. CASE o \in Range(place)
      BY <1>3, <1>4, <3>1
    <3>2. CASE o \notin Range(place)
      BY <1>3, <3>2 DEF PythonInv, Free
    <3> QED
      BY <3>1, <3>2
  <2>2. refs' \in [Objects -> Nat] /\ held' \in [Objects -> 0 .. MaxHeld]
    BY <1>3, HeldAssumption DEF PythonInv
  <2> QED
    BY <1>5, <2>1, <2>2 DEF PythonInv, Free
<1>7. ASSUME NEW c
      PROVE  Viewers(c)' = Viewers(c)
  <2>1. Viewers(c) = {o \in Objects : c \in Of(object[o])}
    BY ViewsAre DEF PythonInv
  <2>2. Viewers(c)' = {o \in Objects : c \in Of(object'[o])}
    BY <1>5, ViewsAre
  <2>3. \A o \in Objects : Of(object'[o]) = Of(object[o])
    BY <1>2, <1>3, <1>4, BehindOf
  <2> QED
    BY <2>1, <2>2, <2>3
<1>8. ASSUME NEW s
      PROVE  Cardinality(Views(s)') = Cardinality(Views(s)) + One(all, s)
  <2>1. Views(s) = {o \in Objects : s \in Behind(object[o])}
    BY ViewsAre DEF PythonInv
  <2>2. Views(s)' = {o \in Objects : s \in Behind(object'[o])}
    BY <1>5, ViewsAre
  <2>3. \A o \in Objects \ Range(place) : Behind(object'[o]) = Behind(object[o])
    BY <1>3
  <2>4. \A o \in Range(place) : Behind(object[o]) = {}
    BY <1>2, BehindOf
  <2>5. CASE s \notin all
    <3>1. Views(s)' = Views(s)
      BY <1>2, <1>4, <2>1, <2>2, <2>3, <2>4, <2>5
    <3> QED
      BY <2>5, <3>1, Counts DEF One
  <2>6. CASE s \in all
    <3>1. place[s] \in Range(place) /\ AntiFunction(place)[place[s]] = s
      <4>1. place[s] \in Range(place)
        BY <1>1, <2>6 DEF Range
      <4> QED
        BY <1>1, <1>2, <2>6, <4>1
    <3> DEFINE S == Views(s)
               T == Views(s)'
    <3>2. S \ {place[s]} = T \ {place[s]} /\ place[s] \notin S /\ place[s] \in T
      BY <1>2, <1>4, <2>1, <2>2, <2>3, <2>4, <3>1
    <3>3. IsFiniteSet(S) /\ IsFiniteSet(T) /\ Cardinality(S) \in Nat /\ Cardinality(T) \in Nat
      BY Counts, CountsPrimed
    <3> HIDE DEF S, T
    <3>4. Cardinality(T) + One(S, place[s]) = Cardinality(S) + One(T, place[s])
      BY <3>2, <3>3, DifferAtOne
    <3>5. One(S, place[s]) = 0 /\ One(T, place[s]) = 1 /\ One(all, s) = 1
      BY <2>6, <3>2 DEF One
    <3> QED
      BY <3>3, <3>4, <3>5 DEF S, T
  <2> QED
    BY <2>5, <2>6
<1> QED
  BY <1>6, <1>7, <1>8

\* The last reference takes the object along.
LEMMA DroppedOne ==
  ASSUME PythonInv, NEW o \in Objects, Drop(o)
  PROVE  /\ PythonInv'
         /\ object[o] \in View
         /\ refs[o] # 1 => UNCHANGED <<subnet, uses, cfg, cfgUses, object>>
         /\ refs[o] = 1 =>
              /\ object' = [object EXCEPT ![o] = Nothing]
              /\ \A s : Cardinality(Views(s)') + One(Behind(object[o]), s) = Cardinality(Views(s))
              /\ \A c : Cardinality(Viewers(c)') + One(Of(object[o]), c) = Cardinality(Viewers(c))
<1>1. /\ held[o] > 0 /\ held' = [held EXCEPT ![o] = @ - 1] /\ refs' = [refs EXCEPT ![o] = @ - 1]
      /\ refs[o] = 1 => object' = [object EXCEPT ![o] = Nothing]
      /\ refs[o] # 1 => UNCHANGED <<subnet, uses, cfg, cfgUses, object>>
  BY DEF Drop, Dealloc
<1>2. /\ refs[o] = held[o] /\ held[o] \in 0 .. MaxHeld /\ object[o] # Nothing /\ object[o] \in View
      /\ object \in [Objects -> {Nothing} \cup View]
  BY <1>1, HeldAssumption DEF PythonInv, Free
<1>3. held' \in [Objects -> 0 .. MaxHeld] /\ refs' \in [Objects -> Nat]
  BY <1>1, <1>2, HeldAssumption DEF PythonInv
<1>4. PythonInv'
  <2>1. ASSUME NEW p \in Objects
        PROVE  /\ refs'[p] = held'[p] /\ (held'[p] = 0 <=> object'[p] = Nothing)
               /\ OnePointer(object'[p]) /\ object'[p] \in {Nothing} \cup View
    <3>1. CASE p # o
      BY <1>1, <1>2, <3>1 DEF PythonInv, Free
    <3>2. CASE p = o
      <4>1. refs'[o] = refs[o] - 1 /\ held'[o] = held[o] - 1
        BY <1>1 DEF PythonInv
      <4>2. OnePointer(Nothing)
        BY DEF OnePointer, Nothing
      <4>3. refs[o] = 1 => object'[o] = Nothing
        BY <1>1, <1>2
      <4> QED
        BY <1>1, <1>2, <3>2, <4>1, <4>2, <4>3, HeldAssumption DEF PythonInv
    <3> QED
      BY <3>1, <3>2
  <2>2. object' \in [Objects -> {Nothing} \cup View]
    BY <1>1, <1>2
  <2> QED
    BY <1>3, <2>1, <2>2 DEF PythonInv, Free
<1>5. ASSUME refs[o] = 1
      PROVE  /\ \A s : Cardinality(Views(s)') + One(Behind(object[o]), s) = Cardinality(Views(s))
             /\ \A c : Cardinality(Viewers(c)') + One(Of(object[o]), c) = Cardinality(Viewers(c))
  <2>1. object' = [object EXCEPT ![o] = Nothing]
    BY <1>1, <1>5
  <2>2. /\ \A s : Cardinality(Views(s)') + One(Behind(object[o]), s) =
                    Cardinality(Views(s)) + One(Behind(Nothing), s)
        /\ \A c : Cardinality(Viewers(c)') + One(Of(object[o]), c) =
                    Cardinality(Viewers(c)) + One(Of(Nothing), c)
    BY <1>2, <2>1, ViewChanges
  <2>3. \A s : One(Behind(Nothing), s) = 0 /\ One(Of(Nothing), s) = 0
    BY BehindOf DEF One
  <2>4. \A s : Cardinality(Views(s)) \in Nat /\ Cardinality(Viewers(s)) \in Nat
    BY Counts
  <2> QED
    BY <2>2, <2>3, <2>4
<1> QED
  BY <1>1, <1>2, <1>4, <1>5

-----------------------------------------------------------------------------
(* The subnets and their use_count.                                        *)

\* A subnet that is referred to is there, and counted.
LEMMA OwnedIsThere ==
  ASSUME SubnetInv, NEW s \in Subnets
  PROVE  /\ \A c \in Configs : s \in cfg[c] => uses[s] > 0
         /\ Views(s) # {} => uses[s] > 0
         /\ uses[s] > 0 <=> subnet[s] # Nothing
         /\ subnet[s] # Nothing => subnet[s] \in Subnet
         /\ uses[s] \in Nat
<1>1. /\ Cardinality(Views(s)) \in Nat /\ (Cardinality(Views(s)) = 0 <=> Views(s) = {})
      /\ Cardinality(Configured(s)) \in Nat
      /\ (Cardinality(Configured(s)) = 0 <=> Configured(s) = {})
  BY Counts
<1>2. \A c \in Configs : s \in cfg[c] => Configured(s) # {}
  BY DEF Configured
<1>3. /\ uses[s] = Cardinality(Views(s)) + Cardinality(Configured(s)) /\ uses[s] \in Nat
      /\ uses[s] = 0 <=> subnet[s] = Nothing
  BY DEF SubnetInv
<1>4. subnet[s] # Nothing => subnet[s] \in Subnet
  BY DEF SubnetInv
<1> QED
  BY <1>1, <1>2, <1>3, <1>4

\* Python comes to own the subnets S.
LEMMA SubnetsTaken ==
  ASSUME SubnetInv, NEW S \in SUBSET Subnets, \A s \in S : subnet[s] # Nothing,
         uses' = Taken(uses, S), UNCHANGED <<subnet, cfg>>,
         \A s : Cardinality(Views(s)') = Cardinality(Views(s)) + One(S, s)
  PROVE  SubnetInv'
<1>1. \A s \in Subnets : uses'[s] = uses[s] + One(S, s)
  BY DEF SubnetInv, Taken
<1>2. ASSUME NEW s \in Subnets
      PROVE  /\ uses'[s] \in Nat
             /\ uses'[s] = Cardinality(Views(s)') + Cardinality(Configured(s)')
             /\ uses'[s] = 0 <=> subnet'[s] = Nothing
  <2>1. Configured(s)' = Configured(s)
    BY DEF Configured
  <2>2. /\ uses[s] = Cardinality(Views(s)) + Cardinality(Configured(s)) /\ uses[s] \in Nat
        /\ uses[s] = 0 <=> subnet[s] = Nothing
    BY DEF SubnetInv
  <2>3. Cardinality(Views(s)) \in Nat /\ Cardinality(Configured(s)) \in Nat
    BY Counts
  <2>4. One(S, s) \in {0, 1} /\ (One(S, s) = 1 => subnet[s] # Nothing)
    BY DEF One
  <2> DEFINE v  == Cardinality(Views(s))
             v1 == Cardinality(Views(s)')
             k  == Cardinality(Configured(s))
             k1 == Cardinality(Configured(s)')
  <2>5. v1 = v + One(S, s) /\ k1 = k /\ v \in Nat /\ k \in Nat
    BY <2>1, <2>3
  <2>6. uses'[s] = uses[s] + One(S, s) /\ uses[s] = v + k /\ subnet'[s] = subnet[s]
    BY <1>1, <2>2
  <2> HIDE DEF v, v1, k, k1
  <2>7. uses'[s] \in Nat /\ uses'[s] = v1 + k1
    BY <2>4, <2>5, <2>6
  <2>8. uses'[s] = 0 <=> subnet'[s] = Nothing
    BY <2>2, <2>4, <2>6
  <2> QED
    BY <2>7, <2>8 DEF v1, k1
<1>3. uses' \in [Subnets -> Nat]
  BY <1>2 DEF SubnetInv, Taken
<1> QED
  BY <1>2, <1>3 DEF SubnetInv

\* Nobody comes or goes.
LEMMA SubnetsKept ==
  ASSUME SubnetInv, UNCHANGED <<subnet, uses, cfg>>,
         \A s : Cardinality(Views(s)') = Cardinality(Views(s))
  PROVE  SubnetInv'
<1>1. \A s : Configured(s)' = Configured(s)
  BY DEF Configured
<1> QED
  BY <1>1 DEF SubnetInv

\* A use_count falls by the owners lost; what has none left is destroyed.
\* The counts of the owners are given: those in Python and those in Kea.
LEMMA SubnetsDropped ==
  ASSUME SubnetInv, NEW S \in SUBSET Subnets, uses' = Dropped(uses, S), subnet' = Alive(uses'),
         cfg' \in [Configs -> SUBSET Subnets], \A c \in Configs : cfg'[c] \subseteq cfg[c],
         \A s \in Subnets : Cardinality(Views(s)') + Cardinality(Configured(s)') + One(S, s) =
                              Cardinality(Views(s)) + Cardinality(Configured(s))
  PROVE  SubnetInv'
<1>1. ASSUME NEW s \in Subnets
      PROVE  /\ uses'[s] \in Nat /\ uses'[s] <= uses[s]
             /\ uses'[s] = Cardinality(Views(s)') + Cardinality(Configured(s)')
  <2>1. uses'[s] = uses[s] - One(S, s)
    BY DEF SubnetInv, Dropped
  <2>2. uses[s] = Cardinality(Views(s)) + Cardinality(Configured(s)) /\ uses[s] \in Nat
    BY DEF SubnetInv
  <2>3. Cardinality(Views(s)') \in Nat /\ Cardinality(Configured(s)') \in Nat
    BY CountsPrimed
  <2>4. One(S, s) \in {0, 1}
    BY DEF One
  <2> QED
    BY <2>1, <2>2, <2>3, <2>4
<1>2. \A s \in Subnets : /\ uses'[s] = 0 <=> subnet'[s] = Nothing
                         /\ uses'[s] # 0 => subnet'[s] = subnet[s]
  <2> SUFFICES ASSUME NEW s \in Subnets
               PROVE  /\ uses'[s] = 0 <=> subnet'[s] = Nothing
                      /\ uses'[s] # 0 => subnet'[s] = subnet[s]
    OBVIOUS
  <2>1. subnet'[s] = IF uses'[s] = 0 THEN Nothing ELSE subnet[s]
    BY DEF Alive
  <2>2. uses'[s] # 0 => subnet[s] # Nothing
    BY <1>1, OwnedIsThere
  <2> QED
    BY <2>1, <2>2
<1>3. uses' \in [Subnets -> Nat] /\ subnet' \in [Subnets -> Subnet \cup {Nothing}]
  BY <1>1 DEF SubnetInv, Dropped, Alive
<1>4. ASSUME NEW c \in Configs, NEW s \in cfg'[c]
      PROVE  s \in Subnets /\ s \in cfg[c] /\ subnet'[s] = subnet[s]
  <2>1. s \in Subnets /\ s \in cfg[c] /\ c \in Configured(s)'
    BY <1>4 DEF Configured
  <2>2. Cardinality(Configured(s)') # 0
    BY <2>1, CountsPrimed, FS_EmptySet
  <2>3. Cardinality(Views(s)') \in Nat /\ Cardinality(Configured(s)') \in Nat
    BY CountsPrimed
  <2>4. uses'[s] # 0
    BY <1>1, <2>1, <2>2, <2>3
  <2> QED
    BY <1>2, <2>1, <2>4
<1>5. \A c \in Configs : \A s, t \in cfg'[c] : subnet'[s].id = subnet'[t].id => s = t
  BY <1>4 DEF SubnetInv
<1> QED
  BY <1>1, <1>2, <1>3, <1>5 DEF SubnetInv

\* The configuration c gives up L.
LEMMA SubnetsLost ==
  ASSUME SubnetInv, NEW c \in Configs, NEW L \in SUBSET cfg[c],
         cfg' = [cfg EXCEPT ![c] = @ \ L], uses' = Dropped(uses, L), subnet' = Alive(uses'),
         \A s : Cardinality(Views(s)') = Cardinality(Views(s))
  PROVE  SubnetInv'
<1>1. cfg \in [Configs -> SUBSET Subnets] /\ cfg[c] \ L \in SUBSET Subnets /\ L \in SUBSET Subnets
  BY DEF SubnetInv
<1>2. cfg' \in [Configs -> SUBSET Subnets] /\ \A d \in Configs : cfg'[d] \subseteq cfg[d]
  BY <1>1
<1>3. ASSUME NEW s \in Subnets
      PROVE  Cardinality(Views(s)') + Cardinality(Configured(s)') + One(L, s) =
               Cardinality(Views(s)) + Cardinality(Configured(s))
  <2>1. Cardinality(Configured(s)') + One(cfg[c], s) = Cardinality(Configured(s)) + One(cfg[c] \ L, s)
    BY <1>1, ConfiguredChanges
  <2>2. One(cfg[c], s) = One(cfg[c] \ L, s) + One(L, s) /\ One(L, s) \in {0, 1}
        /\ One(cfg[c] \ L, s) \in {0, 1}
    BY DEF One
  <2>3. /\ Cardinality(Views(s)) \in Nat /\ Cardinality(Configured(s)) \in Nat
        /\ Cardinality(Configured(s)') \in Nat
    BY Counts, CountsPrimed
  <2> QED
    BY <2>1, <2>2, <2>3
<1> QED
  BY <1>1, <1>2, <1>3, SubnetsDropped

\* Python gives up S.
LEMMA SubnetsReleased ==
  ASSUME SubnetInv, NEW S \in SUBSET Subnets, UNCHANGED cfg,
         uses' = Dropped(uses, S), subnet' = Alive(uses'),
         \A s : Cardinality(Views(s)') + One(S, s) = Cardinality(Views(s))
  PROVE  SubnetInv'
<1>1. \A s : Configured(s)' = Configured(s)
  BY DEF Configured
<1>2. \A s \in Subnets : Cardinality(Views(s)') + Cardinality(Configured(s)') + One(S, s) =
                           Cardinality(Views(s)) + Cardinality(Configured(s))
  <2> SUFFICES ASSUME NEW s \in Subnets
               PROVE  Cardinality(Views(s)') + Cardinality(Configured(s)) + One(S, s) =
                        Cardinality(Views(s)) + Cardinality(Configured(s))
    BY <1>1
  <2>1. /\ Cardinality(Views(s)) \in Nat /\ Cardinality(Configured(s)) \in Nat
        /\ Cardinality(Views(s)') \in Nat /\ One(S, s) \in {0, 1}
    BY Counts, CountsPrimed DEF One
  <2> QED
    BY <2>1
<1>3. cfg' \in [Configs -> SUBSET Subnets] /\ \A c \in Configs : cfg'[c] \subseteq cfg[c]
  BY DEF SubnetInv
<1> QED
  BY <1>2, <1>3, SubnetsDropped

\* A subnet is made where none is.
LEMMA SubnetsNew ==
  ASSUME SubnetInv, NEW s \in Subnets, NEW id \in Ids, subnet[s] = Nothing,
         subnet' = [subnet EXCEPT ![s] = [id |-> id, tags |-> {}]],
         uses' = Taken(uses, {s}), UNCHANGED cfg,
         \A t : Cardinality(Views(t)') = Cardinality(Views(t)) + One({s}, t)
  PROVE  SubnetInv'
<1>1. \A c \in Configs : s \notin cfg[c]
  BY OwnedIsThere DEF SubnetInv
<1>2. [id |-> id, tags |-> {}] \in Subnet /\ Nothing \notin Subnet
  BY DEF Subnet, Nothing
<1>3. subnet' \in [Subnets -> Subnet \cup {Nothing}]
  BY <1>2 DEF SubnetInv
<1>4. ASSUME NEW t \in Subnets
      PROVE  /\ uses'[t] \in Nat
             /\ uses'[t] = Cardinality(Views(t)') + Cardinality(Configured(t)')
             /\ uses'[t] = 0 <=> subnet'[t] = Nothing
  <2>1. Configured(t)' = Configured(t)
    BY DEF Configured
  <2>2. uses'[t] = uses[t] + One({s}, t)
    BY DEF SubnetInv, Taken
  <2>3. /\ uses[t] = Cardinality(Views(t)) + Cardinality(Configured(t)) /\ uses[t] \in Nat
        /\ uses[t] = 0 <=> subnet[t] = Nothing
    BY DEF SubnetInv
  <2>4. Cardinality(Views(t)) \in Nat /\ Cardinality(Configured(t)) \in Nat
    BY Counts
  <2>5. /\ One({s}, t) = IF t = s THEN 1 ELSE 0
        /\ t # s => subnet'[t] = subnet[t]
        /\ t = s => subnet'[t] # Nothing
    BY <1>2 DEF One, SubnetInv
  <2>6. Cardinality(Views(t)') = Cardinality(Views(t)) + One({s}, t)
    OBVIOUS
  <2>7. CASE t = s
    BY <2>1, <2>2, <2>3, <2>4, <2>5, <2>6, <2>7
  <2>8. CASE t # s
    <3>1. One({s}, t) = 0 /\ subnet'[t] = subnet[t]
      BY <2>5, <2>8
    <3>2. uses'[t] = uses[t] /\ Cardinality(Views(t)') = Cardinality(Views(t))
      BY <2>2, <2>3, <2>4, <2>6, <3>1
    <3> QED
      BY <2>1, <2>3, <3>1, <3>2
  <2> QED
    BY <2>7, <2>8
<1>5. uses' \in [Subnets -> Nat]
  BY <1>4 DEF SubnetInv, Taken
<1>6. ASSUME NEW c \in Configs, NEW t \in cfg'[c]
      PROVE  t \in cfg[c] /\ subnet'[t] = subnet[t]
  <2>1. t \in Subnets /\ t \in cfg[c] /\ t # s
    BY <1>1 DEF SubnetInv
  <2> QED
    BY <2>1 DEF SubnetInv
<1>7. \A c \in Configs : \A t, u \in cfg'[c] : subnet'[t].id = subnet'[u].id => t = u
  BY <1>6 DEF SubnetInv
<1> QED
  BY <1>3, <1>4, <1>5, <1>7 DEF SubnetInv

\* A subnet is put in, in the place of the one with its id if there is one.
LEMMA SubnetsPut ==
  ASSUME SubnetInv, NEW c \in Configs, NEW s \in Subnets, subnet[s] # Nothing,
         NEW G \in SUBSET Subnets, G = {t \in cfg[c] : subnet[t].id = subnet[s].id},
         cfg' = [cfg EXCEPT ![c] = (@ \ G) \cup {s}], UNCHANGED subnet,
         uses' = Taken(uses, {s}),
         \A t : Cardinality(Views(t)') = Cardinality(Views(t)) + One(G, t)
  PROVE  SubnetInv'
<1>1. /\ cfg \in [Configs -> SUBSET Subnets]
      /\ (cfg[c] \ G) \cup {s} \in SUBSET Subnets
      /\ cfg' = [cfg EXCEPT ![c] = (cfg[c] \ G) \cup {s}]
  BY DEF SubnetInv
<1>2. cfg' \in [Configs -> SUBSET Subnets]
  BY <1>1
<1>3. ASSUME NEW t \in Subnets
      PROVE  /\ uses'[t] \in Nat
             /\ uses'[t] = Cardinality(Views(t)') + Cardinality(Configured(t)')
             /\ uses'[t] = 0 <=> subnet'[t] = Nothing
  <2> DEFINE New == (cfg[c] \ G) \cup {s}
  <2>1. Cardinality(Configured(t)') + One(cfg[c], t) = Cardinality(Configured(t)) + One(New, t)
    BY <1>1, ConfiguredChanges
  <2>2. One(New, t) + One(G, t) = One(cfg[c], t) + One({s}, t)
    <3>1. /\ t \in G => t \in cfg[c]
          /\ t = s /\ t \in cfg[c] => t \in G
      OBVIOUS
    <3> QED
      BY <3>1 DEF One
  <2>3. /\ Cardinality(Views(t)) \in Nat /\ Cardinality(Configured(t)) \in Nat
        /\ Cardinality(Views(t)') \in Nat /\ Cardinality(Configured(t)') \in Nat
    BY Counts, CountsPrimed
  <2>4. /\ One(G, t) \in {0, 1} /\ One({s}, t) \in {0, 1} /\ One(New, t) \in {0, 1}
        /\ One(cfg[c], t) \in {0, 1}
        /\ One({s}, t) = 1 => subnet[t] # Nothing
    BY DEF One
  <2>5. /\ uses[t] = Cardinality(Views(t)) + Cardinality(Configured(t)) /\ uses[t] \in Nat
        /\ uses[t] = 0 <=> subnet[t] = Nothing
    BY DEF SubnetInv
  <2>6. uses'[t] = uses[t] + One({s}, t)
    BY DEF SubnetInv, Taken
  <2> HIDE DEF New
  <2>7. uses'[t] = Cardinality(Views(t)') + Cardinality(Configured(t)')
    BY <2>1, <2>2, <2>3, <2>4, <2>5, <2>6
  <2> QED
    BY <2>4, <2>5, <2>6, <2>7
<1>4. uses' \in [Subnets -> Nat]
  BY <1>3 DEF SubnetInv, Taken
<1>5. \A d \in Configs : \A t, u \in cfg'[d] : subnet'[t].id = subnet'[u].id => t = u
  BY <1>1 DEF SubnetInv
<1> QED
  BY <1>2, <1>3, <1>4, <1>5 DEF SubnetInv

-----------------------------------------------------------------------------
(* The configurations and their use_count.                                 *)

\* A configuration that is referred to is counted.
LEMMA ConfigIsThere ==
  ASSUME PythonInv, ConfigInv
  PROVE  /\ \A c \in InUse : cfgUses[c] > 0
         /\ \A o \in Objects, c \in Configs : object[o] = ConfigFromPtr(c) => cfgUses[c] > 0
<1>1. /\ InUse \subseteq Configs
      /\ \A c \in Configs : /\ cfgUses[c] = Cardinality(Viewers(c)) + One(InUse, c)
                            /\ cfgUses[c] \in Nat
  BY DEF ConfigInv, InUse
<1>2. \A c : /\ Cardinality(Viewers(c)) \in Nat /\ (Cardinality(Viewers(c)) = 0 <=> Viewers(c) = {})
             /\ One(InUse, c) \in {0, 1} /\ (c \in InUse => One(InUse, c) = 1)
  BY Counts DEF One
<1>3. \A o \in Objects, c \in Configs : object[o] = ConfigFromPtr(c) => Viewers(c) # {}
  BY DEF Viewers
<1> QED
  BY <1>1, <1>2, <1>3

\* A configuration without owners stays empty.
LEMMA ConfigsKept ==
  ASSUME ConfigInv, UNCHANGED <<cfgUses, current, staging>>,
         \A c : Cardinality(Viewers(c)') = Cardinality(Viewers(c)),
         \A c \in Configs : cfgUses[c] = 0 => cfg'[c] = {}
  PROVE  ConfigInv'
<1>1. InUse' = InUse
  BY DEF InUse
<1> QED
  BY <1>1 DEF ConfigInv

\* A new wrapper of the configuration c.
LEMMA ConfigsTaken ==
  ASSUME ConfigInv, NEW c \in Configs, cfgUses' = Taken(cfgUses, {c}),
         UNCHANGED <<cfg, current, staging>>,
         \A d : Cardinality(Viewers(d)') = Cardinality(Viewers(d)) + One({c}, d)
  PROVE  ConfigInv'
<1>1. InUse' = InUse
  BY DEF InUse
<1>2. ASSUME NEW d \in Configs
      PROVE  /\ cfgUses'[d] \in Nat
             /\ cfgUses'[d] = Cardinality(Viewers(d)') + One(InUse, d)
             /\ cfgUses'[d] = 0 => cfg'[d] = {}
  <2>1. cfgUses'[d] = cfgUses[d] + One({c}, d)
    BY DEF ConfigInv, Taken
  <2>2. /\ cfgUses[d] \in Nat /\ cfgUses[d] = Cardinality(Viewers(d)) + One(InUse, d)
        /\ cfgUses[d] = 0 => cfg[d] = {}
    BY DEF ConfigInv
  <2>3. Cardinality(Viewers(d)) \in Nat /\ One({c}, d) \in {0, 1} /\ One(InUse, d) \in {0, 1}
    BY Counts DEF One
  <2>4. Cardinality(Viewers(d)') = Cardinality(Viewers(d)) + One({c}, d)
    OBVIOUS
  <2> QED
    BY <2>1, <2>2, <2>3, <2>4
<1>3. cfgUses' \in [Configs -> Nat]
  BY <1>2 DEF ConfigInv, Taken
<1> QED
  BY <1>1, <1>2, <1>3 DEF ConfigInv

\* A wrapper of the configuration c goes; the last owner empties it.
LEMMA ConfigsReleased ==
  ASSUME ConfigInv, cfg \in [Configs -> SUBSET Subnets], NEW c \in Configs,
         cfgUses' = Dropped(cfgUses, {c}), UNCHANGED <<current, staging>>,
         cfg' = [cfg EXCEPT ![c] = @ \ (IF cfgUses[c] = 1 THEN cfg[c] ELSE {})],
         \A d : Cardinality(Viewers(d)') + One({c}, d) = Cardinality(Viewers(d))
  PROVE  ConfigInv'
<1>1. InUse' = InUse
  BY DEF InUse
<1>2. ASSUME NEW d \in Configs
      PROVE  /\ cfgUses'[d] \in Nat
             /\ cfgUses'[d] = Cardinality(Viewers(d)') + One(InUse, d)
             /\ cfgUses'[d] = 0 => cfg'[d] = {}
  <2>1. cfgUses'[d] = cfgUses[d] - One({c}, d)
    BY DEF ConfigInv, Dropped
  <2>2. /\ cfgUses[d] \in Nat /\ cfgUses[d] = Cardinality(Viewers(d)) + One(InUse, d)
        /\ cfgUses[d] = 0 => cfg[d] = {}
    BY DEF ConfigInv
  <2>3. Cardinality(Viewers(d)') \in Nat /\ Cardinality(Viewers(d)) \in Nat /\ One(InUse, d) \in {0, 1}
    BY Counts, CountsPrimed DEF One
  <2>4. Cardinality(Viewers(d)') + One({c}, d) = Cardinality(Viewers(d))
    OBVIOUS
  <2>5. One({c}, d) = IF d = c THEN 1 ELSE 0
    BY DEF One
  <2>6. /\ d # c => cfg'[d] = cfg[d]
        /\ d = c /\ cfgUses[c] = 1 => cfg'[d] = {}
    OBVIOUS
  <2>7. cfgUses'[d] \in Nat /\ cfgUses'[d] = Cardinality(Viewers(d)') + One(InUse, d)
    BY <2>1, <2>2, <2>3, <2>4, <2>5
  <2>8. CASE d = c
    <3>1. cfgUses'[d] = 0 => cfgUses[c] = 1
      BY <2>1, <2>2, <2>5, <2>8
    <3> QED
      BY <2>6, <2>7, <2>8, <3>1
  <2>9. CASE d # c
    <3>1. cfgUses'[d] = cfgUses[d]
      BY <2>1, <2>2, <2>5, <2>9
    <3> QED
      BY <2>2, <2>6, <2>7, <2>9, <3>1
  <2> QED
    BY <2>8, <2>9
<1>3. cfgUses' \in [Configs -> Nat]
  BY <1>2 DEF ConfigInv, Dropped
<1> QED
  BY <1>1, <1>2, <1>3 DEF ConfigInv

\* The staging configuration becomes the current one, a new one the staging.
LEMMA ConfigsCommitted ==
  ASSUME ConfigInv, cfg \in [Configs -> SUBSET Subnets], NEW new \in Configs, cfgUses[new] = 0,
         current' = staging, staging' = new,
         cfgUses' = Taken(Dropped(cfgUses, {current}), {new}),
         cfg' = [cfg EXCEPT ![current] = @ \ (IF cfgUses[current] = 1 THEN cfg[current] ELSE {})],
         \A d : Cardinality(Viewers(d)') = Cardinality(Viewers(d))
  PROVE  ConfigInv'
<1>1. /\ current \in Configs /\ staging \in Configs /\ staging # current
      /\ InUse = {current, staging} /\ InUse' = {staging, new}
  BY DEF ConfigInv, InUse
<1>2. \A d \in Configs : /\ cfgUses[d] \in Nat
                         /\ cfgUses[d] = Cardinality(Viewers(d)) + One(InUse, d)
                         /\ cfgUses[d] = 0 => cfg[d] = {}
  BY DEF ConfigInv
<1>3. new # current /\ new # staging
  <2>1. Cardinality(Viewers(current)) \in Nat /\ Cardinality(Viewers(staging)) \in Nat
    BY Counts
  <2>2. One(InUse, current) = 1 /\ One(InUse, staging) = 1
    BY <1>1 DEF One
  <2> QED
    BY <1>1, <1>2, <2>1, <2>2
<1>4. ASSUME NEW d \in Configs
      PROVE  /\ cfgUses'[d] \in Nat
             /\ cfgUses'[d] = Cardinality(Viewers(d)') + One(InUse', d)
             /\ cfgUses'[d] = 0 => cfg'[d] = {}
  <2>1. cfgUses'[d] = cfgUses[d] - One({current}, d) + One({new}, d)
    BY DEF ConfigInv, Dropped, Taken
  <2>2. Cardinality(Viewers(d)') = Cardinality(Viewers(d)) /\ Cardinality(Viewers(d)) \in Nat
    BY Counts
  <2>3. /\ One({current}, d) = IF d = current THEN 1 ELSE 0
        /\ One({new}, d) = IF d = new THEN 1 ELSE 0
        /\ One(InUse, d) = IF d = current \/ d = staging THEN 1 ELSE 0
        /\ One(InUse', d) = IF d = staging \/ d = new THEN 1 ELSE 0
    BY <1>1 DEF One
  <2>4. /\ d # current => cfg'[d] = cfg[d]
        /\ d = current /\ cfgUses[current] = 1 => cfg'[d] = {}
    BY <1>1
  <2>5. cfgUses'[d] \in Nat /\ cfgUses'[d] = Cardinality(Viewers(d)') + One(InUse', d)
    BY <1>1, <1>2, <1>3, <2>1, <2>2, <2>3
  <2>6. cfgUses'[d] = 0 => cfg'[d] = {}
    BY <1>1, <1>2, <1>3, <2>1, <2>3, <2>4
  <2> QED
    BY <2>5, <2>6
<1>5. cfgUses' \in [Configs -> Nat]
  BY <1>4 DEF ConfigInv, Dropped, Taken
<1> QED
  BY <1>1, <1>3, <1>4, <1>5 DEF ConfigInv

-----------------------------------------------------------------------------
(* The steps.                                                              *)

\* The Python objects stay as they are.
LEMMA PythonKept ==
  ASSUME PythonInv, UNCHANGED object
  PROVE  /\ \A s : Cardinality(Views(s)') = Cardinality(Views(s))
         /\ \A c : Cardinality(Viewers(c)') = Cardinality(Viewers(c))
         /\ UNCHANGED Python => PythonInv'
<1>1. \A s : Views(s)' = Views(s) /\ Viewers(s)' = Viewers(s)
  BY DEF Views, Viewers, Free, Owned
<1>2. UNCHANGED Python => PythonInv'
  BY DEF Python, PythonInv, Free
<1> QED
  BY <1>1, <1>2

\* A new wrapper of a Subnet4.
LEMMA NewWrapper ==
  ASSUME PythonInv, NEW o \in Objects, Free(o), NEW s \in Subnets,
         NEW v \in {FromPtr(s), FromConstPtr(s)}, Created(At(o, v))
  PROVE  /\ PythonInv'
         /\ \A t : Cardinality(Views(t)') = Cardinality(Views(t)) + One({s}, t)
         /\ \A c : Cardinality(Viewers(c)') = Cardinality(Viewers(c))
<1>1. v \in View /\ OnePointer(v) /\ Behind(v) = {s} /\ Of(v) = {}
  BY BehindOf DEF View
<1>2. /\ PythonInv'
      /\ \A t : Cardinality(Views(t)') = Cardinality(Views(t)) + One({s}, t)
      /\ \A c : Cardinality(Viewers(c)') = Cardinality(Viewers(c)) + One({}, c)
  BY <1>1, CreatedOne
<1>3. \A c : One({}, c) = 0 /\ Cardinality(Viewers(c)) \in Nat
  BY Counts DEF One
<1> QED
  BY <1>2, <1>3

\* A CfgSubnets4 that a program has is there.
LEMMA HeldConfig ==
  ASSUME IInv, NEW c \in Objects, Holds(c, "CfgSubnets4")
  PROVE  /\ object[c].ptr \in Configs /\ cfgUses[object[c].ptr] > 0
         /\ cfg[object[c].ptr] \in SUBSET Subnets
         /\ \A s \in cfg[object[c].ptr] : s \in Subnets /\ subnet[s] # Nothing
<1>1. object[c] \in ConfigView
  BY DEF IInv, PythonInv, Holds, View, Nothing, SubnetView
<1>2. object[c].ptr \in Configs /\ object[c] = ConfigFromPtr(object[c].ptr)
  BY <1>1 DEF ConfigView, ConfigFromPtr
<1>3. cfgUses[object[c].ptr] > 0
  BY <1>2, ConfigIsThere DEF IInv
<1>4. cfg[object[c].ptr] \in SUBSET Subnets
  BY <1>2 DEF IInv, SubnetInv
<1>5. \A s \in cfg[object[c].ptr] : s \in Subnets /\ subnet[s] # Nothing
  BY <1>2, <1>4, OwnedIsThere DEF IInv
<1> QED
  BY <1>2, <1>3, <1>4, <1>5

\* So is a Subnet4, behind one of the two pointers.
LEMMA HeldSubnet ==
  ASSUME IInv, NEW o \in Objects, Holds(o, "Subnet4")
  PROVE  /\ object[o].is_const \in BOOLEAN /\ Pointer(o) # Null
         /\ object[o].is_const <=> object[o].ptr = Null
         /\ object[o].ptr # Null => object[o].ptr \in Subnets /\ subnet[object[o].ptr] \in Subnet
         /\ subnet[Pointer(o)] # Nothing
<1>1. object[o] \in SubnetView
  BY DEF IInv, PythonInv, Holds, View, Nothing, ConfigView
<1>2. /\ object[o].is_const \in BOOLEAN /\ Pointer(o) # Null /\ Pointer(o) \in Subnets
      /\ object[o].is_const <=> object[o].ptr = Null
      /\ object[o].ptr # Null => object[o].ptr = Pointer(o)
      /\ Pointer(o) \in Behind(object[o])
  BY <1>1 DEF IInv, PythonInv, OnePointer, SubnetView, Pointer, Behind
<1>3. o \in Views(Pointer(o))
  BY <1>2, ViewsAre DEF IInv, PythonInv
<1>4. subnet[Pointer(o)] # Nothing /\ subnet[Pointer(o)] \in Subnet
  BY <1>2, <1>3, OwnedIsThere DEF IInv
<1> QED
  BY <1>2, <1>4

LEMMA GetCfgSubnets4Inv ==
  ASSUME IInv, NEW o \in Objects, NEW c \in Configs, GetCfgSubnets4(o, c)
  PROVE  IInv'
<1>1. /\ Free(o) /\ Created(At(o, ConfigFromPtr(c))) /\ cfgUses' = Taken(cfgUses, {c})
      /\ UNCHANGED <<subnet, uses, cfg, current, staging, aborted>>
  BY DEF GetCfgSubnets4
<1>2. /\ ConfigFromPtr(c) \in View /\ OnePointer(ConfigFromPtr(c))
      /\ Behind(ConfigFromPtr(c)) = {} /\ Of(ConfigFromPtr(c)) = {c}
  BY BehindOf DEF View
<1>3. /\ PythonInv'
      /\ \A s : Cardinality(Views(s)') = Cardinality(Views(s)) + One({}, s)
      /\ \A d : Cardinality(Viewers(d)') = Cardinality(Viewers(d)) + One({c}, d)
  BY <1>1, <1>2, CreatedOne DEF IInv
<1>4. \A s : Cardinality(Views(s)') = Cardinality(Views(s))
  <2>1. \A s : One({}, s) = 0 /\ Cardinality(Views(s)) \in Nat
    BY Counts DEF One
  <2> QED
    BY <1>3, <2>1
<1>5. SubnetInv'
  BY <1>1, <1>4, SubnetsKept DEF IInv
<1>6. ConfigInv'
  BY <1>1, <1>3, ConfigsTaken DEF IInv
<1> QED
  BY <1>1, <1>3, <1>5, <1>6 DEF IInv, AbortInv

LEMMA NewSubnetInv ==
  ASSUME IInv, NEW o \in Objects, NEW s \in Subnets, NEW i \in Ids, NewSubnet(o, s, i)
  PROVE  IInv'
<1>1. /\ Free(o) /\ subnet[s] = Nothing /\ Created(At(o, FromPtr(s))) /\ uses' = Taken(uses, {s})
      /\ subnet' = [subnet EXCEPT ![s] = [id |-> i, tags |-> {}]]
      /\ UNCHANGED <<cfg, cfgUses, current, staging, aborted>>
  BY DEF NewSubnet
<1>2. /\ PythonInv'
      /\ \A t : Cardinality(Views(t)') = Cardinality(Views(t)) + One({s}, t)
      /\ \A c : Cardinality(Viewers(c)') = Cardinality(Viewers(c))
  BY <1>1, NewWrapper DEF IInv
<1>3. SubnetInv'
  BY <1>1, <1>2, SubnetsNew DEF IInv
<1>4. ConfigInv'
  BY <1>1, <1>2, ConfigsKept DEF IInv, ConfigInv
<1> QED
  BY <1>1, <1>2, <1>3, <1>4 DEF IInv, AbortInv

\* getSubnet and selectSubnet.
LEMMA ReturnInv ==
  ASSUME IInv, NEW o \in Objects, NEW s \in Subnets, subnet[s] # Nothing,
         NEW v \in {FromPtr(s), FromConstPtr(s)}, Return(o, s, v)
  PROVE  IInv'
<1>1. /\ Free(o) /\ Created(At(o, v)) /\ uses' = Taken(uses, {s})
      /\ UNCHANGED <<subnet, cfg, cfgUses, current, staging, aborted>>
  BY DEF Return
<1>2. /\ PythonInv'
      /\ \A t : Cardinality(Views(t)') = Cardinality(Views(t)) + One({s}, t)
      /\ \A c : Cardinality(Viewers(c)') = Cardinality(Viewers(c))
  BY <1>1, NewWrapper DEF IInv
<1>3. {s} \in SUBSET Subnets /\ \A t \in {s} : subnet[t] # Nothing
  OBVIOUS
<1>4. SubnetInv'
  BY <1>1, <1>2, <1>3, SubnetsTaken DEF IInv
<1>5. ConfigInv'
  BY <1>1, <1>2, ConfigsKept DEF IInv, ConfigInv
<1> QED
  BY <1>1, <1>2, <1>4, <1>5 DEF IInv, AbortInv

LEMMA GetAllInv ==
  ASSUME IInv, NEW c \in Objects, GetAll(c)
  PROVE  IInv'
<1> DEFINE all == cfg[object[c].ptr]
<1>1. /\ uses' = Taken(uses, all) /\ UNCHANGED <<subnet, cfg, cfgUses, current, staging, aborted>>
      /\ all \in SUBSET Subnets /\ \A s \in all : subnet[s] # Nothing
  BY HeldConfig DEF GetAll, GetAllWith
<1>2. PICK place \in Injection(all, {o \in Objects : Free(o)}) :
        CreatedWith([o \in Range(place) |-> FromPtr(AntiFunction(place)[o])], 1)
  BY DEF GetAll, GetAllWith
<1> HIDE DEF all
<1>3. /\ PythonInv'
      /\ \A s : Cardinality(Views(s)') = Cardinality(Views(s)) + One(all, s)
      /\ \A d : Viewers(d)' = Viewers(d)
  BY <1>1, <1>2, CreatedAll DEF IInv
<1>4. SubnetInv'
  BY <1>1, <1>3, SubnetsTaken DEF IInv
<1>5. ConfigInv'
  BY <1>1, <1>3, ConfigsKept DEF IInv, ConfigInv
<1> QED
  BY <1>1, <1>3, <1>4, <1>5 DEF IInv, AbortInv

\* add and replace with a const Subnet4, by a program that passes one.
LEMMA AbortKeeps ==
  ASSUME IInv, PassesConst, Abort
  PROVE  IInv'
<1>1. UNCHANGED kea /\ UNCHANGED Python /\ aborted' = TRUE /\ UNCHANGED object
  BY DEF Abort, Python
<1>2. PythonInv' /\ \A s : Cardinality(Views(s)') = Cardinality(Views(s))
                 /\ Cardinality(Viewers(s)') = Cardinality(Viewers(s))
  BY <1>1, PythonKept DEF IInv
<1>3. SubnetInv'
  BY <1>1, <1>2, SubnetsKept DEF IInv, kea
<1>4. ConfigInv'
  BY <1>1, <1>2, ConfigsKept DEF IInv, kea, ConfigInv
<1> QED
  BY <1>1, <1>2, <1>3, <1>4 DEF IInv, AbortInv

LEMMA AddInv ==
  ASSUME IInv, NEW c \in Objects, NEW o \in Objects, Add(c, o)
  PROVE  IInv'
<1> DEFINE s == object[o].ptr
           to == object[c].ptr
<1>1. /\ Holds(c, "CfgSubnets4") /\ Holds(o, "Subnet4") /\ (object[o].is_const => PassesConst)
      /\ s = Null => Abort
      /\ s # Null => /\ \A t \in cfg[to] : subnet[t].id # subnet[s].id
                     /\ cfg' = [cfg EXCEPT ![to] = @ \cup {s}] /\ uses' = Taken(uses, {s})
                     /\ UNCHANGED <<subnet, cfgUses, current, staging, Python, aborted>>
  BY DEF Add
<1>2. /\ to \in Configs /\ cfgUses[to] > 0
      /\ s = Null <=> object[o].is_const
      /\ s # Null => s \in Subnets /\ subnet[s] \in Subnet
  BY <1>1, HeldConfig, HeldSubnet
<1> HIDE DEF s, to
<1>3. CASE s = Null
  BY <1>1, <1>2, <1>3, AbortKeeps
<1>4. CASE s # Null
  <2>1. UNCHANGED Python /\ UNCHANGED object
    BY <1>1, <1>4 DEF Python
  <2>2. /\ PythonInv'
        /\ \A t : Cardinality(Views(t)') = Cardinality(Views(t))
        /\ \A d : Cardinality(Viewers(d)') = Cardinality(Viewers(d))
    BY <2>1, PythonKept DEF IInv
  <2> DEFINE G == {t \in cfg[to] : subnet[t].id = subnet[s].id}
  <2>3. G = {}
    BY <1>1, <1>4
  <2>4. cfg' = [cfg EXCEPT ![to] = (@ \ G) \cup {s}]
    BY <1>1, <1>4, <2>3
  <2>5. \A t : Cardinality(Views(t)') = Cardinality(Views(t)) + One(G, t)
    <3>1. \A t : One(G, t) = 0 /\ Cardinality(Views(t)) \in Nat
      BY <2>3, Counts DEF One
    <3> QED
      BY <2>2, <3>1
  <2>6. subnet[s] # Nothing
    BY <1>2, <1>4 DEF Subnet, Nothing
  <2>7. SubnetInv'
    <3>1. G \in SUBSET Subnets
      BY <2>3
    <3> QED
      BY <1>1, <1>2, <1>4, <2>4, <2>5, <2>6, <3>1, SubnetsPut DEF IInv
  <2>8. \A d \in Configs : cfgUses[d] = 0 => cfg'[d] = {}
    <3>1. ASSUME NEW d \in Configs, cfgUses[d] = 0
          PROVE  cfg'[d] = {}
      <4>1. d # to
        BY <1>2, <3>1
      <4>2. cfg'[d] = cfg[d]
        BY <1>1, <1>4, <4>1 DEF IInv, SubnetInv
      <4> QED
        BY <3>1, <4>2 DEF IInv, ConfigInv
    <3> QED
      BY <3>1
  <2>9. ConfigInv'
    BY <1>1, <1>4, <2>2, <2>8, ConfigsKept DEF IInv
  <2> QED
    BY <1>1, <1>4, <2>2, <2>7, <2>9 DEF IInv, AbortInv
<1> QED
  BY <1>3, <1>4

LEMMA ReplaceInv ==
  ASSUME IInv, NEW c \in Objects, NEW o \in Objects, NEW r \in Objects, Replace(c, o, r)
  PROVE  IInv'
<1> DEFINE s == object[o].ptr
           to == object[c].ptr
<1>1. /\ Holds(c, "CfgSubnets4") /\ Holds(o, "Subnet4") /\ (object[o].is_const => PassesConst)
      /\ s = Null => Abort
      /\ s # Null => \E t \in cfg[to] :
           /\ subnet[t].id = subnet[s].id /\ Free(r) /\ Created(At(r, FromPtr(t)))
           /\ cfg' = [cfg EXCEPT ![to] = (@ \ {t}) \cup {s}]
           /\ uses' = Taken(Taken(Dropped(uses, {t}), {s}), {t})
           /\ UNCHANGED <<subnet, cfgUses, current, staging, aborted>>
  BY DEF Replace
<1>2. /\ to \in Configs /\ cfgUses[to] > 0 /\ cfg[to] \in SUBSET Subnets
      /\ s = Null <=> object[o].is_const
      /\ s # Null => s \in Subnets /\ subnet[s] \in Subnet
  BY <1>1, HeldConfig, HeldSubnet
<1> HIDE DEF s, to
<1>3. CASE s = Null
  BY <1>1, <1>2, <1>3, AbortKeeps
<1>4. CASE s # Null
  <2>1. PICK t \in cfg[to] :
          /\ subnet[t].id = subnet[s].id /\ Free(r) /\ Created(At(r, FromPtr(t)))
          /\ cfg' = [cfg EXCEPT ![to] = (@ \ {t}) \cup {s}]
          /\ uses' = Taken(Taken(Dropped(uses, {t}), {s}), {t})
          /\ UNCHANGED <<subnet, cfgUses, current, staging, aborted>>
    BY <1>1, <1>4
  <2>2. t \in Subnets /\ FromPtr(t) \in {FromPtr(t), FromConstPtr(t)}
    BY <1>2
  <2>3. /\ PythonInv'
        /\ \A u : Cardinality(Views(u)') = Cardinality(Views(u)) + One({t}, u)
        /\ \A d : Cardinality(Viewers(d)') = Cardinality(Viewers(d))
    BY <2>1, <2>2, NewWrapper DEF IInv
  <2> DEFINE G == {u \in cfg[to] : subnet[u].id = subnet[s].id}
  <2>4. G = {t}
    BY <1>2, <2>1 DEF IInv, SubnetInv
  <2>5. uses' = Taken(uses, {s})
    <3>1. uses \in [Subnets -> Nat]
      BY DEF IInv, SubnetInv
    <3>2. ASSUME NEW u \in Subnets
          PROVE  uses[u] - One({t}, u) + One({s}, u) + One({t}, u) = uses[u] + One({s}, u)
      <4>1. One({t}, u) \in {0, 1} /\ One({s}, u) \in {0, 1} /\ uses[u] \in Nat
        BY <3>1 DEF One
      <4> QED
        BY <4>1
    <3>3. uses' = [u \in Subnets |-> uses[u] - One({t}, u) + One({s}, u) + One({t}, u)]
      BY <2>1, <3>1 DEF Taken, Dropped
    <3>4. Taken(uses, {s}) = [u \in Subnets |-> uses[u] + One({s}, u)]
      BY <3>1 DEF Taken
    <3> QED
      BY <3>2, <3>3, <3>4
  <2>6. SubnetInv'
    <3>1. /\ cfg' = [cfg EXCEPT ![to] = (@ \ G) \cup {s}] /\ G \in SUBSET Subnets
          /\ \A u : Cardinality(Views(u)') = Cardinality(Views(u)) + One(G, u)
          /\ UNCHANGED subnet
      BY <2>1, <2>2, <2>3, <2>4
    <3>2. subnet[s] # Nothing
      BY <1>2, <1>4 DEF Subnet, Nothing
    <3> QED
      BY <1>2, <1>4, <2>5, <3>1, <3>2, SubnetsPut DEF IInv
  <2>7. \A d \in Configs : cfgUses[d] = 0 => cfg'[d] = {}
    <3>1. ASSUME NEW d \in Configs, cfgUses[d] = 0
          PROVE  cfg'[d] = {}
      <4>1. d # to
        BY <1>2, <3>1
      <4>2. cfg'[d] = cfg[d]
        BY <2>1, <4>1 DEF IInv, SubnetInv
      <4> QED
        BY <3>1, <4>2 DEF IInv, ConfigInv
    <3> QED
      BY <3>1
  <2>8. ConfigInv'
    BY <2>1, <2>3, <2>7, ConfigsKept DEF IInv
  <2> QED
    BY <2>1, <2>3, <2>6, <2>8 DEF IInv, AbortInv
<1> QED
  BY <1>3, <1>4

\* delSubnetID and clear.
LEMMA RemoveInv ==
  ASSUME IInv, NEW c \in Configs, NEW S \in SUBSET cfg[c], Remove(c, S)
  PROVE  IInv'
<1>1. /\ cfg' = [cfg EXCEPT ![c] = @ \ S] /\ uses' = Dropped(uses, S) /\ subnet' = Alive(uses')
      /\ UNCHANGED <<cfgUses, current, staging, Python, aborted>> /\ UNCHANGED object
  BY DEF Remove, Python
<1>2. /\ PythonInv'
      /\ \A t : Cardinality(Views(t)') = Cardinality(Views(t))
      /\ \A d : Cardinality(Viewers(d)') = Cardinality(Viewers(d))
  BY <1>1, PythonKept DEF IInv
<1>3. SubnetInv'
  BY <1>1, <1>2, SubnetsLost DEF IInv
<1>4. \A d \in Configs : cfgUses[d] = 0 => cfg'[d] = {}
  BY <1>1 DEF IInv, ConfigInv, SubnetInv
<1>5. ConfigInv'
  BY <1>1, <1>2, <1>4, ConfigsKept DEF IInv
<1> QED
  BY <1>1, <1>2, <1>3, <1>5 DEF IInv, AbortInv

LEMMA NothingChanges ==
  ASSUME IInv, UNCHANGED vars
  PROVE  IInv'
<1>1. UNCHANGED object /\ UNCHANGED Python
  BY DEF vars, Python
<1>2. /\ PythonInv'
      /\ \A s : Cardinality(Views(s)') = Cardinality(Views(s))
      /\ \A d : Cardinality(Viewers(d)') = Cardinality(Viewers(d))
  BY <1>1, PythonKept DEF IInv
<1>3. SubnetInv' /\ ConfigInv'
  BY <1>2, SubnetsKept, ConfigsKept DEF vars, IInv, ConfigInv
<1> QED
  BY <1>2, <1>3 DEF vars, IInv, AbortInv

\* The methods of Subnet4 find their pointer set.
LEMMA ReadInv ==
  ASSUME IInv, NEW o \in Objects, Read(o)
  PROVE  IInv'
  BY HeldSubnet, NothingChanges DEF Read

LEMMA TagInv ==
  ASSUME IInv, NEW o \in Objects, NEW t \in Tags, SetServerTag(o, t) \/ DelServerTag(o, t)
  PROVE  IInv'
<1> DEFINE s == object[o].ptr
<1>1. Holds(o, "Subnet4") /\ ~object[o].is_const
  BY DEF SetServerTag, DelServerTag
<1>2. s # Null /\ s \in Subnets /\ subnet[s] \in Subnet /\ Pointer(o) = s
  BY <1>1, HeldSubnet DEF Pointer
<1>3. PICK tags \in SUBSET Tags : Tagged(o, tags)
  <2>1. TagsOf(o) \cup {t} \in SUBSET Tags /\ TagsOf(o) \ {t} \in SUBSET Tags
    BY <1>2 DEF TagsOf, Subnet
  <2> QED
    BY <2>1 DEF SetServerTag, DelServerTag
<1>4. /\ subnet' = [subnet EXCEPT ![s].tags = tags]
      /\ UNCHANGED <<uses, cfg, cfgUses, current, staging, Python, aborted>>
      /\ UNCHANGED object
  BY <1>2, <1>3 DEF Tagged, Python
<1> HIDE DEF s
<1>5. /\ PythonInv'
      /\ \A u : Cardinality(Views(u)') = Cardinality(Views(u))
      /\ \A d : Cardinality(Viewers(d)') = Cardinality(Viewers(d))
  BY <1>4, PythonKept DEF IInv
<1>6. /\ subnet'[s] \in Subnet /\ subnet'[s].id = subnet[s].id /\ subnet'[s] # Nothing
      /\ subnet[s] # Nothing
  BY <1>2, <1>4 DEF IInv, SubnetInv, Subnet, Nothing
<1>7. \A u \in Subnets : /\ subnet'[u] \in Subnet \cup {Nothing}
                         /\ subnet'[u] = Nothing <=> subnet[u] = Nothing
                         /\ subnet'[u].id = subnet[u].id
  <2>1. \A u \in Subnets \ {s} : subnet'[u] = subnet[u]
    BY <1>4 DEF IInv, SubnetInv
  <2> QED
    BY <1>6, <2>1 DEF IInv, SubnetInv
<1>8. subnet' \in [Subnets -> Subnet \cup {Nothing}]
  BY <1>4, <1>7 DEF IInv, SubnetInv
<1>9. \A u : Configured(u)' = Configured(u)
  BY <1>4 DEF Configured
<1>10. SubnetInv'
  <2>1. \A u \in Subnets : uses'[u] = Cardinality(Views(u)') + Cardinality(Configured(u)')
    BY <1>4, <1>5, <1>9 DEF IInv, SubnetInv
  <2>2. \A u \in Subnets : uses'[u] = 0 <=> subnet'[u] = Nothing
    BY <1>4, <1>7 DEF IInv, SubnetInv
  <2>3. \A c \in Configs : \A u, v \in cfg'[c] : subnet'[u].id = subnet'[v].id => u = v
    BY <1>4, <1>7 DEF IInv, SubnetInv
  <2>4. uses' \in [Subnets -> Nat] /\ cfg' \in [Configs -> SUBSET Subnets]
    BY <1>4 DEF IInv, SubnetInv
  <2> QED
    BY <1>8, <2>1, <2>2, <2>3, <2>4 DEF SubnetInv
<1>11. ConfigInv'
  BY <1>4, <1>5, ConfigsKept DEF IInv, ConfigInv
<1> QED
  BY <1>4, <1>5, <1>10, <1>11 DEF IInv, AbortInv

LEMMA RetainInv ==
  ASSUME IInv, NEW o \in Objects, Retain(o)
  PROVE  IInv'
<1>1. /\ held[o] \in 1 .. MaxHeld - 1
      /\ held' = [held EXCEPT ![o] = @ + 1] /\ refs' = [refs EXCEPT ![o] = @ + 1]
      /\ UNCHANGED <<kea, aborted>> /\ UNCHANGED object
  BY DEF Retain
<1>2. /\ \A t : Cardinality(Views(t)') = Cardinality(Views(t))
      /\ \A d : Cardinality(Viewers(d)') = Cardinality(Viewers(d))
  BY <1>1, PythonKept DEF IInv
<1>3. PythonInv'
  <2>1. held' \in [Objects -> 0 .. MaxHeld] /\ refs' \in [Objects -> Nat]
    BY <1>1, HeldAssumption DEF IInv, PythonInv
  <2>2. \A p \in Objects : refs'[p] = held'[p] /\ (held'[p] = 0 <=> object'[p] = Nothing)
    BY <1>1, HeldAssumption DEF IInv, PythonInv, Free
  <2> QED
    BY <1>1, <2>1, <2>2 DEF IInv, PythonInv, Free
<1>4. SubnetInv' /\ ConfigInv'
  BY <1>1, <1>2, SubnetsKept, ConfigsKept DEF kea, IInv, ConfigInv
<1> QED
  BY <1>1, <1>3, <1>4 DEF IInv, AbortInv

\* With the last reference to a wrapper goes what it owns.
LEMMA DropInv ==
  ASSUME IInv, NEW o \in Objects, Drop(o)
  PROVE  IInv'
<1>1. /\ PythonInv'
      /\ object[o] \in View
      /\ refs[o] # 1 => UNCHANGED <<subnet, uses, cfg, cfgUses, object>>
      /\ refs[o] = 1 =>
           /\ \A s : Cardinality(Views(s)') + One(Behind(object[o]), s) = Cardinality(Views(s))
           /\ \A c : Cardinality(Viewers(c)') + One(Of(object[o]), c) = Cardinality(Viewers(c))
  BY DroppedOne DEF IInv
<1>2. UNCHANGED <<current, staging, aborted>>
  BY DEF Drop
<1>3. \A s : Cardinality(Views(s)') \in Nat /\ Cardinality(Viewers(s)') \in Nat
  BY CountsPrimed
<1>4. CASE refs[o] # 1
  <2>1. /\ \A s : Cardinality(Views(s)') = Cardinality(Views(s))
        /\ \A d : Cardinality(Viewers(d)') = Cardinality(Viewers(d))
    BY <1>1, <1>4, PythonKept DEF IInv
  <2>2. SubnetInv' /\ ConfigInv'
    BY <1>1, <1>2, <1>4, <2>1, SubnetsKept, ConfigsKept DEF IInv, ConfigInv
  <2> QED
    BY <1>1, <1>2, <2>2 DEF IInv, AbortInv
<1>5. CASE refs[o] = 1 /\ object[o] \in SubnetView
  <2>1. /\ object[o].type = "Subnet4" /\ Of(object[o]) = {}
        /\ Owned(o) = Behind(object[o]) /\ Behind(object[o]) \in SUBSET Subnets
    BY <1>5 DEF SubnetView, Of, Owned, Behind
  <2>2. /\ uses' = Dropped(uses, Behind(object[o])) /\ subnet' = Alive(uses')
        /\ UNCHANGED <<cfg, cfgUses>>
    BY <1>5, <2>1 DEF Drop, Dealloc, SubnetDealloc, SubnetReleased
  <2>3. SubnetInv'
    BY <1>1, <1>5, <2>1, <2>2, SubnetsReleased DEF IInv
  <2>4. \A c : Cardinality(Viewers(c)') = Cardinality(Viewers(c))
    <3>1. \A c : One(Of(object[o]), c) = 0
      BY <2>1 DEF One
    <3> QED
      BY <1>1, <1>3, <1>5, <3>1
  <2>5. ConfigInv'
    BY <1>2, <2>2, <2>4, ConfigsKept DEF IInv, ConfigInv
  <2> QED
    BY <1>1, <1>2, <2>3, <2>5 DEF IInv, AbortInv
<1>6. CASE refs[o] = 1 /\ object[o] \in ConfigView
  <2> DEFINE c == object[o].ptr
             lost == IF cfgUses[c] = 1 THEN cfg[c] ELSE {}
  <2>1. /\ object[o].type = "CfgSubnets4" /\ c \in Configs
        /\ Of(object[o]) = {c} /\ Behind(object[o]) = {}
    BY <1>6 DEF ConfigView, Of, Behind
  <2>2. /\ cfgUses' = Dropped(cfgUses, {c}) /\ cfg' = [cfg EXCEPT ![c] = @ \ lost]
        /\ uses' = Dropped(uses, lost) /\ subnet' = Alive(uses')
    BY <1>6, <2>1 DEF Drop, Dealloc, ConfigReleased
  <2>3. lost \in SUBSET cfg[c]
    OBVIOUS
  <2>4. /\ \A s : Cardinality(Views(s)') = Cardinality(Views(s))
        /\ \A d : Cardinality(Viewers(d)') + One({c}, d) = Cardinality(Viewers(d))
    <3>1. \A s : One(Behind(object[o]), s) = 0
      BY <2>1 DEF One
    <3> QED
      BY <1>1, <1>3, <1>6, <2>1, <3>1
  <2>5. cfg \in [Configs -> SUBSET Subnets]
    BY DEF IInv, SubnetInv
  <2> HIDE DEF c
  <2>6. ConfigInv'
    BY <1>2, <2>1, <2>2, <2>4, <2>5, ConfigsReleased DEF IInv
  <2> HIDE DEF lost
  <2>7. SubnetInv'
    BY <2>1, <2>2, <2>3, <2>4, SubnetsLost DEF IInv
  <2> QED
    BY <1>1, <1>2, <2>6, <2>7 DEF IInv, AbortInv
<1> QED
  BY <1>1, <1>4, <1>5, <1>6 DEF View

LEMMA CommitInv ==
  ASSUME IInv, NEW new \in Configs, Commit(new)
  PROVE  IInv'
<1> DEFINE lost == IF cfgUses[current] = 1 THEN cfg[current] ELSE {}
<1>1. /\ cfgUses[new] = 0 /\ current' = staging /\ staging' = new
      /\ cfgUses' = Taken(Dropped(cfgUses, {current}), {new})
      /\ cfg' = [cfg EXCEPT ![current] = @ \ lost]
      /\ uses' = Dropped(uses, lost) /\ subnet' = Alive(uses')
      /\ UNCHANGED <<Python, aborted>> /\ UNCHANGED object
  BY DEF Commit, Python
<1>2. /\ PythonInv'
      /\ \A t : Cardinality(Views(t)') = Cardinality(Views(t))
      /\ \A d : Cardinality(Viewers(d)') = Cardinality(Viewers(d))
  BY <1>1, PythonKept DEF IInv
<1>3. lost \in SUBSET cfg[current] /\ current \in Configs /\ cfg \in [Configs -> SUBSET Subnets]
  BY DEF IInv, SubnetInv, ConfigInv
<1>4. ConfigInv'
  BY <1>1, <1>2, <1>3, ConfigsCommitted DEF IInv
<1> HIDE DEF lost
<1>5. SubnetInv'
  BY <1>1, <1>2, <1>3, SubnetsLost DEF IInv
<1> QED
  BY <1>1, <1>2, <1>4, <1>5 DEF IInv, AbortInv

-----------------------------------------------------------------------------
(* The theorems.                                                           *)

\* Kea starts with two empty configurations and no Python object.
LEMMA InitInv == Init => IInv
<1> SUFFICES ASSUME Init
             PROVE  IInv
  OBVIOUS
<1>1. /\ subnet = [s \in Subnets |-> Nothing] /\ uses = [s \in Subnets |-> 0]
      /\ current \in Configs /\ staging \in Configs \ {current}
      /\ cfg = [c \in Configs |-> {}]
      /\ cfgUses = [c \in Configs |-> IF c \in {current, staging} THEN 1 ELSE 0]
      /\ object = [o \in Objects |-> Nothing]
      /\ refs = [o \in Objects |-> 0] /\ held = [o \in Objects |-> 0] /\ aborted = FALSE
  BY DEF Init
<1>2. \A s : Views(s) = {} /\ Viewers(s) = {} /\ Configured(s) = {}
  BY <1>1 DEF Views, Viewers, Configured, Free, Nothing, ConfigFromPtr
<1>3. \A s : /\ Cardinality(Views(s)) = 0 /\ Cardinality(Viewers(s)) = 0
             /\ Cardinality(Configured(s)) = 0
  BY <1>2, FS_EmptySet
<1>4. PythonInv
  BY <1>1, HeldAssumption DEF PythonInv, Free, OnePointer, Nothing
<1>5. SubnetInv
  BY <1>1, <1>3 DEF SubnetInv
<1>6. ConfigInv
  BY <1>1, <1>3 DEF ConfigInv, InUse, One
<1> QED
  BY <1>1, <1>4, <1>5, <1>6 DEF IInv, AbortInv

\* The inductive invariant.
THEOREM Invariance == Spec => []IInv
<1>1. IInv /\ [Next]_vars => IInv'
  <2> SUFFICES ASSUME IInv, [Next]_vars
               PROVE  IInv'
    OBVIOUS
  <2>1. CASE UNCHANGED vars
    BY <2>1, NothingChanges
  <2>2. CASE \E c \in Configs : Commit(c)
    BY <2>2, CommitInv
  <2>3. ASSUME NEW o \in Objects, NEW c \in Objects, GetSubnet(c, o) \/ SelectSubnet(c, o)
        PROVE  IInv'
    <3>1. Holds(c, "CfgSubnets4")
      BY <2>3 DEF GetSubnet, SelectSubnet
    <3>2. PICK s \in cfg[object[c].ptr] : \E v \in {FromPtr(s), FromConstPtr(s)} : Return(o, s, v)
      BY <2>3 DEF GetSubnet, SelectSubnet
    <3>3. s \in Subnets /\ subnet[s] # Nothing
      BY <3>1, HeldConfig
    <3> QED
      BY <3>2, <3>3, ReturnInv
  <2>4. ASSUME NEW o \in Objects, (\E i \in Ids : DelSubnetID(o, i)) \/ Clear(o)
        PROVE  IInv'
    <3>1. Holds(o, "CfgSubnets4")
      BY <2>4 DEF DelSubnetID, Clear
    <3>2. object[o].ptr \in Configs
      BY <3>1, HeldConfig
    <3>3. PICK S \in SUBSET cfg[object[o].ptr] : Remove(object[o].ptr, S)
      <4>1. ASSUME NEW i \in Ids, DelSubnetID(o, i)
            PROVE  \E S \in SUBSET cfg[object[o].ptr] : Remove(object[o].ptr, S)
        <5>1. PICK s \in cfg[object[o].ptr] : Remove(object[o].ptr, {s})
          BY <4>1 DEF DelSubnetID
        <5>2. {s} \in SUBSET cfg[object[o].ptr]
          OBVIOUS
        <5> QED
          BY <5>1, <5>2
      <4>2. CASE Clear(o)
        BY <4>2 DEF Clear
      <4> QED
        BY <2>4, <4>1, <4>2
    <3> QED
      BY <3>2, <3>3, RemoveInv
  <2>5. CASE Program
    <3>1. PICK o \in Objects :
            \/ \E c \in Configs : GetCfgSubnets4(o, c)
            \/ \E s \in Subnets, i \in Ids : NewSubnet(o, s, i)
            \/ \E c \in Objects : GetSubnet(c, o) \/ SelectSubnet(c, o) \/ Add(c, o)
            \/ \E c, r \in Objects : Replace(c, o, r)
            \/ \E i \in Ids : DelSubnetID(o, i)
            \/ GetAll(o) \/ Clear(o) \/ Read(o) \/ Retain(o) \/ Drop(o)
            \/ \E t \in Tags : SetServerTag(o, t) \/ DelServerTag(o, t)
      BY <2>5 DEF Program
    <3>2. CASE Read(o)
      BY <3>2, ReadInv
    <3> QED
      BY <2>3, <2>4, <3>1, <3>2, GetCfgSubnets4Inv, NewSubnetInv, AddInv, ReplaceInv, GetAllInv,
         TagInv, RetainInv, DropInv
  <2> QED
    BY <2>1, <2>2, <2>5 DEF Next
<1> QED
  BY <1>1, InitInv, PTL DEF Spec

\* Every variable of the configuration objects keeps to its type.
THEOREM TypeCorrect == Spec => []TypeOK
<1>1. IInv => TypeOK
  BY DEF IInv, PythonInv, SubnetInv, ConfigInv, AbortInv, TypeOK, View
<1> QED
  BY <1>1, Invariance, PTL

\* Nothing that Python or a configuration refers to is ever destroyed, and no
\* method uses a null pointer, if const subnets are kept from add and replace.
THEOREM NoDanglingHolds == Spec => []NoDangling
<1>1. IInv => NoDangling
  <2> SUFFICES ASSUME IInv
               PROVE  NoDangling
    OBVIOUS
  <2>1. \A o \in Objects : held[o] > 0 => ~Free(o)
    BY HeldAssumption DEF IInv, PythonInv
  <2>2. ASSUME NEW o \in Objects, ~Free(o), NEW s \in Owned(o)
        PROVE  subnet[s] # Nothing
    <3>1. s \in Subnets
      BY <2>2 DEF IInv, PythonInv, View, SubnetView, ConfigView, Owned, Free
    <3>2. o \in Views(s)
      BY <2>2 DEF Views
    <3> QED
      BY <3>1, <3>2, OwnedIsThere DEF IInv
  <2>3. ASSUME NEW o \in Objects, ~Free(o), object[o].type = "CfgSubnets4"
        PROVE  cfgUses[object[o].ptr] > 0
    <3>1. object[o] \in ConfigView
      BY <2>3 DEF IInv, PythonInv, View, SubnetView, Free
    <3>2. object[o].ptr \in Configs /\ object[o] = ConfigFromPtr(object[o].ptr)
      BY <3>1 DEF ConfigView, ConfigFromPtr
    <3> QED
      BY <3>2, ConfigIsThere DEF IInv
  <2>4. \A c \in Configs : \A s \in cfg[c] : subnet[s] # Nothing
    BY OwnedIsThere DEF IInv, SubnetInv
  <2> QED
    BY <2>1, <2>2, <2>3, <2>4 DEF IInv, AbortInv, NoDangling
<1> QED
  BY <1>1, Invariance, PTL

\* Every reference count and use_count is the number of owners: nothing stays
\* behind when the last one is gone.
THEOREM NoLeakHolds == Spec => []NoLeak
<1>1. IInv => NoLeak
  BY DEF IInv, PythonInv, SubnetInv, ConfigInv, Configured, NoLeak
<1> QED
  BY <1>1, Invariance, PTL
=============================================================================
