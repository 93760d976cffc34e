------------------------- MODULE CallArguments_proofs -------------------------
(***************************************************************************)
(* The safety invariants of CallArguments, for all values, numbers, texts  *)
(* and elements.                                                           *)
(*                                                                         *)
(* The conversions are recursive functions, and the provers know neither   *)
(* that such functions exist nor how to argue by induction on nested       *)
(* values.  Both follow from the least element of a set of naturals: a     *)
(* value nested least deep of which something is false has parts of which  *)
(* it is true (OnValues).  From that a value that object_to_element took   *)
(* without an error reads as what it is (RoundTrip), from arithmetic that  *)
(* a number reads as itself modulo its width (NumberIsRead), and from both *)
(* what each call of the module may do (OutcomesSound).  The steps of the  *)
(* callout are a matter of the error indicator then (Inv).                 *)
(***************************************************************************)
EXTENDS CallArguments, WellFoundedInduction, TLAPS

-----------------------------------------------------------------------------
(* Least and greatest naturals, and what they select in a sequence.        *)

\* A set of naturals has a least one.
LEMMA Least ==
  ASSUME NEW T \in SUBSET Nat, T # {}
  PROVE  \E x \in T : \A y \in T : x <= y
<1> DEFINE R == OpToRel(<, Nat)
<1>1. IsWellFoundedOn(R, Nat)
  BY NatLessThanWellFounded
<1>2. \A x, y \in Nat : <<x, y>> \in R <=> x < y
  BY DEF OpToRel
<1> HIDE DEF R
<1>3. PICK x \in T : \A y \in T : ~(<<y, x>> \in R)
  BY <1>1, WFMin
<1>4. \A y \in T : ~(y < x)
  BY <1>2, <1>3
<1> QED
  BY <1>3, <1>4

\* And one that is bounded a greatest.
LEMMA Greatest ==
  ASSUME NEW n \in Nat, NEW T \in SUBSET (0 .. n), T # {}
  PROVE  \E x \in T : \A y \in T : x >= y
<1> DEFINE U == {n - x : x \in T}
<1>1. U \in SUBSET Nat /\ U # {}
  <2>1. \A x \in T : x \in 0 .. n /\ n - x \in Nat
    OBVIOUS
  <2> QED
    BY <2>1
<1>2. PICK u \in U : \A y \in U : u <= y
  <2> HIDE DEF U
  <2> QED
    BY <1>1, Least
<1> HIDE DEF U
<1>3. PICK x \in T : u = n - x
  BY DEF U
<1>4. \A y \in T : n - y \in U
  BY DEF U
<1>5. \A y \in T : n - x <= n - y
  BY <1>2, <1>3, <1>4
<1>6. \A y \in T : x >= y
  BY <1>5
<1> QED
  BY <1>6

\* The first of some indices.
LEMMA MinIs ==
  ASSUME NEW T \in SUBSET Nat, T # {}
  PROVE  Min(T) \in T /\ \A y \in T : Min(T) <= y
BY Least DEF Min

\* The last of some indices.
LEMMA MaxIs ==
  ASSUME NEW n \in Nat, NEW T \in SUBSET (0 .. n), T # {}
  PROVE  Max(T) \in T /\ \A y \in T : Max(T) >= y
BY Greatest DEF Max

\* Cutting at the first NUL.
LEMMA CutIs ==
  ASSUME NEW S, NEW s \in Seq(S)
  PROVE  /\ Cut(s) \in Seq(S) /\ CutsTo(s, Cut(s))
         /\ "nul" \notin ToSet(Cut(s)) /\ ToSet(Cut(s)) \subseteq ToSet(s)
         /\ "nul" \notin ToSet(s) => Cut(s) = s
<1> DEFINE I == {i \in 1 .. Len(s) : s[i] = "nul"}
<1>1. CASE I = {}
  <2>1. Cut(s) = s /\ "nul" \notin ToSet(s)
    BY <1>1 DEF Cut, SelectInSeq, ToSet
  <2> QED
    BY <2>1 DEF CutsTo, IsPrefix
<1>2. CASE I # {}
  <2> DEFINE n == Min(I)
  <2>1. SelectInSeq(s, LAMBDA c : c = "nul") = n
    BY <1>2, Zenon DEF SelectInSeq
  <2>2. Cut(s) = IF n = 0 THEN s ELSE SubSeq(s, 1, n - 1)
    BY <2>1, Zenon DEF Cut
  <2>3. n \in I /\ \A j \in I : n <= j
    <3>1. I \in SUBSET Nat
      OBVIOUS
    <3> HIDE DEF I
    <3> QED
      BY <1>2, <3>1, MinIs
  <2> HIDE DEF n
  <2>4. n \in 1 .. Len(s) /\ s[n] = "nul" /\ \A i \in 1 .. n - 1 : s[i] # "nul"
    BY <2>3
  <2>5. Cut(s) = SubSeq(s, 1, n - 1)
    BY <2>2, <2>4
  <2>6. /\ Cut(s) \in Seq(S) /\ Len(Cut(s)) = n - 1
        /\ \A i \in 1 .. n - 1 : Cut(s)[i] = s[i]
    BY <2>4, <2>5
  <2>7. "nul" \notin ToSet(Cut(s)) /\ ToSet(Cut(s)) \subseteq ToSet(s)
    BY <2>4, <2>6 DEF ToSet
  <2>8. IsPrefix(Cut(s), s)
    BY <2>4, <2>5, <2>6 DEF IsPrefix
  <2>9. "nul" \in ToSet(s)
    BY <2>4 DEF ToSet
  <2> QED
    BY <2>4, <2>6, <2>7, <2>8, <2>9 DEF CutsTo
<1> QED
  BY <1>1, <1>2

\* What a text is cut to is unique.
LEMMA CutOnly ==
  ASSUME NEW S, NEW s \in Seq(S), NEW r \in Seq(S), CutsTo(s, r)
  PROVE  r = Cut(s)
<1> DEFINE c == Cut(s)
<1>1. c \in Seq(S) /\ CutsTo(s, c)
  BY CutIs
<1> HIDE DEF c
<1>2. \A i \in 1 .. Len(r) : r[i] = s[i] /\ r[i] # "nul"
  BY DEF CutsTo, IsPrefix, ToSet
<1>3. \A i \in 1 .. Len(c) : c[i] = s[i] /\ c[i] # "nul"
  BY <1>1 DEF CutsTo, IsPrefix, ToSet
<1>4. Len(r) = Len(c)
  BY <1>1, <1>2, <1>3 DEF CutsTo, IsPrefix
<1>5. r = c
  BY <1>1, <1>2, <1>3, <1>4
<1> QED
  BY <1>5 DEF c
-----------------------------------------------------------------------------
(* The recursive functions exist: what they say of a value depends on what *)
(* they say of its parts only, and nothing is nested deeper than MaxDepth. *)

\* What a value contains is a value.
LEMMA PartsAreValues ==
  /\ \A v \in Objects : Parts(v) \subseteq Objects
  /\ \A e \in JSON : Parts(e) \subseteq JSON
<1>1. ASSUME NEW v \in Objects
      PROVE  Parts(v) \subseteq Objects
  <2>1. IsObject(v)
    BY ValuesAssumption
  <2>2. CASE v.t = "list"
    BY <2>1, <2>2 DEF IsObject, Parts, ToSet
  <2>3. CASE v.t = "dict"
    <3>1. v.items \in Seq(Objects \X Objects)
      BY <2>1, <2>3 DEF IsObject
    <3>2. \A i \in DOMAIN v.items : v.items[i][1] \in Objects /\ v.items[i][2] \in Objects
      BY <3>1
    <3> QED
      BY <2>3, <3>2 DEF Parts
  <2>4. CASE v.t \notin {"list", "dict"}
    BY <2>1, <2>4 DEF IsObject, Parts
  <2> QED
    BY <2>2, <2>3, <2>4
<1>2. ASSUME NEW e \in JSON
      PROVE  Parts(e) \subseteq JSON
  <2>1. IsElement(e)
    BY ValuesAssumption
  <2>2. CASE e.t = "list"
    BY <2>1, <2>2 DEF IsElement, Parts, ToSet
  <2>3. CASE e.t = "map"
    BY <2>1, <2>3 DEF IsElement, Parts
  <2>4. CASE e.t \notin {"list", "map"}
    BY <2>1, <2>4 DEF IsElement, Parts
  <2> QED
    BY <2>2, <2>3, <2>4
<1> QED
  BY <1>1, <1>2

\* The values nested at most n deep.
Within(S, n) == {v \in S : Depth[v] <= n}

\* What a value contains is nested less deep.
LEMMA PartsWithin ==
  ASSUME NEW S \in {Objects, JSON}, NEW n \in Nat, NEW v \in Within(S, n)
  PROVE  /\ n # 0 => Parts(v) \subseteq Within(S, n - 1)
         /\ n = 0 => Parts(v) = {}
         /\ Parts(v) \subseteq Within(S, n)
<1>1. Parts(v) \subseteq S
  BY PartsAreValues DEF Within
<1>2. Depth[v] \in Nat /\ Depth[v] <= n
  BY DepthAssumption DEF Within
<1>3. \A p \in Parts(v) : Depth[p] \in Nat /\ Depth[p] < Depth[v]
  BY <1>1, DepthAssumption DEF Within
<1> QED
  BY <1>1, <1>2, <1>3 DEF Within

\* ElementOf asks for the conversion of parts only.
LEMMA ElementParts ==
  ASSUME NEW v \in Objects, NEW f, NEW g, \A p \in Parts(v) : f[p] = g[p]
  PROVE  ElementOf(v, f) = ElementOf(v, g)
<1>1. CASE v.t = "list"
  <2>1. [i \in DOMAIN v.list |-> f[v.list[i]]] = [i \in DOMAIN v.list |-> g[v.list[i]]]
    BY <1>1 DEF Parts, ToSet
  <2> QED
    BY <1>1, <2>1, Zenon DEF ElementOf
<1>2. CASE v.t = "dict"
  <2>1. \A i \in DOMAIN v.items : f[v.items[i][2]] = g[v.items[i][2]]
    BY <1>2 DEF Parts
  <2>2. [i \in DOMAIN v.items |-> DictItem(v.items[i][1], f[v.items[i][2]])]
          = [i \in DOMAIN v.items |-> DictItem(v.items[i][1], g[v.items[i][2]])]
    BY <2>1
  <2> QED
    BY <1>2, <2>2, Zenon DEF ElementOf
<1>3. CASE v.t \notin {"list", "dict"}
  BY <1>3 DEF ElementOf
<1> QED
  BY <1>1, <1>2, <1>3

\* object_to_element for the values nested at most n deep: by induction on n.
LEMMA ElementUpTo ==
  \A n \in 0 .. MaxDepth : \E f : f = [v \in Within(Objects, n) |-> ElementOf(v, f)]
<1> DEFINE Good(n) == \E f : f = [v \in Within(Objects, n) |-> ElementOf(v, f)]
           Bad == {n \in 0 .. MaxDepth : ~Good(n)}
<1>1. SUFFICES ASSUME Bad # {}
               PROVE  FALSE
  OBVIOUS
<1>2. PICK n \in Bad : \A m \in Bad : n <= m
  <2>1. Bad \in SUBSET Nat
    BY DepthAssumption
  <2> HIDE DEF Bad
  <2> QED
    BY <1>1, <2>1, Least
<1>3. n \in 0 .. MaxDepth /\ n \in Nat
  BY DepthAssumption
<1>4. PICK f : \A v \in Within(Objects, n) : \A p \in Parts(v) : f[p] = ElementOf(p, f)
  <2>1. CASE n = 0
    BY <2>1, PartsWithin
  <2>2. CASE n # 0
    <3>1. n - 1 \in 0 .. MaxDepth /\ Good(n - 1)
      <4>1. n - 1 \in 0 .. MaxDepth /\ ~(n <= n - 1)
        BY <1>3, <2>2, DepthAssumption
      <4>2. n - 1 \notin Bad
        BY <1>2, <4>1
      <4> QED
        BY <4>1, <4>2
    <3>2. PICK f : f = [v \in Within(Objects, n - 1) |-> ElementOf(v, f)]
      BY <3>1
    <3>3. \A p \in Within(Objects, n - 1) : f[p] = ElementOf(p, f)
      BY <3>2
    <3> QED
      BY <1>3, <3>3, PartsWithin
  <2> QED
    BY <2>1, <2>2
<1> DEFINE g == [v \in Within(Objects, n) |-> ElementOf(v, f)]
<1>5. \A v \in Within(Objects, n) : ElementOf(v, g) = ElementOf(v, f)
  <2> SUFFICES ASSUME NEW v \in Within(Objects, n)
               PROVE  ElementOf(v, g) = ElementOf(v, f)
    OBVIOUS
  <2>1. \A p \in Parts(v) : g[p] = f[p]
    BY <1>3, <1>4, PartsWithin
  <2>2. v \in Objects
    BY DEF Within
  <2> HIDE DEF g
  <2> QED
    BY <2>1, <2>2, ElementParts
<1>6. g = [v \in Within(Objects, n) |-> ElementOf(v, g)]
  <2>1. \A v \in Within(Objects, n) : g[v] = ElementOf(v, g)
    BY <1>5
  <2>2. g = [v \in Within(Objects, n) |-> g[v]]
    OBVIOUS
  <2> HIDE DEF g
  <2> QED
    BY <2>1, <2>2
<1>7. Good(n)
  <2> HIDE DEF g
  <2> QED
    BY <1>6
<1> QED
  BY <1>2, <1>7

\* object_to_element is what its definition says.
LEMMA ObjectToElement ==
  /\ object_to_element = [v \in Objects |-> ElementOf(v, object_to_element)]
  /\ \A v \in Objects : object_to_element[v] = ElementOf(v, object_to_element)
<1>1. Within(Objects, MaxDepth) = Objects
  BY DepthAssumption DEF Within
<1>2. MaxDepth \in 0 .. MaxDepth
  BY DepthAssumption
<1>3. \E f : f = [v \in Objects |-> ElementOf(v, f)]
  BY <1>1, <1>2, ElementUpTo
<1>4. object_to_element = [v \in Objects |-> ElementOf(v, object_to_element)]
  BY <1>3, Zenon DEF object_to_element
<1> QED
  BY <1>4, Zenon

\* ObjectOf asks for the conversion of parts only.
LEMMA ObjectParts ==
  ASSUME NEW v \in JSON, NEW f, NEW g, \A p \in Parts(v) : f[p] = g[p]
  PROVE  ObjectOf(v, f) = ObjectOf(v, g)
<1>1. CASE v.t = "list"
  <2>1. [i \in DOMAIN v.list |-> f[v.list[i]]] = [i \in DOMAIN v.list |-> g[v.list[i]]]
    BY <1>1 DEF Parts, ToSet
  <2> QED
    BY <1>1, <2>1, Zenon DEF ObjectOf
<1>2. CASE v.t = "map"
  <2>1. [k \in DOMAIN v.of |-> f[v.of[k]]] = [k \in DOMAIN v.of |-> g[v.of[k]]]
    BY <1>2 DEF Parts
  <2> QED
    BY <1>2, <2>1, Zenon DEF ObjectOf
<1>3. CASE v.t \notin {"list", "map"}
  BY <1>3 DEF ObjectOf
<1> QED
  BY <1>1, <1>2, <1>3

\* element_to_object for the values nested at most n deep: by induction on n.
LEMMA ObjectUpTo ==
  \A n \in 0 .. MaxDepth : \E f : f = [v \in Within(JSON, n) |-> ObjectOf(v, f)]
<1> DEFINE Good(n) == \E f : f = [v \in Within(JSON, n) |-> ObjectOf(v, f)]
           Bad == {n \in 0 .. MaxDepth : ~Good(n)}
<1>1. SUFFICES ASSUME Bad # {}
               PROVE  FALSE
  OBVIOUS
<1>2. PICK n \in Bad : \A m \in Bad : n <= m
  <2>1. Bad \in SUBSET Nat
    BY DepthAssumption
  <2> HIDE DEF Bad
  <2> QED
    BY <1>1, <2>1, Least
<1>3. n \in 0 .. MaxDepth /\ n \in Nat
  BY DepthAssumption
<1>4. PICK f : \A v \in Within(JSON, n) : \A p \in Parts(v) : f[p] = ObjectOf(p, f)
  <2>1. CASE n = 0
    BY <2>1, PartsWithin
  <2>2. CASE n # 0
    <3>1. n - 1 \in 0 .. MaxDepth /\ Good(n - 1)
      <4>1. n - 1 \in 0 .. MaxDepth /\ ~(n <= n - 1)
        BY <1>3, <2>2, DepthAssumption
      <4>2. n - 1 \notin Bad
        BY <1>2, <4>1
      <4> QED
        BY <4>1, <4>2
    <3>2. PICK f : f = [v \in Within(JSON, n - 1) |-> ObjectOf(v, f)]
      BY <3>1
    <3>3. \A p \in Within(JSON, n - 1) : f[p] = ObjectOf(p, f)
      BY <3>2
    <3> QED
      BY <1>3, <3>3, PartsWithin
  <2> QED
    BY <2>1, <2>2
<1> DEFINE g == [v \in Within(JSON, n) |-> ObjectOf(v, f)]
<1>5. \A v \in Within(JSON, n) : ObjectOf(v, g) = ObjectOf(v, f)
  <2> SUFFICES ASSUME NEW v \in Within(JSON, n)
               PROVE  ObjectOf(v, g) = ObjectOf(v, f)
    OBVIOUS
  <2>1. \A p \in Parts(v) : g[p] = f[p]
    BY <1>3, <1>4, PartsWithin
  <2>2. v \in JSON
    BY DEF Within
  <2> HIDE DEF g
  <2> QED
    BY <2>1, <2>2, ObjectParts
<1>6. g = [v \in Within(JSON, n) |-> ObjectOf(v, g)]
  <2>1. \A v \in Within(JSON, n) : g[v] = ObjectOf(v, g)
    BY <1>5
  <2>2. g = [v \in Within(JSON, n) |-> g[v]]
    OBVIOUS
  <2> HIDE DEF g
  <2> QED
    BY <2>1, <2>2
<1>7. Good(n)
  <2> HIDE DEF g
  <2> QED
    BY <1>6
<1> QED
  BY <1>2, <1>7

\* element_to_object is what its definition says.
LEMMA ElementToObject ==
  /\ element_to_object = [v \in JSON |-> ObjectOf(v, element_to_object)]
  /\ \A v \in JSON : element_to_object[v] = ObjectOf(v, element_to_object)
<1>1. Within(JSON, MaxDepth) = JSON
  BY DepthAssumption DEF Within
<1>2. MaxDepth \in 0 .. MaxDepth
  BY DepthAssumption
<1>3. \E f : f = [v \in JSON |-> ObjectOf(v, f)]
  BY <1>1, <1>2, ObjectUpTo
<1>4. element_to_object = [v \in JSON |-> ObjectOf(v, element_to_object)]
  BY <1>3, Zenon DEF element_to_object
<1> QED
  BY <1>4, Zenon

\* The last of the items whose keys read as k.
LEMMA LatestIs ==
  ASSUME NEW v \in Objects, v.t = "dict", NEW k, Named(v, k) # {}
  PROVE  /\ Latest(v, k) \in DOMAIN v.items /\ Latest(v, k) \in Named(v, k)
         /\ \A j \in Named(v, k) : j <= Latest(v, k)
<1>1. v.items \in Seq(Objects \X Objects)
  BY ValuesAssumption DEF IsObject
<1>2. Named(v, k) \in SUBSET (0 .. Len(v.items)) /\ Len(v.items) \in Nat
  BY <1>1 DEF Named
<1>3. \E i \in Named(v, k) : \A j \in Named(v, k) : i >= j
  BY <1>2, Greatest
<1>4. \E i \in Named(v, k) : \A j \in Named(v, k) : j <= i
  BY <1>2, <1>3
<1>5. Latest(v, k) \in Named(v, k) /\ \A j \in Named(v, k) : j <= Latest(v, k)
  BY <1>4, Zenon DEF Latest
<1> QED
  BY <1>5 DEF Named

\* What a value reads as depends on its parts only.
LEMMA ReadingParts ==
  ASSUME NEW v \in Objects, NEW f, NEW g, \A p \in Parts(v) : f[p] = g[p]
  PROVE  {w \in Shown : ReadsAs(v, w, f)} = {w \in Shown : ReadsAs(v, w, g)}
<1> SUFFICES ASSUME NEW w
             PROVE  ReadsAs(v, w, f) <=> ReadsAs(v, w, g)
  BY Zenon
<1>1. CASE v.t = "list"
  <2>1. \A i \in DOMAIN v.list : f[v.list[i]] = g[v.list[i]]
    BY <1>1 DEF Parts, ToSet
  <2> QED
    BY <1>1, <2>1 DEF ReadsAs
<1>2. CASE v.t = "dict"
  <2>1. \A k : Named(v, k) # {} =>
           f[v.items[Latest(v, k)][2]] = g[v.items[Latest(v, k)][2]]
    <3> SUFFICES ASSUME NEW k, Named(v, k) # {}
                 PROVE  f[v.items[Latest(v, k)][2]] = g[v.items[Latest(v, k)][2]]
      OBVIOUS
    <3>1. Latest(v, k) \in DOMAIN v.items
      BY <1>2, LatestIs
    <3> QED
      BY <1>2, <3>1 DEF Parts
  <2> QED
    BY <1>2, <2>1 DEF ReadsAs
<1>3. CASE v.t \notin {"list", "dict"}
  BY <1>3 DEF ReadsAs
<1> QED
  BY <1>1, <1>2, <1>3

\* Readings for the values nested at most n deep: by induction on n.
LEMMA ReadingUpTo ==
  \A n \in 0 .. MaxDepth : \E f : f = [v \in Within(Objects, n) |-> {w \in Shown : ReadsAs(v, w, f)}]
<1> DEFINE Good(n) == \E f : f = [v \in Within(Objects, n) |-> {w \in Shown : ReadsAs(v, w, f)}]
           Bad == {n \in 0 .. MaxDepth : ~Good(n)}
<1>1. SUFFICES ASSUME Bad # {}
               PROVE  FALSE
  OBVIOUS
<1>2. PICK n \in Bad : \A m \in Bad : n <= m
  <2>1. Bad \in SUBSET Nat
    BY DepthAssumption
  <2> HIDE DEF Bad
  <2> QED
    BY <1>1, <2>1, Least
<1>3. n \in 0 .. MaxDepth /\ n \in Nat
  BY DepthAssumption
<1>4. PICK f : \A v \in Within(Objects, n) : \A p \in Parts(v) : f[p] = {w \in Shown : ReadsAs(p, w, f)}
  <2>1. CASE n = 0
    BY <2>1, PartsWithin
  <2>2. CASE n # 0
    <3>1. n - 1 \in 0 .. MaxDepth /\ Good(n - 1)
      <4>1. n - 1 \in 0 .. MaxDepth /\ ~(n <= n - 1)
        BY <1>3, <2>2, DepthAssumption
      <4>2. n - 1 \notin Bad
        BY <1>2, <4>1
      <4> QED
        BY <4>1, <4>2
    <3>2. PICK f : f = [v \in Within(Objects, n - 1) |-> {w \in Shown : ReadsAs(v, w, f)}]
      BY <3>1
    <3>3. \A p \in Within(Objects, n - 1) : f[p] = {w \in Shown : ReadsAs(p, w, f)}
      BY <3>2
    <3> QED
      BY <1>3, <3>3, PartsWithin
  <2> QED
    BY <2>1, <2>2
<1> DEFINE g == [v \in Within(Objects, n) |-> {w \in Shown : ReadsAs(v, w, f)}]
<1>5. \A v \in Within(Objects, n) : {w \in Shown : ReadsAs(v, w, g)} = {w \in Shown : ReadsAs(v, w, f)}
  <2> SUFFICES ASSUME NEW v \in Within(Objects, n)
               PROVE  {w \in Shown : ReadsAs(v, w, g)} = {w \in Shown : ReadsAs(v, w, f)}
    OBVIOUS
  <2>1. \A p \in Parts(v) : g[p] = f[p]
    BY <1>3, <1>4, PartsWithin
  <2>2. v \in Objects
    BY DEF Within
  <2> HIDE DEF g
  <2> QED
    BY <2>1, <2>2, ReadingParts
<1>6. g = [v \in Within(Objects, n) |-> {w \in Shown : ReadsAs(v, w, g)}]
  <2>1. \A v \in Within(Objects, n) : g[v] = {w \in Shown : ReadsAs(v, w, g)}
    BY <1>5
  <2>2. g = [v \in Within(Objects, n) |-> g[v]]
    OBVIOUS
  <2> HIDE DEF g
  <2> QED
    BY <2>1, <2>2
<1>7. Good(n)
  <2> HIDE DEF g
  <2> QED
    BY <1>6
<1> QED
  BY <1>2, <1>7

\* Readings is what its definition says.
LEMMA ReadingsAre ==
  /\ Readings = [v \in Objects |-> {w \in Shown : ReadsAs(v, w, Readings)}]
  /\ \A v \in Objects : Readings[v] = {w \in Shown : ReadsAs(v, w, Readings)}
<1>1. Within(Objects, MaxDepth) = Objects
  BY DepthAssumption DEF Within
<1>2. MaxDepth \in 0 .. MaxDepth
  BY DepthAssumption
<1>3. \E f : f = [v \in Objects |-> {w \in Shown : ReadsAs(v, w, f)}]
  BY <1>1, <1>2, ReadingUpTo
<1>4. Readings = [v \in Objects |-> {w \in Shown : ReadsAs(v, w, Readings)}]
  BY <1>3, Zenon DEF Readings
<1> QED
  BY <1>4, Zenon

\* Whatever values have when all their parts have it, all values have.
LEMMA OnValues ==
  ASSUME NEW S \in {Objects, JSON}, NEW G, \A v \in S : Parts(v) \subseteq G => v \in G
  PROVE  S \subseteq G
<1> DEFINE Bad == {Depth[v] : v \in S \ G}
<1>1. SUFFICES ASSUME Bad # {}
               PROVE  FALSE
  OBVIOUS
<1>2. Bad \in SUBSET Nat
  BY DepthAssumption
<1>3. PICK n \in Bad : \A m \in Bad : n <= m
  <2> HIDE DEF Bad
  <2> QED
    BY <1>1, <1>2, Least
<1>4. PICK v \in S \ G : n = Depth[v]
  BY <1>3
<1>5. PICK p \in Parts(v) : p \notin G
  BY <1>4
<1>6. p \in S /\ Depth[p] \in Nat /\ Depth[p] < Depth[v] /\ Depth[v] \in Nat
  BY <1>4, <1>5, PartsAreValues, DepthAssumption
<1>7. Depth[p] \in Bad
  BY <1>5, <1>6
<1> QED
  BY <1>3, <1>4, <1>6, <1>7

-----------------------------------------------------------------------------
(* The conversions.                                                        *)

\* A container fails with the failure of an item, or contains them all.
LEMMA CollectIs ==
  ASSUME NEW n \in Nat, NEW items, items = [i \in 1 .. n |-> items[i]], NEW whole
  PROVE  \/ \E i \in 1 .. n : Fails(items[i]) /\ Collect(items, whole) = Failed(items[i].element)
         \/ /\ \A i \in 1 .. n : ~Fails(items[i])
            /\ Collect(items, whole) =
                 [element |-> whole, error |-> \E i \in 1 .. n : items[i].error]
<1> DEFINE I == {i \in 1 .. Len(items) : Fails(items[i])}
           failing == SelectInSeq(items, Fails)
<1>1. Len(items) = n /\ DOMAIN items = 1 .. n
  <2>1. DOMAIN items = 1 .. n
    BY Zenon
  <2>2. items \in Seq({items[i] : i \in 1 .. n})
    BY <2>1
  <2> QED
    BY <2>1, <2>2
<1>2. failing = IF I # {} THEN Min(I) ELSE 0
  BY Zenon DEF SelectInSeq
<1>3. I \in SUBSET (1 .. n) /\ I \in SUBSET Nat
  BY <1>1
<1>4. CASE I = {}
  <2>1. failing = 0
    BY <1>2, <1>4
  <2> HIDE DEF failing
  <2>2. Collect(items, whole) = [element |-> whole, error |-> \E i \in DOMAIN items : items[i].error]
    <3>1. SelectInSeq(items, Fails) = 0
      BY <2>1 DEF failing
    <3> QED
      BY <3>1, Zenon DEF Collect
  <2> QED
    BY <1>1, <1>4, <2>2
<1>5. CASE I # {}
  <2>1. failing = Min(I)
    BY <1>2, <1>5
  <2>2. Min(I) \in I
    <3> HIDE DEF I
    <3> QED
      BY <1>3, <1>5, MinIs
  <2>3. failing \in 1 .. n /\ Fails(items[failing]) /\ failing # 0
    BY <1>1, <2>1, <2>2
  <2>4. Collect(items, whole) = Failed(items[failing].element)
    BY <2>3, Zenon DEF Collect
  <2> QED
    BY <2>3, <2>4
<1> QED
  BY <1>4, <1>5

\* A result says whether there is an element, and an error if there is none.
Shaped(r) ==
  /\ r = [element |-> r.element, error |-> r.error] /\ r.error \in BOOLEAN
  /\ r.element.t \notin {"NULL", "dict"}
  /\ r.element.t \in {"nullptr", "thrown"} => r.error /\ r.element \in {NullPtr, Thrown}

\* Failures.
LEMMA FailedShaped ==
  Shaped(Failed(NullPtr)) /\ Shaped(Failed(Thrown))
BY DEF Shaped, Failed, NullPtr, Thrown

\* A container of such results.
LEMMA CollectShaped ==
  ASSUME NEW n \in Nat, NEW items, items = [i \in 1 .. n |-> items[i]],
         \A i \in 1 .. n : Shaped(items[i]),
         NEW whole, whole.t \in {"list", "map"}
  PROVE  Shaped(Collect(items, whole))
<1>1. CASE \E i \in 1 .. n : Fails(items[i]) /\ Collect(items, whole) = Failed(items[i].element)
  BY <1>1 DEF Shaped, Fails, Failed
<1>2. CASE Collect(items, whole) =
             [element |-> whole, error |-> \E i \in 1 .. n : items[i].error]
  <2> DEFINE e == \E i \in 1 .. n : items[i].error
  <2>1. e \in BOOLEAN
    OBVIOUS
  <2> HIDE DEF e
  <2>2. Collect(items, whole) = [element |-> whole, error |-> e]
    BY <1>2 DEF e
  <2> QED
    BY <2>1, <2>2 DEF Shaped
<1> QED
  BY <1>1, <1>2, CollectIs

\* object_to_element returns a null pointer or throws only with an error.
LEMMA ResultsShaped ==
  \A v \in Objects : Shaped(object_to_element[v])
<1> DEFINE G == {v \in Objects : Shaped(object_to_element[v])}
<1>1. ASSUME NEW v \in Objects, Parts(v) \subseteq G
      PROVE  Shaped(ElementOf(v, object_to_element))
  <2>1. IsObject(v)
    BY ValuesAssumption
  <2>2. CASE v.t = "list"
    <3> DEFINE items == [i \in DOMAIN v.list |-> object_to_element[v.list[i]]]
               whole == List([i \in DOMAIN items |-> items[i].element])
    <3>1. v.list \in Seq(Objects) /\ Len(v.list) \in Nat /\ DOMAIN v.list = 1 .. Len(v.list)
      BY <2>1, <2>2 DEF IsObject
    <3>2. /\ items = [i \in 1 .. Len(v.list) |-> items[i]]
          /\ \A i \in 1 .. Len(v.list) : Shaped(items[i])
      BY <1>1, <2>2, <3>1 DEF Parts, ToSet
    <3>3. whole.t \in {"list", "map"}
      BY DEF List
    <3>4. ElementOf(v, object_to_element) = Collect(items, whole)
      BY <2>2, Zenon DEF ElementOf
    <3> DEFINE n == Len(v.list)
    <3>5. n \in Nat /\ items = [i \in 1 .. n |-> items[i]] /\ \A i \in 1 .. n : Shaped(items[i])
      BY <3>1, <3>2
    <3> HIDE DEF items, whole, n
    <3>6. Shaped(Collect(items, whole))
      BY <3>3, <3>5, CollectShaped
    <3> QED
      BY <3>4, <3>6
  <2>3. CASE v.t = "dict"
    <3> DEFINE items == [i \in DOMAIN v.items |->
                           DictItem(v.items[i][1], object_to_element[v.items[i][2]])]
               keys == [i \in DOMAIN v.items |-> v.items[i][1].str]
               whole == MapOf(keys, items)
    <3>1. v.items \in Seq(Objects \X Objects) /\ Len(v.items) \in Nat
          /\ DOMAIN v.items = 1 .. Len(v.items)
      BY <2>1, <2>3 DEF IsObject
    <3>2. ASSUME NEW i \in 1 .. Len(v.items)
          PROVE  Shaped(items[i])
      <4>1. Shaped(object_to_element[v.items[i][2]])
        BY <1>1, <2>3, <3>1 DEF Parts
      <4>2. items[i] = DictItem(v.items[i][1], object_to_element[v.items[i][2]])
        BY <3>1
      <4> HIDE DEF items
      <4> QED
        BY <4>1, <4>2, FailedShaped DEF DictItem
    <3>3. items = [i \in 1 .. Len(v.items) |-> items[i]]
      BY <3>1
    <3>4. whole.t \in {"list", "map"}
      BY DEF MapOf, Map
    <3>5. ElementOf(v, object_to_element) = Collect(items, whole)
      BY <2>3, Zenon DEF ElementOf
    <3> DEFINE n == Len(v.items)
    <3>6. n \in Nat /\ items = [i \in 1 .. n |-> items[i]] /\ \A i \in 1 .. n : Shaped(items[i])
      BY <3>1, <3>2, <3>3
    <3> HIDE DEF items, whole, n
    <3>7. Shaped(Collect(items, whole))
      BY <3>4, <3>6, CollectShaped
    <3> QED
      BY <3>5, <3>7
  <2>4. CASE v.t \notin {"list", "dict"}
    BY <2>1, <2>4 DEF IsObject, ElementOf, Shaped, Made, Failed, NullPtr, Thrown, Null, Real, Boolean,
                      Integer, String
  <2> QED
    BY <2>2, <2>3, <2>4
<1>2. \A v \in Objects : Parts(v) \subseteq G => v \in G
  BY <1>1, ObjectToElement
<1>3. Objects \subseteq G
  <2> HIDE DEF G
  <2> QED
    BY <1>2, OnValues
<1> QED
  BY <1>3

\* What some value reads as is no failure.
LEMMA ReadingIs ==
  ASSUME NEW v \in Objects, NEW w
  PROVE  /\ w \in Readings[v] <=> w \in Shown /\ ReadsAs(v, w, Readings)
         /\ w \in Readings[v] => w # NoObject
<1>1. w \in Readings[v] <=> w \in Shown /\ ReadsAs(v, w, Readings)
  BY ReadingsAre
<1>2. ReadsAs(v, w, Readings) => w.t = v.t
  BY DEF ReadsAs
<1>3. v.t # "NULL"
  BY ValuesAssumption DEF IsObject
<1> QED
  BY <1>1, <1>2, <1>3 DEF NoObject

\* A container without an error has items without errors.
LEMMA CollectWell ==
  ASSUME NEW n \in Nat, NEW items, items = [i \in 1 .. n |-> items[i]],
         \A i \in 1 .. n : Shaped(items[i]),
         NEW whole, ~Collect(items, whole).error
  PROVE  Collect(items, whole).element = whole /\ \A i \in 1 .. n : ~items[i].error
<1>1. CASE \E i \in 1 .. n : Fails(items[i]) /\ Collect(items, whole) = Failed(items[i].element)
  BY <1>1 DEF Failed
<1>2. CASE Collect(items, whole) =
             [element |-> whole, error |-> \E i \in 1 .. n : items[i].error]
  <2> DEFINE e == \E i \in 1 .. n : items[i].error
  <2>1. Collect(items, whole) = [element |-> whole, error |-> e]
    BY <1>2
  <2> HIDE DEF e
  <2>2. Collect(items, whole).element = whole /\ ~e
    BY <2>1
  <2> QED
    BY <2>2 DEF e
<1> QED
  BY <1>1, <1>2, CollectIs

\* A list that converts reads as the list of what its items read as.
LEMMA ListReadsBack ==
  ASSUME NEW v \in Objects, v.t = "list", ~object_to_element[v].error,
         \A p \in Parts(v) : ~object_to_element[p].error =>
           element_to_object[object_to_element[p].element] \in Readings[p]
  PROVE  ReadsAs(v, ObjectOf(object_to_element[v].element, element_to_object), Readings)
<1> DEFINE n == Len(v.list)
           items == [i \in DOMAIN v.list |-> object_to_element[v.list[i]]]
           whole == List([i \in DOMAIN items |-> items[i].element])
           shown == [i \in 1 .. n |-> element_to_object[items[i].element]]
<1>1. v.list \in Seq(Objects) /\ n \in Nat /\ DOMAIN v.list = 1 .. n
  BY ValuesAssumption DEF IsObject
<1>2. \A i \in 1 .. n : /\ v.list[i] \in Objects /\ v.list[i] \in Parts(v)
                        /\ items[i] = object_to_element[v.list[i]]
  BY <1>1 DEF Parts, ToSet
<1>3. object_to_element[v] = Collect(items, whole)
  <2>1. ElementOf(v, object_to_element) = Collect(items, whole)
    BY Zenon DEF ElementOf
  <2> QED
    BY <2>1, ObjectToElement, Zenon
<1>4. items = [i \in 1 .. n |-> items[i]]
  BY <1>1
<1>5. \A i \in 1 .. n : Shaped(items[i])
  BY <1>2, ResultsShaped
<1>6. Collect(items, whole).element = whole /\ \A i \in 1 .. n : ~items[i].error
  <2> HIDE DEF items, whole, n
  <2> QED
    BY <1>1, <1>3, <1>4, <1>5, CollectWell
<1>7. \A i \in 1 .. n : shown[i] \in Readings[v.list[i]] /\ shown[i] # NoObject
  BY <1>2, <1>6, ReadingIs
<1>8. ObjectOf(whole, element_to_object) = PyList(shown)
  <2>1. whole.t = "list" /\ whole.list = [i \in 1 .. n |-> items[i].element]
    BY <1>1 DEF List
  <2>2. shown = [i \in DOMAIN whole.list |-> element_to_object[whole.list[i]]]
    <3>1. DOMAIN whole.list = 1 .. n /\ \A i \in 1 .. n : whole.list[i] = items[i].element
      BY <2>1
    <3> HIDE DEF whole, items
    <3> QED
      BY <3>1
  <2>3. ~\E i \in DOMAIN shown : shown[i] = NoObject
    BY <1>7
  <2> HIDE DEF shown, whole
  <2> QED
    BY <2>1, <2>2, <2>3, Zenon DEF ObjectOf
<1>9. Len(shown) = n
  BY <1>1
<1>10. object_to_element[v].element = whole
  BY <1>3, <1>6
<1>11. ReadsAs(v, PyList(shown), Readings)
  <2> HIDE DEF shown
  <2> QED
    BY <1>1, <1>7, <1>9 DEF ReadsAs, PyList
<1> QED
  BY <1>8, <1>10, <1>11

\* The item of a dict that converts has a key that does.
LEMMA DictItemIs ==
  ASSUME NEW key, NEW r, ~DictItem(key, r).error
  PROVE  key.t = "str" /\ DictItem(key, r) = r
BY DEF DictItem, Failed

\* The last of the keys that are cut to k.
LastNamed(keys, k) == SelectLastInSeq(keys, LAMBDA key : Cut(key) = k)

\* Keys are the same after the cut when one reads as the other.
LEMMA NamedAre ==
  ASSUME NEW v \in Objects, v.t = "dict", NEW n \in Nat, n = Len(v.items),
         \A i \in 1 .. n : v.items[i][1].t = "str",
         NEW keys, keys = [i \in 1 .. n |-> v.items[i][1].str],
         NEW j \in 1 .. n, NEW k, k = Cut(keys[j])
  PROVE  /\ Named(v, k) = {i \in 1 .. n : Cut(keys[i]) = k} /\ j \in Named(v, k)
         /\ LastNamed(keys, k) = Latest(v, k)
         /\ Decodable(k)
<1> DEFINE I == {i \in 1 .. Len(keys) : Cut(keys[i]) = k}
<1>1. v.items \in Seq(Objects \X Objects) /\ DOMAIN v.items = 1 .. n
  BY ValuesAssumption DEF IsObject
<1>2. \A i \in 1 .. n : keys[i] = v.items[i][1].str /\ keys[i] \in Seq(Characters \ {"bad"})
  <2> SUFFICES ASSUME NEW i \in 1 .. n
               PROVE  keys[i] = v.items[i][1].str /\ keys[i] \in Seq(Characters \ {"bad"})
    OBVIOUS
  <2>1. v.items[i][1] \in Objects
    BY <1>1
  <2> QED
    BY <2>1, ValuesAssumption DEF IsObject, PythonText
<1>3. Len(keys) = n
  BY <1>2
<1>4. k \in Seq(Characters \ {"bad"}) /\ CutsTo(keys[j], k)
  BY <1>2, CutIs
<1>5. \A i \in 1 .. n : CutsTo(keys[i], k) <=> Cut(keys[i]) = k
  <2> DEFINE S == Characters \ {"bad"}
  <2> HIDE DEF S
  <2> SUFFICES ASSUME NEW i \in 1 .. n
               PROVE  CutsTo(keys[i], k) <=> Cut(keys[i]) = k
    OBVIOUS
  <2>1. keys[i] \in Seq(S) /\ k \in Seq(S)
    BY <1>2, <1>4 DEF S
  <2>2. CutsTo(keys[i], Cut(keys[i]))
    BY <2>1, CutIs
  <2>3. CutsTo(keys[i], k) => k = Cut(keys[i])
    BY <2>1, CutOnly
  <2> QED
    BY <2>2, <2>3
<1>6. Named(v, k) = {i \in 1 .. n : Cut(keys[i]) = k}
  <2> QED
    BY <1>1, <1>2, <1>5 DEF Named
<1>7. j \in Named(v, k) /\ Named(v, k) = I
  <2>1. j \in {i \in 1 .. n : Cut(keys[i]) = k}
    OBVIOUS
  <2> QED
    BY <1>3, <1>6, <2>1
<1>8. LastNamed(keys, k) = Max(I)
  <2>1. I # {}
    BY <1>7
  <2> QED
    BY <2>1, Zenon DEF LastNamed, SelectLastInSeq
<1>9. Max(I) = Latest(v, k)
  <2> HIDE DEF I
  <2>1. I \in SUBSET (0 .. n) /\ I # {}
    <3>1. \A i \in I : i \in 0 .. n
      BY <1>3 DEF I
    <3> QED
      BY <1>7, <3>1
  <2>2. Max(I) \in I /\ \A y \in I : Max(I) >= y
    BY <2>1, MaxIs
  <2>3. Latest(v, k) \in I /\ \A y \in I : y <= Latest(v, k)
    BY <1>7, LatestIs
  <2>4. Max(I) \in Int /\ Latest(v, k) \in Int
    <3>1. \A x \in I : x \in 0 .. n
      BY <2>1
    <3>2. \A x \in I : x \in Int
      BY <3>1
    <3> QED
      BY <2>2, <2>3, <3>2
  <2>5. Max(I) >= Latest(v, k) /\ Latest(v, k) >= Max(I)
    BY <2>2, <2>3, <2>4
  <2> QED
    BY <2>4, <2>5
<1>10. Decodable(k)
  <2> QED
    BY <1>4 DEF Decodable, ToSet
<1> QED
  BY <1>6, <1>7, <1>8, <1>9, <1>10

\* A dict that converts reads as the map of what its items read as.
LEMMA DictReadsBack ==
  ASSUME NEW v \in Objects, v.t = "dict", ~object_to_element[v].error,
         \A p \in Parts(v) : ~object_to_element[p].error =>
           element_to_object[object_to_element[p].element] \in Readings[p]
  PROVE  ReadsAs(v, ObjectOf(object_to_element[v].element, element_to_object), Readings)
<1> DEFINE n == Len(v.items)
           items == [i \in DOMAIN v.items |->
                       DictItem(v.items[i][1], object_to_element[v.items[i][2]])]
           keys == [i \in DOMAIN v.items |-> v.items[i][1].str]
           whole == MapOf(keys, items)
           names == {Cut(keys[i]) : i \in 1 .. n}
           shown == [k \in names |-> element_to_object[items[Latest(v, k)].element]]
<1>1. v.items \in Seq(Objects \X Objects) /\ n \in Nat /\ DOMAIN v.items = 1 .. n
  BY ValuesAssumption DEF IsObject
<1>2. \A i \in 1 .. n : /\ v.items[i][2] \in Objects /\ v.items[i][2] \in Parts(v)
                        /\ items[i] = DictItem(v.items[i][1], object_to_element[v.items[i][2]])
  BY <1>1 DEF Parts
<1>3. object_to_element[v] = Collect(items, whole)
  <2>1. ElementOf(v, object_to_element) = Collect(items, whole)
    BY Zenon DEF ElementOf
  <2> QED
    BY <2>1, ObjectToElement, Zenon
<1>4. items = [i \in 1 .. n |-> items[i]] /\ keys = [i \in 1 .. n |-> v.items[i][1].str]
  BY <1>1
<1>5. \A i \in 1 .. n : Shaped(items[i])
  <2> SUFFICES ASSUME NEW i \in 1 .. n
               PROVE  Shaped(items[i])
    OBVIOUS
  <2>1. Shaped(object_to_element[v.items[i][2]])
    BY <1>2, ResultsShaped
  <2>2. items[i] = DictItem(v.items[i][1], object_to_element[v.items[i][2]])
    BY <1>2
  <2> HIDE DEF items
  <2> QED
    BY <2>1, <2>2, FailedShaped DEF DictItem
<1>6. Collect(items, whole).element = whole /\ \A i \in 1 .. n : ~items[i].error
  <2> HIDE DEF items, whole, n
  <2> QED
    BY <1>1, <1>3, <1>4, <1>5, CollectWell
<1>7. \A i \in 1 .. n : v.items[i][1].t = "str" /\ items[i] = object_to_element[v.items[i][2]]
  <2> HIDE DEF items
  <2> QED
    BY <1>2, <1>6, DictItemIs
<1>8. \A i \in 1 .. n : /\ element_to_object[items[i].element] \in Readings[v.items[i][2]]
                        /\ element_to_object[items[i].element] # NoObject
  <2> HIDE DEF items
  <2> QED
    BY <1>2, <1>6, <1>7, ReadingIs
<1> HIDE DEF items, keys, n
<1>9. ASSUME NEW j \in 1 .. n, NEW k, k = Cut(keys[j])
      PROVE  /\ j \in Named(v, k) /\ Decodable(k)
             /\ LastNamed(keys, k) = Latest(v, k)
  <2>1. n \in Nat /\ n = Len(v.items) /\ \A i \in 1 .. n : v.items[i][1].t = "str"
    BY <1>1, <1>7 DEF n
  <2> QED
    BY <1>4, <1>9, <2>1, NamedAre
<1>10. ASSUME NEW k \in names
       PROVE  /\ Named(v, k) # {} /\ Decodable(k) /\ Latest(v, k) \in 1 .. n
              /\ LastNamed(keys, k) = Latest(v, k)
  <2>1. PICK j \in 1 .. n : k = Cut(keys[j])
    OBVIOUS
  <2> HIDE DEF names
  <2>2. j \in Named(v, k) /\ Decodable(k)
    BY <1>9, <2>1
  <2>3. LastNamed(keys, k) = Latest(v, k)
    BY <1>9, <2>1
  <2>4. Latest(v, k) \in 1 .. n
    BY <1>1, <2>2, LatestIs DEF n
  <2> QED
    BY <2>2, <2>3, <2>4
<1>11. whole.t = "map" /\ whole.of = [k \in names |-> items[Latest(v, k)].element]
  <2>1. DOMAIN keys = 1 .. n
    BY <1>4
  <2>2. [k \in names |-> items[LastNamed(keys, k)].element]
          = [k \in names |-> items[Latest(v, k)].element]
    <3> HIDE DEF names
    <3> QED
      BY <1>10
  <2>3. whole = Map([k \in names |-> items[LastNamed(keys, k)].element])
    BY <2>1, Zenon DEF MapOf, LastNamed
  <2> HIDE DEF whole
  <2> QED
    BY <2>2, <2>3 DEF Map
<1>12. \A k \in names : shown[k] \in Readings[v.items[Latest(v, k)][2]] /\ shown[k] # NoObject
  <2> HIDE DEF names
  <2> QED
    BY <1>8, <1>10
<1>13. ObjectOf(whole, element_to_object) = ReadDict(shown)
  <2>1. shown = [k \in DOMAIN whole.of |-> element_to_object[whole.of[k]]]
    <3> HIDE DEF whole, names
    <3> QED
      BY <1>11
  <2>2. DOMAIN shown = names
    OBVIOUS
  <2>3. ~\E k \in DOMAIN shown : shown[k] = NoObject \/ ~Decodable(k)
    <3> HIDE DEF shown, names
    <3> QED
      BY <1>10, <1>12, <2>2
  <2> HIDE DEF shown, whole, names
  <2> QED
    BY <1>11, <2>1, <2>3, Zenon DEF ObjectOf
<1>14. object_to_element[v].element = whole
  BY <1>3, <1>6
<1>15. ReadsAs(v, ReadDict(shown), Readings)
  <2>1. ReadDict(shown).t = "dict" /\ ReadDict(shown).of = shown /\ DOMAIN shown = names
    BY DEF ReadDict
  <2>2. \A i \in DOMAIN v.items : \E k \in names : i \in Named(v, k)
    <3>1. DOMAIN v.items = 1 .. n
      BY <1>1 DEF n
    <3>2. \A i \in 1 .. n : Cut(keys[i]) \in names
      OBVIOUS
    <3>3. \A i \in 1 .. n : i \in Named(v, Cut(keys[i]))
      BY <1>9
    <3> HIDE DEF names
    <3> QED
      BY <3>1, <3>2, <3>3
  <2> HIDE DEF shown, names
  <2> QED
    BY <1>10, <1>12, <2>1, <2>2 DEF ReadsAs
<1> QED
  BY <1>13, <1>14, <1>15

\* What object_to_element makes of a value without an error reads as the value.
THEOREM RoundTrip ==
  \A v \in Objects : ~object_to_element[v].error =>
    /\ object_to_element[v].element \in JSON
    /\ element_to_object[object_to_element[v].element] \in Readings[v]
<1> DEFINE Reads(v) == ~object_to_element[v].error =>
                         element_to_object[object_to_element[v].element] \in Readings[v]
           G == {v \in Objects : Reads(v)}
<1>1. ASSUME NEW v \in Objects, ~object_to_element[v].error
      PROVE  object_to_element[v].element \in JSON
  <2>1. ~Fails(object_to_element[v])
    BY <1>1, ResultsShaped DEF Shaped, Fails
  <2> QED
    BY <2>1, ConvertedAssumption
<1>2. ASSUME NEW v \in Objects, Parts(v) \subseteq G, ~object_to_element[v].error
      PROVE  element_to_object[object_to_element[v].element] \in Readings[v]
  <2> DEFINE e == object_to_element[v].element
             w == ObjectOf(e, element_to_object)
  <2>1. e \in JSON
    BY <1>1, <1>2
  <2>2. element_to_object[e] = w /\ element_to_object[e] \in Shown
    BY <2>1, ElementToObject DEF Shown
  <2>3. IsObject(v)
    BY ValuesAssumption
  <2>4. object_to_element[v] = ElementOf(v, object_to_element)
    BY ObjectToElement
  <2>5. ReadsAs(v, w, Readings)
    <3>1. CASE v.t = "list"
      BY <1>2, <3>1, ListReadsBack
    <3>2. CASE v.t = "dict"
      BY <1>2, <3>2, DictReadsBack
    <3>3. CASE v.t = "str"
      <4>1. object_to_element[v] = IF Encodable(v.str) THEN Made(String(Cut(v.str))) ELSE Failed(Thrown)
        BY <2>4, <3>3 DEF ElementOf
      <4>2. e = String(Cut(v.str))
        BY <1>2, <4>1 DEF Made, Failed
      <4> DEFINE S == Characters \ {"bad"}
                 s == v.str
      <4>3. s \in Seq(S)
        BY <2>3, <3>3 DEF IsObject, PythonText
      <4>4. "bad" \notin S
        OBVIOUS
      <4> HIDE DEF S, s
      <4>5. /\ Cut(s) \in Seq(S) /\ CutsTo(s, Cut(s)) /\ "nul" \notin ToSet(Cut(s))
        BY <4>3, CutIs
      <4>6. Cut(Cut(s)) = Cut(s)
        BY <4>5, CutIs
      <4>7. Decodable(Cut(s))
        BY <4>4, <4>5 DEF Decodable, ToSet
      <4>8. w = PyStr(Cut(s))
        BY <4>2, <4>6, <4>7 DEF ObjectOf, Scalar, FromString, String, s
      <4> QED
        BY <3>3, <4>5, <4>8 DEF ReadsAs, PyStr, s
    <3>4. CASE v.t = "None" \/ v.t = "float"
      <4>1. e = IF v.t = "None" THEN Null ELSE Real
        BY <2>4, <3>4 DEF ElementOf, Made
      <4>2. w = IF v.t = "None" THEN None ELSE Float
        BY <4>1 DEF ObjectOf, Scalar, Null, Real
      <4> QED
        BY <3>4, <4>2 DEF ReadsAs, None, Float
    <3>5. CASE v.t = "bool"
      <4>1. e = Boolean(v.bool)
        BY <2>4, <3>5 DEF ElementOf, Made
      <4>2. w = PyBool(v.bool)
        BY <4>1 DEF ObjectOf, Scalar, Boolean
      <4> QED
        BY <3>5, <4>2 DEF ReadsAs, PyBool
    <3>6. CASE v.t = "int"
      <4>1. e = Integer(v.int)
        BY <1>2, <2>4, <3>6 DEF ElementOf, Made, Failed
      <4>2. w = PyInt(v.int)
        BY <4>1 DEF ObjectOf, Scalar, Integer
      <4> QED
        BY <3>6, <4>2 DEF ReadsAs, PyInt
    <3>7. CASE v.t = "object"
      BY <1>2, <2>4, <3>7 DEF ElementOf, Failed
    <3> QED
      BY <2>3, <3>1, <3>2, <3>3, <3>4, <3>5, <3>6, <3>7 DEF IsObject
  <2> QED
    BY <2>2, <2>5, ReadingIs
<1>3. \A v \in Objects : Parts(v) \subseteq G => v \in G
  BY <1>2
<1>4. Objects \subseteq G
  <2> HIDE DEF G
  <2> QED
    BY <1>3, OnValues
<1> QED
  BY <1>1, <1>4

-----------------------------------------------------------------------------
(* Numbers of a C type.                                                    *)

\* Quotient and remainder.
LEMMA Remainder ==
  ASSUME NEW m \in Nat \ {0}, NEW x \in Int
  PROVE  /\ x % m \in 0 .. m - 1 /\ x \div m \in Int
         /\ x = m * (x \div m) + (x % m)
         /\ (x - (x % m)) % m = 0
<1>1. x % m \in 0 .. m - 1
  OBVIOUS
<1>2. x \div m \in Int
  OBVIOUS
<1>3. x = m * (x \div m) + (x % m)
  OBVIOUS
<1>4. (x - (x % m)) % m = 0
  OBVIOUS
<1> QED
  BY <1>1, <1>2, <1>3, <1>4

\* A quotient and a remainder are what multiplies and adds up to the number.
LEMMA DivModIs ==
  ASSUME NEW m \in Nat \ {0}, NEW q \in Int, NEW r \in 0 .. m - 1
  PROVE  (q * m + r) \div m = q /\ (q * m + r) % m = r
OBVIOUS

\* Dividing twice.
LEMMA DivDiv ==
  ASSUME NEW a \in Nat \ {0}, NEW b \in Nat \ {0}, NEW n \in Nat
  PROVE  (n \div a) \div b = n \div (a * b)
<1> DEFINE q == n \div a
           r == n % a
           p == q \div b
           s == q % b
<1>1. q \in Int /\ r \in 0 .. a - 1 /\ n = q * a + r
  <2>1. n \in Int /\ \A z \in Int : a * z = z * a
    OBVIOUS
  <2> QED
    BY <2>1, Remainder
<1>2. p \in Int /\ s \in 0 .. b - 1 /\ q = p * b + s
  <2> HIDE DEF q
  <2>1. \A z \in Int : b * z = z * b
    OBVIOUS
  <2> QED
    BY <1>1, <2>1, Remainder
<1> HIDE DEF q, r, p, s
<1>3. n = p * (a * b) + (s * a + r)
  BY <1>1, <1>2
<1>4. s * a + r \in 0 .. a * b - 1
  <2>1. s * a <= (b - 1) * a /\ s * a >= 0
    BY <1>2
  <2> QED
    BY <1>1, <1>2, <2>1
<1>5. a * b \in Nat \ {0}
  OBVIOUS
<1>6. n \div (a * b) = p
  <2> DEFINE m == a * b
             t == s * a + r
  <2>1. m \in Nat \ {0} /\ t \in 0 .. m - 1 /\ n = p * m + t
    BY <1>3, <1>4, <1>5
  <2> HIDE DEF m, t
  <2>2. n \div m = p
    BY <1>2, <2>1, DivModIs
  <2> QED
    BY <2>2 DEF m
<1> QED
  BY <1>6 DEF p, q

\* The widths.
LEMMA Widths ==
  /\ Base \in Nat \ {0}
  /\ Values(0) = 1 /\ Values(1) = Base
  /\ \A n \in {1, 2, 4, 8} : /\ Values(n) \in Nat \ {0} /\ (Values(n) \div 2) \in Nat \ {0}
                             /\ Values(n) = 2 * (Values(n) \div 2)
  /\ Values(1) = Values(0) * Base
  /\ Values(2) = Values(1) * Base
  /\ Values(3) = Values(2) * Base
  /\ Values(4) = Values(3) * Base
  /\ Values(3) \in Nat \ {0}
<1>1. Base \in Nat \ {0} /\ Base % 2 = 0
  BY BaseAssumption
<1>2. PICK h \in Nat \ {0} : Base = 2 * h
  <2>1. Base = 2 * (Base \div 2) /\ (Base \div 2) \in Nat \ {0}
    BY <1>1
  <2> QED
    BY <2>1
<1>3. \A a \in Nat \ {0} : \A b \in Nat \ {0} : a * b \in Nat \ {0} /\ a * b = b * a
  OBVIOUS
<1>4. \A a \in Nat \ {0} : Base * a \in Nat \ {0} /\ Base * a = 2 * (h * a)
                           /\ h * a \in Nat \ {0} /\ ((Base * a) \div 2) = h * a
  BY <1>1, <1>2
<1>5. Base * Base \in Nat \ {0} /\ Base * Base * Base \in Nat \ {0} /\ Base * Base * Base * Base \in Nat \ {0}
  BY <1>1, <1>3
<1> DEFINE word == Base * Base * Base * Base
<1>6. /\ Values(0) = 1 /\ Values(1) = Base /\ Values(2) = Base * Base
      /\ Values(3) = Base * Base * Base /\ Values(4) = word /\ Values(8) = word * word
  BY DEF Values
<1>7. Values(2) = Base * Base
  BY <1>6
<1>8. Values(4) = Base * (Base * Base * Base)
  BY <1>1, <1>6
<1>9. Values(8) = Base * ((Base * Base * Base) * word) /\ (Base * Base * Base) * word \in Nat \ {0}
  <2> DEFINE t == Base * Base * Base
  <2>1. t \in Nat \ {0} /\ word = t * Base
    BY <1>5
  <2>2. word \in Nat \ {0}
    BY <1>5
  <2> HIDE DEF t, word
  <2>3. word * word = Base * (t * word) /\ t * word \in Nat \ {0}
    BY <1>1, <2>1, <2>2
  <2> QED
    BY <1>6, <2>3 DEF t
<1> HIDE DEF word
<1>10. \A n \in {1, 2, 4, 8} : \E a \in Nat \ {0} : Values(n) = Base * a
  <2>1. Values(1) = Base * 1
    BY <1>1, <1>6
  <2> QED
    BY <1>1, <1>5, <1>7, <1>8, <1>9, <2>1
<1>11. \A n \in {1, 2, 4, 8} : /\ Values(n) \in Nat \ {0} /\ (Values(n) \div 2) \in Nat \ {0}
                               /\ Values(n) = 2 * (Values(n) \div 2)
  BY <1>4, <1>10
<1> QED
  BY <1>1, <1>5, <1>6, <1>11 DEF word

\* What a conversion of C makes of a number.
LEMMA Narrowed ==
  ASSUME NEW n \in {1, 2, 4, 8}, NEW x \in Int
  PROVE  /\ ToUnsigned(x, n) \in Unsigned(n) /\ (x - ToUnsigned(x, n)) % Values(n) = 0
         /\ ToSigned(x, n) \in Signed(n)
         /\ ToSigned(x, n) = 0 => ToUnsigned(x, n) = 0
         /\ ToSigned(-1, n) = -1
         /\ Signed(n) \subseteq Int /\ Unsigned(n) \subseteq Nat
         /\ 0 \in Signed(n) /\ -1 \in Signed(n)
<1> DEFINE half == Values(n) \div 2
           m == Values(n)
<1>1. m \in Nat \ {0} /\ half \in Nat \ {0} /\ m = 2 * half
  BY Widths
<1> HIDE DEF half, m
<1>2. x % m \in 0 .. m - 1 /\ (x - (x % m)) % m = 0
  BY <1>1, Remainder
<1>3. (x + half) % m \in 0 .. m - 1 /\ (x + half) = m * ((x + half) \div m) + ((x + half) % m)
      /\ (x + half) \div m \in Int
  <2>1. x + half \in Int
    BY <1>1
  <2> QED
    BY <1>1, <2>1, Remainder
<1>4. ((x + half) % m) - half \in -half .. half - 1
  BY <1>1, <1>3
<1>5. ((x + half) % m) - half = 0 => x % m = 0
  <2> SUFFICES ASSUME ((x + half) % m) = half
               PROVE  x % m = 0
    BY <1>1, <1>3
  <2> DEFINE q == (x + half) \div m
  <2>1. q \in Int /\ x = q * m + 0
    BY <1>1, <1>3
  <2> HIDE DEF q
  <2> QED
    BY <1>1, <2>1, DivModIs
<1>6. ((-1 + half) % m) - half = -1
  <2>1. -1 + half \in 0 .. m - 1 /\ -1 + half = 0 * m + (-1 + half)
    BY <1>1
  <2>2. (-1 + half) % m = -1 + half
    BY <1>1, <2>1, DivModIs
  <2> QED
    BY <1>1, <2>2
<1> QED
  <2>1. ToUnsigned(x, n) = x % m /\ Unsigned(n) = 0 .. m - 1
    BY DEF ToUnsigned, Unsigned, m
  <2>2. ToSigned(x, n) = ((x + half) % m) - half /\ ToSigned(-1, n) = ((-1 + half) % m) - half
        /\ Signed(n) = -half .. half - 1
    BY DEF ToSigned, Signed, m, half
  <2>3. m = Values(n)
    BY DEF m
  <2>4. (x - ToUnsigned(x, n)) % Values(n) = 0 /\ ToUnsigned(x, n) \in Unsigned(n)
    BY <1>2, <2>1, <2>3, Zenon
  <2>5. ToSigned(x, n) \in Signed(n) /\ ToSigned(-1, n) = -1
    BY <1>4, <1>6, <2>2
  <2>6. ToSigned(x, n) = 0 => ToUnsigned(x, n) = 0
    BY <1>5, <2>1, <2>2, Zenon
  <2>7. Signed(n) \subseteq Int /\ Unsigned(n) \subseteq Nat /\ 0 \in Signed(n) /\ -1 \in Signed(n)
    BY <1>1, <2>1, <2>2
  <2> QED
    BY <2>4, <2>5, <2>6, <2>7

\* Dividing by the values of one byte after the other.
LEMMA Shifts ==
  ASSUME NEW n \in Nat
  PROVE  /\ n \div Values(0) = n
         /\ n \div Values(1) = n \div Base
         /\ n \div Values(2) = (n \div Values(1)) \div Base
         /\ n \div Values(3) = (n \div Values(2)) \div Base
         /\ \A k \in 0 .. 3 : n \div Values(k) \in Nat
<1>1. n \div 1 = n
  OBVIOUS
<1>2. \A m \in Nat \ {0} : n \div m \in Nat
  OBVIOUS
<1>3. \A m \in Nat \ {0} : n \div (m * Base) = (n \div m) \div Base
  BY Widths, DivDiv
<1>4. Values(0) \in Nat \ {0} /\ Values(1) \in Nat \ {0} /\ Values(2) \in Nat \ {0} /\ Values(3) \in Nat \ {0}
  BY Widths
<1>5. \A k \in 0 .. 3 : k \in {0, 1, 2, 3}
  OBVIOUS
<1> QED
  BY <1>1, <1>2, <1>3, <1>4, <1>5, Widths

\* One more digit.
LEMMA Digit ==
  ASSUME NEW m \in Nat \ {0}, NEW q \in 0 .. m - 1, NEW d \in Unsigned(1)
  PROVE  /\ q * Base + d \in 0 .. m * Base - 1
         /\ (q * Base + d) \div Base = q /\ (q * Base + d) % Base = d
<1>1. Base \in Nat \ {0} /\ d \in 0 .. Base - 1
  BY Widths DEF Unsigned
<1>2. q * Base <= (m - 1) * Base /\ q * Base >= 0 /\ (m - 1) * Base = m * Base - Base
  BY <1>1
<1>3. q * Base + d \in 0 .. m * Base - 1
  BY <1>1, <1>2
<1>4. (q * Base + d) \div Base = q /\ (q * Base + d) % Base = d
  BY <1>1, DivModIs
<1> QED
  BY <1>3, <1>4

\* Bytes that are read as a number are those that the number is stored in.
LEMMA BytesAreRead ==
  ASSUME NEW b \in Seq(Unsigned(1)), NEW g \in {1, 2, 4}, g <= Len(b)
  PROVE  /\ FromBytes(b, g) \in Unsigned(g)
         /\ BigEndian(FromBytes(b, g), g) = SubSeq(b, 1, g)
<1> DEFINE y2 == b[1] * Base + b[2]
           y3 == y2 * Base + b[3]
           y4 == y3 * Base + b[4]
<1>1. \A i \in 1 .. g : b[i] \in Unsigned(1)
  OBVIOUS
<1>2. Base \in Nat \ {0} /\ \A x \in Unsigned(1) : x \in 0 .. Base - 1 /\ x \in Nat /\ x % Base = x
  <2>1. \A m \in Nat \ {0} : \A x \in 0 .. m - 1 : x % m = x
    OBVIOUS
  <2>2. Base \in Nat \ {0} /\ Unsigned(1) = 0 .. Base - 1
    BY Widths DEF Unsigned
  <2>3. \A x \in Unsigned(1) : x % Base = x
    BY <2>1, <2>2
  <2> QED
    BY <2>2, <2>3
<1>3. ASSUME NEW x, x \in Unsigned(g), \A i \in 1 .. g : (x \div Values(g - i)) % Base = b[i]
      PROVE  BigEndian(x, g) = SubSeq(b, 1, g)
  <2>1. BigEndian(x, g) = [i \in 1 .. g |-> b[i]]
    BY <1>3, Zenon DEF BigEndian
  <2>2. SubSeq(b, 1, g) = [i \in 1 .. g |-> b[i]]
    OBVIOUS
  <2> QED
    BY <2>1, <2>2
<1>4. CASE g = 1
  <2>1. FromBytes(b, g) = b[1] /\ b[1] \in Unsigned(1)
    BY <1>1, <1>4 DEF FromBytes
  <2>2. b[1] \div Values(0) = b[1]
    BY <1>2, <2>1, Shifts
  <2>3. \A i \in 1 .. g : (b[1] \div Values(g - i)) % Base = b[i]
    <3>1. \A i \in 1 .. g : i = 1 /\ g - i = 0
      BY <1>4
    <3> QED
      BY <1>2, <2>1, <2>2, <3>1
  <2> QED
    BY <1>3, <1>4, <2>1, <2>3
<1>5. CASE g \in {2, 4}
  <2>1. b[1] \in Unsigned(1) /\ b[2] \in Unsigned(1)
    BY <1>1, <1>5
  <2>2. y2 \in 0 .. Values(2) - 1 /\ y2 \div Base = b[1] /\ y2 % Base = b[2]
    <3>1. Values(1) \in Nat \ {0} /\ Values(2) = Values(1) * Base /\ b[1] \in 0 .. Values(1) - 1
      BY <2>1, Widths DEF Unsigned
    <3>2. /\ b[1] * Base + b[2] \in 0 .. Values(1) * Base - 1
          /\ (b[1] * Base + b[2]) \div Base = b[1] /\ (b[1] * Base + b[2]) % Base = b[2]
      BY <2>1, <3>1, Digit, Zenon
    <3> QED
      BY <3>1, <3>2, Zenon
  <2> HIDE DEF y2
  <2>3. Values(2) \in Nat \ {0} /\ y2 \in Nat
    BY <2>2, Widths
  <2>4. CASE g = 2
    <3>1. FromBytes(b, g) = y2
      BY <2>4 DEF FromBytes, y2
    <3>2. y2 \in Unsigned(g)
      BY <2>2, <2>4 DEF Unsigned
    <3>3. y2 \div Values(0) = y2 /\ y2 \div Values(1) = b[1]
      BY <2>2, <2>3, Shifts
    <3>4. \A i \in 1 .. g : (y2 \div Values(g - i)) % Base = b[i]
      <4>1. \A i \in 1 .. g : (i = 1 /\ g - i = 1) \/ (i = 2 /\ g - i = 0)
        BY <2>4
      <4> QED
        BY <1>2, <2>1, <2>2, <3>3, <4>1
    <3> QED
      BY <1>3, <3>1, <3>2, <3>4
  <2>5. CASE g = 4
    <3>1. b[3] \in Unsigned(1) /\ b[4] \in Unsigned(1)
      BY <1>1, <2>5
    <3>2. y3 \in 0 .. Values(3) - 1 /\ y3 \div Base = y2 /\ y3 % Base = b[3]
      <4>1. /\ y2 * Base + b[3] \in 0 .. Values(2) * Base - 1
            /\ (y2 * Base + b[3]) \div Base = y2 /\ (y2 * Base + b[3]) % Base = b[3]
        BY <2>2, <2>3, <3>1, Digit, Zenon
      <4> QED
        BY <4>1, Widths, Zenon
    <3> HIDE DEF y3
    <3>3. Values(3) \in Nat \ {0} /\ y3 \in Nat
      BY <3>2, Widths
    <3>4. y4 \in 0 .. Values(4) - 1 /\ y4 \div Base = y3 /\ y4 % Base = b[4]
      <4>1. /\ y3 * Base + b[4] \in 0 .. Values(3) * Base - 1
            /\ (y3 * Base + b[4]) \div Base = y3 /\ (y3 * Base + b[4]) % Base = b[4]
        BY <3>1, <3>2, <3>3, Digit, Zenon
      <4> QED
        BY <4>1, Widths, Zenon
    <3>5. FromBytes(b, g) = y4
      BY <2>5 DEF FromBytes, y2, y3
    <3> HIDE DEF y4
    <3>6. y4 \in Unsigned(g) /\ y4 \in Nat
      BY <2>5, <3>4, Widths DEF Unsigned
    <3>7. /\ y4 \div Values(0) = y4 /\ y4 \div Values(1) = y3
          /\ y4 \div Values(2) = y2 /\ y4 \div Values(3) = b[1]
      <4>1. y4 \div Values(1) = y3
        BY <3>4, <3>6, Shifts
      <4>2. y4 \div Values(2) = y2
        BY <3>2, <3>6, <4>1, Shifts
      <4>3. y4 \div Values(3) = b[1]
        BY <2>2, <3>6, <4>2, Shifts
      <4> QED
        BY <3>6, <4>1, <4>2, <4>3, Shifts
    <3>8. \A i \in 1 .. g : (y4 \div Values(g - i)) % Base = b[i]
      <4>1. \A i \in 1 .. g : \/ (i = 1 /\ g - i = 3) \/ (i = 2 /\ g - i = 2)
                              \/ (i = 3 /\ g - i = 1) \/ (i = 4 /\ g - i = 0)
        BY <2>5
      <4> QED
        BY <1>2, <2>1, <2>2, <3>2, <3>4, <3>7, <4>1
    <3> QED
      BY <1>3, <3>5, <3>6, <3>8
  <2> QED
    BY <1>5, <2>4, <2>5
<1> QED
  BY <1>4, <1>5

\* A number that is stored in bytes is read from them, or its leading bytes.
LEMMA NumberIsRead ==
  ASSUME NEW c \in {1, 2, 4}, NEW n \in Unsigned(c), NEW g \in {1, 2, 4}, g <= c
  PROVE  /\ BigEndian(n, c) \in Seq(Unsigned(1)) /\ Len(BigEndian(n, c)) = c
         /\ FromBytes(BigEndian(n, c), g) = n \div Values(c - g)
         /\ g = c => n \div Values(c - g) = n
<1> DEFINE b == BigEndian(n, c)
<1>1. n \in Nat /\ Base \in Nat \ {0}
  BY Widths DEF Unsigned
<1>2. \A x \in Nat : x % Base \in Unsigned(1) /\ (x \div Base) * Base + (x % Base) = x
  <2>1. ASSUME NEW x \in Nat
        PROVE  x % Base \in 0 .. Base - 1 /\ (x \div Base) * Base + (x % Base) = x
    <3>1. x \in Int /\ \A z \in Int : Base * z = z * Base
      BY <1>1
    <3>2. x % Base \in 0 .. Base - 1 /\ x \div Base \in Int /\ x = Base * (x \div Base) + (x % Base)
      BY <1>1, <3>1, Remainder
    <3> QED
      BY <3>1, <3>2
  <2> QED
    BY <2>1, Widths DEF Unsigned
<1>3. b = [i \in 1 .. c |-> (n \div Values(c - i)) % Base]
  BY DEF BigEndian
<1>4. \A k \in 0 .. 3 : n \div Values(k) \in Nat
  BY <1>1, Shifts
<1>5. b \in Seq(Unsigned(1)) /\ Len(b) = c
  <2>1. \A i \in 1 .. c : c - i \in 0 .. 3
    OBVIOUS
  <2>2. \A i \in 1 .. c : (n \div Values(c - i)) % Base \in Unsigned(1)
    BY <1>2, <1>4, <2>1
  <2> QED
    BY <1>3, <2>2
<1>6. n \div Values(0) = n
  BY <1>1, Shifts
<1>7. \A q \in 0 .. Base - 1 : q % Base = q
  BY <1>1
<1>8. FromBytes(b, g) = n \div Values(c - g)
  <2> HIDE DEF b
  <2>1. CASE c = 1
    <3>1. n \in 0 .. Base - 1
      BY <2>1, Widths DEF Unsigned
    <3>2. b[1] = n % Base
      BY <1>3, <1>6, <2>1
    <3> QED
      BY <1>6, <1>7, <2>1, <3>1, <3>2 DEF FromBytes
  <2>2. CASE c = 2
    <3> DEFINE q1 == n \div Values(1)
    <3>1. b[1] = q1 % Base /\ b[2] = n % Base
      BY <1>3, <1>6, <2>2
    <3>2. q1 = n \div Base /\ q1 \in Nat
      BY <1>1, Shifts
    <3>3. q1 * Base + (n % Base) = n
      BY <1>1, <1>2, <3>2
    <3>4. n \in 0 .. Values(1) * Base - 1
      BY <2>2, Widths DEF Unsigned
    <3>5. q1 \in 0 .. Base - 1
      <4>1. Values(1) = Base
        BY Widths
      <4> HIDE DEF q1
      <4>2. q1 * Base <= n /\ n < Base * Base
        <5>1. n % Base \in Nat
          BY <1>1
        <5> QED
          BY <1>1, <3>2, <3>3, <3>4, <4>1, <5>1
      <4> QED
        BY <1>1, <3>2, <4>2
    <3>6. b[1] = q1
      BY <1>7, <3>1, <3>5
    <3> HIDE DEF q1
    <3>7. CASE g = 1
      BY <2>2, <3>6, <3>7 DEF FromBytes, q1
    <3>8. CASE g = 2
      BY <1>6, <2>2, <3>1, <3>3, <3>6, <3>8 DEF FromBytes
    <3> QED
      BY <2>2, <3>7, <3>8
  <2>3. CASE c = 4
    <3> DEFINE q1 == n \div Values(3)
               q2 == n \div Values(2)
               q3 == n \div Values(1)
    <3>1. b[1] = q1 % Base /\ b[2] = q2 % Base /\ b[3] = q3 % Base /\ b[4] = n % Base
      BY <1>3, <1>6, <2>3
    <3>2. q3 = n \div Base /\ q2 = q3 \div Base /\ q1 = q2 \div Base
          /\ q1 \in Nat /\ q2 \in Nat /\ q3 \in Nat
      BY <1>1, Shifts
    <3>3. n \in 0 .. Values(3) * Base - 1
      BY <2>3, Widths DEF Unsigned
    <3>4. q1 \in 0 .. Base - 1
      <4> DEFINE m == Values(3)
      <4>1. m \in Nat \ {0}
        BY Widths
      <4>2. m * q1 + (n % m) = n /\ n % m \in Nat
        <5> HIDE DEF m
        <5>1. n = m * (n \div m) + (n % m) /\ n % m \in 0 .. m - 1
          BY <1>1, <4>1, Remainder
        <5> QED
          BY <4>1, <5>1 DEF m
      <4> HIDE DEF q1, m
      <4>3. m * q1 < m * Base
        BY <1>1, <3>2, <3>3, <4>1, <4>2 DEF m
      <4> QED
        BY <1>1, <3>2, <4>1, <4>3
    <3>5. b[1] = q1
      BY <1>7, <3>1, <3>4
    <3> HIDE DEF q1, q2, q3
    <3>6. q1 * Base + b[2] = q2 /\ q2 * Base + b[3] = q3 /\ q3 * Base + b[4] = n
      BY <1>1, <1>2, <3>1, <3>2
    <3>7. CASE g = 1
      BY <2>3, <3>5, <3>7 DEF FromBytes, q1
    <3>8. CASE g = 2
      BY <2>3, <3>5, <3>6, <3>8 DEF FromBytes, q2
    <3>9. CASE g = 4
      BY <1>6, <2>3, <3>5, <3>6, <3>9 DEF FromBytes
    <3> QED
      BY <3>7, <3>8, <3>9
  <2> QED
    BY <2>1, <2>2, <2>3
<1>9. g = c => n \div Values(c - g) = n
  BY <1>6
<1> QED
  BY <1>5, <1>8, <1>9

-----------------------------------------------------------------------------
(* Texts.                                                                  *)

\* A text of Python is cut and lowered as its reading says.
LEMMA Texts ==
  ASSUME NEW s \in PythonText
  PROVE  LET c == Cut(s)
         IN /\ CutsTo(s, c) /\ CutsTo(Lower(s), Lower(c))
            /\ FromString(c) = PyStr(c) /\ FromString(Lower(c)) = PyStr(Lower(c))
            /\ "A" \notin ToSet(Lower(c)) /\ "nul" \notin ToSet(c)
            /\ "nul" \notin ToSet(s) => c = s
            /\ GetString(String(s)) = PyStr(s)
<1> DEFINE S == Characters \ {"bad"}
           c == Cut(s)
           l == Lower(c)
<1>1. s \in Seq(S) /\ "bad" \notin S /\ "a" \in S
  BY DEF PythonText, Characters
<1> HIDE DEF S
<1>2. c \in Seq(S) /\ CutsTo(s, c) /\ "nul" \notin ToSet(c) /\ ("nul" \notin ToSet(s) => c = s)
  BY <1>1, CutIs
<1> HIDE DEF c
<1>3. l = [i \in 1 .. Len(c) |-> IF c[i] = "A" THEN "a" ELSE c[i]]
  BY <1>2 DEF Lower
<1>4. l \in Seq(S) /\ Len(l) = Len(c)
  BY <1>1, <1>2, <1>3
<1>5. \A i \in 1 .. Len(c) : l[i] # "nul" /\ l[i] # "A"
  BY <1>2, <1>3 DEF ToSet
<1> HIDE DEF l
<1>6. "nul" \notin ToSet(l) /\ "A" \notin ToSet(l)
  BY <1>4, <1>5 DEF ToSet
<1>7. Cut(c) = c /\ Cut(l) = l
  BY <1>2, <1>4, <1>6, CutIs
<1>8. Decodable(s) /\ Decodable(c) /\ Decodable(l)
  BY <1>1, <1>2, <1>4 DEF Decodable, ToSet
<1>9. FromString(c) = PyStr(c) /\ FromString(l) = PyStr(l) /\ GetString(String(s)) = PyStr(s)
  BY <1>7, <1>8 DEF FromString, GetString, String
<1>10. CutsTo(Lower(s), l)
  <2> DEFINE u == Lower(s)
  <2>1. u = [i \in 1 .. Len(s) |-> IF s[i] = "A" THEN "a" ELSE s[i]]
    BY <1>1 DEF Lower
  <2>2. u \in Seq(S) /\ Len(u) = Len(s) /\ \A i \in 1 .. Len(s) : u[i] = IF s[i] = "A" THEN "a" ELSE s[i]
    BY <1>1, <2>1
  <2> HIDE DEF u
  <2>3. Len(c) <= Len(s) /\ (\A i \in 1 .. Len(c) : c[i] = s[i])
        /\ (Len(c) < Len(s) => s[Len(c) + 1] = "nul")
    BY <1>1, <1>2 DEF CutsTo, IsPrefix
  <2>4. \A i \in 1 .. Len(c) : l[i] = u[i]
    BY <1>1, <1>2, <1>3, <2>2, <2>3
  <2>5. l = SubSeq(u, 1, Len(l)) /\ Len(l) <= Len(u)
    BY <1>1, <1>2, <1>4, <2>2, <2>3, <2>4
  <2>6. IsPrefix(l, u)
    BY <2>5 DEF IsPrefix
  <2>7. Len(l) < Len(u) => u[Len(l) + 1] = "nul"
    BY <1>1, <1>2, <1>4, <2>2, <2>3
  <2> QED
    BY <1>6, <2>6, <2>7 DEF CutsTo, u
<1> QED
  BY <1>2, <1>6, <1>9, <1>10 DEF c, l

-----------------------------------------------------------------------------
(* What a call of the module may do, field by field.                       *)

\* A call that raises an error although it stored something.
Replaces(f, v, x) ==
  /\ f \in {"response", "context", "class"}
  /\ object_to_element[v].error
  /\ Fails(object_to_element[v]) => f = "context" /\ x = NullPtr

\* A call that aborts the server.
Aborts(f, v) ==
  \/ f = "hostname" /\ ~Encodable(v.str)
  \/ f \in Parsed /\ object_to_element[IF f = "host" THEN v.config ELSE v].element = NullPtr

\* The outcome o of a call that passed v for field f, which was s.
Sound(f, call, v, s, o) ==
  /\ o.end \in {"returns", "raises", "dies"} /\ o.error \in BOOLEAN
  /\ o.end # "returns" => o.stored = s
  /\ o.end = "dies" => Aborts(f, v)
  /\ o.end = "returns" => /\ InType(f, o.stored)
                          /\ ~o.error => Faithful(f, call, v, o.stored)
                          /\ o.error => f \in Attributes \cup Results \/ Replaces(f, v, o.stored)

\* A call that raises.
LEMMA RaisesSound ==
  \A f, call, v, s : Sound(f, call, v, s, Raises(s))
BY DEF Sound, Raises

\* A call that aborts.
LEMMA DiesSound ==
  \A f, call, v, s : Aborts(f, v) => Sound(f, call, v, s, Dies(s))
BY DEF Sound, Dies

\* A call that returns what reads as it was given.
LEMMA ReturnsSound ==
  ASSUME NEW f, NEW call, NEW v, NEW s, NEW x, InType(f, x), Faithful(f, call, v, x)
  PROVE  Sound(f, call, v, s, Returns(x, FALSE))
BY DEF Sound, Returns

\* A call that returns with an error pending.
LEMMA FailureSound ==
  ASSUME NEW f, NEW call, NEW v, NEW s, NEW x, InType(f, x),
         f \in Attributes \cup Results \/ Replaces(f, v, x)
  PROVE  Sound(f, call, v, s, Returns(x, TRUE))
BY DEF Sound, Returns

\* The fields that are numbers.
NumberFields == {"valid_lft", "cltt", "status", "type", "flags", "wiped"}

\* A number reads as itself, modulo the width it is masked to.
LEMMA NumberFaithful ==
  ASSUME NEW f \in NumberFields, NEW v, NEW n \in Int,
         CASE f \in {"valid_lft", "wiped"} -> n = ToUnsigned(Number(v), 4)
           [] f = "flags" -> n = ToUnsigned(Number(v), 2)
           [] OTHER -> n = Number(v),
         Number(v) \in Int
  PROVE  Faithful(f, "value", v, Integer(n))
<1>1. Getters(f) = {"value"}
  BY DEF NumberFields, Getters, Setters, Parsed, Results
<1>2. Read(f, "value", Integer(n)) = PyInt(n)
  BY DEF NumberFields, Read, Scalar, Integer
<1>3. CASE f \in {"valid_lft", "wiped"}
  <2>1. n \in Unsigned(4) /\ (Number(v) - n) % Values(4) = 0
    BY <1>3, Narrowed
  <2>2. Wraps(Number(v), 4, PyInt(n))
    BY <2>1 DEF Wraps, PyInt
  <2> QED
    BY <1>1, <1>2, <1>3, <2>2 DEF Faithful, Shows
<1>4. CASE f = "flags"
  <2>1. n \in Unsigned(2) /\ (Number(v) - n) % Values(2) = 0
    BY <1>4, Narrowed
  <2>2. Wraps(Number(v), 2, PyInt(n))
    BY <2>1 DEF Wraps, PyInt
  <2> QED
    BY <1>1, <1>2, <1>4, <2>2 DEF Faithful, Shows
<1>5. CASE f \in {"status", "type", "cltt"}
  BY <1>1, <1>2, <1>5 DEF Faithful, Shows
<1> QED
  BY <1>3, <1>4, <1>5 DEF NumberFields

\* A call that sets a number.
LEMMA NumbersSound ==
  ASSUME NEW f \in NumberFields, NEW v \in Offered(f, "value"), NEW s,
         NEW o \in Outcomes(f, "value", v, s)
  PROVE  Sound(f, "value", v, s, o)
<1>1. v \in {PyInt(n) : n \in Numbers} \cup {PyBool(TRUE), None, Deleted}
  <2>1. Offered(f, "value") = {PyInt(n) : n \in Numbers} \cup {PyBool(TRUE), None}
                               \cup (IF f \in Attributes THEN {Deleted} ELSE {})
    BY DEF NumberFields, Offered
  <2> QED
    BY <2>1
<1>2. IsNumber(v) => Number(v) \in Int
  BY <1>1, ArgumentsAssumption DEF IsNumber, Number, PyInt, PyBool, None, Deleted
<1> DEFINE k == Number(v)
<1>3. CASE ~IsNumber(v)
  <2>1. o = Raises(s)
    BY <1>3 DEF NumberFields, Outcomes, SetStatus, SetType, SetFlags, WipeLeases4, SetNumber, SetCltt,
                InRange, Masked
  <2> QED
    BY <2>1, RaisesSound
<1>4. CASE IsNumber(v)
  <2>1. CASE f \in {"status", "type"}
    <3> DEFINE range == IF f = "status" THEN Signed(4) ELSE Unsigned(1)
    <3>1. o = IF k \in range THEN Returns(Integer(k), FALSE) ELSE Raises(s)
      BY <1>4, <2>1 DEF Outcomes, SetStatus, SetType, InRange
    <3>2. k \in range => InType(f, Integer(k)) /\ Faithful(f, "value", v, Integer(k))
      <4>1. k \in range => InType(f, Integer(k))
        BY <2>1 DEF InType, Integer
      <4>2. Faithful(f, "value", v, Integer(k))
        BY <1>2, <1>4, <2>1, NumberFaithful
      <4> QED
        BY <4>1, <4>2
    <3> HIDE DEF range, k
    <3> QED
      BY <3>1, <3>2, RaisesSound, ReturnsSound
  <2>2. CASE f \in {"flags", "wiped"}
    <3> DEFINE n == ToUnsigned(k, IF f = "flags" THEN 2 ELSE 4)
    <3>1. o = Returns(Integer(n), FALSE)
      BY <1>4, <2>2 DEF Outcomes, SetFlags, WipeLeases4, Masked
    <3>2. n \in Int /\ InType(f, Integer(n))
      <4>1. k \in Int
        BY <1>2, <1>4
      <4>2. n \in (IF f = "flags" THEN Unsigned(2) ELSE Unsigned(4)) /\ n \in Int
        <5> HIDE DEF k
        <5> QED
          BY <2>2, <4>1, Narrowed
      <4> HIDE DEF n
      <4> QED
        BY <2>2, <4>2 DEF InType, Integer
    <3>3. Faithful(f, "value", v, Integer(n))
      BY <1>2, <1>4, <2>2, <3>2, NumberFaithful
    <3> QED
      BY <3>1, <3>2, <3>3, ReturnsSound
  <2>3. CASE f \in {"valid_lft", "cltt"}
    <3> DEFINE a == AsLong(k)
               n == IF f = "cltt" THEN a ELSE ToUnsigned(a, 4)
    <3>1. o = Returns(Integer(n), k \notin Long)
      BY <1>4, <2>3 DEF Outcomes, SetNumber, SetCltt
    <3>2. a \in Long /\ a \in Int /\ (k \in Long => a = k)
      BY Narrowed DEF AsLong, Long
    <3>3. n \in Int /\ InType(f, Integer(n))
      <4> HIDE DEF a
      <4>1. ToUnsigned(a, 4) \in Unsigned(4) /\ ToUnsigned(a, 4) \in Int
        BY <3>2, Narrowed
      <4> QED
        BY <2>3, <3>2, <4>1 DEF InType, Integer
    <3>4. CASE k \in Long
      <4>1. Faithful(f, "value", v, Integer(n))
        <5> HIDE DEF a
        <5> QED
          BY <1>2, <1>4, <2>3, <3>2, <3>3, <3>4, NumberFaithful
      <4> HIDE DEF n, k
      <4> QED
        BY <3>1, <3>3, <3>4, <4>1, ReturnsSound
    <3>5. CASE k \notin Long
      <4>1. f \in Attributes
        BY <2>3 DEF Attributes
      <4> HIDE DEF n, k
      <4> QED
        BY <3>1, <3>3, <3>5, <4>1, FailureSound
    <3> QED
      BY <3>4, <3>5
  <2> QED
    BY <2>1, <2>2, <2>3 DEF NumberFields
<1> QED
  BY <1>3, <1>4

\* The fields that are texts.
TextFields == {"addr", "ciaddr", "hostname", "hwaddr", "chaddr", "client_id", "text"}

\* A call that sets a text.
LEMMA TextsSound ==
  ASSUME NEW f \in TextFields, NEW v \in Offered(f, "value"), NEW s,
         NEW o \in Outcomes(f, "value", v, s)
  PROVE  Sound(f, "value", v, s, o)
<1> DEFINE c == Cut(v.str)
           l == Lower(c)
<1>1. \/ \E t \in Strings : v = PyStr(t)
      \/ v \in {None, PyInt(1), Deleted}
  BY DEF TextFields, Offered
<1>2. CASE v.t # "str"
  <2>1. ~IsText(v) /\ ~IsCString(v)
    BY <1>2 DEF IsText, IsCString
  <2>2. CASE v # None \/ f \notin {"client_id", "hostname"}
    <3>1. o = Raises(s)
      BY <1>2, <2>1, <2>2 DEF TextFields, Outcomes, SetAddr, SetPktAddr, SetHostname, SetHWAddr, SetPktHWAddr,
         SetClientId, SetString
    <3> QED
      BY <3>1, RaisesSound
  <2>3. CASE v = None /\ f = "client_id"
    <3>1. o = Returns(NullPtr, FALSE)
      BY <2>3 DEF Outcomes, SetClientId
    <3>2. InType(f, NullPtr)
      BY <2>3 DEF InType
    <3>3. Getters(f) = {"value"} /\ Read(f, "value", NullPtr) = None
      BY <2>3 DEF Getters, Setters, Parsed, Results, Read, Scalar, NullPtr
    <3>4. Faithful(f, "value", v, NullPtr)
      BY <2>3, <3>3 DEF Faithful, Shows
    <3> QED
      BY <3>1, <3>2, <3>4, ReturnsSound
  <2>4. CASE v = None /\ f = "hostname"
    <3>1. o = Returns(String(<<>>), FALSE)
      BY <1>2, <2>4 DEF Outcomes, SetHostname
    <3>2. InType(f, String(<<>>))
      BY <2>4 DEF InType, String
    <3>3. Getters(f) = {"value"} /\ Read(f, "value", String(<<>>)) = None
      BY <2>4 DEF Getters, Setters, Parsed, Results, Read, GetHostname, String
    <3>4. Faithful(f, "value", v, String(<<>>))
      BY <2>4, <3>3 DEF Faithful, Shows
    <3> QED
      BY <3>1, <3>2, <3>4, ReturnsSound
  <2> QED
    BY <2>2, <2>3, <2>4
<1>3. CASE v.t = "str"
  <2>1. v.str \in PythonText /\ v = PyStr(v.str) /\ v # None
    BY <1>1, <1>3, ArgumentsAssumption DEF PyStr, None, PyInt, Deleted
  <2>2. /\ CutsTo(v.str, c) /\ CutsTo(Lower(v.str), l)
        /\ FromString(c) = PyStr(c) /\ FromString(l) = PyStr(l)
        /\ "A" \notin ToSet(l)
        /\ "nul" \notin ToSet(v.str) => c = v.str
        /\ GetString(String(v.str)) = v
    BY <2>1, Texts
  <2> HIDE DEF c
  <2>3. CASE f \in {"addr", "ciaddr"}
    <3>1. o = Raises(s) \/ o = Returns(String(c), FALSE)
      BY <2>2, <2>3 DEF Outcomes, SetAddr, SetPktAddr, IsCString, StoreAddress, c
    <3>2. InType(f, String(c))
      BY <2>3 DEF InType, String
    <3>3. Getters(f) = {"value"} /\ Read(f, "value", String(c)) = PyStr(c)
      BY <2>2, <2>3 DEF Getters, Setters, Parsed, Results, Read, Scalar, String
    <3>4. Faithful(f, "value", v, String(c))
      BY <2>2, <2>3, <3>3 DEF Faithful, Shows, PyStr
    <3> QED
      BY <3>1, <3>2, <3>4, RaisesSound, ReturnsSound
  <2>4. CASE f \in {"hwaddr", "chaddr", "client_id"}
    <3> HIDE DEF l
    <3>1. o = Raises(s) \/ o = Returns(String(l), FALSE)
      BY <2>1, <2>2, <2>4 DEF Outcomes, SetHWAddr, SetPktHWAddr, SetClientId, IsCString, StoreHex, c, l
    <3>2. InType(f, String(l))
      BY <2>2, <2>4 DEF InType, String
    <3>3. \A getter \in Getters(f) : Read(f, getter, String(l)) = PyStr(l)
      BY <2>2, <2>4 DEF Getters, Setters, Parsed, Results, Read, ToElement, Scalar, String, NullPtr
    <3>4. Faithful(f, "value", v, String(l))
      BY <2>1, <2>2, <2>4, <3>3 DEF Faithful, Shows, PyStr, None
    <3> QED
      BY <3>1, <3>2, <3>4, RaisesSound, ReturnsSound
  <2>5. CASE f = "hostname"
    <3> HIDE DEF l
    <3>1. o = IF Encodable(v.str) THEN Returns(String(l), FALSE) ELSE Dies(s)
      BY <1>3, <2>1, <2>5 DEF Outcomes, SetHostname, c, l
    <3>2. InType(f, String(l))
      BY <2>5 DEF InType, String
    <3>3. /\ Getters(f) = {"value"}
          /\ Read(f, "value", String(l)) = IF l = <<>> THEN None ELSE PyStr(l)
      BY <2>2, <2>5 DEF Getters, Setters, Parsed, Results, Read, GetHostname, String
    <3>4. Faithful(f, "value", v, String(l))
      BY <2>1, <2>2, <2>5, <3>3 DEF Faithful, Shows, PyStr, None
    <3>5. ~Encodable(v.str) => Aborts(f, v)
      BY <2>5 DEF Aborts
    <3> QED
      BY <3>1, <3>2, <3>4, <3>5, DiesSound, ReturnsSound
  <2>6. CASE f = "text"
    <3>1. o = Raises(s) \/ o = Returns(String(v.str), FALSE)
      BY <2>6 DEF Outcomes, SetString
    <3>2. InType(f, String(v.str))
      BY <2>6 DEF InType, String
    <3>3. Getters(f) = {"value"} /\ Read(f, "value", String(v.str)) = v
      BY <2>2, <2>6 DEF Getters, Setters, Parsed, Results, Read
    <3>4. Faithful(f, "value", v, String(v.str))
      BY <2>6, <3>3 DEF Faithful, Shows
    <3> QED
      BY <3>1, <3>2, <3>4, RaisesSound, ReturnsSound
  <2> QED
    BY <2>3, <2>4, <2>5, <2>6 DEF TextFields
<1> QED
  BY <1>2, <1>3

\* A call that sets a lease or a flag.
LEMMA OthersSound ==
  ASSUME NEW f \in {"lease4", "fqdn_fwd"}, NEW v \in Offered(f, "value"), NEW s,
         NEW o \in Outcomes(f, "value", v, s)
  PROVE  Sound(f, "value", v, s, o)
<1>1. Getters(f) = {"value"}
  BY DEF Getters, Setters, Parsed, Results
<1>2. CASE f = "lease4"
  <2>1. o = Raises(s) \/ (v.t = "Lease4" /\ o = Returns(v, FALSE))
    BY <1>2 DEF Outcomes, SetLease
  <2>2. v.t = "Lease4" => InType(f, v)
    BY <1>2 DEF InType
  <2>3. Faithful(f, "value", v, v)
    BY <1>1, <1>2 DEF Faithful, Shows, Read
  <2> QED
    BY <2>1, <2>2, <2>3, RaisesSound, ReturnsSound
<1>3. CASE f = "fqdn_fwd"
  <2>1. o = Raises(s) \/ (v.t = "bool" /\ o = Returns(Boolean(v.bool), FALSE))
    BY <1>3 DEF Outcomes, SetFlag
  <2>2. v.t = "bool" => v \in {PyBool(TRUE), PyBool(FALSE)}
    <3>1. v \in {PyBool(TRUE), PyBool(FALSE), PyInt(1), Deleted}
      BY <1>3, Zenon DEF Offered
    <3>2. PyInt(1).t = "int" /\ Deleted.t = "deleted"
      BY DEF PyInt, Deleted
    <3> QED
      BY <3>1, <3>2, Zenon
  <2>3. CASE v.t = "bool"
    <3>1. InType(f, Boolean(v.bool)) /\ PyBool(v.bool) = v
      <4>1. PyBool(TRUE).bool = TRUE /\ PyBool(FALSE).bool = FALSE
        BY Zenon DEF PyBool
      <4>2. v.bool \in BOOLEAN /\ PyBool(v.bool) = v
        BY <2>2, <2>3, <4>1, Zenon
      <4>3. Boolean(v.bool).bool = v.bool
        BY Zenon DEF Boolean
      <4>4. InType(f, Boolean(v.bool))
        BY <1>3, <4>2, <4>3, Zenon DEF InType
      <4> QED
        BY <4>2, <4>4
    <3>2. Faithful(f, "value", v, Boolean(v.bool))
      BY <1>1, <1>3, <3>1 DEF Faithful, Shows, Read, Scalar, Boolean
    <3> QED
      BY <2>1, <3>1, <3>2, RaisesSound, ReturnsSound
  <2> QED
    BY <2>1, <2>3, RaisesSound
<1> QED
  BY <1>2, <1>3

\* A call that sets the data of an option.
LEMMA OptionsSound ==
  ASSUME NEW call \in Setters("option"), NEW v \in Offered("option", call), NEW s,
         NEW o \in Outcomes("option", call, v, s)
  PROVE  Sound("option", call, v, s, o)
<1>1. DOMAIN Width = {"Uint8", "Uint16", "Uint32"}
  BY DEF Width
<1>2. Setters("option") = DOMAIN Width \cup {"Bytes"} /\ Getters("option") = Setters("option")
  BY DEF Setters, Getters, Parsed, Results
<1>3. \A g \in DOMAIN Width : Width[g] \in {1, 2, 4} /\ g # "Bytes" /\ g # "toElement"
  BY <1>1 DEF Width
<1>4. CASE call = "Bytes"
  <2>1. (\E b \in Blobs : v = Bytes(b)) \/ (\E t \in Strings : v = PyStr(t))
    BY <1>4 DEF Offered
  <2>2. o = IF v.t = "bytes" THEN Returns(Bytes(v.bytes), FALSE) ELSE Raises(s)
    BY <1>4 DEF Outcomes, SetBytes
  <2>3. CASE v.t = "bytes"
    <3>1. v.bytes \in Seq(Unsigned(1)) /\ Bytes(v.bytes) = v
      BY <2>1, <2>3, ArgumentsAssumption DEF Bytes, PyStr
    <3>2. InType("option", v)
      BY <3>1 DEF InType
    <3>3. ASSUME NEW g \in DOMAIN Width
          PROVE  ShowsOption(call, v, g, GetUint(v, Width[g]))
      <4>1. Width[g] \in {1, 2, 4} /\ g # "Bytes" /\ Len(v.bytes) \in Nat
        BY <1>3, <3>1
      <4>2. CASE Len(v.bytes) < Width[g]
        <5>1. Width[g] > Len(v.bytes) /\ GetUint(v, Width[g]) = NoObject
          BY <4>1, <4>2 DEF GetUint
        <5> QED
          BY <1>4, <4>1, <5>1 DEF ShowsOption
      <4>3. CASE ~(Len(v.bytes) < Width[g])
        <5>1. ~(Width[g] > Len(v.bytes)) /\ Width[g] <= Len(v.bytes)
          BY <4>1, <4>3
        <5>2. GetUint(v, Width[g]) = PyInt(FromBytes(v.bytes, Width[g]))
          BY <4>3 DEF GetUint
        <5>3. BigEndian(FromBytes(v.bytes, Width[g]), Width[g]) = SubSeq(v.bytes, 1, Width[g])
          BY <3>1, <4>1, <5>1, BytesAreRead
        <5> QED
          <6> DEFINE x == FromBytes(v.bytes, Width[g])
          <6>1. PyInt(x).t = "int" /\ PyInt(x).int = x
            BY DEF PyInt
          <6> HIDE DEF x
          <6> QED
            BY <1>4, <4>1, <5>1, <5>2, <5>3, <6>1 DEF ShowsOption, x
      <4> QED
        BY <4>2, <4>3
    <3>4. ASSUME NEW g \in Getters("option")
          PROVE  Shows("option", call, v, g, Read("option", g, v))
      <4>1. CASE g = "Bytes"
        <5>1. Read("option", g, v) = v
          BY <4>1 DEF Read
        <5> QED
          BY <1>4, <4>1, <5>1 DEF Shows, ShowsOption
      <4>2. CASE g \in DOMAIN Width
        <5>1. Read("option", g, v) = GetUint(v, Width[g])
          <6>1. g # "Bytes" /\ g # "toElement"
            BY <1>3, <4>2
          <6> QED
            BY <6>1, Zenon DEF Read
        <5> QED
          BY <3>3, <4>2, <5>1 DEF Shows
      <4> QED
        BY <1>2, <4>1, <4>2
    <3>5. Faithful("option", call, v, v)
      BY <3>4 DEF Faithful
    <3> QED
      BY <2>2, <2>3, <3>1, <3>2, <3>5, ReturnsSound
  <2> QED
    BY <2>2, <2>3, RaisesSound
<1>5. CASE call \in DOMAIN Width
  <2> DEFINE c == Width[call]
             k == Number(v)
             n == IF call = "Uint8" THEN k ELSE ToUnsigned(k, c)
             b == BigEndian(n, c)
  <2>1. c \in {1, 2, 4} /\ call # "Bytes" /\ (call = "Uint8" => c = 1)
    BY <1>3, <1>5 DEF Width
  <2>2. v \in {PyInt(i) : i \in Numbers} \cup {PyBool(TRUE), None}
    BY <2>1 DEF Offered, Attributes
  <2>3. IsNumber(v) => k \in Int
    BY <2>2, ArgumentsAssumption DEF IsNumber, Number, PyInt, PyBool, None
  <2>4. CASE ~IsNumber(v) \/ (call = "Uint8" /\ k \notin Unsigned(1))
    <3>1. o = Raises(s)
      BY <2>1, <2>4 DEF Outcomes, SetUint, InRange, Masked, Raises
    <3> QED
      BY <3>1, RaisesSound
  <2>5. CASE IsNumber(v) /\ (call = "Uint8" => k \in Unsigned(1))
    <3>1. o = Returns(Bytes(b), FALSE)
      BY <2>1, <2>5 DEF Outcomes, SetUint, InRange, Masked, Returns, Integer
    <3>2. n \in Unsigned(c) /\ (k - n) % Values(c) = 0
      <4> HIDE DEF c, k
      <4>1. ToUnsigned(k, c) \in Unsigned(c) /\ (k - ToUnsigned(k, c)) % Values(c) = 0
        BY <2>1, <2>3, <2>5, Narrowed
      <4>2. call = "Uint8" => (k - k) % Values(c) = 0
        BY <2>1, <2>3, <2>5, Widths
      <4> QED
        BY <2>1, <2>5, <4>1, <4>2
    <3> HIDE DEF c, k, n
    <3>3. b \in Seq(Unsigned(1)) /\ Len(b) = c
      <4>1. c <= c
        BY <2>1
      <4> QED
        BY <2>1, <3>2, <4>1, NumberIsRead
    <3>4. \A g \in {1, 2, 4} : g <= c => FromBytes(b, g) = n \div Values(c - g)
      <4> SUFFICES ASSUME NEW g \in {1, 2, 4}, g <= c
                   PROVE  FromBytes(b, g) = n \div Values(c - g)
        OBVIOUS
      <4> QED
        BY <2>1, <3>2, NumberIsRead
    <3>5. FromBytes(b, c) = n
      <4>1. c <= c
        BY <2>1
      <4> QED
        BY <2>1, <3>2, <4>1, NumberIsRead
    <3>6. Wraps(k, c, PyInt(n))
      BY <3>2 DEF Wraps, PyInt
    <3> HIDE DEF b
    <3>7. InType("option", Bytes(b))
      BY <3>3 DEF InType, Bytes
    <3>8. ASSUME NEW g \in DOMAIN Width
          PROVE  ShowsOption(call, v, g, GetUint(Bytes(b), Width[g]))
      <4> DEFINE w == Width[g]
      <4>1. w \in {1, 2, 4} /\ g # "Bytes"
        BY <1>3
      <4> HIDE DEF w
      <4>2. GetUint(Bytes(b), w) = IF c < w THEN NoObject ELSE PyInt(FromBytes(b, w))
        BY <3>3 DEF GetUint, Bytes
      <4>3. (c < w <=> w > c) /\ (~(w > c) => w <= c)
        BY <2>1, <4>1
      <4>4. CASE w > c
        BY <2>1, <4>1, <4>2, <4>3, <4>4, Zenon DEF ShowsOption, w, c
      <4>5. CASE ~(w > c)
        <5>1. GetUint(Bytes(b), w) = PyInt(n \div Values(c - w))
          BY <3>4, <4>1, <4>2, <4>3, <4>5
        <5> QED
          BY <2>1, <3>2, <3>6, <4>1, <4>5, <5>1, Zenon DEF ShowsOption, w, c, k
      <4> QED
        BY <4>4, <4>5 DEF w
    <3>9. ASSUME NEW g \in Getters("option")
          PROVE  Shows("option", call, v, g, Read("option", g, Bytes(b)))
      <4>1. CASE g = "Bytes"
        <5>1. Read("option", g, Bytes(b)) = Bytes(b) /\ Bytes(b).bytes = b
          BY <4>1 DEF Read, Bytes
        <5> QED
          BY <2>1, <3>3, <3>5, <3>6, <4>1, <5>1, Zenon DEF Shows, ShowsOption, c, k
      <4>2. CASE g \in DOMAIN Width
        <5>1. Read("option", g, Bytes(b)) = GetUint(Bytes(b), Width[g])
          <6>1. g # "Bytes" /\ g # "toElement"
            BY <1>3, <4>2
          <6> QED
            BY <6>1, Zenon DEF Read
        <5> QED
          BY <3>8, <4>2, <5>1 DEF Shows
      <4> QED
        BY <1>2, <4>1, <4>2
    <3>10. Faithful("option", call, v, Bytes(b))
      BY <3>9 DEF Faithful
    <3> QED
      BY <3>1, <3>7, <3>10, ReturnsSound
  <2> QED
    BY <2>4, <2>5
<1> QED
  BY <1>2, <1>4, <1>5

\* What a caller of object_to_element does.
LEMMA Converts ==
  ASSUME NEW v \in Objects, NEW s, NEW null
  PROVE  LET r == object_to_element[v]
         IN \/ Convert(v, s, null) = Raises(s)
            \/ /\ r.element = NullPtr /\ r.error /\ Fails(r)
               /\ Convert(v, s, null) = null
            \/ /\ ~Fails(r) /\ r.element.t \notin {"thrown", "NULL"} /\ r.error \in BOOLEAN
               /\ Convert(v, s, null) = Returns(r.element, r.error)
<1> DEFINE r == object_to_element[v]
<1>1. Shaped(r)
  BY ResultsShaped
<1> HIDE DEF r
<1>2. CASE r.element = Thrown
  BY <1>2 DEF Convert, Thrown, NullPtr, r
<1>3. CASE r.element = NullPtr
  <2>1. Convert(v, s, null) = null
    BY <1>3 DEF Convert, Thrown, NullPtr, r
  <2>2. r.error /\ Fails(r)
    BY <1>1, <1>3 DEF Shaped, Fails, NullPtr
  <2> QED
    BY <1>3, <2>1, <2>2 DEF r
<1>4. CASE r.element # Thrown /\ r.element # NullPtr
  <2>1. Convert(v, s, null) = Returns(r.element, r.error)
    BY <1>4 DEF Convert, r
  <2>2. ~Fails(r) /\ r.element.t \notin {"thrown", "NULL"} /\ r.error \in BOOLEAN
    BY <1>1, <1>4 DEF Shaped, Fails
  <2> QED
    BY <2>1, <2>2 DEF r
<1> QED
  BY <1>2, <1>3, <1>4

\* A call that sets a response or a user context.
LEMMA ElementsSound ==
  ASSUME NEW f \in {"response", "context"}, NEW v \in Offered(f, "value"), NEW s,
         NEW o \in Outcomes(f, "value", v, s)
  PROVE  Sound(f, "value", v, s, o)
<1> DEFINE r == object_to_element[v]
           null == IF f = "response" THEN Raises(s) ELSE Returns(NullPtr, TRUE)
<1>1. v \in Objects
  BY DEF Offered
<1>2. o = Convert(v, s, null)
  BY DEF Outcomes, SetArgument, SetContext
<1>3. ASSUME r.element = NullPtr, r.error, Fails(r), o = null
      PROVE  Sound(f, "value", v, s, o)
  <2>1. CASE f = "response"
    BY <1>3, <2>1, RaisesSound
  <2>2. CASE f = "context"
    <3>1. Replaces(f, v, NullPtr)
      BY <1>3, <2>2 DEF Replaces
    <3>2. InType(f, NullPtr)
      BY <2>2 DEF InType, NullPtr
    <3> QED
      BY <1>3, <2>2, <3>1, <3>2, FailureSound
  <2> QED
    BY <2>1, <2>2
<1>4. ASSUME ~Fails(r), r.element.t \notin {"thrown", "NULL"}, o = Returns(r.element, r.error)
      PROVE  Sound(f, "value", v, s, o)
  <2>1. InType(f, r.element)
    BY <1>4 DEF InType
  <2>2. CASE r.error = TRUE
    <3>1. Replaces(f, v, r.element)
      BY <1>4, <2>2 DEF Replaces
    <3> HIDE DEF r
    <3> QED
      BY <1>4, <2>1, <2>2, <3>1, FailureSound
  <2>3. CASE r.error = FALSE
    <3>1. element_to_object[r.element] \in Readings[v]
      BY <1>1, <2>3, RoundTrip
    <3>2. Getters(f) = {"value"} /\ Read(f, "value", r.element) = element_to_object[r.element]
      <4>1. "value" # "toElement"
        OBVIOUS
      <4> QED
        BY <4>1 DEF Getters, Setters, Parsed, Results, Read
    <3>3. Faithful(f, "value", v, r.element)
      BY <3>1, <3>2 DEF Faithful, Shows
    <3> HIDE DEF r
    <3> QED
      BY <1>4, <2>1, <2>3, <3>3, ReturnsSound
  <2>4. r.error \in BOOLEAN
    BY <1>1, ResultsShaped DEF Shaped
  <2> QED
    BY <2>2, <2>3, <2>4
<1> HIDE DEF null
<1>5. \/ Convert(v, s, null) = Raises(s)
      \/ /\ r.element = NullPtr /\ r.error /\ Fails(r)
         /\ Convert(v, s, null) = null
      \/ /\ ~Fails(r) /\ r.element.t \notin {"thrown", "NULL"} /\ r.error \in BOOLEAN
         /\ Convert(v, s, null) = Returns(r.element, r.error)
  BY <1>1, Converts, Zenon
<1> HIDE DEF r
<1> QED
  BY <1>2, <1>3, <1>4, <1>5, RaisesSound

\* A call of a configuration parser.
LEMMA ParsersSound ==
  ASSUME NEW f \in Parsed, NEW v \in Offered(f, "value"), NEW s,
         NEW o \in Outcomes(f, "value", v, s)
  PROVE  Sound(f, "value", v, s, o)
<1> DEFINE config == IF f = "host" THEN v.config ELSE v
           id == ToUnsigned(v.id, 4)
           Kept(e) == IF f = "host" THEN HostOf(id, e) ELSE e
           r == object_to_element[config]
           c == Convert(config, s, Dies(s))
<1>1. f \in {"class", "subnet4", "host"}
  BY DEF Parsed, Results
<1>2. config \in Objects /\ (f = "host" => v.id \in Int)
  <2>1. CASE f = "host"
    BY <2>1, ArgumentsAssumption DEF Offered, HostOf
  <2>2. CASE f \in {"class", "subnet4"}
    BY <2>2 DEF Offered
  <2> QED
    BY <1>1, <2>1, <2>2
<1>3. \A x : Faithful(f, "value", v, x)
  BY <1>1 DEF Faithful, Getters, Parsed, Results
<1>4. \A e : e.t \notin {"thrown", "NULL"} => InType(f, Kept(e))
  <2>1. CASE f = "host"
    <3>1. id \in Unsigned(4)
      BY <1>2, <2>1, Narrowed
    <3> HIDE DEF id
    <3> QED
      BY <2>1, <3>1 DEF InType, HostOf
  <2>2. CASE f # "host"
    BY <1>1, <2>2 DEF InType
  <2> QED
    BY <2>1, <2>2
<1> HIDE DEF c, id
<1>5. \A p \in Parse(config, s) : p = Raises(s) \/ p = c
  BY Zenon DEF Parse, c
<1>6. ASSUME c.end # "returns"
      PROVE  o = Raises(s) \/ o = c
  <2>1. CASE f = "host"
    <3>1. PICK p \in Parse(v.config, s) :
             o = IF p.end = "returns" THEN [p EXCEPT !.stored = HostOf(id, p.stored)] ELSE p
      BY <2>1 DEF Outcomes, ParseHost, id
    <3>2. Raises(s).end = "raises"
      BY DEF Raises
    <3> QED
      BY <1>5, <1>6, <2>1, <3>1, <3>2
  <2>2. CASE f # "host"
    BY <1>1, <1>5, <2>2 DEF Outcomes
  <2> QED
    BY <2>1, <2>2
<1>7. ASSUME NEW e, NEW b, c = Returns(e, b)
      PROVE  o = Raises(s) \/ o = Returns(Kept(e), b)
  <2>1. CASE f = "host"
    <3>1. PICK p \in Parse(v.config, s) :
             o = IF p.end = "returns" THEN [p EXCEPT !.stored = HostOf(id, p.stored)] ELSE p
      BY <2>1 DEF Outcomes, ParseHost, id
    <3>2. Raises(s).end = "raises"
      BY DEF Raises
    <3>3. CASE p = Raises(s)
      BY <3>1, <3>2, <3>3
    <3>4. CASE p = c
      BY <1>7, <2>1, <3>1, <3>4 DEF Returns
    <3> QED
      BY <1>5, <2>1, <3>3, <3>4
  <2>2. CASE f # "host"
    BY <1>1, <1>5, <1>7, <2>2 DEF Outcomes
  <2> QED
    BY <2>1, <2>2
<1> HIDE DEF Kept, config
<1>8. CASE c = Raises(s)
  <2>1. o = Raises(s)
    BY <1>6, <1>8 DEF Raises
  <2> QED
    BY <2>1, RaisesSound
<1>9. CASE r.element = NullPtr /\ c = Dies(s)
  <2>1. o = Raises(s) \/ o = Dies(s)
    BY <1>6, <1>9 DEF Dies
  <2>2. Aborts(f, v)
    BY <1>9 DEF Aborts, config
  <2> QED
    BY <2>1, <2>2, DiesSound, RaisesSound
<1>10. CASE /\ ~Fails(r) /\ r.element.t \notin {"thrown", "NULL"} /\ r.error \in BOOLEAN
            /\ c = Returns(r.element, r.error)
  <2>1. o = Raises(s) \/ o = Returns(Kept(r.element), r.error)
    BY <1>7, <1>10
  <2>2. InType(f, Kept(r.element)) /\ Faithful(f, "value", v, Kept(r.element))
    BY <1>3, <1>4, <1>10
  <2>3. r.error => f \in Results \/ Replaces(f, v, Kept(r.element))
    BY <1>1, <1>10 DEF Replaces, Results, config
  <2> HIDE DEF r
  <2>4. CASE r.error = TRUE
    BY <2>1, <2>2, <2>3, <2>4, FailureSound, RaisesSound
  <2>5. CASE r.error = FALSE
    BY <2>1, <2>2, <2>5, ReturnsSound, RaisesSound
  <2> QED
    BY <1>10, <2>4, <2>5
<1>11. \/ c = Raises(s)
       \/ r.element = NullPtr /\ r.error /\ Fails(r) /\ c = Dies(s)
       \/ /\ ~Fails(r) /\ r.element.t \notin {"thrown", "NULL"} /\ r.error \in BOOLEAN
          /\ c = Returns(r.element, r.error)
  BY <1>2, Converts, Zenon DEF c
<1> QED
  BY <1>8, <1>9, <1>10, <1>11

\* What a call of the module may do.
LEMMA OutcomesSound ==
  ASSUME NEW f \in Fields, NEW call \in Setters(f), NEW v \in Offered(f, call), NEW s,
         NEW o \in Outcomes(f, call, v, s)
  PROVE  Sound(f, call, v, s, o)
<1>1. f # "option" => call = "value"
  BY DEF Setters
<1>2. CASE f = "option"
  BY <1>2, OptionsSound
<1>3. CASE f \in NumberFields
  <2>1. call = "value"
    BY <1>1, <1>3 DEF NumberFields
  <2> QED
    BY <1>3, <2>1, NumbersSound
<1>4. CASE f \in TextFields
  <2>1. call = "value"
    BY <1>1, <1>4 DEF TextFields
  <2> QED
    BY <1>4, <2>1, TextsSound
<1>5. CASE f \in {"lease4", "fqdn_fwd"}
  <2>1. call = "value"
    BY <1>1, <1>5
  <2> QED
    BY <1>5, <2>1, OthersSound
<1>6. CASE f \in {"response", "context"}
  <2>1. call = "value"
    BY <1>1, <1>6
  <2> QED
    BY <1>6, <2>1, ElementsSound
<1>7. CASE f \in Parsed
  <2>1. call = "value"
    BY <1>1, <1>7 DEF Parsed, Results
  <2> QED
    BY <1>7, <2>1, ParsersSound
<1> QED
  BY <1>2, <1>3, <1>4, <1>5, <1>6, <1>7
  DEF Fields, Attributes, Methods, NumberFields, TextFields, Parsed, Results

\* What Kea puts into a field is of its type.
LEMMA KeaGivesTyped ==
  ASSUME NEW f \in Fields, NEW x \in KeaGives(f)
  PROVE  InType(f, x)
<1>1. CASE f \in {"response", "context"}
  <2>1. x \in JSON
    BY <1>1, ArgumentsAssumption DEF KeaGives
  <2>2. IsElement(x)
    BY <2>1, ValuesAssumption
  <2> QED
    BY <1>1, <2>2 DEF IsElement, InType
<1>2. CASE f = "lease4" \/ f \in Parsed
  <2>1. x = Lease4("kea") \/ x = NullPtr
    BY <1>2 DEF KeaGives, Parsed, Results
  <2> QED
    <3>1. Lease4("kea").t = "Lease4" /\ NullPtr.t = "nullptr"
      BY DEF Lease4, NullPtr
    <3>2. f \in {"lease4", "class", "subnet4", "host"}
      BY <1>2 DEF Parsed, Results
    <3>3. CASE f = "host"
      BY <1>2, <3>3 DEF InType, KeaGives, Parsed, Results
    <3>4. CASE f \in {"lease4", "class", "subnet4"}
      BY <2>1, <3>1, <3>4 DEF InType
    <3> QED
      BY <3>2, <3>3, <3>4
<1>3. CASE f = "fqdn_fwd"
  <2>1. x = Boolean(FALSE)
    BY <1>3 DEF KeaGives, Parsed, Results
  <2>2. Boolean(FALSE).bool \in BOOLEAN
    BY Zenon DEF Boolean
  <2> QED
    BY <1>3, <2>1, <2>2 DEF InType
<1>4. CASE f = "option"
  <2>1. PICK b \in Blobs : x = Bytes(b)
    BY <1>4 DEF KeaGives, Parsed, Results
  <2> QED
    BY <1>4, <2>1, ArgumentsAssumption DEF InType, Bytes
<1>5. CASE f \in TextFields
  <2>1. CASE f \in {"hostname", "text"}
    <3>1. PICK t \in KeaStrings : x = String(t)
      BY <2>1 DEF KeaGives, Parsed, Results
    <3> QED
      BY <2>1, <3>1 DEF InType, String
  <2>2. CASE f \in {"addr", "ciaddr", "chaddr"}
    <3>1. x = String(<<"1">>)
      BY <2>2 DEF KeaGives, Parsed, Results
    <3> QED
      BY <2>2, <3>1 DEF InType, String
  <2>3. CASE f \in {"hwaddr", "client_id"}
    <3>1. x \in {String(<<"1">>), NullPtr}
      BY <2>3 DEF KeaGives, Parsed, Results
    <3>2. "A" \notin ToSet(<<"1">>)
      BY DEF ToSet
    <3> QED
      BY <2>3, <3>1, <3>2 DEF InType, String
  <2> QED
    BY <1>5, <2>1, <2>2, <2>3 DEF TextFields
<1>6. CASE f \in NumberFields
  <2>1. x = Integer(0)
    BY <1>6 DEF KeaGives, Parsed, Results, NumberFields
  <2>2. \A n \in {1, 2, 4, 8} : 0 \in Signed(n) /\ 0 \in Unsigned(n)
    <3>1. \A n \in {1, 2, 4, 8} : Values(n) \in Nat \ {0}
      BY Widths
    <3>2. 0 \in Int
      OBVIOUS
    <3>3. \A n \in {1, 2, 4, 8} : 0 \in Signed(n)
      BY <3>2, Narrowed
    <3> QED
      BY <3>1, <3>3 DEF Unsigned
  <2> QED
    BY <1>6, <2>1, <2>2 DEF InType, Integer, NumberFields, Long
<1> QED
  BY <1>1, <1>2, <1>3, <1>4, <1>5, <1>6
  DEF Fields, Attributes, Methods, NumberFields, TextFields, Parsed, Results

-----------------------------------------------------------------------------
(* The inductive invariant.                                                *)

\* A status of Kea can be 0 and 1.
LEMMA Statuses ==
  0 \in Signed(4) /\ 1 \in Signed(4)
<1> DEFINE half == Values(4) \div 2
<1>1. half \in Nat /\ Values(4) = 2 * half /\ Values(4) = Values(3) * Base /\ Values(3) \in Nat \ {0}
  BY Widths
<1>2. Base \in Nat /\ Base >= 2 /\ Values(3) = Values(2) * Base /\ Values(2) \in Nat \ {0}
  BY BaseAssumption, Widths
<1>3. \A a \in Nat \ {0} : \A b \in Nat : b >= 2 => a * b >= 2 * a
  <2> TAKE a \in Nat \ {0}
  <2> TAKE b \in Nat
  <2> HAVE b >= 2
  <2>1. a * (b - 2) >= 0 /\ a * b = a * (b - 2) + 2 * a
    OBVIOUS
  <2> QED
    BY <2>1
<1>4. Values(3) >= 2
  BY <1>1, <1>2, <1>3
<1>5. Values(4) >= 4
  BY <1>1, <1>2, <1>3, <1>4
<1>6. half >= 2
  <2> HIDE DEF half
  <2> QED
    BY <1>1, <1>5
<1> QED
  BY <1>1, <1>6 DEF Signed

\* While Python runs, Kea has heard nothing, and what a call got wrong is
\* still pending.
Inv ==
  /\ TypeOK
  /\ phase # "kea" => heard = Unheard
  /\ phase = "python" /\ wrong => pending
  /\ ReadsBack
  /\ RefusedChangesNothing
  /\ ErrorsReachKea

\* Kea before the first callout.
LEMMA InitInv ==
  Init => Inv
<1> SUFFICES ASSUME Init
             PROVE  Inv
  OBVIOUS
<1>1. InType(field, stored)
  BY KeaGivesTyped DEF Init
<1>2. heard.status = 0 /\ heard.how = "nothing"
  BY DEF Init, Unheard
<1>3. TypeOK
  BY <1>1, <1>2, Statuses DEF Init, TypeOK
<1>4. ReadsBack /\ ErrorsReachKea
  BY <1>2 DEF Init, ReadsBack, ErrorsReachKea
<1>5. ~last.raised
  BY DEF Init, Nothing
<1>6. RefusedChangesNothing
  BY <1>5 DEF Init, RefusedChangesNothing
<1> QED
  BY <1>3, <1>4, <1>6 DEF Init, Inv

\* Steps of Kea: a callout starts, or Kea itself after an abort.
LEMMA KeaSteps ==
  Inv /\ (Enter \/ Restart) => Inv'
<1> SUFFICES ASSUME Inv, Enter \/ Restart
             PROVE  Inv'
  OBVIOUS
<1>1. field' = field /\ exc' = "none" /\ last' = Nothing /\ phase' \in {"kea", "python"} /\ wrong' = FALSE
  BY DEF Inv, TypeOK, Enter, Restart
<1>2. InType(field, stored')
  <2>1. stored' = stored \/ stored' \in KeaGives(field)
    BY DEF Enter, Restart
  <2> QED
    BY <2>1, KeaGivesTyped DEF Inv, TypeOK
<1>3. heard' = Unheard /\ Unheard.status = 0 /\ Unheard.how = "nothing"
  BY DEF Inv, Enter, Restart, Unheard
<1>4. pending' \in BOOLEAN /\ (phase' = "kea" => ~pending')
  BY DEF Inv, TypeOK, Enter, Restart
<1>5. TypeOK'
  BY <1>1, <1>2, <1>3, <1>4, Statuses DEF Inv, TypeOK
<1>6. ~last'.raised /\ last'.call = "none"
  BY <1>1 DEF Nothing
<1>7. ReadsBack'
  BY <1>6 DEF ReadsBack
<1>8. RefusedChangesNothing'
  BY <1>1, <1>6 DEF RefusedChangesNothing
<1>9. ErrorsReachKea'
  BY <1>3, <1>4 DEF ErrorsReachKea
<1> QED
  BY <1>1, <1>3, <1>5, <1>7, <1>8, <1>9 DEF Inv

\* A call of the module, a getter apart.
LEMMA SetStep ==
  ASSUME Inv, NEW call \in Setters(field), NEW v \in Offered(field, call), Set(call, v)
  PROVE  Inv'
<1>1. PICK o \in Outcomes(field, call, v, stored) \cup Mistaken(v) :
        LET failed == pending \/ o.error
            raised == o.end = "raises"
                      \/ (o.end = "returns" /\ failed /\ field \in Methods)
        IN /\ stored' = IF raised /\ field \in Results THEN stored ELSE o.stored
           /\ phase' = IF o.end = "dies" THEN "dead" ELSE "python"
           /\ last' = [call |-> call, given |-> v, raised |-> raised,
                       clean |-> ~pending, error |-> o.error,
                       changed |-> stored' # stored]
           /\ IF raised THEN Throw("plain")
              ELSE /\ pending' = failed
                   /\ wrong' = (wrong \/ (o.end = "returns" /\ ~Faithful(field, call, v, o.stored)))
                   /\ UNCHANGED exc
  BY DEF Set
<1> DEFINE failed == pending \/ o.error
           raised == o.end = "raises" \/ (o.end = "returns" /\ failed /\ field \in Methods)
<1>2. /\ phase = "python" /\ exc = "none" /\ field' = field /\ heard' = heard /\ heard = Unheard
      /\ field \in Fields /\ pending \in BOOLEAN
  BY DEF Set, Running, Inv, TypeOK
<1>3. Sound(field, call, v, stored, o)
  BY <1>2, OutcomesSound, RaisesSound DEF Mistaken
<1>4. /\ o.end \in {"returns", "raises", "dies"} /\ o.error \in BOOLEAN
      /\ o.end # "returns" => o.stored = stored
      /\ o.end = "dies" => Aborts(field, v)
      /\ o.end = "returns" => InType(field, o.stored)
      /\ o.end = "returns" /\ ~o.error => Faithful(field, call, v, o.stored)
      /\ o.end = "returns" /\ o.error => field \in Attributes \cup Results \/ Replaces(field, v, o.stored)
  BY <1>3 DEF Sound
<1>5. failed \in BOOLEAN /\ raised \in BOOLEAN
  BY <1>2, <1>4
<1>6. /\ last'.call = call /\ last'.given = v /\ last'.raised = raised
      /\ last'.clean = ~pending /\ last'.error = o.error /\ last'.changed = (stored' # stored)
  BY <1>1
<1>7. stored' = IF raised /\ field \in Results THEN stored ELSE o.stored
  BY <1>1
<1>8. phase' = IF o.end = "dies" THEN "dead" ELSE "python"
  BY <1>1
<1>9. raised => exc' = "plain" /\ pending' = FALSE /\ wrong' = FALSE
  BY <1>1 DEF Throw
<1>10. ~raised => /\ exc' = "none" /\ pending' = failed
                  /\ wrong' = (wrong \/ (o.end = "returns" /\ ~Faithful(field, call, v, o.stored)))
  BY <1>1, <1>2
<1> HIDE DEF failed, raised
<1>11. TypeOK'
  <2>1. InType(field, stored')
    BY <1>4, <1>7 DEF Inv, TypeOK
  <2>2. InType(field, stored)'
    BY <1>2, <2>1
  <2>3. exc' # "none" => phase' = "python"
    BY <1>4, <1>8, <1>10, <1>9 DEF raised
  <2>4. exc' # "none" => ~pending'
    BY <1>5, <1>9, <1>10
  <2>5. pending' \in BOOLEAN /\ exc' \in {"none", "plain", "lone"}
    BY <1>5, <1>9, <1>10
  <2>6. wrong' \in BOOLEAN
    BY <1>9, <1>10
  <2>7. heard'.status \in Signed(4)
    BY <1>2 DEF Inv, TypeOK
  <2>8. phase' \in {"kea", "python", "dead"} /\ field' \in Fields
    BY <1>2, <1>8
  <2> QED
    BY <2>2, <2>3, <2>4, <2>5, <2>6, <2>7, <2>8 DEF TypeOK
<1>12. phase' = "python" /\ wrong' => pending'
  <2> SUFFICES ASSUME ~raised, wrong', phase' = "python"
               PROVE  failed
    BY <1>9, <1>10
  <2>1. wrong => pending
    BY <1>2 DEF Inv
  <2>2. o.end = "returns" /\ ~Faithful(field, call, v, o.stored) => o.error
    BY <1>4
  <2> QED
    BY <1>10, <2>1, <2>2 DEF failed
<1>13. ReadsBack'
  <2> SUFFICES ASSUME phase' = "python", ~raised, ~o.error
               PROVE  Faithful(field, call, v, stored')
    BY <1>2, <1>6 DEF ReadsBack
  <2>1. o.end = "returns"
    BY <1>4, <1>8 DEF raised
  <2>2. stored' = o.stored
    BY <1>7
  <2> QED
    BY <1>4, <2>1, <2>2
<1>14. RefusedChangesNothing'
  <2>1. ASSUME raised, stored' # stored
        PROVE  \/ Replaces(field, v, stored')
               \/ /\ pending /\ field \in Methods \ Results
                  /\ Faithful(field, call, v, stored')
    <3>1. o.end = "returns" /\ field \in Methods /\ failed
      BY <1>4, <1>7, <2>1 DEF raised
    <3>2. field \notin Results /\ stored' = o.stored
      BY <1>7, <2>1
    <3>3. field \notin Attributes
      BY <3>1 DEF Attributes, Methods
    <3>4. CASE o.error
      BY <1>4, <3>1, <3>2, <3>3, <3>4
    <3>5. CASE ~o.error
      BY <1>4, <3>1, <3>2, <3>5 DEF failed
    <3> QED
      BY <1>4, <3>4, <3>5
  <2>2. phase' = "dead" => Aborts(field, v)
    BY <1>4, <1>8
  <2> QED
    BY <1>2, <1>6, <2>1, <2>2 DEF RefusedChangesNothing, Replaces, Aborts
<1>15. ErrorsReachKea'
  <2>1. heard'.how = "nothing" /\ phase' # "kea"
    BY <1>2, <1>8 DEF Unheard
  <2> QED
    BY <2>1 DEF ErrorsReachKea
<1> QED
  BY <1>2, <1>8, <1>11, <1>12, <1>13, <1>14, <1>15 DEF Inv

\* A getter, an exception that starts, an except clause.
LEMMA PythonSteps ==
  ASSUME Inv,
         \/ \E getter \in Getters(field) : Get(getter)
         \/ Surface
         \/ \E text \in {"plain", "lone"} : Raise(text)
         \/ Handle
  PROVE  Inv'
<1>1. phase = "python" /\ UNCHANGED <<field, phase, stored, last, heard>>
  BY DEF Get, Surface, Raise, Handle, Running
<1>2. \/ exc' \in {"plain", "lone"} /\ pending' = FALSE /\ wrong' = FALSE
      \/ exc' \in {"none", exc} /\ pending' = pending /\ wrong' = wrong
  BY DEF Get, Surface, Raise, Handle, Throw
<1>3. TypeOK'
  <2>1. pending' \in BOOLEAN /\ wrong' \in BOOLEAN /\ exc' \in {"none", "plain", "lone"}
        /\ (exc' # "none" => ~pending')
    <3>1. /\ pending \in BOOLEAN /\ wrong \in BOOLEAN /\ exc \in {"none", "plain", "lone"}
          /\ exc # "none" => ~pending
      BY DEF Inv, TypeOK
    <3>2. CASE exc' \in {"plain", "lone"} /\ pending' = FALSE /\ wrong' = FALSE
      BY <3>2
    <3>3. CASE exc' \in {"none", exc} /\ pending' = pending /\ wrong' = wrong
      BY <3>1, <3>3
    <3> QED
      BY <1>2, <3>2, <3>3
  <2>2. InType(field, stored)'
    BY <1>1 DEF Inv, TypeOK
  <2> QED
    BY <1>1, <2>1, <2>2 DEF Inv, TypeOK
<1>4. wrong' => pending'
  BY <1>1, <1>2 DEF Inv
<1>5. ReadsBack' /\ RefusedChangesNothing' /\ ErrorsReachKea'
  BY <1>1 DEF Inv, ReadsBack, RefusedChangesNothing, ErrorsReachKea, Unheard
<1> QED
  BY <1>1, <1>3, <1>4, <1>5 DEF Inv

\* An attribute of another object leaves an error pending.
LEMMA ElsewhereStep ==
  Inv /\ SetElsewhere => Inv'
<1> SUFFICES ASSUME Inv, SetElsewhere
             PROVE  Inv'
  OBVIOUS
<1>1. /\ phase = "python" /\ exc' = "none" /\ pending' = TRUE /\ wrong' = TRUE
      /\ UNCHANGED <<field, phase, stored, last, heard>>
  BY DEF SetElsewhere, Running
<1>2. InType(field, stored)'
  BY <1>1 DEF Inv, TypeOK
<1>3. TypeOK'
  BY <1>1, <1>2 DEF Inv, TypeOK
<1>4. ReadsBack' /\ RefusedChangesNothing' /\ ErrorsReachKea'
  BY <1>1 DEF Inv, ReadsBack, RefusedChangesNothing, ErrorsReachKea, Unheard
<1> QED
  BY <1>1, <1>3, <1>4 DEF Inv

\* The callout ends: with a status, or with an exception through the binding.
LEMMA EndStep ==
  ASSUME Inv, phase = "python",
         NEW how, NEW status \in Signed(4), NEW v, NEW error \in BOOLEAN,
         Ends(how, status, v, error),
         how = "result" /\ status = 0 => /\ ~wrong
                                        /\ v.t = "int" /\ ToUnsigned(v.int, 4) = 0,
         error => how = "threw" \/ (v.t = "int" /\ v.int \notin Long)
  PROVE  Inv'
<1>1. /\ phase' = "kea" /\ exc' = "none" /\ pending' = error
      /\ heard' = [how |-> how, status |-> status, gave |-> v]
      /\ UNCHANGED <<field, stored, wrong, last>>
  BY DEF Ends
<1>2. heard'.how = how /\ heard'.status = status /\ heard'.gave = v
  BY <1>1
<1>3. InType(field, stored)'
  BY <1>1 DEF Inv, TypeOK
<1>4. TypeOK'
  BY <1>1, <1>2, <1>3 DEF Inv, TypeOK
<1>5. ReadsBack' /\ RefusedChangesNothing'
  BY <1>1 DEF Inv, ReadsBack, RefusedChangesNothing
<1>6. ErrorsReachKea'
  BY <1>1, <1>2 DEF ErrorsReachKea
<1> QED
  BY <1>1, <1>4, <1>5, <1>6 DEF Inv

\* The callout returns v.
LEMMA ReturnStep ==
  ASSUME Inv, NEW v, Return(v), v.t = "int" => v.int \in Int
  PROVE  Inv'
<1>1. phase = "python"
  BY DEF Return, Running
<1>2. CASE pending \/ v.t # "int"
  <2>1. Ends("result", 1, v, FALSE)
    BY <1>2 DEF Return
  <2> QED
    <3>1. 1 # 0
      OBVIOUS
    <3> QED
      BY <1>1, <2>1, <3>1, EndStep, Statuses, Zenon
<1>3. CASE ~(pending \/ v.t # "int")
  <2> DEFINE status == ToSigned(AsLong(v.int), 4)
             error == v.int \notin Long
  <2>1. Ends("result", status, v, error)
    BY <1>3 DEF Return
  <2>2. v.t = "int" /\ v.int \in Int /\ ~wrong
    BY <1>1, <1>3 DEF Inv
  <2>3. AsLong(v.int) \in Int
    BY <2>2 DEF AsLong
  <2>4. status \in Signed(4)
    BY <2>3, Narrowed
  <2>5. status = 0 => ToUnsigned(v.int, 4) = 0
    <3>1. CASE v.int \in Long
      <4>1. status = ToSigned(v.int, 4)
        BY <3>1 DEF AsLong
      <4> QED
        BY <2>2, <4>1, Narrowed
    <3>2. CASE v.int \notin Long
      <4>1. status = ToSigned(-1, 4)
        BY <3>2 DEF AsLong
      <4>2. ToSigned(-1, 4) = -1
        BY <2>2, Narrowed
      <4> HIDE DEF status
      <4> QED
        BY <4>1, <4>2
    <3> QED
      BY <3>1, <3>2
  <2>6. error \in BOOLEAN /\ (error => v.int \notin Long)
    OBVIOUS
  <2> HIDE DEF status, error
  <2> QED
    BY <1>1, <2>1, <2>2, <2>4, <2>5, <2>6, EndStep
<1> QED
  BY <1>2, <1>3

\* The steps in which the callout ends.
LEMMA EndSteps ==
  ASSUME Inv,
         \/ \E n \in Numbers : Return(PyInt(n))
         \/ \E v \in {None, PyBool(TRUE)} : Return(v)
         \/ Propagate
  PROVE  Inv'
<1>1. ASSUME NEW n \in Numbers, Return(PyInt(n))
      PROVE  Inv'
  <2>1. PyInt(n).int \in Int
    BY ArgumentsAssumption DEF PyInt
  <2> QED
    BY <1>1, <2>1, ReturnStep
<1>2. ASSUME NEW v \in {None, PyBool(TRUE)}, Return(v)
      PROVE  Inv'
  <2>1. v.t # "int"
    BY DEF None, PyBool
  <2> QED
    BY <1>2, <2>1, ReturnStep
<1>3. ASSUME Propagate
      PROVE  Inv'
  <2>1. phase = "python"
    BY <1>3 DEF Propagate
  <2>2. CASE Ends("threw", 0, None, TRUE)
    BY <2>1, <2>2, EndStep, Statuses
  <2>3. CASE Ends("result", 1, None, FALSE)
    <3>1. 1 # 0
      OBVIOUS
    <3> QED
      BY <2>1, <2>3, <3>1, EndStep, Statuses, Zenon
  <2> QED
    BY <1>3, <2>2, <2>3 DEF Propagate
<1> QED
  BY <1>1, <1>2, <1>3

\* Every step preserves the invariant.
LEMMA NextInv ==
  Inv /\ [Next]_vars => Inv'
<1> SUFFICES ASSUME Inv, [Next]_vars
             PROVE  Inv'
  OBVIOUS
<1>1. CASE Enter \/ Restart
  BY <1>1, KeaSteps
<1>2. CASE \E call \in Setters(field) : \E v \in Offered(field, call) : Set(call, v)
  BY <1>2, SetStep
<1>3. CASE \/ \E getter \in Getters(field) : Get(getter)
           \/ Surface
           \/ \E text \in {"plain", "lone"} : Raise(text)
           \/ Handle
  BY <1>3, PythonSteps
<1>4. CASE \/ \E n \in Numbers : Return(PyInt(n))
           \/ \E v \in {None, PyBool(TRUE)} : Return(v)
           \/ Propagate
  BY <1>4, EndSteps
<1>5. CASE UNCHANGED vars
  <2>1. UNCHANGED <<field, phase, stored, pending, exc, wrong, last, heard>>
    BY <1>5 DEF vars
  <2>2. TypeOK'
    BY <2>1 DEF Inv, TypeOK
  <2>3. ReadsBack' /\ RefusedChangesNothing' /\ ErrorsReachKea'
    BY <2>1 DEF Inv, ReadsBack, RefusedChangesNothing, ErrorsReachKea
  <2> QED
    BY <2>1, <2>2, <2>3 DEF Inv
<1>6. CASE SetElsewhere
  BY <1>6, ElsewhereStep
<1> QED
  BY <1>1, <1>2, <1>3, <1>4, <1>5, <1>6 DEF Next

-----------------------------------------------------------------------------
\* Inv holds in every state.
THEOREM Invariance == Spec => []Inv
<1>1. Init => Inv
  BY InitInv
<1>2. Inv /\ [Next]_vars => Inv'
  BY NextInv
<1> QED
  BY <1>1, <1>2, PTL DEF Spec

\* Every field keeps what its C++ type can hold.
THEOREM TypeCorrect == Spec => []TypeOK
<1>1. Inv => TypeOK
  BY DEF Inv
<1> QED
  BY <1>1, Invariance, PTL

\* What a call took without an error is what every getter shows.
THEOREM ReadsBackHolds == Spec => []ReadsBack
<1>1. Inv => ReadsBack
  BY DEF Inv
<1> QED
  BY <1>1, Invariance, PTL

\* What a call that raises or aborts leaves behind, with an error pending or not.
THEOREM RefusedChangesNothingHolds == Spec => []RefusedChangesNothing
<1>1. Inv => RefusedChangesNothing
  BY DEF Inv
<1> QED
  BY <1>1, Invariance, PTL

\* Kea hears success only of a callout whose calls all did what they said.
THEOREM ErrorsReachKeaHolds == Spec => []ErrorsReachKea
<1>1. Inv => ErrorsReachKea
  BY DEF Inv
<1> QED
  BY <1>1, Invariance, PTL
===============================================================================
