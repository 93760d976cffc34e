---------------------------- MODULE HostCmds_proofs ----------------------------
(***************************************************************************)
(* Paging through host reservations is complete and delivers nothing       *)
(* twice, for any number of host databases and any ids.  The invariant     *)
(* behind it: what has been delivered is exactly on the near side of the   *)
(* position of the next page, and of the steady hosts all of it was.       *)
(***************************************************************************)
EXTENDS HostCmds, TLAPS

\* Host x comes before the next page.
Behind(x) == \/ x[1] < next.source_index
             \/ x[1] = next.source_index /\ x[2] <= next.from

Delivered == seen \cup page

Position == \A x \in Delivered : Behind(x)

SteadyDelivered == \A x \in steady : Behind(x) \/ ~reading => x \in Delivered

LastPageEmpty == ~reading => page = {}

IInv == TypeOK /\ Position /\ SteadyDelivered /\ LastPageEmpty /\ PagesOnce

-----------------------------------------------------------------------------
\* At first nothing was delivered and the position is before every host.
LEMMA InitIInv == Init => IInv
  <1> SUFFICES ASSUME Init PROVE IInv
    OBVIOUS
  <1> USE SourcesAssumption, IdsAssumption
  <1>1. TypeOK
    BY DEF Init, TypeOK, Start, Present, Hosts
  <1>2. Position /\ LastPageEmpty /\ PagesOnce
    BY DEF Init, Position, Delivered, LastPageEmpty, PagesOnce
  <1>3. SteadyDelivered
    BY DEF Init, SteadyDelivered, Behind, Present, Start
  <1>4. QED
    BY <1>1, <1>2, <1>3 DEF IInv

\* Ids are natural numbers.
LEMMA IdsAreNat == \A h \in Ids : h \in Nat
  BY IdsAssumption

\* The position is a source and a host id or 0.
LEMMA Positions ==
  IInv => next.source_index \in 0 .. Sources /\ next.from \in Nat
  <1> SUFFICES ASSUME IInv
               PROVE next.source_index \in 0 .. Sources /\ next.from \in Nat
    OBVIOUS
  <1>1. next \in [source_index : 0 .. Sources, from : Ids \cup {0}]
    BY DEF IInv, TypeOK
  <1>2. Ids \cup {0} \subseteq Nat
    BY IdsAssumption
  <1>3. QED
    BY <1>1, <1>2

\* A page moves the position to its last host: what it delivers lies between
\* the old position and the new one, and is all there is between them.
LEMMA GetPageIInv == IInv /\ GetPage => IInv'
  <1> SUFFICES ASSUME IInv, GetPage PROVE IInv'
    OBVIOUS
  <1> USE SourcesAssumption, IdsAssumption
  <1>0. PICK k \in 0 .. Sources : \E last \in Above(k) :
          /\ First(k)
          /\ Turn({<<k, h>> : h \in {g \in Above(k) : g <= last}})
          /\ next' = [source_index |-> k, from |-> last]
    BY DEF GetPage
  <1>1. PICK last :
          /\ last \in Above(k) /\ First(k)
          /\ Turn({<<k, h>> : h \in {g \in Above(k) : g <= last}})
          /\ next' = [source_index |-> k, from |-> last]
    BY <1>0
  <1>2. /\ hosts' = hosts /\ reading' = reading /\ steady' = steady /\ reading
        /\ page' = {<<k, h>> : h \in {g \in Above(k) : g <= last}}
        /\ seen' = Delivered
    BY <1>1 DEF GetPage, Turn, Delivered
  <1>3. /\ k \in Nat /\ last \in Ids /\ last \in hosts[k]
        /\ next.source_index \in 0 .. Sources /\ next.from \in Nat
        /\ k >= next.source_index
        /\ \A g \in Above(k) : g \in Ids /\ g \in Nat
    <2>1. next.source_index \in 0 .. Sources /\ next.from \in Nat
      BY Positions
    <2>2. \A g \in Above(k) : g \in hosts[k] /\ g \in Ids /\ g \in Nat
      BY IdsAreNat DEF IInv, TypeOK, Above
    <2>3. k >= next.source_index
      BY <1>1, <2>1 DEF First
    <2>4. QED
      BY <1>1, <2>1, <2>2, <2>3
  <1>4. TypeOK'
    <2>1. <<next'.source_index, next'.from>> \in page'
      BY <1>1, <1>2, <1>3
    <2>2. page' \subseteq Hosts /\ seen' \subseteq Hosts
      BY <1>2, <1>3 DEF IInv, TypeOK, Hosts, Delivered
    <2>3. QED
      BY <1>1, <1>2, <1>3, <2>1, <2>2 DEF IInv, TypeOK, Present
  <1>5. ASSUME NEW x \in page' PROVE ~Behind(x) /\ Behind(x)'
    BY <1>1, <1>2, <1>3, <1>5 DEF Behind, Above
  <1>6. ASSUME NEW x \in Hosts, Behind(x) PROVE Behind(x)'
    <2>1. x[1] \in 0 .. Sources /\ x[2] \in Nat
      BY <1>6, IdsAreNat DEF Hosts
    <2>2. next'.source_index = k /\ next'.from = last
      BY <1>1
    <2>3. x[1] < k \/ (x[1] = k /\ x[2] <= last)
      BY <1>1, <1>3, <1>6, <2>1 DEF Behind, Above
    <2>4. QED
      BY <2>2, <2>3 DEF Behind
  <1>7. Position'
    BY <1>2, <1>5, <1>6 DEF IInv, TypeOK, Position, Delivered
  <1>8. PagesOnce'
    BY <1>2, <1>5 DEF IInv, Position, PagesOnce, Delivered
  <1>9. SteadyDelivered'
    <2> SUFFICES ASSUME NEW x \in steady, Behind(x)' PROVE x \in Delivered'
      BY <1>2 DEF SteadyDelivered
    <2>1. PICK j \in 0 .. Sources, h \in Ids : x = <<j, h>> /\ h \in hosts[j]
      BY DEF IInv, TypeOK, Present
    <2>2. CASE Behind(x)
      BY <1>2, <2>2 DEF IInv, SteadyDelivered, Delivered
    <2>3. CASE ~Behind(x)
      <3>1. j >= next.source_index /\ (j = next.source_index => h > next.from)
        <4>1. x[1] = j /\ x[2] = h /\ h \in Nat
          BY <2>1, IdsAreNat
        <4>2. QED
          BY <1>3, <2>3, <4>1 DEF Behind
      <3>2. h \in Above(j)
        BY <2>1, <3>1 DEF Above
      <3>3. j < k \/ (j = k /\ h <= last)
        BY <1>1, <2>1 DEF Behind
      <3>4. ~(j < k)
        BY <1>1, <1>3, <2>1, <3>1, <3>2 DEF First
      <3>5. x \in page'
        BY <1>2, <2>1, <3>2, <3>3, <3>4
      <3>6. QED
        BY <3>5 DEF Delivered
    <2>4. QED
      BY <2>2, <2>3
  <1>10. QED
    BY <1>2, <1>4, <1>7, <1>8, <1>9 DEF IInv, LastPageEmpty

\* After the last page nothing is left beyond the position.
LEMMA GetLastPageIInv == IInv /\ GetLastPage => IInv'
  <1> SUFFICES ASSUME IInv, GetLastPage PROVE IInv'
    OBVIOUS
  <1> USE SourcesAssumption, IdsAssumption
  <1>1. /\ hosts' = hosts /\ next' = next /\ steady' = steady /\ reading' = FALSE
        /\ page' = {} /\ seen' = Delivered /\ reading
        /\ \A k \in next.source_index .. Sources : Above(k) = {}
    BY DEF GetLastPage, Turn, Delivered
  <1>2. TypeOK'
    <2>1. page' \subseteq Hosts /\ seen' \subseteq Hosts
      BY <1>1 DEF IInv, TypeOK, Delivered
    <2>2. seen' \cup page' = seen \cup page
      BY <1>1 DEF Delivered
    <2>3. QED
      <3>1. next' = Start \/ <<next'.source_index, next'.from>> \in seen' \cup page'
        BY <1>1, <2>2 DEF IInv, TypeOK, Start
      <3>2. steady' \subseteq Present'
        BY <1>1 DEF IInv, TypeOK, Present
      <3>3. QED
        BY <1>1, <2>1, <3>1, <3>2 DEF IInv, TypeOK, Hosts
  <1>3. Position' /\ PagesOnce' /\ LastPageEmpty'
    BY <1>1 DEF IInv, Position, Delivered, Behind, PagesOnce, LastPageEmpty
  <1>4. SteadyDelivered'
    <2> SUFFICES ASSUME NEW x \in steady PROVE x \in Delivered
      BY <1>1 DEF SteadyDelivered, Delivered
    <2>1. PICK j \in 0 .. Sources, h \in Ids : x = <<j, h>> /\ h \in hosts[j]
      BY DEF IInv, TypeOK, Present
    <2>2. CASE Behind(x)
      BY <2>2 DEF IInv, SteadyDelivered
    <2>3. CASE ~Behind(x)
      <3>1. next.source_index \in 0 .. Sources /\ next.from \in Nat
        BY Positions
      <3>2. j >= next.source_index /\ (j = next.source_index => h > next.from)
        BY <2>1, <2>3, <3>1 DEF Behind
      <3>3. h \in Above(j)
        BY <2>1, <3>2 DEF Above
      <3>4. QED
        BY <1>1, <2>1, <3>1, <3>2, <3>3
    <2>4. QED
      BY <2>2, <2>3
  <1>5. QED
    BY <1>2, <1>3, <1>4 DEF IInv

\* The other steps do not move the position; deleted hosts are not steady.
LEMMA OtherStepIInv ==
  IInv /\ (Restart \/ Add \/ Delete \/ UNCHANGED vars) => IInv'
  <1> SUFFICES ASSUME IInv, Restart \/ Add \/ Delete \/ UNCHANGED vars PROVE IInv'
    OBVIOUS
  <1> USE SourcesAssumption, IdsAssumption
  <1>1. CASE Restart
    <2>1. TypeOK'
      BY <1>1 DEF IInv, TypeOK, Restart, Start, Present, Hosts
    <2>2. Position' /\ PagesOnce' /\ LastPageEmpty'
      BY <1>1 DEF Restart, Position, Delivered, PagesOnce, LastPageEmpty
    <2>3. SteadyDelivered'
      BY <1>1 DEF IInv, TypeOK, Restart, SteadyDelivered, Behind, Present, Start
    <2>4. QED
      BY <2>1, <2>2, <2>3 DEF IInv
  <1>2. CASE Add
    <2>1. PICK k \in 1 .. Sources : \E h \in Ids \ hosts[k] :
            hosts' = [hosts EXCEPT ![k] = @ \cup {h}]
      BY <1>2 DEF Add, Put
    <2>2. /\ hosts' \in [0 .. Sources -> SUBSET Ids]
          /\ \A j \in 0 .. Sources : hosts[j] \subseteq hosts'[j]
      BY <2>1 DEF IInv, TypeOK
    <2>3. TypeOK'
      BY <1>2, <2>2 DEF IInv, TypeOK, Add, Put, Present, Hosts
    <2>4. QED
      BY <1>2, <2>3 DEF IInv, Add, Put, Position, SteadyDelivered, LastPageEmpty, PagesOnce,
                        Delivered, Behind
  <1>3. CASE Delete
    <2>1. PICK k \in 1 .. Sources : \E h \in hosts[k] :
            /\ hosts' = [hosts EXCEPT ![k] = @ \ {h}]
            /\ steady' = steady \ {<<k, h>>}
      BY <1>3 DEF Delete
    <2>2. hosts' \in [0 .. Sources -> SUBSET Ids] /\ steady' \subseteq Present'
      BY <2>1 DEF IInv, TypeOK, Present
    <2>3. TypeOK'
      BY <1>3, <2>2 DEF IInv, TypeOK, Delete, Hosts
    <2>4. QED
      BY <1>3, <2>1, <2>3 DEF IInv, Delete, Position, SteadyDelivered, LastPageEmpty,
                              PagesOnce, Delivered, Behind
  <1>4. CASE UNCHANGED vars
    BY <1>4 DEF IInv, vars, TypeOK, Present, Hosts, Position, SteadyDelivered, LastPageEmpty,
                PagesOnce, Delivered, Behind
  <1>5. QED
    BY <1>1, <1>2, <1>3, <1>4

\* The invariant holds in every reachable state.
THEOREM Invariance == Spec => []IInv
  <1>1. IInv /\ [Next]_vars => IInv'
    BY GetPageIInv, GetLastPageIInv, OtherStepIInv DEF Next
  <1>2. QED
    BY InitIInv, <1>1, PTL DEF Spec

\* Every reachable state is well typed, and the next page begins at the start
\* or at a host that was delivered.
THEOREM TypeCorrect == Spec => []TypeOK
  BY Invariance, PTL DEF IInv

\* Reading page by page misses no host that is there all the time: the hosts
\* behind the last position are all of them, and what is steady there was
\* delivered.
THEOREM Completeness == Spec => []PagesComplete
  <1>1. IInv => PagesComplete
    BY DEF IInv, SteadyDelivered, LastPageEmpty, Delivered, PagesComplete
  <1>2. QED
    BY Invariance, <1>1, PTL

\* No host is delivered twice, because pages lie beyond all that were before.
THEOREM NoDuplicates == Spec => []PagesOnce
  BY Invariance, PTL DEF IInv
=============================================================================
