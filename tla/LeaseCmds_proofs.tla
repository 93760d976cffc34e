--------------------------- MODULE LeaseCmds_proofs ---------------------------
(***************************************************************************)
(* For all addresses, subnets, clients and expiration times, and whatever  *)
(* other servers do to the shared database between two calls of a command: *)
(* what a lease command answers is what it did.                            *)
(***************************************************************************)
EXTENDS LeaseCmds, FiniteSetTheorems, TLAPS

\* A command that makes one change makes it last.
NothingYet == cmd # Idle /\ cmd.name # "lease4-wipe" => changes = {}

\* The lease found for lease4-del is one that was asked for, and is still there
\* or another server changed it.
FoundOrTouched ==
  cmd.name = "lease4-del" =>
    /\ build.getLease4
    /\ Asks(cmd.query, cmd.lease)
    /\ leases[cmd.lease.addr] = cmd.lease \/ cmd.lease.addr \in touched

\* What lease4-get-all has collected is right for the subnets it has asked
\* about, at every address nobody else touched.
CollectedSoFar ==
  cmd.name = "lease4-get-all" =>
    /\ cmd.todo \subseteq cmd.subnets
    /\ \A l \in Lease : l.addr \notin touched =>
         (l \in cmd.leases <=> leases[l.addr] = l /\ l.subnet_id \in cmd.subnets \ cmd.todo)

\* What lease4-wipe has counted is what it has removed, all of it from the
\* subnets it is through with, where only other servers put leases since.
WipedSoFar ==
  cmd.name = "lease4-wipe" =>
    /\ cmd.todo \subseteq cmd.subnets
    /\ IsFiniteSet(changes)
    /\ cmd.num = Cardinality(changes)
    /\ \A ch \in changes : ch[1].subnet_id \in cmd.subnets \ cmd.todo /\ ch[2] = NoLease
    /\ \A l \in Lease : leases[l.addr] = l /\ l.subnet_id \in cmd.subnets \ cmd.todo =>
                          l.addr \in touched

Answers == /\ FailureChangesNothing
           /\ ChangesWhatItSays
           /\ WipeReported
           /\ GetAllComplete
           /\ DeletesPresent

IInv == /\ TypeOK
        /\ NothingYet
        /\ FoundOrTouched
        /\ CollectedSoFar
        /\ WipedSoFar
        /\ Answers
-----------------------------------------------------------------------------
(* The operators.                                                          *)

\* The database stores a lease under its own address only.
LEMMA StoredLease ==
  ASSUME TypeOK
  PROVE  \A l : l \in Stored <=> l \in Lease /\ leases[l.addr] = l
<1>1. \A a \in Addrs : leases[a] \in Lease \cup {NoLease}
  BY DEF TypeOK
<1>2. \A l \in Lease : l.addr \in Addrs /\ l # NoLease
  BY NoLeaseAssumption DEF Lease
<1> QED
  BY <1>1, <1>2 DEF Stored, TypeOK

\* There are finitely many leases in the database.
LEMMA StoredFinite == IsFiniteSet(Stored)
<1> DEFINE S == {leases[a] : a \in Addrs}
           f == [a \in Addrs |-> leases[a]]
<1>1. f \in Surjection(Addrs, S)
  BY DEF Surjection
<1>2. IsFiniteSet(S)
  BY <1>1, AddrAssumption, FS_Surjection
<1>3. Stored \in SUBSET S
  BY DEF Stored
<1> QED
  BY <1>2, <1>3, FS_Subset

\* A parsed lease is a lease.
LEMMA ParsedLease == Parsed \subseteq Lease
BY DEF Parsed, ParseLease4, Lease

\* getLease4 returns a lease of the database that matches, or None when none
\* does.
LEMMA GetLease4Matches ==
  ASSUME TypeOK, NEW q \in Queries, NEW l \in GetLease4(q)
  PROVE  \/ l = NoLease /\ Matches(q) = {}
         \/ l # NoLease /\ l \in Lease /\ leases[l.addr] = l /\ Asks(q, l)
<1>1. Matches(q) \subseteq Stored /\ \A k \in Matches(q) : Asks(q, k)
  BY DEF Matches
<1>2. \A k \in Stored : k # NoLease /\ k \in Lease /\ leases[k.addr] = k
  BY StoredLease, NoLeaseAssumption
<1> QED
  BY <1>1, <1>2 DEF GetLease4

\* Pairing leases with None leaves their number what it is.
LEMMA RemovedCardinality ==
  ASSUME NEW S, IsFiniteSet(S)
  PROVE  /\ IsFiniteSet({<<l, NoLease>> : l \in S})
         /\ Cardinality({<<l, NoLease>> : l \in S}) = Cardinality(S)
<1> DEFINE T == {<<l, NoLease>> : l \in S}
           f == [l \in S |-> <<l, NoLease>>]
<1>1. f \in Bijection(S, T)
  <2>1. f \in [S -> T]
    OBVIOUS
  <2>2. \A a, b \in S : f[a] = f[b] => a = b
    OBVIOUS
  <2>3. \A t \in T : \E s \in S : f[s] = t
    OBVIOUS
  <2> QED
    BY <2>1, <2>2, <2>3 DEF Bijection, Injection, Surjection, IsInjective
<1>2. ExistsBijection(S, T)
  BY <1>1 DEF ExistsBijection
<1> QED
  BY <1>2, FS_Bijection

-----------------------------------------------------------------------------
(* When a command is answered, and while it runs.                          *)

\* No running command is the idle one.
LEMMA Running ==
  /\ Idle.name = "idle"
  /\ cmd.name \in {"lease4-get-all", "lease4-del", "lease4-update", "lease4-wipe"} => cmd # Idle
BY DEF Idle

\* Between two commands only the answer is at stake.
LEMMA IdleIInv ==
  ASSUME TypeOK', cmd' = Idle, Answers'
  PROVE  IInv'
BY Running DEF IInv, NothingYet, FoundOrTouched, CollectedSoFar, WipedSoFar

\* During a command there is no answer yet.
LEMMA RunningAnswers ==
  ASSUME cmd' # Idle
  PROVE  Answers'
BY DEF Answers, FailureChangesNothing, ChangesWhatItSays, Answered, WipeReported,
       GetAllComplete, DeletesPresent

\* A wipe leaves no lease where it has removed one, but what others put there.
LEMMA WipedWhole ==
  ASSUME IInv, cmd.name = "lease4-wipe"
  PROVE  \A ch \in changes :
           /\ ch[2] = NoLease
           /\ \A l \in Stored : l.subnet_id = ch[1].subnet_id => l.addr \in touched
BY StoredLease DEF IInv, WipedSoFar

\* A command that fails before it has changed anything, or in mid-wipe.
LEMMA FailIInv ==
  ASSUME IInv, NEW name, Fail(name), build' = build, leases' = leases, touched' \subseteq Addrs,
         \/ changes' = {}
         \/ name = "lease4-wipe" /\ cmd.name = name /\ changes' = changes /\ touched' = touched
  PROVE  IInv'
<1>1. cmd' = Idle /\ answer' = [name |-> name, result |-> 1]
  BY DEF Fail, Respond, SetResponse
<1>2. answer'.name = name /\ answer'.result = 1 /\ DOMAIN answer' = {"name", "result"}
  BY <1>1
<1>3. TypeOK'
  BY <1>1, <1>2 DEF IInv, TypeOK, Commands
<1>4. \A ch \in changes' :
        /\ ch[2] = NoLease
        /\ \A l \in Stored' : l.subnet_id = ch[1].subnet_id => l.addr \in touched'
  <2>1. CASE changes' = {}
    BY <2>1
  <2>2. CASE cmd.name = "lease4-wipe" /\ changes' = changes /\ touched' = touched
    <3>1. Stored' = Stored
      BY DEF Stored
    <3> QED
      BY <2>2, <3>1, WipedWhole
  <2> QED
    BY <2>1, <2>2
<1>5. Answers'
  BY <1>1, <1>2, <1>4 DEF Answers, FailureChangesNothing, ChangesWhatItSays, Answered,
                          WipeReported, GetAllComplete, DeletesPresent
<1> QED
  BY <1>1, <1>3, <1>5, IdleIInv

\* A command that only reads.
LEMMA ReadIInv ==
  ASSUME IInv, Lease4Get \/ Lease4GetBy \/ Lease4GetPage
  PROVE  IInv'
<1>1. /\ cmd' = Idle /\ build' = build /\ leases' = leases /\ changes' = {} /\ touched' = {}
      /\ answer'.name \in {"lease4-get", "lease4-get-by", "lease4-get-page"}
      /\ answer'.result \in {0, 3}
  <2>1. CASE Lease4Get
    BY <2>1 DEF Lease4Get, Respond, SetResponse, Fresh
  <2>2. CASE Lease4GetBy
    BY <2>2 DEF Lease4GetBy, Respond, SetResponse, Fresh
  <2>3. CASE Lease4GetPage
    BY <2>3 DEF Lease4GetPage, Respond, SetResponse, Fresh
  <2> QED
    BY <2>1, <2>2, <2>3
<1>2. TypeOK'
  BY <1>1 DEF IInv, TypeOK, Commands
<1>3. Answers'
  BY <1>1 DEF Answers, FailureChangesNothing, ChangesWhatItSays, Answered, WipeReported,
              GetAllComplete, DeletesPresent
<1> QED
  BY <1>1, <1>2, <1>3, IdleIInv

\* lease4-add makes its only call at once.
LEMMA AddIInv ==
  ASSUME IInv, Lease4Add
  PROVE  IInv'
<1>1. PICK l \in Parsed : /\ AddLease(l, {})
                          /\ Respond([name |-> "lease4-add", result |-> 0, lease |-> l])
  BY DEF Lease4Add
<1>2. l \in Lease /\ l.addr \in Addrs /\ l # NoLease
  BY ParsedLease, NoLeaseAssumption DEF Lease
<1>3. /\ build' = build /\ cmd' = Idle /\ touched' = {}
      /\ answer'.name = "lease4-add" /\ answer'.result = 0
  BY <1>1 DEF Lease4Add, Respond, SetResponse
<1>4. TypeOK'
  BY <1>1, <1>2, <1>3 DEF IInv, TypeOK, Commands, AddLease, Put
<1>5. Answers'
  BY <1>3 DEF Answers, FailureChangesNothing, ChangesWhatItSays, Answered, WipeReported,
              GetAllComplete, DeletesPresent
<1> QED
  BY <1>3, <1>4, <1>5, IdleIInv

-----------------------------------------------------------------------------
(* lease4-get-all                                                          *)

\* Asking for every lease is complete at once; otherwise nothing has been
\* asked yet.
LEMMA GetAllIInv ==
  ASSUME IInv, Lease4GetAll
  PROVE  IInv'
<1>1. build' = build /\ leases' = leases /\ changes' = {} /\ touched' = {}
  BY DEF Lease4GetAll, Fresh
<1>2. ASSUME Respond([name |-> "lease4-get-all", result |-> IF Stored = {} THEN 3 ELSE 0,
                      subnets |-> Subnets, leases |-> Stored])
      PROVE  IInv'
  <2>1. /\ cmd' = Idle
        /\ answer'.name = "lease4-get-all" /\ answer'.result \in {0, 3}
        /\ answer'.subnets = Subnets /\ answer'.leases = Stored
    BY <1>2 DEF Respond, SetResponse
  <2>2. Stored' = Stored
    BY <1>1 DEF Stored
  <2>3. \A l \in Stored : l.subnet_id \in Subnets
    BY StoredLease DEF IInv, Lease
  <2>4. GetAllComplete'
    BY <2>1, <2>2, <2>3 DEF GetAllComplete
  <2>5. TypeOK'
    BY <1>1, <2>1 DEF IInv, TypeOK, Commands
  <2>6. Answers'
    BY <1>1, <2>1, <2>4 DEF Answers, FailureChangesNothing, ChangesWhatItSays, Answered,
                            WipeReported, DeletesPresent
  <2> QED
    BY <2>1, <2>5, <2>6, IdleIInv
<1>3. ASSUME NEW S \in SUBSET Subnets,
             cmd' = [name |-> "lease4-get-all", subnets |-> S, todo |-> S, leases |-> {}],
             answer' = None
      PROVE  IInv'
  <2>1. cmd'.name = "lease4-get-all" /\ cmd' # Idle
    BY <1>3, Running
  <2>2. TypeOK'
    BY <1>1, <1>3 DEF IInv, TypeOK, Commands, None
  <2>3. CollectedSoFar'
    BY <1>3 DEF CollectedSoFar
  <2> QED
    BY <1>1, <2>1, <2>2, <2>3, RunningAnswers DEF IInv, NothingYet, FoundOrTouched, WipedSoFar
<1> QED
  BY <1>2, <1>3 DEF Lease4GetAll

\* A running lease4-get-all has its fields.
LEMMA GetAllFields ==
  ASSUME TypeOK, cmd.name = "lease4-get-all"
  PROVE  cmd \in [name : {"lease4-get-all"}, subnets : SUBSET Subnets, todo : SUBSET Subnets,
                  leases : SUBSET Lease]
BY DEF TypeOK, Commands, Idle

\* The leases of one more subnet.
LEMMA GetSubnetIInv ==
  ASSUME IInv, GetSubnet
  PROVE  IInv'
<1>1. PICK s \in cmd.todo :
        cmd' = [cmd EXCEPT !.todo = @ \ {s},
                           !.leases = @ \cup {l \in Stored : l.subnet_id = s}]
  BY DEF GetSubnet
<1>2. /\ build' = build /\ leases' = leases /\ answer' = answer /\ changes' = changes /\ touched' = touched
      /\ cmd.name = "lease4-get-all"
  BY DEF GetSubnet, history
<1>3. cmd \in [name : {"lease4-get-all"}, subnets : SUBSET Subnets, todo : SUBSET Subnets,
               leases : SUBSET Lease]
  BY <1>2, GetAllFields DEF IInv
<1>4. \A l : l \in Stored <=> l \in Lease /\ leases[l.addr] = l
  BY StoredLease DEF IInv
<1>5. /\ cmd'.name = "lease4-get-all" /\ cmd'.subnets = cmd.subnets
      /\ cmd'.todo = cmd.todo \ {s}
      /\ cmd'.leases = cmd.leases \cup {l \in Stored : l.subnet_id = s}
  BY <1>1, <1>3
<1>6. cmd' \in [name : {"lease4-get-all"}, subnets : SUBSET Subnets, todo : SUBSET Subnets,
                leases : SUBSET Lease]
  BY <1>1, <1>3, <1>4
<1>7. TypeOK'
  BY <1>2, <1>6 DEF IInv, TypeOK, Commands
<1>8. CollectedSoFar'
  <2>0. cmd.todo \subseteq cmd.subnets
    BY <1>2 DEF IInv, CollectedSoFar
  <2> SUFFICES ASSUME NEW l \in Lease, l.addr \notin touched
               PROVE  l \in cmd'.leases <=>
                        leases[l.addr] = l /\ l.subnet_id \in cmd'.subnets \ cmd'.todo
    BY <1>2, <1>5, <2>0 DEF CollectedSoFar
  <2>1. l \in cmd.leases <=> leases[l.addr] = l /\ l.subnet_id \in cmd.subnets \ cmd.todo
    BY <1>2 DEF IInv, CollectedSoFar
  <2>2. s \in cmd.subnets
    BY <2>0
  <2> QED
    BY <1>4, <1>5, <2>1, <2>2
<1>9. cmd' # Idle /\ NothingYet' /\ FoundOrTouched' /\ WipedSoFar'
  BY <1>2, <1>5, Running DEF IInv, NothingYet, FoundOrTouched, WipedSoFar
<1> QED
  BY <1>7, <1>8, <1>9, RunningAnswers DEF IInv

\* All subnets were asked about: what was collected is the answer.
LEMMA GotAllIInv ==
  ASSUME IInv, GotAll
  PROVE  IInv'
<1>1. /\ build' = build /\ leases' = leases /\ changes' = changes /\ touched' = touched
      /\ cmd.name = "lease4-get-all" /\ cmd.todo = {} /\ cmd' = Idle
      /\ answer' = [name |-> "lease4-get-all", result |-> IF cmd.leases = {} THEN 3 ELSE 0,
                    subnets |-> cmd.subnets, leases |-> cmd.leases]
  BY DEF GotAll, Respond, SetResponse, history
<1>2. /\ answer'.name = "lease4-get-all" /\ answer'.result \in {0, 3}
      /\ answer'.subnets = cmd.subnets /\ answer'.leases = cmd.leases
  BY <1>1
<1>3. cmd.leases \subseteq Lease
  BY <1>1, GetAllFields DEF IInv
<1>4. TypeOK'
  BY <1>1, <1>2 DEF IInv, TypeOK, Commands
<1>5. GetAllComplete'
  <2>1. \A l : l \in Stored <=> l \in Lease /\ leases[l.addr] = l
    BY StoredLease DEF IInv
  <2>2. \A l \in Lease : l.addr \notin touched =>
          (l \in cmd.leases <=> leases[l.addr] = l /\ l.subnet_id \in cmd.subnets)
    BY <1>1 DEF IInv, CollectedSoFar
  <2>3. \A a \in Addrs \ touched :
          {l \in cmd.leases : l.addr = a}
            = {l \in Stored : l.addr = a /\ l.subnet_id \in cmd.subnets}
    BY <1>3, <2>1, <2>2
  <2>4. Stored' = Stored
    BY <1>1 DEF Stored
  <2> QED
    BY <1>1, <1>2, <2>3, <2>4 DEF GetAllComplete
<1>6. changes' = {}
  BY <1>1, Running DEF IInv, NothingYet
<1>7. Answers'
  BY <1>2, <1>5, <1>6 DEF Answers, FailureChangesNothing, ChangesWhatItSays, Answered,
                          WipeReported, DeletesPresent
<1> QED
  BY <1>1, <1>4, <1>7, IdleIInv

-----------------------------------------------------------------------------
(* lease4-del and lease4-update                                            *)

\* lease4-del fails at once for want of a lease that matches, or goes on
\* with one that is there.
LEMMA DelIInv ==
  ASSUME IInv, Lease4Del
  PROVE  IInv'
<1>1. build' = build /\ leases' = leases /\ changes' = {} /\ touched' = {}
  BY DEF Lease4Del, Fresh
<1>2. PICK q \in Queries :
        \/ /\ build.getLease4 => Matches(q) = {}
           /\ Respond([name |-> "lease4-del", result |-> 1, query |-> q])
        \/ \E l \in Lease : /\ build.getLease4 /\ leases[l.addr] = l /\ Asks(q, l)
                            /\ cmd' = [name |-> "lease4-del", lease |-> l, query |-> q]
                            /\ answer' = None
  BY GetLease4Matches DEF Lease4Del, IInv
<1>3. CASE /\ build.getLease4 => Matches(q) = {}
           /\ Respond([name |-> "lease4-del", result |-> 1, query |-> q])
  <2>1. /\ cmd' = Idle /\ answer'.name = "lease4-del" /\ answer'.result = 1
        /\ answer'.query = q
    BY <1>3 DEF Respond, SetResponse
  <2>2. TypeOK'
    BY <1>1, <2>1 DEF IInv, TypeOK, Commands
  <2>3. CanDelete' => Matches(q)' = {}
    BY <1>1, <1>3 DEF CanDelete, Matches, Stored
  <2>4. DeletesPresent'
    BY <1>1, <2>1, <2>3 DEF DeletesPresent, Matches, Stored
  <2>5. Answers'
    BY <1>1, <2>1, <2>4 DEF Answers, FailureChangesNothing, ChangesWhatItSays, Answered,
                            WipeReported, GetAllComplete
  <2> QED
    BY <2>1, <2>2, <2>5, IdleIInv
<1>4. ASSUME NEW l \in Lease, build.getLease4, leases[l.addr] = l, Asks(q, l), answer' = None,
             cmd' = [name |-> "lease4-del", lease |-> l, query |-> q]
      PROVE  IInv'
  <2>1. /\ cmd'.name = "lease4-del" /\ cmd'.lease = l /\ cmd'.query = q
        /\ cmd' # Idle
    BY <1>4, Running
  <2>2. TypeOK'
    BY <1>1, <1>4 DEF IInv, TypeOK, Commands, None
  <2>3. FoundOrTouched'
    BY <1>1, <1>4, <2>1 DEF FoundOrTouched, Asks
  <2> QED
    BY <1>1, <2>1, <2>2, <2>3, RunningAnswers DEF IInv, NothingYet, CollectedSoFar, WipedSoFar
<1> QED
  BY <1>2, <1>3, <1>4

\* The lease that was found is deleted; or another one at its address, which
\* another server put there; or none, since another server took it away or
\* changed it; or it is a TypeError.
LEMMA DeleteFoundIInv ==
  ASSUME IInv, DeleteFound
  PROVE  IInv'
<1> DEFINE l == cmd.lease
           gone == leases[l.addr]
<1>1. /\ cmd.name = "lease4-del" /\ build' = build /\ touched' = touched /\ cmd' = Idle
      /\ changes = {}
  BY Running DEF DeleteFound, Respond, IInv, NothingYet
<1>2. l \in Lease /\ l.addr \in Addrs /\ l # NoLease
  BY <1>1, NoLeaseAssumption DEF IInv, TypeOK, Commands, Lease, Idle
<1>3. /\ build.getLease4 /\ Asks(cmd.query, l)
      /\ gone = l \/ l.addr \in touched
  BY <1>1 DEF IInv, FoundOrTouched
<1>4. CASE build.passesAddress # build.takesAddress
  <2>1. /\ answer'.name = "lease4-del" /\ answer'.result = 1
        /\ leases' = leases /\ changes' = {}
    BY <1>1, <1>4 DEF DeleteFound, Respond, SetResponse
  <2>2. TypeOK'
    BY <1>1, <2>1 DEF IInv, TypeOK, Commands
  <2>3. ~CanDelete'
    BY <1>1, <1>4 DEF CanDelete
  <2>4. Answers'
    BY <1>1, <2>1, <2>3 DEF Answers, FailureChangesNothing, ChangesWhatItSays, Answered,
                            WipeReported, GetAllComplete, DeletesPresent
  <2> QED
    BY <1>1, <2>2, <2>4, IdleIInv
<1>5. CASE build.passesAddress = build.takesAddress /\ Deletable(l)
  <2>1. /\ answer'.name = "lease4-del" /\ answer'.result = 0
        /\ answer'.lease = l /\ answer'.query = cmd.query
        /\ Put(l.addr, NoLease) /\ changes' = {<<gone, NoLease>>}
    BY <1>1, <1>5 DEF DeleteFound, DeleteLease, Respond, SetResponse
  <2>2. gone \in Lease /\ gone.addr = l.addr /\ (gone # l => build.takesAddress)
    BY <1>2, <1>5 DEF Deletable, IInv, TypeOK
  <2>3. TypeOK'
    BY <1>1, <1>2, <2>1, <2>2 DEF IInv, TypeOK, Commands, Put
  <2>4. ChangesWhatItSays'
    <3>1. Asks(answer'.query, answer'.lease)
      BY <1>3, <2>1 DEF Asks
    <3>2. gone = answer'.lease
          \/ (build'.takesAddress /\ gone.addr = answer'.lease.addr /\ gone.addr \in touched')
      BY <1>1, <1>3, <2>1, <2>2
    <3> QED
      BY <2>1, <2>2, <3>1, <3>2 DEF ChangesWhatItSays, Answered
  <2>5. CanDelete'
    BY <1>1, <1>3, <1>5 DEF CanDelete
  <2>6. Answers'
    BY <2>1, <2>4, <2>5 DEF Answers, FailureChangesNothing, WipeReported, GetAllComplete,
                            DeletesPresent
  <2> QED
    BY <1>1, <2>3, <2>6, IdleIInv
<1>6. CASE build.passesAddress = build.takesAddress /\ ~Deletable(l)
  <2>1. /\ answer'.name = "lease4-del" /\ answer'.result = 3 /\ answer'.lease = l
        /\ leases' = leases /\ changes' = {}
    BY <1>1, <1>6 DEF DeleteFound, DeleteLease, Respond, SetResponse
  <2>2. TypeOK'
    BY <1>1, <2>1 DEF IInv, TypeOK, Commands
  <2>3. CanDelete' /\ l.addr \in touched'
    BY <1>1, <1>2, <1>3, <1>6 DEF CanDelete, Deletable
  <2>4. Answers'
    BY <1>1, <2>1, <2>3 DEF Answers, FailureChangesNothing, ChangesWhatItSays, Answered,
                            WipeReported, GetAllComplete, DeletesPresent
  <2> QED
    BY <1>1, <2>2, <2>4, IdleIInv
<1> QED
  BY <1>4, <1>5, <1>6

\* lease4-update starts, or fails when it needs getLease4 and there is none.
LEMMA UpdateStartsIInv ==
  ASSUME IInv, Lease4Update
  PROVE  IInv'
<1>1. build' = build /\ leases' = leases /\ changes' = {} /\ touched' = {}
  BY DEF Lease4Update, Fresh
<1>2. CASE Fail("lease4-update")
  BY <1>1, <1>2, FailIInv
<1>3. ASSUME NEW l \in Parsed, NEW add \in BOOLEAN, answer' = None,
             cmd' = [name |-> "lease4-update", lease |-> l, add |-> add]
      PROVE  IInv'
  <2>1. cmd'.name = "lease4-update" /\ cmd' # Idle
    BY <1>3, Running
  <2>2. TypeOK'
    BY <1>1, <1>3, ParsedLease DEF IInv, TypeOK, Commands, None
  <2> QED
    BY <1>1, <2>1, <2>2, RunningAnswers
       DEF IInv, NothingYet, FoundOrTouched, CollectedSoFar, WipedSoFar
<1>4. PICK l \in Parsed, force_create \in BOOLEAN :
        \/ Fail("lease4-update")
        \/ /\ cmd' = [name |-> "lease4-update", lease |-> l,
                      add |-> force_create /\ leases[l.addr] = NoLease]
           /\ answer' = None
  BY DEF Lease4Update
<1>5. (force_create /\ leases[l.addr] = NoLease) \in BOOLEAN
  OBVIOUS
<1> QED
  BY <1>2, <1>3, <1>4, <1>5

\* It replaces the lease at the address, or adds one.
LEMMA UpdateIInv ==
  ASSUME IInv, Update
  PROVE  IInv'
<1> DEFINE l == cmd.lease
<1>1. /\ cmd.name = "lease4-update" /\ touched' = touched /\ build' = build /\ cmd' = Idle
      /\ changes = {}
      /\ answer' = [name |-> "lease4-update", result |-> 0, add |-> cmd.add, lease |-> l]
  BY Running DEF Update, Respond, SetResponse, IInv, NothingYet
<1>2. l \in Lease /\ l.addr \in Addrs /\ l # NoLease /\ cmd.add \in BOOLEAN
  BY <1>1, NoLeaseAssumption DEF IInv, TypeOK, Commands, Lease, Idle
<1>3. leases[l.addr] \in Lease \cup {NoLease}
      /\ (leases[l.addr] # NoLease => leases[l.addr].addr = l.addr)
  BY <1>2 DEF IInv, TypeOK
<1>4. /\ answer'.name = "lease4-update" /\ answer'.result = 0
      /\ answer'.add = cmd.add /\ answer'.lease = l
  BY <1>1
<1>5. IF cmd.add THEN AddLease(l, {}) ELSE UpdateLease4(l, {})
  BY <1>1 DEF Update
<1>6. TypeOK'
  BY <1>1, <1>2, <1>3, <1>4, <1>5 DEF IInv, TypeOK, Commands, AddLease, UpdateLease4, Put
<1>7. ChangesWhatItSays'
  BY <1>3, <1>4, <1>5 DEF ChangesWhatItSays, Answered, UpdateLease4
<1>8. Answers'
  BY <1>4, <1>7 DEF Answers, FailureChangesNothing, WipeReported, GetAllComplete,
                    DeletesPresent
<1> QED
  BY <1>1, <1>6, <1>8, IdleIInv

-----------------------------------------------------------------------------
(* lease4-wipe                                                             *)

\* Nothing is wiped yet.
LEMMA WipeIInv ==
  ASSUME IInv, Lease4Wipe
  PROVE  IInv'
<1>1. PICK S \in {Subnets} \cup {{s} : s \in Subnets} :
        cmd' = [name |-> "lease4-wipe", subnets |-> S, todo |-> S, num |-> 0]
  BY DEF Lease4Wipe
<1>2. /\ build' = build /\ leases' = leases /\ answer' = None /\ changes' = {} /\ touched' = {}
      /\ S \subseteq Subnets
  BY DEF Lease4Wipe, Fresh
<1>3. /\ cmd'.name = "lease4-wipe" /\ cmd'.subnets = S /\ cmd'.todo = S /\ cmd'.num = 0
      /\ cmd' # Idle
  BY <1>1, Running
<1>4. TypeOK'
  BY <1>1, <1>2 DEF IInv, TypeOK, Commands, None
<1>5. WipedSoFar'
  BY <1>2, <1>3, FS_EmptySet DEF WipedSoFar
<1> QED
  BY <1>2, <1>3, <1>4, <1>5, RunningAnswers DEF IInv, NothingYet, FoundOrTouched, CollectedSoFar

\* A running lease4-wipe has its fields.
LEMMA WipeFields ==
  ASSUME TypeOK, cmd.name = "lease4-wipe"
  PROVE  cmd \in [name : {"lease4-wipe"}, subnets : SUBSET Subnets, todo : SUBSET Subnets,
                  num : Nat]
BY DEF TypeOK, Commands, Idle

\* The leases of one more subnet are removed and counted, none of them
\* counted before.
LEMMA WipeSubnetIInv ==
  ASSUME IInv, WipeSubnet
  PROVE  IInv'
<1>1. PICK s \in cmd.todo :
        LET gone == {l \in Stored : l.subnet_id = s} IN
          /\ leases' = [a \in Addrs |-> IF leases[a] \in gone THEN NoLease ELSE leases[a]]
          /\ changes' = changes \cup {<<l, NoLease>> : l \in gone}
          /\ cmd' = [cmd EXCEPT !.todo = @ \ {s}, !.num = @ + Cardinality(gone)]
  BY DEF WipeSubnet
<1> DEFINE gone == {l \in Stored : l.subnet_id = s}
           pairs == {<<l, NoLease>> : l \in gone}
<1>2. /\ cmd.name = "lease4-wipe" /\ build' = build /\ answer' = answer /\ touched' = touched
      /\ leases' = [a \in Addrs |-> IF leases[a] \in gone THEN NoLease ELSE leases[a]]
      /\ changes' = changes \cup pairs
  BY <1>1 DEF WipeSubnet
<1>3. cmd \in [name : {"lease4-wipe"}, subnets : SUBSET Subnets, todo : SUBSET Subnets,
               num : Nat]
  BY <1>2, WipeFields DEF IInv
<1>4. /\ IsFiniteSet(gone) /\ Cardinality(gone) \in Nat
      /\ IsFiniteSet(pairs) /\ Cardinality(pairs) = Cardinality(gone)
  <2>1. IsFiniteSet(gone)
    BY StoredFinite, FS_Subset
  <2> QED
    BY <2>1, FS_CardinalityType, RemovedCardinality
<1>5. /\ cmd'.name = "lease4-wipe" /\ cmd'.subnets = cmd.subnets
      /\ cmd'.todo = cmd.todo \ {s} /\ cmd'.num = cmd.num + Cardinality(gone)
      /\ cmd' # Idle
  BY <1>1, <1>3, Running
<1>6. /\ cmd.todo \subseteq cmd.subnets
      /\ IsFiniteSet(changes) /\ cmd.num = Cardinality(changes)
      /\ \A ch \in changes : ch[1].subnet_id \in cmd.subnets \ cmd.todo /\ ch[2] = NoLease
      /\ \A l \in Lease : leases[l.addr] = l /\ l.subnet_id \in cmd.subnets \ cmd.todo =>
                            l.addr \in touched
  BY <1>2 DEF IInv, WipedSoFar
<1>7. \A l : l \in Stored <=> l \in Lease /\ leases[l.addr] = l
  BY StoredLease DEF IInv
<1>8. TypeOK'
  <2>1. cmd' \in [name : {"lease4-wipe"}, subnets : SUBSET Subnets, todo : SUBSET Subnets,
                  num : Nat]
    <3> DEFINE n == cmd.num + Cardinality(gone)
    <3>1. cmd' = [cmd EXCEPT !.todo = @ \ {s}, !.num = n]
      BY <1>1
    <3>2. n \in Nat
      BY <1>3, <1>4
    <3> HIDE DEF n
    <3> QED
      BY <1>3, <3>1, <3>2
  <2>2. /\ leases' \in [Addrs -> Lease \cup {NoLease}]
        /\ \A a \in Addrs : leases'[a] # NoLease => leases'[a].addr = a
    BY <1>2 DEF IInv, TypeOK
  <2>3. changes' \subseteq (Lease \cup {NoLease}) \X (Lease \cup {NoLease})
    BY <1>2, <1>7 DEF IInv, TypeOK
  <2> QED
    BY <1>2, <2>1, <2>2, <2>3 DEF IInv, TypeOK, Commands
<1>9. IsFiniteSet(changes') /\ cmd'.num = Cardinality(changes')
  <2>1. changes \cap pairs = {}
    <3>1. \A ch \in pairs : ch[1].subnet_id = s
      OBVIOUS
    <3> QED
      BY <1>6, <3>1
  <2> HIDE DEF pairs
  <2>2. /\ IsFiniteSet(changes')
        /\ Cardinality(changes') = Cardinality(changes) + Cardinality(pairs) - Cardinality({})
    BY <1>2, <1>4, <1>6, <2>1, FS_Union
  <2>3. Cardinality({}) = 0 /\ Cardinality(changes) \in Nat
    BY <1>6, FS_EmptySet, FS_CardinalityType
  <2> QED
    BY <1>4, <1>5, <1>6, <2>2, <2>3
<1>10. \A ch \in changes' : ch[1].subnet_id \in cmd'.subnets \ cmd'.todo /\ ch[2] = NoLease
  <2>1. \A ch \in pairs : ch[1].subnet_id = s /\ ch[2] = NoLease
    OBVIOUS
  <2> QED
    BY <1>2, <1>5, <1>6, <2>1
<1>11. \A l \in Lease : leases'[l.addr] = l /\ l.subnet_id \in cmd'.subnets \ cmd'.todo =>
                        l.addr \in touched'
  <2> SUFFICES ASSUME NEW l \in Lease, leases'[l.addr] = l,
                      l.subnet_id \in cmd'.subnets \ cmd'.todo
               PROVE  l.addr \in touched
    BY <1>2
  <2>1. l.addr \in Addrs /\ l # NoLease
    BY NoLeaseAssumption DEF Lease
  <2>2. leases[l.addr] = l /\ l \notin gone
    BY <1>2, <2>1
  <2>3. l.subnet_id # s
    BY <1>7, <2>2
  <2> QED
    BY <1>5, <1>6, <2>2, <2>3
<1>12. WipedSoFar'
  BY <1>5, <1>6, <1>9, <1>10, <1>11 DEF WipedSoFar
<1> QED
  BY <1>2, <1>5, <1>8, <1>12, RunningAnswers DEF IInv, NothingYet, FoundOrTouched, CollectedSoFar

\* All subnets are wiped: the count is the answer.
LEMMA WipedIInv ==
  ASSUME IInv, Wiped
  PROVE  IInv'
<1>1. /\ build' = build /\ leases' = leases /\ changes' = changes /\ touched' = touched /\ cmd' = Idle
      /\ cmd.name = "lease4-wipe" /\ cmd.todo = {}
      /\ answer' = [name |-> "lease4-wipe", result |-> IF cmd.num = 0 THEN 3 ELSE 0,
                    subnets |-> cmd.subnets, num |-> cmd.num]
  BY DEF Wiped, Respond, SetResponse, history
<1>2. /\ answer'.name = "lease4-wipe" /\ answer'.subnets = cmd.subnets /\ answer'.num = cmd.num
      /\ answer'.result = IF cmd.num = 0 THEN 3 ELSE 0
  BY <1>1
<1>3. TypeOK'
  BY <1>1, <1>2 DEF IInv, TypeOK, Commands
<1>4. WipeReported'
  <2>0. Stored' = Stored
    BY <1>1 DEF Stored
  <2>1. /\ IsFiniteSet(changes) /\ cmd.num = Cardinality(changes)
        /\ \A ch \in changes : ch[1].subnet_id \in cmd.subnets /\ ch[2] = NoLease
        /\ \A l \in Lease : leases[l.addr] = l /\ l.subnet_id \in cmd.subnets =>
                              l.addr \in touched
    BY <1>1 DEF IInv, WipedSoFar
  <2>2. cmd.num = 0 <=> changes = {}
    BY <2>1, FS_EmptySet
  <2>3. \A l \in Stored' : l \in Lease /\ leases[l.addr] = l
    BY <1>1, StoredLease DEF IInv, Stored
  <2> QED
    BY <1>1, <1>2, <2>0, <2>1, <2>2, <2>3, WipedWhole DEF WipeReported
<1>5. Answers'
  BY <1>2, <1>4 DEF Answers, FailureChangesNothing, ChangesWhatItSays, Answered,
                    GetAllComplete, DeletesPresent
<1> QED
  BY <1>1, <1>3, <1>5, IdleIInv

-----------------------------------------------------------------------------
(* Failures, and the other servers.                                        *)

\* A command that has not removed anything yet may fail.
LEMMA FailuresIInv ==
  ASSUME IInv, BadCommand \/ NoSuchLease \/ Throws
  PROVE  IInv'
<1>0. touched \subseteq Addrs
  BY DEF IInv, TypeOK
<1>1. CASE BadCommand
  BY <1>1, FailIInv DEF BadCommand, Fresh
<1>2. CASE NoSuchLease
  <2>1. changes = {}
    BY <1>2, Running DEF NoSuchLease, IInv, NothingYet
  <2> QED
    BY <1>0, <1>2, <2>1, FailIInv DEF NoSuchLease, history
<1>3. CASE Throws
  <2>1. changes = {} \/ cmd.name = "lease4-wipe"
    BY <1>3 DEF Throws, IInv, NothingYet
  <2> QED
    BY <1>0, <1>3, <2>1, FailIInv DEF Throws, history
<1> QED
  BY <1>1, <1>2, <1>3

\* A running command remembers which addresses others touched.
LEMMA OthersIInv ==
  ASSUME IInv, Others
  PROVE  IInv'
<1>1. PICK a \in Addrs, k \in Lease \cup {NoLease} :
        /\ k # NoLease => k.addr = a
        /\ Put(a, k)
        /\ touched' = IF cmd = Idle THEN {} ELSE touched \cup {a}
  BY DEF Others
<1>2. /\ changes' = IF cmd = Idle THEN {} ELSE changes
      /\ answer' = None /\ cmd' = cmd /\ build' = build
  BY DEF Others
<1>3. /\ leases' = [leases EXCEPT ![a] = k]
      /\ leases \in [Addrs -> Lease \cup {NoLease}]
  BY <1>1 DEF Put, IInv, TypeOK
<1>4. TypeOK'
  BY <1>1, <1>2, <1>3 DEF IInv, TypeOK, None
<1>5. CASE cmd = Idle
  <2>1. Answers'
    BY <1>2 DEF Answers, None, FailureChangesNothing, ChangesWhatItSays, Answered, WipeReported,
                GetAllComplete, DeletesPresent
  <2> QED
    BY <1>2, <1>4, <1>5, <2>1, IdleIInv
<1>6. CASE cmd # Idle
  <2>1. touched' = touched \cup {a} /\ changes' = changes
    BY <1>1, <1>2, <1>6
  <2>2. \A l \in Lease : l.addr \in Addrs /\ (l.addr \notin touched' => leases'[l.addr] = leases[l.addr])
    BY <1>3, <2>1 DEF Lease
  <2>3. NothingYet' /\ FoundOrTouched'
    <3>1. NothingYet'
      BY <1>2, <2>1 DEF IInv, NothingYet
    <3>2. ASSUME cmd.name = "lease4-del"
          PROVE  FoundOrTouched'
      <4>1. cmd.lease \in Lease
        BY <3>2 DEF IInv, TypeOK, Commands, Idle
      <4>2. build.getLease4 /\ Asks(cmd.query, cmd.lease)
        BY <3>2 DEF IInv, FoundOrTouched
      <4>3. Asks(cmd.query, cmd.lease)'
        BY <1>2, <4>2 DEF Asks
      <4>4. leases'[cmd.lease.addr] = cmd.lease \/ cmd.lease.addr \in touched'
        BY <2>1, <2>2, <3>2, <4>1 DEF IInv, FoundOrTouched
      <4> QED
        BY <1>2, <4>2, <4>3, <4>4 DEF FoundOrTouched
    <3> QED
      BY <1>2, <3>1, <3>2 DEF FoundOrTouched
  <2>4. CollectedSoFar'
    BY <1>2, <2>1, <2>2 DEF IInv, CollectedSoFar
  <2>5. WipedSoFar'
    <3> SUFFICES ASSUME cmd.name = "lease4-wipe" PROVE WipedSoFar'
      BY <1>2 DEF WipedSoFar
    <3>1. \A l \in Lease : leases'[l.addr] = l /\ l.subnet_id \in cmd.subnets \ cmd.todo =>
                            l.addr \in touched'
      BY <2>1, <2>2 DEF IInv, WipedSoFar
    <3> QED
      BY <1>2, <2>1, <3>1 DEF IInv, WipedSoFar
  <2> QED
    BY <1>2, <1>4, <1>6, <2>3, <2>4, <2>5, RunningAnswers DEF IInv
<1> QED
  BY <1>5, <1>6

-----------------------------------------------------------------------------
\* The database is empty and no command has come in.
LEMMA InitIInv == Init => IInv
<1> SUFFICES ASSUME Init
             PROVE  IInv
  OBVIOUS
<1>1. TypeOK
  BY DEF Init, TypeOK, Commands, None
<1>2. NothingYet /\ FoundOrTouched /\ CollectedSoFar /\ WipedSoFar
  BY Running DEF Init, NothingYet, FoundOrTouched, CollectedSoFar, WipedSoFar
<1>3. Answers
  BY DEF Init, None, Answers, FailureChangesNothing, ChangesWhatItSays, Answered, WipeReported,
         GetAllComplete, DeletesPresent
<1> QED
  BY <1>1, <1>2, <1>3 DEF IInv

\* A step that changes nothing.
LEMMA StutterIInv ==
  ASSUME IInv, UNCHANGED vars
  PROVE  IInv'
<1>1. /\ build' = build /\ leases' = leases /\ cmd' = cmd /\ answer' = answer
      /\ changes' = changes /\ touched' = touched
  BY DEF vars, history
<1>2. TypeOK' /\ NothingYet' /\ CollectedSoFar' /\ WipedSoFar'
  BY <1>1 DEF IInv, TypeOK, NothingYet, CollectedSoFar, WipedSoFar
<1>3. FoundOrTouched'
  BY <1>1 DEF IInv, FoundOrTouched, Asks
<1>4. ChangesWhatItSays'
  BY <1>1 DEF IInv, Answers, ChangesWhatItSays, Answered, Asks
<1>5. FailureChangesNothing' /\ WipeReported' /\ GetAllComplete'
  BY <1>1 DEF IInv, Answers, FailureChangesNothing, WipeReported, GetAllComplete, Stored
<1>6. DeletesPresent'
  BY <1>1 DEF IInv, Answers, DeletesPresent, CanDelete, Matches, Stored, Asks
<1> QED
  BY <1>2, <1>3, <1>4, <1>5, <1>6 DEF IInv, Answers

\* The inductive invariant of the lease commands.
THEOREM Invariance == Spec => []IInv
<1>1. Init => IInv
  BY InitIInv
<1>2. IInv /\ [Next]_vars => IInv'
  BY AddIInv, ReadIInv, GetAllIInv, GetSubnetIInv, GotAllIInv, DelIInv, DeleteFoundIInv,
     UpdateStartsIInv, UpdateIInv, WipeIInv, WipeSubnetIInv, WipedIInv, FailuresIInv, OthersIInv,
     StutterIInv DEF Next
<1> QED
  BY <1>1, <1>2, PTL DEF Spec

\* The database holds leases under their own addresses only, and every command
\* keeps to its type.
THEOREM TypeCorrect == Spec => []TypeOK
<1>1. IInv => TypeOK
  BY DEF IInv
<1> QED
  BY <1>1, Invariance, PTL

\* A command that fails has changed nothing, but for a wipe cut short.
THEOREM FailureChangesNothingHolds == Spec => []FailureChangesNothing
<1>1. IInv => FailureChangesNothing
  BY DEF IInv, Answers
<1> QED
  BY <1>1, Invariance, PTL

\* lease4-del and lease4-update change what they say they did, and that only.
THEOREM ChangesWhatItSaysHolds == Spec => []ChangesWhatItSays
<1>1. IInv => ChangesWhatItSays
  BY DEF IInv, Answers
<1> QED
  BY <1>1, Invariance, PTL

\* lease4-wipe reports the number of leases it removed, whatever others do.
THEOREM WipeReportedHolds == Spec => []WipeReported
<1>1. IInv => WipeReported
  BY DEF IInv, Answers
<1> QED
  BY <1>1, Invariance, PTL

\* lease4-get-all misses no lease that nobody touched.
THEOREM GetAllCompleteHolds == Spec => []GetAllComplete
<1>1. IInv => GetAllComplete
  BY DEF IInv, Answers
<1> QED
  BY <1>1, Invariance, PTL

\* Whatever version it is built for: lease4-del removes a lease that is there in
\* the builds where it can delete, and changes nothing in the others.
THEOREM DeletesPresentHolds == Spec => []DeletesPresent
<1>1. IInv => DeletesPresent
  BY DEF IInv, Answers
<1> QED
  BY <1>1, Invariance, PTL
=============================================================================
