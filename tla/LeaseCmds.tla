------------------------------- MODULE LeaseCmds -------------------------------
(***************************************************************************)
(* The lease commands of examples/lease-cmds/keahook.py on the lease       *)
(* database behind kea.LeaseMgr (keamodule/lease_mgr.cc).  A command is    *)
(* one callout of Kea's only thread, but it may call the lease manager     *)
(* several times, and the database may be shared: other servers grant,     *)
(* renew and remove leases between two calls.                              *)
(***************************************************************************)
EXTENDS Naturals, FiniteSets

CONSTANTS Addrs,          \* addresses, numbered in their order from 1
          Subnets,        \* ids of the configured subnets
          SubnetRange,    \* the addresses of each subnet
          Clients,        \* hardware addresses or client ids
          Expiry,         \* expiration times
          NoLease

Lease == [addr : Addrs, subnet_id : Subnets, client : Clients, expire : Expiry]

ASSUME AddrAssumption == Addrs \subseteq Nat \ {0} /\ IsFiniteSet(Addrs)
ASSUME RangeAssumption == SubnetRange \in [Subnets -> SUBSET Addrs]
ASSUME NoLeaseAssumption == NoLease \notin Lease

VARIABLES
  build,     \* the Kea version the module is built for
  leases,    \* the database: the lease of each address, or NoLease
  cmd,       \* what the running command still has to do
  answer,    \* the response to the last command, until something else happens
  changes,   \* leases the command put in the database or removed, as pairs
  touched    \* addresses other servers changed since the command came in

history == <<changes, touched>>
vars == <<build, leases, cmd, answer, history>>

\* What the Kea version decides.  keamodule/setup.py: whether the module has
\* getLease4 (before 1.9.4), and whether its deleteLease takes an address
\* (before 1.7.4) or a lease.  keahook.py: whether lease4-del passes an address,
\* which it does when the version is less than '1.7.3' as a string.
Builds ==
  LET B(getLease4, takesAddress, passesAddress) ==
        [getLease4 |-> getLease4, takesAddress |-> takesAddress, passesAddress |-> passesAddress]
  IN {B(TRUE, TRUE, TRUE),      \* before 1.7.3
      B(TRUE, TRUE, FALSE),     \* 1.7.3
      B(TRUE, FALSE, FALSE),    \* 1.7.4 to 1.9.3, but for
      B(TRUE, FALSE, TRUE),     \* 1.7.10, a string less than '1.7.3'
      B(FALSE, FALSE, FALSE)}   \* 1.9.4 on; the default is 3.0.0

Idle == [name |-> "idle"]
None == [name |-> "none", result |-> 0]

Stored == {leases[a] : a \in Addrs} \ {NoLease}

\* A command comes in, or goes on from where it was.
Begins == cmd = Idle
\* handle.setArgument('response', r) ends a command.
SetResponse(r) == answer' = r
Respond(r) == cmd' = Idle /\ SetResponse(r)
Fail(name) == Respond([name |-> name, result |-> 1])

-----------------------------------------------------------------------------
(* The lease manager.  Any call may throw; each is atomic.                 *)

Put(a, l) == leases' = [leases EXCEPT ![a] = l]

\* addLease puts a lease at a free address.  It returns false for a taken
\* one, which LeaseMgr_addLease does not look at.
AddLease(l, seen) ==
  IF leases[l.addr] = NoLease
  THEN Put(l.addr, l) /\ changes' = seen \cup {<<NoLease, l>>}
  ELSE UNCHANGED leases /\ changes' = seen

\* updateLease4 throws NoSuchLease when there is nothing to update.
UpdateLease4(l, seen) ==
  /\ leases[l.addr] # NoLease
  /\ Put(l.addr, l)
  /\ changes' = seen \cup {<<leases[l.addr], l>>}

\* Mutation: a lease is given, and deleted by its address all the same.
DeletableUncompared(l) == leases[l.addr] # NoLease

\* What deleteLease deletes: the lease it is given, which may have changed
\* since; or, given an address, whatever lease is there.
Deletable(l) ==
  IF build.takesAddress THEN leases[l.addr] # NoLease ELSE leases[l.addr] = l

DeleteLease(l, seen) ==
  IF Deletable(l)
  THEN Put(l.addr, NoLease) /\ changes' = seen \cup {<<leases[l.addr], NoLease>>}
  ELSE UNCHANGED leases /\ changes' = seen

\* getLease4 with the keywords of get_lease4_kwargs: an address, or an
\* identifier and a subnet.
Asks(q, l) == IF "addr" \in DOMAIN q THEN l.addr = q.addr
              ELSE l.client = q.client /\ l.subnet_id = q.subnet_id

Matches(q) == {l \in Stored : Asks(q, l)}

\* Mutation: a lease is returned only if it is the only one.
GetLease4Single(q) == IF Cardinality(Matches(q)) # 1 THEN {NoLease} ELSE Matches(q)

\* Without getLease4 in the module its use is an AttributeError.
GetLease4(q) == IF Matches(q) = {} THEN {NoLease} ELSE Matches(q)

Queries == [addr : Addrs] \cup [client : Clients, subnet_id : Subnets]

-----------------------------------------------------------------------------
Init ==
  /\ build \in Builds
  /\ leases = [a \in Addrs |-> NoLease]
  /\ cmd = Idle
  /\ answer = None
  /\ changes = {}
  /\ touched = {}

Fresh == touched' = {} /\ UNCHANGED <<build, leases>>

\* Mutation: the subnet found for the address is not stored in the lease.
ParseLease4Unassigned(a, s) == {t \in {s} : \E u \in Subnets : a \in SubnetRange[u] /\ s \in {0, u}}

\* The subnet of a parsed lease: the one asked for, which must be configured
\* and have the address in range, or one that has it; no subnet is an error.
ParseLease4(a, s) == {t \in Subnets : a \in SubnetRange[t] /\ s \in {0, t}}

\* What lease4-add and lease4-update can get out of their parameters.
Parsed == UNION {{[addr |-> a, subnet_id |-> t, client |-> c, expire |-> e] :
                    t \in ParseLease4(a, s)} :
                 a \in Addrs, s \in {0} \cup Subnets, c \in Clients, e \in Expiry}

\* Parameters that are wrong, and a lease manager that throws in its first call.
\* lease4-get-by-hostname never gets further: it looks for 'hostname' in the
\* word "hostname" and not in its parameters.
BadCommand ==
  /\ Begins
  /\ \E name \in {"lease4-add", "lease4-get", "lease4-get-all", "lease4-get-page",
                  "lease4-get-by", "lease4-get-by-hostname", "lease4-del", "lease4-update", "lease4-wipe"} : Fail(name)
  /\ changes' = {}
  /\ Fresh

Lease4Add ==
  /\ Begins
  /\ \E l \in Parsed : /\ AddLease(l, {})
                       /\ Respond([name |-> "lease4-add", result |-> 0, lease |-> l])
  /\ touched' = {}
  /\ UNCHANGED build

Lease4Get ==
  /\ Begins
  /\ build.getLease4
  /\ \E q \in Queries : \E l \in GetLease4(q) :
       Respond([name |-> "lease4-get", result |-> IF l = NoLease THEN 3 ELSE 0,
                leases |-> {l} \ {NoLease}])
  /\ changes' = {}
  /\ Fresh

\* By hardware address or client id: a list.
Lease4GetBy ==
  /\ Begins
  /\ build.getLease4
  /\ \E c \in Clients : LET found == {l \in Stored : l.client = c} IN
       Respond([name |-> "lease4-get-by", result |-> IF found = {} THEN 3 ELSE 0,
                leases |-> found])
  /\ changes' = {}
  /\ Fresh

\* The first "limit" leases above the address "from", 0.0.0.0 for "start".
Lease4GetPage ==
  /\ Begins
  /\ \E from \in {0} \cup Addrs, limit \in 1 .. Cardinality(Addrs) :
       LET above == {l \in Stored : l.addr > from}
           page == {l \in above : Cardinality({k \in above : k.addr < l.addr}) < limit}
       IN Respond([name |-> "lease4-get-page", result |-> IF page = {} THEN 3 ELSE 0,
                   leases |-> page])
  /\ changes' = {}
  /\ Fresh

\* Without arguments one call; with a list of subnets one call for each.
Lease4GetAll ==
  /\ Begins
  /\ \/ Respond([name |-> "lease4-get-all", result |-> IF Stored = {} THEN 3 ELSE 0,
                 subnets |-> Subnets, leases |-> Stored])
     \/ \E S \in SUBSET Subnets :
          /\ cmd' = [name |-> "lease4-get-all", subnets |-> S, todo |-> S, leases |-> {}]
          /\ answer' = None
  /\ changes' = {}
  /\ Fresh

\* Mutation: the list is replaced, not extended.
GetSubnetReplaces ==
  /\ cmd.name = "lease4-get-all"
  /\ \E s \in cmd.todo :
       cmd' = [cmd EXCEPT !.todo = @ \ {s},
                          !.leases = {l \in Stored : l.subnet_id = s}]
  /\ UNCHANGED <<build, leases, answer, history>>

GetSubnet ==
  /\ cmd.name = "lease4-get-all"
  /\ \E s \in cmd.todo :
       cmd' = [cmd EXCEPT !.todo = @ \ {s},
                          !.leases = @ \cup {l \in Stored : l.subnet_id = s}]
  /\ UNCHANGED <<build, leases, answer, history>>

GotAll ==
  /\ cmd.name = "lease4-get-all"
  /\ cmd.todo = {}
  /\ Respond([name |-> "lease4-get-all", result |-> IF cmd.leases = {} THEN 3 ELSE 0,
              subnets |-> cmd.subnets, leases |-> cmd.leases])
  /\ UNCHANGED <<build, leases, history>>

\* lease4-del looks the lease up ...
Lease4Del ==
  /\ Begins
  /\ \E q \in Queries :
       IF ~build.getLease4
       THEN Respond([name |-> "lease4-del", result |-> 1, query |-> q])
       ELSE \E l \in GetLease4(q) :
              IF l = NoLease
              THEN Respond([name |-> "lease4-del", result |-> 1, query |-> q])
              ELSE /\ cmd' = [name |-> "lease4-del", lease |-> l, query |-> q]
                   /\ answer' = None
  /\ changes' = {}
  /\ Fresh

\* Mutation: the result of deleteLease is taken the wrong way round.
DeleteFoundInverted ==
  /\ cmd.name = "lease4-del"
  /\ DeleteLease(cmd.lease, changes)
  /\ Respond([name |-> "lease4-del", query |-> cmd.query, lease |-> cmd.lease,
              result |-> IF Deletable(cmd.lease) THEN 3 ELSE 0])
  /\ UNCHANGED <<build, touched>>

\* ... and deletes it.  deleteLease given a lease for an address, or the other
\* way round, is a TypeError.
DeleteFound ==
  /\ cmd.name = "lease4-del"
  /\ IF build.passesAddress # build.takesAddress
     THEN /\ Respond([name |-> "lease4-del", result |-> 1, query |-> cmd.query])
          /\ UNCHANGED <<leases, changes>>
     ELSE /\ DeleteLease(cmd.lease, changes)
          /\ Respond([name |-> "lease4-del", query |-> cmd.query, lease |-> cmd.lease,
                      result |-> IF Deletable(cmd.lease) THEN 0 ELSE 3])
  /\ UNCHANGED <<build, touched>>

\* lease4-update looks with "force-create" whether the lease is there ...
Lease4Update ==
  /\ Begins
  /\ \E l \in Parsed, force_create \in BOOLEAN :
       IF force_create /\ ~build.getLease4
       THEN Fail("lease4-update")
       ELSE /\ cmd' = [name |-> "lease4-update", lease |-> l,
                       add |-> force_create /\ leases[l.addr] = NoLease]
            /\ answer' = None
  /\ changes' = {}
  /\ Fresh

\* ... and adds or updates it.
Update ==
  /\ cmd.name = "lease4-update"
  /\ IF cmd.add THEN AddLease(cmd.lease, changes)
                ELSE UpdateLease4(cmd.lease, changes)
  /\ Respond([name |-> "lease4-update", result |-> 0, add |-> cmd.add,
              lease |-> cmd.lease])
  /\ UNCHANGED <<build, touched>>

NoSuchLease ==
  /\ cmd.name = "lease4-update"
  /\ ~cmd.add /\ leases[cmd.lease.addr] = NoLease
  /\ Fail("lease4-update")
  /\ UNCHANGED <<build, leases, history>>

\* lease4-wipe, of one subnet or of every configured one.
Lease4Wipe ==
  /\ Begins
  /\ \E S \in {Subnets} \cup {{s} : s \in Subnets} :
       cmd' = [name |-> "lease4-wipe", subnets |-> S, todo |-> S, num |-> 0]
  /\ answer' = None
  /\ changes' = {}
  /\ Fresh

\* Mutation: the number of the last subnet is reported.
WipeSubnetLast ==
  /\ cmd.name = "lease4-wipe"
  /\ \E s \in cmd.todo :
       LET gone == {l \in Stored : l.subnet_id = s} IN
         /\ leases' = [a \in Addrs |-> IF leases[a] \in gone THEN NoLease ELSE leases[a]]
         /\ changes' = changes \cup {<<l, NoLease>> : l \in gone}
         /\ cmd' = [cmd EXCEPT !.todo = @ \ {s}, !.num = Cardinality(gone)]
  /\ UNCHANGED <<build, answer, touched>>

WipeSubnet ==
  /\ cmd.name = "lease4-wipe"
  /\ \E s \in cmd.todo :
       LET gone == {l \in Stored : l.subnet_id = s} IN
         /\ leases' = [a \in Addrs |-> IF leases[a] \in gone THEN NoLease ELSE leases[a]]
         /\ changes' = changes \cup {<<l, NoLease>> : l \in gone}
         /\ cmd' = [cmd EXCEPT !.todo = @ \ {s}, !.num = @ + Cardinality(gone)]
  /\ UNCHANGED <<build, answer, touched>>

Wiped ==
  /\ cmd.name = "lease4-wipe"
  /\ cmd.todo = {}
  /\ Respond([name |-> "lease4-wipe", result |-> IF cmd.num = 0 THEN 3 ELSE 0,
              subnets |-> cmd.subnets, num |-> cmd.num])
  /\ UNCHANGED <<build, leases, history>>

\* The lease manager throws in a later call.
Throws ==
  /\ cmd # Idle
  /\ Fail(cmd.name)
  /\ UNCHANGED <<build, leases, history>>

\* Another server; Kea itself too, between two commands, when the last answer
\* and what belongs to it are history.
Others ==
  /\ \E a \in Addrs, l \in Lease \cup {NoLease} :
       /\ l # leases[a]
       /\ l # NoLease => l.addr = a /\ a \in SubnetRange[l.subnet_id]
       /\ Put(a, l)
       /\ touched' = IF cmd = Idle THEN {} ELSE touched \cup {a}
  /\ changes' = IF cmd = Idle THEN {} ELSE changes
  /\ answer' = None
  /\ UNCHANGED <<build, cmd>>

Next ==
  \/ BadCommand \/ Throws \/ Others
  \/ Lease4Add \/ Lease4Get \/ Lease4GetBy \/ Lease4GetPage
  \/ Lease4GetAll \/ GetSubnet \/ GotAll
  \/ Lease4Del \/ DeleteFound
  \/ Lease4Update \/ Update \/ NoSuchLease
  \/ Lease4Wipe \/ WipeSubnet \/ Wiped

Spec == Init /\ [][Next]_vars

-----------------------------------------------------------------------------
Commands ==
  {Idle}
  \cup [name : {"lease4-get-all"}, subnets : SUBSET Subnets, todo : SUBSET Subnets,
        leases : SUBSET Lease]
  \cup [name : {"lease4-del"}, lease : Lease, query : Queries]
  \cup [name : {"lease4-update"}, lease : Lease, add : BOOLEAN]
  \cup [name : {"lease4-wipe"}, subnets : SUBSET Subnets, todo : SUBSET Subnets, num : Nat]

\* Every variable holds a value of its type; the database holds leases under
\* their own addresses only.
TypeOK ==
  /\ build \in Builds
  /\ leases \in [Addrs -> Lease \cup {NoLease}]
  /\ \A a \in Addrs : leases[a] # NoLease => leases[a].addr = a
  /\ cmd \in Commands
  /\ answer.result \in {0, 1, 3}
  /\ changes \subseteq (Lease \cup {NoLease}) \X (Lease \cup {NoLease})
  /\ touched \subseteq Addrs

\* The answer to command n is out and was result r.
Answered(n, r) == cmd = Idle /\ answer.name = n /\ answer.result = r

\* A command that does not answer 0 has changed nothing, but for a wipe that
\* was cut short.
FailureChangesNothing ==
  cmd = Idle /\ answer.name # "lease4-wipe" /\ answer.result # 0 => changes = {}

\* lease4-del that answers 0 removed one lease and nothing else: the lease it
\* had found, which is one that was asked for, and not the one another server
\* put at the address in the meantime.  Only a module whose deleteLease takes an
\* address removes that one.  lease4-update that answers "updated" replaced the
\* lease of that address.
ChangesWhatItSays ==
  /\ Answered("lease4-del", 0) =>
       /\ Asks(answer.query, answer.lease)
       /\ \E gone \in Lease :
            /\ changes = {<<gone, NoLease>>}
            /\ \/ gone = answer.lease
               \/ build.takesAddress /\ gone.addr = answer.lease.addr /\ gone.addr \in touched
  /\ Answered("lease4-update", 0) /\ ~answer.add =>
       \E old \in Lease : old.addr = answer.lease.addr /\ changes = {<<old, answer.lease>>}

\* lease4-wipe reports the leases it removed, all of the subnets it names, and
\* leaves none there but those that other servers granted since.  One that an
\* exception cut short, which reports no number, has removed whole subnets.
WipeReported ==
  cmd = Idle /\ answer.name = "lease4-wipe" =>
    /\ \A ch \in changes :
         /\ ch[2] = NoLease
         /\ \A l \in Stored : l.subnet_id = ch[1].subnet_id => l.addr \in touched
    /\ answer.result # 1 =>
         /\ answer.num = Cardinality(changes)
         /\ answer.result = 0 <=> changes # {}
         /\ \A ch \in changes : ch[1].subnet_id \in answer.subnets
         /\ \A l \in Stored : l.subnet_id \in answer.subnets => l.addr \in touched

\* Leases that no other server touched during lease4-get-all are reported as
\* they are, all of them, one call after the other or not.
GetAllComplete ==
  cmd = Idle /\ answer.name = "lease4-get-all" /\ answer.result # 1 =>
    \A a \in Addrs \ touched :
      {l \in answer.leases : l.addr = a}
        = {l \in Stored : l.addr = a /\ l.subnet_id \in answer.subnets}

\* The builds in which lease4-del can delete: the module has getLease4, and its
\* deleteLease takes what the command passes.
CanDelete == build.getLease4 /\ build.takesAddress = build.passesAddress

\* Whether lease4-del with good parameters removes a lease that is there
\* (test_lease_cmds.py:675-692), when no call throws: before 1.7.3 and from 1.7.4
\* to 1.9.3, without 1.7.10, it does, unless another server changed that very
\* lease after it was found; in all other versions, the default one among them,
\* it never does.  A lease that is not there is answered 1; the test expects 3
\* (:693-699).
DeletesPresent ==
  cmd = Idle /\ answer.name = "lease4-del" /\ "query" \in DOMAIN answer =>
    IF CanDelete
    THEN /\ answer.result = 1 => Matches(answer.query) = {}
         /\ answer.result = 3 => answer.lease.addr \in touched
    ELSE answer.result = 1 /\ changes = {}

\* "lease for address %s, subnet-id %s added" and "IPv4 lease added"
\* (keahook.py:197 and :299) are said of leases that were added.
AddedIsStored ==
  cmd = Idle /\ answer.result = 0
  /\ (answer.name = "lease4-add" \/ (answer.name = "lease4-update" /\ answer.add)) =>
    changes = {<<NoLease, answer.lease>>}
=============================================================================
