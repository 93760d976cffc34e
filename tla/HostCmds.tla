------------------------------- MODULE HostCmds -------------------------------
(***************************************************************************)
(* The reservation commands of examples/host-cmds/keahook.py on kea.HostMgr *)
(* (keamodule/host_mgr.cc), for the hosts of one subnet.  They come from   *)
(* the configuration file, source 0, and from host databases.  A client    *)
(* reads them page by page: every response says where the next page        *)
(* begins, and between two pages commands and other servers add and delete *)
(* hosts.                                                                  *)
(***************************************************************************)
EXTENDS Naturals

CONSTANTS Sources,   \* how many host databases there are
          Ids        \* host ids

ASSUME SourcesAssumption == Sources \in Nat
ASSUME IdsAssumption == Ids \subseteq Nat \ {0}

VARIABLES
  hosts,    \* the host ids in each source
  next,     \* source-index and from of the client's next request
  reading,  \* the client has not seen the last page yet
  page,     \* the page it got last
  seen,     \* the hosts of the pages before
  steady    \* hosts that were there ever since the client began

vars == <<hosts, next, reading, page, seen, steady>>

Start == [source_index |-> 0, from |-> 0]

Present == UNION {{<<k, h>> : h \in hosts[k]} : k \in 0 .. Sources}

Init ==
  /\ hosts \in [0 .. Sources -> SUBSET Ids]
  /\ next = Start
  /\ reading = TRUE
  /\ page = {}
  /\ seen = {}
  /\ steady = Present

-----------------------------------------------------------------------------
\* What HostMgr::getPage4 looks for in source k: hosts above "from" in the
\* source asked for, all of them in the ones after it.
Above(k) == {h \in hosts[k] : k = next.source_index => h > next.from}

\* The source the next page comes from.
First(k) ==
  /\ k \in next.source_index .. Sources
  /\ Above(k) # {}
  /\ \A j \in next.source_index .. k - 1 : Above(j) = {}

Turn(p) == page' = p /\ seen' = seen \cup page

\* Mutation: "from" is where the next page begins, not the last host.
GetPageAfterLast ==
  /\ reading
  /\ \E k \in 0 .. Sources : \E last \in Above(k) :
       /\ First(k)
       /\ Turn({<<k, h>> : h \in {g \in Above(k) : g <= last}})
       /\ next' = [source_index |-> k, from |-> last + 1]
  /\ UNCHANGED <<hosts, reading, steady>>

\* Mutation: "from" is left to the client, who repeats what it sent.
GetPageSameFrom ==
  /\ reading
  /\ \E k \in 0 .. Sources : \E last \in Above(k) :
       /\ First(k)
       /\ Turn({<<k, h>> : h \in {g \in Above(k) : g <= last}})
       /\ next' = [next EXCEPT !.source_index = k]
  /\ UNCHANGED <<hosts, reading, steady>>

\* Mutation: a page stops before the host its "from" names.
GetPageShort ==
  /\ reading
  /\ \E k \in 0 .. Sources : \E last \in Above(k) :
       /\ First(k)
       /\ Turn({<<k, h>> : h \in {g \in Above(k) : g < last}})
       /\ next' = [source_index |-> k, from |-> last]
  /\ UNCHANGED <<hosts, reading, steady>>

\* reservation-get-page with any limit: the hosts up to the last one of the
\* page, whose id and source the response gives as "next".
GetPage ==
  /\ reading
  /\ \E k \in 0 .. Sources : \E last \in Above(k) :
       /\ First(k)
       /\ Turn({<<k, h>> : h \in {g \in Above(k) : g <= last}})
       /\ next' = [source_index |-> k, from |-> last]
  /\ UNCHANGED <<hosts, reading, steady>>

\* No source has anything left: result 3, and no "next".
GetLastPage ==
  /\ reading
  /\ \A k \in next.source_index .. Sources : Above(k) = {}
  /\ Turn({})
  /\ reading' = FALSE
  /\ UNCHANGED <<hosts, next, steady>>

\* The client reads everything again.
Restart ==
  /\ ~reading
  /\ next' = Start
  /\ reading' = TRUE
  /\ page' = {}
  /\ seen' = {}
  /\ steady' = Present
  /\ UNCHANGED hosts

\* HostMgr::add puts a host in a database, under an id that is free there.
Put(k, h) ==
  /\ k \in 1 .. Sources /\ h \notin hosts[k]
  /\ hosts' = [hosts EXCEPT ![k] = @ \cup {h}]

\* reservation-add, or another server.
Add ==
  /\ \E k \in 1 .. Sources, h \in Ids : Put(k, h)
  /\ UNCHANGED <<next, reading, page, seen, steady>>

\* reservation-del, or another server; hosts in the configuration stay.
Delete ==
  /\ \E k \in 1 .. Sources : \E h \in hosts[k] :
       /\ hosts' = [hosts EXCEPT ![k] = @ \ {h}]
       /\ steady' = steady \ {<<k, h>>}
  /\ UNCHANGED <<next, reading, page, seen>>

Next == GetPage \/ GetLastPage \/ Restart \/ Add \/ Delete

\* The client asks for the next page until there is none.
Spec == Init /\ [][Next]_vars /\ WF_vars(GetPage \/ GetLastPage)

-----------------------------------------------------------------------------
Hosts == (0 .. Sources) \X Ids

\* Every variable holds a value of its type, and the position of the next
\* page is the start or a host that was delivered.
TypeOK ==
  /\ hosts \in [0 .. Sources -> SUBSET Ids]
  /\ next \in [source_index : 0 .. Sources, from : Ids \cup {0}]
  /\ next = Start \/ <<next.source_index, next.from>> \in seen \cup page
  /\ reading \in BOOLEAN
  /\ page \subseteq Hosts
  /\ seen \subseteq Hosts
  /\ steady \subseteq Present

\* A client that has read to the end has seen every host that was there all
\* the time, in whichever source, whatever was added and deleted meanwhile.
PagesComplete == ~reading => steady \subseteq seen

\* No host is delivered twice.
PagesOnce == page \cap seen = {}

\* Reading comes to an end while hosts come and go: every page moves the
\* position, and the ids are finitely many.
PagingEnds == reading ~> ~reading
=============================================================================
