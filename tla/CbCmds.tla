-------------------------------- MODULE CbCmds --------------------------------
(***************************************************************************)
(* The configuration backend commands of examples/cb-cmds/keahook.py on    *)
(* kea.ConfigBackendPoolDHCPv4 (keamodule/config_backend_pool_dhcp4.cc).   *)
(* Servers, subnets and client classes are written, read and deleted one   *)
(* pool call at a time; the database behind the pool is shared, and any    *)
(* call may throw.  Commands on one kind of object never touch another, so *)
(* a behaviour is about one kind, chosen at the start.                     *)
(***************************************************************************)
EXTENDS Naturals, Sequences, FiniteSets

CONSTANTS Names,      \* subnet ids, class names or server tags of objects
          Values,     \* what an object can say
          Servers,    \* the tags of servers
          TagLists,   \* the "server-tags" of requests
          MaxElems    \* bound on the list in a request

CONSTANTS None,       \* no object
          Malformed   \* list element without a key or refused by the parser

Selectors == Servers \cup {"all", "any", "unassigned"}

ASSUME TagListsAssumption == TagLists \subseteq Seq(Selectors \cup {Malformed})
ASSUME BoundAssumption == MaxElems \in Nat
ASSUME NoneAssumption == None \notin [value : Values, tag : Selectors]

VARIABLES
  kind,   \* the kind of object commands are about
  db,     \* the objects in the database
  op      \* the command and what it did so far

vars == <<kind, db, op>>

Kinds == {"server4", "subnet4", "class4"}

Elements == [name : Names, value : Values] \cup {Malformed}

Requests == UNION {[1 .. n -> Elements] : n \in 0 .. MaxElems}

\* make_selector, then parse_server_selector: the string of a list of one
\* selects.  Any other list is refused, the empty one by MULTIPLE and a longer
\* one because the list is converted where its element should be.
Selected(tags) == IF Len(tags) = 1 /\ tags[1] # Malformed THEN {tags[1]} ELSE {}

\* The database writes for one server, or for all of them.
Writable(tags) == Selected(tags) # {} /\ Selected(tags) \cap {"any", "unassigned"} = {}

Owner(tags) == CHOOSE t \in Selected(tags) : TRUE

Owners == {Owner(tags) : tags \in {t \in TagLists : Writable(t)}}

\* A stored object and whose it is; a server has no tags.
Objects == [value : Values, tag : IF kind = "server4" THEN {"all"} ELSE Owners]

\* The commands load() registers for each kind; remote-server4-del is not one.
Commands(k) == IF k = "server4" THEN {"set", "list"} ELSE {"set", "get", "del", "list"}

Idle == [cmd |-> "set", elems |-> <<>>, tags |-> <<>>, phase |-> "done",
         at |-> 1, count |-> 0, got |-> <<>>, result |-> 1,
         before |-> None]

Init ==
  /\ kind \in Kinds
  /\ db \in [Names -> Objects \cup {None}]
  /\ op = Idle

-----------------------------------------------------------------------------
Elem == op.elems[op.at]

More == op.at <= Len(op.elems)

Well(n) == \A i \in 1 .. n : op.elems[i] # Malformed

AllParse == kind = "subnet4" /\ op.cmd = "set" => Well(Len(op.elems))

Fail == op' = [op EXCEPT !.phase = "done", !.result = 1]

FailChangingNothing == Fail /\ UNCHANGED <<kind, db>>

Tag == IF kind = "server4" THEN "all" ELSE Owner(op.tags)

\* createUpdateServer4, createUpdateSubnet4 and createUpdateClientClass4.
Write(e) == db' = [db EXCEPT ![e.name] = [value |-> e.value, tag |-> Tag]]

Refuses == kind # "server4" /\ ~Writable(op.tags)

-----------------------------------------------------------------------------
\* A command is read.  A missing or mistyped argument answers 1 at once.
Receive ==
  /\ op.phase = "done"
  /\ \E c \in Commands(kind), elems \in Requests, tags \in TagLists :
       /\ c = "list" => elems = <<>>
       /\ c \in {"get", "del"} \/ kind = "server4" => tags = <<>>
       /\ op' = [Idle EXCEPT !.cmd = c, !.elems = elems, !.tags = tags, !.phase = "parse",
                             !.before = db]
  /\ UNCHANGED <<kind, db>>

BadCommand ==
  /\ op.phase = "parse"
  /\ FailChangingNothing

\* Mutation: subnets are parsed one at a time, as they are written.
ParseNothing ==
  /\ op.phase = "parse"
  /\ op' = [op EXCEPT !.phase = "run"]
  /\ UNCHANGED <<kind, db>>

\* remote-subnet4-set parses every subnet before the first is written.
ParseSubnets ==
  /\ op.phase = "parse"
  /\ \/ AllParse /\ op' = [op EXCEPT !.phase = "run"]
     \/ ~AllParse /\ Fail
  /\ UNCHANGED <<kind, db>>

Running(c) == op.phase = "run" /\ op.cmd = c /\ More

\* An element that does not parse, or tags that do not select, end the command.
SetRefused ==
  /\ Running("set")
  /\ Elem = Malformed \/ Refuses
  /\ FailChangingNothing

\* One object is created or updated, for classes right after it was parsed.
SetOne ==
  /\ Running("set")
  /\ Elem # Malformed /\ ~Refuses
  /\ Write(Elem)
  /\ op' = [op EXCEPT !.at = @ + 1]
  /\ UNCHANGED kind

\* Mutation: the answer repeats the objects of the request.
SetDoneEchoes ==
  /\ op.phase = "run" /\ op.cmd = "set" /\ ~More
  /\ op' = [op EXCEPT !.phase = "done", !.result = 0, !.got = op.elems]
  /\ UNCHANGED <<kind, db>>

\* All are written: remote-subnet4-set goes on to read them back.
SetDone ==
  /\ op.phase = "run" /\ op.cmd = "set" /\ ~More
  /\ op' = IF kind = "subnet4" THEN [op EXCEPT !.phase = "read", !.at = 1]
           ELSE [op EXCEPT !.phase = "done", !.result = 0]
  /\ UNCHANGED <<kind, db>>

Found(n) == IF db[n] = None THEN <<>> ELSE <<[name |-> n, value |-> db[n].value]>>

\* One subnet is read back, for any server.
ReadBack ==
  /\ op.phase = "read" /\ More
  /\ op' = [op EXCEPT !.at = @ + 1, !.got = @ \o Found(Elem.name)]
  /\ UNCHANGED <<kind, db>>

\* remote-subnet4-get-by-id and remote-class4-get.
GetOne ==
  /\ Running("get")
  /\ IF Elem = Malformed THEN Fail
     ELSE op' = [op EXCEPT !.at = @ + 1, !.got = @ \o Found(Elem.name)]
  /\ UNCHANGED <<kind, db>>

\* Mutation: the rows that tie an object to its server count too.
DeleteOneRows ==
  /\ Running("del")
  /\ IF Elem = Malformed THEN FailChangingNothing
     ELSE /\ db' = [db EXCEPT ![Elem.name] = None]
          /\ op' = [op EXCEPT !.at = @ + 1,
                              !.count = IF db[Elem.name] = None THEN @ ELSE @ + 2]
          /\ UNCHANGED kind

\* Mutation: every element counts as deleted.
DeleteOneCounts ==
  /\ Running("del")
  /\ IF Elem = Malformed THEN FailChangingNothing
     ELSE /\ db' = [db EXCEPT ![Elem.name] = None]
          /\ op' = [op EXCEPT !.at = @ + 1, !.count = @ + 1]
          /\ UNCHANGED kind

\* remote-subnet4-del-by-id and remote-class4-del, from any server: the pool
\* returns how many rows were deleted.
DeleteOne ==
  /\ Running("del")
  /\ IF Elem = Malformed THEN FailChangingNothing
     ELSE /\ db' = [db EXCEPT ![Elem.name] = None]
          /\ op' = [op EXCEPT !.at = @ + 1,
                              !.count = IF db[Elem.name] = None THEN @ ELSE @ + 1]
          /\ UNCHANGED kind

\* The loop of get or del is through.
LoopDone ==
  /\ op.phase = "read" \/ (op.phase = "run" /\ op.cmd \in {"get", "del"})
  /\ ~More
  /\ op' = [op EXCEPT !.phase = "done", !.result = 0]
  /\ UNCHANGED <<kind, db>>

\* getAllSubnets4, getAllClientClasses4 and getAllServers4 are one call.
List ==
  /\ op.phase = "run" /\ op.cmd = "list"
  /\ IF kind # "server4" /\ Selected(op.tags) = {} THEN Fail
     ELSE op' = [op EXCEPT !.phase = "done", !.result = 0]
  /\ UNCHANGED <<kind, db>>

\* A pool call throws: an unknown backend, no such database, an unknown
\* server, or the database itself.
Throws ==
  /\ op.phase \in {"run", "read"}
  /\ op.cmd = "list" \/ More
  /\ op' = [op EXCEPT !.phase = "done", !.result = 1]
  /\ UNCHANGED <<kind, db>>

\* Another server, or another hook, on the same database.
Others ==
  /\ op.phase \in {"run", "read"}
  /\ \E n \in Names, o \in Objects \cup {None} : o # db[n] /\ db' = [db EXCEPT ![n] = o]
  /\ op' = [op EXCEPT !.before = None]
  /\ UNCHANGED kind

Next ==
  \/ Receive \/ BadCommand \/ ParseSubnets \/ SetRefused \/ SetOne \/ SetDone
  \/ ReadBack \/ GetOne \/ DeleteOne \/ LoopDone \/ List \/ Throws \/ Others

Spec == Init /\ [][Next]_vars

-----------------------------------------------------------------------------
Database == [Names -> Objects \cup {None}]

Operation == [cmd : {"set", "get", "del", "list"}, elems : Requests,
              tags : TagLists \cup {<<>>}, phase : {"parse", "run", "read", "done"},
              at : Nat \ {0}, count : Nat, got : Seq([name : Names, value : Values]),
              result : {0, 1}, before : Database \cup {None}]

\* Every variable holds a value of its type, and a command counts no more
\* objects than it got to.
TypeOK ==
  /\ kind \in Kinds
  /\ db \in Database
  /\ op \in Operation
  /\ op.at <= Len(op.elems) + 1 /\ op.count < op.at

\* The command is answered and nobody else wrote meanwhile.
Alone(c) == op.phase = "done" /\ op.cmd = c /\ op.before # None

\* A database after the first n elements were written, the last one of a name
\* standing.
Written(before, elems, tag, n) ==
  LET of(x) == {i \in 1 .. n : elems[i].name = x}
      last(x) == CHOOSE i \in of(x) : \A j \in of(x) : j <= i
  IN [x \in Names |-> IF of(x) = {} THEN before[x]
                     ELSE [value |-> elems[last(x)].value, tag |-> tag]]

Applied(n) == Written(op.before, op.elems, Tag, n)

\* A set command has written, in the order it was given them, every object
\* when it answers success, and when it fails the objects before the one it
\* failed on and none after it; a subnet that does not parse keeps every other
\* one of its request out.
SetWritesPrefix ==
  Alone("set") =>
    \E n \in 0 .. Len(op.elems) :
      /\ Well(n) /\ db = Applied(n)
      /\ op.result = 0 => n = Len(op.elems)
      /\ kind = "subnet4" /\ n > 0 => Well(Len(op.elems))

\* remote-subnet4-set answers with what is stored: for a subnet named twice
\* the later definition both times.
AnswersWhatIsStored ==
  Alone("set") /\ kind = "subnet4" /\ op.result = 0 =>
    op.got = [i \in 1 .. Len(op.elems) |->
                [name |-> op.elems[i].name, value |-> db[op.elems[i].name].value]]

\* The count of a del command is the number of objects that are gone by it.
DeleteCountsGone ==
  Alone("del") /\ op.result = 0 =>
    op.count = Cardinality({x \in Names : op.before[x] # None /\ db[x] = None})
=============================================================================
