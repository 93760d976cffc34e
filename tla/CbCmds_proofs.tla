----------------------------- MODULE CbCmds_proofs -----------------------------
(***************************************************************************)
(* For every list of objects in a request, any server tags and whatever    *)
(* call throws: a set command writes a prefix of its list, in order, and   *)
(* answers with what is stored, and a del command counts what is gone.     *)
(***************************************************************************)
EXTENDS CbCmds, FiniteSetTheorems, SequenceTheorems, TLAPS

\* A command that has not begun has changed nothing.
Unbegun ==
  op.phase = "parse" => op.at = 1 /\ op.count = 0 /\ op.got = <<>> /\ op.before = db

\* Only remote-subnet4-set reads back, when all its subnets are parsed.
ReadingBack == op.phase = "read" => op.cmd = "set" /\ kind = "subnet4"

\* A set command is somewhere in its list: the elements before it are in the
\* database, nothing after them.
WrittenSoFar ==
  op.phase = "run" /\ op.cmd = "set" =>
    /\ op.got = <<>> /\ op.count = 0
    /\ kind = "subnet4" => Well(Len(op.elems))
    /\ \E n \in 0 .. Len(op.elems) :
         /\ op.at = n + 1 /\ Well(n)
         /\ op.before # None => /\ db = Applied(n)
                                /\ \A i \in 1 .. n : db[op.elems[i].name] # None

Stored(i) == [name |-> op.elems[i].name, value |-> db[op.elems[i].name].value]

\* What was read back is what is there.
ReadSoFar ==
  op.phase = "read" =>
    /\ Well(Len(op.elems))
    /\ op.before # None => /\ db = Applied(Len(op.elems))
                           /\ \A i \in 1 .. Len(op.elems) : db[op.elems[i].name] # None
                           /\ Len(op.got) = op.at - 1
                           /\ \A i \in 1 .. op.at - 1 : op.got[i] = Stored(i)

Gone == {x \in Names : op.before[x] # None /\ db[x] = None}

\* A del command has counted the objects that are gone, and changed no other.
DeletedSoFar ==
  op.phase = "run" /\ op.cmd = "del" /\ op.before # None =>
    /\ \A x \in Names : db[x] \in {op.before[x], None}
    /\ IsFiniteSet(Gone) /\ op.count = Cardinality(Gone)

Answers == SetWritesPrefix /\ AnswersWhatIsStored /\ DeleteCountsGone

IInv == /\ TypeOK
        /\ Unbegun
        /\ ReadingBack
        /\ WrittenSoFar
        /\ ReadSoFar
        /\ DeletedSoFar
        /\ Answers
-----------------------------------------------------------------------------
(* The operators.                                                          *)

\* What CHOOSE picks as the last of a set of positions.
LEMMA LastOf ==
  ASSUME NEW S \in SUBSET Nat, NEW m \in S, \A j \in S : j <= m
  PROVE  (CHOOSE i \in S : \A j \in S : j <= i) = m
<1> DEFINE c == CHOOSE i \in S : \A j \in S : j <= i
<1>1. c \in S /\ \A j \in S : j <= c
  OBVIOUS
<1> HIDE DEF c
<1>2. c = m
  BY <1>1
<1> QED
  BY <1>2 DEF c

\* Before the first element is written nothing is.
LEMMA WrittenNone ==
  ASSUME NEW before, NEW R, before \in [Names -> R], NEW elems, NEW tag
  PROVE  Written(before, elems, tag, 0) = before
BY DEF Written

\* One more element overwrites what has its name and nothing else.
LEMMA WrittenOne ==
  ASSUME NEW before, NEW elems, NEW tag, NEW n \in Nat, elems[n + 1].name \in Names
  PROVE  Written(before, elems, tag, n + 1)
           = [Written(before, elems, tag, n) EXCEPT
                ![elems[n + 1].name] = [value |-> elems[n + 1].value, tag |-> tag]]
<1> DEFINE of(k, x) == {i \in 1 .. k : elems[i].name = x}
           last(k, x) == CHOOSE i \in of(k, x) : \A j \in of(k, x) : j <= i
           new == elems[n + 1].name
           stored(k, x) == IF of(k, x) = {} THEN before[x]
                           ELSE [value |-> elems[last(k, x)].value, tag |-> tag]
<1>1. \A k : Written(before, elems, tag, k) = [x \in Names |-> stored(k, x)]
  BY DEF Written
<1>2. of(n + 1, new) # {} /\ last(n + 1, new) = n + 1
  <2> DEFINE S == of(n + 1, new)
  <2>1. S \in SUBSET Nat /\ n + 1 \in S /\ \A j \in S : j <= n + 1
    OBVIOUS
  <2> HIDE DEF S
  <2>2. (CHOOSE i \in S : \A j \in S : j <= i) = n + 1
    BY <2>1, LastOf
  <2> QED
    BY <2>1, <2>2 DEF S
<1>3. stored(n + 1, new) = [value |-> elems[n + 1].value, tag |-> tag]
  <2> HIDE DEF last, of
  <2> QED
    BY <1>2
<1>4. ASSUME NEW x \in Names, x # new
      PROVE  stored(n + 1, x) = stored(n, x)
  <2>1. of(n + 1, x) = of(n, x)
    BY <1>4
  <2>2. last(n + 1, x) = last(n, x)
    BY <2>1
  <2> HIDE DEF last, of
  <2> QED
    BY <2>1, <2>2
<1> HIDE DEF stored, new
<1>5. [x \in Names |-> stored(n + 1, x)]
        = [[x \in Names |-> stored(n, x)] EXCEPT ![new] = stored(n + 1, new)]
  BY <1>4
<1> QED
  BY <1>1, <1>3, <1>5 DEF new

\* The list in a request is a sequence of elements.
LEMMA RequestIsSeq ==
  ASSUME NEW elems \in Requests
  PROVE  /\ elems \in Seq(Elements) /\ Len(elems) \in Nat
         /\ \A i \in 1 .. Len(elems) :
              elems[i] # Malformed => /\ elems[i] \in [name : Names, value : Values]
                                      /\ elems[i].name \in Names /\ elems[i].value \in Values
<1>1. PICK n \in 0 .. MaxElems : elems \in [1 .. n -> Elements]
  BY DEF Requests
<1>2. n \in Nat
  BY BoundAssumption
<1>3. elems \in Seq(Elements) /\ Len(elems) = n
  BY <1>1, <1>2
<1> QED
  BY <1>2, <1>3 DEF Elements

\* The types of objects and operations are those of the kind.
LEMMA SameKind ==
  ASSUME kind' = kind
  PROVE  Objects' = Objects /\ Database' = Database /\ Operation' = Operation
<1>1. Objects' = Objects
  BY DEF Objects
<1>2. Database' = Database
  BY <1>1 DEF Database
<1> QED
  BY <1>1, <1>2 DEF Operation

\* An object that a command writes has an owner, and is not None.
LEMMA TagIsOwner ==
  ASSUME TypeOK, kind # "server4" => Writable(op.tags), NEW v \in Values
  PROVE  [value |-> v, tag |-> Tag] \in Objects
<1>1. CASE kind = "server4"
  BY <1>1 DEF Tag, Objects
<1>2. CASE kind # "server4"
  <2>1. op.tags \in TagLists \cup {<<>>}
    BY DEF TypeOK, Operation
  <2>2. op.tags # <<>>
    BY <1>2 DEF Writable, Selected
  <2>3. Owner(op.tags) \in Owners
    BY <1>2, <2>1, <2>2 DEF Owners
  <2> QED
    BY <1>2, <2>3 DEF Tag, Objects
<1> QED
  BY <1>1, <1>2

\* None is no object.
LEMMA NoneIsNoObject == None \notin Objects
<1>1. Owners \subseteq Selectors
  <2> SUFFICES ASSUME NEW t \in TagLists, Writable(t)
               PROVE  Owner(t) \in Selectors
    BY DEF Owners
  <2>1. Selected(t) # {} /\ Selected(t) \subseteq Selectors
    BY TagListsAssumption DEF Writable, Selected
  <2>2. Owner(t) \in Selected(t)
    BY <2>1 DEF Owner
  <2> QED
    BY <2>1, <2>2
<1>2. "all" \in Selectors
  BY DEF Selectors
<1> QED
  BY <1>1, <1>2, NoneAssumption DEF Objects

-----------------------------------------------------------------------------
(* When a command is answered, and while it runs.                          *)

\* Between two commands only the answer is at stake.
LEMMA DoneIInv ==
  ASSUME TypeOK', op'.phase = "done", Answers'
  PROVE  IInv'
BY DEF IInv, Unbegun, ReadingBack, WrittenSoFar, ReadSoFar, DeletedSoFar

\* During a command there is no answer yet.
LEMMA RunningAnswers ==
  ASSUME op'.phase # "done"
  PROVE  Answers'
BY DEF Answers, SetWritesPrefix, AnswersWhatIsStored, DeleteCountsGone, Alone

\* Commands that neither set nor delete answer nothing that is at stake.
LEMMA OtherAnswers ==
  ASSUME op'.cmd \notin {"set", "del"}
  PROVE  Answers'
BY DEF Answers, SetWritesPrefix, AnswersWhatIsStored, DeleteCountsGone, Alone

\* A command that fails at any point: a set command leaves the elements it
\* had got to written.
LEMMA FailIInv ==
  ASSUME IInv, op.phase # "done", op' = [op EXCEPT !.phase = "done", !.result = 1],
         db' = db, kind' = kind
  PROVE  IInv'
<1>1. op \in Operation /\ op.at <= Len(op.elems) + 1 /\ op.count < op.at
      /\ op.elems \in Requests
  BY DEF IInv, TypeOK, Operation
<1>2. /\ op'.phase = "done" /\ op'.result = 1 /\ op'.cmd = op.cmd
      /\ op'.elems = op.elems /\ op'.tags = op.tags /\ op'.before = op.before
      /\ op'.at = op.at /\ op'.count = op.count
  BY <1>1 DEF Operation
<1>3. TypeOK'
  <2>1. op' \in Operation
    BY <1>1 DEF Operation
  <2> QED
    BY <1>1, <1>2, <2>1, SameKind DEF IInv, TypeOK
<1>4. \A n : Applied(n)' = Applied(n)
  BY <1>2 DEF Applied, Tag
<1>5. ASSUME op.cmd = "set", op.before # None
      PROVE  \E n \in 0 .. Len(op.elems) :
               /\ \A i \in 1 .. n : op.elems[i] # Malformed
               /\ db = Applied(n)
               /\ kind = "subnet4" /\ n > 0 =>
                    \A i \in 1 .. Len(op.elems) : op.elems[i] # Malformed
  <2>1. Len(op.elems) \in Nat
    BY <1>1, RequestIsSeq
  <2>2. CASE op.phase = "parse"
    <3>1. op.before = db /\ db \in [Names -> Objects \cup {None}]
      BY <2>2 DEF IInv, Unbegun, TypeOK, Database
    <3>2. db = Applied(0)
      BY <3>1, WrittenNone DEF Applied
    <3> QED
      BY <2>1, <3>2
  <2>3. CASE op.phase = "run"
    BY <1>5, <2>3 DEF IInv, WrittenSoFar, Well
  <2>4. CASE op.phase = "read"
    BY <1>5, <2>1, <2>4 DEF IInv, ReadSoFar, Well
  <2> QED
    BY <1>1, <2>2, <2>3, <2>4 DEF Operation
<1>6. SetWritesPrefix'
  BY <1>2, <1>4, <1>5 DEF SetWritesPrefix, Alone, Well
<1>7. Answers'
  BY <1>2, <1>6 DEF Answers, AnswersWhatIsStored, DeleteCountsGone
<1> QED
  BY <1>2, <1>3, <1>7, DoneIInv

-----------------------------------------------------------------------------
(* One lemma for each action.                                              *)

\* A new command has changed nothing.
LEMMA ReceiveIInv ==
  ASSUME IInv, Receive
  PROVE  IInv'
<1>1. PICK c \in Commands(kind), elems \in Requests, tags \in TagLists :
        /\ kind = "server4" => tags = <<>> \/ c \in {"get", "del"}
        /\ op' = [Idle EXCEPT !.cmd = c, !.elems = elems, !.tags = tags, !.phase = "parse",
                             !.before = db]
  BY DEF Receive
<1>2. kind' = kind /\ db' = db
  BY DEF Receive
<1>3. op' = [cmd |-> c, elems |-> elems, tags |-> tags, phase |-> "parse", at |-> 1,
             count |-> 0, got |-> <<>>, result |-> 1, before |-> db]
  BY <1>1 DEF Idle
<1>4. c \in {"set", "get", "del", "list"} /\ Len(elems) \in Nat
  BY RequestIsSeq DEF Commands
<1>5. op' \in Operation
  BY <1>3, <1>4 DEF IInv, TypeOK, Operation
<1>6. TypeOK'
  BY <1>2, <1>3, <1>4, <1>5, SameKind DEF IInv, TypeOK
<1>7. op'.phase = "parse" /\ Unbegun'
  BY <1>2, <1>3 DEF Unbegun
<1> QED
  BY <1>6, <1>7, RunningAnswers DEF IInv, ReadingBack, WrittenSoFar, ReadSoFar, DeletedSoFar

\* The parameters are read, and for subnets all of them are well-formed.
LEMMA ParseIInv ==
  ASSUME IInv, ParseSubnets
  PROVE  IInv'
<1>1. op.phase = "parse" /\ kind' = kind /\ db' = db
  BY DEF ParseSubnets
<1>2. CASE ~AllParse /\ Fail
  BY <1>1, <1>2, FailIInv DEF Fail
<1>3. CASE AllParse /\ op' = [op EXCEPT !.phase = "run"]
  <2>1. op \in Operation /\ op.at = 1 /\ op.count = 0 /\ op.got = <<>> /\ op.before = db
        /\ Len(op.elems) \in Nat
    BY <1>1, RequestIsSeq DEF IInv, TypeOK, Unbegun, Operation
  <2>2. /\ op'.phase = "run" /\ op'.cmd = op.cmd /\ op'.elems = op.elems
        /\ op'.tags = op.tags /\ op'.at = 1 /\ op'.count = 0 /\ op'.got = <<>>
        /\ op'.before = db
    BY <1>3, <2>1 DEF Operation
  <2>3. op' \in Operation
    BY <1>3, <2>1 DEF Operation
  <2>4. TypeOK'
    BY <1>1, <2>1, <2>2, <2>3, SameKind DEF IInv, TypeOK
  <2>5. Applied(0) = db
    BY <2>1, WrittenNone DEF IInv, TypeOK, Database, Applied
  <2>6. \A n : Applied(n)' = Applied(n)
    BY <1>1, <2>1, <2>2 DEF Applied, Tag
  <2>7. WrittenSoFar'
    <3>1. db' = Applied(0)' /\ op'.at = 0 + 1 /\ 0 \in 0 .. Len(op'.elems)
      BY <1>1, <2>1, <2>2, <2>5, <2>6
    <3>2. Well(0)'
      BY DEF Well
    <3>3. op.cmd = "set" /\ kind = "subnet4" => Well(Len(op.elems))'
      BY <1>3, <2>2 DEF AllParse, Well
    <3> QED
      BY <1>1, <2>1, <2>2, <3>1, <3>2, <3>3 DEF WrittenSoFar
  <2>8. DeletedSoFar'
    <3>1. Gone' = {}
      BY <1>1, <2>2 DEF Gone
    <3> QED
      BY <1>1, <2>2, <3>1, FS_EmptySet DEF DeletedSoFar
  <2> QED
    BY <2>2, <2>4, <2>7, <2>8, RunningAnswers DEF IInv, Unbegun, ReadingBack, ReadSoFar
<1> QED
  BY <1>2, <1>3 DEF ParseSubnets

\* One element more is written.
LEMMA SetOneIInv ==
  ASSUME IInv, SetOne
  PROVE  IInv'
<1>1. /\ op.phase = "run" /\ op.cmd = "set" /\ op.at <= Len(op.elems)
      /\ Elem # Malformed /\ ~Refuses
      /\ db' = [db EXCEPT ![Elem.name] = [value |-> Elem.value, tag |-> Tag]]
      /\ op' = [op EXCEPT !.at = @ + 1] /\ kind' = kind
  BY DEF SetOne, Running, More, Write
<1>2. /\ op \in Operation /\ op.elems \in Requests /\ op.at \in Nat \ {0}
      /\ op.count \in Nat /\ op.count < op.at /\ Len(op.elems) \in Nat
  BY RequestIsSeq DEF IInv, TypeOK, Operation
<1>3. Elem.name \in Names /\ Elem.value \in Values
  BY <1>1, <1>2, RequestIsSeq DEF Elem
<1>4. /\ op'.phase = "run" /\ op'.cmd = "set" /\ op'.elems = op.elems /\ op'.tags = op.tags
      /\ op'.at = op.at + 1 /\ op'.count = op.count /\ op'.got = op.got
      /\ op'.before = op.before
  BY <1>1, <1>2 DEF Operation
<1>5. TypeOK'
  <2>1. op' \in Operation
    BY <1>1, <1>2 DEF Operation
  <2>2. [value |-> Elem.value, tag |-> Tag] \in Objects
    BY <1>1, <1>3, TagIsOwner DEF Refuses, IInv
  <2>3. db' \in Database
    BY <1>1, <1>3, <2>2 DEF IInv, TypeOK, Database
  <2> QED
    BY <1>1, <1>2, <1>4, <2>1, <2>3, SameKind DEF IInv, TypeOK
<1>6. WrittenSoFar'
  <2>1. PICK n \in 0 .. Len(op.elems) :
          /\ op.at = n + 1 /\ Well(n)
          /\ op.before # None => /\ db = Applied(n)
                                 /\ \A i \in 1 .. n : db[op.elems[i].name] # None
    BY <1>1 DEF IInv, WrittenSoFar
  <2>2. n + 1 \in 0 .. Len(op.elems) /\ n \in Nat /\ Elem = op.elems[n + 1]
    BY <1>1, <1>2, <2>1 DEF Elem
  <2>3. Well(n + 1)'
    BY <1>1, <1>4, <2>1, <2>2 DEF Well
  <2>4. Applied(n + 1) = [Applied(n) EXCEPT ![Elem.name] = [value |-> Elem.value, tag |-> Tag]]
    BY <1>3, <2>2, WrittenOne DEF Applied
  <2>5. Applied(n + 1)' = Applied(n + 1)
    BY <1>1, <1>4 DEF Applied, Tag
  <2>6. op.before # None => db' = Applied(n + 1)'
    BY <1>1, <2>1, <2>4, <2>5
  <2>7. op.got = <<>> /\ op.count = 0 /\ (kind = "subnet4" => Well(Len(op.elems)))
    BY <1>1 DEF IInv, WrittenSoFar
  <2>8. kind' = "subnet4" => Well(Len(op.elems))'
    BY <1>1, <1>4, <2>7 DEF Well
  <2>9. op'.at = (n + 1) + 1
    BY <1>4, <2>1
  <2>10. ASSUME op.before # None
         PROVE  \A i \in 1 .. n + 1 : db'[op.elems[i].name] # None
    <3>1. [value |-> Elem.value, tag |-> Tag] # None
      BY <1>1, <1>3, TagIsOwner, NoneIsNoObject DEF Refuses, IInv
    <3>2. \A i \in 1 .. n : op.elems[i].name \in Names
      BY <1>2, <2>1, RequestIsSeq DEF Well
    <3>3. db'[Elem.name] # None
      BY <1>1, <1>3, <3>1 DEF IInv, TypeOK, Database
    <3>4. ASSUME NEW i \in 1 .. n
          PROVE  db'[op.elems[i].name] # None
      BY <1>1, <1>3, <2>1, <2>10, <3>1, <3>2 DEF IInv, TypeOK, Database
    <3> QED
      BY <2>2, <3>3, <3>4
  <2> QED
    BY <1>4, <2>2, <2>3, <2>6, <2>7, <2>8, <2>9, <2>10 DEF WrittenSoFar
<1> QED
  BY <1>4, <1>5, <1>6, RunningAnswers DEF IInv, Unbegun, ReadingBack, ReadSoFar, DeletedSoFar

\* All elements are written.
LEMMA SetDoneIInv ==
  ASSUME IInv, SetDone
  PROVE  IInv'
<1>1. /\ op.phase = "run" /\ op.cmd = "set" /\ ~(op.at <= Len(op.elems))
      /\ kind' = kind /\ db' = db
  BY DEF SetDone, More
<1>2. /\ op \in Operation /\ op.elems \in Requests /\ op.at \in Nat \ {0}
      /\ op.at <= Len(op.elems) + 1
      /\ op.count \in Nat /\ op.count < op.at /\ Len(op.elems) \in Nat
  BY RequestIsSeq DEF IInv, TypeOK, Operation
<1>3. /\ op.got = <<>> /\ op.count = 0 /\ Well(Len(op.elems))
      /\ op.before # None => /\ db = Applied(Len(op.elems))
                             /\ \A i \in 1 .. Len(op.elems) : db[op.elems[i].name] # None
  <2>1. PICK n \in 0 .. Len(op.elems) :
          /\ op.at = n + 1 /\ Well(n)
          /\ op.before # None => /\ db = Applied(n)
                                 /\ \A i \in 1 .. n : db[op.elems[i].name] # None
    BY <1>1 DEF IInv, WrittenSoFar
  <2>2. n = Len(op.elems)
    BY <1>1, <1>2, <2>1
  <2> QED
    BY <1>1, <2>1, <2>2 DEF IInv, WrittenSoFar
<1>4. CASE kind = "subnet4"
  <2>1. op' = [op EXCEPT !.phase = "read", !.at = 1]
    BY <1>4 DEF SetDone
  <2>2. /\ op'.phase = "read" /\ op'.cmd = "set" /\ op'.elems = op.elems /\ op'.tags = op.tags
        /\ op'.at = 1 /\ op'.count = 0 /\ op'.got = <<>> /\ op'.before = op.before
    BY <1>1, <1>2, <1>3, <2>1 DEF Operation
  <2>3. TypeOK'
    <3>1. op' \in Operation
      <4>1. op'.at \in Nat \ {0} /\ op'.phase \in {"parse", "run", "read", "done"}
        BY <2>2
      <4> QED
        BY <1>2, <2>1, <4>1 DEF Operation
    <3> QED
      BY <1>1, <1>2, <2>2, <3>1, SameKind DEF IInv, TypeOK
  <2>4. ReadSoFar'
    <3>1. Well(Len(op.elems))'
      BY <1>3, <2>2 DEF Well
    <3>2. Applied(Len(op.elems))' = Applied(Len(op.elems))
      BY <1>1, <2>2 DEF Applied, Tag
    <3> QED
      BY <1>1, <1>3, <2>2, <3>1, <3>2 DEF ReadSoFar
  <2> QED
    BY <1>1, <1>4, <2>2, <2>3, <2>4, RunningAnswers
       DEF IInv, Unbegun, ReadingBack, WrittenSoFar, DeletedSoFar
<1>5. CASE kind # "subnet4"
  <2>1. op' = [op EXCEPT !.phase = "done", !.result = 0]
    BY <1>5 DEF SetDone
  <2>2. /\ op'.phase = "done" /\ op'.cmd = "set" /\ op'.elems = op.elems /\ op'.tags = op.tags
        /\ op'.at = op.at /\ op'.count = op.count /\ op'.before = op.before
    BY <1>1, <1>2, <2>1 DEF Operation
  <2>3. TypeOK'
    <3>1. op' \in Operation
      BY <1>2, <2>1 DEF Operation
    <3> QED
      BY <1>1, <1>2, <2>2, <3>1, SameKind DEF IInv, TypeOK
  <2>4. SetWritesPrefix'
    <3>1. Applied(Len(op.elems))' = Applied(Len(op.elems))
      BY <1>1, <2>2 DEF Applied, Tag
    <3> QED
      BY <1>1, <1>2, <1>3, <1>5, <2>2, <3>1 DEF SetWritesPrefix, Alone, Well
  <2>5. Answers'
    BY <1>1, <1>5, <2>2, <2>4 DEF Answers, AnswersWhatIsStored, DeleteCountsGone, Alone
  <2> QED
    BY <2>2, <2>3, <2>5, DoneIInv
<1> QED
  BY <1>4, <1>5

\* What the pool returns for a name is a list of at most one object.
LEMMA FoundIsSeq ==
  ASSUME TypeOK, NEW n \in Names
  PROVE  Found(n) \in Seq([name : Names, value : Values])
<1>1. CASE db[n] = None
  BY <1>1 DEF Found
<1>2. CASE db[n] # None
  <2>1. db[n].value \in Values
    BY <1>2 DEF TypeOK, Database, Objects
  <2>2. [name |-> n, value |-> db[n].value] \in [name : Names, value : Values]
    BY <2>1
  <2> QED
    BY <1>2, <2>2 DEF Found
<1> QED
  BY <1>1, <1>2

\* One subnet more is read back.
LEMMA ReadBackIInv ==
  ASSUME IInv, ReadBack
  PROVE  IInv'
<1>1. /\ op.phase = "read" /\ op.at <= Len(op.elems) /\ kind' = kind /\ db' = db
      /\ op' = [op EXCEPT !.at = @ + 1, !.got = @ \o Found(Elem.name)]
  BY DEF ReadBack, More
<1>2. /\ op \in Operation /\ op.elems \in Requests /\ op.at \in Nat \ {0}
      /\ op.got \in Seq([name : Names, value : Values])
      /\ op.count \in Nat /\ op.count < op.at /\ Len(op.elems) \in Nat
  BY RequestIsSeq DEF IInv, TypeOK, Operation
<1>3. /\ Well(Len(op.elems))
      /\ op.before # None => /\ db = Applied(Len(op.elems))
                             /\ \A i \in 1 .. Len(op.elems) : db[op.elems[i].name] # None
                             /\ Len(op.got) = op.at - 1
                             /\ \A i \in 1 .. op.at - 1 : op.got[i] = Stored(i)
  BY <1>1 DEF IInv, ReadSoFar
<1>4. Elem = op.elems[op.at] /\ Elem.name \in Names
  BY <1>1, <1>2, <1>3, RequestIsSeq DEF Well, Elem
<1>5. Found(Elem.name) \in Seq([name : Names, value : Values])
  BY <1>4, FoundIsSeq DEF IInv
<1>6. /\ op'.phase = "read" /\ op'.cmd = op.cmd /\ op'.elems = op.elems /\ op'.tags = op.tags
      /\ op'.at = op.at + 1 /\ op'.count = op.count /\ op'.before = op.before
      /\ op'.got = op.got \o Found(Elem.name)
  BY <1>1, <1>2 DEF Operation
<1>7. TypeOK'
  <2>1. op' \in Operation
    <3>1. op'.got \in Seq([name : Names, value : Values]) /\ op'.at \in Nat \ {0}
      BY <1>2, <1>5, <1>6
    <3> QED
      BY <1>1, <1>2, <3>1 DEF Operation
  <2> QED
    BY <1>1, <1>2, <1>6, <2>1, SameKind DEF IInv, TypeOK
<1>8. ReadSoFar'
  <2>1. Well(Len(op.elems))'
    BY <1>3, <1>6 DEF Well
  <2>2. Applied(Len(op.elems))' = Applied(Len(op.elems))
    BY <1>1, <1>6 DEF Applied, Tag
  <2>3. ASSUME op.before # None
        PROVE  Len(op'.got) = op.at /\ \A i \in 1 .. op.at : op'.got[i] = Stored(i)
    <3>1. Found(Elem.name) = <<Stored(op.at)>>
      BY <1>1, <1>2, <1>3, <1>4, <2>3 DEF Found, Stored
    <3>2. Len(Found(Elem.name)) = 1 /\ Found(Elem.name)[1] = Stored(op.at)
      BY <3>1
    <3>3. /\ Len(op'.got) = Len(op.got) + 1
          /\ \A i \in 1 .. Len(op.got) + 1 :
               op'.got[i] = IF i <= Len(op.got) THEN op.got[i]
                            ELSE Found(Elem.name)[i - Len(op.got)]
      <4> DEFINE R == [name : Names, value : Values]
                 s == op.got
                 t == Found(Elem.name)
      <4>1. s \in Seq(R) /\ t \in Seq(R) /\ Len(t) = 1 /\ op'.got = s \o t
        BY <1>2, <1>5, <1>6, <3>2
      <4> HIDE DEF R, s, t
      <4>2. /\ Len(s \o t) = Len(s) + Len(t)
            /\ \A i \in 1 .. Len(s) + Len(t) :
                 (s \o t)[i] = IF i <= Len(s) THEN s[i] ELSE t[i - Len(s)]
        BY <4>1, ConcatProperties, Zenon
      <4>3. /\ Len(op'.got) = Len(s) + 1
            /\ \A i \in 1 .. Len(s) + 1 : op'.got[i] = IF i <= Len(s) THEN s[i] ELSE t[i - Len(s)]
        BY <4>1, <4>2
      <4> QED
        BY <4>3 DEF s, t
    <3>4. Len(op.got) = op.at - 1 /\ \A i \in 1 .. op.at - 1 : op.got[i] = Stored(i)
      BY <1>3, <2>3
    <3>5. Len(op'.got) = op.at
      BY <1>2, <3>3, <3>4
    <3>6. ASSUME NEW i \in 1 .. op.at
          PROVE  op'.got[i] = Stored(i)
      <4>1. CASE i = op.at
        <5>1. i - Len(op.got) = 1 /\ ~(i <= Len(op.got)) /\ i \in 1 .. Len(op.got) + 1
          BY <1>2, <3>4, <4>1
        <5> QED
          BY <3>2, <3>3, <4>1, <5>1
      <4>2. CASE i # op.at
        <5>1. i \in 1 .. op.at - 1 /\ i <= Len(op.got) /\ i \in 1 .. Len(op.got) + 1
          BY <1>2, <3>4, <4>2
        <5> QED
          BY <3>3, <3>4, <5>1
      <4> QED
        BY <4>1, <4>2
    <3> QED
      BY <3>5, <3>6
  <2>4. \A i : Stored(i)' = Stored(i)
    BY <1>1, <1>6 DEF Stored
  <2>5. op'.at - 1 = op.at
    BY <1>2, <1>6
  <2>6. op.before # None => /\ Len(op'.got) = op'.at - 1
                            /\ \A i \in 1 .. op'.at - 1 : op'.got[i] = Stored(i)'
    BY <2>3, <2>4, <2>5
  <2> QED
    BY <1>1, <1>3, <1>6, <2>1, <2>2, <2>6 DEF ReadSoFar
<1> QED
  BY <1>1, <1>6, <1>7, <1>8, RunningAnswers
     DEF IInv, Unbegun, ReadingBack, WrittenSoFar, DeletedSoFar

\* Reading one object.
LEMMA GetOneIInv ==
  ASSUME IInv, GetOne
  PROVE  IInv'
<1>1. op.phase = "run" /\ op.cmd = "get" /\ op.at <= Len(op.elems) /\ kind' = kind /\ db' = db
  BY DEF GetOne, Running, More
<1>2. CASE Fail
  BY <1>1, <1>2, FailIInv DEF Fail
<1>3. CASE Elem # Malformed /\ op' = [op EXCEPT !.at = @ + 1, !.got = @ \o Found(Elem.name)]
  <2>1. /\ op \in Operation /\ op.elems \in Requests /\ op.at \in Nat \ {0}
        /\ op.got \in Seq([name : Names, value : Values])
        /\ op.count \in Nat /\ op.count < op.at /\ Len(op.elems) \in Nat
    BY RequestIsSeq DEF IInv, TypeOK, Operation
  <2>2. Elem.name \in Names
    BY <1>1, <1>3, <2>1, RequestIsSeq DEF Elem
  <2>3. Found(Elem.name) \in Seq([name : Names, value : Values])
    BY <2>2, FoundIsSeq DEF IInv
  <2>4. /\ op'.phase = "run" /\ op'.cmd = "get" /\ op'.elems = op.elems
        /\ op'.at = op.at + 1 /\ op'.count = op.count
        /\ op'.got = op.got \o Found(Elem.name)
    BY <1>1, <1>3, <2>1 DEF Operation
  <2>5. op' \in Operation
    <3>1. op'.got \in Seq([name : Names, value : Values]) /\ op'.at \in Nat \ {0}
      BY <2>1, <2>3, <2>4
    <3> QED
      BY <1>3, <2>1, <3>1 DEF Operation
  <2>6. TypeOK'
    BY <1>1, <2>1, <2>4, <2>5, SameKind DEF IInv, TypeOK
  <2> QED
    BY <2>4, <2>6, RunningAnswers
       DEF IInv, Unbegun, ReadingBack, WrittenSoFar, ReadSoFar, DeletedSoFar
<1> QED
  BY <1>2, <1>3 DEF GetOne

\* Deleting one object: what goes away is counted once.
LEMMA DeleteOneIInv ==
  ASSUME IInv, DeleteOne
  PROVE  IInv'
<1>1. op.phase = "run" /\ op.cmd = "del" /\ op.at <= Len(op.elems) /\ kind' = kind
  BY DEF DeleteOne, Running, More, FailChangingNothing
<1>2. CASE FailChangingNothing
  BY <1>1, <1>2, FailIInv DEF FailChangingNothing, Fail
<1>3. CASE /\ Elem # Malformed
           /\ db' = [db EXCEPT ![Elem.name] = None]
           /\ op' = [op EXCEPT !.at = @ + 1,
                               !.count = IF db[Elem.name] = None THEN @ ELSE @ + 1]
  <2> DEFINE e == Elem.name
             n == IF db[e] = None THEN op.count ELSE op.count + 1
  <2>1. /\ op \in Operation /\ op.elems \in Requests /\ op.at \in Nat \ {0}
        /\ op.count \in Nat /\ op.count < op.at /\ Len(op.elems) \in Nat
        /\ db \in Database
    BY RequestIsSeq DEF IInv, TypeOK, Operation
  <2>2. e \in Names
    BY <1>1, <1>3, <2>1, RequestIsSeq DEF Elem
  <2>3. n \in Nat /\ n < op.at + 1 /\ op' = [op EXCEPT !.at = @ + 1, !.count = n]
    BY <1>3, <2>1
  <2>4. /\ op'.phase = "run" /\ op'.cmd = "del" /\ op'.elems = op.elems
        /\ op'.at = op.at + 1 /\ op'.count = n /\ op'.before = op.before
    BY <1>1, <2>1, <2>3 DEF Operation
  <2>5. TypeOK'
    <3> HIDE DEF n
    <3>1. op' \in Operation
      <4>1. op'.at \in Nat \ {0}
        BY <2>1, <2>4
      <4> QED
        BY <2>1, <2>3, <4>1 DEF Operation
    <3>2. db' \in Database
      BY <1>3, <2>1, <2>2 DEF Database
    <3> QED
      BY <1>1, <2>1, <2>3, <2>4, <3>1, <3>2, SameKind DEF IInv, TypeOK
  <2>6. ASSUME op.before # None
        PROVE  /\ \A x \in Names : db'[x] \in {op.before[x], None}
               /\ IsFiniteSet(Gone') /\ n = Cardinality(Gone')
    <3>1. /\ \A x \in Names : db[x] \in {op.before[x], None}
          /\ IsFiniteSet(Gone) /\ op.count = Cardinality(Gone)
      BY <1>1, <2>6 DEF IInv, DeletedSoFar
    <3>2. db'[e] = None /\ \A x \in Names \ {e} : db'[x] = db[x]
      BY <1>3, <2>1, <2>2 DEF Database
    <3>3. CASE db[e] = None
      <4>1. Gone' = Gone
        BY <2>4, <3>2, <3>3 DEF Gone
      <4> QED
        BY <3>1, <3>2, <3>3, <4>1
    <3>4. CASE db[e] # None
      <4>1. Gone' = Gone \cup {e} /\ e \notin Gone
        BY <2>2, <2>4, <3>1, <3>2, <3>4 DEF Gone
      <4>2. IsFiniteSet(Gone') /\ Cardinality(Gone') = Cardinality(Gone) + 1
        BY <3>1, <4>1, FS_AddElement
      <4>3. n = op.count + 1
        BY <3>4
      <4> QED
        BY <3>1, <3>2, <4>2, <4>3
    <3> QED
      BY <3>3, <3>4
  <2>7. DeletedSoFar'
    BY <2>4, <2>6 DEF DeletedSoFar
  <2> QED
    BY <2>4, <2>5, <2>7, RunningAnswers DEF IInv, Unbegun, ReadingBack, WrittenSoFar, ReadSoFar
<1> QED
  BY <1>2, <1>3 DEF DeleteOne

\* The loop over the elements is through.
LEMMA LoopDoneIInv ==
  ASSUME IInv, LoopDone
  PROVE  IInv'
<1>1. /\ op.phase = "read" \/ (op.phase = "run" /\ op.cmd \in {"get", "del"})
      /\ ~(op.at <= Len(op.elems)) /\ kind' = kind /\ db' = db
      /\ op' = [op EXCEPT !.phase = "done", !.result = 0]
  BY DEF LoopDone, More
<1>2. /\ op \in Operation /\ op.elems \in Requests /\ op.at \in Nat \ {0}
      /\ op.at <= Len(op.elems) + 1 /\ op.got \in Seq([name : Names, value : Values])
      /\ op.count \in Nat /\ op.count < op.at /\ Len(op.elems) \in Nat
  BY RequestIsSeq DEF IInv, TypeOK, Operation
<1>3. /\ op'.phase = "done" /\ op'.cmd = op.cmd /\ op'.elems = op.elems /\ op'.tags = op.tags
      /\ op'.at = op.at /\ op'.count = op.count /\ op'.before = op.before
      /\ op'.got = op.got /\ op'.result = 0
  BY <1>1, <1>2 DEF Operation
<1>4. TypeOK'
  <2>1. op' \in Operation
    BY <1>1, <1>2 DEF Operation
  <2> QED
    BY <1>1, <1>2, <1>3, <2>1, SameKind DEF IInv, TypeOK
<1>5. CASE op.phase = "read"
  <2>1. op.cmd = "set" /\ kind = "subnet4"
    BY <1>5 DEF IInv, ReadingBack
  <2>2. /\ Well(Len(op.elems))
        /\ op.before # None => /\ db = Applied(Len(op.elems))
                               /\ Len(op.got) = Len(op.elems)
                               /\ \A i \in 1 .. Len(op.elems) : op.got[i] = Stored(i)
    BY <1>1, <1>2, <1>5 DEF IInv, ReadSoFar
  <2>3. SetWritesPrefix'
    <3>1. Applied(Len(op.elems))' = Applied(Len(op.elems))
      BY <1>1, <1>3 DEF Applied, Tag
    <3> QED
      BY <1>1, <1>2, <1>3, <2>2, <3>1 DEF SetWritesPrefix, Alone, Well
  <2>4. ASSUME op.before # None
        PROVE  op.got = [i \in 1 .. Len(op.elems) |->
                           [name |-> op.elems[i].name, value |-> db[op.elems[i].name].value]]
    <3>1. op.got = [i \in 1 .. Len(op.elems) |-> op.got[i]]
      BY <1>2, <2>2, <2>4, LenProperties
    <3> QED
      BY <2>2, <2>4, <3>1 DEF Stored
  <2>5. AnswersWhatIsStored'
    BY <1>1, <1>3, <2>4 DEF AnswersWhatIsStored, Alone
  <2>6. Answers'
    BY <1>3, <2>1, <2>3, <2>5 DEF Answers, DeleteCountsGone, Alone
  <2> QED
    BY <1>3, <1>4, <2>6, DoneIInv
<1>6. CASE op.phase = "run" /\ op.cmd = "get"
  BY <1>3, <1>4, <1>6, OtherAnswers, DoneIInv
<1>7. CASE op.phase = "run" /\ op.cmd = "del"
  <2>1. op.before # None =>
          op.count = Cardinality({x \in Names : op.before[x] # None /\ db[x] = None})
    BY <1>7 DEF IInv, DeletedSoFar, Gone
  <2>2. DeleteCountsGone'
    BY <1>1, <1>3, <2>1 DEF DeleteCountsGone, Alone
  <2>3. Answers'
    BY <1>3, <1>7, <2>2 DEF Answers, SetWritesPrefix, AnswersWhatIsStored, Alone
  <2> QED
    BY <1>3, <1>4, <2>3, DoneIInv
<1> QED
  BY <1>1, <1>5, <1>6, <1>7

\* A list is one call.
LEMMA ListIInv ==
  ASSUME IInv, List
  PROVE  IInv'
<1>1. op.phase = "run" /\ op.cmd = "list" /\ kind' = kind /\ db' = db
  BY DEF List
<1>2. CASE Fail
  BY <1>1, <1>2, FailIInv DEF Fail
<1>3. CASE op' = [op EXCEPT !.phase = "done", !.result = 0]
  <2>1. op \in Operation
    BY DEF IInv, TypeOK
  <2>2. /\ op'.phase = "done" /\ op'.cmd = "list" /\ op'.elems = op.elems
        /\ op'.at = op.at /\ op'.count = op.count
    BY <1>1, <1>3, <2>1 DEF Operation
  <2>3. op' \in Operation
    BY <1>3, <2>1 DEF Operation
  <2>4. TypeOK'
    BY <1>1, <2>2, <2>3, SameKind DEF IInv, TypeOK
  <2> QED
    BY <2>2, <2>4, OtherAnswers, DoneIInv
<1> QED
  BY <1>2, <1>3 DEF List

\* Others may write at any time: then nothing is promised.
LEMMA OthersIInv ==
  ASSUME IInv, Others
  PROVE  IInv'
<1>1. /\ op.phase \in {"run", "read"} /\ kind' = kind
      /\ op' = [op EXCEPT !.before = None]
  BY DEF Others
<1>2. PICK m \in Names, o \in Objects \cup {None} : db' = [db EXCEPT ![m] = o]
  BY DEF Others
<1>3. op \in Operation
  BY DEF IInv, TypeOK
<1>4. /\ op'.phase = op.phase /\ op'.cmd = op.cmd /\ op'.elems = op.elems /\ op'.tags = op.tags
      /\ op'.at = op.at /\ op'.count = op.count /\ op'.got = op.got /\ op'.before = None
  BY <1>1, <1>3 DEF Operation
<1>5. TypeOK'
  <2>1. op' \in Operation
    BY <1>1, <1>3 DEF Operation
  <2>2. db' \in Database
    BY <1>2 DEF IInv, TypeOK, Database
  <2> QED
    BY <1>1, <1>4, <2>1, <2>2, SameKind DEF IInv, TypeOK
<1>6. ReadingBack' /\ Unbegun' /\ DeletedSoFar'
  BY <1>1, <1>4 DEF IInv, ReadingBack, Unbegun, DeletedSoFar
<1>7. WrittenSoFar' /\ ReadSoFar'
  BY <1>1, <1>4 DEF IInv, WrittenSoFar, ReadSoFar, Well
<1> QED
  BY <1>1, <1>4, <1>5, <1>6, <1>7, RunningAnswers DEF IInv

-----------------------------------------------------------------------------
\* No command has come in.
LEMMA InitIInv == Init => IInv
<1> SUFFICES ASSUME Init
             PROVE  IInv
  OBVIOUS
<1>1. <<>> \in Requests
  <2>1. <<>> \in [1 .. 0 -> Elements] /\ 0 \in 0 .. MaxElems
    BY BoundAssumption
  <2> QED
    BY <2>1 DEF Requests
<1>2. op \in Operation
  BY <1>1 DEF Init, Idle, Operation
<1>3. TypeOK
  BY <1>2 DEF Init, Idle, TypeOK, Database
<1>4. op.phase = "done" /\ op.before = None
  BY DEF Init, Idle
<1> QED
  BY <1>3, <1>4 DEF IInv, Unbegun, ReadingBack, WrittenSoFar, ReadSoFar, DeletedSoFar, Answers,
                    SetWritesPrefix, AnswersWhatIsStored, DeleteCountsGone, Alone

\* A step that changes nothing.
LEMMA StutterIInv ==
  ASSUME IInv, UNCHANGED vars
  PROVE  IInv'
<1>1. kind' = kind /\ db' = db /\ op' = op
  BY DEF vars
<1>2. TypeOK'
  BY <1>1, SameKind DEF IInv, TypeOK
<1>3. \A n : Applied(n)' = Applied(n)
  BY <1>1 DEF Applied, Tag
<1>4. Unbegun' /\ ReadingBack' /\ DeletedSoFar'
  BY <1>1 DEF IInv, Unbegun, ReadingBack, DeletedSoFar, Gone
<1>5. WrittenSoFar' /\ ReadSoFar'
  BY <1>1, <1>3 DEF IInv, WrittenSoFar, ReadSoFar, Well, Stored
<1>6. Answers'
  BY <1>1, <1>3 DEF IInv, Answers, SetWritesPrefix, AnswersWhatIsStored, DeleteCountsGone, Alone,
                    Well
<1> QED
  BY <1>2, <1>4, <1>5, <1>6 DEF IInv

\* The inductive invariant of the configuration backend commands.
THEOREM Invariance == Spec => []IInv
<1>1. Init => IInv
  BY InitIInv
<1>2. IInv /\ [Next]_vars => IInv'
  <2> SUFFICES ASSUME IInv, [Next]_vars
               PROVE  IInv'
    OBVIOUS
  <2>1. CASE BadCommand
    BY <2>1, FailIInv DEF BadCommand, FailChangingNothing, Fail
  <2>2. CASE SetRefused
    BY <2>2, FailIInv DEF SetRefused, Running, FailChangingNothing, Fail
  <2>3. CASE Throws
    BY <2>3, FailIInv DEF Throws
  <2> QED
    BY <2>1, <2>2, <2>3, ReceiveIInv, ParseIInv, SetOneIInv, SetDoneIInv, ReadBackIInv,
       GetOneIInv, DeleteOneIInv, LoopDoneIInv, ListIInv, OthersIInv, StutterIInv DEF Next
<1> QED
  BY <1>1, <1>2, PTL DEF Spec

\* Every command keeps to its type, and counts no more than it got to.
THEOREM TypeCorrect == Spec => []TypeOK
<1>1. IInv => TypeOK
  BY DEF IInv
<1> QED
  BY <1>1, Invariance, PTL

\* A set command writes a prefix of its list, in order, and all of it when it
\* answers success.
THEOREM SetWritesPrefixHolds == Spec => []SetWritesPrefix
<1>1. IInv => SetWritesPrefix
  BY DEF IInv, Answers
<1> QED
  BY <1>1, Invariance, PTL

\* remote-subnet4-set answers with what is stored.
THEOREM AnswersWhatIsStoredHolds == Spec => []AnswersWhatIsStored
<1>1. IInv => AnswersWhatIsStored
  BY DEF IInv, Answers
<1> QED
  BY <1>1, Invariance, PTL

\* A del command counts the objects that are gone by it.
THEOREM DeleteCountsGoneHolds == Spec => []DeleteCountsGone
<1>1. IInv => DeleteCountsGone
  BY DEF IInv, Answers
<1> QED
  BY <1>1, Invariance, PTL
=============================================================================
