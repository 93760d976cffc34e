--------------------------- MODULE PacketHooks_proofs ---------------------------
(***************************************************************************)
(* The packet callouts serve their client, for any addresses, option types *)
(* and contents of option 82.                                              *)
(*                                                                         *)
(* What makes the three properties inductive is where the addresses in     *)
(* flight come from: the context is the client's own, the lease is Kea's   *)
(* until lease4_select, and a request goes on without being skipped only   *)
(* with Kea's lease still in place.  In the loop over the options, those   *)
(* that are done are the hook's, and the one being added has been deleted. *)
(***************************************************************************)
EXTENDS PacketHooks, TLAPS

\* The addresses the query itself names.
Named == {query.agent} \cap Asked

Responding == stage \in {"send", "options", "add", "sent"}
Working == stage \in {"allocate", "select", "selected"} \/ Responding

\* The context is what pkt4_receive of this packet left there: the address that
\* is due to the client, or nothing that is an address.
ContextIsOwn ==
  /\ stage = "received" => context = Unset
  /\ Working => IF Due \in Asked THEN context = Due ELSE context \in {Unset, Garbage}

\* The lease is Kea's, or the one of the context.
LeaseIsOwn ==
  /\ stage = "select" => lease \in Offered
  /\ stage = "selected" => lease \in Offered \/ (IsAddress(context) /\ lease = context)
  /\ stage = "selected" /\ IsAddress(context) /\ query.type = "REQUEST" => skip

\* The response has an address of Kea's, the one that is due, or none.
ResponseIsOwn ==
  Responding => response.yiaddr \in Offered \cup {Unset} \cup ({Due} \cap Asked)

\* Before pkt4_send the response is all Kea's.  While options are put in, the
\* address is the client's, and an option is the hook's, or still to be done; the
\* one that is being added is not in.
ResponseSoFar ==
  /\ stage = "send" =>
       /\ \A t \in Types : response.options[t] # "config"
       /\ response.yiaddr = Unset => response.type = "NAK" /\ query.type = "REQUEST"
       /\ Due \notin Asked => response.yiaddr \in Offered \cup {Unset}
  /\ stage \in {"options", "add"} =>
       /\ Due \in Asked /\ response.yiaddr = Due
       /\ response.type \in {"OFFER", "ACK"}
       /\ \A t \in Types \ left : response.options[t] = "config"
  /\ stage = "add" => response.options[option] = "none"

IInv == /\ TypeOK
        /\ ContextIsOwn
        /\ LeaseIsOwn
        /\ ResponseIsOwn
        /\ ResponseSoFar
        /\ NothingSaved
        /\ HookServesClient

LEMMA Distinctness ==
  /\ Fixed \in Asked /\ Unset \notin Addresses /\ Garbage \notin Addresses
  /\ "missing" \notin Asked
  /\ \A a \in Offered : a \notin Asked
  /\ Addresses = Offered \cup Asked
BY AddressesAssumption DEF Addresses

\* The invariant holds at the start.
LEMMA InitInvariant == Init => IInv
  <1> SUFFICES ASSUME Init PROVE IInv
    OBVIOUS
  <1>1. TypeOK
    BY DEF Init, TypeOK, Agents, NoResponse
  <1>2. ContextIsOwn /\ LeaseIsOwn /\ ResponseIsOwn /\ ResponseSoFar /\ HookServesClient
    BY DEF Init, ContextIsOwn, LeaseIsOwn, ResponseIsOwn, ResponseSoFar, HookServesClient, Working,
           Responding
  <1>3. NothingSaved
    BY Distinctness DEF Init, NothingSaved
  <1> QED
    BY <1>1, <1>2, <1>3 DEF IInv

-----------------------------------------------------------------------------
(* One lemma for each action.  In each, the steps before the last are the  *)
(* parts that the action can disturb, the last one is about the others.    *)

\* Arrive: a packet comes with a handle of its own.
LEMMA ArriveStep == IInv /\ Arrive => IInv'
  <1> SUFFICES ASSUME IInv, Arrive PROVE IInv'
    OBVIOUS
  <1>1. TypeOK'
    <2>1. query' \in [type : {"DISCOVER", "REQUEST"}, agent : Agents]
      BY DEF Arrive
    <2>2. NoResponse \in [type : {"none", "OFFER", "ACK", "NAK"}, yiaddr : Addresses \cup {Unset},
                          options : [Types -> {"none", "kea", "config"}]]
      BY DEF NoResponse
    <2> QED
      BY <2>1, <2>2 DEF IInv, TypeOK, Arrive, loop
  <1>2. ContextIsOwn'
    BY DEF IInv, Arrive, ContextIsOwn, Working, Responding
  <1>3. LeaseIsOwn' /\ ResponseIsOwn' /\ ResponseSoFar' /\ NothingSaved' /\ HookServesClient'
    BY DEF IInv, Arrive, LeaseIsOwn, IsAddress, ResponseIsOwn, Due, Responding, ResponseSoFar,
       NothingSaved, HookServesClient
  <1> QED
    BY <1>1, <1>2, <1>3 DEF IInv

\* Pkt4Receive: pkt4_receive binds the client's address, or nothing.
LEMMA Pkt4ReceiveStep == IInv /\ Pkt4Receive => IInv'
  <1> SUFFICES ASSUME IInv, Pkt4Receive PROVE IInv'
    OBVIOUS
  <1>1. TypeOK'
    BY Distinctness DEF IInv, TypeOK, Pkt4Receive, Argument, loop
  <1>2. ContextIsOwn'
    BY Distinctness DEF IInv, Pkt4Receive, Argument, TypeOK, Agents, ContextIsOwn, Working,
       Responding, Due
  <1>3. LeaseIsOwn' /\ ResponseIsOwn' /\ ResponseSoFar' /\ NothingSaved' /\ HookServesClient'
    BY DEF IInv, Pkt4Receive, LeaseIsOwn, IsAddress, ResponseIsOwn, Due, Responding, ResponseSoFar,
       NothingSaved, HookServesClient
  <1> QED
    BY <1>1, <1>2, <1>3 DEF IInv

\* Propose: Kea proposes a lease of its own.
LEMMA ProposeStep == IInv /\ Propose => IInv'
  <1> SUFFICES ASSUME IInv, Propose PROVE IInv'
    OBVIOUS
  <1>1. TypeOK'
    BY DEF IInv, TypeOK, Propose, Addresses, loop
  <1>2. LeaseIsOwn'
    BY DEF IInv, Propose, LeaseIsOwn
  <1>3. ContextIsOwn' /\ ResponseIsOwn' /\ ResponseSoFar' /\ NothingSaved' /\ HookServesClient'
    BY DEF IInv, Propose, ContextIsOwn, Due, Working, Responding, ResponseIsOwn, ResponseSoFar,
       NothingSaved, HookServesClient
  <1> QED
    BY <1>1, <1>2, <1>3 DEF IInv

\* Renew: the saved lease is Kea's.
LEMMA RenewStep == IInv /\ Renew => IInv'
  <1> SUFFICES ASSUME IInv, Renew PROVE IInv'
    OBVIOUS
  <1>1. TypeOK'
    BY DEF IInv, TypeOK, Renew, Answers, loop
  <1>2. ResponseIsOwn' /\ ResponseSoFar'
    BY DEF IInv, Renew, Answers, TypeOK, NothingSaved, ResponseIsOwn, ResponseSoFar, Addresses
  <1>3. ContextIsOwn' /\ LeaseIsOwn' /\ NothingSaved' /\ HookServesClient'
    BY DEF IInv, Renew, ContextIsOwn, Due, Working, Responding, LeaseIsOwn, IsAddress, NothingSaved,
       HookServesClient
  <1> QED
    BY <1>1, <1>2, <1>3 DEF IInv

\* Refuse: a NAK has no address.
LEMMA RefuseStep == IInv /\ Refuse => IInv'
  <1> SUFFICES ASSUME IInv, Refuse PROVE IInv'
    OBVIOUS
  <1>1. TypeOK'
    BY DEF IInv, TypeOK, Refuse, Answers, loop
  <1>2. ResponseIsOwn' /\ ResponseSoFar'
    BY DEF IInv, Refuse, Answers, ResponseIsOwn, ResponseSoFar, Responding
  <1>3. ContextIsOwn' /\ LeaseIsOwn' /\ NothingSaved' /\ HookServesClient'
    BY DEF IInv, Refuse, ContextIsOwn, Due, Working, Responding, LeaseIsOwn, IsAddress,
       NothingSaved, HookServesClient
  <1> QED
    BY <1>1, <1>2, <1>3 DEF IInv

\* Lease4Select: lease4_select replaces Kea's lease by the client's, and skips a request then.
LEMMA Lease4SelectStep == IInv /\ Lease4Select => IInv'
  <1> SUFFICES ASSUME IInv, Lease4Select PROVE IInv'
    OBVIOUS
  <1>1. TypeOK'
    BY DEF IInv, TypeOK, Lease4Select, SetStatus, Argument, IsAddress, Addresses, loop
  <1>2. LeaseIsOwn'
    BY DEF IInv, Lease4Select, SetStatus, Argument, LeaseIsOwn, IsAddress
  <1>3. ContextIsOwn' /\ ResponseIsOwn' /\ ResponseSoFar' /\ NothingSaved' /\ HookServesClient'
    BY DEF IInv, Lease4Select, ContextIsOwn, Due, Working, Responding, ResponseIsOwn, ResponseSoFar,
       NothingSaved, HookServesClient
  <1> QED
    BY <1>1, <1>2, <1>3 DEF IInv

\* Allocate: what is saved was not skipped, so it is Kea's; so is the answer when no
\* address is due.
LEMMA AllocateStep == IInv /\ Allocate => IInv'
  <1> SUFFICES ASSUME IInv, Allocate PROVE IInv'
    OBVIOUS
  <1>1. TypeOK'
    BY DEF IInv, TypeOK, Allocate, Answers, loop
  <1>2. lease \in Offered \cup ({Due} \cap Asked) /\ lease # Unset
    BY Distinctness DEF IInv, Allocate, TypeOK, ContextIsOwn, LeaseIsOwn, Working, IsAddress
  <1>3. response' \in [type : {"OFFER", "ACK", "NAK"}, yiaddr : {lease, Unset},
                      options : [Types -> {"none", "kea"}]]
        /\ (response'.yiaddr = Unset => response'.type = "NAK" /\ query.type = "REQUEST")
    BY <1>2 DEF Allocate, Answers
  <1>4. ResponseIsOwn' /\ ResponseSoFar'
    BY <1>2, <1>3 DEF Allocate, ResponseIsOwn, ResponseSoFar, Due
  <1>5. NothingSaved'
    BY Distinctness DEF IInv, Allocate, TypeOK, ContextIsOwn, LeaseIsOwn, NothingSaved, Working,
       IsAddress, Due
  <1>6. ContextIsOwn' /\ LeaseIsOwn' /\ HookServesClient'
    BY DEF IInv, Allocate, ContextIsOwn, Due, Working, Responding, LeaseIsOwn, IsAddress,
       HookServesClient
  <1> QED
    BY <1>1, <1>2, <1>3, <1>4, <1>5, <1>6 DEF IInv

\* Pkt4Send: pkt4_send gives the client its address, or raises.
LEMMA Pkt4SendStep == IInv /\ Pkt4Send => IInv'
  <1> SUFFICES ASSUME IInv, Pkt4Send PROVE IInv'
    OBVIOUS
  <1>1. TypeOK'
    <2>1. AckType \in {"OFFER", "ACK"}
      BY DEF IInv, TypeOK, Pkt4Send, AckType, Argument
    <2>2. \/ response' = [response EXCEPT !.type = AckType, !.yiaddr = context]
             /\ context \in Addresses
          \/ response' = [response EXCEPT !.type = AckType]
      BY DEF Pkt4Send, IsAddress
    <2>3. response' \in [type : {"OFFER", "ACK"}, yiaddr : Addresses \cup {Unset},
                        options : [Types -> {"none", "kea", "config"}]]
      BY <2>1, <2>2 DEF IInv, TypeOK
    <2>4. /\ stage' \in {"options", "sent"} /\ left' \subseteq Types
          /\ UNCHANGED <<hook, query, context, skip, lease, option, saved>>
      BY DEF IInv, TypeOK, Pkt4Send
    <2> QED
      BY <2>3, <2>4 DEF IInv, TypeOK
  <1>2. IF Due \in Asked THEN context = Due /\ IsAddress(context) ELSE ~IsAddress(context)
    BY Distinctness DEF IInv, Pkt4Send, ContextIsOwn, Working, Responding, IsAddress
  <1>3. /\ response'.type \in {"OFFER", "ACK"} /\ response'.options = response.options
        /\ response'.yiaddr = IF Due \in Asked THEN Due ELSE response.yiaddr
    BY <1>2 DEF IInv, Pkt4Send, AckType, Argument, TypeOK
  <1>4. ResponseIsOwn' /\ ResponseSoFar'
    BY <1>2, <1>3 DEF IInv, Pkt4Send, TypeOK, ResponseIsOwn, ResponseSoFar, Responding, Due
  <1>5. HookServesClient'
    <2>1. Due' = Due /\ query' = query /\ stage = "send"
      BY DEF Pkt4Send, Due
    <2>2. stage' = "sent" => Due \notin Asked
      BY <1>2 DEF Pkt4Send
    <2>3. /\ \A t \in Types : response.options[t] # "config"
          /\ response.yiaddr = Unset => query.type = "REQUEST" /\ response.type = "NAK"
          /\ Due \notin Asked => response.yiaddr \in Offered \cup {Unset}
      BY <2>1 DEF IInv, ResponseSoFar
    <2>4. response.type = "NAK" => response'.type = "ACK"
      BY <1>2 DEF IInv, TypeOK, Pkt4Send, AckType, Argument
    <2> QED
      BY <1>3, <2>1, <2>2, <2>3, <2>4 DEF HookServesClient
  <1>6. ContextIsOwn' /\ LeaseIsOwn' /\ NothingSaved'
    BY DEF IInv, Pkt4Send, ContextIsOwn, LeaseIsOwn, NothingSaved, Working, Responding, IsAddress,
       Due
  <1> QED
    BY <1>1, <1>2, <1>3, <1>4, <1>5, <1>6 DEF IInv

\* DelOption: an option is out.
LEMMA DelOptionStep == IInv /\ DelOption => IInv'
  <1> SUFFICES ASSUME IInv, DelOption PROVE IInv'
    OBVIOUS
  <1>1. TypeOK'
    BY DEF IInv, TypeOK, DelOption
  <1>2. /\ response'.type = response.type /\ response'.yiaddr = response.yiaddr
        /\ option' \in left /\ response'.options[option'] = "none"
        /\ \A t \in Types \ left : response'.options[t] = response.options[t]
    BY DEF IInv, TypeOK, DelOption
  <1>3. ResponseIsOwn' /\ ResponseSoFar'
    BY <1>2 DEF IInv, DelOption, ResponseIsOwn, ResponseSoFar, Responding, Due
  <1>4. ContextIsOwn' /\ LeaseIsOwn' /\ NothingSaved' /\ HookServesClient'
    BY DEF IInv, DelOption, ContextIsOwn, Due, Working, Responding, LeaseIsOwn, IsAddress,
       NothingSaved, HookServesClient
  <1> QED
    BY <1>1, <1>2, <1>3, <1>4 DEF IInv

\* AddOption: the hook's option is in, since none was.
LEMMA AddOptionStep == IInv /\ AddOption => IInv'
  <1> SUFFICES ASSUME IInv, AddOption PROVE IInv'
    OBVIOUS
  <1>1. response.options[option] = "none" /\ option \in left /\ left \subseteq Types
    BY DEF IInv, TypeOK, AddOption, ResponseSoFar
  <1>2. TypeOK'
    BY <1>1 DEF IInv, TypeOK, AddOption
  <1>3. /\ response'.type = response.type /\ response'.yiaddr = response.yiaddr
        /\ \A t \in Types \ left' : response'.options[t] = "config"
    BY <1>1 DEF IInv, TypeOK, AddOption, ResponseSoFar
  <1>4. ResponseIsOwn' /\ ResponseSoFar'
    BY <1>1, <1>3 DEF IInv, AddOption, ResponseIsOwn, ResponseSoFar, Responding, Due
  <1>5. ContextIsOwn' /\ LeaseIsOwn' /\ NothingSaved' /\ HookServesClient'
    BY <1>1 DEF IInv, AddOption, ContextIsOwn, LeaseIsOwn, NothingSaved, HookServesClient, Working,
       Responding, IsAddress, Due
  <1> QED
    BY <1>1, <1>2, <1>3, <1>4, <1>5 DEF IInv

\* Return: every option is in.
LEMMA ReturnStep == IInv /\ Return => IInv'
  <1> SUFFICES ASSUME IInv, Return PROVE IInv'
    OBVIOUS
  <1>1. TypeOK'
    BY DEF IInv, TypeOK, Return, loop
  <1>2. HookServesClient'
    BY DEF IInv, Return, ResponseSoFar, HookServesClient, Due
  <1>3. ContextIsOwn' /\ LeaseIsOwn' /\ ResponseIsOwn' /\ ResponseSoFar' /\ NothingSaved'
    BY DEF IInv, Return, ContextIsOwn, Due, Working, Responding, LeaseIsOwn, IsAddress,
       ResponseIsOwn, ResponseSoFar, NothingSaved
  <1> QED
    BY <1>1, <1>2, <1>3 DEF IInv

\* Sent: the packet is gone.
LEMMA SentStep == IInv /\ Sent => IInv'
  <1> SUFFICES ASSUME IInv, Sent PROVE IInv'
    OBVIOUS
  <1>1. TypeOK'
    BY DEF IInv, TypeOK, Sent, loop
  <1>2. /\ ContextIsOwn' /\ LeaseIsOwn' /\ ResponseIsOwn' /\ ResponseSoFar'
        /\ NothingSaved' /\ HookServesClient'
    BY DEF IInv, Sent, ContextIsOwn, Due, Working, Responding, LeaseIsOwn, IsAddress, ResponseIsOwn,
       ResponseSoFar, NothingSaved, HookServesClient
  <1> QED
    BY <1>1, <1>2 DEF IInv

\* Expire: the saved lease is gone.
LEMMA ExpireStep == IInv /\ Expire => IInv'
  <1> SUFFICES ASSUME IInv, Expire PROVE IInv'
    OBVIOUS
  <1>1. TypeOK'
    BY DEF IInv, TypeOK, Expire, loop
  <1>2. NothingSaved'
    BY Distinctness DEF IInv, Expire, NothingSaved, Addresses
  <1>3. ContextIsOwn' /\ LeaseIsOwn' /\ ResponseIsOwn' /\ ResponseSoFar' /\ HookServesClient'
    BY DEF IInv, Expire, ContextIsOwn, Due, Working, Responding, LeaseIsOwn, IsAddress,
       ResponseIsOwn, ResponseSoFar, HookServesClient
  <1> QED
    BY <1>1, <1>2, <1>3 DEF IInv

-----------------------------------------------------------------------------
\* The invariant: where the addresses in flight come from.
THEOREM Invariance == Spec => []IInv
  <1>1. IInv /\ UNCHANGED vars => IInv'
    BY DEF IInv, vars, loop, TypeOK, ContextIsOwn, LeaseIsOwn, ResponseIsOwn, ResponseSoFar,
           NothingSaved, HookServesClient, Working, Responding, IsAddress, Due
  <1>2. IInv /\ [Next]_vars => IInv'
    BY <1>1, ArriveStep, Pkt4ReceiveStep, ProposeStep, RenewStep, RefuseStep, Lease4SelectStep,
       AllocateStep, Pkt4SendStep, DelOptionStep, AddOptionStep, ReturnStep, SentStep, ExpireStep
       DEF Next
  <1> QED
    BY InitInvariant, <1>2, PTL DEF Spec

\* Every variable has its type.
THEOREM TypeCorrect == Spec => []TypeOK
  <1>1. IInv => TypeOK
    BY DEF IInv
  <1> QED
    BY Invariance, <1>1, PTL

\* What leaves Kea is all the hook's or, but for its type, all Kea's, for any
\* number of options: pkt4_send of facebook-trick and stress-test never raises
\* once it has set the address.
THEOREM ClientServed == Spec => []HookServesClient
  <1>1. IInv => HookServesClient
    BY DEF IInv
  <1> QED
    BY Invariance, <1>1, PTL

\* No address that the hook gives gets into the lease database.
THEOREM DatabaseClean == Spec => []NothingSaved
  <1>1. IInv => NothingSaved
    BY DEF IInv
  <1> QED
    BY Invariance, <1>1, PTL

\* With stress-test no address that another query named is in the lease or in the
\* response.
THEOREM NobodyElsesAddress == Spec => []OwnAddress
  <1>1. IInv => OwnAddress
    <2> SUFFICES ASSUME IInv, hook = "stress-test"
                 PROVE  /\ stage \in {"select", "selected"} => lease \in Offered \cup Named
                        /\ Responding => response.yiaddr \in Offered \cup {Unset} \cup Named
      BY DEF OwnAddress, Named, Responding
    <2>1. Due = query.agent
      BY DEF Due
    <2>2. Working /\ IsAddress(context) => context \in Named
      BY <2>1, Distinctness DEF IInv, ContextIsOwn, IsAddress, Named
    <2> QED
      BY <2>1, <2>2 DEF IInv, LeaseIsOwn, ResponseIsOwn, Working, Named
  <1> QED
    BY Invariance, <1>1, PTL
=============================================================================
