------------------------------ MODULE PacketHooks ------------------------------
(***************************************************************************)
(* The packet callouts of examples/facebook-trick and examples/stress-test *)
(* on kea.Pkt4, kea.Option, kea.Lease4 and the callout handle, along the   *)
(* way Kea takes one client's query: pkt4_receive, allocation, with        *)
(* lease4_select for a new lease, the response, pkt4_send.  A callout that *)
(* raises is logged (callout_closure.cc) and Kea goes on, with whatever    *)
(* the callout had done by then.                                           *)
(***************************************************************************)
EXTENDS Naturals, FiniteSets

CONSTANTS Offered,  \* addresses Kea allocates from its pools
          Asked,    \* addresses clients ask for in option 82
          Fixed,    \* the address facebook-trick gives
          Types     \* the option types in config.options

CONSTANTS Unset,    \* no address: the yiaddr of a NAK, or no context
          Garbage   \* a string in option 82 that is no address

ASSUME AddressesAssumption ==
  /\ Fixed \in Asked /\ Offered \cap Asked = {}
  /\ {Unset, Garbage, "missing"} \cap (Offered \cup Asked) = {} /\ Unset # Garbage
ASSUME TypesAssumption == IsFiniteSet(Types)

VARIABLES
  hook,     \* which of the two hooks is loaded
  stage,    \* how far Kea is with the packet
  query,    \* its type, and what option 82 holds
  context,  \* what pkt4_receive left in the packet's context
  skip,     \* lease4_select set the status to NEXT_STEP_SKIP
  lease,    \* the address in the lease4 argument
  response, \* the response: its type, yiaddr and options
  left,     \* the option types pkt4_send has still to put in
  option,   \* the one it is adding
  saved     \* the client's lease in the database

loop == <<left, option>>
vars == <<hook, stage, query, context, skip, lease, response, loop, saved>>

Addresses == Offered \cup Asked

\* Option 82 has no suboption 1 or is missing, or what suboption 1 says.
Agents == {"missing", Garbage} \cup Asked

NoResponse == [type |-> "none", yiaddr |-> Unset, options |-> [t \in Types |-> "none"]]

Init ==
  /\ hook \in {"facebook-trick", "stress-test"}
  /\ stage = "idle"
  /\ query = [type |-> "DISCOVER", agent |-> "missing"]
  /\ context = Unset /\ skip = FALSE /\ lease = Unset
  /\ response = NoResponse /\ left = {} /\ option = Unset
  /\ saved = Unset

-----------------------------------------------------------------------------
\* handle.getArgument: the objects of the packet itself, not copies.
Argument ==
  [query4 |-> query, lease4 |-> lease, response4 |-> response]

\* handle.setStatus of NEXT_STEP_SKIP, or of nothing.
SetStatus(skipping) == skip' = skipping

\* Mutation: what pkt4_receive remembers outlives the packet.
ArriveKeepsContext ==
  /\ stage = "idle"
  /\ \E type \in {"DISCOVER", "REQUEST"}, agent \in Agents :
       query' = [type |-> type, agent |-> agent]
  /\ stage' = "received"
  /\ skip' = FALSE /\ lease' = Unset /\ response' = NoResponse
  /\ UNCHANGED <<hook, context, loop, saved>>

\* A packet arrives, with a callout handle of its own: the context is empty.
Arrive ==
  /\ stage = "idle"
  /\ \E type \in {"DISCOVER", "REQUEST"}, agent \in Agents :
       query' = [type |-> type, agent |-> agent]
  /\ stage' = "received"
  /\ context' = Unset /\ skip' = FALSE /\ lease' = Unset /\ response' = NoResponse
  /\ UNCHANGED <<hook, loop, saved>>

\* pkt4_receive.  stress-test raises without suboption 1 of option 82, and
\* then nothing is bound in the context.
Pkt4Receive ==
  /\ stage = "received"
  /\ \/ hook = "facebook-trick" /\ context' = Fixed
     \/ hook = "stress-test" /\ Argument.query4.agent \in {Garbage} \cup Asked
                             /\ context' = Argument.query4.agent
     \/ hook = "stress-test" /\ Argument.query4.agent = "missing" /\ UNCHANGED context
  /\ stage' = "allocate"
  /\ UNCHANGED <<hook, query, skip, lease, response, loop, saved>>

\* Kea has a new lease for the client in mind.
Propose ==
  /\ stage = "allocate"
  /\ lease' \in Offered
  /\ stage' = "select"
  /\ UNCHANGED <<hook, query, context, skip, response, loop, saved>>

Answers(type, addr) ==
  response' \in [type : {type}, yiaddr : {addr}, options : [Types -> {"none", "kea"}]]

\* A client that has a lease keeps it: there is no lease4_select.
Renew ==
  /\ stage = "allocate"
  /\ saved # Unset
  /\ Answers(IF query.type = "REQUEST" THEN "ACK" ELSE "OFFER", saved)
  /\ stage' = "send"
  /\ UNCHANGED <<hook, query, context, skip, lease, loop, saved>>

\* Kea refuses the request, or has nothing to offer and stays silent.
Refuse ==
  /\ stage = "allocate"
  /\ \/ query.type = "REQUEST" /\ stage' = "send" /\ Answers("NAK", Unset)
     \/ query.type = "DISCOVER" /\ stage' = "idle" /\ UNCHANGED response
  /\ UNCHANGED <<hook, query, context, skip, lease, loop, saved>>

IsAddress(x) == x \in Addresses

\* Mutation: the status is left at NEXT_STEP_CONTINUE.
Lease4SelectContinues ==
  /\ stage = "select"
  /\ lease' = IF IsAddress(context) THEN context ELSE lease
  /\ stage' = "selected"
  /\ UNCHANGED <<hook, query, context, skip, response, loop, saved>>

\* lease4_select.  Setting lease.addr raises when the context is missing or
\* no address, and then the status stays as it is.
Lease4Select ==
  /\ stage = "select"
  /\ IF IsAddress(context)
     THEN lease' = context /\ SetStatus(Argument.query4.type = "REQUEST")
     ELSE UNCHANGED <<lease, skip>>
  /\ stage' = "selected"
  /\ UNCHANGED <<hook, query, context, response, loop, saved>>

\* Kea takes the lease as the callouts left it, unless the status says to
\* skip: then a request is answered with a NAK and no lease is saved.
Allocate ==
  /\ stage = "selected"
  /\ \/ query.type = "DISCOVER" /\ Answers("OFFER", lease) /\ UNCHANGED saved
     \/ query.type = "REQUEST" /\ ~skip /\ Answers("ACK", lease) /\ saved' = lease
     \/ query.type = "REQUEST" /\ skip /\ Answers("NAK", Unset) /\ UNCHANGED saved
  /\ stage' = "send"
  /\ UNCHANGED <<hook, query, context, skip, lease, loop>>

AckType == IF Argument.response4.type = "NAK" THEN "ACK" ELSE Argument.response4.type

\* Mutation: any string is taken for an address.
Pkt4SendUnchecked ==
  /\ stage = "send"
  /\ IF context # Unset
     THEN /\ response' = [response EXCEPT !.type = AckType, !.yiaddr = context]
          /\ stage' = "options" /\ left' = Types
     ELSE /\ response' = [response EXCEPT !.type = AckType]
          /\ stage' = "sent" /\ UNCHANGED left
  /\ UNCHANGED <<hook, query, context, skip, lease, option, saved>>

\* pkt4_send: a NAK becomes an ACK before the context is read.  When that or
\* setting yiaddr raises, the rest is not done.
Pkt4Send ==
  /\ stage = "send"
  /\ IF IsAddress(context)
     THEN /\ response' = [response EXCEPT !.type = AckType, !.yiaddr = context]
          /\ stage' = "options" /\ left' = Types
     ELSE /\ response' = [response EXCEPT !.type = AckType]
          /\ stage' = "sent" /\ UNCHANGED left
  /\ UNCHANGED <<hook, query, context, skip, lease, option, saved>>

\* Mutation: what Kea put in is not deleted.
DelOptionForgets ==
  /\ stage = "options"
  /\ option' \in left
  /\ stage' = "add"
  /\ UNCHANGED <<hook, query, context, skip, lease, response, left, saved>>

\* Then for each option of config.options, in some order: delOption removes what
\* Kea put in ...
DelOption ==
  /\ stage = "options"
  /\ \E t \in left : option' = t /\ response' = [response EXCEPT !.options[t] = "none"]
  /\ stage' = "add"
  /\ UNCHANGED <<hook, query, context, skip, lease, left, saved>>

\* ... and addOption adds the hook's.  It raises when the type is there already,
\* and the options that are left stay as Kea made them.
AddOption ==
  /\ stage = "add"
  /\ IF response.options[option] = "none"
     THEN /\ response' = [response EXCEPT !.options[option] = "config"]
          /\ left' = left \ {option} /\ stage' = "options"
     ELSE /\ UNCHANGED <<response, left>>
          /\ stage' = "sent"
  /\ UNCHANGED <<hook, query, context, skip, lease, option, saved>>

\* All options are in: pkt4_send returns.
Return ==
  /\ stage = "options" /\ left = {}
  /\ stage' = "sent"
  /\ UNCHANGED <<hook, query, context, skip, lease, response, loop, saved>>

\* The packet is sent and destroyed, and with it its context.
Sent ==
  /\ stage = "sent"
  /\ stage' = "idle"
  /\ UNCHANGED <<hook, query, context, skip, lease, response, loop, saved>>

\* The lease expires.
Expire ==
  /\ stage = "idle" /\ saved # Unset
  /\ saved' = Unset
  /\ UNCHANGED <<hook, stage, query, context, skip, lease, response, loop>>

Next ==
  \/ Arrive \/ Pkt4Receive \/ Propose \/ Renew \/ Refuse \/ Lease4Select \/ Allocate
  \/ Pkt4Send \/ DelOption \/ AddOption \/ Return \/ Sent \/ Expire

Spec == Init /\ [][Next]_vars

-----------------------------------------------------------------------------
\* Every variable holds a value of its type, and there is a response from
\* allocation on and none before.
TypeOK ==
  /\ hook \in {"facebook-trick", "stress-test"}
  /\ stage \in {"idle", "received", "allocate", "select", "selected", "send", "options", "add", "sent"}
  /\ query \in [type : {"DISCOVER", "REQUEST"}, agent : Agents]
  /\ context \in Asked \cup {Unset, Garbage}
  /\ skip \in BOOLEAN
  /\ lease \in Addresses \cup {Unset}
  /\ response \in [type : {"none", "OFFER", "ACK", "NAK"}, yiaddr : Addresses \cup {Unset},
                   options : [Types -> {"none", "kea", "config"}]]
  /\ stage \in {"send", "options", "add", "sent"} => response.type # "none"
  /\ stage \in {"received", "allocate", "select", "selected"} => response = NoResponse
  /\ left \subseteq Types
  /\ option \in Types \cup {Unset} /\ (stage = "add" => option \in left)
  /\ saved \in Addresses \cup {Unset}

\* The address the hook has for the client of this query: facebook-trick always
\* the same, stress-test the one in option 82, which may be none.
Due == IF hook = "facebook-trick" THEN Fixed ELSE query.agent

\* What leaves Kea is all the hook's or, but for its type, all Kea's.  A client
\* with an address due is offered or granted that address, whatever Kea had
\* decided, with every configured option in it once and with the hook's value.
\* Another client is sent what Kea answered, with no option of the hook's;
\* only, pkt4_send turns a NAK into an ACK before it reads the context and
\* raises, so that the client's request is granted without an address.
HookServesClient ==
  stage = "sent" =>
    /\ response.type \in {"OFFER", "ACK"}
    /\ IF Due \in Asked
       THEN /\ response.yiaddr = Due
            /\ \A t \in Types : response.options[t] = "config"
       ELSE /\ response.yiaddr \in Offered \cup {Unset}
            /\ response.yiaddr = Unset => query.type = "REQUEST" /\ response.type = "ACK"
            /\ \A t \in Types : response.options[t] # "config"

\* An address that the hook gives is never saved as a lease, and with
\* facebook-trick no lease is.
NothingSaved ==
  /\ saved \notin Asked
  /\ hook = "facebook-trick" => saved = Unset

\* With stress-test neither the lease that Kea goes on with nor the response ever
\* has an address another query asked for: it is the one in this query, or Kea's.
OwnAddress ==
  hook = "stress-test" =>
    LET own == Offered \cup {Unset} \cup ({query.agent} \cap Asked) IN
      /\ stage \in {"select", "selected"} => lease \in own
      /\ stage \in {"send", "options", "add", "sent"} => response.yiaddr \in own
=============================================================================
