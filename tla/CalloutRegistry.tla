---------------------------- MODULE CalloutRegistry ----------------------------
(***************************************************************************)
(* How Python callables become Kea callouts (keamodule/callouts.cc,        *)
(* callout_closure.cc and library_handle.cc).  Each callable gets a libffi *)
(* closure, owned by the dict callout_closures under the callout's name;   *)
(* Kea is given the closure's code address and knows nothing of the dict.  *)
(* The name of a command and the name of a hook are keys of the same dict, *)
(* but different points for Kea.                                           *)
(***************************************************************************)
EXTENDS Naturals, Sequences

CONSTANTS HookOrder,      \* the hook names, in the order of hooks[]
          Commands,       \* command names the hook module may register
          Handlers,       \* Python callables it may register for commands
          Closures,       \* closure memory: addresses are reused once freed
          Distinct,       \* the hook module uses every name once: see MayUse
          NoClosure, NoCallout

Hooks == {HookOrder[j] : j \in 1 .. Len(HookOrder)}
Names == Hooks \cup Commands
Callables == Hooks \cup Handlers
Points == {"hook", "command"} \X Names
Callouts == [point : Points, addr : Closures, runs : Callables]

ASSUME OrderAssumption == /\ HookOrder \in Seq(Hooks)
                          /\ \A j, k \in 1 .. Len(HookOrder) :
                               HookOrder[j] = HookOrder[k] => j = k
ASSUME NullAssumption == NoClosure \notin Closures /\ NoCallout \notin Callouts
                         /\ NoCallout \notin Callables
ASSUME DistinctAssumption == Distinct \in BOOLEAN

VARIABLES
  stage,              \* of the library: see Stages
  attr,               \* what hook_module has under each hook name
  heap,               \* closures: the callable each runs, or NoCallout if freed
  callout_closures,   \* the dict: the closure of each name, or NoClosure
  table,              \* Kea's callout table
  i,                  \* loop counter of register_callouts
  error,              \* a Python exception is set and nobody looks at it
  running             \* the callout Kea is inside, or NoCallout

vars == <<stage, attr, heap, callout_closures, table, i, error, running>>

\* "load" is the hook module's load(), "loop" is register_callouts, and
\* "unregistered" the time between unload() and Kea's own clean-up.
Stages == {"unloaded", "load", "loop", "loaded", "failed", "unregistered"}

Attributes == [Hooks -> {"missing", "callable", "other"}]

\* Python code can be running: load(), or later a callout or a thread of the
\* module, with the LibraryHandle that load() was given.
InPython == stage \in {"load", "loaded"}

\* A hook module that repeats no command and names none after a hook it may
\* define.  The API accepts any name any number of times.
MayUse(n) == Distinct => n \notin Hooks /\ callout_closures[n] = NoClosure

\* Callouts_add_closure puts a new closure for f under name n; the dict held
\* the only reference to the one it replaces, whose memory is freed.
AddClosure(n, f, c) ==
  /\ heap[c] = NoCallout
  /\ heap' = [d \in Closures |-> IF d = c THEN f
                                 ELSE IF d = callout_closures[n] THEN NoCallout
                                 ELSE heap[d]]
  /\ callout_closures' = [callout_closures EXCEPT ![n] = c]

\* Kea appends to the callouts of a point, and may refuse with an exception.
Accepted(p, f, c) == table' = table \cup {[point |-> p, addr |-> c, runs |-> f]}

-----------------------------------------------------------------------------
Init ==
  /\ stage = "unloaded"
  /\ attr \in Attributes
  /\ heap = [c \in Closures |-> NoCallout]
  /\ callout_closures = [n \in Names |-> NoClosure]
  /\ table = {}
  /\ i = 1
  /\ error = FALSE
  /\ running = NoCallout

\* Callouts_register makes the dict; load() is called if the module has one.
Register ==
  /\ stage = "unloaded"
  /\ stage' \in {"load", "loop"}
  /\ i' = 1
  /\ UNCHANGED <<attr, heap, callout_closures, table, error, running>>

\* load() returns 0, or fails: not callable, an exception, not an integer or
\* not zero.  Commands it registered before stay registered.
LoadReturns ==
  /\ stage = "load"
  /\ stage' \in {"loop", "failed"}
  /\ UNCHANGED <<attr, heap, callout_closures, table, i, error, running>>

\* Mutation: Kea is given the address before the closure is put in the dict,
\* and a callable that Kea refuses stays outside it.
RegisterCommandFirst(n, f) ==
  /\ InPython
  /\ MayUse(n)
  /\ \E c \in Closures :
       /\ heap[c] = NoCallout
       /\ heap' = [heap EXCEPT ![c] = f]
       /\ \/ /\ Accepted(<<"command", n>>, f, c)
             /\ callout_closures' = [callout_closures EXCEPT ![n] = c]
          \/ UNCHANGED <<table, callout_closures>>
  /\ UNCHANGED <<stage, attr, i, error, running>>

\* Mutation: the closure is not put in the dict and freed on return.
RegisterCommandUnowned(n, f) ==
  /\ InPython
  /\ MayUse(n)
  /\ \E c \in Closures : /\ heap[c] = NoCallout
                         /\ Accepted(<<"command", n>>, f, c)
  /\ UNCHANGED <<stage, attr, heap, callout_closures, i, error, running>>

\* LibraryHandle.registerCommandCallout(n, f).  When Kea throws, or no
\* closure can be made, the caller gets an exception it may handle.
RegisterCommand(n, f) ==
  /\ InPython
  /\ MayUse(n)
  /\ \E c \in Closures : /\ AddClosure(n, f, c)
                         /\ Accepted(<<"command", n>>, f, c) \/ UNCHANGED table
  /\ UNCHANGED <<stage, attr, i, error, running>>

\* register_callouts, for a hook the module defines as a callable.
RegisterHook ==
  /\ stage = "loop"
  /\ i <= Len(HookOrder)
  /\ attr[HookOrder[i]] = "callable"
  /\ LET h == HookOrder[i] IN
       \/ \E c \in Closures :
            /\ AddClosure(h, h, c)
            /\ \/ /\ Accepted(<<"hook", h>>, h, c)
                  /\ i' = i + 1
                  /\ UNCHANGED <<stage, error>>
               \/ \* Kea threw: the error is set and 0, success, returned
                  /\ error' = TRUE
                  /\ stage' = "loaded"
                  /\ UNCHANGED <<table, i>>
       \/ \* no closure can be made
          /\ stage' = "failed"
          /\ UNCHANGED <<heap, callout_closures, table, i, error>>
  /\ UNCHANGED <<attr, running>>

\* Mutation: "continue" after the counter was advanced already.
SkipHookTwice ==
  /\ stage = "loop"
  /\ i <= Len(HookOrder)
  /\ attr[HookOrder[i]] = "missing"
  /\ i' = i + 2
  /\ UNCHANGED <<stage, attr, heap, callout_closures, table, error, running>>

\* Mutation: "continue" before the counter is advanced.
SkipHookAgain ==
  /\ stage = "loop"
  /\ i <= Len(HookOrder)
  /\ attr[HookOrder[i]] = "missing"
  /\ UNCHANGED vars

\* ... for one it does not define ...
SkipHook ==
  /\ stage = "loop"
  /\ i <= Len(HookOrder)
  /\ attr[HookOrder[i]] = "missing"
  /\ i' = i + 1
  /\ UNCHANGED <<stage, attr, heap, callout_closures, table, error, running>>

\* ... and for one that is something else.
RejectHook ==
  /\ stage = "loop"
  /\ i <= Len(HookOrder)
  /\ attr[HookOrder[i]] = "other"
  /\ stage' = "failed"
  /\ UNCHANGED <<attr, heap, callout_closures, table, i, error, running>>

LoopEnds ==
  /\ stage = "loop"
  /\ i > Len(HookOrder)
  /\ stage' = "loaded"
  /\ UNCHANGED <<attr, heap, callout_closures, table, i, error, running>>

\* Kea runs a callout of a point: CalloutClosure_binding.
Invoke ==
  /\ stage = "loaded"
  /\ running = NoCallout
  /\ running' \in table
  /\ UNCHANGED <<stage, attr, heap, callout_closures, table, i, error>>

\* Whatever error was set is fetched if the callout failed.
Return ==
  /\ running # NoCallout
  /\ running' = NoCallout
  /\ error' \in {error, FALSE}
  /\ UNCHANGED <<stage, attr, heap, callout_closures, table, i>>

\* Kea_Unload, after a failed load too: every closure goes with the dict,
\* while Kea's table still holds the addresses.
Unregister ==
  /\ stage \in {"loaded", "failed"}
  /\ running = NoCallout
  /\ stage' = "unregistered"
  /\ heap' = [c \in Closures |-> IF \E n \in Names : callout_closures[n] = c
                                 THEN NoCallout ELSE heap[c]]
  /\ callout_closures' = [n \in Names |-> NoClosure]
  /\ UNCHANGED <<attr, table, i, error, running>>

\* Kea deregisters the callouts of the library after its unload(); the
\* interpreter and its error are gone, and the module may be edited.
Deregister ==
  /\ stage = "unregistered"
  /\ stage' = "unloaded"
  /\ table' = {}
  /\ error' = FALSE
  /\ attr' \in Attributes
  /\ UNCHANGED <<heap, callout_closures, i, running>>

Next ==
  \/ Register \/ LoadReturns
  \/ \E n \in Names, f \in Handlers : RegisterCommand(n, f)
  \/ RegisterHook \/ SkipHook \/ RejectHook \/ LoopEnds
  \/ Invoke \/ Return
  \/ Unregister \/ Deregister

Spec == Init /\ [][Next]_vars

-----------------------------------------------------------------------------
\* Every variable holds a value of its type, and no callout runs before the
\* library is loaded.
TypeOK ==
  /\ stage \in Stages
  /\ attr \in Attributes
  /\ heap \in [Closures -> Callables \cup {NoCallout}]
  /\ callout_closures \in [Names -> Closures \cup {NoClosure}]
  /\ table \subseteq Callouts
  /\ i \in 1 .. Len(HookOrder) + 1
  /\ error \in BOOLEAN
  /\ running \in table \cup {NoCallout}
  /\ running # NoCallout => stage = "loaded"

\* A callout Kea may run, and the one it is running, still has its closure,
\* which still runs the callable it was registered for: freed closure memory
\* is never executed, nor reused under Kea.
CalloutsIntact ==
  stage # "unregistered" => \A e \in table : heap[e.addr] = e.runs

\* The dict owns every closure, each under one name ("transfer ownership of
\* obj to dict", library_handle.cc:32): none leaks, on a failed load or an
\* exception from Kea either.
ClosuresOwned ==
  /\ \A c \in Closures : heap[c] # NoCallout <=> \E n \in Names : callout_closures[n] = c
  /\ \A m, n \in Names :
       callout_closures[m] = callout_closures[n] /\ callout_closures[m] # NoClosure => m = n

\* The closures behind Kea's table implement a table of callables.
Runs == IF stage = "unregistered" THEN {} ELSE {<<e.point, heap[e.addr]>> : e \in table}
Abstract == INSTANCE CalloutTable WITH runs <- Runs
KeepsPromise == Abstract!Spec
=============================================================================
