------------------------- MODULE HookLifecycle_proofs -------------------------
(***************************************************************************)
(* The registry first: for every set of hooks, commands, callables and     *)
(* closures, a hook module that uses every name once never leaves Kea with *)
(* a freed or a reused closure, whatever Kea refuses and however a load    *)
(* fails.  Then load() and unload(), wherever a load fails: what one       *)
(* brings up the other takes down, in time and only once, and the registry *)
(* keeps its promise.                                                      *)
(***************************************************************************)
EXTENDS HookLifecycle, TLAPS

-----------------------------------------------------------------------------
(* The registry.                                                           *)

\* The strengthening: Kea's addresses are those the dict has under the
\* callout's name, and the dict has nothing yet under the names of the hooks
\* that register_callouts still has to look at.
TableInDict ==
  stage # "unregistered" => \A e \in table : callout_closures[e.point[2]] = e.addr

HooksAhead ==
  /\ stage = "load" => i = 1
  /\ stage \in {"load", "loop"} =>
       \A j \in i .. Len(HookOrder) : callout_closures[HookOrder[j]] = NoClosure

EmptyOutside ==
  /\ stage = "unloaded" => table = {}
  /\ stage \in {"unloaded", "unregistered"} =>
       \A n \in Names : callout_closures[n] = NoClosure

IInv == /\ TypeOK
        /\ CalloutsIntact
        /\ ClosuresOwned
        /\ TableInDict
        /\ HooksAhead
        /\ EmptyOutside

-----------------------------------------------------------------------------
\* A hook name is one of the dict's names, found at its place in hooks[].
LEMMA HookAt ==
  ASSUME NEW j \in 1 .. Len(HookOrder)
  PROVE  HookOrder[j] \in Hooks /\ HookOrder[j] \in Names /\ HookOrder[j] \in Callables
BY DEF Hooks, Names, Callables

\* A closure added under an unused name is owned by that name alone, and
\* changes no other closure.
LEMMA AddClosureOwned ==
  ASSUME TypeOK, ClosuresOwned,
         NEW n \in Names, NEW f \in Callables, NEW c \in Closures,
         callout_closures[n] = NoClosure,
         AddClosure(n, f, c)
  PROVE  /\ ClosuresOwned'
         /\ heap[c] = NoCallout
         /\ heap' = [heap EXCEPT ![c] = f]
         /\ callout_closures' = [callout_closures EXCEPT ![n] = c]
<1>1. heap' = [heap EXCEPT ![c] = f]
  BY NullAssumption DEF AddClosure, TypeOK
<1>2. f # NoCallout
  BY NullAssumption
<1>3. \A m \in Names : callout_closures[m] # c
  BY DEF AddClosure, ClosuresOwned
<1>4. heap'[c] = f /\ \A d \in Closures \ {c} : heap'[d] = heap[d]
  BY <1>1 DEF TypeOK
<1>5. callout_closures'[n] = c
      /\ \A m \in Names \ {n} : callout_closures'[m] = callout_closures[m]
  BY DEF AddClosure, TypeOK
<1>6. \A d \in Closures : heap'[d] # NoCallout <=> \E m \in Names : callout_closures'[m] = d
  <2> SUFFICES ASSUME NEW d \in Closures
               PROVE  heap'[d] # NoCallout <=> \E m \in Names : callout_closures'[m] = d
    OBVIOUS
  <2>1. CASE d = c
    BY <2>1, <1>2, <1>4, <1>5
  <2>2. CASE d # c
    BY <2>2, <1>4, <1>5, NullAssumption DEF ClosuresOwned
  <2> QED
    BY <2>1, <2>2
<1>7. \A m, k \in Names :
        callout_closures'[m] = callout_closures'[k] /\ callout_closures'[m] # NoClosure => m = k
  BY <1>3, <1>5 DEF ClosuresOwned
<1> QED
  BY <1>1, <1>6, <1>7 DEF AddClosure, ClosuresOwned

\* Adding a closure under an unused name keeps what Kea's table relies on,
\* whether Kea then accepts the callout or refuses it.
LEMMA AddClosureTable ==
  ASSUME IInv, stage # "unregistered", stage' # "unregistered",
         NEW k \in {"hook", "command"}, NEW n \in Names, NEW f \in Callables,
         NEW c \in Closures,
         callout_closures[n] = NoClosure,
         AddClosure(n, f, c),
         Accepted(<<k, n>>, f, c) \/ UNCHANGED table
  PROVE  /\ table' \subseteq Callouts
         /\ table \subseteq table'
         /\ CalloutsIntact'
         /\ ClosuresOwned'
         /\ TableInDict'
<1> DEFINE e0 == [point |-> <<k, n>>, addr |-> c, runs |-> f]
<1>1. /\ ClosuresOwned'
      /\ heap[c] = NoCallout
      /\ heap' = [heap EXCEPT ![c] = f]
      /\ callout_closures' = [callout_closures EXCEPT ![n] = c]
  BY AddClosureOwned DEF IInv
<1>2. e0 \in Callouts /\ e0.point[2] = n /\ e0.addr = c /\ e0.runs = f
  BY DEF Callouts, Points
<1>3. table' = table \cup {e0} \/ table' = table
  BY DEF Accepted
<1>4. \A e \in table : /\ e \in Callouts /\ e.addr \in Closures /\ e.point[2] \in Names
                      /\ e.runs \in Callables
                      /\ heap[e.addr] = e.runs
                      /\ callout_closures[e.point[2]] = e.addr
  BY DEF IInv, TypeOK, CalloutsIntact, TableInDict, Callouts, Points
<1>5. \A e \in table : e.addr # c /\ e.point[2] # n
  BY <1>1, <1>4, NullAssumption
<1>6. \A e \in table : heap'[e.addr] = e.runs /\ callout_closures'[e.point[2]] = e.addr
  BY <1>1, <1>4, <1>5
<1>7. heap'[e0.addr] = e0.runs /\ callout_closures'[e0.point[2]] = e0.addr
  BY <1>1, <1>2 DEF IInv, TypeOK
<1>8. CalloutsIntact' /\ TableInDict'
  BY <1>3, <1>6, <1>7 DEF CalloutsIntact, TableInDict
<1>9. table \subseteq Callouts
  BY DEF IInv, TypeOK
<1>10. table' \subseteq Callouts /\ table \subseteq table'
  <2> HIDE DEF e0
  <2> QED
    BY <1>2, <1>3, <1>9
<1> QED
  BY <1>1, <1>8, <1>10

-----------------------------------------------------------------------------
\* Nothing is registered initially.
LEMMA InitIInv == Init => IInv
<1> SUFFICES ASSUME Init
             PROVE  IInv
  OBVIOUS
<1>1. Len(HookOrder) \in Nat
  BY OrderAssumption
<1>2. TypeOK
  <2>1. stage \in Stages /\ i \in 1 .. Len(HookOrder) + 1
    BY <1>1 DEF Init, Stages
  <2>2. /\ heap \in [Closures -> Callables \cup {NoCallout}]
        /\ callout_closures \in [Names -> Closures \cup {NoClosure}]
    BY DEF Init
  <2>3. attr \in Attributes /\ error \in BOOLEAN
    BY Zenon DEF Init
  <2> QED
    BY <2>1, <2>2, <2>3 DEF Init, TypeOK
<1>3. ClosuresOwned
  BY NullAssumption DEF Init, ClosuresOwned
<1> QED
  BY <1>2, <1>3 DEF Init, IInv, CalloutsIntact, TableInDict, HooksAhead, EmptyOutside

\* registerCommandCallout keeps the invariant.
LEMMA RegisterCommandIInv ==
  ASSUME Distinct, IInv, NEW n \in Names, NEW f \in Handlers, RegisterCommand(n, f)
  PROVE  IInv'
<1>1. /\ stage \in {"load", "loaded"}
      /\ stage' = stage /\ i' = i /\ attr' = attr /\ error' = error /\ running' = running
      /\ n \notin Hooks
      /\ callout_closures[n] = NoClosure
      /\ f \in Callables
  BY DEF RegisterCommand, InPython, MayUse, Callables
<1>2. PICK c \in Closures : /\ AddClosure(n, f, c)
                            /\ Accepted(<<"command", n>>, f, c) \/ UNCHANGED table
  BY DEF RegisterCommand
<1>3. /\ table' \subseteq Callouts
      /\ table \subseteq table'
      /\ CalloutsIntact' /\ ClosuresOwned' /\ TableInDict'
  BY <1>1, <1>2, AddClosureTable
<1>4. TypeOK'
  BY <1>1, <1>2, <1>3 DEF IInv, TypeOK, AddClosure
<1>5. HooksAhead'
  <2>1. \A j \in 1 .. Len(HookOrder) : callout_closures'[HookOrder[j]] = callout_closures[HookOrder[j]]
    BY <1>1, <1>2, HookAt DEF IInv, TypeOK, AddClosure
  <2>2. i \in 1 .. Len(HookOrder) + 1 /\ Len(HookOrder) \in Nat
    BY OrderAssumption DEF IInv, TypeOK
  <2> QED
    BY <1>1, <2>1, <2>2 DEF IInv, HooksAhead
<1>6. EmptyOutside'
  BY <1>1 DEF EmptyOutside
<1> QED
  BY <1>3, <1>4, <1>5, <1>6 DEF IInv

\* So does the step of register_callouts that registers a hook.
LEMMA RegisterHookIInv ==
  ASSUME IInv, RegisterHook
  PROVE  IInv'
<1> DEFINE h == HookOrder[i]
<1>1. /\ stage = "loop" /\ attr' = attr /\ running' = running
      /\ Len(HookOrder) \in Nat
      /\ i \in 1 .. Len(HookOrder)
  BY OrderAssumption DEF RegisterHook, IInv, TypeOK
<1>2. h \in Names /\ h \in Callables /\ callout_closures[h] = NoClosure
  BY <1>1, HookAt DEF IInv, HooksAhead
<1>3. running = NoCallout
  BY <1>1 DEF IInv, TypeOK
<1>4. ASSUME NEW c \in Closures, AddClosure(h, h, c),
             \/ Accepted(<<"hook", h>>, h, c) /\ i' = i + 1 /\ UNCHANGED <<stage, error>>
             \/ error' = TRUE /\ stage' = "loaded" /\ UNCHANGED <<table, i>>
      PROVE  IInv'
  <2>1. /\ table' \subseteq Callouts
        /\ table \subseteq table'
        /\ CalloutsIntact' /\ ClosuresOwned' /\ TableInDict'
    BY <1>1, <1>2, <1>4, AddClosureTable
  <2>2. TypeOK'
    <3>1. heap' \in [Closures -> Callables \cup {NoCallout}]
      BY <1>2, <1>4 DEF IInv, TypeOK, AddClosure
    <3>2. callout_closures' \in [Names -> Closures \cup {NoClosure}]
      BY <1>4 DEF IInv, TypeOK, AddClosure
    <3>3. stage' \in Stages /\ i' \in 1 .. Len(HookOrder) + 1
      BY <1>1, <1>4 DEF IInv, TypeOK, Stages
    <3>4. error' \in BOOLEAN
      BY <1>4, Zenon DEF IInv, TypeOK
    <3> QED
      BY <1>1, <1>3, <2>1, <3>1, <3>2, <3>3, <3>4 DEF IInv, TypeOK
  <2>3. HooksAhead'
    <3>1. \A j \in i + 1 .. Len(HookOrder) : HookOrder[j] # h
      BY <1>1, OrderAssumption
    <3>2. \A j \in i + 1 .. Len(HookOrder) : callout_closures'[HookOrder[j]] = callout_closures[HookOrder[j]]
      BY <1>1, <1>4, <3>1, HookAt DEF IInv, TypeOK, AddClosure
    <3> QED
      BY <1>1, <1>4, <3>2 DEF IInv, HooksAhead
  <2>4. EmptyOutside'
    BY <1>1, <1>4 DEF EmptyOutside
  <2> QED
    BY <2>1, <2>2, <2>3, <2>4 DEF IInv
<1>5. CASE stage' = "failed" /\ UNCHANGED <<heap, callout_closures, table, i, error>>
  BY <1>1, <1>5 DEF IInv, TypeOK, CalloutsIntact, ClosuresOwned, TableInDict, HooksAhead,
                    EmptyOutside, Stages
<1> QED
  BY <1>4, <1>5 DEF RegisterHook

\* And every step that adds no closure.
LEMMA OtherStepIInv ==
  ASSUME IInv,
         Register \/ LoadReturns \/ SkipHook \/ RejectHook \/ LoopEnds \/ Invoke \/ Return
           \/ Unregister \/ Deregister
  PROVE  IInv'
<1>0. Len(HookOrder) \in Nat
  BY OrderAssumption
<1> USE DEF IInv, TypeOK, CalloutsIntact, ClosuresOwned, TableInDict, HooksAhead, EmptyOutside,
            Stages
<1>1. CASE Register
  <2>1. \A j \in 1 .. Len(HookOrder) : callout_closures[HookOrder[j]] = NoClosure
    BY <1>1, HookAt DEF Register
  <2> QED
    BY <1>0, <1>1, <2>1 DEF Register
<1>2. CASE LoadReturns
  BY <1>0, <1>2 DEF LoadReturns
<1>3. CASE SkipHook
  BY <1>0, <1>3 DEF SkipHook
<1>4. CASE RejectHook
  BY <1>4 DEF RejectHook
<1>5. CASE LoopEnds
  BY <1>5 DEF LoopEnds
<1>6. CASE Invoke
  BY <1>6 DEF Invoke
<1>7. CASE Return
  BY <1>7 DEF Return
<1>8. CASE Unregister
  <2>1. \A c \in Closures : heap'[c] = NoCallout
    BY <1>8 DEF Unregister
  <2> QED
    BY <1>8, <2>1, NullAssumption DEF Unregister
<1>9. CASE Deregister
  BY <1>9 DEF Deregister
<1> QED
  BY <1>1, <1>2, <1>3, <1>4, <1>5, <1>6, <1>7, <1>8, <1>9

\* The inductive invariant, for a hook module that uses every name once.
THEOREM Invariance == Distinct /\ Spec => []IInv
<1> SUFFICES ASSUME Distinct
             PROVE  Spec => []IInv
  OBVIOUS
<1>1. Init => IInv
  BY InitIInv
<1>2. IInv /\ [Next]_vars => IInv'
  <2> SUFFICES ASSUME IInv, [Next]_vars
               PROVE  IInv'
    OBVIOUS
  <2>1. ASSUME NEW n \in Names, NEW f \in Handlers, RegisterCommand(n, f)
        PROVE  IInv'
    BY <2>1, RegisterCommandIInv
  <2>2. CASE RegisterHook
    BY <2>2, RegisterHookIInv
  <2>3. CASE UNCHANGED vars
    BY <2>3 DEF vars, IInv, TypeOK, CalloutsIntact, ClosuresOwned, TableInDict, HooksAhead,
                EmptyOutside
  <2> QED
    BY <2>1, <2>2, <2>3, OtherStepIInv DEF Next
<1> QED
  BY <1>1, <1>2, PTL DEF Spec

\* Kea never runs freed or reused closure memory.
THEOREM CalloutsIntactHolds == Distinct /\ Spec => []CalloutsIntact
<1>1. IInv => CalloutsIntact
  BY DEF IInv
<1> QED
  BY <1>1, Invariance, PTL

\* Every closure is owned by the dict, under one name: none leaks.
THEOREM ClosuresOwnedHolds == Distinct /\ Spec => []ClosuresOwned
<1>1. IInv => ClosuresOwned
  BY DEF IInv
<1> QED
  BY <1>1, Invariance, PTL

-----------------------------------------------------------------------------
\* A step that keeps the heap keeps what Kea's table runs.
LEMMA SameRuns ==
  ASSUME IInv, stage # "unregistered", stage' # "unregistered", heap' = heap, table' = table
  PROVE  Runs' = Runs
BY DEF Runs

\* Adding a closure under an unused name adds at most its own callout to
\* what Kea runs.
LEMMA AddClosureRuns ==
  ASSUME IInv, stage # "unregistered", stage' # "unregistered",
         NEW k \in {"hook", "command"}, NEW n \in Names, NEW f \in Callables,
         NEW c \in Closures,
         callout_closures[n] = NoClosure,
         AddClosure(n, f, c),
         Accepted(<<k, n>>, f, c) \/ UNCHANGED table
  PROVE  Runs' = Runs \cup {<<<<k, n>>, f>>} \/ Runs' = Runs
<1> DEFINE e0 == [point |-> <<k, n>>, addr |-> c, runs |-> f]
<1>1. heap[c] = NoCallout /\ heap' = [heap EXCEPT ![c] = f]
  BY AddClosureOwned DEF IInv
<1>2. heap'[c] = f
  BY <1>1 DEF IInv, TypeOK
<1>3. \A e \in table : heap'[e.addr] = heap[e.addr]
  <2> SUFFICES ASSUME NEW e \in table
               PROVE  heap'[e.addr] = heap[e.addr]
    OBVIOUS
  <2>1. e \in Callouts /\ e.addr \in Closures /\ e.runs \in Callables
    BY DEF IInv, TypeOK, Callouts
  <2>2. heap[e.addr] # NoCallout
    BY <2>1, NullAssumption DEF IInv, CalloutsIntact
  <2> QED
    BY <1>1, <2>1, <2>2 DEF IInv, TypeOK
<1>4. Runs = {<<e.point, heap[e.addr]>> : e \in table}
  BY DEF Runs
<1>5. Runs' = {<<e.point, heap'[e.addr]>> : e \in table'}
  BY DEF Runs
<1>6. CASE table' = table
  BY <1>3, <1>4, <1>5, <1>6
<1>7. CASE table' = table \cup {e0}
  <2>1. e0.point = <<k, n>> /\ e0.addr = c
    OBVIOUS
  <2> HIDE DEF e0
  <2>2. Runs' = {<<e.point, heap'[e.addr]>> : e \in table} \cup {<<e0.point, heap'[e0.addr]>>}
    BY <1>5, <1>7
  <2> QED
    BY <1>2, <1>3, <1>4, <2>1, <2>2
<1> QED
  BY <1>6, <1>7 DEF Accepted

\* Closures, dict and table together implement the table of callables: what
\* Kea runs for a point is what was accepted for it, and nothing else.
THEOREM Refinement == Distinct /\ Spec => KeepsPromise
<1> SUFFICES ASSUME Distinct
             PROVE  Spec => KeepsPromise
  OBVIOUS
<1>1. Init => Abstract!Init
  BY DEF Init, Abstract!Init, Runs
<1>2. IInv /\ [Next]_vars => [Abstract!Next]_Runs
  <2> SUFFICES ASSUME IInv, [Next]_vars
               PROVE  [Abstract!Next]_Runs
    OBVIOUS
  <2>1. ASSUME NEW n \in Names, NEW f \in Handlers, RegisterCommand(n, f)
        PROVE  [Abstract!Next]_Runs
    <3>1. PICK c \in Closures : /\ AddClosure(n, f, c)
                                /\ Accepted(<<"command", n>>, f, c) \/ UNCHANGED table
      BY <2>1 DEF RegisterCommand
    <3>2. /\ stage \in {"load", "loaded"} /\ stage' = stage
          /\ callout_closures[n] = NoClosure
          /\ f \in Callables /\ <<"command", n>> \in Points
      BY <2>1 DEF RegisterCommand, InPython, MayUse, Callables, Points
    <3>3. Runs' = Runs \cup {<<<<"command", n>>, f>>} \/ Runs' = Runs
      BY <3>1, <3>2, AddClosureRuns
    <3> QED
      BY <3>2, <3>3 DEF Abstract!Next, Abstract!Accept
  <2>2. CASE RegisterHook
    <3> DEFINE h == HookOrder[i]
    <3>1. /\ stage = "loop" /\ stage' \in {"loop", "loaded", "failed"}
          /\ i \in 1 .. Len(HookOrder)
      BY <2>2, OrderAssumption DEF RegisterHook, IInv, TypeOK
    <3>2. /\ h \in Names /\ h \in Callables /\ <<"hook", h>> \in Points
          /\ callout_closures[h] = NoClosure
      BY <3>1, HookAt DEF IInv, HooksAhead, Points
    <3>3. CASE UNCHANGED <<heap, table>>
      BY <3>1, <3>3, SameRuns
    <3>4. ASSUME NEW c \in Closures, AddClosure(h, h, c),
                 Accepted(<<"hook", h>>, h, c) \/ UNCHANGED table
          PROVE  [Abstract!Next]_Runs
      <4>1. Runs' = Runs \cup {<<<<"hook", h>>, h>>} \/ Runs' = Runs
        BY <3>1, <3>2, <3>4, AddClosureRuns
      <4> QED
        BY <3>2, <4>1 DEF Abstract!Next, Abstract!Accept
    <3> QED
      BY <2>2, <3>3, <3>4 DEF RegisterHook
  <2>3. CASE Register \/ LoadReturns \/ SkipHook \/ RejectHook \/ LoopEnds \/ Invoke \/ Return
    <3>1. stage # "unregistered" /\ stage' # "unregistered" /\ heap' = heap /\ table' = table
      BY <2>3 DEF Register, LoadReturns, SkipHook, RejectHook, LoopEnds, Invoke, Return,
                  IInv, TypeOK
    <3> QED
      BY <3>1, SameRuns
  <2>4. CASE Unregister \/ Deregister
    <3>1. Runs' = {}
      BY <2>4 DEF Unregister, Deregister, Runs
    <3> QED
      BY <3>1 DEF Abstract!Next, Abstract!Clear
  <2>5. CASE UNCHANGED vars
    BY <2>5 DEF vars, Runs
  <2> QED
    BY <2>1, <2>2, <2>3, <2>4, <2>5 DEF Next
<1> QED
  BY <1>1, <1>2, Invariance, PTL DEF Spec, KeepsPromise, Abstract!Spec

-----------------------------------------------------------------------------
(* load() and unload().                                                    *)

\* From the step after the one that brings something up until unload() takes
\* it down.
HasErrors == {"register", "registering", "loaded"}
HasHook   == HasErrors \cup {"errors"}
HasLogger == HasHook \cup {"import"}
HasCapsule == HasLogger \cup {"path"}
HasPython == HasCapsule \cup {"capsule"}
NoPython  == {"out", "dlopen", "symbols", "initialize", "dlclose", "close"}

\* Where the registry is at each step.
StageAt ==
  /\ at = "loaded" => stage = "loaded"
  /\ at = "failed" => stage \in {"unloaded", "failed"}
  /\ at = "failed" /\ stage = "failed" => so.kea_capsule
  /\ at \in {"finalize", "dlclose", "close"} => stage \in {"unloaded", "unregistered"}
  /\ at = "registering" => stage \in {"load", "loop", "loaded", "failed"}
  /\ at \in {"out", "dlopen", "symbols", "initialize", "capsule", "path", "import", "errors",
             "register"} => stage = "unloaded"
  /\ running # NoCallout => at = "loaded"

AllSymbols == Resolved(Len(Symbols))

\* The interpreter lives between Initialize and Finalize, which it can always
\* reach, and Kea's thread has its GIL unless Kea runs no callout.
PythonAt ==
  /\ at \in HasPython => interp
  /\ at \in NoPython => ~interp
  /\ interp \/ at = "initialize" => so.symbols = AllSymbols /\ so.libpython
  /\ gil <=> interp /\ ~(at = "loaded" /\ running = NoCallout)
  /\ module.allowed_threads <=> at = "loaded" /\ running = NoCallout
  /\ at = "loaded" => module.embedded_mode

\* What libkea_python.so and the extension module hold at each step.
HeldAt ==
  /\ at = "symbols" => so.libpython
  /\ at \in {"out", "dlopen", "close"} => ~so.libpython
  /\ at \in HasCapsule => so.kea_capsule
  /\ at \in HasLogger => kea_logger = "Logger"
  /\ at \in HasHook => module.hook_module
  /\ at \in HasErrors => module.traceback_module
  /\ kea_logger = "Logger" \/ module.hook_module \/ module.traceback_module =>
       so.kea_capsule /\ at \in HasLogger \cup {"failed"}

\* Statics that start afresh are never left from an earlier load().
NoneStale ==
  ~MayStayMapped =>
    /\ so.kea_capsule => interp \/ at \in {"finalize", "dlclose", "close"}
    /\ so.symbols # {} => so.libpython \/ at = "close"

LInv == LifecycleTypeOK /\ StageAt /\ PythonAt /\ HeldAt /\ NoneStale
-----------------------------------------------------------------------------
(* The registry within the lifecycle.                                      *)

\* Every step of load(), unload() and Kea is one of the registry or leaves it
\* alone.
LEMMA RegistryKept == [LifecycleNext]_lvars => [Next]_vars
<1> SUFFICES ASSUME [LifecycleNext]_lvars
             PROVE  [Next]_vars
  OBVIOUS
<1>1. ASSUME UNCHANGED registry
      PROVE  [Next]_vars
  BY <1>1 DEF registry, vars
<1>2. CASE UNCHANGED lvars
  BY <1>1, <1>2 DEF lvars
<1>3. CASE LoadStep
  BY <1>1, <1>3 DEF LoadStep, CheckParameters, DlOpen, LoadSymbols, Initialize, ImportCapsule,
                    InsertPath, ImportHook, InitializeErrors, RegisterCallouts, Loaded,
                    RegisterFailed, Next
<1>4. CASE RegistryStep
  BY <1>4 DEF RegistryStep, Next
<1>5. CASE EnterCallout \/ LeaveCallout
  BY <1>5 DEF EnterCallout, LeaveCallout, Next
<1>6. CASE UnloadStep
  BY <1>1, <1>6 DEF UnloadStep, UnloadCapsule, Finalize, DlClose, KeaCloses, Next
<1> QED
  BY <1>2, <1>3, <1>4, <1>5, <1>6 DEF LifecycleNext

\* load() and unload() use the registry as it is meant to be used: whatever is
\* proved of the registry by itself holds of it within the library.
THEOREM LifecycleUsesRegistry == LifecycleSpec => Spec
<1>1. LifecycleInit => Init
  BY DEF LifecycleInit
<1> QED
  BY <1>1, RegistryKept, PTL DEF LifecycleSpec, Spec

-----------------------------------------------------------------------------
(* The steps of load().                                                    *)

\* Nothing is loaded.
LEMMA InitLInv == LifecycleInit /\ TypeOK => LInv
<1> SUFFICES ASSUME LifecycleInit, TypeOK
             PROVE  LInv
  OBVIOUS
<1>1. stage = "unloaded" /\ running = NoCallout
  BY DEF LifecycleInit, Init
<1>2. LifecycleTypeOK
  BY DEF LifecycleInit, LifecycleTypeOK, FreshStatics, Steps
<1> QED
  BY <1>1, <1>2 DEF LInv, StageAt, PythonAt, HeldAt, NoneStale, LifecycleInit, FreshStatics,
     HasErrors, HasHook, HasLogger, HasCapsule, HasPython, NoPython

\* The symbols are four, Py_Finalize among them.
LEMMA TheSymbols ==
  /\ Len(Symbols) = 4
  /\ AllSymbols = {"Py_Initialize", "PyEval_InitThreads", "Py_Finalize", "PyCapsule_Import"}
<1>1. Len(Symbols) = 4
  BY DEF Symbols
<1>2. AllSymbols = {Symbols[1], Symbols[2], Symbols[3], Symbols[4]}
  BY <1>1 DEF AllSymbols, Resolved
<1> QED
  BY <1>1, <1>2 DEF Symbols

\* The steps before there is an interpreter.
LEMMA OpeningLInv ==
  ASSUME LInv, TypeOK', CheckParameters \/ DlOpen
  PROVE  LInv'
<1> USE DEF LInv, StageAt, PythonAt, HeldAt, NoneStale, HasErrors, HasHook, HasLogger, HasCapsule,
            HasPython, NoPython, Step, registry
<1>1. CASE CheckParameters
  BY <1>1 DEF CheckParameters, LifecycleTypeOK, Steps
<1>2. CASE DlOpen
  BY <1>2 DEF DlOpen, LifecycleTypeOK, Steps
<1> QED
  BY <1>1, <1>2

\* dlsym finds all symbols or some.
LEMMA SymbolsLInv ==
  ASSUME LInv, TypeOK', LoadSymbols
  PROVE  LInv'
<1>1. PICK k \in 0 .. 4 :
        /\ k = 4 <=> at' = "initialize"
        /\ so' = [so EXCEPT !.symbols = (@ \cup Resolved(k)) \
                                          {Symbols[j] : j \in {k + 1} \cap DOMAIN Symbols}]
  BY TheSymbols DEF LoadSymbols
<1>2. /\ at = "symbols" /\ at' \in {"initialize", "failed"} /\ stage = "unloaded"
      /\ UNCHANGED <<registry, interp, gil, kea_logger, module>>
      /\ ~interp /\ so.libpython
  BY DEF LoadSymbols, Step, LInv, StageAt, PythonAt, HeldAt, NoPython
<1>3. so \in [libpython : BOOLEAN, symbols : SUBSET AllSymbols, kea_capsule : BOOLEAN]
  BY DEF LInv, LifecycleTypeOK, AllSymbols
<1>4. Resolved(k) \subseteq AllSymbols
  BY TheSymbols DEF Resolved, AllSymbols
<1>5. DOMAIN Symbols = 1 .. 4
  BY DEF Symbols
<1>6. /\ so'.libpython = so.libpython /\ so'.kea_capsule = so.kea_capsule
      /\ so'.symbols = (so.symbols \cup Resolved(k)) \
                         {Symbols[j] : j \in {k + 1} \cap DOMAIN Symbols}
      /\ so' \in [libpython : BOOLEAN, symbols : SUBSET AllSymbols, kea_capsule : BOOLEAN]
  BY <1>1, <1>3, <1>4
<1>7. at' = "initialize" => so'.symbols = AllSymbols
  <2> SUFFICES ASSUME k = 4
               PROVE  so'.symbols = AllSymbols
    BY <1>1
  <2>1. {k + 1} \cap DOMAIN Symbols = {}
    BY <1>5
  <2>2. Resolved(k) = AllSymbols
    BY TheSymbols DEF AllSymbols
  <2> QED
    BY <1>3, <1>6, <2>1, <2>2
<1>8. LifecycleTypeOK'
  BY <1>2, <1>6 DEF LInv, LifecycleTypeOK, Steps, AllSymbols
<1>9. StageAt' /\ HeldAt' /\ NoneStale'
  BY <1>2, <1>6 DEF LInv, StageAt, HeldAt, NoneStale, registry, HasErrors, HasHook, HasLogger,
                    HasCapsule
<1>10. PythonAt'
  BY <1>2, <1>6, <1>7 DEF LInv, PythonAt, registry, HasErrors, HasHook, HasLogger, HasCapsule,
                          HasPython, NoPython, AllSymbols
<1> QED
  BY <1>8, <1>9, <1>10 DEF LInv

\* The steps with the interpreter that load() made.
LEMMA PreparingLInv ==
  ASSUME LInv, TypeOK',
         Initialize \/ ImportCapsule \/ InsertPath \/ ImportHook \/ InitializeErrors
  PROVE  LInv'
<1> USE DEF LInv, StageAt, PythonAt, HeldAt, NoneStale, HasErrors, HasHook, HasLogger, HasCapsule,
            HasPython, NoPython, Step, registry
<1>1. CASE Initialize
  BY <1>1 DEF Initialize, LifecycleTypeOK, Steps
<1>2. CASE ImportCapsule
  BY <1>2 DEF ImportCapsule, LifecycleTypeOK, Steps
<1>3. CASE InsertPath
  BY <1>3 DEF InsertPath, LifecycleTypeOK, Steps
<1>4. CASE ImportHook
  BY <1>4 DEF ImportHook, LifecycleTypeOK, Steps
<1>5. CASE InitializeErrors
  BY <1>5 DEF InitializeErrors, LifecycleTypeOK, Steps
<1> QED
  BY <1>1, <1>2, <1>3, <1>4, <1>5

\* Registering callouts, and the end of load().
LEMMA RegisteringLInv ==
  ASSUME LInv, TypeOK', RegisterCallouts \/ Loaded \/ RegisterFailed
  PROVE  LInv'
<1> USE DEF LInv, StageAt, PythonAt, HeldAt, NoneStale, HasErrors, HasHook, HasLogger, HasCapsule,
            HasPython, NoPython, Step, registry
<1>1. CASE RegisterCallouts
  BY <1>1 DEF RegisterCallouts, Register, LifecycleTypeOK, Steps
<1>2. CASE Loaded
  BY <1>2 DEF Loaded, LifecycleTypeOK, Steps
<1>3. CASE RegisterFailed
  BY <1>3 DEF RegisterFailed, LifecycleTypeOK, Steps
<1> QED
  BY <1>1, <1>2, <1>3

-----------------------------------------------------------------------------
(* Kea with the library, and unload().                                     *)

\* Registering is over in one of three ways, and callouts and threads leave a
\* loaded library loaded.
LEMMA RegistryLInv ==
  ASSUME LInv, TypeOK', RegistryStep
  PROVE  LInv'
<1>1. UNCHANGED lifecycle /\ running' = running /\ at \in {"registering", "loaded"}
  BY DEF RegistryStep, LoadReturns, RegisterHook, SkipHook, RejectHook, LoopEnds, RegisterCommand
<1>2. /\ at = "loaded" => stage' = "loaded"
      /\ at = "registering" => stage' \in {"load", "loop", "loaded", "failed"}
  BY DEF RegistryStep, LoadReturns, RegisterHook, SkipHook, RejectHook, LoopEnds, RegisterCommand,
         LInv, StageAt
<1> QED
  BY <1>1, <1>2 DEF lifecycle, LInv, LifecycleTypeOK, StageAt, PythonAt, HeldAt, NoneStale

\* A callout has the GIL while it runs, and gives it up.
LEMMA CalloutLInv ==
  ASSUME LInv, TypeOK', EnterCallout \/ LeaveCallout
  PROVE  LInv'
<1> USE DEF LInv, StageAt, PythonAt, HeldAt, NoneStale, HasErrors, HasHook, HasLogger, HasCapsule,
            HasPython, NoPython
<1>1. CASE EnterCallout
  <2>1. running = NoCallout /\ running' \in table /\ stage' = stage
    BY <1>1 DEF EnterCallout, Invoke
  <2>2. running' # NoCallout
    BY <2>1, NullAssumption DEF LifecycleTypeOK, TypeOK
  <2> QED
    BY <1>1, <2>1, <2>2 DEF EnterCallout, LifecycleTypeOK
<1>2. CASE LeaveCallout
  <2>1. running # NoCallout /\ running' = NoCallout /\ stage' = stage
    BY <1>2 DEF LeaveCallout, Return
  <2> QED
    BY <1>2, <2>1 DEF LeaveCallout, LifecycleTypeOK
<1> QED
  BY <1>1, <1>2

\* Everything Kea_Load made is let go of, if it made anything.
LEMMA UnloadCapsuleLInv ==
  ASSUME LInv, TypeOK', UnloadCapsule
  PROVE  LInv'
<1>1. /\ at \in {"loaded", "failed"} /\ at' = "finalize" /\ running = NoCallout
      /\ so' = so /\ interp' = interp
  BY DEF UnloadCapsule
<1>2. stage' \in {"unloaded", "unregistered"} /\ running' = NoCallout
  <2>1. ~so.kea_capsule => stage = "unloaded"
    BY <1>1 DEF LInv, StageAt, HeldAt, HasCapsule, HasLogger, HasHook, HasErrors
  <2> QED
    BY <1>1, <2>1 DEF UnloadCapsule, Unregister, registry
<1>3. /\ kea_logger' = "None" /\ gil' \in BOOLEAN
      /\ module' \in [hook_module : BOOLEAN, traceback_module : BOOLEAN,
                      embedded_mode : BOOLEAN, allowed_threads : BOOLEAN]
      /\ ~module'.hook_module /\ ~module'.traceback_module
      /\ ~module'.allowed_threads
      /\ gil' <=> interp
  <2>1. CASE so.kea_capsule
    <3>1. module' = [hook_module |-> FALSE, traceback_module |-> FALSE,
                     embedded_mode |-> module.embedded_mode,
                     allowed_threads |-> module.allowed_threads /\ ~module.embedded_mode]
      BY <1>1, <2>1 DEF UnloadCapsule, LInv, LifecycleTypeOK
    <3>2. module.allowed_threads => module.embedded_mode
      BY <1>1 DEF LInv, PythonAt
    <3>3. /\ module.embedded_mode \in BOOLEAN /\ module.allowed_threads \in BOOLEAN
          /\ gil \in BOOLEAN /\ interp \in BOOLEAN
      BY DEF LInv, LifecycleTypeOK
    <3>4. kea_logger' = "None" /\ gil' = (gil \/ (module.embedded_mode /\ module.allowed_threads))
      BY <2>1 DEF UnloadCapsule
    <3>5. /\ gil <=> interp /\ at # "loaded"
          /\ module.allowed_threads <=> at = "loaded"
          /\ at = "loaded" => interp
      BY <1>1 DEF LInv, PythonAt, HasPython, HasCapsule, HasLogger, HasHook, HasErrors
    <3>6. gil' <=> interp
      BY <3>2, <3>3, <3>4, <3>5
    <3> QED
      BY <3>1, <3>2, <3>3, <3>4, <3>6
  <2>2. CASE ~so.kea_capsule
    <3>1. at = "failed" /\ UNCHANGED <<gil, kea_logger, module>>
      BY <1>1, <2>2 DEF UnloadCapsule, LInv, HeldAt, HasCapsule, HasLogger, HasHook, HasErrors
    <3> QED
      BY <2>2, <3>1 DEF LInv, LifecycleTypeOK, PythonAt, HeldAt
  <2> QED
    BY <2>1, <2>2
<1>4. LifecycleTypeOK'
  BY <1>1, <1>3 DEF LInv, LifecycleTypeOK, Steps
<1>5. StageAt' /\ HeldAt' /\ NoneStale'
  BY <1>1, <1>2, <1>3 DEF LInv, StageAt, HeldAt, NoneStale, HasCapsule, HasLogger, HasHook, HasErrors
<1>6. PythonAt'
  BY <1>1, <1>2, <1>3 DEF LInv, PythonAt, HasPython, HasCapsule, HasLogger, HasHook, HasErrors,
                          NoPython
<1> QED
  BY <1>4, <1>5, <1>6 DEF LInv

\* The interpreter goes, libpython, and libkea_python.so.
LEMMA ClosingLInv ==
  ASSUME LInv, TypeOK', Finalize \/ DlClose \/ KeaCloses
  PROVE  LInv'
<1>1. CASE Finalize \/ DlClose
  <2> USE DEF LInv, StageAt, PythonAt, HeldAt, NoneStale, HasErrors, HasHook, HasLogger, HasCapsule,
              HasPython, NoPython, registry
  <2>1. CASE Finalize
    BY <2>1, TheSymbols DEF Finalize, LifecycleTypeOK, Steps
  <2>2. CASE DlClose
    BY <2>2 DEF DlClose, LifecycleTypeOK, Steps
  <2> QED
    BY <1>1, <2>1, <2>2
<1>2. CASE KeaCloses
  <2>1. /\ at = "close" /\ at' = "out" /\ stage' = "unloaded" /\ running' = running
        /\ UNCHANGED <<interp, gil, kea_logger, module>>
    BY <1>2 DEF KeaCloses, Deregister, registry
  <2>2. /\ so' = FreshStatics \/ (MayStayMapped /\ so' = so)
        /\ ~so.libpython
    BY <1>2 DEF KeaCloses, LInv, HeldAt
  <2>3. /\ so' \in [libpython : BOOLEAN, symbols : SUBSET AllSymbols, kea_capsule : BOOLEAN]
        /\ ~so'.libpython
        /\ ~MayStayMapped => so' = FreshStatics
    <3> DEFINE T == [libpython : BOOLEAN, symbols : SUBSET AllSymbols, kea_capsule : BOOLEAN]
    <3>1. FreshStatics \in T /\ ~FreshStatics.libpython
      BY DEF FreshStatics
    <3>2. so \in T
      BY DEF LInv, LifecycleTypeOK, AllSymbols
    <3> QED
      BY <2>2, <3>1, <3>2
  <2>4. LifecycleTypeOK'
    BY <2>1, <2>3 DEF LInv, LifecycleTypeOK, Steps, AllSymbols
  <2>5. StageAt' /\ PythonAt'
    BY <2>1 DEF LInv, StageAt, PythonAt, HasPython, HasCapsule, HasLogger, HasHook, HasErrors,
                NoPython
  <2>6. HeldAt' /\ NoneStale'
    BY <2>1, <2>3 DEF LInv, LifecycleTypeOK, HeldAt, NoneStale, FreshStatics, HasPython, HasCapsule,
                      HasLogger, HasHook, HasErrors
  <2> QED
    BY <2>4, <2>5, <2>6 DEF LInv
<1> QED
  BY <1>1, <1>2

-----------------------------------------------------------------------------
\* The inductive invariant of load() and unload().
THEOREM LifecycleInvariance == Distinct /\ LifecycleSpec => []LInv
<1> SUFFICES ASSUME Distinct
             PROVE  LifecycleSpec => []LInv
  OBVIOUS
<1>1. LifecycleInit /\ TypeOK => LInv
  BY InitLInv
<1>2. LInv /\ TypeOK' /\ [LifecycleNext]_lvars => LInv'
  <2> SUFFICES ASSUME LInv, TypeOK', [LifecycleNext]_lvars
               PROVE  LInv'
    OBVIOUS
  <2>1. CASE LoadStep
    BY <2>1, OpeningLInv, SymbolsLInv, PreparingLInv, RegisteringLInv DEF LoadStep
  <2>2. CASE RegistryStep
    BY <2>2, RegistryLInv
  <2>3. CASE EnterCallout \/ LeaveCallout
    BY <2>3, CalloutLInv
  <2>4. CASE UnloadStep
    BY <2>4, UnloadCapsuleLInv, ClosingLInv DEF UnloadStep
  <2>5. CASE UNCHANGED lvars
    BY <2>5 DEF lvars, registry, lifecycle, LInv, LifecycleTypeOK, StageAt, PythonAt, HeldAt,
                NoneStale
  <2> QED
    BY <2>1, <2>2, <2>3, <2>4, <2>5 DEF LifecycleNext
<1>3. IInv => TypeOK
  BY DEF IInv
<1> QED
  BY <1>1, <1>2, <1>3, Invariance, LifecycleUsesRegistry, PTL DEF LifecycleSpec

\* Every variable of the library keeps to its type.
THEOREM LifecycleTypeCorrect == Distinct /\ LifecycleSpec => []LifecycleTypeOK
<1>1. LInv => LifecycleTypeOK
  BY DEF LInv
<1> QED
  BY <1>1, LifecycleInvariance, PTL

\* If closing libkea_python.so unmaps it, unload() never calls into Python
\* without an interpreter or its GIL, nor Py_Finalize of a closed libpython.
THEOREM UnloadCallsLivePythonHolds ==
  Distinct /\ ~MayStayMapped /\ LifecycleSpec => []UnloadCallsLivePython
<1> SUFFICES ASSUME Distinct, ~MayStayMapped
             PROVE  LifecycleSpec => []UnloadCallsLivePython
  OBVIOUS
<1>1. LInv => UnloadCallsLivePython
  <2> SUFFICES ASSUME LInv
               PROVE  UnloadCallsLivePython
    OBVIOUS
  <2>1. CASE at \in {"loaded", "failed"}
    BY <2>1 DEF LInv, PythonAt, NoneStale, UnloadCallsLivePython
  <2>2. CASE at = "finalize"
    BY <2>2 DEF LInv, PythonAt, NoneStale, UnloadCallsLivePython
  <2>3. CASE at \notin {"loaded", "failed", "finalize"}
    BY <2>3 DEF UnloadCallsLivePython
  <2> QED
    BY <2>1, <2>2, <2>3
<1> QED
  BY <1>1, LifecycleInvariance, PTL

\* A load() that returned 0 left the library complete.
THEOREM LoadedIsCompleteHolds == Distinct /\ LifecycleSpec => []LoadedIsComplete
<1>1. LInv => LoadedIsComplete
  BY DEF LInv, LifecycleTypeOK, StageAt, PythonAt, HeldAt, LoadedIsComplete, HasErrors, HasHook,
         HasLogger, HasCapsule, HasPython, AllSymbols
<1> QED
  BY <1>1, LifecycleInvariance, PTL

\* However far load() got, after unload() nothing of it is left, no closure
\* and no callout in Kea's table either.
THEOREM NothingLeftHolds == Distinct /\ LifecycleSpec => []NothingLeft
<1> SUFFICES ASSUME Distinct
             PROVE  LifecycleSpec => []NothingLeft
  OBVIOUS
<1>1. LInv /\ IInv => NothingLeft
  <2> SUFFICES ASSUME LInv, IInv, at = "out"
               PROVE  NothingLeft
    BY DEF NothingLeft
  <2>1. stage = "unloaded"
    BY DEF LInv, StageAt
  <2>2. table = {} /\ \A c \in Closures : heap[c] = NoCallout
    BY <2>1, NullAssumption DEF IInv, EmptyOutside, ClosuresOwned
  <2>3. ~interp /\ ~gil /\ ~so.libpython /\ ~module.allowed_threads
    BY DEF LInv, PythonAt, HeldAt, NoPython
  <2>4. ~module.hook_module /\ ~module.traceback_module /\ kea_logger = "None"
    BY DEF LInv, LifecycleTypeOK, HeldAt, HasErrors, HasHook, HasLogger
  <2> QED
    BY <2>2, <2>3, <2>4 DEF NothingLeft
<1> QED
  BY <1>1, LifecycleInvariance, Invariance, LifecycleUsesRegistry, PTL

\* Within the library too, Kea never runs freed closure memory, no closure
\* leaks, and closures, dict and table implement a table of callables.
THEOREM LibraryKeepsPromise ==
  Distinct /\ LifecycleSpec => []CalloutsIntact /\ []ClosuresOwned /\ KeepsPromise
<1> SUFFICES ASSUME Distinct
             PROVE  LifecycleSpec => []CalloutsIntact /\ []ClosuresOwned /\ KeepsPromise
  OBVIOUS
<1> QED
  BY CalloutsIntactHolds, ClosuresOwnedHolds, Refinement, LifecycleUsesRegistry, PTL
=============================================================================
