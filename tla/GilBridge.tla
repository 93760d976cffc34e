------------------------------ MODULE GilBridge ------------------------------
(***************************************************************************)
(* How Kea's thread and the Python threads share CPython's global          *)
(* interpreter lock (GIL) through begin_allow_threads / end_allow_threads  *)
(* of keamodule/capsule.cc, and who destroys the Python objects that a     *)
(* hook module stored in a Kea CalloutHandle (ObjectHolder).               *)
(*                                                                         *)
(* Kea's DHCP thread runs C++ code, enters Python for a callout, for the   *)
(* destructor of an ObjectHolder and for unloading, and releases the GIL   *)
(* in between so that the threads the hook module started can run.  The    *)
(* same extension module is also imported by an ordinary python process    *)
(* (the unit tests): mode "standalone", where embedded_mode stays false.   *)
(***************************************************************************)
CONSTANTS Kea,        \* Kea's DHCP thread (or the main thread of a script)
          Workers,    \* threads the hook module starts, e.g. start_http_server
          Handles,    \* CalloutHandles, one per packet or command in flight
          Names,      \* names of context entries
          Careless,   \* what the hook module does: see May and Exits
          NoThread, NoHandle

Threads == {Kea} \cup Workers

ASSUME ThreadAssumption == Kea \notin Workers /\ NoThread \notin Threads
ASSUME HandleAssumption == NoHandle \notin Handles
ASSUME CarelessAssumption == Careless \subseteq {"rebind", "retain", "throw"}

VARIABLES
  mode,             \* "embedded" in Kea or "standalone" under python
  lib,              \* what Kea knows of the hook library
  pc,               \* where each thread is
  gil,              \* the thread holding the GIL
  embedded_mode,    \* static bool embedded_mode
  allowed_threads,  \* static bool allowed_threads
  thread_state,     \* static PyThreadState *thread_state, by its thread
  cur,              \* the CalloutHandle of the running callout
  held,             \* handles Kea holds a reference to
  kept,             \* handles Python holds a reference to
  ctx,              \* per handle, the names bound to an ObjectHolder
  dropping,         \* per thread, ObjectHolders it still has to destroy
  nested            \* threads destroying ObjectHolders from Python code

statics == <<embedded_mode, allowed_threads, thread_state>>
objects == <<cur, held, kept, ctx>>
vars == <<mode, lib, pc, gil, statics, objects, dropping, nested>>

\* "want" waits for the GIL in the eval loop, "io" is a system call made
\* without it, "end" .. "save" are the points of end_allow_threads, of the
\* destructor's Py_DECREF and of begin_allow_threads.
Points == {"kea", "off", "io", "want", "python", "end", "decref", "begin", "save"}
Libs == {"script", "none", "loading", "failed", "loaded", "unloading"}

\* Thread x executes Python code or calls the C API.
Executing(x) == pc[x] \in {"python", "decref", "begin"}

\* Rebinding or deleting a context name, and keeping a packet (with its
\* CalloutHandle) after the callout, destroy ObjectHolders from Python code.
\* Nothing in the API forbids either; a script may always do both.
May(op) == mode = "standalone" \/ op \in Careless

Goto(x, point) == pc' = [pc EXCEPT ![x] = point]

\* Where x continues after begin_allow_threads.
Resume(x) == IF dropping[x] # {} THEN "end"
             ELSE IF x \in nested THEN "python" ELSE "kea"

Resumed(x) == nested' = IF dropping[x] # {} THEN nested ELSE nested \ {x}

-----------------------------------------------------------------------------
Init ==
  /\ mode \in {"embedded", "standalone"}
  /\ lib = IF mode = "embedded" THEN "none" ELSE "script"
  /\ pc = [x \in Threads |-> IF x # Kea THEN "off"
                             ELSE IF mode = "embedded" THEN "kea" ELSE "python"]
  /\ gil = IF mode = "embedded" THEN NoThread ELSE Kea
  /\ embedded_mode = FALSE
  /\ allowed_threads = FALSE
  /\ thread_state = NoThread
  /\ cur = NoHandle
  /\ held = {}
  /\ kept = {}
  /\ ctx = [h \in Handles |-> {}]
  /\ dropping = [x \in Threads |-> {}]
  /\ nested = {}

-----------------------------------------------------------------------------
(* Kea's calls of the hook library.                                        *)

\* load(): Py_Initialize leaves the calling thread with the GIL, and the
\* import of the hook module and its load() run under it.
Load ==
  /\ lib = "none"
  /\ pc[Kea] = "kea"
  /\ lib' = "loading"
  /\ gil' = Kea
  /\ Goto(Kea, "python")
  /\ UNCHANGED <<mode, statics, objects, dropping, nested>>

\* Kea_Load succeeds: embedded_mode is set, and never cleared again.
LoadDone ==
  /\ lib = "loading"
  /\ pc[Kea] = "python"
  /\ lib' = "loaded"
  /\ embedded_mode' = TRUE
  /\ Goto(Kea, "begin")
  /\ UNCHANGED <<mode, gil, allowed_threads, thread_state, objects, dropping, nested>>

\* Kea_Load fails: load() returns 1 with the GIL still held.
LoadFails ==
  /\ lib = "loading"
  /\ pc[Kea] = "python"
  /\ lib' = "failed"
  /\ Goto(Kea, "kea")
  /\ UNCHANGED <<mode, gil, statics, objects, dropping, nested>>

\* Kea invokes a bound callout for h, a handle in flight or a new one.
Callout(h) ==
  /\ lib = "loaded"
  /\ pc[Kea] = "kea"
  /\ h \in held \/ h \notin kept
  /\ held' = held \cup {h}
  /\ cur' = h
  /\ Goto(Kea, "end")
  /\ UNCHANGED <<mode, lib, gil, statics, kept, ctx, dropping, nested>>

\* Mutation: an error path returns to Kea without begin_allow_threads.
CalloutReturnsHolding ==
  /\ lib = "loaded"
  /\ pc[Kea] = "python"
  /\ cur' = NoHandle
  /\ Goto(Kea, "kea")
  /\ UNCHANGED <<mode, lib, gil, statics, held, kept, ctx, dropping, nested>>

\* A C++ exception of a constructor that does not catch it (Pkt4, Option and
\* Server of bad arguments) unwinds through the interpreter and the binding,
\* begin_allow_threads included, up to Kea's callout manager.
Exits == {"begin"} \cup {point \in {"kea"} : "throw" \in Careless}

\* The Python callout returns or raises.
CalloutReturns ==
  /\ lib = "loaded"
  /\ pc[Kea] = "python"
  /\ cur' = NoHandle
  /\ \E point \in Exits : Goto(Kea, point)
  /\ UNCHANGED <<mode, lib, gil, statics, held, kept, ctx, dropping, nested>>

\* Mutation: ~ObjectHolder does not call end_allow_threads.
KeaDropsUnlocked(h) ==
  /\ lib = "loaded"
  /\ pc[Kea] = "kea"
  /\ h \in held
  /\ ctx[h] # {}
  /\ held' = held \ {h}
  /\ dropping' = [dropping EXCEPT ![Kea] = ctx[h]]
  /\ ctx' = [ctx EXCEPT ![h] = {}]
  /\ Goto(Kea, "decref")
  /\ UNCHANGED <<mode, lib, gil, statics, cur, kept, nested>>

\* Kea drops its reference to a handle; the last one destroys its context.
KeaDrops(h) ==
  /\ lib = "loaded"
  /\ pc[Kea] = "kea"
  /\ h \in held
  /\ held' = held \ {h}
  /\ IF h \in kept \/ ctx[h] = {}
     THEN UNCHANGED <<pc, ctx, dropping>>
     ELSE /\ dropping' = [dropping EXCEPT ![Kea] = ctx[h]]
          /\ ctx' = [ctx EXCEPT ![h] = {}]
          /\ Goto(Kea, "end")
  /\ UNCHANGED <<mode, lib, gil, statics, cur, kept, nested>>

\* unload(), called after a failed load() too.  Kea unloads a library only
\* when no CalloutHandle is left.
Unload ==
  /\ lib \in {"loaded", "failed"}
  /\ pc[Kea] = "kea"
  /\ held = {}
  /\ lib' = "unloading"
  /\ Goto(Kea, "end")
  /\ UNCHANGED <<mode, gil, statics, objects, dropping, nested>>

\* Kea_Unload is done and Py_Finalize ends the interpreter, after the module
\* teardown has let go of every kept packet (Release).  Daemon threads never
\* get the GIL again.
Finalize ==
  /\ lib = "unloading"
  /\ pc[Kea] = "python"
  /\ gil = Kea
  /\ kept = {}
  /\ lib' = "none"
  /\ gil' = NoThread
  /\ pc' = [x \in Threads |-> IF x = Kea THEN "kea" ELSE "off"]
  /\ UNCHANGED <<mode, statics, objects, dropping, nested>>

-----------------------------------------------------------------------------
(* end_allow_threads, ~ObjectHolder and begin_allow_threads in thread x.   *)

\* Mutation: allowed_threads is not reset.
EndKeepsAllowed(x) ==
  /\ pc[x] = "end"
  /\ IF embedded_mode /\ allowed_threads
     THEN gil = NoThread /\ gil' = x
     ELSE UNCHANGED gil
  /\ Goto(x, IF dropping[x] # {} THEN "decref" ELSE "python")
  /\ UNCHANGED <<mode, lib, statics, objects, dropping, nested>>

\* PyEval_RestoreThread blocks until the GIL is free; without the statics
\* set the call does nothing.  No other thread reads allowed_threads while x
\* takes the GIL and clears it: both are one step.
End(x) ==
  /\ pc[x] = "end"
  /\ IF embedded_mode /\ allowed_threads
     THEN /\ gil = NoThread
          /\ gil' = x
          /\ allowed_threads' = FALSE
     ELSE UNCHANGED <<gil, allowed_threads>>
  /\ Goto(x, IF dropping[x] # {} THEN "decref" ELSE "python")
  /\ UNCHANGED <<mode, lib, embedded_mode, thread_state, objects, dropping, nested>>

Decref(x) ==
  /\ pc[x] = "decref"
  /\ \E n \in dropping[x] : dropping' = [dropping EXCEPT ![x] = @ \ {n}]
  /\ Goto(x, "begin")
  /\ UNCHANGED <<mode, lib, gil, statics, objects, nested>>

\* PyEval_SaveThread releases the GIL (it aborts the process when x does not
\* hold it) before its result and allowed_threads are stored.
Begin(x) ==
  /\ pc[x] = "begin"
  /\ IF embedded_mode
     THEN /\ gil = x
          /\ gil' = NoThread
          /\ Goto(x, "save")
          /\ UNCHANGED nested
     ELSE /\ Goto(x, Resume(x))
          /\ Resumed(x)
          /\ UNCHANGED gil
  /\ UNCHANGED <<mode, lib, statics, objects, dropping>>

\* Mutation: the result of PyEval_SaveThread is not stored.
SavedNothing(x) ==
  /\ pc[x] = "save"
  /\ allowed_threads' = TRUE
  /\ Goto(x, Resume(x))
  /\ Resumed(x)
  /\ UNCHANGED <<mode, lib, gil, embedded_mode, thread_state, objects, dropping>>

Saved(x) ==
  /\ pc[x] = "save"
  /\ thread_state' = x
  /\ allowed_threads' = TRUE
  /\ Goto(x, Resume(x))
  /\ Resumed(x)
  /\ UNCHANGED <<mode, lib, gil, embedded_mode, objects, dropping>>

-----------------------------------------------------------------------------
(* What Python code does, in the callout or in another thread.             *)

\* Python code in x can reach handle h.
Reaches(x, h) == (x = Kea /\ h = cur) \/ h \in kept

\* x, running Python, destroys the ObjectHolders of the names in S.
Destroy(x, S) ==
  /\ dropping' = [dropping EXCEPT ![x] = S]
  /\ nested' = nested \cup {x}
  /\ Goto(x, "end")

\* setContext of a name not bound yet.
SetContext(x, h, n) ==
  /\ pc[x] = "python"
  /\ Reaches(x, h)
  /\ n \notin ctx[h]
  /\ ctx' = [ctx EXCEPT ![h] = @ \cup {n}]
  /\ UNCHANGED <<mode, lib, pc, gil, statics, cur, held, kept, dropping, nested>>

\* setContext of a bound name replaces its ObjectHolder, deleteContext
\* removes it: either destroys the old one before it returns.
ReplaceContext(x, h, n) ==
  /\ pc[x] = "python"
  /\ May("rebind")
  /\ Reaches(x, h)
  /\ n \in ctx[h]
  /\ ctx' \in {ctx, [ctx EXCEPT ![h] = @ \ {n}]}
  /\ Destroy(x, {n})
  /\ UNCHANGED <<mode, lib, gil, statics, cur, held, kept>>

\* Python keeps the packet of the callout, or creates a CalloutHandle.
Keep(x, h) ==
  /\ pc[x] = "python"
  /\ May("retain")
  /\ h \notin kept
  /\ (x = Kea /\ h = cur) \/ h \notin held
  /\ kept' = kept \cup {h}
  /\ UNCHANGED <<mode, lib, pc, gil, statics, cur, held, ctx, dropping, nested>>

\* The last Python reference to h goes away.
Release(x, h) ==
  /\ pc[x] = "python"
  /\ h \in kept
  /\ kept' = kept \ {h}
  /\ IF h \in held \/ ctx[h] = {}
     THEN UNCHANGED <<pc, ctx, dropping, nested>>
     ELSE /\ Destroy(x, ctx[h])
          /\ ctx' = [ctx EXCEPT ![h] = {}]
  /\ UNCHANGED <<mode, lib, gil, statics, cur, held>>

-----------------------------------------------------------------------------
(* CPython's own use of the GIL.                                           *)

StartThread(x, t) ==
  /\ pc[x] = "python"
  /\ pc[t] = "off"
  /\ Goto(t, "want")
  /\ UNCHANGED <<mode, lib, gil, statics, objects, dropping, nested>>

\* The switch interval: the eval loop hands the GIL over.
Yield(x) ==
  /\ pc[x] = "python"
  /\ gil = x
  /\ gil' = NoThread
  /\ Goto(x, "want")
  /\ UNCHANGED <<mode, lib, statics, objects, dropping, nested>>

Acquire(x) ==
  /\ pc[x] = "want"
  /\ gil = NoThread
  /\ gil' = x
  /\ Goto(x, "python")
  /\ UNCHANGED <<mode, lib, statics, objects, dropping, nested>>

\* A worker blocks in a system call, or ends.
Block(t) ==
  /\ pc[t] = "python"
  /\ gil = t
  /\ gil' = NoThread
  /\ \E point \in {"io", "off"} : Goto(t, point)
  /\ UNCHANGED <<mode, lib, statics, objects, dropping, nested>>

Wake(t) ==
  /\ pc[t] = "io"
  /\ Goto(t, "want")
  /\ UNCHANGED <<mode, lib, gil, statics, objects, dropping, nested>>

-----------------------------------------------------------------------------
KeaStep == \/ Load \/ LoadDone \/ LoadFails \/ Unload \/ Finalize
           \/ CalloutReturns
           \/ \E h \in Handles : Callout(h) \/ KeaDrops(h)

BridgeStep(x) == End(x) \/ Decref(x) \/ Begin(x) \/ Saved(x)

PythonStep(x) ==
  \/ \E h \in Handles : Keep(x, h) \/ Release(x, h)
  \/ \E h \in Handles, n \in Names : SetContext(x, h, n) \/ ReplaceContext(x, h, n)
  \/ \E t \in Workers : StartThread(x, t)
  \/ Yield(x)
  \/ Acquire(x)

WorkerStep(t) == Block(t) \/ Wake(t)

Next ==
  \/ KeaStep
  \/ \E x \in Threads : BridgeStep(x) \/ PythonStep(x)
  \/ \E t \in Workers : WorkerStep(t)

Spec == Init /\ [][Next]_vars

\* No thread stops inside the bridge; load(), a callout and an unload end;
\* Kea unloads a library whose load() failed; CPython makes the holder of the
\* GIL give it up to a waiting thread, which gets it sooner or later.
Fairness ==
  /\ \A x \in Threads : /\ WF_vars(Decref(x)) /\ WF_vars(Begin(x))
                        /\ WF_vars(Saved(x)) /\ SF_vars(Yield(x))
                        /\ SF_vars(End(x)) /\ SF_vars(Acquire(x))
  /\ SF_vars(LoadDone \/ LoadFails)
  /\ SF_vars(CalloutReturns)
  /\ SF_vars(Finalize)
  /\ WF_vars(lib = "failed" /\ Unload)

FairSpec == Spec /\ Fairness

-----------------------------------------------------------------------------
\* Every variable holds a value of its type, and a thread state is there to
\* restore whenever allowed_threads says so.
TypeOK ==
  /\ mode \in {"embedded", "standalone"}
  /\ lib \in Libs
  /\ pc \in [Threads -> Points]
  /\ gil \in Threads \cup {NoThread}
  /\ embedded_mode \in BOOLEAN
  /\ allowed_threads \in BOOLEAN
  /\ thread_state \in Threads \cup {NoThread}
  /\ allowed_threads => thread_state # NoThread
  /\ cur \in Handles \cup {NoHandle}
  /\ held \subseteq Handles
  /\ kept \subseteq Handles
  /\ ctx \in [Handles -> SUBSET Names]
  /\ dropping \in [Threads -> SUBSET Names]
  /\ nested \subseteq Threads

\* A thread that executes Python code, destroys a Python object or is about
\* to call PyEval_SaveThread holds the GIL: "call begin_allow_threads when
\* going back into Kea and end_allow_threads when called by Kea"
\* (keamodule.h:97).
PythonHasGil == \A x \in Threads : Executing(x) => gil = x

\* While Kea runs its own code with the library loaded the GIL is not left
\* with Kea's thread ("Going back into Kea - give up the GIL.",
\* callout_closure.cc:45), and the thread state that end_allow_threads will
\* restore is the one of that thread.
KeaLeavesPython ==
  lib = "loaded" /\ pc[Kea] = "kea" =>
    /\ gil # Kea
    /\ allowed_threads
    /\ thread_state = Kea

\* No thread waits in PyEval_RestoreThread for the GIL it holds itself.
NoSelfDeadlock ==
  \A x \in Threads : pc[x] = "end" /\ embedded_mode /\ allowed_threads => gil # x

\* A callout, a dropped CalloutHandle or an unload that asks for the GIL
\* gets through Python and back into Kea, whatever the workers do.
KeaGetsBack == pc[Kea] = "end" /\ mode = "embedded" ~> pc[Kea] = "kea"

\* A Python thread waiting for the GIL runs, unless the interpreter ends.
WorkersRun == \A t \in Workers : pc[t] = "want" ~> pc[t] # "want"

\* The bridge implements the one-thread-at-a-time interpreter.
Active == IF \E x \in Threads : Executing(x)
          THEN CHOOSE x \in Threads : Executing(x) ELSE NoThread
Python == INSTANCE Interpreter WITH active <- Active
OneThreadInPython == Python!Spec
=============================================================================
