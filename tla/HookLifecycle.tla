----------------------------- MODULE HookLifecycle -----------------------------
(***************************************************************************)
(* load() and unload() of libkea_python.so (keahook/load_unload.cc), with  *)
(* Kea_Load and Kea_Unload of the Python extension module                  *)
(* (keamodule/capsule.cc), composed with CalloutRegistry: every step that  *)
(* can fail, the unload() Kea calls after a failed load() as well, and     *)
(* reloads.  The statics of libkea_python.so start afresh when Kea opens   *)
(* it again, if closing it really unmapped it; those of the extension      *)
(* module live as long as the process.                                     *)
(***************************************************************************)
EXTENDS CalloutRegistry

CONSTANT MayStayMapped   \* closing libkea_python.so may leave it mapped

ASSUME MappedAssumption == MayStayMapped \in BOOLEAN

VARIABLES
  at,          \* the step of load() or unload() that comes next
  so,          \* statics of libkea_python.so
  interp,      \* the Python interpreter is initialised
  gil,         \* Kea's thread holds the GIL
  kea_logger,  \* kea.logger: "None" or "Logger"
  module       \* statics of the extension module

registry == <<stage, attr, heap, callout_closures, table, i, error, running>>
lifecycle == <<at, so, interp, gil, kea_logger, module>>
lvars == <<registry, lifecycle>>

Symbols == <<"Py_Initialize", "PyEval_InitThreads", "Py_Finalize", "PyCapsule_Import">>
Resolved(k) == {Symbols[j] : j \in 1 .. k}

Steps == {"out", "dlopen", "symbols", "initialize", "capsule", "path", "import", "errors",
          "register", "registering", "loaded", "failed", "finalize", "dlclose", "close"}

FreshStatics == [libpython |-> FALSE, symbols |-> {}, kea_capsule |-> FALSE]

LifecycleInit ==
  /\ Init
  /\ at = "out"
  /\ so = FreshStatics
  /\ interp = FALSE
  /\ gil = FALSE
  /\ kea_logger = "None"
  /\ module = [hook_module |-> FALSE, traceback_module |-> FALSE,
               embedded_mode |-> FALSE, allowed_threads |-> FALSE]

\* load() returns 1 from here: Kea calls unload() next.
Step(from, to) == at = from /\ at' \in {to, "failed"}

-----------------------------------------------------------------------------
(* load()                                                                  *)

\* The parameters "libpython" and "module" are there and are strings, or not.
CheckParameters ==
  /\ Step("out", "dlopen")
  /\ UNCHANGED <<registry, so, interp, gil, kea_logger, module>>

DlOpen ==
  /\ Step("dlopen", "symbols")
  /\ so' = [so EXCEPT !.libpython = (at' = "symbols")]
  /\ UNCHANGED <<registry, interp, gil, kea_logger, module>>

\* dlsym in order; the first symbol that is missing is stored as 0 and the
\* ones after it keep whatever they held.
LoadSymbols ==
  /\ Step("symbols", "initialize")
  /\ \E k \in 0 .. Len(Symbols) :
       /\ k = Len(Symbols) <=> at' = "initialize"
       /\ so' = [so EXCEPT !.symbols = (@ \cup Resolved(k)) \
                                         {Symbols[j] : j \in {k + 1} \cap DOMAIN Symbols}]
  /\ UNCHANGED <<registry, interp, gil, kea_logger, module>>

Initialize ==
  /\ at = "initialize"
  /\ at' = "capsule"
  /\ interp' = TRUE
  /\ gil' = TRUE
  /\ UNCHANGED <<registry, so, kea_logger, module>>

ImportCapsule ==
  /\ Step("capsule", "path")
  /\ so' = [so EXCEPT !.kea_capsule = (at' = "path")]
  /\ UNCHANGED <<registry, interp, gil, kea_logger, module>>

\* Kea_Load: sys.path, then the Logger object becomes kea.logger.
InsertPath ==
  /\ Step("path", "import")
  /\ kea_logger' = IF at' = "import" THEN "Logger" ELSE kea_logger
  /\ UNCHANGED <<registry, so, interp, gil, module>>

ImportHook ==
  /\ Step("import", "errors")
  /\ module' = [module EXCEPT !.hook_module = (at' = "errors")]
  /\ UNCHANGED <<registry, so, interp, gil, kea_logger>>

\* Mutation: the result of Errors_initialize is ignored.
InitializeErrorsUnchecked ==
  /\ at = "errors"
  /\ at' = "register"
  /\ \E ok \in BOOLEAN : module' = [module EXCEPT !.traceback_module = ok]
  /\ UNCHANGED <<registry, so, interp, gil, kea_logger>>

InitializeErrors ==
  /\ Step("errors", "register")
  /\ module' = [module EXCEPT !.traceback_module = (at' = "register")]
  /\ UNCHANGED <<registry, so, interp, gil, kea_logger>>

\* Callouts_register.
RegisterCallouts ==
  /\ at = "register"
  /\ at' = "registering"
  /\ Register
  /\ UNCHANGED <<so, interp, gil, kea_logger, module>>

\* Mutation: begin_allow_threads does not set allowed_threads.
LoadedNotAllowed ==
  /\ at = "registering"
  /\ stage = "loaded"
  /\ at' = "loaded"
  /\ module' = [module EXCEPT !.embedded_mode = TRUE]
  /\ gil' = FALSE
  /\ UNCHANGED <<registry, so, interp, kea_logger>>

\* "Everything loaded - give up the GIL."
Loaded ==
  /\ at = "registering"
  /\ stage = "loaded"
  /\ at' = "loaded"
  /\ module' = [module EXCEPT !.embedded_mode = TRUE, !.allowed_threads = TRUE]
  /\ gil' = FALSE
  /\ UNCHANGED <<registry, so, interp, kea_logger>>

RegisterFailed ==
  /\ at = "registering"
  /\ stage = "failed"
  /\ at' = "failed"
  /\ UNCHANGED <<registry, so, interp, gil, kea_logger, module>>

-----------------------------------------------------------------------------
(* Kea running with the library                                            *)

\* The steps of CalloutRegistry within load(), a callout or a Python thread.
RegistryStep ==
  /\ at \in {"registering", "loaded"}
  /\ \/ LoadReturns \/ RegisterHook \/ SkipHook \/ RejectHook \/ LoopEnds
     \/ \E n \in Names, f \in Handlers : RegisterCommand(n, f)
  /\ UNCHANGED lifecycle

EnterCallout ==
  /\ at = "loaded"
  /\ Invoke
  /\ module.embedded_mode /\ module.allowed_threads => gil' = TRUE
  /\ ~(module.embedded_mode /\ module.allowed_threads) => gil' = gil
  /\ module' = [module EXCEPT !.allowed_threads = @ /\ ~module.embedded_mode]
  /\ UNCHANGED <<at, so, interp, kea_logger>>

LeaveCallout ==
  /\ at = "loaded"
  /\ Return
  /\ gil' = (gil /\ ~module.embedded_mode)
  /\ module' = [module EXCEPT !.allowed_threads = @ \/ module.embedded_mode]
  /\ UNCHANGED <<at, so, interp, kea_logger>>

-----------------------------------------------------------------------------
(* unload()                                                                *)

\* Mutation: Kea_Unload forgets Errors_finalize.
UnloadCapsuleNoErrors ==
  /\ at \in {"loaded", "failed"}
  /\ at' = "finalize"
  /\ running = NoCallout
  /\ IF so.kea_capsule
     THEN /\ gil' = TRUE
          /\ kea_logger' = "None"
          /\ module' = [module EXCEPT !.hook_module = FALSE, !.allowed_threads = FALSE]
          /\ IF stage = "unloaded" THEN UNCHANGED registry ELSE Unregister
     ELSE UNCHANGED <<gil, kea_logger, module, registry>>
  /\ UNCHANGED <<so, interp>>

\* Kea_Unload, if kea_capsule is set: take the GIL back if it was given up,
\* then let go of closures, traceback module, logger and hook module.
UnloadCapsule ==
  /\ at \in {"loaded", "failed"}
  /\ at' = "finalize"
  /\ running = NoCallout
  /\ IF so.kea_capsule
     THEN /\ gil' = (gil \/ (module.embedded_mode /\ module.allowed_threads))
          /\ kea_logger' = "None"
          /\ module' = [module EXCEPT !.hook_module = FALSE, !.traceback_module = FALSE,
                                      !.allowed_threads = @ /\ ~module.embedded_mode]
          /\ IF stage = "unloaded" THEN UNCHANGED registry ELSE Unregister
     ELSE UNCHANGED <<gil, kea_logger, module, registry>>
  /\ UNCHANGED <<so, interp>>

Finalize ==
  /\ at = "finalize"
  /\ at' = "dlclose"
  /\ IF "Py_Finalize" \in so.symbols
     THEN interp' = FALSE /\ gil' = FALSE
     ELSE UNCHANGED <<interp, gil>>
  /\ UNCHANGED <<registry, so, kea_logger, module>>

DlClose ==
  /\ at = "dlclose"
  /\ at' = "close"
  /\ so' = [so EXCEPT !.libpython = FALSE]
  /\ UNCHANGED <<registry, interp, gil, kea_logger, module>>

\* Kea deregisters the library's callouts and closes libkea_python.so.
KeaCloses ==
  /\ at = "close"
  /\ at' = "out"
  /\ so' \in {FreshStatics} \cup (IF MayStayMapped THEN {so} ELSE {})
  /\ IF stage = "unloaded" THEN UNCHANGED registry ELSE Deregister
  /\ UNCHANGED <<interp, gil, kea_logger, module>>

-----------------------------------------------------------------------------
LoadStep == \/ CheckParameters \/ DlOpen \/ LoadSymbols \/ Initialize \/ ImportCapsule
            \/ InsertPath \/ ImportHook \/ InitializeErrors \/ RegisterCallouts
            \/ Loaded \/ RegisterFailed

UnloadStep == UnloadCapsule \/ Finalize \/ DlClose \/ KeaCloses

LifecycleNext == LoadStep \/ RegistryStep \/ EnterCallout \/ LeaveCallout \/ UnloadStep

\* load() and unload() do not stop half-way, nor does Kea: it calls unload()
\* for a load() that failed.  Whether it ever unloads a library that works,
\* or loads one again, is up to its operator.
LifecycleSpec ==
  /\ LifecycleInit
  /\ [][LifecycleNext]_lvars
  /\ WF_lvars(at # "out" /\ LoadStep)
  /\ WF_lvars(at # "loaded" /\ UnloadStep)
  /\ SF_lvars(LoadReturns /\ UNCHANGED lifecycle)
  /\ WF_lvars((RegisterHook \/ SkipHook \/ RejectHook \/ LoopEnds) /\ UNCHANGED lifecycle)

-----------------------------------------------------------------------------
\* Every variable holds a value of its type.
LifecycleTypeOK ==
  /\ TypeOK
  /\ at \in Steps
  /\ so \in [libpython : BOOLEAN, symbols : SUBSET Resolved(Len(Symbols)),
             kea_capsule : BOOLEAN]
  /\ interp \in BOOLEAN
  /\ gil \in BOOLEAN
  /\ kea_logger \in {"None", "Logger"}
  /\ module \in [hook_module : BOOLEAN, traceback_module : BOOLEAN,
                 embedded_mode : BOOLEAN, allowed_threads : BOOLEAN]

\* unload() calls into Python only while there is an interpreter, with the
\* GIL held or about to be taken back, and calls Py_Finalize only while
\* libpython is open.
UnloadCallsLivePython ==
  /\ at \in {"loaded", "failed"} /\ so.kea_capsule /\ running = NoCallout =>
       interp /\ (gil \/ (module.embedded_mode /\ module.allowed_threads))
  /\ at = "finalize" /\ "Py_Finalize" \in so.symbols => so.libpython /\ (interp => gil)

\* A load() that returned 0 left the library complete: what a callout and its
\* error report need is there.
LoadedIsComplete ==
  at = "loaded" =>
    /\ interp /\ so.libpython /\ so.kea_capsule
    /\ so.symbols = Resolved(Len(Symbols))
    /\ stage = "loaded"
    /\ module.hook_module /\ module.traceback_module /\ module.embedded_mode
    /\ kea_logger = "Logger"
    /\ gil <=> running # NoCallout
    /\ module.allowed_threads <=> running = NoCallout

\* However far load() got, after unload() nothing of it is left.
NothingLeft ==
  at = "out" =>
    /\ ~interp /\ ~gil /\ ~so.libpython
    /\ ~module.hook_module /\ ~module.traceback_module /\ ~module.allowed_threads
    /\ kea_logger = "None"
    /\ table = {}
    /\ \A c \in Closures : heap[c] = NoCallout

\* A load that fails is unwound, and one that starts succeeds or fails.
LoadSettles == at = "dlopen" ~> at \in {"loaded", "out"}
=============================================================================
