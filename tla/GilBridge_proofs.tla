--------------------------- MODULE GilBridge_proofs ---------------------------
(***************************************************************************)
(* For every number of Python threads, packets and context names: as long  *)
(* as the hook module neither rebinds context names nor keeps packets, or  *)
(* outside Kea, Python runs with the GIL only, even when exceptions of Kea *)
(* unwind through a callout (Careless \subseteq {"throw"}).                *)
(***************************************************************************)
EXTENDS GilBridge, TLAPS

\* An exception of Kea has gone past begin_allow_threads: Kea's thread has the
\* GIL in its own code, up to the next begin_allow_threads.
Thrown == "throw" \in Careless /\ gil = Kea /\ pc[Kea] \in {"kea", "end"}

\* What holds of Kea's thread and of the statics at each stage of the
\* library's life.  A load() that failed returns with the GIL, so the
\* end_allow_threads of the unload() that follows finds it held.
StageInv ==
  /\ lib \in {"none", "loading", "failed"} => ~allowed_threads
  /\ lib = "none" => /\ pc[Kea] = "kea"
                     /\ gil = NoThread
                     /\ \A t \in Workers : pc[t] = "off"
  /\ lib = "loading" => pc[Kea] \in {"python", "want"}
  /\ lib = "failed" => pc[Kea] = "kea" /\ gil = Kea
  /\ lib = "loaded" =>
       /\ embedded_mode
       /\ pc[Kea] \notin {"off", "io"}
       /\ IF pc[Kea] \in {"kea", "end"} /\ ~Thrown
          THEN allowed_threads /\ thread_state = Kea /\ gil # Kea
          ELSE ~allowed_threads
  /\ lib = "unloading" =>
       /\ pc[Kea] \in {"end", "python", "want"}
       /\ IF pc[Kea] = "end"
          THEN IF allowed_threads
               THEN embedded_mode /\ thread_state = Kea /\ gil # Kea
               ELSE gil = Kea
          ELSE ~allowed_threads
  /\ lib # "script"

\* Inside Kea only Kea's thread destroys ObjectHolders, never from Python.
EmbeddedInv ==
  /\ StageInv
  /\ nested = {}
  /\ kept = {}
  /\ \A t \in Workers : pc[t] \in {"off", "io", "want", "python"}
  /\ \A x \in Threads : Executing(x) => gil = x
  /\ gil \in Workers => pc[gil] = "python"
  /\ gil = Kea /\ lib = "loaded" => Executing(Kea) \/ Thrown
  /\ gil = Kea /\ lib = "loading" => pc[Kea] = "python"
  /\ pc[Kea] \in {"kea", "python", "want"} \/ lib # "loaded" => dropping[Kea] = {}

\* In a script the bridge does nothing: the GIL is held across it.
StandaloneInv ==
  /\ lib = "script"
  /\ ~embedded_mode
  /\ ~allowed_threads
  /\ \A x \in Threads :
       /\ pc[x] \notin {"kea", "save"}
       /\ pc[x] \in {"python", "end", "decref", "begin"} <=> gil = x
       /\ pc[x] \in {"end", "decref", "begin"} => x \in nested

IInv == /\ TypeOK
        /\ mode = "embedded" => EmbeddedInv
        /\ mode = "standalone" => StandaloneInv

-----------------------------------------------------------------------------
USE DEF Threads, Points, Libs, Executing, statics, objects, vars, Goto,
        Resume, Resumed, May, Destroy, Reaches, Thrown

\* The invariant holds initially.
LEMMA InitIInv == Init => IInv
BY ThreadAssumption DEF Init, IInv, TypeOK, EmbeddedInv, StageInv, StandaloneInv

\* Every step of Kea's thread in the hook library's interface keeps it.
LEMMA KeaStepIInv ==
  ASSUME Careless \subseteq {"throw"}, IInv, KeaStep
  PROVE  IInv'
<1> USE ThreadAssumption, HandleAssumption
        DEF IInv, TypeOK, EmbeddedInv, StageInv, StandaloneInv
<1>1. CASE Load
  BY <1>1 DEF Load
<1>2. CASE LoadDone
  BY <1>2 DEF LoadDone
<1>3. CASE LoadFails
  BY <1>3 DEF LoadFails
<1>4. CASE Unload
  BY <1>4 DEF Unload
<1>5. CASE Finalize
  BY <1>5 DEF Finalize
<1>6. CASE CalloutReturns
  BY <1>6 DEF CalloutReturns, Exits
<1>7. ASSUME NEW h \in Handles, Callout(h)
      PROVE  IInv'
  BY <1>7 DEF Callout
<1>8. ASSUME NEW h \in Handles, KeaDrops(h)
      PROVE  IInv'
  BY <1>8 DEF KeaDrops
<1> QED
  BY <1>1, <1>2, <1>3, <1>4, <1>5, <1>6, <1>7, <1>8 DEF KeaStep

\* Every step through the bridge keeps it.
LEMMA BridgeStepIInv ==
  ASSUME IInv, NEW x \in Threads, BridgeStep(x)
  PROVE  IInv'
<1> USE ThreadAssumption
        DEF IInv, TypeOK, EmbeddedInv, StageInv, StandaloneInv
<1>1. CASE End(x)
  BY <1>1 DEF End
<1>2. CASE Decref(x)
  BY <1>2 DEF Decref
<1>3. CASE Begin(x)
  BY <1>3 DEF Begin
<1>4. CASE Saved(x)
  BY <1>4 DEF Saved
<1> QED
  BY <1>1, <1>2, <1>3, <1>4 DEF BridgeStep

\* So does Python code that does not rebind names or keep packets in Kea.
LEMMA PythonStepIInv ==
  ASSUME Careless \subseteq {"throw"}, IInv, NEW x \in Threads, PythonStep(x)
  PROVE  IInv'
<1> USE ThreadAssumption
        DEF IInv, TypeOK, EmbeddedInv, StageInv, StandaloneInv
<1>1. ASSUME NEW h \in Handles, Keep(x, h)
      PROVE  IInv'
  BY <1>1 DEF Keep
<1>2. ASSUME NEW h \in Handles, Release(x, h)
      PROVE  IInv'
  BY <1>2 DEF Release
<1>3. ASSUME NEW h \in Handles, NEW n \in Names, SetContext(x, h, n)
      PROVE  IInv'
  BY <1>3 DEF SetContext
<1>4. ASSUME NEW h \in Handles, NEW n \in Names, ReplaceContext(x, h, n)
      PROVE  IInv'
  BY <1>4 DEF ReplaceContext
<1>5. ASSUME NEW t \in Workers, StartThread(x, t)
      PROVE  IInv'
  BY <1>5 DEF StartThread
<1>6. CASE Yield(x)
  BY <1>6 DEF Yield
<1>7. CASE Acquire(x)
  BY <1>7 DEF Acquire
<1> QED
  BY <1>1, <1>2, <1>3, <1>4, <1>5, <1>6, <1>7 DEF PythonStep

\* And so does a thread that blocks or wakes up.
LEMMA WorkerStepIInv ==
  ASSUME IInv, NEW t \in Workers, WorkerStep(t)
  PROVE  IInv'
<1> USE ThreadAssumption
        DEF IInv, TypeOK, EmbeddedInv, StageInv, StandaloneInv
<1>1. CASE Block(t)
  BY <1>1 DEF Block
<1>2. CASE Wake(t)
  BY <1>2 DEF Wake
<1> QED
  BY <1>1, <1>2 DEF WorkerStep

\* The inductive invariant of the specification, for a hook module that
\* neither rebinds context names nor keeps packets.
THEOREM Invariance == Careless \subseteq {"throw"} /\ Spec => []IInv
<1> SUFFICES ASSUME Careless \subseteq {"throw"}
             PROVE  Spec => []IInv
  OBVIOUS
<1>1. Init => IInv
  BY InitIInv
<1>2. IInv /\ [Next]_vars => IInv'
  <2> SUFFICES ASSUME IInv, [Next]_vars
               PROVE  IInv'
    OBVIOUS
  <2>1. CASE KeaStep
    BY <2>1, KeaStepIInv
  <2>2. ASSUME NEW x \in Threads, BridgeStep(x) \/ PythonStep(x)
        PROVE  IInv'
    BY <2>2, BridgeStepIInv, PythonStepIInv
  <2>3. ASSUME NEW t \in Workers, WorkerStep(t)
        PROVE  IInv'
    BY <2>3, WorkerStepIInv
  <2>4. CASE UNCHANGED vars
    BY <2>4 DEF IInv, TypeOK, EmbeddedInv, StageInv, StandaloneInv
  <2> QED
    BY <2>1, <2>2, <2>3, <2>4 DEF Next
<1> QED
  BY <1>1, <1>2, PTL DEF Spec

-----------------------------------------------------------------------------
\* Every variable keeps its type, and end_allow_threads never restores a
\* thread state that was not saved.
THEOREM TypeCorrect == Careless \subseteq {"throw"} /\ Spec => []TypeOK
<1>1. IInv => TypeOK
  BY DEF IInv
<1> QED
  BY <1>1, Invariance, PTL

\* Python code and Python's C API run only in the thread that holds the GIL
\* (the begin/end rule of keamodule.h).
THEOREM GilSafety == Careless \subseteq {"throw"} /\ Spec => []PythonHasGil
<1>1. IInv => PythonHasGil
  BY DEF IInv, TypeOK, EmbeddedInv, StandaloneInv, PythonHasGil
<1> QED
  BY <1>1, Invariance, PTL

\* Kea's own code runs without the GIL and with its thread state saved, if no
\* constructor lets Kea's exception through either.
THEOREM KeaLeavesPythonHolds == Careless = {} /\ Spec => []KeaLeavesPython
<1>1. Careless = {} /\ IInv => KeaLeavesPython
  BY DEF IInv, TypeOK, EmbeddedInv, StageInv, StandaloneInv, KeaLeavesPython
<1>2. Careless = {} => Careless \subseteq {"throw"}
  OBVIOUS
<1> SUFFICES ASSUME Careless = {}
             PROVE  Spec => []KeaLeavesPython
  OBVIOUS
<1> QED
  BY <1>1, <1>2, Invariance, PTL

\* PyEval_RestoreThread is never called by the thread that holds the GIL.
THEOREM NoSelfDeadlockHolds == Careless \subseteq {"throw"} /\ Spec => []NoSelfDeadlock
<1>1. IInv => NoSelfDeadlock
  BY DEF IInv, TypeOK, EmbeddedInv, StageInv, StandaloneInv, NoSelfDeadlock
<1> QED
  BY <1>1, Invariance, PTL

-----------------------------------------------------------------------------
\* Only the end of the interpreter takes more than one thread out of Python.
LEMMA OneThreadMoves ==
  ASSUME TypeOK, [Next]_vars, ~Finalize
  PROVE  \E z \in Threads : \A w \in Threads \ {z} : Executing(w)' <=> Executing(w)
<1> USE DEF TypeOK
<1>1. CASE KeaStep
  <2>1. \A w \in Threads \ {Kea} : pc'[w] = pc[w]
    BY <1>1 DEF KeaStep, Load, LoadDone, LoadFails, Unload, CalloutReturns, Callout, KeaDrops
  <2> QED
    BY <2>1
<1>2. ASSUME NEW x \in Threads, BridgeStep(x)
      PROVE  \A w \in Threads \ {x} : Executing(w)' <=> Executing(w)
  BY <1>2 DEF BridgeStep, End, Decref, Begin, Saved
<1>3. ASSUME NEW x \in Threads, PythonStep(x)
      PROVE  \A w \in Threads \ {x} : Executing(w)' <=> Executing(w)
  BY <1>3 DEF PythonStep, Keep, Release, SetContext, ReplaceContext, StartThread,
              Yield, Acquire
<1>4. ASSUME NEW t \in Workers, WorkerStep(t)
      PROVE  \A w \in Threads \ {t} : Executing(w)' <=> Executing(w)
  BY <1>4 DEF WorkerStep, Block, Wake
<1>5. CASE UNCHANGED vars
  BY <1>5
<1> QED
  BY <1>1, <1>2, <1>3, <1>4, <1>5 DEF Next

\* With the GIL rule, the thread in Python is the only one.
LEMMA ActiveThread ==
  IInv => /\ \A x \in Threads : Executing(x) => Active = x
          /\ Active = NoThread \/ (Active \in Threads /\ Executing(Active))
<1> HAVE IInv
<1>1. \A x, y \in Threads : Executing(x) /\ Executing(y) => x = y
  BY DEF IInv, TypeOK, EmbeddedInv, StandaloneInv
<1> QED
  BY <1>1 DEF Active

\* A step of the bridge lets a thread in, or out, or does neither: control of
\* Python never passes directly from one thread to another.
LEMMA StepRefinement ==
  ASSUME IInv, IInv', [Next]_vars
  PROVE  [Python!Next]_Active
<1>1. TypeOK
  BY DEF IInv
<1>2. /\ \A x \in Threads : Executing(x) => Active = x
      /\ Active = NoThread \/ (Active \in Threads /\ Executing(Active))
  BY ActiveThread
<1>3. /\ \A x \in Threads : Executing(x)' => Active' = x
      /\ Active' = NoThread \/ (Active' \in Threads /\ Executing(Active)')
  <2>1. \A x, y \in Threads : Executing(x)' /\ Executing(y)' => x = y
    BY DEF IInv, TypeOK, EmbeddedInv, StandaloneInv
  <2> QED
    BY <2>1 DEF Active
<1>4. SUFFICES ASSUME Active # NoThread, Active' # NoThread
               PROVE  Active' = Active
  BY <1>2, <1>3, ThreadAssumption DEF Python!Next, Python!Enter, Python!Leave
<1>5. CASE Finalize
  <2>1. \A x \in Threads : ~Executing(x)'
    BY <1>5 DEF Finalize
  <2> QED
    BY <2>1, <1>3, <1>4
<1>6. CASE ~Finalize
  <2>1. PICK z \in Threads : \A w \in Threads \ {z} : Executing(w)' <=> Executing(w)
    BY <1>1, <1>6, OneThreadMoves
  <2> QED
    BY <2>1, <1>2, <1>3, <1>4
<1> QED
  BY <1>5, <1>6

\* The bridge implements the one-thread-at-a-time interpreter.
THEOREM Refinement == Careless \subseteq {"throw"} /\ Spec => OneThreadInPython
<1> SUFFICES ASSUME Careless \subseteq {"throw"}
             PROVE  Spec => OneThreadInPython
  OBVIOUS
<1>1. Init => Python!Init
  <2> SUFFICES ASSUME Init
               PROVE  Python!Init
    OBVIOUS
  <2>1. Active = NoThread \/ Active \in Threads
    BY InitIInv, ActiveThread
  <2> QED
    BY <2>1 DEF Python!Init
<1>2. IInv /\ IInv' /\ [Next]_vars => [Python!Next]_Active
  BY StepRefinement
<1> QED
  BY <1>1, <1>2, Invariance, PTL DEF Spec, OneThreadInPython, Python!Spec
=============================================================================
