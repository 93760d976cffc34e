----------------------------- MODULE Interpreter -----------------------------
(***************************************************************************)
(* What the embedded Python interpreter needs from the code around it: of  *)
(* all the threads of the process at most one is inside the interpreter,   *)
(* and control passes from one thread to another only through a moment     *)
(* when none is.  GilBridge is shown to implement this specification.      *)
(***************************************************************************)
CONSTANTS Threads,    \* every thread that may call into Python
          NoThread    \* nobody is inside

VARIABLE active       \* the thread inside the interpreter, or NoThread

Init == active \in Threads \cup {NoThread}

Enter == /\ active = NoThread
         /\ active' \in Threads

Leave == /\ active # NoThread
         /\ active' = NoThread

Next == Enter \/ Leave

Spec == Init /\ [][Next]_active
=============================================================================
