----------------------------- MODULE CalloutTable -----------------------------
(***************************************************************************)
(* What the hook library promises Kea and the hook module: a callable that *)
(* was accepted for a hook point or a command is what Kea runs for it,     *)
(* until the library is unloaded.  CalloutRegistry is shown to implement   *)
(* this through closures that live on a heap and are owned by a dict.      *)
(***************************************************************************)
CONSTANTS Points,      \* hook points and commands
          Callables    \* Python callables

VARIABLE runs          \* the pairs <<point, callable>> Kea would run

Init == runs = {}

Accept == \E p \in Points, f \in Callables : runs' = runs \cup {<<p, f>>}

Clear == runs' = {}

Next == Accept \/ Clear

Spec == Init /\ [][Next]_runs
=============================================================================
