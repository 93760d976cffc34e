----------------------------- MODULE MCGilBridge -----------------------------
(* GilBridge with a few Python threads, CalloutHandles and context names.    *)
EXTENDS GilBridge, TLC

Symmetry == Permutations(Workers) \cup Permutations(Handles)
=============================================================================
