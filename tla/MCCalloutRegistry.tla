--------------------------- MODULE MCCalloutRegistry ---------------------------
(* CalloutRegistry with two hooks and two commands, for hook modules that    *)
(* use every name once and for those that do not.                            *)
EXTENDS CalloutRegistry, TLC

CONSTANTS f1, f2, c1, c2, c3

MCHookOrder == <<"lease4_select", "pkt4_send">>
Symmetry == Permutations(Handlers) \cup Permutations(Closures)
=============================================================================
