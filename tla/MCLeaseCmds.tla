------------------------------ MODULE MCLeaseCmds ------------------------------
(* LeaseCmds on two subnets, one of two addresses and one of a single one.    *)
EXTENDS LeaseCmds

MCRange == [s \in {5, 6} |-> IF s = 5 THEN {1, 2} ELSE {3}]
=============================================================================
