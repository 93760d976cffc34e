--------------------------- MODULE MCConfigObjects ---------------------------
(* ConfigObjects with interchangeable addresses.                            *)
EXTENDS ConfigObjects, TLC
Interchangeable == Permutations(Subnets) \cup Permutations(Configs) \cup Permutations(Objects)
=============================================================================
