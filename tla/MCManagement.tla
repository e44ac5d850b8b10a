---------------------------- MODULE MCManagement ----------------------------
(* Management on small instances: see the .cfg files.                      *)
EXTENDS Management, TLC

Symmetry == Permutations(Clients) \cup Permutations(Configs)
=============================================================================
