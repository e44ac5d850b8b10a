--------------------------- MODULE MCMessageQueue ---------------------------
(* MessageQueue on small instances: see the .cfg files.                    *)
EXTENDS MessageQueue, TLC

Symmetry == Permutations(Producers) \cup Permutations(Consumers)
                \cup Permutations(Messages)
=============================================================================
