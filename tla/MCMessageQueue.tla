--------------------------- MODULE MCMessageQueue ---------------------------
(* Model-checking instances of MessageQueue                                *)
EXTENDS MessageQueue, TLC

SourceSymmetry == Permutations(Sources)

=============================================================================
