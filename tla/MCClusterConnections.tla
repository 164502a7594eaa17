------------------------ MODULE MCClusterConnections ------------------------
(* Model-checking instances of ClusterConnections                          *)
EXTENDS ClusterConnections, TLC

ConnSymmetry == Permutations(Conns)

=============================================================================
