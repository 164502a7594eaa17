--------------------------- MODULE MCJobLifecycle ---------------------------
(* Model-checking instances of JobLifecycle: the constants are model       *)
(* values, given in the configurations.                                    *)
EXTENDS JobLifecycle, TLC

=============================================================================
