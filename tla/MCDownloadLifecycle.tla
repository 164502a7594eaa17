------------------------- MODULE MCDownloadLifecycle -------------------------
(***************************************************************************)
(* Instances of DownloadLifecycle for TLC.                                 *)
(***************************************************************************)
EXTENDS DownloadLifecycle, TLC

Symmetric == Permutations(Conns) \cup Permutations(Arms)

==============================================================================
