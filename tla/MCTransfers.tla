----------------------------- MODULE MCTransfers -----------------------------
(***************************************************************************)
(* Model-checking instance of DownloadStream and FileUpload: one transfer, *)
(* in either direction.  The two have no state in common, so that each     *)
(* behaviour is a behaviour of one of them, beside an idle other.          *)
(***************************************************************************)
EXTENDS DownloadStream, FileUpload

transferVars == <<streamVars, uploadVars>>

TransferInit == \/ StreamInit /\ UploadIdle
                \/ StreamIdle /\ UploadInit

TransferNext == \/ StreamNext /\ UNCHANGED uploadVars
                \/ UploadNext /\ UNCHANGED streamVars

TransferSpec == TransferInit /\ [][TransferNext]_transferVars

FairTransferSpec == TransferSpec /\ StreamFairness /\ UploadFairness

=============================================================================
