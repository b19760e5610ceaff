-------------------------- MODULE MCUploadContent --------------------------
(* The instance of UploadContent that TLC checks: one file on the device, and *)
(* two on a slave with the same base name, so that their copies have one path. *)
EXTENDS UploadContent

MCCopyPath == [f \in Slave |-> CHOOSE p \in Copies : TRUE]
=============================================================================
