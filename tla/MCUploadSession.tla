-------------------------- MODULE MCUploadSession --------------------------
(* Model checking instances of UploadSession; the .cfg files give the bounds. *)
EXTENDS UploadSession

=============================================================================
