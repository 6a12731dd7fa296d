------------------------ MODULE MCFilesystemLoader -------------------------
(* Small instances of FilesystemLoader. *)
EXTENDS FilesystemLoader

=============================================================================
