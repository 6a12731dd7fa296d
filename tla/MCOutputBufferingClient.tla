---------------------- MODULE MCOutputBufferingClient ----------------------
(* Small instance of OutputBufferingClient. *)
EXTENDS OutputBufferingClient

MCChunk == 1 .. MaxChunks
=============================================================================
