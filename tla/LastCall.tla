------------------------------ MODULE LastCall ------------------------------
(* What the modules of the pure algorithms share. *)

VARIABLE call   \* the algorithm that has been called, with what, and the result
=============================================================================
