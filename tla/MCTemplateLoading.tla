------------------------- MODULE MCTemplateLoading -------------------------
(* Small instances of TemplateLoading. *)
EXTENDS TemplateLoading, TLC

AllConfigs == Config

(* Two ticks in a millisecond, and a time cut down to whole ones. *)
Truncated == [t \in 0 .. MaxTime |-> t - (t % Millisecond)]

(* The renders are all alike, and so are the values of the options. *)
Symmetry == Permutations(Renders)
=============================================================================
