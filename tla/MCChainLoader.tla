--------------------------- MODULE MCChainLoader ---------------------------
(* Small instances of ChainLoader. *)
EXTENDS ChainLoader, TLC

CONSTANTS a, f, o

MCLoaders == {a, f, o}
MCKind == a :> "array" @@ f :> "filesystem" @@ o :> "other"

=============================================================================
