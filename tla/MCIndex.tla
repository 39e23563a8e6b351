------------------------------ MODULE MCIndex ------------------------------
(* An index that is used on after remove has emptied it, for TLC. *)
EXTENDS Index

Sizes == [k \in {"list", "index"} |-> 3]
=============================================================================
