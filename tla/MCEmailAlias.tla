----------------------------- MODULE MCEmailAlias -----------------------------
(* Instances of EmailAlias for TLC. *)
EXTENDS EmailAlias, TLC

\* A guest's account is not called by its address.
Upns == [a \in Users |-> IF a \in External THEN <<"EXT", a>> ELSE a]
=============================================================================
