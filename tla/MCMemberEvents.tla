---------------------------- MODULE MCMemberEvents ----------------------------
(* Instances of MemberEvents for TLC. *)
EXTENDS MemberEvents, TLC
=============================================================================
