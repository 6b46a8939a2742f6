----------------------------- MODULE MCAwsAuthMap -----------------------------
(* Instances of AwsAuthMap for TLC. *)
EXTENDS AwsAuthMap, TLC
=============================================================================
