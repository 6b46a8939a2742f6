----------------------------- MODULE MCCapSvc2Aad -----------------------------
(* Instances of CapSvc2Aad for TLC. *)
EXTENDS CapSvc2Aad, TLC
=============================================================================
