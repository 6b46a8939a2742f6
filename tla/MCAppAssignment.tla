---------------------------- MODULE MCAppAssignment ---------------------------
(* Instances of AppAssignment for TLC. *)
EXTENDS AppAssignment, TLC

TwoApps == <<"app1", "app2">>
=============================================================================
