----------------------------- MODULE MCAwsMapping -----------------------------
(* Instances of AwsMapping for TLC. *)
EXTENDS AwsMapping, TLC

LogsAndEcr == <<"logs", "ecr">>
=============================================================================
