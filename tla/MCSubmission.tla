---------------------------- MODULE MCSubmission ----------------------------
(* Instances of Submission for TLC. *)
EXTENDS Submission

CONSTANTS c1, c2
=============================================================================
