------------------------------ MODULE MCJanitor ------------------------------
(* Instances of the janitor's model for TLC. *)
EXTENDS Janitor
=============================================================================
