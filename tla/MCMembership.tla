---------------------------- MODULE MCMembership ----------------------------
(* TLC instances of Membership. *)
EXTENDS Membership
=============================================================================
