------------------------------ MODULE MCPanics ------------------------------
(* Instances of Panics for TLC. *)
EXTENDS Panics

=============================================================================
