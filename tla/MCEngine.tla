------------------------------ MODULE MCEngine ------------------------------
(* Instances of Engine for the model checker. *)
EXTENDS Engine
=============================================================================
