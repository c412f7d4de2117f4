------------------------------ MODULE MCLabor ------------------------------
(* Small instances of Labor.                                               *)
EXTENDS Labor
=============================================================================
