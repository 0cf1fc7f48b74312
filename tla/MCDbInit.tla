------------------------------ MODULE MCDbInit ------------------------------
(* A prefork child for TLC, which runs its tasks on its main thread. *)
EXTENDS DbInit

CONSTANT t1
=============================================================================
