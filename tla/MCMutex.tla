------------------------------ MODULE MCMutex ------------------------------
(* A few processes for the model checker. *)
EXTENDS Mutex

CONSTANTS p1, p2
=============================================================================
