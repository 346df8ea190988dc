--------------------------- MODULE MCTicketQueue ---------------------------
(* A short queue for the model checker. *)
EXTENDS TicketQueue, TLC

CONSTANTS p1, p2, t1, t2, t3

Symmetry == Permutations(Procs) \cup Permutations(Tickets)
=============================================================================
