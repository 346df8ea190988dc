------------------------------ MODULE MCLeases ------------------------------
(* Small boxes for the model checker. *)
EXTENDS Leases, TLC

CONSTANTS p1, p2, u1, u2, c1, c2, l1, l2, l3

\* Two one-chip units, or one board of two chips.
TwoUnits == (c1 :> u1) @@ (c2 :> u2)
OneBoard == (c1 :> u1) @@ (c2 :> u1)
OneUnit == c1 :> u1

Symmetry == Permutations(Procs)
=============================================================================
