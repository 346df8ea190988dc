----------------------------- MODULE MCRequests -----------------------------
(* Small boxes: two boards of two chips, and a board of two beside one of one. *)
EXTENDS Requests, TLC

CONSTANTS b1, b2, t1, t2

TwoByTwo == (0 :> b1) @@ (1 :> b1) @@ (2 :> b2) @@ (3 :> b2)
Mixed == (0 :> b1) @@ (1 :> b1) @@ (2 :> b2)
TwoEach == [b \in Boards |-> 2]
TwoAndOne == (b1 :> 2) @@ (b2 :> 1)
Crossed == [c \in Chips |-> IF c \in {2, 3} THEN 5 - c ELSE c]

Ask(target, span, fresh, queue) ==
    [target |-> target, span |-> span, fresh |-> fresh, queue |-> queue]
SomeAsks == {Ask({}, <<1, 1>>, FALSE, FALSE), Ask({}, <<3, 4>>, FALSE, TRUE),
             Ask({}, <<3, 3>>, FALSE, FALSE), Ask({NameOf("left", {1})}, <<1, 1>>, TRUE, TRUE)}
OneAsk == {Ask({}, <<1, 1>>, FALSE, TRUE)}

Edit(set, name, board) == [set |-> set, name |-> name, board |-> board]
SomeEdits == {Edit(TRUE, "left", b1), Edit(TRUE, "left", b2), Edit(TRUE, "right", b2), Edit(FALSE, "left", b1)}

Named == [name |-> "left", serial |-> b2]
Pinned == [boards |-> {Named}, pins |-> {[board |-> "left", position |-> 1, asic |-> 2]}]
SomeFiles == {Pinned}
NoFiles == {NoNames}

Symmetry == Permutations(Tenants)
=============================================================================
