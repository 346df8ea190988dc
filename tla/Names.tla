------------------------------- MODULE Names --------------------------------
(***************************************************************************)
(* The names file: what it may say, how it is applied to the chips a       *)
(* command can read, how a name becomes the serial or PCI address that     *)
(* locks and tickets store, and how names set and names unset edit it.     *)
(* A file is the set of its [[board]] tables and the set of its [[chip]]   *)
(* tables; an ASIC id is the chip that carries it.                         *)
(***************************************************************************)
EXTENDS Topology

CONSTANT Names      \* what check_name lets a board be called

Files == [boards : SUBSET [name : Names, serial : Boards],
          pins : SUBSET [board : Names, position : Nat, asic : Chips]]
NoNames == [boards |-> {}, pins |-> {}]

\* The checks of parse on a whole file.
Parses(f) ==
    /\ \A d, e \in f.boards : d.name = e.name \/ d.serial = e.serial => d = e
    /\ \A p \in f.pins : \E e \in f.boards : e.name = p.board
    /\ \A p, q \in f.pins :
          p.asic = q.asic \/ (p.board = q.board /\ p.position = q.position) => p = q

\* A board has the positions 0 to Places - 1, those of its dead chips included.
\* Variant: only of the chips that can be read.
PlacesReadable(b, R) == Size(b, R)
Places(b, R) == IF Size(b, R) > Expected[b] THEN Size(b, R) ELSE Expected[b]

PinsOf(e, f) == {p \in f.pins : p.board = e.name}
Present(f, R) == {e \in f.boards : e.serial \in BoardsIn(R)}

\* A file that does not load is not applied at all.
Loads(f, R) ==
    /\ Parses(f)
    /\ \A e \in Present(f, R) : \A p \in PinsOf(e, f) : p.position < Places(e.serial, R)
Applied(f, R) == IF Loads(f, R) THEN f ELSE NoNames

\* The pins whose chip is there.
Matched(e, f, R) == {p \in PinsOf(e, f) : p.asic \in OnBoard(e.serial, R)}

\* The positions no matched pin takes, and the chips no pin places.
\* Variant: pins are taken to fill the first positions.
PlacesAfterPins(e, f, R) == Cardinality(Matched(e, f, R))..(Places(e.serial, R) - 1)
FreePlaces(e, f, R) ==
    0..(Places(e.serial, R) - 1) \ {p.position : p \in Matched(e, f, R)}
Unpinned(e, f, R) == OnBoard(e.serial, R) \ {p.asic : p \in Matched(e, f, R)}

\* Unpinned chips take the free positions, both in order.
Position(c, e, f, R) ==
    IF c \in Unpinned(e, f, R)
    THEN CHOOSE i \in FreePlaces(e, f, R) :
            Cardinality({j \in FreePlaces(e, f, R) : j < i})
              = Cardinality({d \in Unpinned(e, f, R) : Pci[d] < Pci[c]})
    ELSE (CHOOSE p \in Matched(e, f, R) : p.asic = c).position

\* What a target may be: a name, of the board if "at" is empty and of the chip at
\* that position otherwise; or an identifier that is no name.
NameOf(n, at) == [literal |-> {}, name |-> n, at |-> at]
Literal(k) == [literal |-> {k}, name |-> "", at |-> {}]

\* The key a target stands for; none if the command refuses it.
Resolve(t, f, R) ==
    LET g == Applied(f, R)
        Here == {e \in Present(g, R) : e.name = t.name}
    IN IF t.literal # {}
       THEN {k \in t.literal : k \in BoardsIn(R) \cup Chips \/ g.boards = {}}
       ELSE IF t.at # {}
       THEN {c \in R : \E e \in Here : /\ BoardOf[c] = e.serial
                                       /\ Position(c, e, g, R) \in t.at}
       ELSE IF Grain(R) = "board"
       THEN {e.serial : e \in Here}
       ELSE {c \in R : \E e \in Here : BoardOf[c] = e.serial /\ Size(e.serial, R) = 1}

\* --exact of an unreadable or degraded chip is refused; of a degraded board, by
\* its serial, it is not.
RefusedExact(k, R) == k \in Chips /\ (k \notin R \/ IsShort(BoardOf[k], R))

\* The file with n given to b, or nothing where set_name refuses.
SetName(f, n, b) ==
    IF Parses(f) /\ \A e \in f.boards : e.serial = b => e.name = n
    THEN {[f EXCEPT !.boards = {e \in @ : e.name # n} \cup {[name |-> n, serial |-> b]}]}
    ELSE {}

\* The file without n and its pins.
\* Variant: the pins stay.
UnsetNameOnly(f, n) ==
    IF Parses(f) /\ \E e \in f.boards : e.name = n
    THEN {[f EXCEPT !.boards = {e \in @ : e.name # n}]}
    ELSE {}
UnsetName(f, n) ==
    IF Parses(f) /\ \E e \in f.boards : e.name = n
    THEN {[boards |-> {e \in f.boards : e.name # n},
           pins |-> {p \in f.pins : p.board # n}]}
    ELSE {}
=============================================================================
