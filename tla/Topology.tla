------------------------------ MODULE Topology ------------------------------
(***************************************************************************)
(* How gozer groups the chips it can read into boards, and boards or chips *)
(* into the units it leases.  A chip that answers with all ones is not     *)
(* readable: everything here is about a set R of readable chips, what one  *)
(* command saw when it read sysfs.                                         *)
(***************************************************************************)
EXTENDS Naturals, FiniteSets

CONSTANTS
    Boards,     \* the board serials
    Chips,      \* the chips, each its device index
    BoardOf,    \* the board each chip sits on
    Expected,   \* how many chips a board of this card type has; 0 if not listed
    Pci         \* the place of each chip in the order of the PCI addresses

ASSUME TopologyAssumption ==
    /\ Chips \subseteq Nat
    /\ IsFiniteSet(Chips)
    /\ \A b \in Boards : b \notin Chips
    /\ BoardOf \in [Chips -> Boards]
    /\ Expected \in [Boards -> Nat]
    /\ Pci \in [Chips -> Nat]
    /\ \A c, d \in Chips : Pci[c] = Pci[d] => c = d

\* What locks, requests and markers are named after: a serial or a PCI address.
Keys == Boards \cup Chips

OnBoard(b, R) == {c \in R : BoardOf[c] = b}
BoardsIn(R) == {BoardOf[c] : c \in R}
Size(b, R) == Cardinality(OnBoard(b, R))

\* A board that has lost a chip; its free chips are DEGRADED.
\* Variant: no card type has an expectation.
NeverShort(b, R) == FALSE
IsShort(b, R) == Size(b, R) < Expected[b]

\* UMD expands a chip to its board, unless some board holds more than two chips.
\* Variant: one board of one chip is enough for chip grain.
GrainOfTheSmallest(R) ==
    IF \/ \E b \in BoardsIn(R) : Size(b, R) > 2
       \/ \E b \in BoardsIn(R) : Size(b, R) = 1
    THEN "chip" ELSE "board"
Grain(R) ==
    IF \/ \E b \in BoardsIn(R) : Size(b, R) > 2
       \/ \A b \in BoardsIn(R) : Size(b, R) = 1
    THEN "chip" ELSE "board"

UnitOf(c, R) == IF Grain(R) = "board" THEN BoardOf[c] ELSE c
UnitsIn(R) == {UnitOf(c, R) : c \in R}
ChipsOf(S, R) == {c \in R : UnitOf(c, R) \in S}

\* The units --exact means: a chip's, or the one of that name.
UnitsNamed(k, R) == {u \in UnitsIn(R) : u = k \/ (k \in R /\ u = UnitOf(k, R))}

\* The chips that a tenant told of c gets to use: the whole board, where UMD
\* expands.
Expansion(c) ==
    IF \E b \in Boards : Size(b, Chips) > 2 THEN {c} ELSE OnBoard(BoardOf[c], Chips)
=============================================================================
