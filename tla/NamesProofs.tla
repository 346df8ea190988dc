----------------------------- MODULE NamesProofs -----------------------------
(* What holds of the names file whatever edits cross and whatever chips die, *)
(* on boards of any size: it loads, a name leads to one chip, a pin holds.   *)
EXTENDS RequestsProofs

\* Every pin of a names file to start from fits every board a name may move to
\* (names set does not look at the pins of the name it moves).
PinsFit ==
    \A f \in InitFiles : \A p \in f.pins : \A b \in Boards : p.position < Expected[b]

-----------------------------------------------------------------------------
(* The positions of the chips of a board.                                   *)

\* In a finite set of numbers every rank is taken.
LEMMA RankIsOnto ==
    ASSUME NEW S \in SUBSET Nat, IsFiniteSet(S), NEW k \in Nat, k < Cardinality(S)
    PROVE  \E i \in S : Cardinality({j \in S : j < i}) = k
  <1> DEFINE Below(i) == {j \in S : j < i}
             m == Cardinality(S)
             f == [i \in S |-> Cardinality(Below(i))]
             T == 0 .. (m - 1)
  <1>0. m \in Nat
    BY FS_CardinalityType
  <1>1. ASSUME NEW i \in S
        PROVE  /\ IsFiniteSet(Below(i))
               /\ Cardinality(Below(i)) \in Nat
               /\ Cardinality(Below(i)) <= m - 1
    <2>1. IsFiniteSet(S \ {i}) /\ Cardinality(S \ {i}) = m - 1
      BY FS_RemoveElement
    <2>2. Below(i) \subseteq S \ {i}
      OBVIOUS
    <2> QED
      BY <2>1, <2>2, FS_Subset, FS_CardinalityType
  <1>2. ASSUME NEW i \in S, NEW j \in S, i < j
        PROVE  Cardinality(Below(i)) < Cardinality(Below(j))
    <2>1. /\ IsFiniteSet(Below(j) \ {i})
          /\ Cardinality(Below(j) \ {i}) = Cardinality(Below(j)) - 1
      BY <1>1, <1>2, FS_RemoveElement
    <2>2. Below(i) \subseteq Below(j) \ {i}
      <3>1. i \in Nat /\ j \in Nat /\ \A x \in S : x \in Nat
        OBVIOUS
      <3>2. \A x \in S : x < i => x < j /\ x # i
        BY <1>2, <3>1
      <3> QED
        BY <3>2
    <2>3. Cardinality(Below(i)) <= Cardinality(Below(j) \ {i})
      BY <2>1, <2>2, FS_Subset
    <2> HIDE DEF Below
    <2> QED
      BY <1>1, <2>1, <2>3
  <1>3. f \in [S -> T]
    <2> HIDE DEF Below, m
    <2> QED
      BY <1>0, <1>1
  <1>4. ASSUME NEW i \in S, NEW j \in S, f[i] = f[j] PROVE i = j
    <2>1. Cardinality(Below(i)) = Cardinality(Below(j))
      BY <1>4
    <2>2. i \in Nat /\ j \in Nat
      OBVIOUS
    <2> HIDE DEF Below, f
    <2>3. ~(i < j) /\ ~(j < i)
      BY <1>1, <1>2, <2>1
    <2> QED
      BY <2>2, <2>3
  <1>5. IsFiniteSet(T) /\ Cardinality(T) = m
    <2> HIDE DEF m
    <2>1. /\ IsFiniteSet(0 .. (m - 1))
          /\ Cardinality(0 .. (m - 1)) = IF 0 > m - 1 THEN 0 ELSE (m - 1) - 0 + 1
      BY <1>0, FS_Interval
    <2> QED
      BY <1>0, <2>1
  <1>6. f \in Surjection(S, T)
    <2>1. f \in Injection(S, T)
      <3> HIDE DEF f, T
      <3> QED
        BY <1>3, <1>4 DEF Injection, IsInjective
    <2> HIDE DEF f, T
    <2> QED
      BY <1>5, <2>1, FS_Injection
  <1>7. k \in T
    <2> HIDE DEF m
    <2> QED
      BY <1>0 DEF m
  <1>8. PICK i \in S : f[i] = k
    <2> HIDE DEF f, T
    <2> QED
      BY <1>6, <1>7 DEF Surjection
  <1> QED
    BY <1>8

\* The chips of a board take different positions, and a pinned chip its own.
Pinned(e, f, R) == {p.asic : p \in Matched(e, f, R)}
Taken(e, f, R) == {p.position : p \in Matched(e, f, R)}

\* No more chips are left without a position than there are positions left.
LEMMA RoomForTheUnpinned ==
    ASSUME NEW R \in SUBSET Chips, NEW f \in Files, Parses(f), NEW e \in f.boards
    PROVE  /\ IsFiniteSet(Unpinned(e, f, R)) /\ IsFiniteSet(FreePlaces(e, f, R))
           /\ Cardinality(Unpinned(e, f, R)) \in Nat
           /\ Cardinality(FreePlaces(e, f, R)) \in Nat
           /\ Cardinality(Unpinned(e, f, R)) <= Cardinality(FreePlaces(e, f, R))
  <1> DEFINE b == e.serial
             B == OnBoard(b, R)
             M == Matched(e, f, R)
             P == Pinned(e, f, R)
             K == Taken(e, f, R)
             m == Places(b, R)
             A == 0 .. (m - 1)
  <1>1. b \in Boards /\ Expected[b] \in Nat
    BY TopologyAssumption DEF Files
  <1>2. IsFiniteSet(B) /\ Size(b, R) \in Nat /\ Size(b, R) = Cardinality(B)
    BY <1>1, BoardSizes DEF Size
  <1>3. m \in Nat /\ Size(b, R) <= m
    BY <1>1, <1>2 DEF Places
  <1>4. P \subseteq B /\ K \subseteq Nat
    BY DEF Matched, PinsOf, Files, Pinned, Taken
  <1>5. IsFiniteSet(P) /\ Cardinality(P) \in Nat
    BY <1>2, <1>4, FS_Subset, FS_CardinalityType
  <1>6. IsFiniteSet(B \ P) /\ Cardinality(B \ P) = Cardinality(B) - Cardinality(P)
    <2> HIDE DEF B, P
    <2>1. B \cap P = P
      BY <1>4
    <2>2. Cardinality(B \ P) = Cardinality(B) - Cardinality(B \cap P) /\ IsFiniteSet(B \ P)
      BY <1>2, FS_Difference
    <2> QED
      BY <2>1, <2>2
  <1>7. IsFiniteSet(K) /\ Cardinality(K) = Cardinality(P)
    <2> DEFINE g == [c \in P |-> (CHOOSE p \in M : p.asic = c).position]
    <2>1. \A c \in P : \E p \in M : p.asic = c
      BY DEF Pinned
    <2>2. \A p, q \in M : p.asic = q.asic \/ p.position = q.position => p = q
      BY DEF Parses, Matched, PinsOf
    <2>3. g \in [P -> K]
      BY <2>1 DEF Taken
    <2>4. \A c, d \in P : g[c] = g[d] => c = d
      <3> SUFFICES ASSUME NEW c \in P, NEW d \in P, g[c] = g[d] PROVE c = d
        OBVIOUS
      <3>1. PICK p \in M : p.asic = c /\ g[c] = p.position
        BY <2>1
      <3>2. PICK q \in M : q.asic = d /\ g[d] = q.position
        BY <2>1
      <3> QED
        BY <2>2, <3>1, <3>2
    <2>5. \A k \in K : \E c \in P : g[c] = k
      <3> SUFFICES ASSUME NEW k \in K PROVE \E c \in P : g[c] = k
        OBVIOUS
      <3>1. PICK p \in M : p.position = k
        BY DEF Taken
      <3>2. p.asic \in P
        BY DEF Pinned
      <3>3. (CHOOSE q \in M : q.asic = p.asic) = p
        BY <2>2
      <3> QED
        BY <3>1, <3>2, <3>3
    <2> HIDE DEF g, P, K
    <2>6. g \in Bijection(P, K)
      BY <2>3, <2>4, <2>5 DEF Bijection, Injection, Surjection, IsInjective
    <2> QED
      BY <1>5, <2>6, FS_Bijection DEF ExistsBijection
  <1>8. /\ IsFiniteSet(A) /\ Cardinality(A) = m
        /\ IsFiniteSet(A \ K) /\ Cardinality(A \ K) = m - Cardinality(A \cap K)
    <2> HIDE DEF m, K
    <2>1. /\ IsFiniteSet(0 .. (m - 1))
          /\ Cardinality(0 .. (m - 1)) = IF 0 > m - 1 THEN 0 ELSE (m - 1) - 0 + 1
      BY <1>3, FS_Interval
    <2>2. Cardinality(A) = m
      BY <1>3, <2>1
    <2> QED
      BY <2>1, <2>2, FS_Difference
  <1>9. Cardinality(A \cap K) <= Cardinality(K) /\ Cardinality(A \cap K) \in Nat
    <2> HIDE DEF A, K
    <2> QED
      BY <1>7, FS_Subset, FS_CardinalityType
  <1>10. Unpinned(e, f, R) = B \ P /\ FreePlaces(e, f, R) = A \ K
    BY DEF Unpinned, FreePlaces, Pinned, Taken
  <1>11. Cardinality(B \ P) \in Nat /\ Cardinality(A \ K) \in Nat
    BY <1>6, <1>8, FS_CardinalityType
  <1>12. Cardinality(B \ P) <= Cardinality(A \ K)
    <2> HIDE DEF m, A, B, P, K
    <2> QED
      BY <1>2, <1>3, <1>5, <1>6, <1>7, <1>8, <1>9
  <1> QED
    BY <1>6, <1>8, <1>10, <1>11, <1>12

\* The chips before one of the unpinned, in the order of their addresses.
Earlier(c, e, f, R) == {d \in Unpinned(e, f, R) : Pci[d] < Pci[c]}

\* An unpinned chip takes a free position, of the rank it has among the unpinned.
LEMMA UnpinnedPosition ==
    ASSUME NEW R \in SUBSET Chips, NEW f \in Files, Parses(f), NEW e \in f.boards,
           NEW c \in Unpinned(e, f, R)
    PROVE  LET i == Position(c, e, f, R)
           IN /\ i \in FreePlaces(e, f, R)
              /\ Cardinality({j \in FreePlaces(e, f, R) : j < i}) = Cardinality(Earlier(c, e, f, R))
  <1> DEFINE U == Unpinned(e, f, R)
             F == FreePlaces(e, f, R)
             k == Cardinality(Earlier(c, e, f, R))
  <1>1. /\ IsFiniteSet(U) /\ IsFiniteSet(F)
        /\ Cardinality(U) \in Nat /\ Cardinality(F) \in Nat
        /\ Cardinality(U) <= Cardinality(F)
    BY RoomForTheUnpinned
  <1>2. U \subseteq Chips /\ F \subseteq Nat
    <2>1. U \subseteq Chips
      BY DEF Unpinned, OnBoard
    <2>2. F \subseteq Nat
      BY DEF FreePlaces
    <2> QED
      BY <2>1, <2>2
  <1>3. IsFiniteSet(U \ {c}) /\ Cardinality(U \ {c}) = Cardinality(U) - 1
    BY <1>1, FS_RemoveElement
  <1>4. Earlier(c, e, f, R) \subseteq U \ {c}
    <2>1. c \in Chips /\ Pci[c] \in Nat
      BY <1>2, TopologyAssumption
    <2>2. ~(Pci[c] < Pci[c])
      BY <2>1
    <2> QED
      BY <2>2 DEF Earlier
  <1>5. k \in Nat /\ k < Cardinality(F)
    <2>1. IsFiniteSet(Earlier(c, e, f, R)) /\ k <= Cardinality(U) - 1
      BY <1>3, <1>4, FS_Subset
    <2>2. k \in Nat
      BY <2>1, FS_CardinalityType
    <2> HIDE DEF U, F, k
    <2> QED
      BY <1>1, <2>1, <2>2
  <1>6. \E i \in F : Cardinality({j \in F : j < i}) = k
    <2> HIDE DEF F, k
    <2> QED
      BY <1>1, <1>2, <1>5, RankIsOnto
  <1>7. Position(c, e, f, R) = CHOOSE i \in F : Cardinality({j \in F : j < i}) = k
    BY DEF Position, Earlier
  <1> HIDE DEF F, k
  <1>8. /\ Position(c, e, f, R) \in F
        /\ Cardinality({j \in F : j < Position(c, e, f, R)}) = k
    BY <1>6, <1>7
  <1> QED
    BY <1>8 DEF F, k

\* A pinned chip takes the position of its pin.
LEMMA PinnedPosition ==
    ASSUME NEW R \in SUBSET Chips, NEW f \in Files, Parses(f), NEW e \in f.boards,
           NEW p \in Matched(e, f, R)
    PROVE  Position(p.asic, e, f, R) = p.position
  <1>1. p.asic \notin Unpinned(e, f, R)
    BY DEF Unpinned
  <1>2. \A q \in Matched(e, f, R) : q.asic = p.asic => q = p
    BY DEF Parses, Matched, PinsOf
  <1>3. (CHOOSE q \in Matched(e, f, R) : q.asic = p.asic) = p
    BY <1>2
  <1> QED
    BY <1>1, <1>3 DEF Position

LEMMA PositionsDiffer ==
    ASSUME NEW R \in SUBSET Chips, NEW f \in Files, Parses(f), NEW e \in f.boards,
           NEW c \in OnBoard(e.serial, R), NEW d \in OnBoard(e.serial, R),
           Position(c, e, f, R) = Position(d, e, f, R)
    PROVE  c = d
  <1>1. \A x \in OnBoard(e.serial, R) :
            x \in Unpinned(e, f, R) \/ \E p \in Matched(e, f, R) : p.asic = x
    BY DEF Unpinned
  <1>2. \A p \in Matched(e, f, R) : p.position \notin FreePlaces(e, f, R)
    BY DEF FreePlaces
  <1>3. ASSUME NEW x \in OnBoard(e.serial, R), x \in Unpinned(e, f, R)
        PROVE  Position(x, e, f, R) \in FreePlaces(e, f, R)
    BY <1>3, UnpinnedPosition
  <1>4. CASE c \notin Unpinned(e, f, R) /\ d \notin Unpinned(e, f, R)
    <2>1. PICK p \in Matched(e, f, R) : p.asic = c
      BY <1>1, <1>4
    <2>2. PICK q \in Matched(e, f, R) : q.asic = d
      BY <1>1, <1>4
    <2>3. p.position = q.position
      BY <2>1, <2>2, PinnedPosition
    <2>4. p = q
      BY <2>3 DEF Parses, Matched, PinsOf
    <2> QED
      BY <2>1, <2>2, <2>4
  <1>5. ASSUME NEW x \in OnBoard(e.serial, R), NEW y \in OnBoard(e.serial, R),
               x \in Unpinned(e, f, R), y \notin Unpinned(e, f, R)
        PROVE  Position(x, e, f, R) # Position(y, e, f, R)
    <2>1. PICK p \in Matched(e, f, R) : p.asic = y
      BY <1>1, <1>5
    <2>2. Position(y, e, f, R) \notin FreePlaces(e, f, R)
      BY <1>2, <2>1, PinnedPosition
    <2> QED
      BY <1>3, <1>5, <2>2
  <1>6. ASSUME NEW x \in Unpinned(e, f, R), NEW y \in Unpinned(e, f, R), Pci[x] < Pci[y]
        PROVE  Cardinality(Earlier(x, e, f, R)) # Cardinality(Earlier(y, e, f, R))
    <2> DEFINE X == Earlier(x, e, f, R)
               Y == Earlier(y, e, f, R)
    <2>1. Unpinned(e, f, R) \subseteq Chips /\ Pci \in [Chips -> Nat]
      BY TopologyAssumption DEF Unpinned, OnBoard
    <2>2. x \in Y /\ X \subseteq Y \ {x}
      BY <1>6, <2>1 DEF Earlier
    <2>3. IsFiniteSet(Y)
      BY RoomForTheUnpinned, FS_Subset DEF Earlier
    <2>4. IsFiniteSet(Y \ {x}) /\ Cardinality(Y \ {x}) = Cardinality(Y) - 1
      BY <2>2, <2>3, FS_RemoveElement
    <2>5. Cardinality(X) <= Cardinality(Y \ {x}) /\ IsFiniteSet(X)
      BY <2>2, <2>4, FS_Subset
    <2>6. Cardinality(X) \in Nat /\ Cardinality(Y) \in Nat
      BY <2>3, <2>5, FS_CardinalityType
    <2> HIDE DEF X, Y
    <2>7. Cardinality(X) # Cardinality(Y)
      BY <2>4, <2>5, <2>6
    <2> QED
      BY <2>7 DEF X, Y
  <1>7. CASE c \in Unpinned(e, f, R) /\ d \in Unpinned(e, f, R)
    <2>1. Cardinality(Earlier(c, e, f, R)) = Cardinality(Earlier(d, e, f, R))
      <3> DEFINE Rank(i) == Cardinality({j \in FreePlaces(e, f, R) : j < i})
      <3>1. Rank(Position(c, e, f, R)) = Cardinality(Earlier(c, e, f, R))
        BY <1>7, UnpinnedPosition
      <3>2. Rank(Position(d, e, f, R)) = Cardinality(Earlier(d, e, f, R))
        BY <1>7, UnpinnedPosition
      <3> HIDE DEF Rank
      <3> QED
        BY <3>1, <3>2
    <2>2. ~(Pci[c] < Pci[d]) /\ ~(Pci[d] < Pci[c])
      BY <1>6, <1>7, <2>1
    <2>3. c \in Chips /\ d \in Chips
      BY DEF OnBoard
    <2>4. Pci[c] \in Nat /\ Pci[d] \in Nat
      BY <2>3, TopologyAssumption
    <2>5. Pci[c] = Pci[d]
      BY <2>2, <2>4
    <2> QED
      BY <2>3, <2>5, TopologyAssumption
  <1> QED
    BY <1>4, <1>5, <1>7
-----------------------------------------------------------------------------
(* Names lead to chips.                                                     *)

LEMMA NamesLeadBack ==
    ASSUME NEW R \in SUBSET Chips, NEW f \in Files, NEW e \in Present(Applied(f, R), R),
           NEW c \in OnBoard(e.serial, R),
           NEW to, to.literal = {}, to.name = e.name, to.at = {Position(c, e, Applied(f, R), R)}
    PROVE  Resolve(to, f, R) = {c}
  <1> DEFINE g == Applied(f, R)
             Here == {x \in Present(g, R) : x.name = e.name}
             i == Position(c, e, g, R)
  <1>1. g \in Files /\ Parses(g)
    BY DEF Applied, Loads, NoNames, Files, Parses
  <1>2. e \in g.boards
    BY DEF Present
  <1>3. Here = {e}
    BY <1>1 DEF Present, Parses
  <1>4. to.literal = {} /\ to.name = e.name /\ to.at = {i}
    OBVIOUS
  <1>5. Resolve(to, f, R) = {d \in R : \E x \in Here : /\ BoardOf[d] = x.serial
                                                      /\ Position(d, x, g, R) \in {i}}
    <2> HIDE DEF i
    <2> QED
      BY <1>4 DEF Resolve
  <1>6. Resolve(to, f, R) = {d \in OnBoard(e.serial, R) : Position(d, e, g, R) = i}
    <2> HIDE DEF i, Here, g
    <2> QED
      BY <1>3, <1>5 DEF OnBoard
  <1>7. \A d \in OnBoard(e.serial, R) : Position(d, e, g, R) = i => d = c
    <2> HIDE DEF g
    <2> QED
      BY <1>1, <1>2, PositionsDiffer
  <1> QED
    BY <1>6, <1>7

\* On boards of any size and whatever the file has become, the name that status shows
\* for a chip leads back to that chip and no other (names.py apply and resolve).
THEOREM NamesRoundTripTheorem == Spec => []NamesRoundTrip
  <1>1. TypeOK => NamesRoundTrip
    <2> SUFFICES ASSUME TypeOK, NEW e \in Present(Applied(file, readable), readable),
                        NEW c \in OnBoard(e.serial, readable)
                 PROVE  Resolve(NameOf(e.name, {Position(c, e, Applied(file, readable), readable)}),
                                file, readable) = {c}
      BY DEF NamesRoundTrip
    <2>1. readable \in SUBSET Chips /\ file \in Files
      BY DEF TypeOK
    <2> DEFINE to == NameOf(e.name, {Position(c, e, Applied(file, readable), readable)})
    <2>2. /\ to.literal = {} /\ to.name = e.name
          /\ to.at = {Position(c, e, Applied(file, readable), readable)}
      BY DEF NameOf
    <2> HIDE DEF to
    <2>3. Resolve(to, file, readable) = {c}
      BY <2>1, <2>2, NamesLeadBack
    <2> QED
      BY <2>3 DEF to
  <1> QED
    BY <1>1, RequestTypes, PTL

-----------------------------------------------------------------------------
(* The file stays in order.                                                 *)

InOrder(f) ==
    /\ Parses(f)
    /\ \A p \in f.pins : \A b \in Boards : p.position < Expected[b]

\* So is what an editor is about to write.
FilesInv ==
    /\ TypeOK
    /\ InOrder(file)
    /\ \A e \in Editors : edit[e].at \in {"write", "unset"} => InOrder(edit[e].text)

LEMMA EditsKeepOrder ==
    ASSUME NEW f \in Files, InOrder(f), NEW n, NEW b
    PROVE  \A g \in SetName(f, n, b) \cup UnsetName(f, n) : InOrder(g)
  <1>1. ASSUME NEW g \in SetName(f, n, b) PROVE InOrder(g)
    <2>1. /\ \A e \in f.boards : e.serial = b => e.name = n
          /\ g = [f EXCEPT !.boards = {e \in @ : e.name # n} \cup {[name |-> n, serial |-> b]}]
      BY <1>1 DEF SetName
    <2>2. /\ g.boards = {e \in f.boards : e.name # n} \cup {[name |-> n, serial |-> b]}
          /\ g.pins = f.pins
      BY <2>1 DEF Files
    <2>3. \A d, e \in g.boards : d.name = e.name \/ d.serial = e.serial => d = e
      BY <2>1, <2>2 DEF InOrder, Parses
    <2>4. \A p \in g.pins : \E e \in g.boards : e.name = p.board
      <3> SUFFICES ASSUME NEW p \in f.pins PROVE \E e \in g.boards : e.name = p.board
        BY <2>2
      <3>1. PICK e \in f.boards : e.name = p.board
        BY DEF InOrder, Parses
      <3>2. CASE p.board = n
        <4>1. [name |-> n, serial |-> b] \in g.boards
          BY <2>2
        <4> QED
          BY <3>2, <4>1
      <3>3. CASE p.board # n
        BY <2>2, <3>1, <3>3
      <3> QED
        BY <3>2, <3>3
    <2> QED
      BY <2>2, <2>3, <2>4 DEF InOrder, Parses
  <1>2. ASSUME NEW g \in UnsetName(f, n) PROVE InOrder(g)
    <2>1. /\ g.boards = {e \in f.boards : e.name # n}
          /\ g.pins = {p \in f.pins : p.board # n}
      BY <1>2 DEF UnsetName
    <2> QED
      BY <2>1 DEF InOrder, Parses
  <1> QED
    BY <1>1, <1>2

LEMMA FilesInit == PinsFit /\ Init => FilesInv
  <1> SUFFICES ASSUME PinsFit, Init PROVE FilesInv
    OBVIOUS
  <1>1. TypeOK
    BY InitIInv DEF IInv, Inv
  <1>2. InOrder(file)
    BY RequestsAssumption DEF Init, PinsFit, InOrder
  <1>3. \A e \in Editors : edit[e].at = "idle"
    BY DEF Init, Idle
  <1> QED
    BY <1>1, <1>2, <1>3 DEF FilesInv

LEMMA FilesNext == FilesInv /\ TypeOK' /\ [Next]_vars => FilesInv'
  <1> SUFFICES ASSUME FilesInv, TypeOK', [Next]_vars PROVE FilesInv'
    OBVIOUS
  <1>0. TypeOK
    BY DEF FilesInv
  <1>1. CASE UNCHANGED <<file, edit>>
    BY <1>1 DEF FilesInv, InOrder
  <1>2. ASSUME NEW e \in Editors, Editor(e) PROVE FilesInv'
    <2>1. ASSUME NEW n \in Names, NEW b \in Boards, StartSet(e, n, b) PROVE FilesInv'
      BY <1>0, <2>1 DEF StartSet, FilesInv, TypeOK
    <2>2. ASSUME NEW n \in Names, StartUnset(e, n) PROVE FilesInv'
      <3>1. PICK f \in UnsetName(file, n) :
               edit' = [edit EXCEPT ![e] = [Idle EXCEPT !.at = "unset", !.name = n, !.text = f]]
        BY <2>2 DEF StartUnset
      <3>2. InOrder(f)
        <4>1. file \in Files /\ InOrder(file)
          BY DEF FilesInv, TypeOK
        <4> QED
          BY <4>1, EditsKeepOrder
      <3>3. file' = file /\ edit'[e].text = f
        BY <1>0, <2>2, <3>1 DEF StartUnset, TypeOK, Idle
      <3>4. \A x \in Editors : x # e => edit'[x] = edit[x]
        BY <1>0, <3>1 DEF TypeOK
      <3> QED
        BY <3>2, <3>3, <3>4 DEF FilesInv
    <2>3. CASE EnterSet(e)
      <3>1. PICK f \in SetName(file, edit[e].name, edit[e].board) :
               edit' = [edit EXCEPT ![e].at = "write", ![e].text = f]
        BY <2>3 DEF EnterSet
      <3>2. InOrder(f)
        <4>1. file \in Files /\ InOrder(file)
          BY DEF FilesInv, TypeOK
        <4> QED
          BY <3>1, <4>1, EditsKeepOrder
      <3>3. file' = file /\ edit'[e].text = f
        <4>1. edit'[e] = [edit[e] EXCEPT !.at = "write", !.text = f]
          BY <1>0, <3>1 DEF TypeOK
        <4>2. edit[e] \in [at : {"idle", "set", "write", "unset"},
                           name : Names \cup {""}, board : Boards \cup {None},
                           keys : SUBSET Keys, text : Files]
          BY <1>0 DEF TypeOK
        <4>3. edit'[e].text = f
          BY <4>1, <4>2
        <4> QED
          BY <2>3, <4>3 DEF EnterSet
      <3>4. \A x \in Editors : x # e => edit'[x] = edit[x]
        BY <1>0, <3>1 DEF TypeOK
      <3> QED
        BY <3>2, <3>3, <3>4 DEF FilesInv
    <2>4. CASE RefuseSet(e)
      BY <1>0, <2>4 DEF RefuseSet, FilesInv, TypeOK, Idle
    <2>5. CASE Write(e)
      BY <1>0, <2>5 DEF Write, FilesInv, TypeOK, Idle
    <2> QED
      BY <1>2, <2>1, <2>2, <2>3, <2>4, <2>5, RequestsAssumption DEF Editor
  <1>3. CASE \/ \E t \in Tenants : Tenant(t)
             \/ \E c \in Mortal : Dies(c) \/ ComesBack(c)
             \/ UNCHANGED vars
    <2>1. UNCHANGED <<file, edit>>
      BY <1>3 DEF Tenant, StartAcquire, StartWait, Enter, Defer, TurnedAway, Consider, NotEnough, Grant,
         WaitTimeout, Cancel, End, Dies, ComesBack, vars
    <2> QED
      BY <1>1, <2>1
  <1> QED
    BY <1>2, <1>3 DEF Next

\* Whatever edits cross, and whatever chips die, the names file goes on loading if the
\* pins it began with fit every board (names.py parse and apply, set_name, unset_name).
THEOREM FileLoadsTheorem ==
    ASSUME PinsFit
    PROVE  Spec => []FileLoads
  <1>1. FilesInv => FileLoads
    <2> SUFFICES ASSUME FilesInv, NEW R \in SUBSET Chips PROVE Loads(file, R)
      BY DEF FileLoads
    <2>1. ASSUME NEW e \in file.boards, NEW p \in file.pins PROVE p.position < Places(e.serial, R)
      <3>1. /\ e.serial \in Boards /\ p.position \in Nat
            /\ Expected[e.serial] \in Nat /\ p.position < Expected[e.serial]
        BY <2>1, TopologyAssumption DEF FilesInv, InOrder, TypeOK, Files
      <3>2. Size(e.serial, R) \in Nat
        BY <3>1, BoardSizes
      <3> QED
        BY <3>1, <3>2 DEF Places
    <2> QED
      BY <2>1 DEF Loads, Present, PinsOf, FilesInv, InOrder
  <1>2. Spec => []FilesInv
    BY FilesInit, FilesNext, RequestTypes, PTL DEF Spec
  <1> QED
    BY <1>1, <1>2, PTL

\* There, a pinned chip that can be read answers to its name and no other chip does,
\* whatever happens to the rest of its board.
THEOREM PinsHoldTheorem ==
    ASSUME PinsFit
    PROVE  Spec => []PinsHold
  <1>1. TypeOK /\ FileLoads => PinsHold
    <2> SUFFICES ASSUME TypeOK, FileLoads, NEW e \in file.boards, NEW p \in PinsOf(e, file),
                        p.asic \in OnBoard(e.serial, readable)
                 PROVE  Resolve(NameOf(e.name, {p.position}), file, readable) = {p.asic}
      BY DEF PinsHold
    <2>1. /\ readable \in SUBSET Chips /\ file \in Files
          /\ Applied(file, readable) = file /\ Parses(file)
      BY DEF TypeOK, FileLoads, Applied, Loads
    <2>2. e \in Present(file, readable)
      BY DEF Present, BoardsIn, OnBoard
    <2>3. p \in Matched(e, file, readable)
      BY DEF Matched
    <2>4. Position(p.asic, e, file, readable) = p.position
      BY <2>1, <2>3, PinnedPosition
    <2>5. e \in Present(Applied(file, readable), readable)
      BY <2>1, <2>2
    <2> DEFINE to == NameOf(e.name, {p.position})
    <2>6. /\ to.literal = {} /\ to.name = e.name
          /\ to.at = {Position(p.asic, e, Applied(file, readable), readable)}
      BY <2>1, <2>4 DEF NameOf
    <2> HIDE DEF to
    <2>7. Resolve(to, file, readable) = {p.asic}
      BY <2>1, <2>5, <2>6, NamesLeadBack
    <2> QED
      BY <2>7 DEF to
  <1>2. Spec => [](TypeOK /\ FileLoads)
    BY RequestTypes, FileLoadsTheorem, PTL
  <1> QED
    BY <1>1, <1>2, PTL

-----------------------------------------------------------------------------
(* names set leaves the leased alone.                                       *)

\* Boards of one card type, and every chip of them stays known by its key: none dies,
\* or of boards of two, one at a time; and one names command at a time.
BoardsStay(n) ==
    /\ UniformCards(n)
    /\ MaxDead \in 0 .. 1
    /\ n # 2 => MaxDead = 0
    /\ n = 2 => \E b, d \in Boards : b # d
OneEditor == \A e, x \in Editors : e = x

\* The key that a chip of a whole board is locked by.
KeyOf(c, n) == IF n = 2 THEN BoardOf[c] ELSE c

\* All chips of a board are known to a command by that key, whichever it can read.
LEMMA BoardsKeepTheirKeys ==
    ASSUME NEW n, BoardsStay(n), NEW R \in SUBSET Chips,
           Cardinality(Chips \ R) <= MaxDead, NEW c \in Chips
    PROVE  \E d \in R : BoardOf[d] = BoardOf[c] /\ UnitOf(d, R) = KeyOf(c, n)
  <1> DEFINE D == Chips \ R
  <1>1. /\ IsFiniteSet(D) /\ Cardinality(D) \in Nat
        /\ n \in Nat /\ MaxDead \in 0 .. 1 /\ (n # 2 => MaxDead = 0)
        /\ Cardinality(D) <= MaxDead
    BY TopologyAssumption, FS_Subset, FS_CardinalityType DEF BoardsStay, UniformCards
  <1>2. \A b \in Boards : Size(b, Chips) = n /\ Expected[b] = n
    BY DEF BoardsStay, UniformCards
  <1>3. CASE n # 2
    <2>1. Cardinality(D) = 0
      BY <1>1, <1>3
    <2>2. D = {}
      BY <1>1, <2>1, FS_EmptySet
    <2>3. R = Chips
      BY <2>2
    <2>4. BoardOf[c] \in Boards
      BY TopologyAssumption
    <2>5. ~IsShort(BoardOf[c], R)
      BY <1>1, <1>2, <2>3, <2>4 DEF IsShort
    <2>6. UnitOf(c, R) = c
      BY <1>3, <2>3, <2>5, WholeUnit DEF BoardsStay
    <2> QED
      BY <1>3, <2>3, <2>6 DEF KeyOf
  <1>4. CASE n = 2
    <2>1. \A x, y \in D : x = y
      <3>1. Cardinality(D) = 0 \/ Cardinality(D) = 1
        BY <1>1, <1>4
      <3>2. D = {} \/ \E x : D = {x}
        BY <1>1, <3>1, FS_EmptySet, FS_Singleton
      <3> QED
        BY <3>2
    <2>2. ASSUME NEW b \in Boards
          PROVE  /\ b \in BoardsIn(R)
                 /\ Size(b, R) = 1 => \E x \in D : BoardOf[x] = b
      <3> DEFINE P == OnBoard(b, Chips)
                 Q == OnBoard(b, R)
      <3>1. IsFiniteSet(P) /\ Cardinality(P) = 2 /\ IsFiniteSet(Q) /\ Size(b, R) = Cardinality(Q)
        BY <1>2, <1>4, BoardSizes DEF Size
      <3>2. Q # P => \E x \in D : BoardOf[x] = b
        BY DEF OnBoard
      <3>3. Size(b, R) = 1 => Q # P
        <4>1. ASSUME Q = P PROVE Cardinality(Q) = Cardinality(P)
          BY <4>1
        <4> HIDE DEF P, Q
        <4> QED
          BY <3>1, <4>1
      <3>4. Q # {}
        <4>1. SUFFICES ASSUME Q = {} PROVE FALSE
          OBVIOUS
        <4>2. P \subseteq D
          BY <4>1 DEF OnBoard
        <4>3. \A x, y \in P : x = y
          BY <2>1, <4>2
        <4>4. Cardinality(P) # 0 /\ Cardinality(P) # 1
          BY <3>1
        <4>5. P # {} /\ ~\E x : P = {x}
          BY <3>1, <4>4, FS_EmptySet, FS_Singleton
        <4> QED
          BY <4>3, <4>5
      <3> QED
        BY <3>2, <3>3, <3>4 DEF BoardsIn, OnBoard
    <2>3. PICK b \in Boards, d \in Boards : b # d
      BY <1>4 DEF BoardsStay
    <2>4. ~(Size(b, R) = 1 /\ Size(d, R) = 1)
      BY <2>1, <2>2, <2>3
    <2>5. \A x \in BoardsIn(R) : ~(Size(x, R) > 2)
      <3>1. ASSUME NEW x \in BoardsIn(R) PROVE ~(Size(x, R) > 2)
        <4>1. x \in Boards
          BY TopologyAssumption DEF BoardsIn
        <4> QED
          BY <1>2, <1>4, <4>1, BoardSizes
      <3> QED
        BY <3>1
    <2>6. Grain(R) = "board"
      BY <2>2, <2>4, <2>5 DEF Grain
    <2>7. PICK d2 \in R : BoardOf[d2] = BoardOf[c]
      BY <2>2, TopologyAssumption DEF BoardsIn
    <2> QED
      BY <1>4, <2>6, <2>7 DEF UnitOf, KeyOf
  <1> QED
    BY <1>3, <1>4

\* The boards whose name an editor changes.
Changing(e) == {edit[e].board} \cup {x.serial : x \in {y \in file.boards : y.name = edit[e].name}}

\* An editor knows the keys of all of them, and writes while none is locked.
Reserved(e, n) ==
    /\ edit[e].at \in {"set", "write"} =>
          \A c \in Chips : BoardOf[c] \in Changing(e) => KeyOf(c, n) \in edit[e].keys
    /\ edit[e].at = "write" =>
          /\ mutex = e
          /\ edit[e].text \in SetName(file, edit[e].name, edit[e].board)
          /\ \A k \in edit[e].keys : lock[k] = None

ReservedInv(n) ==
    /\ IInv
    /\ Cardinality(Chips \ readable) <= MaxDead
    /\ \A e \in Editors : Reserved(e, n)

LEMMA ReservedInit ==
    ASSUME NEW n, BoardsStay(n), Init
    PROVE  ReservedInv(n)
  <1>1. IInv
    BY InitIInv
  <1>2. Cardinality(Chips \ readable) <= MaxDead
    <2>1. Chips \ readable = {}
      BY DEF Init
    <2>2. Cardinality(Chips \ readable) = 0
      BY <2>1, FS_EmptySet
    <2>3. MaxDead \in 0 .. 1
      BY DEF BoardsStay
    <2> QED
      BY <2>2, <2>3
  <1>3. \A e \in Editors : edit[e].at = "idle"
    BY DEF Init, Idle
  <1> QED
    BY <1>1, <1>2, <1>3 DEF ReservedInv, Reserved

\* While an editor is inside the mutex, no request goes in and no lock changes.
LEMMA EditorKeepsTheMutex ==
    ASSUME IInv, NEW e \in Editors, mutex = e, NEW t \in Tenants, Tenant(t)
    PROVE  mutex' = mutex /\ lock' = lock
  <1>1. mutex # None /\ mutex # t
    BY RequestsAssumption
  <1>2. pc[t] # "choosing"
    BY <1>1 DEF IInv, Inv, Good, Track
  <1> QED
    BY <1>1, <1>2 DEF Tenant, StartAcquire, StartWait, Enter, Defer, NotEnough, Consider, Choosing,
       Grant, WaitTimeout, Cancel, End

LEMMA StartSetReserves ==
    ASSUME NEW n, BoardsStay(n), ReservedInv(n), NEW e \in Editors, NEW m \in Names,
           NEW b \in Boards, StartSet(e, m, b)
    PROVE  Reserved(e, n)'
  <1>0. TypeOK /\ readable \in SUBSET Chips
    BY DEF ReservedInv, IInv, Inv, TypeOK
  <1> DEFINE K == {UnitOf(c, readable) : c \in {d \in readable : BoardOf[d] \in Affected(m, b)}}
  <1>1. /\ edit'[e] = [at |-> "set", name |-> m, board |-> b, text |-> NoNames, keys |-> K]
        /\ file' = file
    BY <1>0 DEF StartSet, TypeOK
  <1>2. edit'[e].at = "set" /\ edit'[e].name = m /\ edit'[e].board = b /\ edit'[e].keys = K
    BY <1>1
  <1>3. Changing(e)' = {b} \cup {x.serial : x \in {y \in file.boards : y.name = m}}
    BY <1>1, <1>2 DEF Changing
  <1>4. ASSUME NEW c \in Chips, BoardOf[c] \in Changing(e)' PROVE KeyOf(c, n) \in K
    <2>1. PICK d \in readable : BoardOf[d] = BoardOf[c] /\ UnitOf(d, readable) = KeyOf(c, n)
      BY <1>0, BoardsKeepTheirKeys DEF ReservedInv
    <2>2. BoardOf[c] \in BoardsIn(readable)
      BY <2>1 DEF BoardsIn
    <2>3. BoardOf[c] \in Affected(m, b)
      BY <1>3, <1>4, <2>2 DEF Affected, Present
    <2> QED
      BY <2>1, <2>3
  <1> QED
    BY <1>2, <1>4 DEF Reserved

LEMMA ReservedNext ==
    ASSUME NEW n, BoardsStay(n), OneEditor, ReservedInv(n), [Next]_vars
    PROVE  ReservedInv(n)'
  <1>0. IInv' /\ IInv /\ TypeOK /\ TypeOK'
    BY NextIInv DEF ReservedInv, IInv, Inv
  <1>1. ASSUME NEW t \in Tenants, Tenant(t) PROVE ReservedInv(n)'
    <2>1. UNCHANGED <<readable, file, edit>>
      BY <1>1 DEF Tenant, StartAcquire, StartWait, Enter, Defer, NotEnough, TurnedAway,
         Consider, Grant, WaitTimeout, Cancel, End
    <2>2. ASSUME NEW e \in Editors PROVE Reserved(e, n)'
      <3>1. edit[e].at = "write" => mutex' = mutex /\ lock' = lock
        BY <1>0, <1>1, EditorKeepsTheMutex DEF ReservedInv, Reserved
      <3> QED
        BY <2>1, <3>1 DEF ReservedInv, Reserved, Changing
    <2> QED
      BY <1>0, <2>1, <2>2 DEF ReservedInv
  <1>2. ASSUME NEW e \in Editors, Editor(e) PROVE ReservedInv(n)'
    <2>0. readable' = readable /\ lock' = lock
      BY <1>2, EditorMutex
    <2>1. SUFFICES Reserved(e, n)'
      BY <1>0, <2>0 DEF ReservedInv, OneEditor
    <2>2. CASE \E x \in Edits : x.set /\ StartSet(e, x.name, x.board)
      BY <2>2, StartSetReserves, RequestsAssumption
    <2>3. CASE \E x \in Edits : ~x.set /\ StartUnset(e, x.name)
      <3>1. edit'[e].at = "unset"
        BY <1>0, <2>3 DEF StartUnset, TypeOK, Idle
      <3> QED
        BY <3>1 DEF Reserved
    <2>4. CASE EnterSet(e)
      <3>1. PICK f \in SetName(file, edit[e].name, edit[e].board) :
               edit' = [edit EXCEPT ![e].at = "write", ![e].text = f]
        BY <2>4 DEF EnterSet
      <3>2. edit'[e] = [edit[e] EXCEPT !.at = "write", !.text = f]
        BY <1>0, <3>1 DEF TypeOK
      <3>3. edit[e] \in [at : {"idle", "set", "write", "unset"},
                         name : Names \cup {""}, board : Boards \cup {None},
                         keys : SUBSET Keys, text : Files]
        BY <1>0 DEF TypeOK
      <3>4. /\ edit'[e].at = "write" /\ edit'[e].text = f
            /\ edit'[e].name = edit[e].name /\ edit'[e].board = edit[e].board
            /\ edit'[e].keys = edit[e].keys
        BY <3>2, <3>3
      <3>5. /\ file' = file /\ mutex' = e /\ edit[e].at = "set"
            /\ \A k \in edit[e].keys : lock[k] = None
        BY <2>4 DEF EnterSet
      <3>6. Changing(e)' = Changing(e)
        BY <3>4, <3>5 DEF Changing
      <3> QED
        BY <2>0, <3>1, <3>4, <3>5, <3>6 DEF ReservedInv, Reserved
    <2>5. CASE RefuseSet(e) \/ Write(e)
      <3>1. edit' = [edit EXCEPT ![e] = Idle]
        BY <2>5 DEF RefuseSet, Write
      <3>2. edit'[e] = Idle
        BY <1>0, <3>1 DEF TypeOK
      <3>3. edit'[e].at = "idle"
        <4>1. Idle.at = "idle"
          BY DEF Idle
        <4> QED
          BY <3>2, <4>1
      <3> QED
        BY <3>3 DEF Reserved
    <2> QED
      BY <1>2, <2>2, <2>3, <2>4, <2>5 DEF Editor
  <1>3. ASSUME UNCHANGED <<file, lock, clean, mutex, request, edit>>,
               Cardinality(Chips \ readable') <= MaxDead
        PROVE  ReservedInv(n)'
    BY <1>0, <1>3 DEF ReservedInv, Reserved, Changing
  <1>4. ASSUME NEW c \in Mortal, Dies(c) PROVE ReservedInv(n)'
    <2> DEFINE D == Chips \ readable
    <2>1. Chips \ readable' = D \cup {c}
      BY <1>4, RequestsAssumption DEF Dies
    <2>2. IsFiniteSet(D) /\ Cardinality(D) \in Nat
      BY TopologyAssumption, FS_Subset, FS_CardinalityType
    <2>3. Cardinality(D \cup {c}) <= Cardinality(D) + 1
      <3> HIDE DEF D
      <3> QED
        BY <2>2, FS_AddElement
    <2>4. Cardinality(D) < MaxDead /\ Cardinality(D \cup {c}) \in Nat /\ MaxDead \in Nat
      <3>1. Cardinality(D \cup {c}) \in Nat
        BY <2>2, FS_AddElement, FS_CardinalityType
      <3>2. MaxDead \in 0 .. 1
        BY DEF BoardsStay
      <3> QED
        BY <1>4, <3>1, <3>2 DEF Dies
    <2>5. Cardinality(D \cup {c}) <= MaxDead
      <3> HIDE DEF D
      <3> QED
        BY <2>2, <2>3, <2>4
    <2> QED
      BY <1>3, <1>4, <2>1, <2>5 DEF Dies
  <1>5. ASSUME NEW c \in Mortal, ComesBack(c) PROVE ReservedInv(n)'
    <2>1. Chips \ readable' \subseteq Chips \ readable
      BY <1>5 DEF ComesBack
    <2>2. IsFiniteSet(Chips \ readable)
      BY TopologyAssumption, FS_Subset
    <2>3. /\ Cardinality(Chips \ readable') <= Cardinality(Chips \ readable)
          /\ Cardinality(Chips \ readable') \in Nat /\ Cardinality(Chips \ readable) \in Nat
      BY <2>1, <2>2, FS_Subset, FS_CardinalityType
    <2>4. MaxDead \in 0 .. 1 /\ Cardinality(Chips \ readable) <= MaxDead
      BY DEF BoardsStay, ReservedInv
    <2>5. Cardinality(Chips \ readable') <= MaxDead
      BY <2>3, <2>4
    <2> QED
      BY <1>3, <1>5, <2>5 DEF ComesBack
  <1>6. CASE UNCHANGED vars
    BY <1>3, <1>6 DEF vars, ReservedInv
  <1> QED
    BY <1>1, <1>2, <1>4, <1>5, <1>6 DEF Next

\* What SetName leaves of the names of the other boards is what there was.
LEMMA OtherNamesStay ==
    ASSUME NEW f \in Files, NEW m, NEW b, NEW g \in SetName(f, m, b), NEW s, s # b,
           \A x \in f.boards : x.name = m => x.serial # s
    PROVE  NamesOf(s, g) = NamesOf(s, f)
  <1>1. g = [f EXCEPT !.boards = {e \in @ : e.name # m} \cup {[name |-> m, serial |-> b]}]
    BY DEF SetName
  <1>2. g.boards = {e \in f.boards : e.name # m} \cup {[name |-> m, serial |-> b]}
    BY <1>1 DEF Files
  <1>3. {x \in g.boards : x.serial = s} = {x \in f.boards : x.serial = s}
    BY <1>2
  <1> QED
    BY <1>3 DEF NamesOf

\* A board under a lease keeps the name its holder was told, not only against a names
\* set that finds the lease: one that began before it too (cli.py cmd_names_set reads
\* the boards first, and looks at their locks inside the mutex).
THEOREM SetSparesTheLeasedTheorem ==
    ASSUME NEW n, BoardsStay(n), OneEditor
    PROVE  Spec => SetSparesTheLeased
  <1>1. ReservedInv(n) /\ [Next]_vars =>
          [\A e \in Editors : edit[e].at = "write" /\ edit'[e].at = "idle" =>
              \A t \in Tenants : \A c \in told[t] :
                  NamesOf(BoardOf[c], file') = NamesOf(BoardOf[c], file)]_vars
    <2> SUFFICES ASSUME ReservedInv(n), [Next]_vars, NEW e \in Editors, edit[e].at = "write",
                        edit'[e].at = "idle", NEW t \in Tenants, NEW c \in told[t]
                 PROVE  NamesOf(BoardOf[c], file') = NamesOf(BoardOf[c], file)
      OBVIOUS
    <2>0. TypeOK /\ Good(t) /\ Reserved(e, n) /\ view[t] \in SUBSET Chips
      BY DEF ReservedInv, IInv, Inv, TypeOK
    <2>1. file' = edit[e].text
      <3>1. edit' # edit
        OBVIOUS
      <3>2. Editor(e)
        BY <3>1 DEF Next, OneEditor, Tenant, StartAcquire, StartWait, Enter, Defer, NotEnough, TurnedAway,
           Consider, Grant, WaitTimeout, Cancel, End, Dies, ComesBack, vars
      <3>3. Write(e)
        BY <3>2 DEF Editor, StartSet, StartUnset, EnterSet, RefuseSet
      <3> QED
        BY <3>3 DEF Write
    <2>2. /\ told[t] = ChipsOf(chosen[t], view[t])
          /\ \A k \in chosen[t] : lock[k] = t
          /\ \A k \in chosen[t] : \A d \in ChipsOf({k}, view[t]) : ~IsShort(BoardOf[d], view[t])
      BY <2>0 DEF Good, Hold, Granted
    <2>3. c \in view[t] /\ UnitOf(c, view[t]) \in chosen[t]
      BY <2>2 DEF ChipsOf
    <2>4. ~IsShort(BoardOf[c], view[t])
      BY <2>2, <2>3 DEF ChipsOf
    <2>5. UnitOf(c, view[t]) = KeyOf(c, n)
      BY <2>0, <2>3, <2>4, WholeUnit DEF BoardsStay, KeyOf
    <2>6. lock[KeyOf(c, n)] # None
      BY <2>2, <2>3, <2>5, RequestsAssumption
    <2>7. BoardOf[c] \notin Changing(e)
      BY <2>0, <2>3, <2>6 DEF Reserved
    <2>8. file \in Files /\ edit[e].text \in SetName(file, edit[e].name, edit[e].board)
      BY <2>0 DEF TypeOK, Reserved
    <2>9. /\ BoardOf[c] # edit[e].board
          /\ \A x \in file.boards : x.name = edit[e].name => x.serial # BoardOf[c]
      BY <2>7 DEF Changing
    <2> QED
      BY <2>1, <2>8, <2>9, OtherNamesStay
  <1>2. Init => ReservedInv(n)
    BY ReservedInit
  <1>3. ReservedInv(n) /\ [Next]_vars => ReservedInv(n)'
    BY ReservedNext
  <1> QED
    BY <1>1, <1>2, <1>3, PTL DEF Spec, SetSparesTheLeased
==============================================================================
