--------------------------- MODULE RequestsProofs ---------------------------
(* What holds of requests whatever chips die and come back: on any box, or  *)
(* on one whose boards are all of one card type.                            *)
EXTENDS Requests, FiniteSetTheorems, TLAPS

\* All boards carry the same number of chips, and their card type is listed with it.
UniformCards(n) ==
    /\ n \in Nat \ {0}
    /\ \A b \in Boards : Size(b, Chips) = n /\ Expected[b] = n

-----------------------------------------------------------------------------
(* The topology.                                                            *)

LEMMA BoardSizes ==
    ASSUME NEW R \in SUBSET Chips, NEW b \in Boards
    PROVE  /\ IsFiniteSet(R)
           /\ IsFiniteSet(OnBoard(b, R))
           /\ Size(b, R) \in Nat
           /\ Size(b, R) <= Size(b, Chips)
           /\ Size(b, R) = Size(b, Chips) => OnBoard(b, R) = OnBoard(b, Chips)
  <1>1. IsFiniteSet(Chips)
    BY TopologyAssumption
  <1>2. OnBoard(b, Chips) \subseteq Chips /\ OnBoard(b, R) \subseteq OnBoard(b, Chips)
    BY DEF OnBoard
  <1>3. IsFiniteSet(R) /\ IsFiniteSet(OnBoard(b, Chips))
    BY <1>1, <1>2, FS_Subset
  <1>4. IsFiniteSet(OnBoard(b, R))
    BY <1>2, <1>3, FS_Subset
  <1>5. Cardinality(OnBoard(b, R)) \in Nat
    BY <1>4, FS_CardinalityType
  <1> QED
    BY <1>2, <1>3, <1>4, <1>5, FS_Subset DEF Size

\* A chip of a board that is not short is always leased under the same key, and its
\* board is complete.
LEMMA WholeUnit ==
    ASSUME NEW n, UniformCards(n), NEW R \in SUBSET Chips, NEW c \in R,
           ~IsShort(BoardOf[c], R)
    PROVE  /\ UnitOf(c, R) = IF n = 2 THEN BoardOf[c] ELSE c
           /\ OnBoard(BoardOf[c], R) = OnBoard(BoardOf[c], Chips)
  <1>1. BoardOf[c] \in Boards /\ BoardOf[c] \in BoardsIn(R)
    BY TopologyAssumption DEF BoardsIn
  <1>2. \A b \in BoardsIn(R) : b \in Boards
    BY TopologyAssumption DEF BoardsIn
  <1>3. \A b \in Boards : Size(b, R) \in Nat /\ Size(b, R) <= n
    BY BoardSizes DEF UniformCards
  <1>4. Size(BoardOf[c], R) = n
    BY <1>1, <1>3 DEF IsShort, UniformCards
  <1>5. OnBoard(BoardOf[c], R) = OnBoard(BoardOf[c], Chips)
    BY <1>1, <1>4, BoardSizes DEF UniformCards
  <1>6. CASE n = 2
    <2>1. Grain(R) = "board"
      BY <1>1, <1>2, <1>3, <1>4, <1>6 DEF Grain
    <2> QED
      BY <1>5, <1>6, <2>1 DEF UnitOf
  <1>7. CASE n = 1
    <2>1. ASSUME NEW b \in BoardsIn(R) PROVE Size(b, R) = 1
      <3>1. PICK d \in R : BoardOf[d] = b
        BY DEF BoardsIn
      <3>2. OnBoard(b, R) # {}
        BY <3>1 DEF OnBoard
      <3>3. IsFiniteSet(OnBoard(b, R))
        BY <1>2, BoardSizes
      <3>4. Size(b, R) # 0
        BY <3>2, <3>3, FS_EmptySet DEF Size
      <3> QED
        BY <1>2, <1>3, <1>7, <3>4
    <2>2. Grain(R) = "chip"
      BY <2>1 DEF Grain
    <2> QED
      BY <1>5, <1>7, <2>2 DEF UnitOf
  <1>8. CASE n > 2
    <2>1. Grain(R) = "chip"
      BY <1>1, <1>4, <1>8 DEF Grain
    <2> QED
      BY <1>5, <1>8, <2>1 DEF UnitOf, UniformCards
  <1> QED
    BY <1>6, <1>7, <1>8 DEF UniformCards

LEMMA ShareSize ==
    ASSUME NEW R \in SUBSET Chips, NEW S
    PROVE  /\ ChipsOf(S, R) \subseteq R
           /\ IsFiniteSet(ChipsOf(S, R))
           /\ Cardinality(ChipsOf(S, R)) \in Nat
  <1>1. ChipsOf(S, R) \subseteq Chips
    BY DEF ChipsOf
  <1>2. IsFiniteSet(ChipsOf(S, R))
    BY <1>1, TopologyAssumption, FS_Subset
  <1> QED
    BY <1>2, FS_CardinalityType DEF ChipsOf

\* Taking one unit more adds no more than its chips.
LEMMA ShareGrows ==
    ASSUME NEW R \in SUBSET Chips, NEW S, NEW u
    PROVE  Cardinality(ChipsOf(S \cup {u}, R))
              <= Cardinality(ChipsOf(S, R)) + Cardinality(ChipsOf({u}, R))
  <1> DEFINE A == ChipsOf(S, R)
             B == ChipsOf({u}, R)
  <1>1. ChipsOf(S \cup {u}, R) = A \cup B
    BY DEF ChipsOf
  <1>2. IsFiniteSet(A) /\ IsFiniteSet(B)
    BY ShareSize
  <1>3. A \cap B \subseteq A
    OBVIOUS
  <1>4. IsFiniteSet(A \cap B)
    BY <1>2, <1>3, FS_Subset
  <1>5. Cardinality(A) \in Nat /\ Cardinality(B) \in Nat /\ Cardinality(A \cap B) \in Nat
    BY <1>2, <1>4, FS_CardinalityType
  <1>6. Cardinality(A \cup B) = Cardinality(A) + Cardinality(B) - Cardinality(A \cap B)
    BY <1>2, FS_Union
  <1>7. Cardinality(A \cup B) <= Cardinality(A) + Cardinality(B)
    BY <1>5, <1>6
  <1> QED
    BY <1>1, <1>7

LEMMA EmptyShare ==
    ASSUME NEW R \in SUBSET Chips, NEW S \in SUBSET UnitsIn(R),
           Cardinality(ChipsOf(S, R)) = 0
    PROVE  S = {}
  <1>0. IsFiniteSet(ChipsOf(S, R))
    BY ShareSize
  <1>1. ChipsOf(S, R) = {}
    BY <1>0, FS_EmptySet
  <1>2. \A u \in S : \E c \in R : u = UnitOf(c, R)
    BY DEF UnitsIn
  <1> QED
    BY <1>1, <1>2 DEF ChipsOf

LEMMA UnitsAreKeys == ASSUME NEW R \in SUBSET Chips PROVE UnitsIn(R) \subseteq Keys
  BY TopologyAssumption DEF UnitsIn, UnitOf, Keys

LEMMA SpanTypes ==
    ASSUME NEW R \in SUBSET Chips, NEW w \in Requested
    PROVE  Least(w, R) \in Nat /\ Most(w, R) \in Nat
  <1>1. Cardinality(R) \in Nat
    BY TopologyAssumption, FS_Subset, FS_CardinalityType
  <1>2. w.span = <<>> \/ (w.span[1] \in Nat /\ w.span[2] \in Nat)
    BY DEF Requested
  <1> QED
    BY <1>1, <1>2 DEF Least, Most

-----------------------------------------------------------------------------
(* The invariant, tenant by tenant.                                         *)

\* What allocate has taken is within the maximum, or is the first unit.
Fits(t) ==
    \/ chosen[t] = {}
    \/ Count(t) <= Most(doing[t], view[t])
    \/ \E u : chosen[t] = {u}

\* Inside the mutex, what is taken and what is left are free, and stay free.
Choice(t) ==
    pc[t] = "choosing" =>
        /\ chosen[t] \subseteq FreeUnits(t)
        /\ left[t] \subseteq FreeUnits(t)
        /\ doing[t].exact = {} => Fits(t)

\* What a holder was told is the chips of units that it has locked, on boards that
\* were complete when it looked.
Hold(t) ==
    /\ Holding(t) =>
        /\ told[t] = Granted(t)
        /\ chosen[t] \subseteq UnitsIn(view[t])
        /\ \A u \in chosen[t] : lock[u] = t
        /\ \A u \in chosen[t] : \A c \in ChipsOf({u}, view[t]) : ~IsShort(BoardOf[c], view[t])
        /\ doing[t].exact = {} => Fits(t)
    /\ ~Holding(t) => told[t] = {}

Track(t) ==
    /\ pc[t] = "choosing" <=> mutex = t
    /\ pc[t] \in {"asking", "choosing", "waiting", "holding"} => doing[t] = asked[t]

Good(t) == Track(t) /\ Choice(t) /\ Hold(t)

Inv == TypeOK /\ \A t \in Tenants : Good(t)

\* A tenant is not disturbed by steps that leave its own things, its locks and,
\* while it chooses, the gate alone.
LEMMA Undisturbed ==
    ASSUME NEW t \in Tenants, Good(t),
           view[t] \in SUBSET Chips,
           pc'[t] = pc[t], asked'[t] = asked[t], doing'[t] = doing[t], view'[t] = view[t],
           left'[t] = left[t], chosen'[t] = chosen[t], told'[t] = told[t],
           mutex' = t <=> mutex = t,
           \A k \in Keys : lock[k] = t => lock'[k] = t,
           pc[t] = "choosing" => lock' = lock /\ clean' = clean
    PROVE  Good(t)'
  <1>1. Granted(t)' = Granted(t) /\ Count(t)' = Count(t)
    BY DEF Granted, Count
  <1>2. Fits(t) => Fits(t)'
    BY <1>1 DEF Fits
  <1>3. pc[t] = "choosing" => FreeUnits(t)' = FreeUnits(t)
    BY DEF FreeUnits
  <1>4. Track(t)'
    BY DEF Good, Track
  <1>5. Choice(t)'
    BY <1>2, <1>3 DEF Good, Choice
  <1>6. Hold(t)'
    BY <1>1, <1>2, UnitsAreKeys DEF Good, Hold, Holding
  <1> QED
    BY <1>4, <1>5, <1>6 DEF Good

-----------------------------------------------------------------------------
(* The types.                                                               *)

LEMMA ResolveIsKey ==
    ASSUME NEW R \in SUBSET Chips, NEW f \in Files, NEW x, x.literal \subseteq Keys
    PROVE  Resolve(x, f, R) \subseteq Keys
  <1> DEFINE g == Applied(f, R)
             Here == {e \in Present(g, R) : e.name = x.name}
  <1>1. \A e \in g.boards : e.serial \in Boards
    BY DEF Applied, Files, NoNames
  <1>2. \A e \in Here : e.serial \in Boards
    BY <1>1 DEF Present
  <1> HIDE DEF g
  <1>3. \/ Resolve(x, f, R) \subseteq x.literal
        \/ Resolve(x, f, R) \subseteq R
        \/ Resolve(x, f, R) \subseteq {e.serial : e \in Here}
    BY DEF Resolve, g
  <1> QED
    BY <1>2, <1>3 DEF Keys

LEMMA FreeUnitsAreKeys ==
    ASSUME TypeOK, NEW t \in Tenants
    PROVE  FreeUnits(t) \subseteq Keys /\ FreeUnits(t) \subseteq UnitsIn(view[t])
  <1>1. view[t] \in SUBSET Chips
    BY DEF TypeOK
  <1> QED
    BY <1>1, UnitsAreKeys DEF FreeUnits

LEMMA NothingIsRequested == Nothing \in Requested
  BY DEF Nothing, Requested

LEMMA EditedFiles ==
    ASSUME NEW f \in Files, NEW n \in Names, NEW b \in Boards
    PROVE  SetName(f, n, b) \subseteq Files /\ UnsetName(f, n) \subseteq Files
  <1>1. [f EXCEPT !.boards = {e \in @ : e.name # n} \cup {[name |-> n, serial |-> b]}] \in Files
    BY DEF Files
  <1>2. [boards |-> {e \in f.boards : e.name # n},
         pins |-> {p \in f.pins : p.board # n}] \in Files
    BY DEF Files
  <1> QED
    BY <1>1, <1>2 DEF SetName, UnsetName

TenantTypes ==
    /\ lock \in [Keys -> Tenants \cup {None}]
    /\ clean \subseteq Keys
    /\ mutex \in Tenants \cup Editors \cup {None}
    /\ pc \in [Tenants -> {"idle", "asking", "choosing", "queued", "waiting", "holding"}]
    /\ ticketed \subseteq Tenants
    /\ asked \in [Tenants -> Requested]
    /\ doing \in [Tenants -> Requested]
    /\ view \in [Tenants -> SUBSET Chips]
    /\ left \in [Tenants -> SUBSET Keys]
    /\ chosen \in [Tenants -> SUBSET Keys]
    /\ told \in [Tenants -> SUBSET Chips]

LEMMA StartAcquireTypes ==
    ASSUME TypeOK, NEW t \in Tenants, NEW a \in Asks, StartAcquire(t, a)
    PROVE  TenantTypes'
  <1>1. \A x \in a.target : Resolve(x, file, readable) \subseteq Keys
    BY RequestsAssumption, ResolveIsKey DEF TypeOK
  <1>2. PICK exact : /\ exact = {} \/ \E k \in UNION {Resolve(x, file, readable) : x \in a.target} :
                                           exact = {k}
                     /\ asked' = [asked EXCEPT ![t] = [exact |-> exact, span |-> a.span,
                                                       fresh |-> a.fresh, queue |-> a.queue]]
    BY DEF StartAcquire
  <1>3. exact \subseteq Keys
    BY <1>1, <1>2
  <1>4. [exact |-> exact, span |-> a.span, fresh |-> a.fresh, queue |-> a.queue] \in Requested
    BY <1>3, RequestsAssumption DEF Requested
  <1>5. asked' \in [Tenants -> Requested]
    BY <1>2, <1>4 DEF TypeOK
  <1>6. doing' \in [Tenants -> Requested]
    BY <1>5 DEF TypeOK, StartAcquire
  <1> QED
    BY <1>5, <1>6 DEF TypeOK, TenantTypes, StartAcquire

LEMMA OverTypes ==
    ASSUME TypeOK, NEW t \in Tenants, Over(t)
    PROVE  /\ doing' \in [Tenants -> Requested]
           /\ view' \in [Tenants -> SUBSET Chips]
           /\ left' \in [Tenants -> SUBSET Keys]
           /\ chosen' \in [Tenants -> SUBSET Keys]
  BY NothingIsRequested DEF TypeOK, Over

LEMMA TurnedAwayTypes ==
    ASSUME TypeOK, NEW t \in Tenants, TurnedAway(t)
    PROVE  TenantTypes'
  <1>1. CASE t \in ticketed
    BY <1>1 DEF TypeOK, TenantTypes, TurnedAway
  <1>2. CASE t \notin ticketed
    <2>1. Over(t)
      BY <1>2 DEF TurnedAway
    <2>2. asked' \in [Tenants -> Requested]
      BY <1>2, NothingIsRequested DEF TypeOK, TurnedAway
    <2> QED
      BY <1>2, <2>1, <2>2, OverTypes DEF TypeOK, TenantTypes, TurnedAway
  <1> QED
    BY <1>1, <1>2

LEMMA TenantTypesStep ==
    ASSUME TypeOK, NEW t \in Tenants, Tenant(t)
    PROVE  TenantTypes'
  <1>1. CASE \E a \in Asks : StartAcquire(t, a)
    BY <1>1, StartAcquireTypes
  <1>2. CASE StartWait(t)
    BY <1>2 DEF TypeOK, TenantTypes, StartWait, Replay
  <1>3. CASE Enter(t)
    <2>1. left' \in [Tenants -> SUBSET Keys]
      BY <1>3, FreeUnitsAreKeys DEF TypeOK, Enter
    <2> QED
      BY <1>3, <2>1 DEF TypeOK, TenantTypes, Enter
  <1>4. CASE Defer(t) \/ NotEnough(t)
    BY <1>4, TurnedAwayTypes DEF Defer, NotEnough
  <1>5. CASE Consider(t)
    <2>1. PICK u \in left[t] :
             /\ left' = [left EXCEPT ![t] = @ \ {u}]
             /\ chosen' = [chosen EXCEPT
                   ![t] = IF doing[t].exact = {} /\ Overshoots(t, u) THEN @ ELSE @ \cup {u}]
      BY <1>5 DEF Consider
    <2>2. u \in Keys
      BY <2>1 DEF TypeOK
    <2>3. left' \in [Tenants -> SUBSET Keys] /\ chosen' \in [Tenants -> SUBSET Keys]
      BY <2>1, <2>2 DEF TypeOK
    <2> QED
      BY <1>5, <2>3 DEF TypeOK, TenantTypes, Consider
  <1>6. CASE Grant(t)
    <2>1. Granted(t) \subseteq Chips
      BY DEF TypeOK, Granted, ChipsOf
    <2>2. told' \in [Tenants -> SUBSET Chips]
      BY <1>6, <2>1 DEF TypeOK, Grant
    <2>3. lock' \in [Keys -> Tenants \cup {None}]
      BY <1>6 DEF TypeOK, Grant
    <2> QED
      BY <1>6, <2>2, <2>3 DEF TypeOK, TenantTypes, Grant
  <1>7. CASE WaitTimeout(t)
    BY <1>7, OverTypes DEF TypeOK, TenantTypes, WaitTimeout
  <1>8. CASE Cancel(t)
    BY <1>8, NothingIsRequested DEF TypeOK, TenantTypes, Cancel
  <1>9. CASE End(t)
    <2>1. lock' \in [Keys -> Tenants \cup {None}]
      BY <1>9 DEF TypeOK, End
    <2>2. clean' \subseteq Keys
      BY <1>9 DEF TypeOK, End
    <2>3. asked' \in [Tenants -> Requested]
      BY <1>9, NothingIsRequested DEF TypeOK, End
    <2>4. Over(t)
      BY <1>9 DEF End
    <2> QED
      BY <1>9, <2>1, <2>2, <2>3, <2>4, OverTypes DEF TypeOK, TenantTypes, End
  <1> QED
    BY <1>1, <1>2, <1>3, <1>4, <1>5, <1>6, <1>7, <1>8, <1>9 DEF Tenant

-----------------------------------------------------------------------------
(* A tenant's own steps.                                                    *)

LEMMA ConsiderIsGood ==
    ASSUME Inv, NEW t \in Tenants, Consider(t)
    PROVE  Good(t)'
  <1>1. /\ TypeOK /\ Good(t) /\ pc[t] = "choosing"
        /\ pc' = pc /\ mutex' = mutex /\ lock' = lock /\ clean' = clean
        /\ view' = view /\ doing' = doing /\ asked' = asked /\ told' = told
    BY DEF Inv, Consider, Choosing
  <1>2. PICK u \in left[t] :
           /\ left' = [left EXCEPT ![t] = @ \ {u}]
           /\ chosen' = [chosen EXCEPT
                 ![t] = IF doing[t].exact = {} /\ Overshoots(t, u) THEN @ ELSE @ \cup {u}]
    BY DEF Consider
  <1>3. /\ left'[t] = left[t] \ {u}
        /\ chosen'[t] = IF doing[t].exact = {} /\ Overshoots(t, u) THEN chosen[t]
                        ELSE chosen[t] \cup {u}
    BY <1>1, <1>2 DEF TypeOK
  <1>4. chosen[t] \subseteq FreeUnits(t) /\ left[t] \subseteq FreeUnits(t)
    BY <1>1 DEF Good, Choice
  <1>5. FreeUnits(t)' = FreeUnits(t)
    BY <1>1 DEF FreeUnits
  <1>6. view[t] \in SUBSET Chips /\ doing[t] \in Requested
    BY <1>1 DEF TypeOK
  <1>7. ASSUME doing[t].exact = {} PROVE Fits(t)'
    <2>1. CASE Overshoots(t, u)
      <3>1. chosen'[t] = chosen[t]
        BY <1>3, <1>7, <2>1
      <3>2. Fits(t)
        BY <1>1, <1>7 DEF Good, Choice
      <3> QED
        BY <1>1, <3>1, <3>2 DEF Fits, Count, Granted
    <2>2. CASE ~Overshoots(t, u) /\ Count(t) = 0
      <3>1. chosen[t] \subseteq UnitsIn(view[t])
        BY <1>1, <1>4, FreeUnitsAreKeys
      <3>2. chosen[t] = {}
        BY <1>6, <2>2, <3>1, EmptyShare DEF Count, Granted
      <3>3. chosen'[t] = {u}
        BY <1>3, <2>2, <3>2
      <3> QED
        BY <3>3 DEF Fits
    <2>3. CASE ~Overshoots(t, u) /\ Count(t) # 0
      <3> DEFINE n == Cardinality(ChipsOf({u}, view[t]))
                 m == Cardinality(ChipsOf(chosen[t] \cup {u}, view[t]))
      <3>1. Count(t) \in Nat /\ n \in Nat /\ m \in Nat
        BY <1>6, ShareSize DEF Count, Granted
      <3>2. Most(doing[t], view[t]) \in Nat
        BY <1>6, SpanTypes
      <3>3. m <= Count(t) + n
        BY <1>6, ShareGrows DEF Count, Granted
      <3>4. Count(t) + n <= Most(doing[t], view[t])
        BY <2>3, <3>1, <3>2 DEF Overshoots
      <3>5. m <= Most(doing[t], view[t])
        BY <3>1, <3>2, <3>3, <3>4
      <3>6. chosen'[t] = chosen[t] \cup {u}
        BY <1>3, <2>3
      <3>7. Count(t)' = m
        BY <1>1, <3>6 DEF Count, Granted
      <3> QED
        BY <1>1, <3>5, <3>7 DEF Fits
    <2> QED
      BY <2>1, <2>2, <2>3
  <1>8. Choice(t)'
    BY <1>1, <1>3, <1>4, <1>5, <1>7 DEF Choice
  <1>9. Track(t)'
    BY <1>1 DEF Good, Track
  <1>10. Hold(t)'
    BY <1>1 DEF Good, Hold, Holding
  <1> QED
    BY <1>8, <1>9, <1>10 DEF Good

LEMMA GrantIsGood ==
    ASSUME Inv, NEW t \in Tenants, Grant(t)
    PROVE  Good(t)'
  <1>1. /\ TypeOK /\ Good(t) /\ pc[t] = "choosing" /\ mutex' = None
        /\ view' = view /\ doing' = doing /\ asked' = asked /\ chosen' = chosen
    BY DEF Inv, Grant
  <1>2. pc'[t] = "holding" /\ told'[t] = Granted(t)
    BY <1>1 DEF Grant, TypeOK
  <1>3. chosen[t] \subseteq FreeUnits(t)
    BY <1>1 DEF Good, Choice
  <1>4. chosen[t] \subseteq UnitsIn(view[t]) /\ chosen[t] \subseteq Keys
    BY <1>1, <1>3, FreeUnitsAreKeys
  <1>5. \A u \in chosen[t] : lock'[u] = t
    BY <1>4 DEF Grant
  <1>6. \A u \in chosen[t] : \A c \in ChipsOf({u}, view[t]) : ~IsShort(BoardOf[c], view[t])
    BY <1>3 DEF FreeUnits
  <1>7. doing[t].exact = {} => Fits(t)'
    BY <1>1 DEF Good, Choice, Fits, Count, Granted
  <1>8. Granted(t)' = Granted(t)
    BY <1>1 DEF Granted
  <1>9. Hold(t)'
    BY <1>1, <1>2, <1>4, <1>5, <1>6, <1>7, <1>8 DEF Hold, Holding
  <1>10. Choice(t)'
    BY <1>2 DEF Choice
  <1>11. Track(t)'
    BY <1>1, <1>2, RequestsAssumption DEF Good, Track
  <1> QED
    BY <1>9, <1>10, <1>11 DEF Good

LEMMA TurnedAwayIsGood ==
    ASSUME Inv, NEW t \in Tenants, TurnedAway(t),
           pc[t] \in {"asking", "waiting", "choosing"}
    PROVE  Good(t)'
  <1>1. TypeOK /\ Good(t) /\ mutex' = None /\ told' = told
    BY DEF Inv, TurnedAway
  <1>2. told[t] = {}
    BY <1>1 DEF Good, Hold, Holding
  <1>3. doing[t] = asked[t]
    BY <1>1 DEF Good, Track
  <1>4. CASE t \in ticketed
    <2>1. pc'[t] = "waiting" /\ doing' = doing /\ asked' = asked
      BY <1>1, <1>4 DEF TurnedAway, TypeOK
    <2> QED
      BY <1>1, <1>2, <1>3, <2>1, RequestsAssumption DEF Good, Track, Choice, Hold, Holding
  <1>5. CASE t \notin ticketed
    <2>1. pc'[t] \in {"queued", "idle"}
      BY <1>1, <1>5 DEF TurnedAway, TypeOK
    <2> QED
      BY <1>1, <1>2, <2>1, RequestsAssumption DEF Good, Track, Choice, Hold, Holding
  <1> QED
    BY <1>4, <1>5

LEMMA OwnStep ==
    ASSUME Inv, NEW t \in Tenants, Tenant(t)
    PROVE  Good(t)'
  <1>0. TypeOK /\ Good(t)
    BY DEF Inv
  <1>1. CASE \E a \in Asks : StartAcquire(t, a)
    <2>1. PICK a \in Asks : StartAcquire(t, a)
      BY <1>1
    <2>2. /\ pc[t] = "idle" /\ pc'[t] = "asking" /\ mutex' = mutex /\ told' = told
          /\ doing'[t] = asked'[t]
      BY <1>0, <2>1 DEF StartAcquire, TypeOK
    <2> QED
      BY <1>0, <2>2 DEF Good, Track, Choice, Hold, Holding
  <1>2. CASE StartWait(t)
    <2>1. /\ pc[t] = "queued" /\ pc'[t] = "waiting" /\ mutex' = mutex /\ told' = told
          /\ doing'[t] = asked'[t]
      BY <1>0, <1>2 DEF StartWait, Replay, TypeOK
    <2> QED
      BY <1>0, <2>1 DEF Good, Track, Choice, Hold, Holding
  <1>3. CASE Enter(t)
    <2>1. /\ pc[t] \in {"asking", "waiting"} /\ pc'[t] = "choosing" /\ mutex' = t
          /\ told' = told /\ doing' = doing /\ asked' = asked /\ view' = view
          /\ lock' = lock /\ clean' = clean
          /\ chosen'[t] = {} /\ left'[t] \subseteq FreeUnits(t)
      BY <1>0, <1>3 DEF Enter, TypeOK
    <2>2. FreeUnits(t)' = FreeUnits(t)
      BY <2>1 DEF FreeUnits
    <2>3. Choice(t)'
      BY <2>1, <2>2 DEF Choice, Fits
    <2>4. Track(t)' /\ Hold(t)'
      BY <1>0, <2>1 DEF Good, Track, Hold, Holding
    <2> QED
      BY <2>3, <2>4 DEF Good
  <1>4. CASE Defer(t) \/ NotEnough(t)
    BY <1>4, TurnedAwayIsGood DEF Defer, NotEnough
  <1>5. CASE Consider(t)
    BY <1>5, ConsiderIsGood
  <1>6. CASE Grant(t)
    BY <1>6, GrantIsGood
  <1>7. CASE WaitTimeout(t) \/ Cancel(t)
    <2>1. pc[t] \in {"waiting", "queued"} /\ pc'[t] \in {"queued", "idle"}
          /\ mutex' = mutex /\ told' = told
      BY <1>0, <1>7 DEF WaitTimeout, Cancel, TypeOK
    <2> QED
      BY <1>0, <2>1 DEF Good, Track, Choice, Hold, Holding
  <1>8. CASE End(t)
    <2>1. pc[t] = "holding" /\ pc'[t] = "idle" /\ mutex' = mutex /\ told'[t] = {}
      BY <1>0, <1>8 DEF End, TypeOK
    <2> QED
      BY <1>0, <2>1 DEF Good, Track, Choice, Hold, Holding
  <1> QED
    BY <1>1, <1>2, <1>3, <1>4, <1>5, <1>6, <1>7, <1>8 DEF Tenant

\* The other tenants: their own things stay, and what is free while they choose.
LEMMA OthersUntouched ==
    ASSUME Inv, NEW t \in Tenants, Tenant(t), NEW u \in Tenants, u # t
    PROVE  /\ pc'[u] = pc[u] /\ asked'[u] = asked[u] /\ doing'[u] = doing[u]
           /\ view'[u] = view[u] /\ left'[u] = left[u] /\ chosen'[u] = chosen[u]
           /\ told'[u] = told[u]
           /\ pc[u] = "choosing" => lock' = lock /\ clean' = clean
  <1>0. TypeOK /\ Good(u) /\ Good(t) /\ None \notin Tenants
    BY RequestsAssumption DEF Inv
  <1>1. /\ pc'[u] = pc[u] /\ asked'[u] = asked[u] /\ doing'[u] = doing[u]
        /\ view'[u] = view[u] /\ left'[u] = left[u] /\ chosen'[u] = chosen[u]
        /\ told'[u] = told[u]
    <2>1. CASE \E a \in Asks : StartAcquire(t, a)
      BY <1>0, <2>1 DEF StartAcquire, TypeOK
    <2>2. CASE Defer(t) \/ NotEnough(t)
      BY <1>0, <2>2 DEF Defer, NotEnough, TurnedAway, Over, TypeOK
    <2>3. CASE Consider(t)
      BY <1>0, <2>3 DEF Consider, TypeOK
    <2>4. CASE Enter(t) \/ StartWait(t)
      BY <1>0, <2>4 DEF Enter, StartWait, TypeOK
    <2>5. CASE Grant(t) \/ End(t)
      BY <1>0, <2>5 DEF Grant, End, Over, TypeOK
    <2>6. CASE WaitTimeout(t) \/ Cancel(t)
      BY <1>0, <2>6 DEF WaitTimeout, Cancel, Over, TypeOK
    <2> QED
      BY <2>1, <2>2, <2>3, <2>4, <2>5, <2>6 DEF Tenant
  <1>2. CASE Grant(t) \/ End(t)
    <2>1. mutex \in {t, None}
      BY <1>0, <1>2 DEF Grant, End, Good, Track
    <2> QED
      BY <1>0, <1>1, <2>1 DEF Good, Track
  <1>3. CASE ~Grant(t) /\ ~End(t)
    <2>1. lock' = lock /\ clean' = clean
      BY <1>3 DEF Tenant, StartAcquire, StartWait, Enter, Defer, NotEnough, TurnedAway,
         Consider, WaitTimeout, Cancel
    <2> QED
      BY <1>1, <2>1
  <1> QED
    BY <1>2, <1>3

LEMMA OthersStep ==
    ASSUME Inv, NEW t \in Tenants, Tenant(t), NEW u \in Tenants, u # t
    PROVE  Good(u)'
  <1>0. /\ TypeOK /\ Good(u) /\ Good(t) /\ None \notin Tenants
        /\ view[u] \in SUBSET Chips
    BY RequestsAssumption DEF Inv, TypeOK
  <1>1. /\ pc'[u] = pc[u] /\ asked'[u] = asked[u] /\ doing'[u] = doing[u]
        /\ view'[u] = view[u] /\ left'[u] = left[u] /\ chosen'[u] = chosen[u]
        /\ told'[u] = told[u]
    BY OthersUntouched
  <1>2. CASE Grant(t)
    <2>1. mutex = t /\ mutex' = None /\ pc[u] # "choosing"
      BY <1>0, <1>2 DEF Grant, Good, Track
    <2>2. \A k \in chosen[t] : lock[k] = None
      BY <1>0, <1>2 DEF Grant, Good, Choice, FreeUnits
    <2>3. \A k \in Keys : lock[k] = u => lock'[k] = u
      BY <1>0, <1>2, <2>2 DEF Grant
    <2> QED
      BY <1>0, <1>1, <2>1, <2>3, Undisturbed
  <1>3. CASE End(t)
    <2>1. mutex = None /\ mutex' = None /\ pc[u] # "choosing"
      BY <1>0, <1>3 DEF End, Good, Track
    <2>2. \A k \in Keys : lock[k] = u => lock'[k] = u
      BY <1>0, <1>3 DEF End
    <2> QED
      BY <1>0, <1>1, <2>1, <2>2, Undisturbed
  <1>4. CASE ~Grant(t) /\ ~End(t)
    <2>1. lock' = lock /\ clean' = clean
      BY <1>4 DEF Tenant, StartAcquire, StartWait, Enter, Defer, NotEnough, TurnedAway,
         Consider, WaitTimeout, Cancel
    <2>2. mutex' = u <=> mutex = u
      <3>1. mutex \in {None, t} \/ mutex' = mutex
        BY <1>0, <1>4 DEF Tenant, StartAcquire, StartWait, Enter, Defer, NotEnough, TurnedAway,
           Consider, WaitTimeout, Cancel, Good, Track
      <3>2. mutex' \in {None, t} \/ mutex' = mutex
        BY <1>4 DEF Tenant, StartAcquire, StartWait, Enter, Defer, NotEnough, TurnedAway,
           Consider, WaitTimeout, Cancel
      <3> QED
        BY <1>0, <3>1, <3>2
    <2> QED
      BY <1>0, <1>1, <2>1, <2>2, Undisturbed
  <1> QED
    BY <1>2, <1>3, <1>4

-----------------------------------------------------------------------------
(* Editors and chips.                                                       *)

EditTypes == edit \in [Editors -> [at : {"idle", "set", "write", "unset"},
                                   name : Names \cup {""}, board : Boards \cup {None},
                                   keys : SUBSET Keys, text : Files]]

LEMMA NoNamesIsAFile == NoNames \in Files
  BY DEF NoNames, Files

LEMMA IdleIsAnEdit ==
    Idle \in [at : {"idle", "set", "write", "unset"}, name : Names \cup {""},
              board : Boards \cup {None}, keys : SUBSET Keys, text : Files]
  BY NoNamesIsAFile DEF Idle

\* An editor at work has a name and a board.
Editing(e) == edit[e].at = "set" => edit[e].name \in Names /\ edit[e].board \in Boards

LEMMA EditorTypes ==
    ASSUME TypeOK, \A e \in Editors : Editing(e), NEW e \in Editors, Editor(e)
    PROVE  file' \in Files /\ EditTypes' /\ (\A x \in Editors : Editing(x)')
  <1> USE DEF EditTypes
  <1>0. edit \in [Editors -> [at : {"idle", "set", "write", "unset"},
                              name : Names \cup {""}, board : Boards \cup {None},
                              keys : SUBSET Keys, text : Files]]
    BY DEF TypeOK
  <1>1. CASE \E x \in Edits : x.set /\ StartSet(e, x.name, x.board)
    <2>1. PICK x \in Edits : StartSet(e, x.name, x.board)
      BY <1>1
    <2>2. x.name \in Names /\ x.board \in Boards
      BY RequestsAssumption
    <2> DEFINE new == [at |-> "set", name |-> x.name, board |-> x.board, text |-> NoNames,
                       keys |-> {UnitOf(c, readable) : c \in {d \in readable :
                                            BoardOf[d] \in Affected(x.name, x.board)}}]
    <2>3. new.keys \subseteq Keys
      <3>1. readable \subseteq Chips
        BY DEF TypeOK
      <3>2. \A c \in readable : UnitOf(c, readable) \in Keys
        BY <3>1, TopologyAssumption DEF UnitOf, Keys
      <3> QED
        BY <3>2
    <2>4. edit' = [edit EXCEPT ![e] = new] /\ file' = file
      BY <2>1 DEF StartSet
    <2>5. new \in [at : {"idle", "set", "write", "unset"}, name : Names \cup {""},
                   board : Boards \cup {None}, keys : SUBSET Keys, text : Files]
      BY <2>2, <2>3, NoNamesIsAFile
    <2>6. new.name \in Names /\ new.board \in Boards
      BY <2>2
    <2> HIDE DEF new
    <2> QED
      BY <1>0, <2>4, <2>5, <2>6 DEF TypeOK, Editing
  <1>2. CASE \E x \in Edits : ~x.set /\ StartUnset(e, x.name)
    <2>1. PICK x \in Edits : StartUnset(e, x.name)
      BY <1>2
    <2>2. x.name \in Names /\ x.board \in Boards
      BY RequestsAssumption
    <2>3. PICK f \in UnsetName(file, x.name) :
             edit' = [edit EXCEPT ![e] = [Idle EXCEPT !.at = "unset", !.name = x.name, !.text = f]]
      BY <2>1 DEF StartUnset
    <2>4. f \in Files
      BY <2>2, <2>3, EditedFiles DEF TypeOK
    <2> DEFINE new == [Idle EXCEPT !.at = "unset", !.name = x.name, !.text = f]
    <2>5. new \in [at : {"idle", "set", "write", "unset"}, name : Names \cup {""},
                   board : Boards \cup {None}, keys : SUBSET Keys, text : Files]
      BY <2>2, <2>4 DEF Idle
    <2>6. new.at = "unset" /\ file' = file
      BY <2>1 DEF StartUnset, Idle
    <2> HIDE DEF new
    <2> QED
      BY <1>0, <2>3, <2>5, <2>6 DEF TypeOK, Editing, new
  <1>3. CASE EnterSet(e)
    <2>1. PICK f \in SetName(file, edit[e].name, edit[e].board) :
             edit' = [edit EXCEPT ![e].at = "write", ![e].text = f]
      BY <1>3 DEF EnterSet
    <2>2. edit[e].at = "set" /\ file' = file
      BY <1>3 DEF EnterSet
    <2>3. f \in Files
      BY <2>1, <2>2, EditedFiles DEF TypeOK, Editing
    <2> DEFINE new == [edit[e] EXCEPT !.at = "write", !.text = f]
    <2>4. edit' = [edit EXCEPT ![e] = new]
      BY <1>0, <2>1
    <2>5. new \in [at : {"idle", "set", "write", "unset"}, name : Names \cup {""},
                   board : Boards \cup {None}, keys : SUBSET Keys, text : Files]
      BY <1>0, <2>3
    <2>6. new.at = "write"
      BY <1>0
    <2> HIDE DEF new
    <2> QED
      BY <1>0, <2>2, <2>4, <2>5, <2>6 DEF TypeOK, Editing
  <1>4. CASE RefuseSet(e) \/ Write(e)
    <2>1. edit' = [edit EXCEPT ![e] = Idle]
      BY <1>4 DEF RefuseSet, Write
    <2>2. file' \in Files
      <3>1. file \in Files /\ edit[e].text \in Files
        BY <1>0 DEF TypeOK
      <3>2. file' \in {file, edit[e].text}
        BY <1>4 DEF RefuseSet, Write
      <3> QED
        BY <3>1, <3>2
    <2>3. Idle.at = "idle"
      BY DEF Idle
    <2> QED
      BY <1>0, <2>1, <2>2, <2>3, IdleIsAnEdit DEF Editing
  <1> QED
    BY <1>1, <1>2, <1>3, <1>4 DEF Editor

LEMMA EditorMutex ==
    ASSUME NEW e \in Editors, Editor(e)
    PROVE  /\ UNCHANGED <<readable, lock, clean, request>>
           /\ mutex' = mutex \/ (mutex \in {None, e} /\ mutex' \in {None, e})
  BY DEF Editor, StartSet, StartUnset, EnterSet, RefuseSet, Write

\* The invariant of the whole.
IInv == Inv /\ \A e \in Editors : Editing(e)

LEMMA InitIInv == Init => IInv
  <1> SUFFICES ASSUME Init PROVE IInv
    OBVIOUS
  <1>1. file \in Files
    BY RequestsAssumption DEF Init
  <1>2. TypeOK
    BY <1>1, NothingIsRequested, IdleIsAnEdit DEF Init, TypeOK
  <1>3. \A t \in Tenants : Good(t)
    BY RequestsAssumption DEF Init, Good, Track, Choice, Hold, Holding
  <1>4. \A e \in Editors : Editing(e)
    BY DEF Init, Editing, Idle
  <1> QED
    BY <1>2, <1>3, <1>4 DEF IInv, Inv

LEMMA NextIInv == IInv /\ [Next]_vars => IInv'
  <1> SUFFICES ASSUME IInv, [Next]_vars PROVE IInv'
    OBVIOUS
  <1>0. /\ Inv /\ TypeOK /\ (\A e \in Editors : Editing(e))
        /\ \A t \in Tenants : Good(t) /\ view[t] \in SUBSET Chips
    BY DEF IInv, Inv, TypeOK
  <1>1. CASE \E t \in Tenants : Tenant(t)
    <2>1. PICK t \in Tenants : Tenant(t)
      BY <1>1
    <2>2. TenantTypes'
      BY <1>0, <2>1, TenantTypesStep
    <2>3. UNCHANGED <<readable, file, edit>>
      BY <2>1 DEF Tenant, StartAcquire, StartWait, Enter, Defer, NotEnough, TurnedAway,
         Consider, Grant, WaitTimeout, Cancel, End
    <2>4. TypeOK'
      BY <1>0, <2>2, <2>3 DEF TypeOK, TenantTypes
    <2>5. \A u \in Tenants : Good(u)'
      BY <1>0, <2>1, OwnStep, OthersStep
    <2>6. \A e \in Editors : Editing(e)'
      BY <1>0, <2>3 DEF Editing
    <2> QED
      BY <2>4, <2>5, <2>6 DEF IInv, Inv
  <1>2. CASE \E e \in Editors : Editor(e)
    <2>1. PICK e \in Editors : Editor(e)
      BY <1>2
    <2>2. file' \in Files /\ EditTypes' /\ (\A x \in Editors : Editing(x)')
      BY <1>0, <2>1, EditorTypes
    <2>3. /\ UNCHANGED <<readable, lock, clean, request>>
          /\ mutex' = mutex \/ (mutex \in {None, e} /\ mutex' \in {None, e})
      BY <2>1, EditorMutex
    <2>4. TypeOK'
      BY <1>0, <2>2, <2>3 DEF TypeOK, EditTypes, request
    <2>5. ASSUME NEW t \in Tenants PROVE Good(t)'
      <3>1. mutex' = t <=> mutex = t
        BY <2>3, RequestsAssumption
      <3> QED
        BY <1>0, <2>3, <3>1, Undisturbed DEF request
    <2> QED
      BY <2>2, <2>4, <2>5 DEF IInv, Inv
  <1>3. CASE (\E c \in Mortal : Dies(c) \/ ComesBack(c)) \/ UNCHANGED vars
    <2>1. UNCHANGED <<file, lock, clean, mutex, request, edit>>
      BY <1>3 DEF Dies, ComesBack, vars
    <2>2. readable' \subseteq Chips
      <3>1. readable \subseteq Chips /\ Mortal \subseteq Chips
        BY <1>0, RequestsAssumption DEF TypeOK
      <3>2. CASE \E c \in Mortal : Dies(c)
        BY <3>1, <3>2 DEF Dies
      <3>3. CASE \E c \in Mortal : ComesBack(c)
        BY <3>1, <3>3 DEF ComesBack
      <3>4. CASE UNCHANGED vars
        BY <3>1, <3>4 DEF vars
      <3> QED
        BY <1>3, <3>2, <3>3, <3>4
    <2>3. TypeOK'
      BY <1>0, <2>1, <2>2 DEF TypeOK, request
    <2>4. ASSUME NEW t \in Tenants PROVE Good(t)'
      BY <1>0, <2>1, Undisturbed DEF request
    <2>5. \A e \in Editors : Editing(e)'
      BY <1>0, <2>1 DEF Editing
    <2> QED
      BY <2>3, <2>4, <2>5 DEF IInv, Inv
  <1> QED
    BY <1>1, <1>2, <1>3 DEF Next

LEMMA IInvIsInvariant == Spec => []IInv
  BY InitIInv, NextIInv, PTL DEF Spec

-----------------------------------------------------------------------------
\* Every variable keeps its type.
THEOREM RequestTypes == Spec => []TypeOK
  BY IInvIsInvariant, PTL DEF IInv, Inv

\* Nobody gets more chips than the most they asked for, unless it is one unit.
THEOREM GrantsAreBounded == Spec => []NoOvershoot
  <1>1. IInv => NoOvershoot
    <2> SUFFICES ASSUME IInv, NEW t \in Tenants, Holding(t), asked[t].exact = {}
                 PROVE  \/ Cardinality(told[t]) <= Most(doing[t], view[t])
                        \/ \E u \in UnitsIn(view[t]) : told[t] = ChipsOf({u}, view[t])
      BY DEF NoOvershoot
    <2>1. TypeOK /\ Good(t) /\ view[t] \in SUBSET Chips /\ doing[t] \in Requested
      BY DEF IInv, Inv, TypeOK
    <2>2. /\ told[t] = ChipsOf(chosen[t], view[t])
          /\ chosen[t] \subseteq UnitsIn(view[t])
          /\ Fits(t)
      BY <2>1 DEF Good, Hold, Track, Holding, Granted
    <2>3. CASE chosen[t] = {}
      <3>1. ChipsOf({}, view[t]) = {}
        BY DEF ChipsOf
      <3> QED
        BY <2>1, <2>2, <2>3, <3>1, SpanTypes, FS_EmptySet
    <2>4. CASE Count(t) <= Most(doing[t], view[t])
      BY <2>2, <2>4 DEF Count, Granted
    <2>5. CASE \E u : chosen[t] = {u}
      BY <2>2, <2>5
    <2> QED
      BY <2>2, <2>3, <2>4, <2>5 DEF Fits
  <1> QED
    BY <1>1, IInvIsInvariant, PTL

\* Where all boards are of one card type, of whatever size, no chip has two
\* tenants, whatever chips die and come back between the requests.
THEOREM ChipsHaveOneTenant ==
    ASSUME NEW n, UniformCards(n)
    PROVE  Spec => []OneLeasePerChip
  <1>1. IInv => OneLeasePerChip
    <2> SUFFICES ASSUME IInv, NEW t \in Tenants, NEW u \in Tenants, t # u,
                        NEW c \in told[t] \cap told[u]
                 PROVE  FALSE
      BY DEF OneLeasePerChip
    <2> DEFINE key == IF n = 2 THEN BoardOf[c] ELSE c
    <2>1. ASSUME NEW x \in {t, u} PROVE lock[key] = x
      <3>1. Good(x) /\ view[x] \in SUBSET Chips /\ c \in told[x]
        BY <2>1 DEF IInv, Inv, TypeOK
      <3>2. /\ c \in ChipsOf(chosen[x], view[x])
            /\ \A k \in chosen[x] : lock[k] = x
            /\ \A k \in chosen[x] : \A d \in ChipsOf({k}, view[x]) : ~IsShort(BoardOf[d], view[x])
        BY <3>1 DEF Good, Hold, Granted
      <3>3. c \in view[x] /\ UnitOf(c, view[x]) \in chosen[x]
        BY <3>2 DEF ChipsOf
      <3>4. ~IsShort(BoardOf[c], view[x])
        BY <3>2, <3>3 DEF ChipsOf
      <3>5. UnitOf(c, view[x]) = key
        BY <3>1, <3>3, <3>4, WholeUnit
      <3> QED
        BY <3>2, <3>3, <3>5
    <2> QED
      BY <2>1
  <1> QED
    BY <1>1, IInvIsInvariant, PTL

\* There, a tenant also has every chip of each board it has a chip of.
THEOREM BoardsAreWhole ==
    ASSUME NEW n, UniformCards(n)
    PROVE  Spec => []GrantsWholeBoards
  <1>1. IInv => GrantsWholeBoards
    <2> SUFFICES ASSUME IInv, NEW t \in Tenants, NEW c \in told[t],
                        NEW d \in Expansion(c)
                 PROVE  d \in told[t]
      BY DEF GrantsWholeBoards
    <2>1. Good(t) /\ view[t] \in SUBSET Chips
      BY DEF IInv, Inv, TypeOK
    <2>2. /\ told[t] = ChipsOf(chosen[t], view[t])
          /\ \A k \in chosen[t] : \A x \in ChipsOf({k}, view[t]) : ~IsShort(BoardOf[x], view[t])
      BY <2>1 DEF Good, Hold, Granted
    <2>3. c \in view[t] /\ UnitOf(c, view[t]) \in chosen[t]
      BY <2>2 DEF ChipsOf
    <2>4. ~IsShort(BoardOf[c], view[t])
      BY <2>2, <2>3 DEF ChipsOf
    <2>5. /\ UnitOf(c, view[t]) = IF n = 2 THEN BoardOf[c] ELSE c
          /\ OnBoard(BoardOf[c], view[t]) = OnBoard(BoardOf[c], Chips)
      BY <2>1, <2>3, <2>4, WholeUnit
    <2>6. CASE d = c
      BY <2>6
    <2>7. CASE d # c
      <3>1. d \in OnBoard(BoardOf[c], Chips)
        BY <2>7 DEF Expansion
      <3>2. d \in view[t] /\ BoardOf[d] = BoardOf[c]
        BY <2>5, <3>1 DEF OnBoard
      <3>3. n = 2
        <4>0. ~(n > 2)
          <5>1. SUFFICES ASSUME n > 2 PROVE FALSE
            OBVIOUS
          <5>2. BoardOf[c] \in Boards
            BY <2>1, <2>3, TopologyAssumption
          <5>3. Expansion(c) = {c}
            BY <5>1, <5>2 DEF Expansion, UniformCards
          <5> QED
            BY <2>7, <5>3
        <4>1. SUFFICES ASSUME n = 1 PROVE FALSE
          BY <4>0 DEF UniformCards
        <4>2. BoardOf[c] \in Boards /\ c \in OnBoard(BoardOf[c], Chips)
          BY <2>1, <2>3, TopologyAssumption DEF OnBoard
        <4>3. IsFiniteSet(OnBoard(BoardOf[c], Chips)) /\ Cardinality(OnBoard(BoardOf[c], Chips)) = 1
          BY <4>1, <4>2, BoardSizes DEF UniformCards, Size
        <4>4. PICK x : OnBoard(BoardOf[c], Chips) = {x}
          BY <4>3, FS_Singleton
        <4> QED
          BY <2>7, <3>1, <4>2, <4>4
      <3>4. UnitOf(d, view[t]) = BoardOf[d]
        BY <2>1, <2>4, <3>2, <3>3, WholeUnit
      <3> QED
        BY <2>2, <2>3, <2>5, <3>2, <3>3, <3>4 DEF ChipsOf
    <2> QED
      BY <2>6, <2>7
  <1> QED
    BY <1>1, IInvIsInvariant, PTL

-----------------------------------------------------------------------------
(* What a grant gives, and what a refusal means.                            *)

\* What the request may take.
Suitable(t) ==
    IF doing[t].exact = {} THEN FreeUnits(t)
    ELSE FreeUnits(t) \cap UNION {UnitsNamed(k, view[t]) : k \in doing[t].exact}

\* What a choice has passed over it could not have taken without going over the
\* maximum, and a request names at most one chip or board.
Served(t) ==
    /\ \A k, m \in asked[t].exact : k = m
    /\ pc[t] = "choosing" =>
          /\ chosen[t] \subseteq Suitable(t) /\ left[t] \subseteq Suitable(t)
          /\ \A u \in Suitable(t) \ (chosen[t] \cup left[t]) :
                doing[t].exact = {} /\ Overshoots(t, u)

\* More units are no fewer chips.
LEMMA ShareIsMonotonic ==
    ASSUME NEW R \in SUBSET Chips, NEW S, NEW T, S \subseteq T
    PROVE  Cardinality(ChipsOf(S, R)) <= Cardinality(ChipsOf(T, R))
  <1>1. ChipsOf(S, R) \subseteq ChipsOf(T, R)
    BY DEF ChipsOf
  <1> QED
    BY <1>1, ShareSize, FS_Subset

LEMMA UndisturbedIsServed ==
    ASSUME NEW t \in Tenants, Served(t),
           pc'[t] = pc[t], asked'[t] = asked[t], doing'[t] = doing[t], view'[t] = view[t],
           left'[t] = left[t], chosen'[t] = chosen[t],
           pc[t] = "choosing" => lock' = lock /\ clean' = clean
    PROVE  Served(t)'
  <1>1. CASE pc[t] = "choosing"
    <2>1. Suitable(t)' = Suitable(t)
      BY <1>1 DEF Suitable, FreeUnits
    <2>2. \A u : Overshoots(t, u)' <=> Overshoots(t, u)
      BY DEF Overshoots, Count, Granted
    <2> QED
      BY <2>1, <2>2 DEF Served
  <1>2. CASE pc[t] # "choosing"
    BY <1>2 DEF Served
  <1> QED
    BY <1>1, <1>2

LEMMA ConsiderIsServed ==
    ASSUME Inv, NEW t \in Tenants, Served(t), Consider(t)
    PROVE  Served(t)'
  <1>1. /\ TypeOK /\ pc[t] = "choosing" /\ lock' = lock /\ clean' = clean
        /\ view' = view /\ doing' = doing /\ asked' = asked
    BY DEF Inv, Consider, Choosing
  <1>2. PICK u \in left[t] :
           /\ left' = [left EXCEPT ![t] = @ \ {u}]
           /\ chosen' = [chosen EXCEPT
                 ![t] = IF doing[t].exact = {} /\ Overshoots(t, u) THEN @ ELSE @ \cup {u}]
    BY DEF Consider
  <1>3. /\ left'[t] = left[t] \ {u}
        /\ chosen'[t] = IF doing[t].exact = {} /\ Overshoots(t, u) THEN chosen[t]
                        ELSE chosen[t] \cup {u}
    BY <1>1, <1>2 DEF TypeOK
  <1>4. Suitable(t)' = Suitable(t)
    BY <1>1 DEF Suitable, FreeUnits
  <1>5. view[t] \in SUBSET Chips /\ doing[t] \in Requested
    BY <1>1 DEF TypeOK
  <1>6. ASSUME NEW v, Overshoots(t, v) PROVE Overshoots(t, v)'
    <2> DEFINE i == Cardinality(ChipsOf({v}, view[t]))
               m == Most(doing[t], view[t])
    <2>1. Count(t) \in Nat /\ Count(t)' \in Nat /\ i \in Nat /\ m \in Nat
      BY <1>1, <1>5, ShareSize, SpanTypes DEF Count, Granted
    <2>2. Count(t) <= Count(t)'
      BY <1>1, <1>3, <1>5, ShareIsMonotonic DEF Count, Granted
    <2>3. Count(t) > 0 /\ Count(t) + i > m
      BY <1>6 DEF Overshoots
    <2>4. Count(t)' > 0 /\ Count(t)' + i > m
      BY <2>1, <2>2, <2>3
    <2> QED
      BY <1>1, <2>4 DEF Overshoots
  <1>7. ASSUME NEW v \in Suitable(t) \ (chosen'[t] \cup left'[t])
        PROVE  doing[t].exact = {} /\ Overshoots(t, v)'
    <2>1. CASE v = u
      BY <1>3, <1>6, <1>7, <2>1
    <2>2. CASE v # u
      BY <1>1, <1>3, <1>6, <1>7, <2>2 DEF Served
    <2> QED
      BY <2>1, <2>2
  <1> QED
    BY <1>1, <1>3, <1>4, <1>7 DEF Served

LEMMA OwnStepServes ==
    ASSUME Inv, NEW t \in Tenants, Served(t), Tenant(t)
    PROVE  Served(t)'
  <1>0. TypeOK
    BY DEF Inv
  <1>1. CASE \E a \in Asks : StartAcquire(t, a)
    <2>a. PICK a \in Asks : StartAcquire(t, a)
      BY <1>1
    <2>1. PICK exact : /\ exact = {} \/ \E k : exact = {k}
                       /\ asked' = [asked EXCEPT ![t] = [exact |-> exact, span |-> a.span,
                                                         fresh |-> a.fresh, queue |-> a.queue]]
      BY <2>a DEF StartAcquire
    <2>2. asked'[t].exact = exact
      <3>1. asked'[t] = [exact |-> exact, span |-> a.span, fresh |-> a.fresh, queue |-> a.queue]
        BY <1>0, <2>1 DEF TypeOK
      <3> QED
        BY <3>1
    <2>3. pc'[t] = "asking"
      BY <1>0, <1>1 DEF StartAcquire, TypeOK
    <2> QED
      BY <2>1, <2>2, <2>3 DEF Served
  <1>2. CASE Enter(t)
    <2>1. /\ lock' = lock /\ clean' = clean /\ view' = view /\ doing' = doing /\ asked' = asked
          /\ left'[t] = Suitable(t) /\ chosen'[t] = {}
      BY <1>0, <1>2 DEF Enter, TypeOK, Suitable
    <2>2. Suitable(t)' = Suitable(t)
      BY <2>1 DEF Suitable, FreeUnits
    <2> QED
      BY <2>1, <2>2 DEF Served
  <1>3. CASE Consider(t)
    BY <1>3, ConsiderIsServed
  <1>4. CASE \/ StartWait(t) \/ Defer(t) \/ NotEnough(t) \/ Grant(t) \/ WaitTimeout(t)
             \/ Cancel(t) \/ End(t)
    <2>1. asked'[t] \in {asked[t], Nothing} /\ pc'[t] # "choosing"
      BY <1>0, <1>4 DEF StartWait, Defer, NotEnough, TurnedAway, Over, Grant, WaitTimeout, Cancel, End, TypeOK
    <2> QED
      BY <2>1 DEF Served, Nothing
  <1> QED
    BY <1>1, <1>2, <1>3, <1>4 DEF Tenant

ServedInv == IInv /\ \A t \in Tenants : Served(t)

LEMMA ServedInit == Init => ServedInv
  BY InitIInv DEF Init, ServedInv, Served, Nothing

LEMMA ServedNext == ServedInv /\ [Next]_vars => ServedInv'
  <1> SUFFICES ASSUME ServedInv, [Next]_vars PROVE ServedInv'
    OBVIOUS
  <1>0. IInv' /\ Inv
    BY NextIInv DEF ServedInv, IInv
  <1>1. ASSUME NEW t \in Tenants, Tenant(t), NEW u \in Tenants PROVE Served(u)'
    <2>1. CASE u = t
      BY <1>0, <1>1, <2>1, OwnStepServes DEF ServedInv
    <2>2. CASE u # t
      BY <1>0, <1>1, <2>2, OthersUntouched, UndisturbedIsServed DEF ServedInv
    <2> QED
      BY <2>1, <2>2
  <1>2. CASE \/ \E e \in Editors : Editor(e)
             \/ \E c \in Mortal : Dies(c) \/ ComesBack(c)
             \/ UNCHANGED vars
    <2>1. UNCHANGED <<lock, clean, request>>
      BY <1>2, EditorMutex DEF Dies, ComesBack, vars
    <2>2. \A u \in Tenants : Served(u)'
      BY <2>1, UndisturbedIsServed DEF ServedInv, request
    <2> QED
      BY <1>0, <2>2 DEF ServedInv
  <1> QED
    BY <1>0, <1>1, <1>2 DEF Next, ServedInv

\* Only a grant makes a holder, and only allocate turns a choosing request away.
LEMMA TenantTurns ==
    ASSUME Inv, [Next]_vars, NEW t \in Tenants, pc'[t] # pc[t]
    PROVE  Tenant(t)
  <1>1. ASSUME NEW u \in Tenants, Tenant(u), u # t PROVE FALSE
    BY <1>1, OthersUntouched
  <1>2. CASE \/ \E e \in Editors : Editor(e)
             \/ \E c \in Mortal : Dies(c) \/ ComesBack(c)
             \/ UNCHANGED vars
    BY <1>2, EditorMutex DEF Dies, ComesBack, vars, request
  <1> QED
    BY <1>1, <1>2 DEF Next

\* A grant, at once or through the queue, is what was asked for: the chip or board
\* named, reset silicon, and no fewer chips (gatekeeper.py allocate, and the request
\* that keymaster.py wait replays from its ticket).
THEOREM GrantsAreAsAsked == Spec => GrantsWhatWasAsked
  <1>1. ServedInv /\ [Next]_vars =>
          [\A t \in Tenants : ~Holding(t) /\ Holding(t)' =>
            /\ \A k \in asked[t].exact : k \in told'[t] \cup {BoardOf[c] : c \in told'[t]}
            /\ asked[t].fresh => chosen[t] \subseteq clean
            /\ asked[t].exact = {} => Cardinality(told'[t]) >= Least(asked[t], view[t])]_vars
    <2> SUFFICES ASSUME ServedInv, [Next]_vars, NEW t \in Tenants, ~Holding(t), Holding(t)'
                 PROVE  /\ \A k \in asked[t].exact : k \in told'[t] \cup {BoardOf[c] : c \in told'[t]}
                        /\ asked[t].fresh => chosen[t] \subseteq clean
                        /\ asked[t].exact = {} => Cardinality(told'[t]) >= Least(asked[t], view[t])
      OBVIOUS
    <2>0. Inv /\ TypeOK /\ Good(t) /\ Served(t) /\ pc'[t] = "holding" /\ pc[t] # "holding"
      BY DEF ServedInv, IInv, Inv, Holding
    <2>1. Grant(t)
      <3>1. Tenant(t)
        BY <2>0, TenantTurns
      <3> QED
        BY <2>0, <3>1 DEF Tenant, StartAcquire, StartWait, Enter, Defer, NotEnough, TurnedAway, Consider,
           WaitTimeout, Cancel, End, TypeOK
    <2>2. /\ told'[t] = Granted(t) /\ Enough(t) /\ pc[t] = "choosing" /\ doing[t] = asked[t]
      BY <2>0, <2>1 DEF Grant, TypeOK, Good, Track
    <2>3. chosen[t] \subseteq Suitable(t) /\ chosen[t] \subseteq FreeUnits(t)
      BY <2>0, <2>2 DEF Served, Good, Choice
    <2>4. ASSUME NEW k \in asked[t].exact PROVE k \in told'[t] \cup {BoardOf[c] : c \in told'[t]}
      <3>1. PICK u \in chosen[t] : u \in UnitsNamed(k, view[t])
        BY <2>0, <2>2, <2>3, <2>4 DEF Enough, Suitable, Served
      <3>2. CASE u = k
        <4>1. PICK c \in view[t] : u = UnitOf(c, view[t])
          BY <3>1 DEF UnitsNamed, UnitsIn
        <4>2. c \in told'[t] /\ (k = c \/ k = BoardOf[c])
          BY <2>2, <3>1, <3>2, <4>1 DEF Granted, ChipsOf, UnitOf
        <4> QED
          BY <4>2
      <3>3. CASE k \in view[t] /\ u = UnitOf(k, view[t])
        BY <2>2, <3>1, <3>3 DEF Granted, ChipsOf
      <3> QED
        BY <3>1, <3>2, <3>3 DEF UnitsNamed
    <2>5. asked[t].fresh => chosen[t] \subseteq clean
      BY <2>2, <2>3 DEF FreeUnits
    <2>6. asked[t].exact = {} => Cardinality(told'[t]) >= Least(asked[t], view[t])
      BY <2>2 DEF Enough, Count
    <2> QED
      BY <2>4, <2>5, <2>6
  <1> QED
    BY <1>1, ServedInit, ServedNext, PTL DEF Spec, GrantsWhatWasAsked

\* The other chip of a board of two.
LEMMA BoardMate ==
    ASSUME UniformCards(2), NEW c \in Chips
    PROVE  \E x \in Chips : x # c /\ OnBoard(BoardOf[c], Chips) = {c, x}
  <1> DEFINE P == OnBoard(BoardOf[c], Chips)
  <1>1. BoardOf[c] \in Boards /\ c \in P
    BY TopologyAssumption DEF OnBoard
  <1>2. IsFiniteSet(P) /\ Cardinality(P) = 2
    BY <1>1, BoardSizes DEF UniformCards, Size
  <1>3. IsFiniteSet(P \ {c}) /\ Cardinality(P \ {c}) = 1
    BY <1>1, <1>2, FS_RemoveElement
  <1>4. PICK x : P \ {c} = {x}
    BY <1>3, FS_Singleton
  <1>5. x \in Chips /\ x # c /\ P = {c, x}
    BY <1>1, <1>4 DEF OnBoard
  <1> QED
    BY <1>5

\* A unit without dead chips is a board of two chips, or one chip.
LEMMA UnitSize ==
    ASSUME NEW n, UniformCards(n), NEW R \in SUBSET Chips, NEW u \in UnitsIn(R),
           \A c \in ChipsOf({u}, R) : ~IsShort(BoardOf[c], R)
    PROVE  Cardinality(ChipsOf({u}, R)) = IF n = 2 THEN 2 ELSE 1
  <1>1. PICK c \in R : u = UnitOf(c, R)
    BY DEF UnitsIn
  <1>2. ~IsShort(BoardOf[c], R)
    BY <1>1 DEF ChipsOf
  <1>3. /\ u = IF n = 2 THEN BoardOf[c] ELSE c
        /\ OnBoard(BoardOf[c], R) = OnBoard(BoardOf[c], Chips)
    BY <1>1, <1>2, WholeUnit
  <1>4. BoardOf[c] \in Boards
    BY TopologyAssumption
  <1>5. CASE n = 2
    <2>1. \A d \in R : BoardOf[d] = BoardOf[c] => UnitOf(d, R) = u
      BY <1>2, <1>3, <1>5, WholeUnit
    <2>2. \A d \in R : UnitOf(d, R) = u => BoardOf[d] = BoardOf[c]
      BY <1>3, <1>4, <1>5, TopologyAssumption DEF UnitOf
    <2>3. ChipsOf({u}, R) = OnBoard(BoardOf[c], R)
      BY <2>1, <2>2 DEF ChipsOf, OnBoard
    <2> QED
      BY <1>3, <1>4, <1>5, <2>3 DEF UniformCards, Size
  <1>6. CASE n # 2
    <2>1. \A d \in R : UnitOf(d, R) = u => d = c
      BY <1>3, <1>6, TopologyAssumption DEF UnitOf
    <2>2. ChipsOf({u}, R) = {c}
      BY <1>1, <2>1 DEF ChipsOf
    <2> QED
      BY <1>6, <2>2, FS_Singleton
  <1> QED
    BY <1>5, <1>6

\* Whole boards of two are an even number of chips.
LEMMA PairsAreEven ==
    ASSUME UniformCards(2), NEW R \in SUBSET Chips, NEW S,
           \A c \in ChipsOf(S, R) : ~IsShort(BoardOf[c], R)
    PROVE  \E h \in Nat : Cardinality(ChipsOf(S, R)) = h + h
  <1> DEFINE X == ChipsOf(S, R)
             Mate(c) == CHOOSE d \in X : d # c /\ BoardOf[d] = BoardOf[c]
             A == {c \in X : c < Mate(c)}
             B == X \ A
  <1>1. X \subseteq Chips /\ X \subseteq Nat
    BY TopologyAssumption DEF ChipsOf
  <1>2. ASSUME NEW c \in X
        PROVE  \E d \in X : /\ d # c /\ BoardOf[d] = BoardOf[c]
                            /\ \A x \in X : BoardOf[x] = BoardOf[c] => x \in {c, d}
    <2>0. c \in Chips /\ c \in R /\ UnitOf(c, R) \in S /\ ~IsShort(BoardOf[c], R)
      BY DEF ChipsOf
    <2>1. PICK d \in Chips : d # c /\ OnBoard(BoardOf[c], Chips) = {c, d}
      BY <2>0, BoardMate
    <2>2. /\ UnitOf(c, R) = BoardOf[c]
          /\ OnBoard(BoardOf[c], R) = OnBoard(BoardOf[c], Chips)
      BY <2>0, WholeUnit
    <2>3. d \in R /\ BoardOf[d] = BoardOf[c]
      BY <2>1, <2>2 DEF OnBoard
    <2>4. UnitOf(d, R) = BoardOf[d]
      BY <2>0, <2>3, WholeUnit
    <2>5. d \in X
      BY <2>0, <2>2, <2>3, <2>4 DEF ChipsOf
    <2>6. \A x \in X : BoardOf[x] = BoardOf[c] => x \in {c, d}
      BY <1>1, <2>1 DEF OnBoard
    <2> QED
      BY <2>1, <2>3, <2>5, <2>6
  <1> HIDE DEF X
  <1>3. ASSUME NEW c \in X
        PROVE  /\ Mate(c) \in X /\ Mate(c) # c /\ BoardOf[Mate(c)] = BoardOf[c]
               /\ \A x \in X : BoardOf[x] = BoardOf[c] => x \in {c, Mate(c)}
    <2>1. Mate(c) \in X /\ Mate(c) # c /\ BoardOf[Mate(c)] = BoardOf[c]
      BY <1>2
    <2> QED
      BY <1>2, <2>1
  <1> HIDE DEF Mate
  <1>4. \A c \in X : Mate(Mate(c)) = c
    BY <1>3
  <1> DEFINE F == [c \in A |-> Mate(c)]
  <1>5. ASSUME NEW c \in A PROVE Mate(c) \in B
    <2>1. c \in X /\ c < Mate(c) /\ Mate(c) \in X /\ Mate(Mate(c)) = c
      BY <1>3, <1>4
    <2>2. c \in Nat /\ Mate(c) \in Nat
      BY <1>1, <2>1
    <2>3. ~(Mate(c) < Mate(Mate(c)))
      BY <2>1, <2>2
    <2> QED
      BY <2>1, <2>3
  <1>6. ASSUME NEW d \in B PROVE Mate(d) \in A
    <2>1. d \in X /\ ~(d < Mate(d)) /\ Mate(d) \in X /\ Mate(d) # d /\ Mate(Mate(d)) = d
      BY <1>3, <1>4
    <2>2. d \in Nat /\ Mate(d) \in Nat
      BY <1>1, <2>1
    <2>3. Mate(d) < Mate(Mate(d))
      BY <2>1, <2>2
    <2> QED
      BY <2>1, <2>3
  <1>7. F \in Bijection(A, B)
    <2>1. F \in [A -> B]
      BY <1>5
    <2>2. \A c, d \in A : F[c] = F[d] => c = d
      BY <1>4
    <2>3. \A d \in B : \E c \in A : F[c] = d
      BY <1>4, <1>6
    <2> HIDE DEF F, A, B
    <2> QED
      BY <2>1, <2>2, <2>3 DEF Bijection, Injection, Surjection, IsInjective
  <1>8. IsFiniteSet(X)
    BY ShareSize DEF X
  <1>9. IsFiniteSet(A) /\ IsFiniteSet(B)
    BY <1>8, FS_Subset
  <1>10. Cardinality(A) = Cardinality(B) /\ Cardinality(A) \in Nat
    <2> HIDE DEF F, A, B
    <2> QED
      BY <1>7, <1>9, FS_Bijection, FS_CardinalityType DEF ExistsBijection
  <1>11. A \cup B = X /\ A \cap B = {}
    OBVIOUS
  <1>12. Cardinality(X) = Cardinality(A) + Cardinality(A)
    <2> HIDE DEF A, B
    <2>1. Cardinality(A \cap B) = 0
      BY <1>11, FS_EmptySet
    <2>2. Cardinality(A \cup B) = Cardinality(A) + Cardinality(B) - Cardinality(A \cap B)
      BY <1>9, FS_Union
    <2>3. Cardinality(A \cup B) = Cardinality(A) + Cardinality(A)
      BY <1>10, <2>1, <2>2
    <2> QED
      BY <1>11, <2>3
  <1> QED
    BY <1>10, <1>12 DEF X

\* A request that allocate turns away could not have been served by any set of the
\* free units: units are only passed over when one more would overshoot, and boards
\* of one size leave no gap that another choice would fill (gatekeeper.py allocate).
THEOREM RefusalsAreNeeded ==
    ASSUME NEW n, UniformCards(n)
    PROVE  Spec => QueuesOnlyIfItCannot
  <1>1. ServedInv /\ [Next]_vars =>
          [\A t \in Tenants : pc[t] = "choosing" /\ pc'[t] \in {"waiting", "queued", "idle"} =>
              ~Servable(t)]_vars
    <2> SUFFICES ASSUME ServedInv, [Next]_vars, NEW t \in Tenants, pc[t] = "choosing",
                        pc'[t] \in {"waiting", "queued", "idle"}, NEW S \in SUBSET FreeUnits(t)
                 PROVE  ~ LET m == Cardinality(ChipsOf(S, view[t]))
                          IN IF doing[t].exact = {}
                             THEN Least(doing[t], view[t]) <= m /\ m <= Most(doing[t], view[t])
                             ELSE S # {} /\ \E k \in doing[t].exact : S \subseteq UnitsNamed(k, view[t])
      BY DEF Servable
    <2> DEFINE m == Cardinality(ChipsOf(S, view[t]))
    <2>0. Inv /\ TypeOK /\ Good(t) /\ Served(t)
      BY DEF ServedInv, IInv, Inv
    <2>1. ~Choosing(t) /\ ~Enough(t)
      <3>1. Tenant(t)
        BY <2>0, TenantTurns
      <3>2. ~Grant(t)
        BY <2>0 DEF Grant, TypeOK
      <3>3. ~Consider(t)
        BY DEF Consider
      <3> QED
        BY <3>1, <3>2, <3>3 DEF Tenant, StartAcquire, StartWait, Enter, Defer, NotEnough, WaitTimeout,
           Cancel, End
    <2>2. /\ chosen[t] \subseteq Suitable(t)
          /\ \A u \in Suitable(t) \ (chosen[t] \cup left[t]) :
                doing[t].exact = {} /\ Overshoots(t, u)
      BY <2>0 DEF Served
    <2>3. CASE doing[t].exact # {}
      <3>1. chosen[t] = {} /\ left[t] = {}
        BY <2>1, <2>3 DEF Choosing, Enough
      <3>2. Suitable(t) = {}
        BY <2>2, <2>3, <3>1
      <3>3. S \cap UNION {UnitsNamed(k, view[t]) : k \in doing[t].exact} = {}
        BY <2>3, <3>2 DEF Suitable
      <3> QED
        BY <2>3, <3>3
    <2>4. CASE doing[t].exact = {}
      <3> DEFINE lo == Least(doing[t], view[t])
                 hi == Most(doing[t], view[t])
      <3>0. view[t] \in SUBSET Chips /\ doing[t] \in Requested
        BY <2>0 DEF TypeOK
      <3>1. Count(t) \in Nat /\ m \in Nat /\ lo \in Nat /\ hi \in Nat
        BY <3>0, ShareSize, SpanTypes DEF Count, Granted
      <3>2. SUFFICES ASSUME lo <= m, m <= hi PROVE FALSE
        BY <2>4
      <3>3. Count(t) < lo
        BY <2>1, <2>4, <3>1 DEF Enough
      <3>4. left[t] = {}
        BY <2>1, <3>1, <3>2, <3>3 DEF Choosing
      <3>5. ~(S \subseteq chosen[t])
        <4>1. SUFFICES ASSUME S \subseteq chosen[t] PROVE m <= Count(t)
          BY <3>1, <3>2, <3>3
        <4> QED
          BY <3>0, <4>1, ShareIsMonotonic DEF Count, Granted
      <3>6. PICK u \in FreeUnits(t) : Overshoots(t, u)
        BY <2>2, <2>4, <3>4, <3>5 DEF Suitable
      <3>7. FreeUnits(t) \subseteq UnitsIn(view[t])
        BY DEF FreeUnits
      <3>8. \A k \in FreeUnits(t) : \A c \in ChipsOf({k}, view[t]) : ~IsShort(BoardOf[c], view[t])
        BY DEF FreeUnits
      <3>9. \A T \in SUBSET FreeUnits(t) : \A c \in ChipsOf(T, view[t]) : ~IsShort(BoardOf[c], view[t])
        BY <3>8 DEF ChipsOf
      <3>10. Cardinality(ChipsOf({u}, view[t])) = IF n = 2 THEN 2 ELSE 1
        BY <3>0, <3>7, <3>8, UnitSize
      <3>11. Count(t) + (IF n = 2 THEN 2 ELSE 1) > hi
        BY <3>6, <3>10 DEF Overshoots
      <3>12. CASE n # 2
        BY <3>1, <3>2, <3>3, <3>11, <3>12
      <3>13. CASE n = 2
        <4>1. UniformCards(2)
          BY <3>13
        <4>2. chosen[t] \in SUBSET FreeUnits(t)
          BY <2>2, <2>4 DEF Suitable
        <4>3. PICK h \in Nat : Count(t) = h + h
          BY <3>0, <3>9, <4>1, <4>2, PairsAreEven DEF Count, Granted
        <4>4. PICK g \in Nat : m = g + g
          BY <3>0, <3>9, <4>1, PairsAreEven
        <4>5. h + h < g + g /\ g + g < h + h + 2
          BY <3>1, <3>2, <3>3, <3>11, <3>13, <4>3, <4>4
        <4> QED
          BY <4>3, <4>4, <4>5
      <3> QED
        BY <3>12, <3>13
    <2> QED
      BY <2>3, <2>4
  <1> QED
    BY <1>1, ServedInit, ServedNext, PTL DEF Spec, QueuesOnlyIfItCannot
=============================================================================
