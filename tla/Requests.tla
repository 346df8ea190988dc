------------------------------ MODULE Requests ------------------------------
(***************************************************************************)
(* What a request gets: acquire and wait over boards of several chips, of  *)
(* which some may die, with the choice allocate makes among the free units;*)
(* and names set and names unset, which edit the names file meanwhile.     *)
(*                                                                         *)
(* A command reads the topology once and keeps it.  Claiming is one step   *)
(* here and so is release (Leases has theirs), and the line of the queue   *)
(* may defer any request (TicketQueue has it).                             *)
(***************************************************************************)
EXTENDS Names

CONSTANTS
    Tenants,        \* who asks for chips, each with one request at a time
    Editors,        \* slots for names set and names unset
    None,           \* nobody
    Asks,           \* the requests: see StartAcquire
    Edits,          \* the edits: [set : BOOLEAN, name : Names, board : Boards]
    InitFiles,      \* the names files to start from
    Mortal,         \* the chips that may die
    MaxDead         \* bound of the number of dead chips

ASSUME RequestsAssumption ==
    /\ None \notin Tenants \cup Editors \cup Boards
    /\ Tenants \cap Editors = {}
    /\ \A a \in Asks : /\ a.span = <<>> \/ a.span \in Nat \X Nat
                       /\ IsFiniteSet(a.target) /\ Cardinality(a.target) <= 1
                       /\ \A x \in a.target : x.literal \subseteq Keys
                       /\ a.fresh \in BOOLEAN
                       /\ a.queue \in BOOLEAN
    /\ \A x \in Edits : x.set \in BOOLEAN /\ x.name \in Names /\ x.board \in Boards
    /\ InitFiles \subseteq Files
    /\ \A f \in InitFiles : Parses(f)
    /\ Mortal \subseteq Chips

VARIABLES
    readable,       \* the chips that do not answer with all ones
    file,           \* the names file
    lock,           \* gate/<key>.lock: whose
    clean,          \* the keys with a clean marker
    mutex,          \* who is inside critical_section
    pc,             \* where each tenant's request is
    ticketed,       \* the tenants with a ticket in the queue
    asked,          \* what each asked for, as its ticket keeps it
    doing,          \* what its command is asking for now
    view,           \* the chips its command read
    left, chosen,   \* allocate: the units to consider yet, and those taken
    told,           \* the chips in its TT_VISIBLE_DEVICES
    edit            \* what each editor is doing

request == <<pc, ticketed, asked, doing, view, left, chosen, told>>
vars == <<readable, file, lock, clean, mutex, request, edit>>

\* The span of a request is <<least, most>>, or <<>> for "all".
Requested == [exact : SUBSET Keys, span : {<<>>} \cup Nat \X Nat, fresh : BOOLEAN,
              queue : BOOLEAN]
Nothing == [exact |-> {}, span |-> <<>>, fresh |-> FALSE, queue |-> FALSE]
Idle == [at |-> "idle", name |-> "", board |-> None, keys |-> {}, text |-> NoNames]

TypeOK ==
    /\ readable \subseteq Chips
    /\ file \in Files
    /\ lock \in [Keys -> Tenants \cup {None}]
    /\ clean \subseteq Keys
    /\ mutex \in Tenants \cup Editors \cup {None}
    /\ pc \in [Tenants -> {"idle", "asking", "choosing", "queued", "waiting", "holding"}]
    /\ ticketed \subseteq Tenants
    /\ asked \in [Tenants -> Requested]
    /\ doing \in [Tenants -> Requested]
    /\ view \in [Tenants -> SUBSET Chips]
    /\ left \in [Tenants -> SUBSET Keys]
    /\ chosen \in [Tenants -> SUBSET Keys]
    /\ told \in [Tenants -> SUBSET Chips]
    /\ edit \in [Editors -> [at : {"idle", "set", "write", "unset"},
                             name : Names \cup {""}, board : Boards \cup {None},
                             keys : SUBSET Keys, text : Files]]

Init ==
    /\ readable = Chips
    /\ file \in InitFiles
    /\ lock = [k \in Keys |-> None]
    /\ clean = {}
    /\ mutex = None
    /\ pc = [t \in Tenants |-> "idle"]
    /\ ticketed = {}
    /\ asked = [t \in Tenants |-> Nothing]
    /\ doing = [t \in Tenants |-> Nothing]
    /\ view = [t \in Tenants |-> {}]
    /\ left = [t \in Tenants |-> {}]
    /\ chosen = [t \in Tenants |-> {}]
    /\ told = [t \in Tenants |-> {}]
    /\ edit = [e \in Editors |-> Idle]

-----------------------------------------------------------------------------
(* acquire and wait.                                                        *)

\* parse_chip_request: a range is cut down to what the command can see.
Least(w, R) == IF w.span = <<>> THEN Cardinality(R) ELSE w.span[1]
Most(w, R) ==
    IF w.span = <<>> \/ (w.span[1] < w.span[2] /\ w.span[2] > Cardinality(R))
    THEN Cardinality(R) ELSE w.span[2]

\* A name becomes a key once, here. The command is refused when the target stands
\* for nothing, or for a chip that is not to be had.
StartAcquire(t, a) ==
    /\ pc[t] = "idle"
    /\ readable # {}
    /\ \E exact \in IF a.target = {} THEN {{}}
                    ELSE {{k} : k \in UNION {Resolve(x, file, readable) : x \in a.target}} :
          /\ \A k \in exact : ~RefusedExact(k, readable)
          /\ asked' = [asked EXCEPT ![t] = [exact |-> exact, span |-> a.span,
                                            fresh |-> a.fresh, queue |-> a.queue]]
    /\ doing' = [doing EXCEPT ![t] = asked'[t]]
    /\ view' = [view EXCEPT ![t] = readable]
    /\ pc' = [pc EXCEPT ![t] = "asking"]
    /\ UNCHANGED <<readable, file, lock, clean, mutex, ticketed, left, chosen, told, edit>>

\* wait replays what the ticket says.
\* Variant: only the number of chips.
ReplaySpan(w) == [w EXCEPT !.exact = {}, !.fresh = FALSE]
Replay(w) == w

StartWait(t) ==
    /\ pc[t] = "queued"
    /\ readable # {}
    /\ doing' = [doing EXCEPT ![t] = Replay(asked[t])]
    /\ view' = [view EXCEPT ![t] = readable]
    /\ pc' = [pc EXCEPT ![t] = "waiting"]
    /\ UNCHANGED <<readable, file, lock, clean, mutex, ticketed, asked, left, chosen,
                   told, edit>>

\* The units with no lock and no DEGRADED chip, and clean if that was asked.
FreeUnits(t) ==
    {u \in UnitsIn(view[t]) :
        /\ lock[u] = None
        /\ \A c \in ChipsOf({u}, view[t]) : ~IsShort(BoardOf[c], view[t])
        /\ doing[t].fresh => u \in clean}

\* acquire is admitted and asks what is free.
Enter(t) ==
    /\ pc[t] \in {"asking", "waiting"}
    /\ mutex = None
    /\ mutex' = t
    /\ left' = [left EXCEPT ![t] = IF doing[t].exact = {} THEN FreeUnits(t)
                 ELSE FreeUnits(t) \cap UNION {UnitsNamed(k, view[t]) : k \in doing[t].exact}]
    /\ chosen' = [chosen EXCEPT ![t] = {}]
    /\ pc' = [pc EXCEPT ![t] = "choosing"]
    /\ UNCHANGED <<readable, file, lock, clean, ticketed, asked, doing, view, told, edit>>

\* The command of t is over, and the file it may leave is its ticket.
Over(t) ==
    /\ doing' = [doing EXCEPT ![t] = Nothing]
    /\ view' = [view EXCEPT ![t] = {}]
    /\ left' = [left EXCEPT ![t] = {}]
    /\ chosen' = [chosen EXCEPT ![t] = {}]

\* No grant: back to the poll of wait, or a new ticket, or --no-queue.
TurnedAway(t) ==
    /\ \/ /\ t \in ticketed
          /\ pc' = [pc EXCEPT ![t] = "waiting"]
          /\ left' = [left EXCEPT ![t] = {}]
          /\ chosen' = [chosen EXCEPT ![t] = {}]
          /\ UNCHANGED <<ticketed, asked, doing, view>>
       \/ /\ t \notin ticketed
          /\ doing[t].queue
          /\ pc' = [pc EXCEPT ![t] = "queued"]
          /\ ticketed' = ticketed \cup {t}
          /\ Over(t)
          /\ UNCHANGED asked
       \/ /\ t \notin ticketed
          /\ ~doing[t].queue
          /\ pc' = [pc EXCEPT ![t] = "idle"]
          /\ asked' = [asked EXCEPT ![t] = Nothing]
          /\ Over(t)
          /\ UNCHANGED ticketed
    /\ mutex' = None
    /\ UNCHANGED <<readable, file, lock, clean, told, edit>>

\* may_claim says no.
Defer(t) ==
    /\ pc[t] \in {"asking", "waiting"}
    /\ mutex = None
    /\ TurnedAway(t)

Granted(t) == ChipsOf(chosen[t], view[t])
Count(t) == Cardinality(Granted(t))

\* _unit_sort_key: clean units first, then by the lowest device index.
Lower(u, v, R) ==
    \E c \in ChipsOf({u}, R) : \A d \in ChipsOf({v}, R) : c < d
Before(u, v, R) ==
    \/ u \in clean /\ v \notin clean
    \/ (u \in clean <=> v \in clean) /\ Lower(u, v, R)

\* Variants: never; and when the maximum would be met exactly.
NeverOvershoots(t, u) == FALSE
OvershootsOrMeets(t, u) ==
    /\ Count(t) > 0
    /\ Count(t) + Cardinality(ChipsOf({u}, view[t])) >= Most(doing[t], view[t])
Overshoots(t, u) ==
    /\ Count(t) > 0
    /\ Count(t) + Cardinality(ChipsOf({u}, view[t])) > Most(doing[t], view[t])

\* One turn of allocate's loop: the first unit is taken whatever its size.
Choosing(t) ==
    /\ pc[t] = "choosing"
    /\ left[t] # {}
    /\ doing[t].exact = {} => Count(t) < Most(doing[t], view[t])

Consider(t) ==
    /\ Choosing(t)
    /\ \E u \in left[t] :
          /\ \A v \in left[t] : ~Before(v, u, view[t])
          /\ left' = [left EXCEPT ![t] = @ \ {u}]
          /\ chosen' = [chosen EXCEPT
                ![t] = IF doing[t].exact = {} /\ Overshoots(t, u) THEN @ ELSE @ \cup {u}]
    /\ UNCHANGED <<readable, file, lock, clean, mutex, pc, ticketed, asked, doing, view,
                   told, edit>>

\* An exact request has no number of chips to reach.
Enough(t) ==
    IF doing[t].exact = {} THEN Count(t) >= Least(doing[t], view[t]) ELSE chosen[t] # {}

NotEnough(t) ==
    /\ pc[t] = "choosing"
    /\ ~Choosing(t)
    /\ ~Enough(t)
    /\ TurnedAway(t)

Grant(t) ==
    /\ pc[t] = "choosing"
    /\ ~Choosing(t)
    /\ Enough(t)
    /\ lock' = [k \in Keys |-> IF k \in chosen[t] THEN t ELSE lock[k]]
    /\ clean' = clean \ chosen[t]
    /\ told' = [told EXCEPT ![t] = Granted(t)]
    /\ ticketed' = ticketed \ {t}
    /\ pc' = [pc EXCEPT ![t] = "holding"]
    /\ left' = [left EXCEPT ![t] = {}]
    /\ mutex' = None
    /\ UNCHANGED <<readable, file, asked, doing, view, chosen, edit>>

WaitTimeout(t) ==
    /\ pc[t] = "waiting"
    /\ pc' = [pc EXCEPT ![t] = "queued"]
    /\ Over(t)
    /\ UNCHANGED <<readable, file, lock, clean, mutex, ticketed, asked, told, edit>>

\* The ticket is cancelled, or too old.
Cancel(t) ==
    /\ pc[t] = "queued"
    /\ pc' = [pc EXCEPT ![t] = "idle"]
    /\ ticketed' = ticketed \ {t}
    /\ asked' = [asked EXCEPT ![t] = Nothing]
    /\ UNCHANGED <<readable, file, lock, clean, mutex, doing, view, left, chosen, told,
                   edit>>

\* release, or a reap. Its units are marked clean if a reset of their chips, those
\* the topology of now gives, went well.
End(t) ==
    /\ pc[t] = "holding"
    /\ mutex = None
    /\ readable # {}
    /\ lock' = [k \in Keys |-> IF lock[k] = t THEN None ELSE lock[k]]
    /\ \/ UNCHANGED clean
       \/ /\ ChipsOf(chosen[t], readable) # {}
          /\ clean' = clean \cup chosen[t]
    /\ told' = [told EXCEPT ![t] = {}]
    /\ asked' = [asked EXCEPT ![t] = Nothing]
    /\ pc' = [pc EXCEPT ![t] = "idle"]
    /\ Over(t)
    /\ UNCHANGED <<readable, file, mutex, ticketed, edit>>

-----------------------------------------------------------------------------
(* names set and names unset. Both refuse a file that does not load.        *)

\* The boards whose name would change: the target, and the one that has the name.
\* Variant: the target only.
AffectedTarget(n, b) == {b}
Affected(n, b) == {b} \cup {e.serial : e \in {x \in Present(file, readable) : x.name = n}}

StartSet(e, n, b) ==
    /\ edit[e].at = "idle"
    /\ Loads(file, readable)
    /\ b \in BoardsIn(readable)
    /\ edit' = [edit EXCEPT ![e] =
          [at |-> "set", name |-> n, board |-> b, text |-> NoNames,
           keys |-> {UnitOf(c, readable) : c \in {d \in readable :
                                                   BoardOf[d] \in Affected(n, b)}}]]
    /\ UNCHANGED <<readable, file, lock, clean, mutex, request>>

\* Under the mutex: no affected board is leased, and the file is read again.
EnterSet(e) ==
    /\ edit[e].at = "set"
    /\ mutex = None
    /\ \A k \in edit[e].keys : lock[k] = None
    /\ \E f \in SetName(file, edit[e].name, edit[e].board) :
          edit' = [edit EXCEPT ![e].at = "write", ![e].text = f]
    /\ mutex' = e
    /\ UNCHANGED <<readable, file, lock, clean, request>>

RefuseSet(e) ==
    /\ edit[e].at = "set"
    /\ mutex = None
    /\ \/ \E k \in edit[e].keys : lock[k] # None
       \/ SetName(file, edit[e].name, edit[e].board) = {}
    /\ edit' = [edit EXCEPT ![e] = Idle]
    /\ UNCHANGED <<readable, file, lock, clean, mutex, request>>

\* The write of either command; unset has no mutex.
Write(e) ==
    /\ edit[e].at \in {"write", "unset"}
    /\ file' = edit[e].text
    /\ edit' = [edit EXCEPT ![e] = Idle]
    /\ mutex' = IF mutex = e THEN None ELSE mutex
    /\ UNCHANGED <<readable, lock, clean, request>>

StartUnset(e, n) ==
    /\ edit[e].at = "idle"
    /\ Loads(file, readable)
    /\ \E f \in UnsetName(file, n) :
          edit' = [edit EXCEPT ![e] = [Idle EXCEPT !.at = "unset", !.name = n, !.text = f]]
    /\ UNCHANGED <<readable, file, lock, clean, mutex, request>>

-----------------------------------------------------------------------------
(* The chips.                                                               *)

Dies(c) ==
    /\ c \in readable
    /\ Cardinality(Chips \ readable) < MaxDead
    /\ readable' = readable \ {c}
    /\ UNCHANGED <<file, lock, clean, mutex, request, edit>>

\* By a reset, or a restart of the machine.
ComesBack(c) ==
    /\ c \notin readable
    /\ readable' = readable \cup {c}
    /\ UNCHANGED <<file, lock, clean, mutex, request, edit>>

Tenant(t) == \/ \E a \in Asks : StartAcquire(t, a)
             \/ StartWait(t) \/ Enter(t) \/ Defer(t) \/ Consider(t) \/ NotEnough(t)
             \/ Grant(t) \/ WaitTimeout(t) \/ Cancel(t) \/ End(t)

Editor(e) == \/ \E x \in Edits : \/ x.set /\ StartSet(e, x.name, x.board)
                                 \/ ~x.set /\ StartUnset(e, x.name)
             \/ EnterSet(e) \/ RefuseSet(e) \/ Write(e)

Next == \/ \E t \in Tenants : Tenant(t)
        \/ \E e \in Editors : Editor(e)
        \/ \E c \in Mortal : Dies(c) \/ ComesBack(c)

Spec == Init /\ [][Next]_vars

-----------------------------------------------------------------------------
(* Properties.                                                              *)

Holding(t) == pc[t] = "holding"

\* "Exactly one tenant per chip": whatever dies or comes back while requests queue,
\* no two tenants have one chip between them, though one is locked by a serial or an
\* address according to what its command could read.
OneLeasePerChip ==
    \A t, u \in Tenants : t # u => told[t] \cap told[u] = {}

\* "A partial board is never handed out": with a chip, a tenant has every chip that
\* UMD will give it along, so nobody else's and no dead one that was known.
GrantsWholeBoards == \A t \in Tenants : \A c \in told[t] : Expansion(c) \subseteq told[t]

\* "DEGRADED ... never handed out": when wait is granted a board, the board has not
\* lost a chip, though wait read the topology when it began and polls for minutes.
NeverDegraded ==
    [][\A t \in ticketed : Grant(t) =>
          \A c \in told'[t] : ~IsShort(BoardOf[c], readable)]_vars

\* A request for at most n chips gets no more, or the one unit that is the least it
\* can be given.
NoOvershoot ==
    \A t \in Tenants : Holding(t) /\ asked[t].exact = {} =>
        \/ Cardinality(told[t]) <= Most(doing[t], view[t])
        \/ \E u \in UnitsIn(view[t]) : told[t] = ChipsOf({u}, view[t])

\* A grant, at once or through the queue, is what was asked for: the chip or board
\* that the name meant then, reset silicon, and no fewer chips.
GrantsWhatWasAsked ==
    [][\A t \in Tenants : ~Holding(t) /\ Holding(t)' =>
          /\ \A k \in asked[t].exact : k \in told'[t] \cup {BoardOf[c] : c \in told'[t]}
          /\ asked[t].fresh => chosen[t] \subseteq clean
          /\ asked[t].exact = {} => Cardinality(told'[t]) >= Least(asked[t], view[t])]_vars

\* A request that allocate turns away could not have been served by any of the free
\* units (boards of one size).
Servable(t) ==
    \E S \in SUBSET FreeUnits(t) :
        LET n == Cardinality(ChipsOf(S, view[t]))
        IN IF doing[t].exact = {}
           THEN Least(doing[t], view[t]) <= n /\ n <= Most(doing[t], view[t])
           ELSE S # {} /\ \E k \in doing[t].exact : S \subseteq UnitsNamed(k, view[t])
QueuesOnlyIfItCannot ==
    [][\A t \in Tenants : pc[t] = "choosing" /\ pc'[t] \in {"waiting", "queued", "idle"} =>
          ~Servable(t)]_vars

\* "A board under a lease keeps the name its holder was told": not even a names set
\* that began before the lease was granted takes it away.
NamesOf(b, f) == {e.name : e \in {x \in f.boards : x.serial = b}}
SetSparesTheLeased ==
    [][\A e \in Editors : edit[e].at = "write" /\ edit'[e].at = "idle" =>
          \A t \in Tenants : \A c \in told[t] :
              NamesOf(BoardOf[c], file') = NamesOf(BoardOf[c], file)]_vars

\* No edit and no chip that dies keeps a file that was in order from loading.
FileLoads == \A R \in SUBSET Chips : Loads(file, R)

\* Where every chip of a named board has a position of its own, the name that status
\* shows for it leads back to it.
NamesRoundTrip ==
    LET g == Applied(file, readable)
    IN \A e \in Present(g, readable) : \A c \in OnBoard(e.serial, readable) :
          Resolve(NameOf(e.name, {Position(c, e, g, readable)}), file, readable) = {c}

\* A pinned chip that can be read answers to its name, whatever happens to the rest.
PinsHold ==
    \A e \in file.boards : \A p \in PinsOf(e, file) :
        p.asic \in OnBoard(e.serial, readable) =>
            Resolve(NameOf(e.name, {p.position}), file, readable) = {p.asic}
=============================================================================
