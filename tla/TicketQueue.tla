---------------------------- MODULE TicketQueue ----------------------------
(***************************************************************************)
(* The ticket queue of queue.py and the commands that use it: acquire      *)
(* (queues a newcomer), wait (polls a ticket and claims with it), cancel   *)
(* and release (opens the claim window of the ticket next in line).        *)
(*                                                                         *)
(* A critical section is one step here, and a command killed inside one    *)
(* leaves what it had written until then.  What is read without the mutex  *)
(* (entries and the first look of may_claim in wait, position in cancel)   *)
(* has steps of its own.                                                   *)
(***************************************************************************)
EXTENDS Naturals, FiniteSets, FiniteSetsExt

CONSTANTS
    Procs,          \* slots for concurrently running commands
    Tickets,        \* the tickets that may be drawn
    NoTicket,       \* no window, or a caller without a ticket
    MaxReleases,    \* bound of the number of releases
    MaxCrashes,     \* bound of the number of commands killed
    MayAge          \* whether tickets may pass TICKET_MAX_AGE_SECONDS

ASSUME QueueAssumption ==
    /\ IsFiniteSet(Tickets)
    /\ NoTicket \notin Tickets
    /\ MaxReleases \in Nat
    /\ MaxCrashes \in Nat
    /\ MayAge \in BOOLEAN

VARIABLES
    queue,      \* the directory: the ticket files, .claim-window, whether the
                \* window is older than CLAIM_WINDOW_SECONDS
    aged,       \* the tickets older than TICKET_MAX_AGE_SECONDS
    free,       \* whether the chips the tickets wait for are free
    pc, cmd,
    tkt,        \* the ticket a command is about
    listing,    \* the files it saw in its listdir
    issued, served, cancelled,  \* tickets drawn, granted, and cancelled, ever
    releases, crashes

vars == <<queue, aged, free, pc, cmd, tkt, listing, issued, served, cancelled,
          releases, crashes>>

Files == [ticket : Tickets, seq : 1..(Cardinality(Tickets) + MaxReleases)]

TypeOK ==
    /\ queue \in [files : SUBSET Files, window : Tickets \cup {NoTicket}, old : BOOLEAN]
    /\ aged \subseteq issued
    /\ free \in BOOLEAN
    /\ pc \in [Procs -> {"idle", "list", "read", "peek", "poll", "claim", "cancel", "release"}]
    /\ cmd \in [Procs -> {"none", "acquire", "wait", "cancel", "release"}]
    /\ tkt \in [Procs -> Tickets \cup {NoTicket}]
    /\ listing \in [Procs -> SUBSET Files]
    /\ issued \subseteq Tickets
    /\ served \subseteq issued
    /\ cancelled \subseteq issued
    /\ releases \in 0..MaxReleases
    /\ crashes \in 0..MaxCrashes

Init ==
    /\ queue = [files |-> {}, window |-> NoTicket, old |-> FALSE]
    /\ aged = {}
    /\ free = TRUE
    /\ pc = [p \in Procs |-> "idle"]
    /\ cmd = [p \in Procs |-> "none"]
    /\ tkt = [p \in Procs |-> NoTicket]
    /\ listing = [p \in Procs |-> {}]
    /\ issued = {}
    /\ served = {}
    /\ cancelled = {}
    /\ releases = 0
    /\ crashes = 0

-----------------------------------------------------------------------------
(* The queue's operations, as functions of the directory.                   *)

TicketsOf(F) == {f.ticket : f \in F}
FilesOf(F, t) == {f \in F : f.ticket = t}

\* entries: one file per ticket, the one with the highest seq; and what is left
\* over. next in line is the lowest seq among the entries.
Entries(F) == {f \in F : \A g \in FilesOf(F, f.ticket) : g.seq <= f.seq}
Litter(F) == F \ Entries(F)
Head(F) == (CHOOSE f \in Entries(F) : \A g \in Entries(F) : f.seq <= g.seq).ticket

\* Variant: an empty queue starts at 0.
NextSeqFromZero(F) == IF F = {} THEN 0 ELSE Max({f.seq : f \in F}) + 1
NextSeq(F) == IF F = {} THEN 1 ELSE Max({f.seq : f \in F}) + 1
NewFile(F, t) == [ticket |-> t, seq |-> NextSeq(F)]

CloseWindow(q) == [q EXCEPT !.window = NoTicket, !.old = FALSE]

\* dequeue: unlinks one file of the ticket, the first that listdir returns, and
\* closes the window if it is the ticket's.
Unlinked(q, t) == {[q EXCEPT !.files = @ \ {f}] : f \in FilesOf(q.files, t)}
                  \cup (IF FilesOf(q.files, t) = {} THEN {q} ELSE {})
\* Variant: dequeue that only unlinks.
LeaveOpen(q, t) == q
CloseFor(q, t) == IF q.window = t THEN CloseWindow(q) ELSE q
Dequeue(q, t) == {CloseFor(u, t) : u \in Unlinked(q, t)}

\* prune: removes the litter, then dequeues every aged ticket.
Prune(q) ==
    LET kept == {f \in Entries(q.files) : f.ticket \notin aged}
        pruned == [q EXCEPT !.files = kept]
    IN  IF q.window \in TicketsOf(q.files) \cap aged THEN CloseWindow(pruned) ELSE pruned

\* _send_to_back: writes the new file, then removes one it found.
Requeued(q, t) == IF FilesOf(q.files, t) = {} THEN q
                  ELSE [q EXCEPT !.files = @ \cup {NewFile(@, t)}]
SendToBack(q, t) == {[Requeued(q, t) EXCEPT !.files = @ \ {f}] : f \in FilesOf(q.files, t)}
                    \cup (IF FilesOf(q.files, t) = {} THEN {q} ELSE {})

\* expire_and_get_claim_holder: an expired window is closed and its ticket sent
\* to the back. The holder is then the window that is left.
\* Variants: whatever its age; and only when its ticket is still queued.
ExpiredAtOnce(q) == q.window # NoTicket
ExpiredIfQueued(q) == q.window # NoTicket /\ q.old /\ FilesOf(q.files, q.window) # {}
Expired(q) == q.window # NoTicket /\ q.old
Expire(q) == IF Expired(q) THEN SendToBack(CloseWindow(q), q.window) ELSE {q}
MayClaim(q, t) == q.window \in {NoTicket, t}

Enqueue(q, t) == [q EXCEPT !.files = @ \cup {NewFile(@, t)}]
OpenWindow(q) == IF q.files = {} THEN q
                 ELSE [q EXCEPT !.window = Head(q.files), !.old = FALSE]

-----------------------------------------------------------------------------
(* Commands.                                                                *)

Goto(p, label) == pc' = [pc EXCEPT ![p] = label]

Begin(p, command, label, t) ==
    /\ pc[p] = "idle"
    /\ Goto(p, label)
    /\ cmd' = [cmd EXCEPT ![p] = command]
    /\ tkt' = [tkt EXCEPT ![p] = t]

Finish(p) ==
    /\ Goto(p, "idle")
    /\ cmd' = [cmd EXCEPT ![p] = "none"]
    /\ tkt' = [tkt EXCEPT ![p] = NoTicket]
    /\ listing' = [listing EXCEPT ![p] = {}]

StartAcquire(p) ==
    /\ Begin(p, "acquire", "claim", NoTicket)
    /\ UNCHANGED <<queue, aged, free, listing, issued, served, cancelled, releases, crashes>>

StartWait(p) ==
    /\ \E t \in issued : Begin(p, "wait", "list", t)
    /\ UNCHANGED <<queue, aged, free, listing, issued, served, cancelled, releases, crashes>>

StartCancel(p) ==
    /\ \E t \in issued : Begin(p, "cancel", "list", t)
    /\ UNCHANGED <<queue, aged, free, listing, issued, served, cancelled, releases, crashes>>

\* One lease is out at a time; it is released once.
StartRelease(p) ==
    /\ ~free
    /\ releases < MaxReleases
    /\ \A q \in Procs : cmd[q] # "release"
    /\ Begin(p, "release", "release", NoTicket)
    /\ releases' = releases + 1
    /\ UNCHANGED <<queue, aged, free, listing, issued, served, cancelled, crashes>>

\* entries without the mutex: listdir, then each file is read.
List(p) ==
    /\ pc[p] = "list"
    /\ listing' = [listing EXCEPT ![p] = queue.files]
    /\ Goto(p, "read")
    /\ UNCHANGED <<queue, aged, free, cmd, tkt, issued, served, cancelled, releases, crashes>>

IsListed(p) == tkt[p] \in TicketsOf(listing[p] \cap queue.files)

Read(p) ==
    /\ pc[p] = "read"
    /\ IsListed(p)
    /\ Goto(p, IF cmd[p] = "cancel" THEN "cancel" ELSE "peek")
    /\ listing' = [listing EXCEPT ![p] = {}]
    /\ UNCHANGED <<queue, aged, free, cmd, tkt, issued, served, cancelled, releases, crashes>>

\* "ticket t is no longer queued", "no such ticket".
SayGone(p) ==
    /\ pc[p] = "read"
    /\ ~IsListed(p)
    /\ Finish(p)
    /\ UNCHANGED <<queue, aged, free, issued, served, cancelled, releases, crashes>>

\* may_claim in wait: a look without the mutex, and one with it if need be.
Peek(p) ==
    /\ pc[p] = "peek"
    /\ Goto(p, IF queue.window = NoTicket THEN "claim" ELSE "poll")
    /\ UNCHANGED <<queue, aged, free, cmd, tkt, listing, issued, served, cancelled,
                   releases, crashes>>

Poll(p) ==
    /\ pc[p] = "poll"
    /\ queue' \in Expire(queue)
    /\ Goto(p, IF MayClaim(queue', tkt[p]) THEN "claim" ELSE "list")
    /\ UNCHANGED <<aged, free, cmd, tkt, listing, issued, served, cancelled,
                   releases, crashes>>

\* wait gives up at its own timeout, at the top of its loop.
WaitTimeout(p) ==
    /\ pc[p] = "list"
    /\ cmd[p] = "wait"
    /\ Finish(p)
    /\ UNCHANGED <<queue, aged, free, issued, served, cancelled, releases, crashes>>

-----------------------------------------------------------------------------
(* acquire, for a newcomer or for the ticket of a wait: prune, may_claim,   *)
(* allocate; then grant, or queue, or refuse. Any request may find that the *)
(* free chips do not do.                                                    *)

GrantTo(p) ==
    /\ free
    /\ free' = FALSE
    /\ served' = served \cup ({tkt[p]} \ {NoTicket})

Claim(p) ==
    /\ pc[p] = "claim"
    /\ \E q \in Expire(Prune(queue)) :
        /\ MayClaim(q, tkt[p])
        /\ queue' \in IF tkt[p] = NoTicket THEN {q} ELSE Dequeue(q, tkt[p])
    /\ GrantTo(p)
    /\ Finish(p)
    /\ UNCHANGED <<aged, issued, cancelled, releases, crashes>>

QueueUp(p) ==
    /\ pc[p] = "claim"
    /\ tkt[p] = NoTicket
    /\ \E q \in Expire(Prune(queue)), t \in Tickets \ issued :
        /\ queue' = Enqueue(q, t)
        /\ issued' = issued \cup {t}
    /\ Finish(p)
    /\ UNCHANGED <<aged, free, served, cancelled, releases, crashes>>

\* --no-queue.
Refuse(p) ==
    /\ pc[p] = "claim"
    /\ tkt[p] = NoTicket
    /\ queue' \in Expire(Prune(queue))
    /\ Finish(p)
    /\ UNCHANGED <<aged, free, issued, served, cancelled, releases, crashes>>

\* A wait keeps its ticket and polls again, or gets TicketNotFound.
KeepWaiting(p) ==
    /\ pc[p] = "claim"
    /\ tkt[p] # NoTicket
    /\ queue' \in Expire(Prune(queue))
    /\ tkt[p] \in TicketsOf(queue'.files)
    /\ Goto(p, "list")
    /\ UNCHANGED <<aged, free, cmd, tkt, listing, issued, served, cancelled,
                   releases, crashes>>

TicketNotFound(p) ==
    /\ pc[p] = "claim"
    /\ tkt[p] # NoTicket
    /\ queue' \in Expire(Prune(queue))
    /\ tkt[p] \notin TicketsOf(queue'.files)
    /\ Finish(p)
    /\ UNCHANGED <<aged, free, issued, served, cancelled, releases, crashes>>

Cancel(p) ==
    /\ pc[p] = "cancel"
    /\ queue' \in Dequeue(queue, tkt[p])
    /\ cancelled' = cancelled \cup {tkt[p]}
    /\ Finish(p)
    /\ UNCHANGED <<aged, free, issued, served, releases, crashes>>

\* The end of release: the chips are free, and next in line is who may claim them.
Release(p) ==
    /\ pc[p] = "release"
    /\ free' = TRUE
    /\ queue' = OpenWindow(Prune(queue))
    /\ Finish(p)
    /\ UNCHANGED <<aged, issued, served, cancelled, releases, crashes>>

-----------------------------------------------------------------------------
(* A command killed, inside a critical section or outside.                  *)

Kill(p) ==
    /\ crashes < MaxCrashes
    /\ crashes' = crashes + 1
    /\ Finish(p)
    /\ UNCHANGED <<aged, issued, releases>>

KilledOutside(p) ==
    /\ pc[p] # "idle"
    /\ Kill(p)
    /\ UNCHANGED <<queue, free, served, cancelled>>

\* In prune: some litter removed, or all of it and some aged tickets, the last of
\* them with its window still open.
KilledPruning(p) ==
    /\ pc[p] \in {"claim", "release"}
    /\ \/ \E S \in SUBSET Litter(queue.files) :
            queue' = [queue EXCEPT !.files = @ \ S]
       \/ \E S \in SUBSET {f \in Entries(queue.files) : f.ticket \in aged} :
            LET q == [queue EXCEPT !.files = Entries(@) \ S]
            IN  \/ queue' = q
                \/ queue.window \in TicketsOf(S) /\ queue' = CloseWindow(q)
    /\ free' = (free \/ pc[p] = "release")
    /\ Kill(p)
    /\ UNCHANGED <<served, cancelled>>

\* Variant: _send_to_back removes the old file before it writes the new one.
KilledMoving(p) ==
    /\ pc[p] \in {"claim", "poll"}
    /\ LET q == CloseWindow(IF pc[p] = "claim" THEN Prune(queue) ELSE queue)
       IN  /\ Expired(queue)
           /\ \E f \in FilesOf(q.files, queue.window) :
                   queue' = [q EXCEPT !.files = @ \ {f}]
    /\ Kill(p)
    /\ UNCHANGED <<free, served, cancelled>>

\* In expire: the window is closed, and the ticket not moved, or there twice.
KilledExpiring(p) ==
    /\ pc[p] \in {"claim", "poll"}
    /\ LET q == IF pc[p] = "claim" THEN Prune(queue) ELSE queue
       IN  /\ Expired(q)
           /\ queue' \in {CloseWindow(q), Requeued(CloseWindow(q), q.window)}
    /\ Kill(p)
    /\ UNCHANGED <<free, served, cancelled>>

\* After the grant: the ticket is still queued, or its window still open.
KilledGranting(p) ==
    /\ pc[p] = "claim"
    /\ tkt[p] # NoTicket
    /\ \E q \in Expire(Prune(queue)) :
        /\ MayClaim(q, tkt[p])
        /\ queue' \in {q} \cup Unlinked(q, tkt[p])
    /\ GrantTo(p)
    /\ Kill(p)
    /\ UNCHANGED cancelled

KilledCancelling(p) ==
    /\ pc[p] = "cancel"
    /\ queue' \in Unlinked(queue, tkt[p])
    /\ cancelled' = cancelled \cup {tkt[p]}
    /\ Kill(p)
    /\ UNCHANGED <<free, served>>

\* The window file is truncated before it is written.
KilledOpening(p) ==
    /\ pc[p] = "release"
    /\ free' = TRUE
    /\ queue' \in {Prune(queue), CloseWindow(Prune(queue))}
    /\ Kill(p)
    /\ UNCHANGED <<served, cancelled>>

-----------------------------------------------------------------------------
(* The environment: time, and a lease reaped rather than released.          *)

WindowAges ==
    /\ queue.window # NoTicket
    /\ ~queue.old
    /\ queue' = [queue EXCEPT !.old = TRUE]
    /\ UNCHANGED <<aged, free, pc, cmd, tkt, listing, issued, served, cancelled,
                   releases, crashes>>

TicketAges ==
    /\ MayAge
    /\ \E t \in issued \ aged : aged' = aged \cup {t}
    /\ UNCHANGED <<queue, free, pc, cmd, tkt, listing, issued, served, cancelled,
                   releases, crashes>>

Reaped ==
    /\ ~free
    /\ \A p \in Procs : cmd[p] # "release"
    /\ free' = TRUE
    /\ UNCHANGED <<queue, aged, pc, cmd, tkt, listing, issued, served, cancelled,
                   releases, crashes>>

Start(p) == StartAcquire(p) \/ StartWait(p) \/ StartCancel(p) \/ StartRelease(p)

Step(p) ==
    \/ List(p) \/ Read(p) \/ SayGone(p) \/ Peek(p) \/ Poll(p)
    \/ Claim(p) \/ QueueUp(p) \/ Refuse(p) \/ KeepWaiting(p) \/ TicketNotFound(p)
    \/ Cancel(p) \/ Release(p)

Killed(p) == \/ KilledOutside(p) \/ KilledPruning(p) \/ KilledExpiring(p)
             \/ KilledGranting(p) \/ KilledCancelling(p) \/ KilledOpening(p)

Next ==
    \/ \E p \in Procs : Start(p) \/ Step(p) \/ WaitTimeout(p) \/ Killed(p)
    \/ WindowAges \/ TicketAges \/ Reaped

Spec == Init /\ [][Next]_vars

\* A command that has begun goes on, time passes, and somebody keeps asking.
Fairness ==
    /\ \A p \in Procs : WF_vars(Step(p)) /\ SF_vars(StartAcquire(p))
    /\ WF_vars(WindowAges)

FairSpec == Spec /\ Fairness

-----------------------------------------------------------------------------
(* Properties.                                                              *)

Queued == TicketsOf(queue.files)
Before(s, t) == \E f, g \in Entries(queue.files) :
                    f.ticket = s /\ g.ticket = t /\ f.seq < g.seq

\* A ticket leaves the queue by being granted, cancelled or too old: no crash in
\* the middle of a move loses it (_send_to_back).
TicketsAreKept ==
    [][\A t \in Queued \ Queued' : t \in served' \cup cancelled' \cup aged]_vars

\* The line is first in, first out: a ticket passes another only when the window of
\* the other one expired (TicketQueue.entries, "FIFO order").
FirstInFirstOut ==
    [][\A s, t \in (Queued \cap Queued') \ cancelled' :
          Before(s, t) /\ Before(t, s)' => queue.window = s /\ queue.old]_vars

\* As long as nothing is killed, the claim window belongs to a ticket in the queue
\* (acquire: what an orphan at the head of the queue costs).
WindowIsQueued == crashes = 0 /\ queue.window # NoTicket => queue.window \in Queued

\* Nobody holds the claim window forever, whether they come back for it or not.
WindowEnds == \A t \in Tickets : queue.window = t ~> queue.window # t

\* A wait is told that its ticket is gone only when it is ("so a live ticket is
\* never briefly absent", TicketQueue.entries).
GoneOnlyIfGone ==
    [][\A p \in Procs : SayGone(p) => tkt[p] \notin Queued]_vars
=============================================================================
