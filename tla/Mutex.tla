------------------------------- MODULE Mutex -------------------------------
(***************************************************************************)
(* Gatekeeper.critical_section: a mutual exclusion made of mkdir and rmdir *)
(* on one directory, with a poll, a timeout, removal of a stale directory, *)
(* and reentrancy within a process.                                        *)
(*                                                                         *)
(* Each step is one system call.  Time is counted in ticks: only whether   *)
(* the directory is older than MUTEX_STALE_SECONDS, and a waiter past its  *)
(* deadline, matter, so both counters stop one tick later.                 *)
(***************************************************************************)
EXTENDS Naturals

CONSTANTS
    Procs,          \* the gozer processes
    Stale,          \* MUTEX_STALE_SECONDS, in ticks
    Timeout,        \* the timeout argument, in ticks
    MaxDepth,       \* bound of the nesting of critical sections
    MaxCrashes,     \* bound of the number of processes killed
    Overrun,        \* whether one may stay inside for longer than Stale
    None, Orphan    \* no directory; one whose maker was killed

ASSUME MutexAssumption ==
    /\ Stale \in Nat
    /\ Timeout \in Nat
    /\ MaxDepth \in Nat \ {0}
    /\ MaxCrashes \in Nat
    /\ Overrun \in BOOLEAN
    /\ None \notin Procs
    /\ Orphan \notin Procs
    /\ None # Orphan

VARIABLES
    dir,        \* mutex/.gatekeeper.lock: None, or who made it
    age,        \* ticks since it was made (its mtime)
    pc,
    waited,     \* ticks since each process called critical_section
    depth,      \* _critical_section_depth
    crashes,    \* processes killed so far
    orphaned    \* history: some directory has lost its maker

vars == <<dir, age, pc, waited, depth, crashes, orphaned>>

Waiting == {"mkdir", "stat", "rmdir", "check"}
Labels == Waiting \cup {"idle", "inside"}

TypeOK ==
    /\ dir \in Procs \cup {None, Orphan}
    /\ age \in 0..(Stale + 1)
    /\ pc \in [Procs -> Labels]
    /\ waited \in [Procs -> 0..(Timeout + 1)]
    /\ depth \in [Procs -> 0..MaxDepth]
    /\ crashes \in 0..MaxCrashes
    /\ orphaned \in BOOLEAN

Init ==
    /\ dir = None
    /\ age = 0
    /\ pc = [p \in Procs |-> "idle"]
    /\ waited = [p \in Procs |-> 0]
    /\ depth = [p \in Procs |-> 0]
    /\ crashes = 0
    /\ orphaned = FALSE

Goto(p, label) == pc' = [pc EXCEPT ![p] = label]

Begin(p) ==
    /\ pc[p] = "idle"
    /\ Goto(p, "mkdir")
    /\ waited' = [waited EXCEPT ![p] = 0]
    /\ UNCHANGED <<dir, age, depth, crashes, orphaned>>

-----------------------------------------------------------------------------
(* The loop.                                                                *)

\* Variant: makedirs with exist_ok.
EnterExisting(p) ==
    /\ pc[p] = "mkdir"
    /\ dir' = p
    /\ age' = 0
    /\ Goto(p, "inside")
    /\ depth' = [depth EXCEPT ![p] = 1]
    /\ UNCHANGED <<waited, crashes, orphaned>>

\* mkdir succeeds: inside.
Enter(p) ==
    /\ pc[p] = "mkdir"
    /\ dir = None
    /\ dir' = p
    /\ age' = 0
    /\ Goto(p, "inside")
    /\ depth' = [depth EXCEPT ![p] = 1]
    /\ UNCHANGED <<waited, crashes, orphaned>>

Busy(p) ==
    /\ pc[p] = "mkdir"
    /\ dir # None
    /\ Goto(p, "stat")
    /\ UNCHANGED <<dir, age, waited, depth, crashes, orphaned>>

\* Variant: >= for >.
LooksStaleEarly == age >= Stale

\* stat: the directory vanished (retry at once), is young, or is stale.
LooksStale == age > Stale

Stat(p) ==
    /\ pc[p] = "stat"
    /\ Goto(p, IF dir = None THEN "mkdir" ELSE IF LooksStale THEN "rmdir" ELSE "check")
    /\ UNCHANGED <<dir, age, waited, depth, crashes, orphaned>>

\* Variant: the directory lies under the sticky root, so rmdir raises.
ClearSticky(p) ==
    /\ pc[p] = "rmdir"
    /\ Goto(p, "check")
    /\ UNCHANGED <<dir, age, waited, depth, crashes, orphaned>>

\* Variant: and the error is suppressed, so the loop never gets to its deadline.
ClearSuppressed(p) ==
    /\ pc[p] = "rmdir"
    /\ Goto(p, "mkdir")
    /\ UNCHANGED <<dir, age, waited, depth, crashes, orphaned>>

\* rmdir of whatever directory is there by now; without one it raises.
Clear(p) ==
    /\ pc[p] = "rmdir"
    /\ Goto(p, IF dir = None THEN "check" ELSE "mkdir")
    /\ dir' = None
    /\ UNCHANGED <<age, waited, depth, crashes, orphaned>>

\* Past the deadline it raises TimeoutError, else it sleeps and tries again.
Sleep(p) ==
    /\ pc[p] = "check"
    /\ waited[p] <= Timeout
    /\ Goto(p, "mkdir")
    /\ UNCHANGED <<dir, age, waited, depth, crashes, orphaned>>

GiveUp(p) ==
    /\ pc[p] = "check"
    /\ waited[p] > Timeout
    /\ Goto(p, "idle")
    /\ UNCHANGED <<dir, age, waited, depth, crashes, orphaned>>

-----------------------------------------------------------------------------
(* Inside: nested sections only count, the outermost removes the directory. *)

Nest(p) ==
    /\ pc[p] = "inside"
    /\ depth[p] < MaxDepth
    /\ depth' = [depth EXCEPT ![p] = @ + 1]
    /\ UNCHANGED <<dir, age, pc, waited, crashes, orphaned>>

\* Variant: >= for >.
LeaveLate(p) ==
    /\ pc[p] = "inside"
    /\ depth' = [depth EXCEPT ![p] = @ - 1]
    /\ IF depth[p] >= 1
       THEN UNCHANGED <<dir, pc>>
       ELSE dir' = None /\ Goto(p, "idle")
    /\ UNCHANGED <<age, waited, crashes, orphaned>>

\* Leaving, normally or with an exception: the finally clause.
Leave(p) ==
    /\ pc[p] = "inside"
    /\ depth' = [depth EXCEPT ![p] = @ - 1]
    /\ IF depth[p] > 1
       THEN UNCHANGED <<dir, pc>>
       ELSE dir' = None /\ Goto(p, "idle")      \* whoever made it
    /\ UNCHANGED <<age, waited, crashes, orphaned>>

-----------------------------------------------------------------------------
Crash(p) ==
    /\ crashes < MaxCrashes
    /\ pc[p] # "idle"
    /\ crashes' = crashes + 1
    /\ Goto(p, "idle")
    /\ depth' = [depth EXCEPT ![p] = 0]
    /\ dir' = IF dir = p THEN Orphan ELSE dir
    /\ orphaned' = (orphaned \/ dir = p)
    /\ UNCHANGED <<age, waited>>

\* A section is held for milliseconds: without an overrun, its directory does not
\* grow stale while its maker is alive.
Tick ==
    /\ \/ dir \notin Procs
       \/ age < Stale
       \/ Overrun
    /\ age' = IF age > Stale THEN age ELSE age + 1
    /\ waited' = [p \in Procs |-> IF waited[p] > Timeout THEN waited[p] ELSE waited[p] + 1]
    /\ UNCHANGED <<dir, pc, depth, crashes, orphaned>>

Step(p) == Enter(p) \/ Busy(p) \/ Stat(p) \/ Clear(p) \/ Sleep(p) \/ GiveUp(p)

Next ==
    \/ \E p \in Procs : Begin(p) \/ Step(p) \/ Nest(p) \/ Leave(p) \/ Crash(p)
    \/ Tick

Spec == Init /\ [][Next]_vars

\* A waiter goes on polling, and meets a free mutex in the end (the poll is not
\* in lockstep with the holders); a body ends, nested sections and all; time
\* passes; gozer commands keep being run.
Fairness ==
    /\ \A p \in Procs : /\ WF_vars(Begin(p))
                        /\ WF_vars(Step(p))
                        /\ SF_vars(Enter(p))
                        /\ SF_vars(pc[p] = "inside" /\ depth[p] = 1 /\ Leave(p))
                        /\ WF_vars(Leave(p))
    /\ WF_vars(Tick)

FairSpec == Spec /\ Fairness

-----------------------------------------------------------------------------
(* Properties.                                                              *)

Inside == {p \in Procs : pc[p] = "inside"}

\* As long as nobody is killed inside, critical sections exclude one another, and
\* the directory of the one inside is there (critical_section: "two different
\* processes still serialise on the same mkdir").
ExclusiveUntilACrash == ~orphaned => \A p \in Inside : Inside = {p} /\ dir = p

\* A crashed holder does not wedge the gate forever.
OrphanIsCleared == dir = Orphan ~> dir # Orphan

\* Whoever waits gets in or gets a TimeoutError.
EveryWaitEnds == \A p \in Procs : pc[p] \in Waiting ~> pc[p] \notin Waiting

\* Seen from outside, the loop is the mutex that Leases assumes.
Lock == INSTANCE AtomicMutex WITH mutex <- dir, inside <- Inside
ImplementsAtomicMutex == Lock!LockSpec
=============================================================================
