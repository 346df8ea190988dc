---------------------------- MODULE AtomicMutex ----------------------------
(***************************************************************************)
(* What the rest of gozer may assume of critical_section: one directory    *)
(* that is made on entry and removed on exit, by whoever is leaving, and   *)
(* that may vanish while it is held.  Leases.tla uses these four steps.    *)
(***************************************************************************)
CONSTANTS Procs, None, Orphan

VARIABLES mutex,    \* the process that made the directory, or None, or Orphan
          inside    \* the processes in their critical section

lockVars == <<mutex, inside>>

LockInit ==
    /\ mutex = None
    /\ inside = {}

Enter(p) ==
    /\ p \notin inside
    /\ mutex = None
    /\ mutex' = p
    /\ inside' = inside \cup {p}

Leave(p) ==
    /\ p \in inside
    /\ mutex' = None
    /\ inside' = inside \ {p}

Die(p) ==
    /\ p \in inside
    /\ mutex' = IF mutex = p THEN Orphan ELSE mutex
    /\ inside' = inside \ {p}

\* Taken for a stale one: a dead process's, or (rightly or not) a live one's.
ClearStale ==
    /\ mutex # None
    /\ mutex' = None
    /\ UNCHANGED inside

LockNext ==
    \/ ClearStale
    \/ \E p \in Procs : Enter(p) \/ Leave(p) \/ Die(p)

LockSpec == LockInit /\ [][LockNext]_lockVars
=============================================================================
