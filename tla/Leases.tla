------------------------------- MODULE Leases -------------------------------
(***************************************************************************)
(* The life of a lease: the gozer commands that grant, keep, reset, release*)
(* and reap leases, run as concurrent processes over the files of Gate.    *)
(*                                                                         *)
(* A process runs one command at a time.  Its steps are the points at which*)
(* another process can see or change the files: one system call on the     *)
(* gate, one scan of /proc, one entry to or exit from critical_section.    *)
(* The mutex itself is atomic here; Mutex.tla has its algorithm.           *)
(*                                                                         *)
(* The choice among free units, and every reason to queue rather than      *)
(* claim, is left open: any request may be refused, and any free units may *)
(* be the ones it is given.                                                *)
(***************************************************************************)
EXTENDS Gate

CONSTANTS
    Procs,          \* slots for concurrently running gozer commands
    Chips,          \* the chips
    UnitOf,         \* the unit each chip belongs to (Gatekeeper.unit_key_for)
    Detached,       \* the leases granted without a supervising process
    Grace,          \* DETACHED_GRACE_SECONDS, in ticks of the coarse clock
    Commands,       \* the gozer commands that run
    CrashPoints,    \* the labels at which a command may be killed
    Happenings,     \* what the environment does: see the last actions below
    None, Orphan    \* no mutex directory; one whose creator is dead

ASSUME LeasesAssumption ==
    /\ UnitOf \in [Chips -> Units]
    /\ Detached \subseteq Leases
    /\ Grace \in Nat
    /\ None \notin Procs
    /\ Orphan \notin Procs
    /\ None # Orphan

VARIABLES
    mutex,      \* mutex/.gatekeeper.lock
    pc, cmd,    \* where each process is, and in which command
    cur,        \* the lease its command is about
    todo,       \* the <<unit, lease>> pairs it still has to claim, rewrite or drop
    item,       \* the pair it is in the middle of, or <<>>
    seen,       \* the chips its /proc scan found open
    free,       \* the units its reconcile found free
    resetOk,    \* the processes whose reset succeeded
    units,      \* the units of each lease, as written in its record
    used,       \* the lease ids drawn so far
    open,       \* the chips some visible process has open
    alive,      \* the supervised leases whose owning process lives
    now,        \* the coarse clock
    tenure, granted,    \* history: see LeaseLedger
    unreset     \* history: units some tenant was let onto since their last reset

locals == <<cmd, cur, todo, item, seen, free, resetOk>>
leaseVars == <<units, used>>
envVars == <<open, alive, now>>
history == <<tenure, granted, unreset>>
vars == <<gateVars, mutex, pc, locals, leaseVars, envVars, history>>

Ledger == INSTANCE LeaseLedger

\* "give_back" is the release that ends a reset_all.
CommandNames == {"acquire", "reset_all", "reconcile", "release",
                 "release_noreset", "give_back", "reset", "adopt", "renew"}

\* Labels inside critical_section whatever the command, labels inside it unless
\* the command is one that reaches them without the mutex, and the others.
CSLabels == {"rescan", "reread", "choose", "dirty", "check", "checked", "skip",
             "recheck", "mark", "drop", "unlink", "rmdir", "forget", "delete",
             "exit"}
MixedLabels == {"scan", "read", "claim", "write", "grant"}
FreeLabels == {"idle", "enter", "reenter", "fds", "reset", "refresh", "rerecord",
               "markall", "giveback", "rewrite", "replace"}
Labels == CSLabels \cup MixedLabels \cup FreeLabels

InCS(p) == \/ pc[p] \in CSLabels
           \/ pc[p] \in MixedLabels /\ cmd[p] \notin {"reconcile", "adopt"}

TypeOK ==
    /\ GateTypeOK
    /\ mutex \in Procs \cup {None, Orphan}
    /\ pc \in [Procs -> Labels]
    /\ cmd \in [Procs -> CommandNames \cup {"none"}]
    /\ cur \in [Procs -> Leases \cup {NoLease}]
    /\ todo \in [Procs -> SUBSET (Units \X Leases)]
    /\ item \in [Procs -> (Units \X Leases) \cup {<<>>}]
    /\ seen \in [Procs -> SUBSET Chips]
    /\ free \in [Procs -> SUBSET Units]
    /\ resetOk \subseteq Procs
    /\ units \in [Leases -> SUBSET Units]
    /\ used \subseteq Leases
    /\ open \subseteq Chips
    /\ alive \subseteq Leases
    /\ now \in 0..MaxNow
    /\ tenure \subseteq Units \X Leases
    /\ granted \subseteq Leases
    /\ unreset \subseteq Units

Init ==
    /\ GateInit
    /\ mutex = None
    /\ pc = [p \in Procs |-> "idle"]
    /\ cmd = [p \in Procs |-> "none"]
    /\ cur = [p \in Procs |-> NoLease]
    /\ todo = [p \in Procs |-> {}]
    /\ item = [p \in Procs |-> <<>>]
    /\ seen = [p \in Procs |-> {}]
    /\ free = [p \in Procs |-> {}]
    /\ resetOk = {}
    /\ units = [l \in Leases |-> {}]
    /\ used = {}
    /\ open = {}
    /\ alive = Leases \ Detached
    /\ now = 0
    /\ tenure = {}
    /\ granted = {}
    /\ unreset = {}

ChipsIn(S) == {c \in Chips : UnitOf[c] \in S}
Pairs(S, l) == S \X {l}
UnitsOf(p) == units[cur[p]]

Goto(p, label) == pc' = [pc EXCEPT ![p] = label]

\* The command is over: its process exits, or its caller sees an exception.
Finish(p) ==
    /\ Goto(p, "idle")
    /\ cmd' = [cmd EXCEPT ![p] = "none"]
    /\ cur' = [cur EXCEPT ![p] = NoLease]
    /\ todo' = [todo EXCEPT ![p] = {}]
    /\ item' = [item EXCEPT ![p] = <<>>]
    /\ seen' = [seen EXCEPT ![p] = {}]
    /\ free' = [free EXCEPT ![p] = {}]
    /\ resetOk' = resetOk \ {p}

-----------------------------------------------------------------------------
(* Starting a command.  release, reset and renew begin by reading the lease *)
(* record; without one they report "not found" and change nothing.          *)

Begin(p, command, label, l) ==
    /\ pc[p] = "idle"
    /\ command \in Commands
    /\ Goto(p, label)
    /\ cmd' = [cmd EXCEPT ![p] = command]
    /\ cur' = [cur EXCEPT ![p] = l]
    /\ UNCHANGED <<gateVars, mutex, item, seen, free, resetOk, envVars, history>>

StartAcquire(p) ==
    /\ \E c \in {"acquire", "reset_all"} : Begin(p, c, "enter", NoLease)
    /\ UNCHANGED <<todo, leaseVars>>

StartReconcile(p) ==
    /\ Begin(p, "reconcile", "scan", NoLease)
    /\ UNCHANGED <<todo, leaseVars>>

StartRelease(p) ==
    /\ \E c \in {"release", "release_noreset", "reset"}, l \in records :
            Begin(p, c, "fds", l)
    /\ UNCHANGED <<todo, leaseVars>>

StartRenew(p) ==
    /\ \E l \in records : Begin(p, "renew", "rewrite", l)
    /\ UNCHANGED <<todo, leaseVars>>

\* adopt puts a lease over work that is already running: it needs an open chip.
StartAdopt(p) ==
    \E u \in Units, l \in Leases \ (used \cup Detached) :
        /\ ChipsIn({u}) \cap open # {}
        /\ Begin(p, "adopt", "claim", l)
        /\ todo' = [todo EXCEPT ![p] = {<<u, l>>}]
        /\ units' = [units EXCEPT ![l] = {u}]
        /\ used' = used \cup {l}

-----------------------------------------------------------------------------
(* critical_section.  Leaving removes the mutex directory whoever made it.  *)

Claiming(p) == cmd[p] \in {"acquire", "reset_all"}

Enter(p) ==
    /\ mutex = None
    /\ mutex' = p
    /\ \/ pc[p] = "reenter" /\ Goto(p, "recheck")
       \/ /\ pc[p] = "enter"
          /\ Goto(p, IF Claiming(p) THEN "scan"
                     ELSE IF cmd[p] = "reconcile" THEN "drop" ELSE "check")
    /\ UNCHANGED <<gateVars, locals, leaseVars, envVars, history>>

\* Variant: the finally of critical_section spans the wait.
GiveUpAndRemove(p) ==
    /\ "timeout" \in Happenings
    /\ pc[p] \in {"enter", "reenter"}
    /\ mutex # None
    /\ mutex' = None
    /\ Finish(p)
    /\ UNCHANGED <<gateVars, leaseVars, envVars, history>>

\* TimeoutError after ten seconds of waiting: the command fails where it stands.
GiveUp(p) ==
    /\ "timeout" \in Happenings
    /\ pc[p] \in {"enter", "reenter"}
    /\ mutex # None
    /\ Finish(p)
    /\ UNCHANGED <<gateVars, mutex, leaseVars, envVars, history>>

\* A granted reset-all is the one command that goes on after its acquire.
HasTheBox(p) == cmd[p] = "reset_all" /\ cur[p] \in granted

Exit(p) ==
    /\ pc[p] = "exit"
    /\ ~HasTheBox(p)
    /\ mutex' = None
    /\ Finish(p)
    /\ UNCHANGED <<gateVars, leaseVars, envVars, history>>

\* release and reset drop the mutex between their first check and the reset.
Pause(p) ==
    /\ mutex' = None
    /\ \/ pc[p] = "checked" /\ Goto(p, "reset")
       \/ pc[p] = "skip" /\ Goto(p, "reenter")
       \/ pc[p] = "exit" /\ HasTheBox(p) /\ Goto(p, "reset")
    /\ UNCHANGED <<gateVars, locals, leaseVars, envVars, history>>

-----------------------------------------------------------------------------
(* reconcile: a scan of /proc, then the locks, then a verdict per chip.     *)
(* acquire runs it inside the mutex, through allocate and free_units.       *)

ScanFds(p) ==
    /\ pc[p] \in {"scan", "rescan"}
    /\ seen' = [seen EXCEPT ![p] = open]
    /\ Goto(p, IF pc[p] = "scan" THEN "read" ELSE "reread")
    /\ UNCHANGED <<gateVars, mutex, cmd, cur, todo, item, free, resetOk,
                   leaseVars, envVars, history>>

\* The lease is past its grace window, or its owning process is dead.
Expired(u) == IF copy[u] \in Detached THEN now - stamp[u] > Grace
                                      ELSE copy[u] \notin alive

\* Variants: without the lease's own verdict; only for supervised leases; and
\* with the locks that have no lease in them.
StaleWhenIdle(p) == {d \in Units \X Leases :
                        /\ d[1] \in HeldUnits /\ d[2] = copy[d[1]]
                        /\ \E c \in ChipsIn({d[1]}) : c \notin seen[p]}
StaleSupervised(p) == {d \in StaleWhenIdle(p) : Expired(d[1]) /\ d[2] \notin Detached}
StaleUnnamed(p) == {<<u, copy[u]>> : u \in {v \in lockdir : Expired(v)}}

\* The locks judged STALE: some chip of the unit is idle and the lease expired.
Stale(p) == {d \in Units \X Leases :
                /\ d[1] \in HeldUnits /\ d[2] = copy[d[1]]
                /\ Expired(d[1])
                /\ \E c \in ChipsIn({d[1]}) : c \notin seen[p]}

\* free_units: every chip of the unit is FREE.
FreeUnits(p) == {u \in Units \ HeldUnits : ChipsIn({u}) \cap seen[p] = {}}

\* Something to reap. reconcile takes the mutex for it, acquire already has it.
JudgeStale(p) ==
    /\ pc[p] = "read"
    /\ Stale(p) # {}
    /\ todo' = [todo EXCEPT ![p] = Stale(p)]
    /\ Goto(p, IF cmd[p] = "reconcile" THEN "enter" ELSE "drop")
    /\ seen' = [seen EXCEPT ![p] = {}]
    /\ UNCHANGED <<gateVars, mutex, cmd, cur, item, free, resetOk,
                   leaseVars, envVars, history>>

\* Nothing to reap, or the second look after a reap (reconcile(reap=False)).
JudgeFree(p) ==
    /\ cmd[p] # "reconcile"
    /\ pc[p] = "reread" \/ (pc[p] = "read" /\ Stale(p) = {})
    /\ Goto(p, "choose")
    /\ free' = [free EXCEPT ![p] = FreeUnits(p)]
    /\ seen' = [seen EXCEPT ![p] = {}]
    /\ UNCHANGED <<gateVars, mutex, cmd, cur, todo, item, resetOk,
                   leaseVars, envVars, history>>

ReconcileDone(p) ==
    /\ cmd[p] = "reconcile"
    /\ pc[p] = "read" /\ Stale(p) = {}
    /\ Finish(p)
    /\ UNCHANGED <<gateVars, mutex, leaseVars, envVars, history>>

-----------------------------------------------------------------------------
(* release_unit, for each pair of todo in any order: the guard, unlink,     *)
(* rmdir.  reconcile reaps with it, acquire rolls back with it, release     *)
(* tears down with it.                                                      *)

Reaping(p) == cmd[p] = "reconcile" \/ cur[p] = NoLease

\* Variant: release_unit without expected_lease_id.
DropUnchecked(p) ==
    /\ pc[p] = "drop"
    /\ \E d \in todo[p] :
        /\ todo' = [todo EXCEPT ![p] = @ \ {d}]
        /\ item' = [item EXCEPT ![p] = d]
    /\ Goto(p, "unlink")
    /\ UNCHANGED <<gateVars, mutex, cmd, cur, seen, free, resetOk,
                   leaseVars, envVars, history>>

Drop(p) ==
    /\ pc[p] = "drop"
    /\ \E d \in todo[p] :
        /\ StillNames(d[1], d[2])
        /\ todo' = [todo EXCEPT ![p] = @ \ {d}]
        /\ item' = [item EXCEPT ![p] = d]
    /\ Goto(p, "unlink")
    /\ UNCHANGED <<gateVars, mutex, cmd, cur, seen, free, resetOk,
                   leaseVars, envVars, history>>

\* Variant: break for continue.
SpareAndStop(p) ==
    /\ pc[p] = "drop"
    /\ \E d \in todo[p] : ~StillNames(d[1], d[2])
    /\ todo' = [todo EXCEPT ![p] = {}]
    /\ UNCHANGED <<gateVars, mutex, pc, cmd, cur, item, seen, free, resetOk,
                   leaseVars, envVars, history>>

\* The lock is gone, or names another lease by now: it is left alone.
Spare(p) ==
    /\ pc[p] = "drop"
    /\ \E d \in todo[p] :
        /\ ~StillNames(d[1], d[2])
        /\ todo' = [todo EXCEPT ![p] = @ \ {d}]
    /\ UNCHANGED <<gateVars, mutex, pc, cmd, cur, item, seen, free, resetOk,
                   leaseVars, envVars, history>>

Unlink(p) ==
    /\ pc[p] = "unlink"
    /\ UnlinkCopy(item[p][1])
    /\ tenure' = tenure \ {item[p]}
    /\ Goto(p, "rmdir")
    /\ UNCHANGED <<mutex, locals, leaseVars, envVars, granted, unreset>>

Rmdir(p) ==
    /\ pc[p] = "rmdir"
    /\ RemoveLock(item[p][1])
    /\ Goto(p, IF Reaping(p) THEN "forget" ELSE "drop")
    /\ item' = IF Reaping(p) THEN item ELSE [item EXCEPT ![p] = <<>>]
    /\ UNCHANGED <<mutex, cmd, cur, todo, seen, free, resetOk,
                   leaseVars, envVars, history>>

\* A reaped unit takes its lease's record with it.
Forget(p) ==
    /\ pc[p] = "forget"
    /\ DeleteRecord(item[p][2])
    /\ item' = [item EXCEPT ![p] = <<>>]
    /\ Goto(p, "drop")
    /\ UNCHANGED <<mutex, cmd, cur, todo, seen, free, resetOk,
                   leaseVars, envVars, history>>

\* Variant: the record goes before the locks.
DropsNotDone(p) ==
    /\ pc[p] = "drop"
    /\ Goto(p, IF cmd[p] \in {"release", "release_noreset", "give_back"} THEN "delete"
               ELSE IF Claiming(p) /\ Reaping(p) THEN "rescan" ELSE "exit")
    /\ UNCHANGED <<gateVars, mutex, locals, leaseVars, envVars, history>>

DropsDone(p) ==
    /\ pc[p] = "drop"
    /\ todo[p] = {}
    /\ Goto(p, IF cmd[p] \in {"release", "release_noreset", "give_back"} THEN "delete"
               ELSE IF Claiming(p) /\ Reaping(p) THEN "rescan" ELSE "exit")
    /\ UNCHANGED <<gateVars, mutex, locals, leaseVars, envVars, history>>

-----------------------------------------------------------------------------
(* acquire, after reconcile.  adopt claims with the same steps, for its one *)
(* unit and outside the mutex.                                              *)

\* allocate: some free units, for a fresh lease.  reset-all takes every unit or
\* none, under its own pid.
Choose(p) ==
    /\ pc[p] = "choose"
    /\ \E l \in Leases \ used, S \in (SUBSET free[p]) \ {{}} :
        /\ cmd[p] = "reset_all" => S = Units /\ l \notin Detached
        /\ units' = [units EXCEPT ![l] = S]
        /\ used' = used \cup {l}
        /\ cur' = [cur EXCEPT ![p] = l]
        /\ todo' = [todo EXCEPT ![p] = Pairs(S, l)]
    /\ free' = [free EXCEPT ![p] = {}]
    /\ Goto(p, "claim")
    /\ UNCHANGED <<gateVars, mutex, cmd, item, seen, resetOk, envVars, history>>

\* Another ticket's claim window is open, or the free units do not satisfy the
\* request: the caller is queued or refused.
Refuse(p) ==
    /\ Claiming(p)
    /\ pc[p] \in {"scan", "choose"}
    /\ Goto(p, "exit")
    /\ free' = [free EXCEPT ![p] = {}]
    /\ UNCHANGED <<gateVars, mutex, cmd, cur, todo, item, seen, resetOk,
                   leaseVars, envVars, history>>

ClaimWon(p) ==
    /\ pc[p] = "claim"
    /\ \E d \in todo[p] :
        /\ MakeLock(d[1])
        /\ item' = [item EXCEPT ![p] = d]
    /\ Goto(p, "write")
    /\ UNCHANGED <<mutex, cmd, cur, todo, seen, free, resetOk,
                   leaseVars, envVars, history>>

\* Lost a race for one unit: roll back the ones already claimed.  adopt has none.
ClaimLost(p) ==
    /\ pc[p] = "claim"
    /\ cmd[p] # "adopt"
    /\ \E d \in todo[p] : d[1] \in lockdir
    /\ todo' = [todo EXCEPT ![p] = Pairs(UnitsOf(p), cur[p]) \ @]
    /\ Goto(p, "drop")
    /\ UNCHANGED <<gateVars, mutex, cmd, cur, item, seen, free, resetOk,
                   leaseVars, envVars, history>>

AdoptLost(p) ==
    /\ pc[p] = "claim"
    /\ cmd[p] = "adopt"
    /\ \E d \in todo[p] : d[1] \in lockdir
    /\ Finish(p)
    /\ UNCHANGED <<gateVars, mutex, leaseVars, envVars, history>>

PutItem(p) ==
    /\ pc[p] = "write"
    /\ PutCopy(item[p][1], item[p][2], now)
    /\ todo' = [todo EXCEPT ![p] = @ \ {item[p]}]
    /\ item' = [item EXCEPT ![p] = <<>>]
    /\ UNCHANGED <<mutex, cmd, cur, seen, free, resetOk, leaseVars, envVars>>

\* Variants: granted with the first unit; clear_clean in the claim loop.
WriteLockOnce(p) ==
    /\ cmd[p] # "adopt"
    /\ PutItem(p)
    /\ Goto(p, "dirty")
    /\ UNCHANGED history

WriteLockAndDirty(p) ==
    /\ pc[p] = "write"
    /\ cmd[p] # "adopt"
    /\ copy' = [copy EXCEPT ![item[p][1]] = item[p][2]]
    /\ stamp' = [stamp EXCEPT ![item[p][1]] = now]
    /\ clean' = clean \ {item[p][1]}
    /\ todo' = [todo EXCEPT ![p] = @ \ {item[p]}]
    /\ item' = [item EXCEPT ![p] = <<>>]
    /\ Goto(p, IF todo[p] = {item[p]} THEN "dirty" ELSE "claim")
    /\ UNCHANGED <<lockdir, records, mutex, cmd, cur, seen, free, resetOk,
                   leaseVars, envVars, history>>

WriteLock(p) ==
    /\ cmd[p] # "adopt"
    /\ PutItem(p)
    /\ Goto(p, IF todo[p] = {item[p]} THEN "dirty" ELSE "claim")
    /\ UNCHANGED history

\* The lock of adopt's one unit is its grant; acquire grants when all are locked.
AdoptLock(p) ==
    /\ cmd[p] = "adopt"
    /\ PutItem(p)
    /\ Goto(p, "grant")
    /\ tenure' = tenure \cup {item[p]}
    /\ granted' = granted \cup {item[p][2]}
    /\ unreset' = unreset \cup {item[p][1]}

\* Only now that every unit is won are their clean markers cleared.
Dirty(p) ==
    /\ pc[p] = "dirty"
    /\ ClearClean(UnitsOf(p))
    /\ Goto(p, "grant")
    /\ UNCHANGED <<mutex, locals, leaseVars, envVars, history>>

Grant(p) ==
    /\ pc[p] = "grant"
    /\ cmd[p] # "adopt"
    /\ WriteRecord(cur[p])
    /\ Goto(p, "exit")
    /\ tenure' = tenure \cup Pairs(UnitsOf(p), cur[p])
    /\ granted' = granted \cup {cur[p]}
    /\ unreset' = unreset \cup UnitsOf(p)
    /\ UNCHANGED <<mutex, locals, leaseVars, envVars>>

AdoptRecord(p) ==
    /\ pc[p] = "grant"
    /\ cmd[p] = "adopt"
    /\ WriteRecord(cur[p])
    /\ Finish(p)
    /\ UNCHANGED <<mutex, leaseVars, envVars, history>>

-----------------------------------------------------------------------------
(* release and reset: refuse while a device is open, check the gate, reset  *)
(* without the mutex, check again, and (release only) tear down.            *)

InUse(p) == ChipsIn(UnitsOf(p)) \cap open # {}

FdsClosed(p) ==
    /\ pc[p] = "fds"
    /\ InUse(p) => "force" \in Happenings
    /\ Goto(p, "enter")
    /\ UNCHANGED <<gateVars, mutex, locals, leaseVars, envVars, history>>

FdsOpen(p) ==
    /\ pc[p] = "fds"
    /\ InUse(p)
    /\ Finish(p)
    /\ UNCHANGED <<gateVars, mutex, leaseVars, envVars, history>>

Foreign(p) == HeldElsewhere(UnitsOf(p), cur[p])

\* First check. "exit" refuses; release without a lock, or with --no-reset, goes
\* on to its teardown without a reset.
Check(p) ==
    /\ pc[p] = "check"
    /\ Goto(p, IF \/ Foreign(p) # {}
                  \/ cmd[p] = "reset" /\ Unheld(UnitsOf(p)) # {}
               THEN "exit"
               ELSE IF \/ cmd[p] \in {"release_noreset", "give_back"}
                       \/ Unheld(UnitsOf(p)) # {}
                    THEN "skip" ELSE "checked")
    /\ UNCHANGED <<gateVars, mutex, locals, leaseVars, envVars, history>>

\* tt-smi -r on the chips of the lease's units (-r all: on every chip).
Reset(p) ==
    /\ pc[p] = "reset"
    /\ Goto(p, IF cmd[p] = "reset_all" THEN "refresh" ELSE "reenter")
    /\ \/ /\ resetOk' = resetOk \cup {p}
          /\ unreset' = unreset \ UnitsOf(p)
       \/ UNCHANGED <<resetOk, unreset>>    \* tt-smi failed
    /\ UNCHANGED <<gateVars, mutex, cmd, cur, todo, item, seen, free,
                   leaseVars, envVars, tenure, granted>>

\* Second check.
Recheck(p) ==
    /\ pc[p] = "recheck"
    /\ Goto(p, IF Foreign(p) # {} \/ cmd[p] = "reset" THEN "exit" ELSE "mark")
    /\ UNCHANGED <<gateVars, mutex, locals, leaseVars, envVars, history>>

\* Variant: mark_clean whatever tt-smi said.
MarkAnyway(p) ==
    /\ pc[p] = "mark"
    /\ MarkClean(UnitsOf(p))
    /\ todo' = [todo EXCEPT ![p] = Pairs(UnitsOf(p), cur[p])]
    /\ Goto(p, "drop")
    /\ UNCHANGED <<mutex, cmd, cur, seen, item, free, resetOk,
                   leaseVars, envVars, history>>

Mark(p) ==
    /\ pc[p] = "mark"
    /\ MarkClean(IF p \in resetOk THEN UnitsOf(p) ELSE {})
    /\ todo' = [todo EXCEPT ![p] = Pairs(UnitsOf(p), cur[p])]
    /\ Goto(p, "drop")
    /\ UNCHANGED <<mutex, cmd, cur, item, seen, free, resetOk,
                   leaseVars, envVars, history>>

Delete(p) ==
    /\ pc[p] = "delete"
    /\ DeleteRecord(cur[p])
    /\ Goto(p, "exit")
    /\ UNCHANGED <<mutex, locals, leaseVars, envVars, history>>

\* Afterwards reset-all reads the topology and its record again. With every chip
\* still dead it only gives the box back.
Refresh(p) ==
    /\ pc[p] = "refresh"
    /\ \/ Goto(p, "giveback")
       \/ Goto(p, IF cur[p] \in records THEN "rerecord" ELSE "markall")
    /\ UNCHANGED <<gateVars, mutex, locals, leaseVars, envVars, history>>

\* It writes back the record it read, with the chips that are there now.
Rerecord(p) ==
    /\ pc[p] = "rerecord"
    /\ WriteRecord(cur[p])
    /\ Goto(p, "markall")
    /\ UNCHANGED <<mutex, locals, leaseVars, envVars, history>>

\* It marks its units without the mutex, those whose board is whole, and then
\* releases without a reset.
MarkAll(p) ==
    /\ pc[p] = "markall"
    /\ \E S \in SUBSET UnitsOf(p) : MarkClean(IF p \in resetOk THEN S ELSE {})
    /\ Goto(p, "giveback")
    /\ UNCHANGED <<mutex, locals, leaseVars, envVars, history>>

GiveBack(p) ==
    /\ pc[p] = "giveback"
    /\ cur[p] \in records
    /\ Goto(p, "fds")
    /\ cmd' = [cmd EXCEPT ![p] = "give_back"]
    /\ resetOk' = resetOk \ {p}
    /\ UNCHANGED <<gateVars, mutex, cur, todo, item, seen, free,
                   leaseVars, envVars, history>>

\* Somebody released the lease in the meantime.
NothingToGiveBack(p) ==
    /\ pc[p] = "giveback"
    /\ cur[p] \notin records
    /\ Finish(p)
    /\ UNCHANGED <<gateVars, mutex, leaseVars, envVars, history>>

-----------------------------------------------------------------------------
(* renew takes no mutex: it rewrites the record it read, then the lease copy*)
(* in each of its units' locks, where there is a lock.                      *)

Rewrite(p) ==
    /\ pc[p] = "rewrite"
    /\ WriteRecord(cur[p])
    /\ todo' = [todo EXCEPT ![p] = Pairs(UnitsOf(p), cur[p])]
    /\ Goto(p, "replace")
    /\ UNCHANGED <<mutex, cmd, cur, item, seen, free, resetOk,
                   leaseVars, envVars, history>>

Replace(p) ==
    /\ pc[p] = "replace"
    /\ \E d \in todo[p] :
        /\ todo' = [todo EXCEPT ![p] = @ \ {d}]
        /\ PutCopy(d[1], d[2], now)
    /\ UNCHANGED <<mutex, pc, cmd, cur, item, seen, free, resetOk,
                   leaseVars, envVars, history>>

NotReplaced(p) ==
    /\ pc[p] = "replace"
    /\ \E d \in todo[p] :
        /\ d[1] \notin lockdir
        /\ todo' = [todo EXCEPT ![p] = @ \ {d}]
    /\ UNCHANGED <<gateVars, mutex, pc, cmd, cur, item, seen, free, resetOk,
                   leaseVars, envVars, history>>

ReplaceDone(p) ==
    /\ pc[p] = "replace"
    /\ todo[p] = {}
    /\ Finish(p)
    /\ UNCHANGED <<gateVars, mutex, leaseVars, envVars, history>>

-----------------------------------------------------------------------------
(* Failures and the environment.                                            *)

\* A mkdir or write that raises (disk full, or the lock directory is gone): the
\* command ends, and the finally of critical_section removes the mutex.
Fail(p) ==
    /\ pc[p] \in {"claim", "write", "grant", "rerecord", "rewrite", "replace"}
    /\ \/ "ioerror" \in Happenings
       \/ pc[p] = "write" /\ item[p][1] \notin lockdir
    /\ mutex' = IF InCS(p) THEN None ELSE mutex
    /\ Finish(p)
    /\ UNCHANGED <<gateVars, leaseVars, envVars, history>>

\* SIGKILL: nothing is cleaned up.
Crash(p) ==
    /\ pc[p] \in CrashPoints
    /\ mutex' = IF mutex = p THEN Orphan ELSE mutex
    /\ Finish(p)
    /\ UNCHANGED <<gateVars, leaseVars, envVars, history>>

\* A waiter removes a mutex directory as stale: a dead process's, or a live one's
\* (an overrun: its holder is slow, or two waiters judged one stale directory and
\* the later rmdir met the next holder's, as Mutex.tla shows after a crash).
ClearStaleMutex ==
    /\ \/ mutex = Orphan
       \/ mutex \in Procs /\ "overrun" \in Happenings
    /\ mutex' = None
    /\ UNCHANGED <<gateVars, pc, locals, leaseVars, envVars, history>>

Tick ==
    /\ now < MaxNow
    /\ now' = now + 1
    /\ UNCHANGED <<gateVars, mutex, pc, locals, leaseVars, open, alive, history>>

\* Anyone may open or close any device at any time; gozer only looks.
OpenOrClose(c) ==
    /\ "open" \in Happenings
    /\ open' = IF c \in open THEN open \ {c} ELSE open \cup {c}
    /\ UNCHANGED <<gateVars, mutex, pc, locals, leaseVars, alive, now, history>>

\* (The owner of reset-all's lease is the process that runs it.)
OwnerDies(l) ==
    /\ "die" \in Happenings
    /\ l \in alive \cap used
    /\ \A p \in Procs : cmd[p] \in {"reset_all", "give_back"} => cur[p] # l
    /\ alive' = alive \ {l}
    /\ UNCHANGED <<gateVars, mutex, pc, locals, leaseVars, open, now, history>>

-----------------------------------------------------------------------------
Start(p) == \/ StartAcquire(p) \/ StartReconcile(p) \/ StartRelease(p)
            \/ StartRenew(p) \/ StartAdopt(p)

\* The steps a command takes by itself once it has begun.
MutexStep(p) == Enter(p) \/ Exit(p) \/ Pause(p)

ReconcileStep(p) ==
    \/ ScanFds(p) \/ JudgeStale(p) \/ JudgeFree(p) \/ ReconcileDone(p)
    \/ Drop(p) \/ Spare(p) \/ Unlink(p) \/ Rmdir(p) \/ Forget(p) \/ DropsDone(p)

ClaimStep(p) ==
    \/ Choose(p) \/ Refuse(p) \/ ClaimWon(p) \/ ClaimLost(p) \/ AdoptLost(p)
    \/ WriteLock(p) \/ AdoptLock(p) \/ Dirty(p) \/ Grant(p) \/ AdoptRecord(p)

ReleaseStep(p) ==
    \/ FdsClosed(p) \/ FdsOpen(p) \/ Check(p) \/ Reset(p) \/ Recheck(p) \/ Mark(p)
    \/ Delete(p) \/ Refresh(p) \/ Rerecord(p) \/ MarkAll(p)
    \/ GiveBack(p) \/ NothingToGiveBack(p)

RenewStep(p) == Rewrite(p) \/ Replace(p) \/ NotReplaced(p) \/ ReplaceDone(p)

Step(p) == MutexStep(p) \/ ReconcileStep(p) \/ ClaimStep(p) \/ ReleaseStep(p)
           \/ RenewStep(p)

Environment ==
    \/ ClearStaleMutex \/ Tick
    \/ \E c \in Chips : OpenOrClose(c)
    \/ \E l \in Leases : OwnerDies(l)

Next ==
    \/ \E p \in Procs : Start(p) \/ Step(p) \/ GiveUp(p) \/ Fail(p) \/ Crash(p)
    \/ Environment

Spec == Init /\ [][Next]_vars

\* A command that has begun goes on; polling the mutex every 20 ms gets it in the
\* end; the age of an orphaned mutex grows; somebody keeps running reconcile (as
\* each `gozer wait` does through acquire, once a second).
Fairness ==
    /\ \A p \in Procs : /\ WF_vars(Step(p))
                        /\ SF_vars(Enter(p))
                        /\ SF_vars(StartReconcile(p))
    /\ WF_vars(ClearStaleMutex)

FairSpec == Spec /\ Fairness

\* Nor are commands killed, or timed out, for ever: from some time on every step is
\* another one.
FailuresEnd ==
    <>[][(\E p \in Procs : Start(p) \/ Step(p) \/ Fail(p)) \/ Environment]_vars

SurvivingSpec == FairSpec /\ FailuresEnd

-----------------------------------------------------------------------------
(* Properties.                                                              *)

\* critical_section excludes: a process inside it owns the mutex directory
\* (gatekeeper.py critical_section, "Serialise allocation").
MutexHeld == \A p \in Procs : InCS(p) => mutex = p

\* A lease that was granted a unit, and was neither released nor reaped from it,
\* is the one the unit's lock names: no step of any other command, however it is
\* interleaved, takes or renames the lock (release_unit's expected_lease_id).
TenureIsLocked == \A t \in tenure : copy[t[1]] = t[2]

\* The detailed gate implements the ledger: whole requests are granted over units
\* without a tenant, a tenancy only ends, and no lease is granted twice.
ImplementsLedger == Ledger!LedgerSpec

\* A clean marker is only removed by a request that has won every one of its
\* units (keymaster.py acquire: an aborted request must not dirty a unit).
OnlyAGrantDirties ==
    [][\A u \in clean \ clean' :
          \E l \in used : u \in units[l] /\ \A v \in units[l] : copy'[v] = l]_vars

\* A reap takes a unit from its tenant only when the lease has expired: its owner
\* is dead, or its grace window is over (README, "How it decides what's free").
OnlyTheExpiredAreReaped ==
    [][\A t \in tenure \ tenure' :
          (\E p \in Procs : pc[p] = "unlink" /\ Reaping(p)) => Expired(t[1])]_vars

\* When release deletes the record, no lock of the lease is left and nobody is
\* its tenant (keymaster.py release_result: unlock, then forget).
TeardownIsComplete ==
    \A p \in Procs : pc[p] = "delete" =>
        \A u \in UnitsOf(p) : copy[u] # cur[p] /\ <<u, cur[p]>> \notin tenure

\* A lease past its time, all of whose chips are closed.
Lapsed(u) == u \in HeldUnits /\ Expired(u) /\ ChipsIn({u}) \cap open = {}

\* A lock with no lease in it, that no process is about to write or remove: a claim
\* was killed between its mkdir and its write, or a reap, a rollback or a release
\* between its unlink and its rmdir, or the write failed.
Hollow(u) ==
    /\ u \in lockdir \ HeldUnits
    /\ \A p \in Procs : pc[p] \in {"write", "rmdir"} => item[p][1] # u

\* A lease whose time is over, with its chips closed, is taken off its unit in the
\* end, wherever in a claim, a reap or a release commands are killed or time out. It
\* says nothing of a lock that has no lease in it any more (free_units: "it is what
\* lets allocation self-heal after a crash").
LapsedIsReaped == \A u \in Units : Lapsed(u) ~> ~Lapsed(u)

\* One crashed agent does not wedge the box: a lapsed lease and a hollow lock are
\* both taken away in the end (gatekeeper.py free_units, the comment on reap=True).
Abandoned(u) == Lapsed(u) \/ Hollow(u)
AbandonedIsFreed == \A u \in Units : Abandoned(u) ~> ~Abandoned(u)

\* A lease is judged for reaping only when the scan saw none of its chips open
\* (reconcile: "a lease is only removed when its process is gone and no fd
\* remains").
ReapsWholeIdleLeases ==
    [][\A p \in Procs : JudgeStale(p) =>
          \A d \in Stale(p) : ChipsIn(units[d[2]]) \cap seen[p] = {}]_vars

\* renew rewrites a held lock's copy in place: the lock goes on naming the lease it
\* named (update_unit_lease: "Rewrite a held unit's lease copy in place").
RenewKeepsTheTenant ==
    [][\A p \in Procs : Replace(p) =>
          \A u \in HeldUnits : copy'[u] = copy[u]]_vars

\* A unit marked clean has been reset since a tenant was last let onto it
\* (mark_clean: "Record that this unit has been reset since its last release").
CleanIsReset == clean \cap unreset = {}

\* A unit that nobody leases and that is marked clean was reset after its last tenant
\* (README, state format: "unit was reset since its last release").
FreshIsReset == (clean \ lockdir) \cap unreset = {}
=============================================================================
