---------------------------- MODULE LeasesProofs ----------------------------
(***************************************************************************)
(* Proofs about Leases, for every set of processes, units, chips and       *)
(* leases: types, the mutex, and the clean markers.                        *)
(***************************************************************************)
EXTENDS Leases, TLAPS

-----------------------------------------------------------------------------
(* Type correctness.  It needs to know that a process has a lease, and a     *)
(* pair, wherever its next step uses one.                                  *)

NeedsLease == {"claim", "write", "dirty", "grant", "fds", "check", "checked",
               "skip", "reset", "reenter", "recheck", "mark", "delete",
               "refresh", "rerecord", "markall", "giveback", "rewrite", "replace"}

LocalOK(p) ==
    /\ pc[p] \in NeedsLease => cur[p] \in Leases
    /\ cmd[p] \in CommandNames \ {"acquire", "reset_all", "reconcile"} => cur[p] \in Leases
    /\ pc[p] # "idle" => cmd[p] # "none"
    /\ pc[p] \in {"write", "unlink", "rmdir", "forget"} => item[p] \in Units \X Leases

LocalsOK == \A p \in Procs : LocalOK(p)

TypeInv == TypeOK /\ LocalsOK

\* What Finish leaves behind is well typed.
LEMMA FinishType ==
    ASSUME TypeInv, NEW p \in Procs, Finish(p)
    PROVE  /\ pc' \in [Procs -> Labels]
           /\ cmd' \in [Procs -> CommandNames \cup {"none"}]
           /\ cur' \in [Procs -> Leases \cup {NoLease}]
           /\ todo' \in [Procs -> SUBSET (Units \X Leases)]
           /\ item' \in [Procs -> (Units \X Leases) \cup {<<>>}]
           /\ seen' \in [Procs -> SUBSET Chips]
           /\ free' \in [Procs -> SUBSET Units]
           /\ resetOk' \subseteq Procs
           /\ LocalsOK'
<1> USE DEF TypeInv, TypeOK, Finish, Goto, Labels, FreeLabels
<1>1. \A q \in Procs \ {p} : LocalOK(q)'
  BY DEF LocalsOK, LocalOK
<1>2. LocalOK(p)'
  BY DEF LocalOK, NeedsLease, CommandNames
<1> QED BY <1>1, <1>2 DEF LocalsOK

\* The initial files and processes are well typed.
LEMMA TypeInit == Init => TypeInv
  BY GateAssumption DEF Init, GateInit, TypeInv, LocalsOK, LocalOK, NeedsLease, CommandNames, TypeOK, GateTypeOK, Labels, FreeLabels

\* The start of any command is well typed.
LEMMA TypeStart ==
    ASSUME TypeInv, NEW p \in Procs, Start(p)
    PROVE  TypeInv'
<1> USE DEF TypeInv, LocalsOK, LocalOK, NeedsLease, TypeOK, GateTypeOK, gateVars, envVars, history, leaseVars,
            Labels, CSLabels, FreeLabels, MixedLabels, CommandNames, Begin, Goto
<1>1. CASE StartAcquire(p)
  BY <1>1 DEF StartAcquire
<1>2. CASE StartReconcile(p)
  BY <1>2 DEF StartReconcile
<1>3. CASE StartRelease(p)
  BY <1>3 DEF StartRelease
<1>4. CASE StartRenew(p)
  BY <1>4 DEF StartRenew
<1>5. CASE StartAdopt(p)
  BY <1>5 DEF StartAdopt
<1> QED BY <1>1, <1>2, <1>3, <1>4, <1>5 DEF Start

\* Every step of a command keeps the types: the ones of critical_section,
LEMMA TypeMutexStep ==
    ASSUME TypeInv, NEW p \in Procs, MutexStep(p)
    PROVE  TypeInv'
<1> USE DEF TypeInv, LocalsOK, LocalOK, NeedsLease, TypeOK, GateTypeOK, gateVars, locals, envVars, history, leaseVars,
            Labels, CSLabels, FreeLabels, MixedLabels, CommandNames, Goto
<1>1. CASE Enter(p)
  <2>1. pc[p] = "enter" => \/ Claiming(p) \/ cmd[p] = "reconcile" \/ cur[p] \in Leases
    BY DEF Claiming
  <2>2. TypeOK'
    BY <1>1 DEF Enter
  <2>3. LocalOK(p)'
    BY <1>1, <2>1 DEF Enter
  <2>4. \A q \in Procs \ {p} : LocalOK(q)'
    BY <1>1 DEF Enter
  <2> QED BY <2>2, <2>3, <2>4
<1>2. CASE Exit(p)
  <2>1. Finish(p) /\ UNCHANGED history
    BY <1>2 DEF Exit
  <2>2. TypeOK'
    BY <1>2, <2>1, FinishType DEF Exit
  <2> QED BY <2>1, <2>2, FinishType
<1>3. CASE Pause(p)
  <2>1. TypeOK'
    BY <1>3 DEF Pause
  <2>2. pc[p] = "exit" /\ HasTheBox(p) => cur[p] \in Leases
    BY DEF HasTheBox
  <2>3. LocalOK(p)'
    BY <1>3, <2>2 DEF Pause
  <2>4. \A q \in Procs \ {p} : LocalOK(q)'
    BY <1>3 DEF Pause
  <2> QED BY <2>1, <2>3, <2>4
<1> QED BY <1>1, <1>2, <1>3 DEF MutexStep

\* of reconcile and release_unit,
LEMMA TypeReconcileStep ==
    ASSUME TypeInv, NEW p \in Procs, ReconcileStep(p)
    PROVE  TypeInv'
<1> USE DEF TypeInv, LocalsOK, LocalOK, NeedsLease, TypeOK, GateTypeOK, gateVars, locals, envVars, history, leaseVars,
            Labels, CSLabels, FreeLabels, MixedLabels, CommandNames, Goto
<1>1. CASE ScanFds(p)
  BY <1>1, GateAssumption DEF ScanFds
<1>2. CASE JudgeStale(p)
  BY <1>2, GateAssumption DEF JudgeStale, Stale
<1>3. CASE JudgeFree(p)
  BY <1>3, GateAssumption DEF JudgeFree, FreeUnits
<1>4. CASE ReconcileDone(p)
  <2>1. Finish(p) /\ UNCHANGED history
    BY <1>4 DEF ReconcileDone
  <2>2. TypeOK'
    BY <1>4, <2>1, FinishType DEF ReconcileDone
  <2> QED BY <2>1, <2>2, FinishType
<1>5. CASE Drop(p)
  BY <1>5, GateAssumption DEF Drop
<1>6. CASE Spare(p)
  BY <1>6, GateAssumption DEF Spare
<1>7. CASE Unlink(p)
  BY <1>7, GateAssumption DEF Unlink, UnlinkCopy
<1>8. CASE Rmdir(p)
  BY <1>8, GateAssumption DEF Rmdir, RemoveLock
<1>9. CASE Forget(p)
  BY <1>9, GateAssumption DEF Forget, DeleteRecord
<1>10. CASE DropsDone(p)
  BY <1>10, GateAssumption DEF DropsDone
<1> QED BY <1>1, <1>2, <1>3, <1>4, <1>5, <1>6, <1>7, <1>8, <1>9, <1>10 DEF ReconcileStep

\* of acquire and adopt,
LEMMA TypeClaimStep ==
    ASSUME TypeInv, NEW p \in Procs, ClaimStep(p)
    PROVE  TypeInv'
<1> USE DEF TypeInv, LocalsOK, LocalOK, NeedsLease, TypeOK, GateTypeOK, gateVars, locals, envVars, history, leaseVars,
            Labels, CSLabels, FreeLabels, MixedLabels, CommandNames, Goto
<1>1. CASE Choose(p)
  BY <1>1, GateAssumption DEF Choose, Pairs
<1>2. CASE Refuse(p)
  BY <1>2, GateAssumption DEF Refuse
<1>3. CASE ClaimWon(p)
  BY <1>3, GateAssumption DEF ClaimWon, MakeLock
<1>4. CASE ClaimLost(p)
  BY <1>4, GateAssumption DEF ClaimLost, Pairs, UnitsOf
<1>5. CASE AdoptLost(p)
  <2>1. Finish(p) /\ UNCHANGED history
    BY <1>5 DEF AdoptLost
  <2>2. TypeOK'
    BY <1>5, <2>1, FinishType DEF AdoptLost
  <2> QED BY <2>1, <2>2, FinishType
<1>6. CASE WriteLock(p)
  BY <1>6, GateAssumption DEF WriteLock, PutItem, PutCopy
<1>7. CASE AdoptLock(p)
  BY <1>7, GateAssumption DEF AdoptLock, PutItem, PutCopy
<1>8. CASE Dirty(p)
  BY <1>8, GateAssumption DEF Dirty, ClearClean
<1>9. CASE Grant(p)
  BY <1>9, GateAssumption DEF Grant, WriteRecord, Pairs, UnitsOf
<1>10. CASE AdoptRecord(p)
  <2>1. Finish(p) /\ UNCHANGED history
    BY <1>10 DEF AdoptRecord
  <2>2. TypeOK'
    BY <1>10, <2>1, FinishType DEF AdoptRecord, WriteRecord
  <2> QED BY <2>1, <2>2, FinishType
<1> QED BY <1>1, <1>2, <1>3, <1>4, <1>5, <1>6, <1>7, <1>8, <1>9, <1>10 DEF ClaimStep

\* of release, reset and reset-all,
LEMMA TypeReleaseStep ==
    ASSUME TypeInv, NEW p \in Procs, ReleaseStep(p)
    PROVE  TypeInv'
<1> USE DEF TypeInv, LocalsOK, LocalOK, NeedsLease, TypeOK, GateTypeOK, gateVars, locals, envVars, history, leaseVars,
            Labels, CSLabels, FreeLabels, MixedLabels, CommandNames, Goto
<1>1. CASE FdsClosed(p)
  BY <1>1, GateAssumption DEF FdsClosed
<1>2. CASE FdsOpen(p)
  <2>1. Finish(p) /\ UNCHANGED history
    BY <1>2 DEF FdsOpen
  <2>2. TypeOK'
    BY <1>2, <2>1, FinishType DEF FdsOpen
  <2> QED BY <2>1, <2>2, FinishType
<1>3. CASE Check(p)
  BY <1>3, GateAssumption DEF Check
<1>4. CASE Reset(p)
  BY <1>4, GateAssumption DEF Reset, UnitsOf
<1>5. CASE Recheck(p)
  BY <1>5, GateAssumption DEF Recheck
<1>6. CASE Mark(p)
  BY <1>6, GateAssumption DEF Mark, MarkClean, Pairs, UnitsOf
<1>7. CASE Delete(p)
  BY <1>7, GateAssumption DEF Delete, DeleteRecord
<1>8. CASE MarkAll(p)
  BY <1>8, GateAssumption DEF MarkAll, MarkClean, UnitsOf
<1>9. CASE GiveBack(p)
  BY <1>9, GateAssumption DEF GiveBack
<1>10. CASE NothingToGiveBack(p)
  <2>1. Finish(p) /\ UNCHANGED history
    BY <1>10 DEF NothingToGiveBack
  <2>2. TypeOK'
    BY <1>10, <2>1, FinishType DEF NothingToGiveBack
  <2> QED BY <2>1, <2>2, FinishType
<1>11. CASE Refresh(p)
  BY <1>11, GateAssumption DEF Refresh
<1>12. CASE Rerecord(p)
  BY <1>12, GateAssumption DEF Rerecord, WriteRecord
<1> QED BY <1>1, <1>2, <1>3, <1>4, <1>5, <1>6, <1>7, <1>8, <1>9, <1>10, <1>11, <1>12 DEF ReleaseStep

\* of renew,
LEMMA TypeRenewStep ==
    ASSUME TypeInv, NEW p \in Procs, RenewStep(p)
    PROVE  TypeInv'
<1> USE DEF TypeInv, LocalsOK, LocalOK, NeedsLease, TypeOK, GateTypeOK, gateVars, locals, envVars, history, leaseVars,
            Labels, CSLabels, FreeLabels, MixedLabels, CommandNames, Goto
<1>1. CASE Rewrite(p)
  BY <1>1, GateAssumption DEF Rewrite, WriteRecord, Pairs, UnitsOf
<1>2. CASE Replace(p)
  BY <1>2, GateAssumption DEF Replace, PutCopy
<1>3. CASE NotReplaced(p)
  BY <1>3, GateAssumption DEF NotReplaced
<1>4. CASE ReplaceDone(p)
  <2>1. Finish(p) /\ UNCHANGED history
    BY <1>4 DEF ReplaceDone
  <2>2. TypeOK'
    BY <1>4, <2>1, FinishType DEF ReplaceDone
  <2> QED BY <2>1, <2>2, FinishType
<1> QED BY <1>1, <1>2, <1>3, <1>4 DEF RenewStep

\* and of failures and the environment.
LEMMA TypeOther ==
    ASSUME TypeInv, Environment \/ \E p \in Procs : GiveUp(p) \/ Fail(p) \/ Crash(p)
    PROVE  TypeInv'
<1> USE DEF TypeInv, LocalsOK, LocalOK, NeedsLease, TypeOK, GateTypeOK, gateVars, locals, envVars, history, leaseVars
<1>1. CASE \E p \in Procs : GiveUp(p)
  BY <1>1, FinishType DEF GiveUp
<1>2. CASE \E p \in Procs : Fail(p)
  BY <1>2, FinishType DEF Fail
<1>3. CASE \E p \in Procs : Crash(p)
  BY <1>3, FinishType DEF Crash
<1>4. CASE ClearStaleMutex
  BY <1>4 DEF ClearStaleMutex
<1>5. CASE Tick
  BY <1>5, GateAssumption DEF Tick
<1>6. CASE \E c \in Chips : OpenOrClose(c)
  BY <1>6 DEF OpenOrClose
<1>7. CASE \E l \in Leases : OwnerDies(l)
  BY <1>7 DEF OwnerDies
<1> QED BY <1>1, <1>2, <1>3, <1>4, <1>5, <1>6, <1>7 DEF Environment

LEMMA TypeNext == TypeInv /\ [Next]_vars => TypeInv'
<1> SUFFICES ASSUME TypeInv, [Next]_vars PROVE TypeInv'
  OBVIOUS
<1>1. CASE UNCHANGED vars
  BY <1>1 DEF vars, TypeInv, LocalsOK, LocalOK, NeedsLease, TypeOK, GateTypeOK, gateVars, locals, envVars, history, leaseVars
<1>2. CASE Next
  BY <1>2, TypeStart, TypeMutexStep, TypeReconcileStep, TypeClaimStep, TypeReleaseStep,
     TypeRenewStep, TypeOther DEF Next, Step
<1> QED BY <1>1, <1>2

\* Every variable keeps its type under every command, failure and crash.
THEOREM TypeCorrect == Spec => []TypeOK
<1>1. TypeInv => TypeOK
  BY DEF TypeInv
<1> QED BY <1>1, TypeInit, TypeNext, PTL DEF Spec

-----------------------------------------------------------------------------
(* The mutex, for every command, renew included: a process inside           *)
(* critical_section owns the directory as long as nobody takes it for stale. *)

\* Which commands reach the labels that exist inside and outside the mutex.
CommandAt(p) ==
    /\ pc[p] \in {"scan", "read"} => Claiming(p) \/ cmd[p] = "reconcile"
    /\ pc[p] \in {"rescan", "reread", "choose", "dirty"} => Claiming(p)
    /\ pc[p] \in {"claim", "write", "grant"} => Claiming(p) \/ cmd[p] = "adopt"

MutexInv == TypeInv /\ MutexHeld /\ \A p \in Procs : CommandAt(p)

\* A process changes its own locals only.
Elsewhere(p) == \A q \in Procs \ {p} :
    /\ pc'[q] = pc[q] /\ cmd'[q] = cmd[q] /\ cur'[q] = cur[q]
    /\ todo'[q] = todo[q] /\ item'[q] = item[q]

\* What a step may do with the mutex, given that its holder is alone inside.
MutexUse(p) ==
    \/ mutex' = mutex /\ (InCS(p)' => InCS(p))
    \/ mutex' = None /\ InCS(p) /\ ~InCS(p)'
    \/ mutex = None /\ mutex' = p
    \/ mutex' = (IF mutex = p THEN Orphan ELSE mutex) /\ ~InCS(p)'

\* A command that ends where it stands.
LEMMA FinishIsOut ==
    ASSUME TypeInv, NEW p \in Procs, Finish(p)
    PROVE  Elsewhere(p) /\ ~InCS(p)' /\ CommandAt(p)'
  BY DEF Finish, Goto, TypeInv, TypeOK, Elsewhere, InCS, CSLabels, MixedLabels, CommandAt

\* Every step enters and leaves critical_section by the mutex.
LEMMA StepsUseTheMutex ==
    ASSUME MutexInv, NEW p \in Procs, Start(p) \/ Step(p) \/ GiveUp(p) \/ Fail(p) \/ Crash(p)
    PROVE  Elsewhere(p) /\ MutexUse(p) /\ CommandAt(p)'
<1> USE DEF MutexInv, TypeInv, TypeOK, LocalsOK, LocalOK
<1>1. CASE Start(p)
  <2>1. ASSUME NEW c, NEW label, NEW l, Begin(p, c, label, l)
        PROVE  /\ mutex' = mutex /\ item' = item /\ pc'[p] = label /\ cmd'[p] = c
               /\ \A q \in Procs \ {p} : pc'[q] = pc[q] /\ cmd'[q] = cmd[q] /\ cur'[q] = cur[q]
    BY <2>1 DEF Begin, Goto
  <2>2. \A q \in Procs \ {p} : todo'[q] = todo[q]
    BY <1>1 DEF Start, StartAcquire, StartReconcile, StartRelease, StartRenew, StartAdopt
  <2>3. Elsewhere(p) /\ mutex' = mutex
    BY <1>1, <2>1, <2>2 DEF Start, StartAcquire, StartReconcile, StartRelease, StartRenew, StartAdopt, Elsewhere
  <2>4. \/ pc'[p] \in {"enter", "fds", "rewrite"}
        \/ pc'[p] = "scan" /\ cmd'[p] = "reconcile"
        \/ pc'[p] = "claim" /\ cmd'[p] = "adopt"
    BY <1>1, <2>1 DEF Start, StartAcquire, StartReconcile, StartRelease, StartRenew, StartAdopt
  <2> QED BY <2>3, <2>4 DEF MutexUse, CommandAt, Claiming, InCS, CSLabels, MixedLabels
<1>2. CASE Enter(p) \/ Pause(p)
  BY <1>2 DEF Enter, Pause, HasTheBox, Goto, locals,
       Elsewhere, MutexUse, CommandAt, Claiming, InCS, CSLabels, MixedLabels
<1>3. CASE \/ Exit(p) \/ ReconcileDone(p) \/ AdoptLost(p) \/ AdoptRecord(p) \/ FdsOpen(p)
           \/ NothingToGiveBack(p) \/ ReplaceDone(p) \/ GiveUp(p) \/ Fail(p) \/ Crash(p)
  <2>1. Finish(p) /\ Elsewhere(p) /\ ~InCS(p)' /\ CommandAt(p)'
    BY <1>3, FinishIsOut DEF Exit, ReconcileDone, AdoptLost, AdoptRecord, FdsOpen, NothingToGiveBack, ReplaceDone,
         GiveUp, Fail, Crash
  <2>2. MutexUse(p)
    BY <1>3, <2>1 DEF Exit, ReconcileDone, AdoptLost, AdoptRecord, FdsOpen, NothingToGiveBack, ReplaceDone,
         GiveUp, Fail, Crash, MutexUse, InCS, CSLabels
  <2> QED BY <2>1, <2>2
<1>4. CASE ReconcileStep(p) /\ ~ReconcileDone(p)
  BY <1>4 DEF ReconcileStep, ScanFds, JudgeStale, JudgeFree, Drop, Spare, Unlink, Rmdir, Forget, DropsDone,
       Goto, locals, Elsewhere, MutexUse, CommandAt, Claiming, InCS, CSLabels, MixedLabels
<1>5. CASE ClaimStep(p) /\ ~AdoptLost(p) /\ ~AdoptRecord(p)
  BY <1>5 DEF ClaimStep, Choose, Refuse, ClaimWon, ClaimLost, WriteLock, AdoptLock, PutItem, Dirty, Grant,
       Goto, locals, Elsewhere, MutexUse, CommandAt, Claiming, InCS, CSLabels, MixedLabels
<1>6. CASE ReleaseStep(p) /\ ~FdsOpen(p) /\ ~NothingToGiveBack(p)
  BY <1>6 DEF ReleaseStep, FdsClosed, Check, Reset, Recheck, Mark, Delete, Refresh, Rerecord, MarkAll, GiveBack,
       Goto, locals, Elsewhere, MutexUse, CommandAt, Claiming, InCS, CSLabels, MixedLabels
<1>7. CASE RenewStep(p) /\ ~ReplaceDone(p)
  BY <1>7 DEF RenewStep, Rewrite, Replace, NotReplaced,
       Goto, locals, Elsewhere, MutexUse, CommandAt, Claiming, InCS, CSLabels, MixedLabels
<1> QED BY <1>1, <1>2, <1>3, <1>4, <1>5, <1>6, <1>7 DEF Step, MutexStep

LEMMA MutexNext == "overrun" \notin Happenings /\ MutexInv /\ [Next]_vars => MutexInv'
<1> SUFFICES ASSUME "overrun" \notin Happenings, MutexInv, [Next]_vars PROVE MutexInv'
  OBVIOUS
<1>1. TypeInv'
  BY TypeNext DEF MutexInv
<1>2. ASSUME NEW p \in Procs, Start(p) \/ Step(p) \/ GiveUp(p) \/ Fail(p) \/ Crash(p)
      PROVE  MutexInv'
  <2>1. Elsewhere(p) /\ MutexUse(p) /\ CommandAt(p)'
    BY <1>2, StepsUseTheMutex
  <2>2. \A q \in Procs \ {p} : CommandAt(q)'
    BY <2>1 DEF MutexInv, Elsewhere, CommandAt, Claiming
  <2>3. \A q \in Procs \ {p} : InCS(q)' => InCS(q) /\ mutex = q
    BY <2>1 DEF MutexInv, MutexHeld, Elsewhere, InCS
  <2>4. InCS(p) => mutex = p
    BY DEF MutexInv, MutexHeld
  <2>5. MutexHeld'
    BY <2>1, <2>3, <2>4, LeasesAssumption DEF MutexHeld, MutexUse
  <2> QED BY <1>1, <2>1, <2>2, <2>5 DEF MutexInv
<1>3. CASE Environment \/ UNCHANGED vars
  <2>1. UNCHANGED <<pc, locals>> /\ (mutex' = mutex \/ mutex \notin Procs)
    BY <1>3, LeasesAssumption DEF Environment, ClearStaleMutex, Tick, OpenOrClose, OwnerDies, vars
  <2> QED BY <1>1, <2>1 DEF MutexInv, MutexHeld, InCS, CommandAt, Claiming, locals
<1> QED BY <1>2, <1>3 DEF Next

\* critical_section excludes, whatever crashes, times out or fails, renew or not, as long
\* as no live process's directory is taken for a stale one (gatekeeper.py
\* critical_section).
THEOREM MutexIsExclusive ==
    ASSUME "overrun" \notin Happenings
    PROVE  Spec => []MutexHeld
<1>1. Init => MutexInv
  BY TypeInit DEF Init, MutexInv, MutexHeld, InCS, CSLabels, MixedLabels, CommandAt
<1>2. MutexInv => MutexHeld
  BY DEF MutexInv
<1> QED BY <1>1, <1>2, MutexNext, PTL DEF Spec

-----------------------------------------------------------------------------
(* Clean markers, when commands run one after the other: a command that      *)
(* remembers a reset is past it, and nobody was let onto its units since.    *)

AfterReset == {"reset", "reenter", "recheck", "mark", "drop", "unlink", "rmdir", "forget",
               "delete", "exit", "refresh", "rerecord", "markall", "giveback"}

CleanOK(p) ==
    /\ cmd[p] # "adopt"
    /\ pc[p] = "grant" => clean \cap UnitsOf(p) = {}
    /\ p \in resetOk => /\ pc[p] \in AfterReset
                        /\ cur[p] \in Leases
                        /\ UnitsOf(p) \cap unreset = {}

CleanInv == TypeInv /\ CleanIsReset /\ \A p \in Procs : CleanOK(p)

\* The hypotheses: one command at a time, and no adopt, which lets work in over units
\* that may be marked clean.
Sequential == (\A p, q \in Procs : p = q) /\ "adopt" \notin Commands

LEMMA CleanStep ==
    ASSUME CleanInv, TypeInv', Sequential, NEW p \in Procs,
           Start(p) \/ Step(p) \/ GiveUp(p) \/ Fail(p) \/ Crash(p)
    PROVE  CleanInv'
<1> USE DEF CleanInv, TypeInv, TypeOK, GateTypeOK, LocalsOK, LocalOK
<1> SUFFICES CleanIsReset' /\ CleanOK(p)'
  BY DEF Sequential
<1>n. NoLease \notin Leases
  BY GateAssumption
<1>1. CASE Start(p)
  <2>1. ASSUME NEW c, NEW label, NEW l, Begin(p, c, label, l)
        PROVE  /\ UNCHANGED <<clean, resetOk, unreset>> /\ pc[p] = "idle" /\ pc'[p] = label
               /\ cmd'[p] = c /\ c # "adopt"
    BY <2>1 DEF Begin, Goto, Sequential, gateVars, history
  <2>2. PICK c, label, l : Begin(p, c, label, l) /\ label # "grant"
    <3>1. CASE StartAcquire(p)
      BY <3>1 DEF StartAcquire
    <3>2. CASE StartReconcile(p)
      BY <3>2 DEF StartReconcile
    <3>3. CASE StartRelease(p)
      BY <3>3 DEF StartRelease
    <3>4. CASE StartRenew(p)
      BY <3>4 DEF StartRenew
    <3>5. CASE StartAdopt(p)
      BY <3>5 DEF StartAdopt
    <3> QED BY <1>1, <3>1, <3>2, <3>3, <3>4, <3>5 DEF Start
  <2>3. /\ UNCHANGED <<clean, resetOk, unreset>> /\ pc[p] = "idle"
        /\ pc'[p] # "grant" /\ cmd'[p] # "adopt"
    BY <2>1, <2>2
  <2> QED BY <2>3 DEF CleanIsReset, CleanOK, AfterReset
<1>2. CASE \/ Exit(p) \/ ReconcileDone(p) \/ FdsOpen(p) \/ NothingToGiveBack(p)
           \/ ReplaceDone(p) \/ GiveUp(p) \/ Fail(p) \/ Crash(p) \/ AdoptLost(p)
  <2>1. Finish(p) /\ UNCHANGED <<clean, unreset>>
    BY <1>2 DEF Exit, ReconcileDone, FdsOpen, NothingToGiveBack, ReplaceDone, GiveUp, Fail, Crash, AdoptLost,
       gateVars, history
  <2>2. pc'[p] = "idle" /\ cmd'[p] = "none" /\ p \notin resetOk'
    BY <2>1 DEF Finish, Goto
  <2> QED BY <2>1, <2>2 DEF CleanIsReset, CleanOK
<1> USE DEF CleanIsReset, CleanOK, AfterReset, UnitsOf, Goto, gateVars, locals, leaseVars, history
<1>3. CASE Enter(p)
  BY <1>3 DEF Enter
<1>4. CASE Pause(p)
  BY <1>4 DEF Pause
<1>5. CASE ScanFds(p)
  BY <1>5 DEF ScanFds
<1>6. CASE JudgeStale(p)
  BY <1>6 DEF JudgeStale
<1>7. CASE JudgeFree(p)
  BY <1>7 DEF JudgeFree
<1>8. CASE Drop(p)
  BY <1>8 DEF Drop
<1>9. CASE Spare(p)
  BY <1>9 DEF Spare
<1>10. CASE Unlink(p)
  BY <1>10 DEF Unlink, UnlinkCopy
<1>11. CASE Rmdir(p)
  BY <1>11 DEF Rmdir, RemoveLock
<1>12. CASE Forget(p)
  BY <1>12 DEF Forget, DeleteRecord
<1>13. CASE DropsDone(p)
  BY <1>n, <1>13 DEF DropsDone, Claiming, Reaping
<1>14. CASE Choose(p)
  BY <1>14 DEF Choose
<1>15. CASE Refuse(p)
  BY <1>15 DEF Refuse
<1>16. CASE ClaimWon(p)
  BY <1>16 DEF ClaimWon, MakeLock
<1>17. CASE ClaimLost(p)
  BY <1>17 DEF ClaimLost
<1>18. CASE WriteLock(p)
  BY <1>18 DEF WriteLock, PutItem, PutCopy
<1>19. CASE AdoptLock(p) \/ AdoptRecord(p)
  BY <1>19 DEF AdoptLock, AdoptRecord
<1>20. CASE Dirty(p)
  BY <1>20 DEF Dirty, ClearClean
<1>21. CASE Grant(p)
  BY <1>21 DEF Grant, WriteRecord
<1>22. CASE FdsClosed(p)
  BY <1>22 DEF FdsClosed
<1>23. CASE Check(p)
  BY <1>23 DEF Check
<1>24. CASE Reset(p)
  BY <1>24 DEF Reset, NeedsLease
<1>25. CASE Recheck(p)
  BY <1>25 DEF Recheck
<1>26. CASE Mark(p)
  BY <1>26 DEF Mark, MarkClean
<1>27. CASE Delete(p)
  BY <1>27 DEF Delete, DeleteRecord
<1>28. CASE Refresh(p)
  BY <1>28 DEF Refresh
<1>29. CASE Rerecord(p)
  BY <1>29 DEF Rerecord, WriteRecord
<1>30. CASE MarkAll(p)
  BY <1>30 DEF MarkAll, MarkClean
<1>31. CASE GiveBack(p)
  BY <1>31 DEF GiveBack
<1>32. CASE Rewrite(p)
  BY <1>32 DEF Rewrite, WriteRecord
<1>33. CASE Replace(p)
  BY <1>33 DEF Replace, PutCopy
<1>34. CASE NotReplaced(p)
  BY <1>34 DEF NotReplaced
<1>35. CASE MutexStep(p) \/ ReconcileStep(p) \/ RenewStep(p)
  BY <1>2, <1>3, <1>4, <1>5, <1>6, <1>7, <1>8, <1>9, <1>10, <1>11, <1>12, <1>13, <1>32, <1>33, <1>34, <1>35
     DEF MutexStep, ReconcileStep, RenewStep
<1>36. CASE ClaimStep(p)
  BY <1>2, <1>14, <1>15, <1>16, <1>17, <1>18, <1>19, <1>20, <1>21, <1>36 DEF ClaimStep
<1>37. CASE ReleaseStep(p)
  BY <1>2, <1>22, <1>23, <1>24, <1>25, <1>26, <1>27, <1>28, <1>29, <1>30, <1>31, <1>37 DEF ReleaseStep
<1> QED BY <1>1, <1>2, <1>35, <1>36, <1>37 DEF Step

LEMMA CleanNext == Sequential /\ CleanInv /\ [Next]_vars => CleanInv'
<1> SUFFICES ASSUME Sequential, CleanInv, [Next]_vars PROVE CleanInv'
  OBVIOUS
<1>1. TypeInv'
  BY TypeNext DEF CleanInv
<1>2. CASE Environment \/ UNCHANGED vars
  <2>1. UNCHANGED <<gateVars, pc, locals, leaseVars, history>>
    BY <1>2 DEF Environment, ClearStaleMutex, Tick, OpenOrClose, OwnerDies, vars
  <2> QED BY <1>1, <2>1 DEF CleanInv, CleanIsReset, CleanOK, UnitsOf, gateVars, locals, leaseVars, history
<1> QED BY <1>1, <1>2, CleanStep DEF Next

\* A unit marked clean has been reset since a tenant was last let onto it, wherever the
\* commands before were killed or failed, when they run one at a time (keymaster.py
\* release, mark_clean).  Among concurrent commands it is not so: a unit leased anew
\* while a release or a reset-all still resets it is marked clean all the same.
THEOREM CleanIsResetTheorem ==
    ASSUME Sequential
    PROVE  Spec => []CleanIsReset
<1>1. Init => CleanInv
  BY TypeInit DEF Init, GateInit, CleanInv, CleanIsReset, CleanOK
<1>2. CleanInv => CleanIsReset
  BY DEF CleanInv
<1> QED BY <1>1, <1>2, CleanNext, PTL DEF Spec

=============================================================================
