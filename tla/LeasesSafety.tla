---------------------------- MODULE LeasesSafety ----------------------------
(***************************************************************************)
(* Why no two leases hold a unit, for every set of processes, units, chips *)
(* and leases, whatever crashes, as long as                                *)
(*   - no live process's mutex directory is taken for a stale one         *)
(*     ("overrun": see ClearStaleMutex), and                               *)
(*   - nobody runs renew, which rewrites lease copies without the mutex.   *)
(***************************************************************************)
EXTENDS LeasesProofs

\* The two hypotheses of the theorems below.
Disciplined == "overrun" \notin Happenings /\ "renew" \notin Commands

NoRenew == \A p \in Procs : cmd[p] # "renew" /\ pc[p] \notin {"rewrite", "replace"}

\* A process between drawing a lease id and being granted it.
Granting(p) == \/ pc[p] \in {"claim", "write", "dirty"}
               \/ pc[p] = "grant" /\ cmd[p] # "adopt"

\* It has locked exactly the units it no longer has to claim; adopt has none yet.
ClaimOK(p) ==
    Granting(p) =>
        /\ UnitsOf(p) # {}
        /\ cur[p] \notin granted
        /\ todo[p] \subseteq Pairs(UnitsOf(p), cur[p])
        /\ pc[p] \in {"dirty", "grant"} => todo[p] = {}
        /\ \A u \in UnitsOf(p) : \/ <<u, cur[p]>> \in todo[p]
                                 \/ cmd[p] # "adopt" /\ copy[u] = cur[p]

\* The directory it has just made is there, and empty.
WriterOK(p) == pc[p] = "write" => /\ item[p] \in todo[p]
                                  /\ item[p][1] \in lockdir
                                  /\ copy[item[p][1]] = NoLease

\* release_unit: what was checked is still so at the unlink, and at the rmdir
\* the directory is empty.
DropperOK(p) == /\ pc[p] = "unlink" => copy[item[p][1]] = item[p][2]
                /\ pc[p] = "rmdir" => /\ item[p][1] \in lockdir
                                      /\ copy[item[p][1]] = NoLease

ProcessesOK == \A p \in Procs : CommandAt(p) /\ ClaimOK(p) /\ WriterOK(p) /\ DropperOK(p)

\* Nobody writes into a directory that another process writes into, or removes.
WritersApart == \A p, q \in Procs :
    p # q /\ pc[p] = "write" /\ pc[q] \in {"write", "rmdir"} => item[p][1] # item[q][1]

GrantsApart == \A p, q \in Procs :
    p # q /\ Granting(p) /\ Granting(q) => cur[p] # cur[q]

\* Lease ids are drawn once.
IdsOK == /\ records \subseteq used
         /\ granted \subseteq used
         /\ \A p \in Procs : cur[p] \in used \cup {NoLease}
         /\ \A t \in tenure : t[2] \in granted

LocksOK == \A u \in Units : copy[u] # NoLease => u \in lockdir

SafetyInv == /\ TypeInv /\ NoRenew /\ MutexHeld /\ ProcessesOK /\ WritersApart
             /\ GrantsApart /\ IdsOK /\ LocksOK /\ TenureIsLocked

\* A step that neither claims nor removes, and leaves every lock as it is.
Quiet(p) ==
    /\ UNCHANGED <<lockdir, copy, units, used, granted, tenure>>
    /\ records' \subseteq used
    /\ CommandAt(p)'
    /\ ~Granting(p)'
    /\ pc'[p] \notin {"unlink", "rmdir", "rewrite", "replace"}
    /\ cmd'[p] # "renew"
    /\ cur'[p] \in used \cup {NoLease}

-----------------------------------------------------------------------------
\* The initial files and processes satisfy the invariant.
LEMMA SafetyInit == Init => SafetyInv
<1> SUFFICES ASSUME Init PROVE SafetyInv
  OBVIOUS
<1>1. TypeInv
  BY TypeInit
<1>2. \A p \in Procs : ~InCS(p) /\ CommandAt(p) /\ ClaimOK(p) /\ WriterOK(p) /\ DropperOK(p)
  BY DEF Init, InCS, CSLabels, MixedLabels, CommandAt, ClaimOK, Granting, WriterOK, DropperOK
<1> QED BY <1>1, <1>2 DEF Init, GateInit, SafetyInv, NoRenew, MutexHeld, ProcessesOK, WritersApart,
       GrantsApart, Granting, IdsOK, LocksOK, TenureIsLocked

\* The mutex keeps its holder alone as long as each step uses it properly.
LEMMA MutexKept ==
    ASSUME SafetyInv, NEW p \in Procs, Elsewhere(p), MutexUse(p)
    PROVE  MutexHeld'
<1>1. \A q \in Procs \ {p} : InCS(q)' => InCS(q)
  BY DEF Elsewhere, InCS
<1>2. \A q \in Procs \ {p} : InCS(q) => mutex = q
  BY DEF SafetyInv, MutexHeld
<1>3. InCS(p) => mutex = p
  BY DEF SafetyInv, MutexHeld
<1> QED BY <1>1, <1>2, <1>3, LeasesAssumption DEF MutexHeld, MutexUse

\* A quiet step keeps the rest.
LEMMA QuietKeeps ==
    ASSUME SafetyInv, TypeInv', NEW p \in Procs, Elsewhere(p), MutexUse(p), Quiet(p)
    PROVE  SafetyInv'
<1> USE DEF SafetyInv, Elsewhere, Quiet
<1>1. MutexHeld'
  BY MutexKept
<1>2. NoRenew'
  BY DEF NoRenew
<1>3. \A q \in Procs \ {p} : Granting(q)' => Granting(q)
  BY DEF Granting
<1>4. \A q \in Procs \ {p} : CommandAt(q)' /\ ClaimOK(q)' /\ WriterOK(q)' /\ DropperOK(q)'
  BY <1>3 DEF ProcessesOK, CommandAt, Claiming, ClaimOK, WriterOK, DropperOK, UnitsOf, Pairs
<1>5. CommandAt(p)' /\ ClaimOK(p)' /\ WriterOK(p)' /\ DropperOK(p)'
  BY DEF ClaimOK, WriterOK, DropperOK, Granting
<1>6. ProcessesOK'
  BY <1>4, <1>5 DEF ProcessesOK
<1>7. WritersApart'
  BY DEF WritersApart, Granting
<1>8. GrantsApart'
  BY <1>3 DEF GrantsApart
<1>9. IdsOK'
  BY DEF IdsOK
<1>10. LocksOK' /\ TenureIsLocked'
  BY DEF LocksOK, TenureIsLocked
<1> QED BY <1>1, <1>2, <1>6, <1>7, <1>8, <1>9, <1>10

\* The steps that neither claim nor remove: the ones of critical_section and
\* reconcile,
LEMMA QuietGate ==
    ASSUME SafetyInv, Disciplined, NEW p \in Procs,
           \/ StartAcquire(p) \/ StartReconcile(p) \/ StartRelease(p) \/ Enter(p)
           \/ Exit(p) \/ Pause(p) \/ ScanFds(p) \/ JudgeStale(p)
           \/ JudgeFree(p) \/ ReconcileDone(p) \/ Spare(p) \/ Forget(p)
           \/ DropsDone(p)
    PROVE  Elsewhere(p) /\ MutexUse(p) /\ Quiet(p)
<1> USE DEF SafetyInv, TypeInv, TypeOK, GateTypeOK, ProcessesOK, CommandAt, Claiming, Granting, NoRenew, IdsOK,
            Elsewhere, MutexUse, Quiet, InCS, CSLabels, MixedLabels, Goto, gateVars, locals, leaseVars, history
<1>1. CASE StartAcquire(p)
  BY <1>1, GateAssumption DEF StartAcquire, Begin
<1>2. CASE StartReconcile(p)
  BY <1>2, GateAssumption DEF StartReconcile, Begin
<1>3. CASE StartRelease(p)
  BY <1>3, GateAssumption DEF StartRelease, Begin
<1>4. CASE Enter(p)
  BY <1>4, GateAssumption DEF Enter
<1>5. CASE Exit(p)
  BY <1>5, GateAssumption DEF Exit, Finish
<1>6. CASE Pause(p)
  BY <1>6, GateAssumption DEF Pause, HasTheBox
<1>7. CASE ScanFds(p)
  BY <1>7, GateAssumption DEF ScanFds
<1>8. CASE JudgeStale(p)
  BY <1>8, GateAssumption DEF JudgeStale
<1>9. CASE JudgeFree(p)
  BY <1>9, GateAssumption DEF JudgeFree
<1>10. CASE ReconcileDone(p)
  BY <1>10, GateAssumption DEF ReconcileDone, Finish
<1>11. CASE Spare(p)
  BY <1>11, GateAssumption DEF Spare
<1>12. CASE Forget(p)
  BY <1>12, GateAssumption DEF Forget, DeleteRecord
<1>13. CASE DropsDone(p)
  BY <1>13, GateAssumption DEF DropsDone, Reaping
<1> QED BY <1>1, <1>2, <1>3, <1>4, <1>5, <1>6, <1>7, <1>8, <1>9, <1>10, <1>11, <1>12, <1>13

\* and the ones of the commands, whether they succeed, fail or crash.
LEMMA QuietCommand ==
    ASSUME SafetyInv, Disciplined, NEW p \in Procs,
           \/ Refuse(p) \/ ClaimLost(p) \/ AdoptLost(p) \/ AdoptRecord(p)
           \/ FdsClosed(p) \/ FdsOpen(p) \/ Check(p) \/ Reset(p)
           \/ Recheck(p) \/ Mark(p) \/ Delete(p) \/ Refresh(p) \/ Rerecord(p) \/ MarkAll(p)
           \/ GiveBack(p) \/ NothingToGiveBack(p) \/ GiveUp(p) \/ Fail(p)
           \/ Crash(p)
    PROVE  Elsewhere(p) /\ MutexUse(p) /\ Quiet(p)
<1> USE DEF SafetyInv, TypeInv, TypeOK, GateTypeOK, ProcessesOK, CommandAt, Claiming, Granting, NoRenew, IdsOK,
            Elsewhere, MutexUse, Quiet, InCS, CSLabels, MixedLabels, Goto, gateVars, locals, leaseVars, history
<1>1. CASE Refuse(p)
  BY <1>1, GateAssumption DEF Refuse
<1>2. CASE ClaimLost(p)
  BY <1>2, GateAssumption DEF ClaimLost
<1>3. CASE AdoptLost(p)
  BY <1>3, GateAssumption DEF AdoptLost, Finish
<1>4. CASE AdoptRecord(p)
  BY <1>4, GateAssumption DEF AdoptRecord, WriteRecord, Finish, LocalsOK, LocalOK, NeedsLease
<1>5. CASE FdsClosed(p)
  BY <1>5, GateAssumption DEF FdsClosed
<1>6. CASE FdsOpen(p)
  BY <1>6, GateAssumption DEF FdsOpen, Finish
<1>7. CASE Check(p)
  BY <1>7, GateAssumption DEF Check
<1>8. CASE Reset(p)
  BY <1>8, GateAssumption DEF Reset
<1>9. CASE Recheck(p)
  BY <1>9, GateAssumption DEF Recheck
<1>10. CASE Mark(p)
  BY <1>10, GateAssumption DEF Mark, MarkClean
<1>11. CASE Delete(p)
  BY <1>11, GateAssumption DEF Delete, DeleteRecord
<1>12. CASE MarkAll(p)
  BY <1>12, GateAssumption DEF MarkAll, MarkClean
<1>13. CASE GiveBack(p)
  BY <1>13, GateAssumption DEF GiveBack
<1>14. CASE NothingToGiveBack(p)
  BY <1>14, GateAssumption DEF NothingToGiveBack, Finish
<1>15. CASE GiveUp(p)
  BY <1>15, GateAssumption DEF GiveUp, Finish
<1>16. CASE Fail(p)
  BY <1>16, GateAssumption DEF Fail, Finish
<1>17. CASE Crash(p)
  BY <1>17, GateAssumption DEF Crash, Finish
<1>18. CASE Refresh(p)
  BY <1>18, GateAssumption DEF Refresh
<1>19. CASE Rerecord(p)
  BY <1>19, GateAssumption DEF Rerecord, WriteRecord, LocalsOK, LocalOK, NeedsLease
<1> QED BY <1>1, <1>2, <1>3, <1>4, <1>5, <1>6, <1>7, <1>8, <1>9, <1>10, <1>11, <1>12, <1>13, <1>14, <1>15, <1>16, <1>17, <1>18, <1>19

-----------------------------------------------------------------------------
\* A process that is being granted a lease has one; a pair is a unit and a lease.
LEMMA Ids ==
    ASSUME SafetyInv
    PROVE  /\ \A q \in Procs : Granting(q) => cur[q] \in Leases /\ cur[q] \in used
           /\ \A q \in Procs : pc[q] \in {"write", "unlink", "rmdir"} =>
                    item[q] \in Units \X Leases /\ item[q][1] \in Units /\ item[q][2] \in Leases
           /\ NoLease \notin Leases
<1> USE GateAssumption DEF SafetyInv, TypeInv
<1>1. \A q \in Procs : Granting(q) => cur[q] \in Leases
  BY DEF Granting, LocalsOK, LocalOK, NeedsLease
<1>2. \A q \in Procs : Granting(q) => cur[q] \in used
  BY <1>1 DEF IdsOK
<1>3. \A q \in Procs : pc[q] \in {"write", "unlink", "rmdir"} => item[q] \in Units \X Leases
  BY DEF LocalsOK, LocalOK
<1> QED BY <1>1, <1>2, <1>3

\* While a process is inside the mutex, the only claims in progress are adopt's.
LEMMA Alone ==
    ASSUME SafetyInv, NEW p \in Procs, InCS(p)
    PROVE  \A q \in Procs \ {p} : ~InCS(q) /\ (Granting(q) => cmd[q] = "adopt")
<1>1. \A q \in Procs \ {p} : ~InCS(q)
  BY DEF SafetyInv, MutexHeld
<1>2. \A q \in Procs : Granting(q) => InCS(q) \/ cmd[q] = "adopt"
  BY DEF SafetyInv, ProcessesOK, CommandAt, Claiming, Granting, InCS, CSLabels, MixedLabels
<1> QED BY <1>1, <1>2

\* adopt draws a fresh lease for its unit.
LEMMA SafeStartAdopt ==
    ASSUME SafetyInv, TypeInv', Disciplined, NEW p \in Procs, StartAdopt(p)
    PROVE  SafetyInv'
<1> USE Ids DEF SafetyInv, TypeInv, TypeOK, GateTypeOK, gateVars, locals, leaseVars, history, Goto,
            StartAdopt, Begin
<1>1. Elsewhere(p) /\ MutexUse(p)
  BY DEF Elsewhere, MutexUse, ProcessesOK, CommandAt, Claiming, InCS, CSLabels, MixedLabels
<1>2. MutexHeld'
  BY <1>1, MutexKept
<1>3. NoRenew'
  BY DEF NoRenew, Disciplined
<1>b. PICK u \in Units, l \in Leases \ used :
            /\ pc' = [pc EXCEPT ![p] = "claim"] /\ cmd' = [cmd EXCEPT ![p] = "adopt"]
            /\ cur' = [cur EXCEPT ![p] = l] /\ todo' = [todo EXCEPT ![p] = {<<u, l>>}]
            /\ units' = [units EXCEPT ![l] = {u}] /\ used' = used \cup {l}
  OBVIOUS
<1>c. \A q \in Procs \ {p} : Granting(q)' => /\ Granting(q) /\ cur[q] # l
                                               /\ UnitsOf(q)' = UnitsOf(q)
  BY <1>1, <1>b DEF Elsewhere, Granting, UnitsOf
<1>4. \A q \in Procs \ {p} : CommandAt(q)' /\ ClaimOK(q)'
  BY <1>1, <1>c DEF Elsewhere, ProcessesOK, CommandAt, Claiming, ClaimOK, Pairs, Granting
<1>5. \A q \in Procs \ {p} : WriterOK(q)' /\ DropperOK(q)'
  BY DEF ProcessesOK, WritersApart, WriterOK, DropperOK
<1>6. CommandAt(p)' /\ ClaimOK(p)'
  BY <1>b DEF ProcessesOK, CommandAt, Claiming, ClaimOK, Granting, UnitsOf, Pairs, IdsOK
<1>7. WriterOK(p)' /\ DropperOK(p)'
  BY DEF ProcessesOK, WriterOK, DropperOK
<1>8. ProcessesOK'
  BY <1>4, <1>5, <1>6, <1>7 DEF ProcessesOK
<1>9. WritersApart'
  BY DEF WritersApart, ProcessesOK, WriterOK, DropperOK
<1>10. GrantsApart'
  BY <1>1, <1>b, <1>c DEF GrantsApart, Elsewhere, Granting
<1>11. IdsOK'
  BY <1>b DEF IdsOK
<1>12. LocksOK'
  BY DEF LocksOK, ProcessesOK, WriterOK, DropperOK
<1>13. TenureIsLocked'
  BY DEF TenureIsLocked, ProcessesOK, WriterOK, DropperOK, ClaimOK, Granting, Pairs, UnitsOf
<1> QED BY <1>2, <1>3, <1>8, <1>9, <1>10, <1>11, <1>12, <1>13

\* acquire draws a fresh lease for the units it chose.
LEMMA SafeChoose ==
    ASSUME SafetyInv, TypeInv', Disciplined, NEW p \in Procs, Choose(p)
    PROVE  SafetyInv'
<1> USE Ids DEF SafetyInv, TypeInv, TypeOK, GateTypeOK, gateVars, locals, leaseVars, history, Goto,
            Choose
<1>1. Elsewhere(p) /\ MutexUse(p)
  BY DEF Elsewhere, MutexUse, ProcessesOK, CommandAt, Claiming, InCS, CSLabels, MixedLabels
<1>2. MutexHeld'
  BY <1>1, MutexKept
<1>3. NoRenew'
  BY DEF NoRenew, Disciplined
<1>b. PICK l \in Leases \ used, S \in (SUBSET free[p]) \ {{}} :
            /\ cur' = [cur EXCEPT ![p] = l] /\ todo' = [todo EXCEPT ![p] = Pairs(S, l)]
            /\ units' = [units EXCEPT ![l] = S] /\ used' = used \cup {l}
  OBVIOUS
<1>c. \A q \in Procs \ {p} : Granting(q)' => /\ Granting(q) /\ cur[q] # l
                                               /\ UnitsOf(q)' = UnitsOf(q)
  BY <1>1, <1>b DEF Elsewhere, Granting, UnitsOf
<1>4. \A q \in Procs \ {p} : CommandAt(q)' /\ ClaimOK(q)'
  BY <1>1, <1>c DEF Elsewhere, ProcessesOK, CommandAt, Claiming, ClaimOK, Pairs, Granting
<1>5. \A q \in Procs \ {p} : WriterOK(q)' /\ DropperOK(q)'
  BY DEF ProcessesOK, WritersApart, WriterOK, DropperOK
<1>6. CommandAt(p)' /\ ClaimOK(p)'
  <2>1. Claiming(p)
    BY DEF ProcessesOK, CommandAt
  <2>2. /\ pc'[p] = "claim" /\ cmd'[p] = cmd[p] /\ cur'[p] = l
        /\ todo'[p] = S \X {l} /\ UnitsOf(p)' = S
    BY <1>b DEF UnitsOf, Pairs
  <2>3. S # {} /\ l \notin granted
    BY <1>b DEF IdsOK
  <2> QED BY <2>1, <2>2, <2>3 DEF CommandAt, Claiming, ClaimOK, Pairs
<1>7. WriterOK(p)' /\ DropperOK(p)'
  BY DEF ProcessesOK, WriterOK, DropperOK
<1>8. ProcessesOK'
  BY <1>4, <1>5, <1>6, <1>7 DEF ProcessesOK
<1>9. WritersApart'
  BY DEF WritersApart, ProcessesOK, WriterOK, DropperOK
<1>10. GrantsApart'
  BY <1>1, <1>b, <1>c DEF GrantsApart, Elsewhere, Granting
<1>11. IdsOK'
  BY <1>b DEF IdsOK
<1>12. LocksOK'
  BY DEF LocksOK, ProcessesOK, WriterOK, DropperOK
<1>13. TenureIsLocked'
  BY DEF TenureIsLocked, ProcessesOK, WriterOK, DropperOK, ClaimOK, Granting, Pairs, UnitsOf
<1> QED BY <1>2, <1>3, <1>8, <1>9, <1>10, <1>11, <1>12, <1>13

\* A claim makes a directory nobody else writes into or removes.
LEMMA SafeClaimWon ==
    ASSUME SafetyInv, TypeInv', Disciplined, NEW p \in Procs, ClaimWon(p)
    PROVE  SafetyInv'
<1> USE Ids DEF SafetyInv, TypeInv, TypeOK, GateTypeOK, gateVars, locals, leaseVars, history, Goto,
            ClaimWon, MakeLock
<1>1. Elsewhere(p) /\ MutexUse(p)
  BY DEF Elsewhere, MutexUse, ProcessesOK, CommandAt, Claiming, InCS, CSLabels, MixedLabels
<1>2. MutexHeld'
  BY <1>1, MutexKept
<1>3. NoRenew'
  BY DEF NoRenew, Disciplined
<1>4. \A q \in Procs \ {p} : CommandAt(q)' /\ ClaimOK(q)'
  BY DEF Elsewhere, ProcessesOK, CommandAt, Claiming, ClaimOK, Granting, UnitsOf, Pairs
<1>5. \A q \in Procs \ {p} : WriterOK(q)' /\ DropperOK(q)'
  BY DEF ProcessesOK, WritersApart, WriterOK, DropperOK
<1>6. CommandAt(p)' /\ ClaimOK(p)'
  BY DEF ProcessesOK, CommandAt, Claiming, ClaimOK, Granting, UnitsOf, Pairs
<1>7. WriterOK(p)' /\ DropperOK(p)'
  BY DEF ProcessesOK, WriterOK, DropperOK, LocksOK
<1>8. ProcessesOK'
  BY <1>4, <1>5, <1>6, <1>7 DEF ProcessesOK
<1>9. WritersApart'
  BY DEF WritersApart, ProcessesOK, WriterOK, DropperOK
<1>10. GrantsApart'
  BY DEF GrantsApart, Granting, ProcessesOK, CommandAt
<1>11. IdsOK'
  BY DEF IdsOK, ProcessesOK, WriterOK, ClaimOK, Granting, Pairs
<1>12. LocksOK'
  BY DEF LocksOK, ProcessesOK, WriterOK, DropperOK
<1>13. TenureIsLocked'
  BY DEF TenureIsLocked, ProcessesOK, WriterOK, DropperOK, ClaimOK, Granting, Pairs, UnitsOf
<1> QED BY <1>2, <1>3, <1>8, <1>9, <1>10, <1>11, <1>12, <1>13

\* A lock is written where there was none.
LEMMA SafeWriteLock ==
    ASSUME SafetyInv, TypeInv', Disciplined, NEW p \in Procs, WriteLock(p)
    PROVE  SafetyInv'
<1> USE Ids DEF SafetyInv, TypeInv, TypeOK, GateTypeOK, gateVars, locals, leaseVars, history, Goto,
            WriteLock, PutItem, PutCopy
<1>1. Elsewhere(p) /\ MutexUse(p)
  BY DEF Elsewhere, MutexUse, ProcessesOK, CommandAt, Claiming, InCS, CSLabels, MixedLabels
<1>2. MutexHeld'
  BY <1>1, MutexKept
<1>3. NoRenew'
  BY DEF NoRenew, Disciplined
<1>b. item[p] \in todo[p] /\ copy[item[p][1]] = NoLease /\ Granting(p)
  BY DEF ProcessesOK, WriterOK, Granting
<1>c. \A u \in Units : copy'[u] = IF u = item[p][1] THEN item[p][2] ELSE copy[u]
  OBVIOUS
<1>4. \A q \in Procs \ {p} : CommandAt(q)' /\ ClaimOK(q)'
  <2> SUFFICES ASSUME NEW q \in Procs \ {p} PROVE CommandAt(q)' /\ ClaimOK(q)'
    OBVIOUS
  <2>1. CommandAt(q) /\ ClaimOK(q)
    BY DEF ProcessesOK
  <2>2. CommandAt(q)'
    BY <2>1, <1>1 DEF Elsewhere, CommandAt, Claiming
  <2>3. ASSUME Granting(q)' PROVE UnitsOf(q)' = UnitsOf(q) /\ UnitsOf(q) \subseteq Units /\ Granting(q)
    BY <2>3, <1>1 DEF Elsewhere, UnitsOf, Granting
  <2>4. ASSUME Granting(q)', NEW u \in UnitsOf(q), copy[u] = cur[q] PROVE copy'[u] = cur[q]
    BY <2>3, <2>4, <1>b, <1>c
  <2>5. ClaimOK(q)'
    BY <2>1, <2>3, <2>4, <1>1 DEF ClaimOK, Elsewhere, Pairs, GrantsApart
  <2> QED BY <2>2, <2>5
<1>5. \A q \in Procs \ {p} : WriterOK(q)' /\ DropperOK(q)'
  <2> SUFFICES ASSUME NEW q \in Procs \ {p} PROVE WriterOK(q)' /\ DropperOK(q)'
    OBVIOUS
  <2>1. pc[q] \in {"write", "rmdir"} => item[q][1] # item[p][1]
    BY DEF WritersApart
  <2>2. pc[q] = "unlink" => item[q][1] # item[p][1]
    BY <1>b DEF ProcessesOK, DropperOK
  <2> QED BY <2>1, <2>2, <1>c, <1>1 DEF Elsewhere, ProcessesOK, WriterOK, DropperOK
<1>6. CommandAt(p)' /\ ClaimOK(p)'
  <2>1. CommandAt(p)'
    BY DEF ProcessesOK, CommandAt, Claiming
  <2>2. ClaimOK(p) /\ Granting(p) /\ cmd[p] # "adopt"
    BY <1>b DEF ProcessesOK
  <2>3. /\ UnitsOf(p)' = UnitsOf(p) /\ cur'[p] = cur[p] /\ granted' = granted
        /\ todo'[p] = todo[p] \ {item[p]} /\ UnitsOf(p) \subseteq Units
    BY <1>b DEF UnitsOf
  <2>4. item[p][2] = cur[p] /\ item[p][1] \in UnitsOf(p)
    BY <1>b, <2>2 DEF ClaimOK, Pairs
  <2>5. item[p] = <<item[p][1], item[p][2]>>
    OBVIOUS
  <2>6. pc'[p] \in {"dirty", "grant"} => todo'[p] = {}
    OBVIOUS
  <2>7. \A u \in UnitsOf(p) : <<u, cur[p]>> \in todo'[p] \/ copy'[u] = cur[p]
    BY <1>c, <2>2, <2>3, <2>4, <2>5 DEF ClaimOK
  <2>8. ClaimOK(p)'
    BY <2>2, <2>3, <2>6, <2>7 DEF ClaimOK, Pairs
  <2> QED BY <2>1, <2>8
<1>7. WriterOK(p)' /\ DropperOK(p)'
  BY DEF ProcessesOK, WriterOK, DropperOK
<1>8. ProcessesOK'
  BY <1>4, <1>5, <1>6, <1>7 DEF ProcessesOK
<1>9. WritersApart'
  BY DEF WritersApart, ProcessesOK, WriterOK, DropperOK
<1>10. GrantsApart'
  BY DEF GrantsApart, Granting, ProcessesOK, CommandAt
<1>11. IdsOK'
  BY DEF IdsOK, ProcessesOK, WriterOK, ClaimOK, Granting, Pairs
<1>12. LocksOK'
  BY DEF LocksOK, ProcessesOK, WriterOK, DropperOK
<1>13. TenureIsLocked'
  BY DEF TenureIsLocked, ProcessesOK, WriterOK, DropperOK, ClaimOK, Granting, Pairs, UnitsOf
<1> QED BY <1>2, <1>3, <1>8, <1>9, <1>10, <1>11, <1>12, <1>13

\* So is adopt's, which is its grant.
LEMMA SafeAdoptLock ==
    ASSUME SafetyInv, TypeInv', Disciplined, NEW p \in Procs, AdoptLock(p)
    PROVE  SafetyInv'
<1> USE Ids DEF SafetyInv, TypeInv, TypeOK, GateTypeOK, gateVars, locals, leaseVars, history, Goto,
            AdoptLock, PutItem, PutCopy
<1>1. Elsewhere(p) /\ MutexUse(p)
  BY DEF Elsewhere, MutexUse, ProcessesOK, CommandAt, Claiming, InCS, CSLabels, MixedLabels
<1>2. MutexHeld'
  BY <1>1, MutexKept
<1>3. NoRenew'
  BY DEF NoRenew, Disciplined
<1>b. item[p] \in todo[p] /\ copy[item[p][1]] = NoLease /\ Granting(p)
  BY DEF ProcessesOK, WriterOK, Granting
<1>c. \A u \in Units : copy'[u] = IF u = item[p][1] THEN item[p][2] ELSE copy[u]
  OBVIOUS
<1>d. item[p][2] = cur[p]
  BY <1>b DEF ProcessesOK, ClaimOK, Pairs
<1>4. \A q \in Procs \ {p} : CommandAt(q)' /\ ClaimOK(q)'
  <2> SUFFICES ASSUME NEW q \in Procs \ {p} PROVE CommandAt(q)' /\ ClaimOK(q)'
    OBVIOUS
  <2>1. CommandAt(q) /\ ClaimOK(q)
    BY DEF ProcessesOK
  <2>2. CommandAt(q)'
    BY <2>1, <1>1 DEF Elsewhere, CommandAt, Claiming
  <2>3. ASSUME Granting(q)' PROVE UnitsOf(q)' = UnitsOf(q) /\ UnitsOf(q) \subseteq Units /\ Granting(q)
    BY <2>3, <1>1 DEF Elsewhere, UnitsOf, Granting
  <2>4. ASSUME Granting(q)', NEW u \in UnitsOf(q), copy[u] = cur[q] PROVE copy'[u] = cur[q]
    BY <2>3, <2>4, <1>b, <1>c
  <2>5. ClaimOK(q)'
    BY <2>1, <2>3, <2>4, <1>1, <1>b, <1>d DEF ClaimOK, Elsewhere, Pairs, GrantsApart
  <2> QED BY <2>2, <2>5
<1>5. \A q \in Procs \ {p} : WriterOK(q)' /\ DropperOK(q)'
  <2> SUFFICES ASSUME NEW q \in Procs \ {p} PROVE WriterOK(q)' /\ DropperOK(q)'
    OBVIOUS
  <2>1. pc[q] \in {"write", "rmdir"} => item[q][1] # item[p][1]
    BY DEF WritersApart
  <2>2. pc[q] = "unlink" => item[q][1] # item[p][1]
    BY <1>b DEF ProcessesOK, DropperOK
  <2> QED BY <2>1, <2>2, <1>c, <1>1 DEF Elsewhere, ProcessesOK, WriterOK, DropperOK
<1>6. CommandAt(p)' /\ ClaimOK(p)'
  BY DEF ProcessesOK, CommandAt, Claiming, ClaimOK, Granting, UnitsOf, Pairs
<1>7. WriterOK(p)' /\ DropperOK(p)'
  BY DEF ProcessesOK, WriterOK, DropperOK
<1>8. ProcessesOK'
  BY <1>4, <1>5, <1>6, <1>7 DEF ProcessesOK
<1>9. WritersApart'
  BY DEF WritersApart, ProcessesOK, WriterOK, DropperOK
<1>10. GrantsApart'
  BY DEF GrantsApart, Granting, ProcessesOK, CommandAt
<1>11. IdsOK'
  BY DEF IdsOK, ProcessesOK, WriterOK, ClaimOK, Granting, Pairs
<1>12. LocksOK'
  BY DEF LocksOK, ProcessesOK, WriterOK, DropperOK
<1>13. TenureIsLocked'
  BY DEF TenureIsLocked, ProcessesOK, WriterOK, DropperOK, ClaimOK, Granting, Pairs, UnitsOf
<1> QED BY <1>2, <1>3, <1>8, <1>9, <1>10, <1>11, <1>12, <1>13

\* A request that has locked all of its units clears their markers,
LEMMA SafeDirty ==
    ASSUME SafetyInv, TypeInv', Disciplined, NEW p \in Procs, Dirty(p)
    PROVE  SafetyInv'
<1> USE Ids DEF SafetyInv, TypeInv, TypeOK, GateTypeOK, gateVars, locals, leaseVars, history, Goto,
            Dirty, ClearClean
<1>1. Elsewhere(p) /\ MutexUse(p)
  BY DEF Elsewhere, MutexUse, ProcessesOK, CommandAt, Claiming, InCS, CSLabels, MixedLabels
<1>2. MutexHeld'
  BY <1>1, MutexKept
<1>3. NoRenew'
  BY DEF NoRenew, Disciplined
<1>4. \A q \in Procs \ {p} : CommandAt(q)' /\ ClaimOK(q)'
  BY DEF Elsewhere, ProcessesOK, CommandAt, Claiming, ClaimOK, Granting, UnitsOf, Pairs
<1>5. \A q \in Procs \ {p} : WriterOK(q)' /\ DropperOK(q)'
  BY DEF ProcessesOK, WritersApart, WriterOK, DropperOK
<1>6. CommandAt(p)' /\ ClaimOK(p)'
  BY DEF ProcessesOK, CommandAt, Claiming, ClaimOK, Granting, UnitsOf, Pairs
<1>7. WriterOK(p)' /\ DropperOK(p)'
  BY DEF ProcessesOK, WriterOK, DropperOK
<1>8. ProcessesOK'
  BY <1>4, <1>5, <1>6, <1>7 DEF ProcessesOK
<1>9. WritersApart'
  BY DEF WritersApart, ProcessesOK, WriterOK, DropperOK
<1>10. GrantsApart'
  BY DEF GrantsApart, Granting, ProcessesOK, CommandAt
<1>11. IdsOK'
  BY DEF IdsOK, ProcessesOK, WriterOK, ClaimOK, Granting, Pairs
<1>12. LocksOK'
  BY DEF LocksOK, ProcessesOK, WriterOK, DropperOK
<1>13. TenureIsLocked'
  BY DEF TenureIsLocked, ProcessesOK, WriterOK, DropperOK, ClaimOK, Granting, Pairs, UnitsOf
<1> QED BY <1>2, <1>3, <1>8, <1>9, <1>10, <1>11, <1>12, <1>13

\* and is granted them.
LEMMA SafeGrant ==
    ASSUME SafetyInv, TypeInv', Disciplined, NEW p \in Procs, Grant(p)
    PROVE  SafetyInv'
<1> USE Ids DEF SafetyInv, TypeInv, TypeOK, GateTypeOK, gateVars, locals, leaseVars, history, Goto,
            Grant, WriteRecord
<1>1. Elsewhere(p) /\ MutexUse(p)
  BY DEF Elsewhere, MutexUse, ProcessesOK, CommandAt, Claiming, InCS, CSLabels, MixedLabels
<1>2. MutexHeld'
  BY <1>1, MutexKept
<1>3. NoRenew'
  BY DEF NoRenew, Disciplined
<1>b. Granting(p)
  BY DEF Granting
<1>4. \A q \in Procs \ {p} : CommandAt(q)' /\ ClaimOK(q)'
  BY <1>1, <1>b DEF Elsewhere, ProcessesOK, CommandAt, Claiming, ClaimOK, Granting, UnitsOf, Pairs, GrantsApart
<1>5. \A q \in Procs \ {p} : WriterOK(q)' /\ DropperOK(q)'
  BY DEF ProcessesOK, WritersApart, WriterOK, DropperOK
<1>6. CommandAt(p)' /\ ClaimOK(p)'
  BY DEF ProcessesOK, CommandAt, Claiming, ClaimOK, Granting, UnitsOf, Pairs
<1>7. WriterOK(p)' /\ DropperOK(p)'
  BY DEF ProcessesOK, WriterOK, DropperOK
<1>8. ProcessesOK'
  BY <1>4, <1>5, <1>6, <1>7 DEF ProcessesOK
<1>9. WritersApart'
  BY DEF WritersApart, ProcessesOK, WriterOK, DropperOK
<1>10. GrantsApart'
  BY DEF GrantsApart, Granting, ProcessesOK, CommandAt
<1>11. IdsOK'
  BY DEF IdsOK, ProcessesOK, WriterOK, ClaimOK, Granting, Pairs
<1>12. LocksOK'
  BY DEF LocksOK, ProcessesOK, WriterOK, DropperOK
<1>13. TenureIsLocked'
  BY DEF TenureIsLocked, ProcessesOK, WriterOK, DropperOK, ClaimOK, Granting, Pairs, UnitsOf
<1> QED BY <1>2, <1>3, <1>8, <1>9, <1>10, <1>11, <1>12, <1>13

\* What is removed is checked first,
LEMMA SafeDrop ==
    ASSUME SafetyInv, TypeInv', Disciplined, NEW p \in Procs, Drop(p)
    PROVE  SafetyInv'
<1> USE Ids DEF SafetyInv, TypeInv, TypeOK, GateTypeOK, gateVars, locals, leaseVars, history, Goto,
            Drop, StillNames
<1>1. Elsewhere(p) /\ MutexUse(p)
  BY DEF Elsewhere, MutexUse, ProcessesOK, CommandAt, Claiming, InCS, CSLabels, MixedLabels
<1>2. MutexHeld'
  BY <1>1, MutexKept
<1>3. NoRenew'
  BY DEF NoRenew, Disciplined
<1>4. \A q \in Procs \ {p} : CommandAt(q)' /\ ClaimOK(q)'
  BY DEF Elsewhere, ProcessesOK, CommandAt, Claiming, ClaimOK, Granting, UnitsOf, Pairs
<1>5. \A q \in Procs \ {p} : WriterOK(q)' /\ DropperOK(q)'
  BY DEF ProcessesOK, WritersApart, WriterOK, DropperOK
<1>6. CommandAt(p)' /\ ClaimOK(p)'
  BY DEF ProcessesOK, CommandAt, Claiming, ClaimOK, Granting, UnitsOf, Pairs
<1>7. WriterOK(p)' /\ DropperOK(p)'
  BY DEF ProcessesOK, WriterOK, DropperOK
<1>8. ProcessesOK'
  BY <1>4, <1>5, <1>6, <1>7 DEF ProcessesOK
<1>9. WritersApart'
  BY DEF WritersApart, ProcessesOK, WriterOK, DropperOK
<1>10. GrantsApart'
  BY DEF GrantsApart, Granting, ProcessesOK, CommandAt
<1>11. IdsOK'
  BY DEF IdsOK, ProcessesOK, WriterOK, ClaimOK, Granting, Pairs
<1>12. LocksOK'
  BY DEF LocksOK, ProcessesOK, WriterOK, DropperOK
<1>13. TenureIsLocked'
  BY DEF TenureIsLocked, ProcessesOK, WriterOK, DropperOK, ClaimOK, Granting, Pairs, UnitsOf
<1> QED BY <1>2, <1>3, <1>8, <1>9, <1>10, <1>11, <1>12, <1>13

\* is still so at the unlink, for whoever could change it is outside,
LEMMA SafeUnlink ==
    ASSUME SafetyInv, TypeInv', Disciplined, NEW p \in Procs, Unlink(p)
    PROVE  SafetyInv'
<1> USE Ids DEF SafetyInv, TypeInv, TypeOK, GateTypeOK, gateVars, locals, leaseVars, history, Goto,
            Unlink, UnlinkCopy
<1>1. Elsewhere(p) /\ MutexUse(p)
  BY DEF Elsewhere, MutexUse, ProcessesOK, CommandAt, Claiming, InCS, CSLabels, MixedLabels
<1>2. MutexHeld'
  BY <1>1, MutexKept
<1>3. NoRenew'
  BY DEF NoRenew, Disciplined
<1>b. \A q \in Procs \ {p} : ~InCS(q) /\ (Granting(q) => cmd[q] = "adopt")
  BY Alone DEF InCS, CSLabels
<1>c. \A q \in Procs \ {p} : pc[q] \notin {"unlink", "rmdir"}
  BY <1>b DEF InCS, CSLabels
<1>d. \A u \in Units : copy'[u] = IF u = item[p][1] THEN NoLease ELSE copy[u]
  OBVIOUS
<1>e. copy[item[p][1]] = item[p][2]
  BY DEF ProcessesOK, DropperOK
<1>4. \A q \in Procs \ {p} : CommandAt(q)' /\ ClaimOK(q)'
  BY <1>1, <1>b DEF Elsewhere, ProcessesOK, CommandAt, Claiming, ClaimOK, Granting, UnitsOf, Pairs
<1>5. \A q \in Procs \ {p} : WriterOK(q)' /\ DropperOK(q)'
  BY <1>1, <1>c, <1>d DEF Elsewhere, ProcessesOK, WriterOK, DropperOK
<1>6. CommandAt(p)' /\ ClaimOK(p)'
  BY DEF ProcessesOK, CommandAt, Claiming, ClaimOK, Granting, UnitsOf, Pairs
<1>7. WriterOK(p)' /\ DropperOK(p)'
  BY <1>d, <1>e DEF WriterOK, DropperOK, LocksOK
<1>8. ProcessesOK'
  BY <1>4, <1>5, <1>6, <1>7 DEF ProcessesOK
<1>9. WritersApart'
  BY DEF WritersApart, ProcessesOK, WriterOK, DropperOK
<1>10. GrantsApart'
  BY DEF GrantsApart, Granting, ProcessesOK, CommandAt
<1>11. IdsOK'
  BY DEF IdsOK, ProcessesOK, WriterOK, ClaimOK, Granting, Pairs
<1>12. LocksOK'
  BY DEF LocksOK, ProcessesOK, WriterOK, DropperOK
<1>13. TenureIsLocked'
  <2> SUFFICES ASSUME NEW t \in tenure' PROVE copy'[t[1]] = t[2]
    BY DEF TenureIsLocked
  <2>1. t \in Units \X Leases /\ t # item[p] /\ copy[t[1]] = t[2]
    BY DEF TenureIsLocked
  <2>2. t = <<t[1], t[2]>> /\ item[p] = <<item[p][1], item[p][2]>>
    BY <2>1
  <2>3. t[1] # item[p][1]
    BY <2>1, <2>2, <1>e
  <2> QED BY <2>1, <2>3, <1>d
<1> QED BY <1>2, <1>3, <1>8, <1>9, <1>10, <1>11, <1>12, <1>13

\* and the directory is removed empty.
LEMMA SafeRmdir ==
    ASSUME SafetyInv, TypeInv', Disciplined, NEW p \in Procs, Rmdir(p)
    PROVE  SafetyInv'
<1> USE Ids DEF SafetyInv, TypeInv, TypeOK, GateTypeOK, gateVars, locals, leaseVars, history, Goto,
            Rmdir, RemoveLock
<1>1. Elsewhere(p) /\ MutexUse(p)
  BY DEF Elsewhere, MutexUse, ProcessesOK, CommandAt, Claiming, InCS, CSLabels, MixedLabels
<1>2. MutexHeld'
  BY <1>1, MutexKept
<1>3. NoRenew'
  BY DEF NoRenew, Disciplined
<1>b. \A q \in Procs \ {p} : ~InCS(q) /\ (Granting(q) => cmd[q] = "adopt")
  BY Alone DEF InCS, CSLabels
<1>c. \A q \in Procs \ {p} : pc[q] \notin {"unlink", "rmdir"}
  BY <1>b DEF InCS, CSLabels
<1>4. \A q \in Procs \ {p} : CommandAt(q)' /\ ClaimOK(q)'
  BY DEF Elsewhere, ProcessesOK, CommandAt, Claiming, ClaimOK, Granting, UnitsOf, Pairs
<1>5. \A q \in Procs \ {p} : WriterOK(q)' /\ DropperOK(q)'
  BY <1>1, <1>c DEF Elsewhere, ProcessesOK, WritersApart, WriterOK, DropperOK
<1>6. CommandAt(p)' /\ ClaimOK(p)'
  BY DEF ProcessesOK, CommandAt, Claiming, ClaimOK, Granting, UnitsOf, Pairs
<1>7. WriterOK(p)' /\ DropperOK(p)'
  BY DEF ProcessesOK, WriterOK, DropperOK
<1>8. ProcessesOK'
  BY <1>4, <1>5, <1>6, <1>7 DEF ProcessesOK
<1>9. WritersApart'
  BY DEF WritersApart, ProcessesOK, WriterOK, DropperOK
<1>10. GrantsApart'
  BY DEF GrantsApart, Granting, ProcessesOK, CommandAt
<1>11. IdsOK'
  BY DEF IdsOK, ProcessesOK, WriterOK, ClaimOK, Granting, Pairs
<1>12. LocksOK'
  BY DEF LocksOK, ProcessesOK, WriterOK, DropperOK
<1>13. TenureIsLocked'
  BY DEF TenureIsLocked, ProcessesOK, WriterOK, DropperOK, ClaimOK, Granting, Pairs, UnitsOf
<1> QED BY <1>2, <1>3, <1>8, <1>9, <1>10, <1>11, <1>12, <1>13

-----------------------------------------------------------------------------
\* The environment touches no lock, and no process.
LEMMA SafeEnvironment ==
    ASSUME SafetyInv, TypeInv', Disciplined, Environment
    PROVE  SafetyInv'
<1> USE DEF SafetyInv
<1>1. UNCHANGED <<gateVars, pc, locals, leaseVars, history>>
  BY DEF Environment, ClearStaleMutex, Tick, OpenOrClose, OwnerDies
<1>2. mutex' = mutex \/ (mutex \notin Procs /\ mutex' = None)
  BY LeasesAssumption DEF Environment, ClearStaleMutex, Tick, OpenOrClose, OwnerDies, Disciplined
<1>3. MutexHeld'
  BY <1>1, <1>2 DEF MutexHeld, InCS, locals
<1>4. ProcessesOK'
  BY <1>1 DEF ProcessesOK, CommandAt, Claiming, ClaimOK, Granting, UnitsOf, WriterOK, DropperOK,
       gateVars, locals, leaseVars, history
<1>5. NoRenew' /\ WritersApart' /\ GrantsApart' /\ IdsOK' /\ LocksOK' /\ TenureIsLocked'
  BY <1>1 DEF NoRenew, WritersApart, GrantsApart, Granting, IdsOK, LocksOK, TenureIsLocked,
       gateVars, locals, leaseVars, history
<1> QED BY <1>3, <1>4, <1>5

LEMMA SafetyNext == Disciplined /\ SafetyInv /\ [Next]_vars => SafetyInv'
<1> SUFFICES ASSUME Disciplined, SafetyInv, [Next]_vars PROVE SafetyInv'
  OBVIOUS
<1>1. TypeInv'
  BY TypeNext DEF SafetyInv
<1>2. CASE UNCHANGED vars
  BY <1>1, <1>2 DEF vars, SafetyInv, MutexHeld, InCS, ProcessesOK, CommandAt, Claiming, ClaimOK, Granting, UnitsOf,
       WriterOK, DropperOK, NoRenew, WritersApart, GrantsApart, IdsOK, LocksOK, TenureIsLocked,
       gateVars, locals, leaseVars, history
<1>3. CASE Environment
  BY <1>1, <1>3, SafeEnvironment
<1>4. ASSUME NEW p \in Procs, Start(p) \/ Step(p) \/ GiveUp(p) \/ Fail(p) \/ Crash(p)
      PROVE  SafetyInv'
  <2>1. ~StartRenew(p) /\ ~RenewStep(p)
    BY DEF SafetyInv, NoRenew, Disciplined, StartRenew, Begin, RenewStep, Rewrite, Replace, NotReplaced, ReplaceDone
  <2>2. CASE Start(p)
    BY <1>1, <2>1, <2>2, QuietGate, QuietKeeps, SafeStartAdopt DEF Start
  <2>3. CASE MutexStep(p) \/ ReconcileStep(p)
    BY <1>1, <2>3, QuietGate, QuietKeeps, SafeDrop, SafeUnlink, SafeRmdir DEF MutexStep, ReconcileStep
  <2>4. CASE ClaimStep(p)
    BY <1>1, <2>4, QuietCommand, QuietKeeps, SafeChoose, SafeClaimWon, SafeWriteLock, SafeAdoptLock,
       SafeDirty, SafeGrant DEF ClaimStep
  <2>5. CASE ReleaseStep(p) \/ GiveUp(p) \/ Fail(p) \/ Crash(p)
    BY <1>1, <2>5, QuietCommand, QuietKeeps DEF ReleaseStep
  <2> QED BY <1>4, <2>1, <2>2, <2>3, <2>4, <2>5 DEF Step
<1> QED BY <1>2, <1>3, <1>4 DEF Next

\* critical_section excludes, and whatever is granted stays locked until it is
\* released or reaped.
THEOREM LocksAreExclusive ==
    ASSUME Disciplined
    PROVE  Spec => [](MutexHeld /\ TenureIsLocked)
<1>1. SafetyInv => MutexHeld /\ TenureIsLocked
  BY DEF SafetyInv
<1>2. SafetyInv /\ [Next]_vars => SafetyInv'
  BY SafetyNext
<1> QED BY <1>1, <1>2, SafetyInit, PTL DEF Spec

\* No unit ever has two tenants: "concurrent acquire from N processes grants
\* disjoint chip sets, never overlapping" (the design's testing section).
THEOREM OneTenantPerUnit ==
    ASSUME Disciplined
    PROVE  Spec => []Ledger!OneTenant
<1>1. TenureIsLocked => Ledger!OneTenant
  BY DEF TenureIsLocked, Ledger!OneTenant
<1> QED BY <1>1, LocksAreExclusive, PTL

-----------------------------------------------------------------------------
(* The gate implements the ledger: the three steps that move a tenancy are   *)
(* steps of the ledger, and no other step moves one.                       *)

\* acquire's grant: a fresh lease, over units that its own locks keep from others.
LEMMA GrantIsAGrant ==
    ASSUME SafetyInv, NEW p \in Procs, Grant(p)
    PROVE  Ledger!Grant(cur[p], UnitsOf(p)) /\ cur[p] \in Leases /\ UnitsOf(p) \in SUBSET Units
<1> USE Ids DEF SafetyInv, Grant
<1>1. Granting(p)
  BY DEF Granting
<1>2. /\ UnitsOf(p) # {} /\ cur[p] \notin granted
      /\ \A u \in UnitsOf(p) : copy[u] = cur[p]
  BY <1>1 DEF ProcessesOK, ClaimOK, Granting
<1>3. \A u \in UnitsOf(p), m \in Leases : <<u, m>> \notin tenure
  <2> SUFFICES ASSUME NEW u \in UnitsOf(p), NEW m \in Leases, <<u, m>> \in tenure PROVE FALSE
    OBVIOUS
  <2>1. copy[u] = m
    BY DEF TenureIsLocked
  <2>2. m \in granted
    BY DEF IdsOK
  <2> QED BY <1>2, <2>1, <2>2
<1>4. cur[p] \in Leases /\ UnitsOf(p) \in SUBSET Units
  BY <1>1 DEF UnitsOf, TypeInv, TypeOK
<1> QED BY <1>2, <1>3, <1>4 DEF Ledger!Grant, Pairs

\* adopt's: the directory it made was empty.
LEMMA AdoptIsAGrant ==
    ASSUME SafetyInv, NEW p \in Procs, AdoptLock(p)
    PROVE  Ledger!Grant(item[p][2], {item[p][1]}) /\ item[p][2] \in Leases /\ item[p][1] \in Units
<1> USE Ids DEF SafetyInv, AdoptLock, PutItem
<1>1. Granting(p)
  BY DEF Granting
<1>2. item[p] \in todo[p] /\ copy[item[p][1]] = NoLease
  BY DEF ProcessesOK, WriterOK
<1>3. item[p][2] = cur[p] /\ cur[p] \notin granted
  BY <1>1, <1>2 DEF ProcessesOK, ClaimOK, Pairs
<1>4. \A m \in Leases : <<item[p][1], m>> \notin tenure
  BY <1>2 DEF TenureIsLocked
<1>5. {item[p]} = {item[p][1]} \X {item[p][2]}
  BY <1>2
<1> QED BY <1>3, <1>4, <1>5 DEF Ledger!Grant

\* An unlinked lock ends the tenancy it named, if it had been granted at all.
LEMMA UnlinkIsAnEnd ==
    ASSUME SafetyInv, NEW p \in Procs, Unlink(p)
    PROVE  \/ UNCHANGED Ledger!ledgerVars
           \/ \E u \in Units, l \in Leases : Ledger!End(u, l)
<1> USE Ids DEF Unlink
<1>1. item[p] = <<item[p][1], item[p][2]>> /\ item[p][1] \in Units /\ item[p][2] \in Leases
  OBVIOUS
<1>2. CASE item[p] \in tenure
  BY <1>1, <1>2 DEF Ledger!End
<1>3. CASE item[p] \notin tenure
  BY <1>3 DEF Ledger!ledgerVars
<1> QED BY <1>2, <1>3

\* The commands' other steps leave the ledger alone.
LEMMA OthersStutter ==
    ASSUME [Next]_vars,
           \A p \in Procs : ~Grant(p) /\ ~AdoptLock(p) /\ ~Unlink(p)
    PROVE  UNCHANGED Ledger!ledgerVars
<1> USE DEF Ledger!ledgerVars, history, gateVars
<1>1. CASE UNCHANGED vars
  BY <1>1 DEF vars
<1>2. CASE Environment
  BY <1>2 DEF Environment, ClearStaleMutex, Tick, OpenOrClose, OwnerDies
<1>3. ASSUME NEW p \in Procs, Start(p) PROVE UNCHANGED Ledger!ledgerVars
  BY <1>3 DEF Start, Begin, StartAcquire, StartReconcile, StartRelease, StartRenew, StartAdopt
<1>4. ASSUME NEW p \in Procs, MutexStep(p) \/ ReconcileStep(p) PROVE UNCHANGED Ledger!ledgerVars
  BY <1>4 DEF MutexStep, Enter, Exit, Pause, ReconcileStep, ScanFds, JudgeStale, JudgeFree, ReconcileDone,
       Drop, Spare, Rmdir, Forget, DropsDone
<1>5. ASSUME NEW p \in Procs, ClaimStep(p) \/ RenewStep(p) PROVE UNCHANGED Ledger!ledgerVars
  BY <1>5 DEF ClaimStep, Choose, Refuse, ClaimWon, ClaimLost, AdoptLost, WriteLock, Dirty, AdoptRecord,
       RenewStep, Rewrite, Replace, NotReplaced, ReplaceDone
<1>6. ASSUME NEW p \in Procs, ReleaseStep(p) PROVE UNCHANGED Ledger!ledgerVars
  BY <1>6 DEF ReleaseStep, FdsClosed, FdsOpen, Check, Reset, Recheck, Mark, Delete, Refresh,
       Rerecord, MarkAll, GiveBack, NothingToGiveBack
<1>7. ASSUME NEW p \in Procs, GiveUp(p) \/ Fail(p) \/ Crash(p) PROVE UNCHANGED Ledger!ledgerVars
  BY <1>7 DEF GiveUp, Fail, Crash
<1> QED BY <1>1, <1>2, <1>3, <1>4, <1>5, <1>6, <1>7 DEF Next, Step

\* The detailed gate implements the ledger: no lease is granted twice, a request is
\* granted whole and over units without a tenant, and a tenancy only ends.
THEOREM GateImplementsLedger ==
    ASSUME Disciplined
    PROVE  Spec => ImplementsLedger
<1>1. Init => Ledger!LedgerInit
  BY DEF Init, Ledger!LedgerInit
<1>2. SafetyInv /\ [Next]_vars => [Ledger!LedgerNext]_Ledger!ledgerVars
  <2> SUFFICES ASSUME SafetyInv, [Next]_vars PROVE [Ledger!LedgerNext]_Ledger!ledgerVars
    OBVIOUS
  <2>1. ASSUME NEW p \in Procs, Grant(p) PROVE Ledger!LedgerNext
    BY <2>1, GrantIsAGrant DEF Ledger!LedgerNext
  <2>2. ASSUME NEW p \in Procs, AdoptLock(p) PROVE Ledger!LedgerNext
    <3>1. {item[p][1]} \in SUBSET Units
      BY <2>2, AdoptIsAGrant
    <3> QED BY <2>2, <3>1, AdoptIsAGrant DEF Ledger!LedgerNext
  <2>3. ASSUME NEW p \in Procs, Unlink(p) PROVE [Ledger!LedgerNext]_Ledger!ledgerVars
    BY <2>3, UnlinkIsAnEnd DEF Ledger!LedgerNext
  <2>4. CASE \A p \in Procs : ~Grant(p) /\ ~AdoptLock(p) /\ ~Unlink(p)
    BY <2>4, OthersStutter
  <2> QED BY <2>1, <2>2, <2>3, <2>4
<1>3. SafetyInv /\ [Next]_vars => SafetyInv'
  BY SafetyNext
<1> QED BY <1>1, <1>2, <1>3, SafetyInit, PTL DEF Spec, ImplementsLedger, Ledger!LedgerSpec

=============================================================================
