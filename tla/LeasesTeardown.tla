--------------------------- MODULE LeasesTeardown ---------------------------
(***************************************************************************)
(* Why a lease that is let go is gone altogether, and why only expired     *)
(* leases are reaped, under the hypotheses of LeasesSafety: no overrun     *)
(* mutex and no renew.                                                     *)
(*                                                                         *)
(* A lease id is written into the lock of a unit once, by the request that *)
(* draws it.  So what reconcile judged without the mutex, and what release *)
(* has taken down so far, stays true until they are done.                  *)
(***************************************************************************)
EXTENDS LeasesSafety

Releasing == {"release", "release_noreset", "give_back"}

\* Where reconcile, acquire and release are, and a process that runs nothing.
PlaceOK(p) ==
    /\ cmd[p] = "reconcile" => pc[p] \in {"scan", "read", "enter", "drop", "unlink",
                                          "rmdir", "forget", "exit"}
    /\ Claiming(p) => pc[p] \notin {"check", "checked"}
    /\ pc[p] = "delete" => cmd[p] \in Releasing
    /\ pc[p] = "idle" => todo[p] = {}

\* Only a lease that was granted has a record, or is released, reset or given back.
GrantedOK(p) ==
    \/ cmd[p] \in Releasing \cup {"reset"}
    \/ cmd[p] = "adopt" /\ pc[p] = "grant"
    \/ cmd[p] = "reset_all" /\ pc[p] = "reset"
    \/ pc[p] \in {"refresh", "rerecord", "markall", "giveback"}
    => cur[p] \in granted

\* What a request still has to lock it has not locked yet.
Unlocked(p) == Granting(p) => \A d \in todo[p] : copy[d[1]] # d[2]

\* A verdict of reconcile goes on holding of the lease, if its lock is still there:
\* its owner stays dead, and nobody can renew it.
Verdict(d) ==
    /\ d[2] \in used
    /\ \A q \in Procs : Granting(q) => d \notin todo[q]
    /\ IF d[2] \in Detached THEN copy[d[1]] = d[2] => now - stamp[d[1]] > Grace
                            ELSE d[2] \notin alive

ReaperOK(p) ==
    Reaping(p) => /\ \A d \in todo[p] : Verdict(d)
                  /\ pc[p] = "unlink" => Verdict(item[p])

TearingDown(p) ==
    /\ cmd[p] \in Releasing
    /\ pc[p] \in {"drop", "unlink", "rmdir", "forget", "delete"}

\* The units release is done with are no longer its lease's.
TeardownOK(p) ==
    TearingDown(p) =>
        /\ pc[p] = "delete" => todo[p] = {}
        /\ \A u \in UnitsOf(p) :
              \/ <<u, cur[p]>> \in todo[p]
              \/ pc[p] = "unlink" /\ item[p] = <<u, cur[p]>>
              \/ copy[u] # cur[p] /\ <<u, cur[p]>> \notin tenure

LocalInv(p) == PlaceOK(p) /\ GrantedOK(p) /\ Unlocked(p) /\ ReaperOK(p) /\ TeardownOK(p)

TeardownInv ==
    /\ \A p \in Procs : LocalInv(p)
    /\ records \subseteq granted
    /\ \A u \in Units : copy[u] \in used \cup {NoLease}

-----------------------------------------------------------------------------
\* What a step of p may do to what the others rely on: it empties a lock or writes
\* its own lease into one, it adds no tenancy but its own, and draws fresh ids.
Footprint(p) ==
    /\ Elsewhere(p)
    /\ \A u \in Units : \/ copy'[u] = copy[u] /\ stamp'[u] = stamp[u]
                        \/ copy'[u] = NoLease
                        \/ pc[p] = "write" /\ u = item[p][1] /\ copy'[u] = item[p][2]
    /\ \A t \in tenure' : t \in tenure \/ (Granting(p) /\ t[2] = cur[p])
    /\ granted \subseteq granted' /\ used \subseteq used'
    /\ alive' = alive /\ now' = now
    /\ \A l \in used : units'[l] = units[l]
    /\ Granting(p)' =>
          \/ /\ Granting(p) /\ cur'[p] = cur[p] /\ todo'[p] \subseteq todo[p]
             /\ pc[p] = "write" => item[p] \notin todo'[p]
          \/ cur'[p] \notin used /\ todo'[p] \subseteq Units \X {cur'[p]}

\* What it leaves behind of its own.
Tidy(p) ==
    /\ PlaceOK(p)'
    /\ GrantedOK(p)'
    /\ records' \subseteq granted'

\* A step that begins no removal.
Calm(p) ==
    /\ ~TearingDown(p)'
    /\ pc'[p] # "unlink"
    /\ Reaping(p)' => todo'[p] = {} \/ (Reaping(p) /\ todo'[p] \subseteq todo[p])

\* The steps of critical_section, reconcile and release_unit.
LEMMA TidyGate ==
    ASSUME SafetyInv, TeardownInv, Disciplined, NEW p \in Procs,
           \/ StartAcquire(p) \/ StartReconcile(p) \/ StartRelease(p) \/ StartAdopt(p)
           \/ Enter(p) \/ Exit(p) \/ Pause(p) \/ ScanFds(p) \/ JudgeStale(p)
           \/ JudgeFree(p) \/ ReconcileDone(p) \/ Drop(p) \/ Spare(p) \/ Unlink(p)
           \/ Rmdir(p) \/ Forget(p) \/ DropsDone(p)
    PROVE  Footprint(p) /\ Tidy(p)
<1> USE GateAssumption DEF SafetyInv, TypeInv, TypeOK, GateTypeOK, ProcessesOK, CommandAt, Claiming, Granting,
            NoRenew, IdsOK, TeardownInv, LocalInv, PlaceOK, GrantedOK, Releasing,
            Footprint, Tidy, Elsewhere, Goto, gateVars, locals, leaseVars, history, envVars
<1>1. CASE StartAcquire(p)
  BY <1>1 DEF StartAcquire, Begin
<1>2. CASE StartReconcile(p)
  BY <1>2 DEF StartReconcile, Begin
<1>3. CASE StartRelease(p)
  BY <1>3 DEF StartRelease, Begin
<1>4. CASE StartAdopt(p)
  BY <1>4 DEF StartAdopt, Begin
<1>5. CASE Enter(p)
  <2>1. Footprint(p)
    BY <1>5 DEF Enter
  <2>2. PlaceOK(p)' /\ GrantedOK(p)'
    BY <1>5 DEF Enter
  <2>3. records' \subseteq granted'
    BY <1>5 DEF Enter
  <2> QED BY <2>1, <2>2, <2>3
<1>6. CASE Exit(p)
  BY <1>6 DEF Exit, Finish
<1>7. CASE Pause(p)
  BY <1>7 DEF Pause, HasTheBox
<1>8. CASE ScanFds(p)
  BY <1>8 DEF ScanFds
<1>9. CASE JudgeStale(p)
  BY <1>9 DEF JudgeStale
<1>10. CASE JudgeFree(p)
  BY <1>10 DEF JudgeFree
<1>11. CASE ReconcileDone(p)
  BY <1>11 DEF ReconcileDone, Finish
<1>12. CASE Drop(p)
  BY <1>12 DEF Drop
<1>13. CASE Spare(p)
  BY <1>13 DEF Spare
<1>14. CASE Unlink(p)
  BY <1>14 DEF Unlink, UnlinkCopy
<1>15. CASE Rmdir(p)
  BY <1>15 DEF Rmdir, RemoveLock
<1>16. CASE Forget(p)
  BY <1>16 DEF Forget, DeleteRecord
<1>17. CASE DropsDone(p)
  BY <1>17 DEF DropsDone, Reaping
<1> QED BY <1>1, <1>2, <1>3, <1>4, <1>5, <1>6, <1>7, <1>8, <1>9, <1>10, <1>11, <1>12, <1>13,
           <1>14, <1>15, <1>16, <1>17

\* The steps of the other commands, whether they succeed, fail or crash.
LEMMA TidyCommand ==
    ASSUME SafetyInv, TeardownInv, Disciplined, NEW p \in Procs,
           \/ ClaimStep(p) \/ ReleaseStep(p) \/ GiveUp(p) \/ Fail(p) \/ Crash(p)
    PROVE  Footprint(p) /\ Tidy(p)
<1> USE GateAssumption DEF SafetyInv, TypeInv, TypeOK, GateTypeOK, ProcessesOK, CommandAt, Claiming, Granting,
            NoRenew, IdsOK, TeardownInv, LocalInv, PlaceOK, GrantedOK, Releasing,
            Footprint, Tidy, Elsewhere, Goto, gateVars, locals, leaseVars, history, envVars
<1>1. CASE Choose(p)
  BY <1>1 DEF Choose, Pairs
<1>2. CASE Refuse(p)
  BY <1>2 DEF Refuse
<1>3. CASE ClaimWon(p)
  BY <1>3 DEF ClaimWon, MakeLock
<1>4. CASE ClaimLost(p)
  BY <1>4 DEF ClaimLost
<1>5. CASE AdoptLost(p)
  BY <1>5 DEF AdoptLost, Finish
<1>6. CASE WriteLock(p)
  BY <1>6 DEF WriteLock, PutItem, PutCopy
<1>7. CASE AdoptLock(p)
  BY <1>7 DEF AdoptLock, PutItem, PutCopy, WriterOK, ClaimOK, Pairs
<1>8. CASE Dirty(p)
  BY <1>8 DEF Dirty, ClearClean
<1>9. CASE Grant(p)
  BY <1>9 DEF Grant, WriteRecord, Pairs
<1>10. CASE AdoptRecord(p)
  BY <1>10 DEF AdoptRecord, WriteRecord, Finish
<1>11. CASE FdsClosed(p)
  BY <1>11 DEF FdsClosed
<1>12. CASE FdsOpen(p)
  BY <1>12 DEF FdsOpen, Finish
<1>13. CASE Check(p)
  BY <1>13 DEF Check
<1>14. CASE Reset(p)
  BY <1>14 DEF Reset
<1>15. CASE Recheck(p)
  BY <1>15 DEF Recheck
<1>16. CASE Mark(p)
  BY <1>16 DEF Mark, MarkClean
<1>17. CASE Delete(p)
  BY <1>17 DEF Delete, DeleteRecord
<1>18. CASE Refresh(p)
  BY <1>18 DEF Refresh
<1>19. CASE Rerecord(p)
  BY <1>19 DEF Rerecord, WriteRecord
<1>20. CASE MarkAll(p)
  BY <1>20 DEF MarkAll, MarkClean
<1>21. CASE GiveBack(p)
  BY <1>21 DEF GiveBack
<1>22. CASE NothingToGiveBack(p)
  BY <1>22 DEF NothingToGiveBack, Finish
<1>23. CASE GiveUp(p)
  BY <1>23 DEF GiveUp, Finish
<1>24. CASE Fail(p)
  BY <1>24 DEF Fail, Finish
<1>25. CASE Crash(p)
  BY <1>25 DEF Crash, Finish
<1>26. CASE ClaimStep(p)
  BY <1>1, <1>2, <1>3, <1>4, <1>5, <1>6, <1>7, <1>8, <1>9, <1>10, <1>26 DEF ClaimStep
<1>27. CASE ReleaseStep(p)
  BY <1>11, <1>12, <1>13, <1>14, <1>15, <1>16, <1>17, <1>18, <1>19, <1>20, <1>21, <1>22, <1>27 DEF ReleaseStep
<1> QED BY <1>23, <1>24, <1>25, <1>26, <1>27

-----------------------------------------------------------------------------
\* A lock that p writes is one it is granting: its lease has no tenant and no record.
LEMMA Writes ==
    ASSUME SafetyInv, NEW p \in Procs, pc[p] = "write"
    PROVE  /\ Granting(p) /\ item[p] \in todo[p] /\ item[p] = <<item[p][1], item[p][2]>>
           /\ item[p][2] = cur[p] /\ cur[p] \in used /\ cur[p] \notin granted
<1>1. Granting(p)
  BY DEF Granting
<1>2. item[p] \in todo[p] /\ item[p] \in Units \X Leases
  BY DEF SafetyInv, ProcessesOK, WriterOK, TypeInv, LocalsOK, LocalOK
<1>3. item[p][2] = cur[p] /\ cur[p] \notin granted
  BY <1>1, <1>2 DEF SafetyInv, ProcessesOK, ClaimOK, Pairs
<1> QED BY <1>1, <1>2, <1>3, Ids

\* A verdict survives every step: nobody but the request that drew the lease writes it
\* into a lock, and that one already has.
LEMMA VerdictStays ==
    ASSUME SafetyInv, TypeInv', NEW p \in Procs, Footprint(p), NEW d \in Units \X Leases, Verdict(d)
    PROVE  Verdict(d)'
<1>1. d[1] \in Units /\ d[2] \in Leases /\ d = <<d[1], d[2]>> /\ NoLease \notin Leases
  BY GateAssumption
<1>2. d[2] \in used'
  BY DEF Verdict, Footprint
<1>3. ASSUME NEW q \in Procs, Granting(q)' PROVE d \notin todo'[q]
  <2>1. CASE q = p
    BY <1>1, <1>3, <2>1 DEF Verdict, Footprint
  <2>2. CASE q # p
    BY <1>3, <2>2 DEF Verdict, Footprint, Elsewhere, Granting
  <2> QED BY <2>1, <2>2
<1>4. alive' = alive /\ now' = now
  BY DEF Footprint
<1>5. copy'[d[1]] = d[2] => copy[d[1]] = d[2] /\ stamp'[d[1]] = stamp[d[1]]
  <2>1. ASSUME pc[p] = "write", d[1] = item[p][1], item[p][2] = d[2] PROVE FALSE
    BY <1>1, <2>1, Writes DEF Verdict
  <2> QED BY <1>1, <2>1 DEF Footprint
<1> QED BY <1>2, <1>3, <1>4, <1>5 DEF Verdict

\* The other processes keep what they rely on.
LEMMA OthersKeep ==
    ASSUME SafetyInv, TeardownInv, TypeInv', NEW p \in Procs, Footprint(p),
           NEW q \in Procs \ {p}
    PROVE  LocalInv(q)'
<1>1. /\ pc'[q] = pc[q] /\ cmd'[q] = cmd[q] /\ cur'[q] = cur[q]
      /\ todo'[q] = todo[q] /\ item'[q] = item[q]
  BY DEF Footprint, Elsewhere
<1>2. LocalInv(q)
  BY DEF TeardownInv
<1>3. todo[q] \subseteq Units \X Leases
  BY DEF SafetyInv, TypeInv, TypeOK
<1>4. PlaceOK(q)' /\ GrantedOK(q)'
  BY <1>1, <1>2 DEF LocalInv, PlaceOK, GrantedOK, Claiming, Footprint
<1>5. Unlocked(q)'
  <2> SUFFICES ASSUME Granting(q), NEW d \in todo[q] PROVE copy'[d[1]] # d[2]
    BY <1>1 DEF Unlocked, Granting
  <2>1. copy[d[1]] # d[2] /\ d[1] \in Units /\ d[2] \in Leases
    BY <1>2, <1>3 DEF LocalInv, Unlocked
  <2>2. d[2] = cur[q]
    BY DEF SafetyInv, ProcessesOK, ClaimOK, Pairs
  <2>3. pc[p] = "write" => item[p][2] # d[2]
    BY <2>2, Writes DEF SafetyInv, GrantsApart
  <2> QED BY <2>1, <2>3, GateAssumption DEF Footprint
<1>6. ReaperOK(q)'
  <2>1. ASSUME Reaping(q), NEW d, d \in todo[q] \/ (pc[q] = "unlink" /\ d = item[q])
        PROVE  Verdict(d)'
    <3>1. Verdict(d)
      BY <1>2, <2>1 DEF LocalInv, ReaperOK
    <3>2. d \in Units \X Leases
      BY <1>3, <2>1, Ids
    <3> QED BY <3>1, <3>2, VerdictStays
  <2>2. Reaping(q)' <=> Reaping(q)
    BY <1>1 DEF Reaping
  <2> QED BY <1>1, <2>1, <2>2 DEF ReaperOK
<1>7. TeardownOK(q)'
  <2> SUFFICES ASSUME TearingDown(q)
               PROVE  TeardownOK(q)'
    BY <1>1 DEF TeardownOK, TearingDown
  <2>1. cur[q] \in granted /\ cur[q] \in used /\ cur[q] \in Leases
    BY <1>2 DEF LocalInv, GrantedOK, TearingDown, SafetyInv, IdsOK, TypeInv, TypeOK
  <2>2. UnitsOf(q)' = UnitsOf(q) /\ UnitsOf(q) \subseteq Units
    BY <1>1, <2>1 DEF UnitsOf, Footprint, SafetyInv, TypeInv, TypeOK
  <2>3. ASSUME NEW u \in UnitsOf(q), copy[u] # cur[q], <<u, cur[q]>> \notin tenure
        PROVE  copy'[u] # cur[q] /\ <<u, cur[q]>> \notin tenure'
    <3>1. pc[p] = "write" => item[p][2] # cur[q]
      BY <2>1, Writes
    <3>2. Granting(p) => cur[p] # cur[q]
      BY <2>1 DEF SafetyInv, ProcessesOK, ClaimOK
    <3>3. \A t \in tenure' : t \in tenure \/ (Granting(p) /\ t[2] = cur[p])
      BY DEF Footprint
    <3>4. copy'[u] = copy[u] \/ copy'[u] = NoLease \/ (pc[p] = "write" /\ copy'[u] = item[p][2])
      BY <2>2 DEF Footprint
    <3>5. <<u, cur[q]>>[2] = cur[q]
      OBVIOUS
    <3> QED BY <2>1, <2>3, <3>1, <3>2, <3>3, <3>4, <3>5, GateAssumption
  <2> QED BY <1>1, <1>2, <2>2, <2>3 DEF LocalInv, TeardownOK, TearingDown
<1> QED BY <1>4, <1>5, <1>6, <1>7 DEF LocalInv

\* So does p itself, but for its removals.
LEMMA OwnKept ==
    ASSUME SafetyInv, TeardownInv, TypeInv', NEW p \in Procs, Footprint(p)
    PROVE  Unlocked(p)'
<1> SUFFICES ASSUME Granting(p)', NEW d \in todo'[p] PROVE copy'[d[1]] # d[2]
  BY DEF Unlocked
<1>1. d \in Units \X Leases /\ d[1] \in Units /\ d[2] \in Leases /\ d = <<d[1], d[2]>>
  BY DEF TypeInv, TypeOK
<1>2. CASE /\ Granting(p) /\ cur'[p] = cur[p] /\ todo'[p] \subseteq todo[p]
           /\ pc[p] = "write" => item[p] \notin todo'[p]
  <2>1. copy[d[1]] # d[2]
    BY <1>2 DEF TeardownInv, LocalInv, Unlocked
  <2>2. d[2] = cur[p]
    BY <1>2 DEF SafetyInv, ProcessesOK, ClaimOK, Pairs
  <2>3. pc[p] = "write" => item[p][1] # d[1]
    BY <1>1, <1>2, <2>2, Writes
  <2> QED BY <1>1, <2>1, <2>3, GateAssumption DEF Footprint
<1>3. CASE cur'[p] \notin used /\ todo'[p] \subseteq Units \X {cur'[p]}
  <2>1. d[2] \notin used
    BY <1>3
  <2>2. copy[d[1]] # d[2]
    BY <1>1, <2>1, GateAssumption DEF TeardownInv
  <2>3. pc[p] = "write" => item[p][2] # d[2]
    BY <2>1, Writes
  <2> QED BY <1>1, <2>2, <2>3, GateAssumption DEF Footprint
<1> QED BY <1>2, <1>3 DEF Footprint

LEMMA CalmKeeps ==
    ASSUME SafetyInv, TeardownInv, TypeInv', NEW p \in Procs, Footprint(p), Calm(p)
    PROVE  ReaperOK(p)' /\ TeardownOK(p)'
<1>1. ASSUME Reaping(p)', NEW d \in todo'[p] PROVE Verdict(d)'
  <2>1. Reaping(p) /\ d \in todo[p]
    BY <1>1 DEF Calm
  <2>2. Verdict(d)
    BY <2>1 DEF TeardownInv, LocalInv, ReaperOK
  <2>3. d \in Units \X Leases
    BY <2>1 DEF SafetyInv, TypeInv, TypeOK
  <2> QED BY <2>2, <2>3, VerdictStays
<1>2. pc'[p] # "unlink" /\ ~TearingDown(p)'
  BY DEF Calm
<1> QED BY <1>1, <1>2 DEF ReaperOK, TeardownOK

\* Most steps begin no removal.
LEMMA CalmGate ==
    ASSUME SafetyInv, TeardownInv, Disciplined, NEW p \in Procs,
           \/ StartAcquire(p) \/ StartReconcile(p) \/ StartRelease(p) \/ StartAdopt(p)
           \/ Enter(p) \/ Exit(p) \/ Pause(p) \/ ScanFds(p)
           \/ JudgeFree(p) \/ ReconcileDone(p)
    PROVE  Calm(p)
<1> USE GateAssumption DEF SafetyInv, TypeInv, TypeOK, GateTypeOK, ProcessesOK, CommandAt, Claiming,
            TeardownInv, LocalInv, PlaceOK, Releasing, Reaping, TearingDown,
            Calm, Goto, gateVars, locals, leaseVars, history, envVars
<1>1. CASE StartAcquire(p)
  BY <1>1 DEF StartAcquire, Begin
<1>2. CASE StartReconcile(p)
  BY <1>2 DEF StartReconcile, Begin
<1>3. CASE StartRelease(p)
  BY <1>3 DEF StartRelease, Begin
<1>4. CASE StartAdopt(p)
  BY <1>4 DEF StartAdopt, Begin
<1>5. CASE Enter(p)
  BY <1>5 DEF Enter
<1>6. CASE Exit(p)
  BY <1>6 DEF Exit, Finish
<1>7. CASE Pause(p)
  BY <1>7 DEF Pause, HasTheBox
<1>8. CASE ScanFds(p)
  BY <1>8 DEF ScanFds
<1>9. CASE JudgeFree(p)
  BY <1>9 DEF JudgeFree
<1>10. CASE ReconcileDone(p)
  BY <1>10 DEF ReconcileDone, Finish
<1> QED BY <1>1, <1>2, <1>3, <1>4, <1>5, <1>6, <1>7, <1>8, <1>9, <1>10

LEMMA CalmCommand ==
    ASSUME SafetyInv, TeardownInv, Disciplined, NEW p \in Procs,
           \/ ClaimStep(p) \/ ReleaseStep(p) \/ GiveUp(p) \/ Fail(p) \/ Crash(p),
           ~Mark(p)
    PROVE  Calm(p)
<1> USE GateAssumption DEF SafetyInv, TypeInv, TypeOK, GateTypeOK, ProcessesOK, CommandAt, Claiming,
            LocalsOK, LocalOK, NeedsLease,
            TeardownInv, LocalInv, PlaceOK, Releasing, Reaping, TearingDown,
            Calm, Goto, gateVars, locals, leaseVars, history, envVars
<1>1. CASE Choose(p)
  BY <1>1 DEF Choose, Pairs
<1>2. CASE Refuse(p)
  BY <1>2 DEF Refuse
<1>3. CASE ClaimWon(p)
  BY <1>3 DEF ClaimWon, MakeLock
<1>4. CASE ClaimLost(p)
  BY <1>4 DEF ClaimLost
<1>5. CASE AdoptLost(p)
  BY <1>5 DEF AdoptLost, Finish
<1>6. CASE WriteLock(p)
  BY <1>6 DEF WriteLock, PutItem, PutCopy
<1>7. CASE AdoptLock(p)
  BY <1>7 DEF AdoptLock, PutItem, PutCopy
<1>8. CASE Dirty(p)
  BY <1>8 DEF Dirty, ClearClean
<1>9. CASE Grant(p)
  BY <1>9 DEF Grant, WriteRecord, Pairs
<1>10. CASE AdoptRecord(p)
  BY <1>10 DEF AdoptRecord, WriteRecord, Finish
<1>11. CASE FdsClosed(p)
  BY <1>11 DEF FdsClosed
<1>12. CASE FdsOpen(p)
  BY <1>12 DEF FdsOpen, Finish
<1>13. CASE Check(p)
  BY <1>13 DEF Check
<1>14. CASE Reset(p)
  BY <1>14 DEF Reset
<1>15. CASE Recheck(p)
  BY <1>15 DEF Recheck
<1>17. CASE Delete(p)
  BY <1>17 DEF Delete, DeleteRecord
<1>18. CASE Refresh(p)
  BY <1>18 DEF Refresh
<1>19. CASE Rerecord(p)
  BY <1>19 DEF Rerecord, WriteRecord
<1>20. CASE MarkAll(p)
  BY <1>20 DEF MarkAll, MarkClean
<1>21. CASE GiveBack(p)
  BY <1>21 DEF GiveBack
<1>22. CASE NothingToGiveBack(p)
  BY <1>22 DEF NothingToGiveBack, Finish
<1>23. CASE GiveUp(p)
  BY <1>23 DEF GiveUp, Finish
<1>24. CASE Fail(p)
  BY <1>24 DEF Fail, Finish
<1>25. CASE Crash(p)
  BY <1>25 DEF Crash, Finish
<1>26. CASE ClaimStep(p)
  BY <1>1, <1>2, <1>3, <1>4, <1>5, <1>6, <1>7, <1>8, <1>9, <1>10, <1>26 DEF ClaimStep
<1>27. CASE ReleaseStep(p)
  BY <1>11, <1>12, <1>13, <1>14, <1>15, <1>17, <1>18, <1>19, <1>20, <1>21, <1>22, <1>27 DEF ReleaseStep
<1> QED BY <1>23, <1>24, <1>25, <1>26, <1>27

-----------------------------------------------------------------------------
(* The steps that remove.                                                   *)

\* What reconcile finds expired is a verdict: whoever drew the lease is past the unit.
LEMMA JudgeKeeps ==
    ASSUME SafetyInv, TeardownInv, TypeInv', NEW p \in Procs, JudgeStale(p), Footprint(p)
    PROVE  ReaperOK(p)' /\ TeardownOK(p)'
<1> USE DEF SafetyInv, TypeInv, TypeOK
<1>1. ASSUME NEW d \in Stale(p) PROVE Verdict(d)
  <2>1. /\ d \in Units \X Leases /\ copy[d[1]] = d[2] /\ d[1] \in Units /\ d[2] \in Leases
        /\ Expired(d[1])
    BY DEF Stale
  <2>2. d[2] \in used
    BY <2>1, GateAssumption DEF TeardownInv
  <2>3. \A q \in Procs : Granting(q) => d \notin todo[q]
    BY <2>1 DEF TeardownInv, LocalInv, Unlocked
  <2> QED BY <2>1, <2>2, <2>3 DEF Verdict, Expired
<1>2. todo'[p] = Stale(p) /\ pc'[p] \in {"enter", "drop"} /\ cmd'[p] = cmd[p]
  BY DEF JudgeStale, Goto
<1>3. ASSUME NEW d \in todo'[p] PROVE Verdict(d)'
  <2>1. Verdict(d) /\ d \in Units \X Leases
    BY <1>1, <1>2, <1>3 DEF Stale
  <2> QED BY <2>1, VerdictStays
<1>4. cmd[p] \notin Releasing
  BY DEF JudgeStale, ProcessesOK, CommandAt, Claiming, Releasing
<1> QED BY <1>2, <1>3, <1>4 DEF ReaperOK, TeardownOK, TearingDown

\* A verdict carried to the unlink.
LEMMA RemovalReaper ==
    ASSUME SafetyInv, TeardownInv, TypeInv', NEW p \in Procs, Footprint(p),
           Drop(p) \/ Spare(p) \/ Unlink(p) \/ Rmdir(p) \/ Forget(p) \/ DropsDone(p)
    PROVE  ReaperOK(p)'
<1> USE DEF SafetyInv, TypeInv, TypeOK
<1>1. /\ todo'[p] \subseteq todo[p]
      /\ pc'[p] = "unlink" => item'[p] \in todo[p]
      /\ Reaping(p)' => Reaping(p)
  <2> USE DEF Reaping, Goto, locals
  <2>1. CASE Drop(p)
    BY <2>1 DEF Drop
  <2>2. CASE Spare(p)
    BY <2>2 DEF Spare
  <2>3. CASE Unlink(p)
    BY <2>3 DEF Unlink
  <2>4. CASE Rmdir(p)
    BY <2>4 DEF Rmdir
  <2>5. CASE Forget(p)
    BY <2>5 DEF Forget
  <2>6. CASE DropsDone(p)
    BY <2>6 DEF DropsDone
  <2> QED BY <2>1, <2>2, <2>3, <2>4, <2>5, <2>6
<1>2. ASSUME Reaping(p)', NEW d \in todo[p] PROVE Verdict(d)'
  <2>1. Verdict(d) /\ d \in Units \X Leases
    BY <1>1, <1>2 DEF TeardownInv, LocalInv, ReaperOK
  <2> QED BY <2>1, VerdictStays
<1>3. Reaping(p)' /\ pc'[p] = "unlink" => Verdict(item[p])'
  BY <1>1, <1>2
<1> QED BY <1>1, <1>2, <1>3 DEF ReaperOK

\* A unit leaves the release's list with its lock; the lease is only deleted when all have.
LEMMA RemovalTeardown ==
    ASSUME SafetyInv, TeardownInv, TypeInv', NEW p \in Procs, Footprint(p),
           Drop(p) \/ Spare(p) \/ Unlink(p) \/ Rmdir(p) \/ Forget(p) \/ DropsDone(p)
    PROVE  TeardownOK(p)'
<1> SUFFICES ASSUME TearingDown(p)' PROVE TeardownOK(p)'
  BY DEF TeardownOK
<1> USE DEF SafetyInv, TypeInv, TypeOK, Goto, locals, leaseVars, gateVars, history
<1>1. /\ UNCHANGED <<cmd, cur, units>>
      /\ pc[p] \in {"drop", "unlink", "rmdir", "forget"}
  BY DEF Drop, Spare, Unlink, Rmdir, Forget, DropsDone
<1>2. TearingDown(p) /\ cur[p] \in Leases /\ ~Reaping(p)
  BY <1>1, GateAssumption DEF TearingDown, Releasing, CommandNames, LocalsOK, LocalOK, Reaping
<1>3. UnitsOf(p)' = UnitsOf(p) /\ UnitsOf(p) \subseteq Units /\ cur'[p] = cur[p]
  BY <1>1, <1>2 DEF UnitsOf
<1>4. \A u \in UnitsOf(p) :
          \/ <<u, cur[p]>> \in todo[p]
          \/ pc[p] = "unlink" /\ item[p] = <<u, cur[p]>>
          \/ copy[u] # cur[p] /\ <<u, cur[p]>> \notin tenure
  BY <1>2 DEF TeardownInv, LocalInv, TeardownOK
<1>5. \A u \in Units : copy[u] # cur[p] => <<u, cur[p]>> \notin tenure
  <2> SUFFICES ASSUME NEW u \in Units, copy[u] # cur[p], <<u, cur[p]>> \in tenure PROVE FALSE
    OBVIOUS
  <2>1. copy[<<u, cur[p]>>[1]] = <<u, cur[p]>>[2]
    BY DEF TenureIsLocked
  <2> QED BY <2>1
<1>6. CASE Drop(p)
  <2>1. PICK d \in todo[p] : todo'[p] = todo[p] \ {d} /\ item'[p] = d
    BY <1>6 DEF Drop
  <2>2. pc[p] = "drop" /\ pc'[p] = "unlink" /\ copy' = copy /\ tenure' = tenure
    BY <1>6 DEF Drop
  <2> QED BY <1>3, <1>4, <2>1, <2>2 DEF TeardownOK
<1>7. CASE Spare(p)
  <2>1. PICK d \in todo[p] : todo'[p] = todo[p] \ {d} /\ copy[d[1]] # d[2]
    BY <1>7 DEF Spare, StillNames
  <2>2. pc[p] = "drop" /\ pc'[p] = "drop" /\ copy' = copy /\ tenure' = tenure
    BY <1>7 DEF Spare
  <2>3. \A u \in UnitsOf(p) : d = <<u, cur[p]>> => copy[u] # cur[p] /\ <<u, cur[p]>> \notin tenure
    BY <1>3, <1>5, <2>1
  <2> QED BY <1>3, <1>4, <2>1, <2>2, <2>3 DEF TeardownOK
<1>8. CASE Unlink(p)
  <2>1. /\ pc[p] = "unlink" /\ pc'[p] = "rmdir" /\ todo' = todo
        /\ copy' = [copy EXCEPT ![item[p][1]] = NoLease] /\ tenure' = tenure \ {item[p]}
    BY <1>8 DEF Unlink, UnlinkCopy
  <2>2. \A u \in Units : copy'[u] = copy[u] \/ copy'[u] = NoLease
    BY <2>1 DEF GateTypeOK
  <2>3. \A u \in Units : item[p] = <<u, cur[p]>> => copy'[u] = NoLease /\ <<u, cur[p]>> \notin tenure'
    BY <2>1 DEF GateTypeOK
  <2> QED BY <1>2, <1>3, <1>4, <2>1, <2>2, <2>3, GateAssumption DEF TeardownOK
<1>9. CASE Rmdir(p) \/ Forget(p)
  <2>1. /\ pc[p] # "unlink" /\ pc'[p] # "unlink" /\ pc'[p] # "delete" /\ todo' = todo
        /\ copy' = copy /\ tenure' = tenure
    BY <1>9 DEF Rmdir, RemoveLock, Forget, DeleteRecord
  <2> QED BY <1>3, <1>4, <2>1 DEF TeardownOK
<1>10. CASE DropsDone(p)
  <2>1. pc[p] = "drop" /\ todo[p] = {} /\ todo' = todo /\ copy' = copy /\ tenure' = tenure
    BY <1>10 DEF DropsDone
  <2> QED BY <1>3, <1>4, <2>1 DEF TeardownOK
<1> QED BY <1>6, <1>7, <1>8, <1>9, <1>10

\* release begins its teardown with every unit on its list.
LEMMA MarkKeeps ==
    ASSUME SafetyInv, TeardownInv, TypeInv', NEW p \in Procs, Mark(p)
    PROVE  ReaperOK(p)' /\ TeardownOK(p)'
<1> USE DEF SafetyInv, TypeInv, TypeOK, Mark, MarkClean, Goto, leaseVars
<1>1. /\ pc[p] = "mark" /\ pc'[p] = "drop" /\ cmd' = cmd /\ cur' = cur /\ units' = units
      /\ todo'[p] = Pairs(UnitsOf(p), cur[p])
  OBVIOUS
<1>2. cur[p] \in Leases /\ cmd[p] # "reconcile"
  BY <1>1 DEF LocalsOK, LocalOK, NeedsLease, TeardownInv, LocalInv, PlaceOK
<1>3. ~Reaping(p)'
  BY <1>1, <1>2, GateAssumption DEF Reaping
<1>4. \A u \in UnitsOf(p)' : <<u, cur'[p]>> \in todo'[p]
  BY <1>1 DEF UnitsOf, Pairs
<1> QED BY <1>1, <1>3, <1>4 DEF ReaperOK, TeardownOK

-----------------------------------------------------------------------------
LEMMA TeardownInit == Init => TeardownInv
<1> SUFFICES ASSUME Init PROVE TeardownInv
  OBVIOUS
<1>1. ASSUME NEW p \in Procs PROVE pc[p] = "idle" /\ cmd[p] = "none" /\ todo[p] = {}
  BY <1>1 DEF Init
<1>2. \A p \in Procs : PlaceOK(p) /\ Unlocked(p) /\ ReaperOK(p) /\ TeardownOK(p)
  BY <1>1 DEF PlaceOK, Claiming, Unlocked, Granting, ReaperOK, TeardownOK, TearingDown, Releasing
<1>3. \A p \in Procs : GrantedOK(p)
  BY <1>1 DEF GrantedOK, Releasing
<1> QED BY <1>2, <1>3 DEF Init, GateInit, TeardownInv, LocalInv

\* The environment only makes leases expire.
LEMMA TeardownEnvironment ==
    ASSUME SafetyInv, TeardownInv, TypeInv', Environment \/ UNCHANGED vars
    PROVE  TeardownInv'
<1>1. UNCHANGED <<gateVars, pc, locals, leaseVars, history>>
  BY DEF Environment, ClearStaleMutex, Tick, OpenOrClose, OwnerDies, vars
<1>2. alive' \subseteq alive /\ (now' = now \/ now' = now + 1)
  BY DEF Environment, ClearStaleMutex, Tick, OpenOrClose, OwnerDies, vars, envVars
<1>3. ASSUME NEW p \in Procs PROVE PlaceOK(p)' /\ GrantedOK(p)' /\ Unlocked(p)' /\ TeardownOK(p)'
  BY <1>1 DEF TeardownInv, LocalInv, PlaceOK, GrantedOK, Unlocked, TeardownOK, TearingDown, Claiming,
       Granting, UnitsOf, gateVars, locals, leaseVars, history
<1>4. ASSUME NEW d \in Units \X Leases, Verdict(d) PROVE Verdict(d)'
  <2>1. now \in Nat /\ stamp[d[1]] \in Nat /\ Grace \in Nat
    BY GateAssumption, LeasesAssumption DEF SafetyInv, TypeInv, TypeOK, GateTypeOK
  <2>2. now - stamp[d[1]] > Grace => now' - stamp[d[1]] > Grace
    BY <1>2, <2>1
  <2>3. copy' = copy /\ stamp' = stamp /\ used' = used /\ todo' = todo
        /\ (\A q \in Procs : Granting(q)' = Granting(q))
    BY <1>1 DEF gateVars, leaseVars, locals, Granting
  <2> QED BY <1>2, <1>4, <2>2, <2>3 DEF Verdict
<1>5. ASSUME NEW p \in Procs PROVE ReaperOK(p)'
  <2>1. /\ pc' = pc /\ todo' = todo /\ item' = item /\ Reaping(p)' = Reaping(p)
    BY <1>1 DEF locals, Reaping
  <2>2. ASSUME Reaping(p), NEW d, d \in todo[p] \/ (pc[p] = "unlink" /\ d = item[p])
        PROVE  Verdict(d)'
    <3>1. Verdict(d) /\ d \in Units \X Leases
      BY <2>2, Ids DEF TeardownInv, LocalInv, ReaperOK, SafetyInv, TypeInv, TypeOK
    <3> QED BY <1>4, <3>1
  <2> QED BY <2>1, <2>2 DEF ReaperOK
<1>6. records' \subseteq granted' /\ (\A u \in Units : copy'[u] \in used' \cup {NoLease})
  BY <1>1 DEF TeardownInv, gateVars, leaseVars, history
<1> QED BY <1>3, <1>5, <1>6 DEF TeardownInv, LocalInv

\* Each step of a command keeps the invariant.
LEMMA TeardownStep ==
    ASSUME SafetyInv, TeardownInv, TypeInv', Disciplined, NEW p \in Procs,
           Start(p) \/ Step(p) \/ GiveUp(p) \/ Fail(p) \/ Crash(p)
    PROVE  TeardownInv'
<1>1. ~StartRenew(p) /\ ~RenewStep(p)
  BY DEF SafetyInv, NoRenew, Disciplined, StartRenew, Begin, RenewStep, Rewrite, Replace, NotReplaced, ReplaceDone
<1>2. Footprint(p) /\ Tidy(p)
  BY <1>1, TidyGate, TidyCommand DEF Start, Step, MutexStep, ReconcileStep
<1>3. ReaperOK(p)' /\ TeardownOK(p)'
  <2>1. CASE Mark(p)
    BY <2>1, MarkKeeps
  <2>2. CASE JudgeStale(p)
    BY <1>2, <2>2, JudgeKeeps
  <2>3. CASE Drop(p) \/ Spare(p) \/ Unlink(p) \/ Rmdir(p) \/ Forget(p) \/ DropsDone(p)
    BY <1>2, <2>3, RemovalReaper, RemovalTeardown
  <2>4. CASE /\ ~Mark(p) /\ ~JudgeStale(p)
             /\ ~(Drop(p) \/ Spare(p) \/ Unlink(p) \/ Rmdir(p) \/ Forget(p) \/ DropsDone(p))
    <3>1. Calm(p)
      BY <1>1, <2>4, CalmGate, CalmCommand DEF Start, Step, MutexStep, ReconcileStep
    <3> QED BY <1>2, <3>1, CalmKeeps
  <2> QED BY <2>1, <2>2, <2>3, <2>4
<1>4. LocalInv(p)'
  BY <1>2, <1>3, OwnKept DEF LocalInv, Tidy
<1>5. \A q \in Procs \ {p} : LocalInv(q)'
  BY <1>2, OthersKeep
<1>6. \A u \in Units : copy'[u] \in used' \cup {NoLease}
  BY <1>2, Writes DEF Footprint, TeardownInv
<1> QED BY <1>2, <1>4, <1>5, <1>6 DEF TeardownInv, Tidy

LEMMA TeardownNext == Disciplined /\ SafetyInv /\ TeardownInv /\ [Next]_vars => TeardownInv'
<1> SUFFICES ASSUME Disciplined, SafetyInv, TeardownInv, [Next]_vars PROVE TeardownInv'
  OBVIOUS
<1>1. TypeInv'
  BY TypeNext DEF SafetyInv
<1> QED BY <1>1, TeardownStep, TeardownEnvironment DEF Next

\* When release deletes the record of a lease, none of its locks is left and none of its
\* units has it as a tenant, whatever was reaped and granted in between
\* (keymaster.py release_result: unlock, then forget).
THEOREM TeardownIsCompleteTheorem ==
    ASSUME Disciplined
    PROVE  Spec => []TeardownIsComplete
<1>1. TeardownInv => TeardownIsComplete
  <2> SUFFICES ASSUME TeardownInv, NEW p \in Procs, pc[p] = "delete", NEW u \in UnitsOf(p)
               PROVE  copy[u] # cur[p] /\ <<u, cur[p]>> \notin tenure
    BY DEF TeardownIsComplete
  <2>1. TearingDown(p) /\ TeardownOK(p)
    BY DEF TeardownInv, LocalInv, PlaceOK, TearingDown
  <2> QED BY <2>1 DEF TeardownOK
<1>2. SafetyInv /\ TeardownInv /\ [Next]_vars => SafetyInv' /\ TeardownInv'
  BY SafetyNext, TeardownNext
<1> QED BY <1>1, <1>2, SafetyInit, TeardownInit, PTL DEF Spec

-----------------------------------------------------------------------------
\* A tenancy ends at an unlink only.
LEMMA EndsAtUnlink ==
    ASSUME SafetyInv, [Next]_vars, NEW t \in tenure \ tenure'
    PROVE  \E p \in Procs : Unlink(p) /\ t = item[p]
<1>1. ASSUME NEW p \in Procs, Grant(p) \/ AdoptLock(p) PROVE FALSE
  BY <1>1 DEF Grant, AdoptLock
<1>2. ASSUME NEW p \in Procs, Unlink(p) PROVE t = item[p]
  BY <1>2 DEF Unlink
<1>3. CASE \A p \in Procs : ~Grant(p) /\ ~AdoptLock(p) /\ ~Unlink(p)
  BY <1>3, OthersStutter DEF Ledger!ledgerVars
<1> QED BY <1>1, <1>2, <1>3

\* A reap takes a unit from its tenant only when the lease has expired: its owner is
\* dead, or its grace window is over; however long ago, and outside the mutex, reconcile
\* came to that verdict (README, "How it decides what's free").
THEOREM OnlyTheExpiredAreReapedTheorem ==
    ASSUME Disciplined
    PROVE  Spec => OnlyTheExpiredAreReaped
<1>1. SafetyInv /\ TeardownInv /\ [Next]_vars =>
        [\A t \in tenure \ tenure' :
          (\E p \in Procs : pc[p] = "unlink" /\ Reaping(p)) => Expired(t[1])]_vars
  <2> SUFFICES ASSUME SafetyInv, TeardownInv, [Next]_vars, NEW t \in tenure \ tenure',
                      NEW q \in Procs, pc[q] = "unlink", Reaping(q)
               PROVE  Expired(t[1])
    OBVIOUS
  <2>1. PICK p \in Procs : Unlink(p) /\ t = item[p]
    BY EndsAtUnlink
  <2>2. p = q
    BY <2>1 DEF Unlink, SafetyInv, MutexHeld, InCS, CSLabels
  <2>3. Verdict(t)
    BY <2>1, <2>2 DEF TeardownInv, LocalInv, ReaperOK
  <2>4. copy[t[1]] = t[2]
    BY DEF SafetyInv, TenureIsLocked
  <2> QED BY <2>3, <2>4 DEF Verdict, Expired
<1>2. SafetyInv /\ TeardownInv /\ [Next]_vars => SafetyInv' /\ TeardownInv'
  BY SafetyNext, TeardownNext
<1> QED BY <1>1, <1>2, SafetyInit, TeardownInit, PTL DEF Spec, OnlyTheExpiredAreReaped

-----------------------------------------------------------------------------
\* Only acquire's last step before its grant removes clean markers.
LEMMA OthersKeepClean ==
    ASSUME [Next]_vars, \A p \in Procs : ~Dirty(p)
    PROVE  clean \subseteq clean'
<1> USE DEF gateVars
<1>1. CASE UNCHANGED vars
  BY <1>1 DEF vars
<1>2. CASE Environment
  BY <1>2 DEF Environment, ClearStaleMutex, Tick, OpenOrClose, OwnerDies
<1>3. ASSUME NEW p \in Procs, Start(p) PROVE clean \subseteq clean'
  BY <1>3 DEF Start, Begin, StartAcquire, StartReconcile, StartRelease, StartRenew, StartAdopt
<1>4. ASSUME NEW p \in Procs, MutexStep(p) \/ ReconcileStep(p) PROVE clean \subseteq clean'
  BY <1>4 DEF MutexStep, Enter, Exit, Pause, ReconcileStep, ScanFds, JudgeStale, JudgeFree, ReconcileDone,
       Drop, Spare, Unlink, UnlinkCopy, Rmdir, RemoveLock, Forget, DeleteRecord, DropsDone
<1>5. ASSUME NEW p \in Procs, ClaimStep(p) \/ RenewStep(p) PROVE clean \subseteq clean'
  BY <1>5 DEF ClaimStep, Choose, Refuse, ClaimWon, MakeLock, ClaimLost, AdoptLost, WriteLock, AdoptLock,
       PutItem, PutCopy, Grant, AdoptRecord, WriteRecord,
       RenewStep, Rewrite, Replace, NotReplaced, ReplaceDone
<1>6. ASSUME NEW p \in Procs, ReleaseStep(p) PROVE clean \subseteq clean'
  BY <1>6 DEF ReleaseStep, FdsClosed, FdsOpen, Check, Reset, Recheck, Mark, MarkClean, Delete, DeleteRecord,
       Refresh, Rerecord, WriteRecord, MarkAll, GiveBack, NothingToGiveBack
<1>7. ASSUME NEW p \in Procs, GiveUp(p) \/ Fail(p) \/ Crash(p) PROVE clean \subseteq clean'
  BY <1>7 DEF GiveUp, Fail, Crash
<1> QED BY <1>1, <1>2, <1>3, <1>4, <1>5, <1>6, <1>7 DEF Next, Step

\* A clean marker is only removed by a request that holds every one of its units: an
\* aborted request dirties nothing (keymaster.py acquire).
THEOREM OnlyAGrantDirtiesTheorem ==
    ASSUME Disciplined
    PROVE  Spec => OnlyAGrantDirties
<1>1. SafetyInv /\ [Next]_vars =>
        [\A u \in clean \ clean' :
          \E l \in used : u \in units[l] /\ \A v \in units[l] : copy'[v] = l]_vars
  <2> SUFFICES ASSUME SafetyInv, [Next]_vars, NEW u \in clean \ clean'
               PROVE  \E l \in used : u \in units[l] /\ \A v \in units[l] : copy'[v] = l
    OBVIOUS
  <2>1. PICK p \in Procs : Dirty(p)
    BY OthersKeepClean
  <2>2. Granting(p) /\ pc[p] = "dirty" /\ copy' = copy /\ u \in UnitsOf(p)
    BY <2>1 DEF Dirty, ClearClean, Granting
  <2>3. todo[p] = {} /\ (\A v \in UnitsOf(p) : copy[v] = cur[p])
    BY <2>2 DEF SafetyInv, ProcessesOK, ClaimOK
  <2>4. cur[p] \in used
    BY <2>2, Ids DEF SafetyInv
  <2> QED BY <2>2, <2>3, <2>4 DEF UnitsOf
<1>2. SafetyInv /\ [Next]_vars => SafetyInv'
  BY SafetyNext
<1> QED BY <1>1, <1>2, SafetyInit, PTL DEF Spec, OnlyAGrantDirties

=============================================================================
