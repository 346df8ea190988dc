---------------------------- MODULE MutexProofs ----------------------------
(***************************************************************************)
(* Proofs about critical_section, for every number of processes, nesting   *)
(* depth, timeout and staleness limit.                                     *)
(***************************************************************************)
EXTENDS Mutex, TLAPS

\* Whoever made the directory that is there is inside.
MakerInside == \A p \in Procs : dir = p => pc[p] = "inside"

\* As long as no directory is orphaned, nobody judges one stale, and the
\* directory tells who is inside.
NothingStale ==
    ~orphaned => /\ dir # Orphan
                 /\ dir # None => age <= Stale
                 /\ \A p \in Procs : pc[p] # "rmdir"
                 /\ \A p \in Procs : pc[p] = "inside" => dir = p

LEMMA InitOK == Init => TypeOK /\ MakerInside /\ NothingStale
<1> SUFFICES ASSUME Init PROVE TypeOK /\ MakerInside /\ NothingStale
  OBVIOUS
<1>1. TypeOK
  <2>1. 0 \in 0..(Stale + 1) /\ 0 \in 0..(Timeout + 1) /\ 0 \in 0..MaxDepth /\ 0 \in 0..MaxCrashes
    BY MutexAssumption
  <2>2. "idle" \in Labels
    BY DEF Labels
  <2> QED BY <2>1, <2>2 DEF Init, TypeOK
<1>2. MakerInside
  BY MutexAssumption DEF Init, MakerInside
<1>3. NothingStale
  BY MutexAssumption DEF Init, NothingStale
<1> QED BY <1>1, <1>2, <1>3

\* A section that is left has been entered: the depth never goes below zero.
DepthOK == \A p \in Procs : pc[p] = "inside" => depth[p] > 0

LEMMA TypeStep == TypeOK /\ DepthOK /\ [Next]_vars => TypeOK' /\ DepthOK'
<1> SUFFICES ASSUME TypeOK, DepthOK, [Next]_vars PROVE TypeOK' /\ DepthOK'
  OBVIOUS
<1> USE MutexAssumption DEF TypeOK, DepthOK, Labels, Waiting, Goto
<1>1. ASSUME NEW p \in Procs, Begin(p) \/ Step(p) PROVE TypeOK' /\ DepthOK'
  BY <1>1 DEF Begin, Step, Enter, Busy, Stat, Clear, Sleep, GiveUp
<1>2. ASSUME NEW p \in Procs, Nest(p) PROVE TypeOK' /\ DepthOK'
  BY <1>2 DEF Nest
<1>3. ASSUME NEW p \in Procs, Leave(p) PROVE TypeOK' /\ DepthOK'
  <2>1. depth' \in [Procs -> 0..MaxDepth]
    BY <1>3 DEF Leave
  <2>2. DepthOK'
    BY <1>3, <2>1 DEF Leave
  <2> QED BY <1>3, <2>1, <2>2 DEF Leave
<1>4. ASSUME NEW p \in Procs, Crash(p) PROVE TypeOK' /\ DepthOK'
  BY <1>4 DEF Crash
<1>5. CASE Tick
  BY <1>5 DEF Tick
<1>6. CASE UNCHANGED vars
  BY <1>6 DEF vars
<1> QED BY <1>1, <1>2, <1>3, <1>4, <1>5, <1>6 DEF Next

LEMMA MakerStep == TypeOK /\ MakerInside /\ [Next]_vars => MakerInside'
<1> SUFFICES ASSUME TypeOK, MakerInside, [Next]_vars PROVE MakerInside'
  OBVIOUS
<1> USE MutexAssumption DEF TypeOK, MakerInside, Goto
<1>1. ASSUME NEW p \in Procs, Begin(p) \/ Step(p) PROVE MakerInside'
  BY <1>1 DEF Begin, Step, Enter, Busy, Stat, Clear, Sleep, GiveUp
<1>2. ASSUME NEW p \in Procs, Nest(p) \/ Leave(p) \/ Crash(p) PROVE MakerInside'
  BY <1>2 DEF Nest, Leave, Crash
<1>3. CASE Tick \/ UNCHANGED vars
  BY <1>3 DEF Tick, vars
<1> QED BY <1>1, <1>2, <1>3 DEF Next

LEMMA StaleStep ==
    ASSUME ~Overrun, TypeOK, MakerInside, NothingStale, [Next]_vars
    PROVE  NothingStale'
<1> USE MutexAssumption DEF TypeOK, MakerInside, NothingStale, Goto
<1>1. ASSUME NEW p \in Procs, Begin(p) \/ Enter(p) \/ Busy(p) \/ Sleep(p) \/ GiveUp(p) PROVE NothingStale'
  BY <1>1 DEF Begin, Enter, Busy, Sleep, GiveUp
<1>2. ASSUME NEW p \in Procs, Stat(p) \/ Clear(p) PROVE NothingStale'
  BY <1>2 DEF Stat, LooksStale, Clear
<1>3. ASSUME NEW p \in Procs, Nest(p) \/ Leave(p) \/ Crash(p) PROVE NothingStale'
  <2>1. CASE Nest(p)
    BY <2>1 DEF Nest
  <2>2. CASE Leave(p)
    BY <2>2 DEF Leave
  <2>3. CASE Crash(p)
    BY <2>3 DEF Crash
  <2> QED BY <1>3, <2>1, <2>2, <2>3
<1>4. CASE Tick
  BY <1>4 DEF Tick
<1>5. CASE UNCHANGED vars
  BY <1>5 DEF vars
<1> QED BY <1>1, <1>2, <1>3, <1>4, <1>5 DEF Next, Step

\* Every variable of the mutex keeps its type.
THEOREM MutexTypeCorrect == Spec => []TypeOK
<1>1. Init => DepthOK
  BY DEF Init, DepthOK
<1> QED BY <1>1, InitOK, TypeStep, PTL DEF Spec

\* Critical sections that each end within MUTEX_STALE_SECONDS exclude one another,
\* until a process is killed inside one.
THEOREM MutualExclusion ==
    ASSUME ~Overrun
    PROVE  Spec => []ExclusiveUntilACrash
<1>1. NothingStale /\ MakerInside => ExclusiveUntilACrash
  BY DEF NothingStale, MakerInside, ExclusiveUntilACrash, Inside
<1>2. TypeOK /\ MakerInside /\ NothingStale /\ [Next]_vars => NothingStale'
  BY StaleStep
<1>3. Init => DepthOK
  BY DEF Init, DepthOK
<1> QED BY <1>1, <1>2, <1>3, InitOK, TypeStep, MakerStep, PTL DEF Spec

\* With or without crashes and overruns, the loop does nothing to the directory
\* that Leases does not allow for.
THEOREM MutexImplementsAtomicMutex == Spec => ImplementsAtomicMutex
<1>1. Init => Lock!LockInit
  BY DEF Init, Lock!LockInit, Inside
<1>2. TypeOK /\ MakerInside /\ [Next]_vars => [Lock!LockNext]_Lock!lockVars
  <2> SUFFICES ASSUME TypeOK, MakerInside, [Next]_vars PROVE [Lock!LockNext]_Lock!lockVars
    OBVIOUS
  <2> USE DEF TypeOK, Goto, Inside, Lock!lockVars
  <2>1. ASSUME NEW p \in Procs, Begin(p) \/ Busy(p) \/ Stat(p) \/ Sleep(p) \/ GiveUp(p) \/ Nest(p)
        PROVE  UNCHANGED Lock!lockVars
    BY <2>1 DEF Begin, Busy, Stat, Sleep, GiveUp, Nest
  <2>2. ASSUME NEW p \in Procs, Enter(p) PROVE Lock!Enter(p)
    BY <2>2 DEF Enter, Lock!Enter
  <2>3. ASSUME NEW p \in Procs, Clear(p) PROVE Lock!ClearStale \/ UNCHANGED Lock!lockVars
    BY <2>3 DEF Clear, Lock!ClearStale
  <2>4. ASSUME NEW p \in Procs, Leave(p) PROVE Lock!Leave(p) \/ UNCHANGED Lock!lockVars
    BY <2>4 DEF Leave, Lock!Leave
  <2>5. ASSUME NEW p \in Procs, Crash(p) PROVE Lock!Die(p) \/ UNCHANGED Lock!lockVars
    <3>1. CASE pc[p] = "inside"
      BY <2>5, <3>1 DEF Crash, Lock!Die
    <3>2. CASE pc[p] # "inside"
      BY <2>5, <3>2 DEF Crash, MakerInside
    <3> QED BY <3>1, <3>2
  <2>6. CASE Tick \/ UNCHANGED vars
    BY <2>6 DEF Tick, vars
  <2> QED BY <2>1, <2>2, <2>3, <2>4, <2>5, <2>6 DEF Next, Step, Lock!LockNext
<1>3. Init => DepthOK
  BY DEF Init, DepthOK
<1> QED BY <1>1, <1>2, <1>3, InitOK, TypeStep, MakerStep, PTL DEF Spec, ImplementsAtomicMutex, Lock!LockSpec
=============================================================================
