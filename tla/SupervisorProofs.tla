-------------------------- MODULE SupervisorProofs --------------------------
(* What holds of gozer run however many signals are sent to it. *)
EXTENDS Supervisor, TLAPS

Trying == {"armed", "spawn", "assign", "wait"}

\* Where run stands tells what it has: the mask and the handlers, and whether the
\* command exists and is known.
Stage ==
    /\ phase \in {"acquire", "armed"} => blocked /\ child = "none"
    /\ phase = "acquire" => lease = "none"
    /\ phase \in Trying =>
          lease = "held" /\ \A s \in Signals : handler[s] = "forward"
    /\ phase \in {"spawn", "assign", "wait"} => ~blocked
    /\ phase \in {"acquire", "armed", "spawn", "assign"} => ~known
    /\ phase = "spawn" => child = "none"

\* A signal that came early is still held back, or run is past the start of the
\* command.
EarlyIsHeeded ==
    /\ phase \in {"acquire", "armed"} /\ early => pending # {}
    /\ phase = "spawn" => ~early

\* The finally is reached only without a known command.
FinallyIsAlone == phase \in Finally => ~LiveChild

\* Leaving the finally early is what leaks the lease.
LeaksLate == phase = "unmask" /\ lease = "held" => late \/ refused

Inv ==
    /\ TypeOK
    /\ Stage
    /\ EarlyIsHeeded
    /\ FinallyIsAlone
    /\ LeaksLate
    /\ LeaksOnlyWhenHitLate
    /\ NoCommandAfterASignal
    /\ NoReleaseUnderTheCommand

-----------------------------------------------------------------------------
LEMMA InitInv == Init => Inv
  <1> SUFFICES ASSUME Init PROVE Inv
    OBVIOUS
  <1>1. signals \in 0..MaxSignals
    BY SupervisorAssumption DEF Init
  <1>2. TypeOK
    BY <1>1 DEF Init, TypeOK, Signals, Codes
  <1> QED
    BY <1>2 DEF Init, Inv, Stage, EarlyIsHeeded, FinallyIsAlone, LeaksLate,
       LeaksOnlyWhenHitLate, NoCommandAfterASignal, NoReleaseUnderTheCommand, Trying,
       Finally, LiveChild, Over

\* The types, action by action.
LEMMA RunTypes == TypeOK /\ Run => TypeOK'
  <1> SUFFICES ASSUME TypeOK, Run PROVE TypeOK'
    OBVIOUS
  <1> USE DEF TypeOK, Signals, Codes
  <1>1. CASE Grant
    BY <1>1 DEF Grant
  <1>2. CASE NoGrant
    BY <1>2 DEF NoGrant
  <1>3. CASE Unblock
    BY <1>3 DEF Unblock, AfterInterrupt
  <1>4. CASE Fork
    BY <1>4 DEF Fork
  <1>5. CASE PopenFails
    BY <1>5 DEF PopenFails
  <1>6. CASE Assign
    BY <1>6 DEF Assign
  <1>7. CASE Wait
    BY <1>7 DEF Wait
  <1>8. CASE RestoreINT
    BY <1>8 DEF RestoreINT, Restore
  <1>9. CASE RestoreTERM
    BY <1>9 DEF RestoreTERM, Restore
  <1>10. CASE Release
    BY <1>10 DEF Release
  <1>11. CASE ReleaseRefuses
    BY <1>11 DEF ReleaseRefuses
  <1>12. CASE Unmask
    BY <1>12 DEF Unmask
  <1> QED
    BY <1>1, <1>2, <1>3, <1>4, <1>5, <1>6, <1>7, <1>8, <1>9, <1>10, <1>11, <1>12 DEF Run

\* The steps of run itself.
LEMMA RunInv == Inv /\ Run => Inv'
  <1> SUFFICES ASSUME Inv, Run PROVE Inv'
    OBVIOUS
  <1>0. TypeOK /\ TypeOK'
    BY RunTypes DEF Inv
  <1> USE <1>0 DEF Inv, Stage, EarlyIsHeeded, FinallyIsAlone, LeaksLate,
      LeaksOnlyWhenHitLate, NoCommandAfterASignal, NoReleaseUnderTheCommand, Signals,
      Trying, Finally, LiveChild, Over
  <1>1. CASE Grant
    BY <1>1 DEF Grant
  <1>2. CASE NoGrant
    BY <1>2 DEF NoGrant
  <1>3. CASE Unblock
    BY <1>3 DEF Unblock, AfterInterrupt
  <1>4. CASE Fork
    BY <1>4 DEF Fork
  <1>5. CASE PopenFails
    BY <1>5 DEF PopenFails
  <1>6. CASE Assign
    BY <1>6 DEF Assign
  <1>7. CASE Wait
    BY <1>7 DEF Wait
  <1>8. CASE RestoreINT
    BY <1>8 DEF RestoreINT, Restore
  <1>9. CASE RestoreTERM
    BY <1>9 DEF RestoreTERM, Restore
  <1>10. CASE Release
    BY <1>10 DEF Release
  <1>11. CASE ReleaseRefuses
    BY <1>11 DEF ReleaseRefuses
  <1>12. CASE Unmask
    BY <1>12 DEF Unmask
  <1> QED
    BY <1>1, <1>2, <1>3, <1>4, <1>5, <1>6, <1>7, <1>8, <1>9, <1>10, <1>11, <1>12 DEF Run

LEMMA SignalTypes ==
    ASSUME TypeOK, NEW s \in Signals, Held(s) \/ Forwarded(s) \/ Raised(s) \/ Plain(s)
    PROVE  TypeOK'
  <1>1. Sent(s)
    BY DEF Held, Forwarded, Raised, Plain
  <1>2. signals' \in 0..MaxSignals
    BY <1>1, SupervisorAssumption DEF Sent, TypeOK
  <1>3. early' \in BOOLEAN /\ late' \in BOOLEAN
    BY <1>1 DEF Sent
  <1> USE <1>2, <1>3 DEF TypeOK, Signals, Codes
  <1>4. CASE Held(s)
    BY <1>4 DEF Held
  <1>5. CASE Forwarded(s)
    BY <1>5 DEF Forwarded
  <1>6. CASE Raised(s)
    BY <1>6 DEF Raised, Raise, Interrupt, AfterInterrupt
  <1>7. CASE Plain(s)
    BY <1>7 DEF Plain, Interrupt, AfterInterrupt
  <1> QED
    BY <1>4, <1>5, <1>6, <1>7

\* A signal, wherever it falls.
LEMMA SignalInv == Inv /\ Signal => Inv'
  <1> SUFFICES ASSUME Inv, NEW s \in Signals,
                      Held(s) \/ Forwarded(s) \/ Raised(s) \/ Plain(s)
               PROVE  Inv'
    BY DEF Signal
  <1>0. TypeOK /\ TypeOK'
    BY SignalTypes DEF Inv
  <1>a. pending \cup {s} # {}
    OBVIOUS
  <1>b. Sent(s)
    BY DEF Held, Forwarded, Raised, Plain
  <1>c. (early' <=> early \/ child = "none") /\ (late' <=> late \/ phase \in Finally)
    BY <1>b DEF Sent
  <1>d. ~Over
    BY <1>b DEF Sent
  <1> USE <1>0, <1>c, <1>d DEF Inv, Stage, EarlyIsHeeded, FinallyIsAlone, LeaksLate,
      LeaksOnlyWhenHitLate, NoCommandAfterASignal, NoReleaseUnderTheCommand, Signals,
      Trying, Finally, LiveChild, Over
  <1>1. CASE Held(s)
    <2>1. Stage'
      BY <1>1, <1>a DEF Held
    <2>2. EarlyIsHeeded'
      BY <1>1, <1>a DEF Held
    <2>3. FinallyIsAlone'
      BY <1>1, <1>a DEF Held
    <2>4. LeaksLate'
      BY <1>1, <1>a DEF Held
    <2>5. LeaksOnlyWhenHitLate'
      BY <1>1, <1>a DEF Held
    <2>6. NoCommandAfterASignal'
      BY <1>1, <1>a DEF Held
    <2>7. NoReleaseUnderTheCommand'
      BY <1>1, <1>a DEF Held
    <2> QED
      BY <2>1, <2>2, <2>3, <2>4, <2>5, <2>6, <2>7
  <1>2. CASE Forwarded(s)
    BY <1>2 DEF Forwarded
  <1>3. CASE Raised(s)
    <2>0. phase' \in {"restoreINT", "unmask", "over"}
      BY <1>3 DEF Raised, Raise, Interrupt, AfterInterrupt
    <2>1. Stage'
      BY <2>0
    <2>2. EarlyIsHeeded'
      BY <2>0
    <2>3. FinallyIsAlone'
      BY <1>3 DEF Raised, Raise, Interrupt, AfterInterrupt
    <2>4. LeaksLate'
      <3>1. ~blocked /\ lease' = lease /\ refused' = refused
        BY <1>3 DEF Raised
      <3>2. phase' = "unmask" => phase' = AfterInterrupt(phase)
        BY <1>3 DEF Raised, Raise, Interrupt
      <3>3. phase' = "unmask" => phase \in Finally \cup {"acquire", "unmask"}
        <4> HIDE DEF Inv, Stage, EarlyIsHeeded, FinallyIsAlone, LeaksLate
        <4> QED
          BY <3>2 DEF AfterInterrupt, TypeOK
      <3> QED
        BY <3>1, <3>3
    <2>5. LeaksOnlyWhenHitLate'
      BY <1>3 DEF Raised, Raise, Interrupt, AfterInterrupt
    <2>6. NoCommandAfterASignal'
      BY <1>3 DEF Raised, Raise, Interrupt, AfterInterrupt
    <2>7. NoReleaseUnderTheCommand'
      BY <1>3 DEF Raised, Raise, Interrupt, AfterInterrupt
    <2> QED
      BY <2>1, <2>2, <2>3, <2>4, <2>5, <2>6, <2>7
  <1>4. CASE Plain(s)
    <2>0. phase' \in {"restoreINT", "unmask", "over"}
      BY <1>4 DEF Plain, Interrupt, AfterInterrupt
    <2>1. Stage'
      BY <2>0
    <2>2. EarlyIsHeeded'
      BY <2>0
    <2>3. FinallyIsAlone'
      BY <1>4 DEF Plain, Interrupt, AfterInterrupt
    <2>4. LeaksLate'
      <3>1. ~blocked /\ lease' \in {lease, "released"} /\ refused' = refused
        BY <1>4 DEF Plain
      <3>2. phase' = "unmask" => phase' = AfterInterrupt(phase)
        BY <1>4 DEF Plain, Interrupt
      <3>3. phase' = "unmask" => phase \in Finally \cup {"acquire", "unmask"}
        <4> HIDE DEF Inv, Stage, EarlyIsHeeded, FinallyIsAlone, LeaksLate
        <4> QED
          BY <3>2 DEF AfterInterrupt, TypeOK
      <3> QED
        BY <3>1, <3>3
    <2>5. LeaksOnlyWhenHitLate'
      BY <1>4 DEF Plain, Interrupt, AfterInterrupt
    <2>6. NoCommandAfterASignal'
      BY <1>4 DEF Plain, Interrupt, AfterInterrupt
    <2>7. NoReleaseUnderTheCommand'
      BY <1>4 DEF Plain, Interrupt, AfterInterrupt
    <2> QED
      BY <2>1, <2>2, <2>3, <2>4, <2>5, <2>6, <2>7
  <1> QED
    BY <1>1, <1>2, <1>3, <1>4

\* Everybody else: SIGKILL, the command and reconcile.
LEMMA OthersInv ==
    Inv /\ (Killed \/ OpenDevice \/ CloseDevice \/ CommandEnds \/ Reap) => Inv'
  <1> SUFFICES ASSUME Inv, Killed \/ OpenDevice \/ CloseDevice \/ CommandEnds \/ Reap
               PROVE  Inv'
    OBVIOUS
  <1> USE DEF Killed, OpenDevice, CloseDevice, CommandEnds, Reap
  <1>1. TypeOK /\ TypeOK'
    <2>1. TypeOK
      BY DEF Inv
    <2>2. UNCHANGED <<signals, early, late, refused, handler, pending, blocked, known>>
      OBVIOUS
    <2>3. /\ phase' \in {phase, "over"}
          /\ child' \in {child, "dead"}
          /\ open' \in {open, TRUE, FALSE}
          /\ lease' \in {lease, "reaped"}
          /\ code' \in {code, "killed"}
      OBVIOUS
    <2>4. open' \in BOOLEAN /\ code' \in Codes
      BY <2>1, <2>3 DEF TypeOK, Codes
    <2> HIDE DEF Killed, OpenDevice, CloseDevice, CommandEnds, Reap
    <2> QED
      BY <2>1, <2>2, <2>3, <2>4 DEF TypeOK
  <1> USE <1>1 DEF Inv, Stage, EarlyIsHeeded, FinallyIsAlone, LeaksLate,
      LeaksOnlyWhenHitLate, NoCommandAfterASignal, NoReleaseUnderTheCommand, Signals,
      Trying, Finally, LiveChild, Over
  <1>2. CASE Killed
    BY <1>2
  <1>3. CASE OpenDevice
    BY <1>3
  <1>4. CASE CloseDevice
    BY <1>4
  <1>5. CASE CommandEnds
    BY <1>5
  <1>6. CASE Reap
    BY <1>6
  <1> QED
    BY <1>2, <1>3, <1>4, <1>5, <1>6

LEMMA StutterInv == Inv /\ UNCHANGED vars => Inv'
  BY DEF vars, Inv, TypeOK, Stage, EarlyIsHeeded, FinallyIsAlone, LeaksLate,
     LeaksOnlyWhenHitLate, NoCommandAfterASignal, NoReleaseUnderTheCommand, LiveChild, Over

LEMMA InvIsInvariant == Spec => []Inv
  <1>1. Inv /\ [Next]_vars => Inv'
    BY RunInv, SignalInv, OthersInv, StutterInv DEF Next
  <1> QED
    BY InitInv, <1>1, PTL DEF Spec

-----------------------------------------------------------------------------
\* Only a signal inside the finally, a refused release or a death without a word
\* makes gozer run leave its lease behind.
THEOREM RunReleases == Spec => []LeaksOnlyWhenHitLate
  BY InvIsInvariant, PTL DEF Inv

\* A signal before the command is started keeps it from being started, masked or not.
THEOREM SignalsAreHeeded == Spec => []NoCommandAfterASignal
  BY InvIsInvariant, PTL DEF Inv

\* The chips are not given back under a command that run knows to be running.
THEOREM ReleaseAfterTheCommand == Spec => []NoReleaseUnderTheCommand
  BY InvIsInvariant, PTL DEF Inv
=============================================================================
