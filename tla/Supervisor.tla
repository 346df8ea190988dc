----------------------------- MODULE Supervisor -----------------------------
(***************************************************************************)
(* gozer run: Keymaster.run, which acquires a lease, runs a command under  *)
(* it and releases the lease in a finally block, while SIGINT and SIGTERM  *)
(* may arrive at any moment; and cmd_run, which turns its KeyboardInterrupt*)
(* into exit code 130.                                                     *)
(*                                                                         *)
(* acquire and release are single steps here (Leases has theirs), except   *)
(* that a signal may fall before, between or after what they do.           *)
(***************************************************************************)
EXTENDS Naturals

CONSTANT MaxSignals     \* bound of the number of signals sent to gozer run

ASSUME SupervisorAssumption == MaxSignals \in Nat

Signals == {"INT", "TERM"}

VARIABLES
    phase,      \* where run is
    blocked,    \* whether SIGINT and SIGTERM are masked
    pending,    \* the signals the kernel holds back meanwhile
    handler,    \* per signal: _forward, or what was there before run
    child,      \* the command: not started, running, dead, or waited for
    known,      \* whether the variable proc holds the child
    open,       \* whether the command, or a leftover of it, has the device open
    lease,      \* none yet, held, released by run, or reaped by another command
    code,       \* the exit code
    signals,    \* how many signals were sent
    early, late, refused    \* history: a signal came before there was a command;
                            \* one came during the finally; release refused

vars == <<phase, blocked, pending, handler, child, known, open, lease, code,
          signals, early, late, refused>>

Codes == {"none", "10", "127", "child", "130", "error", "killed"}

TypeOK ==
    /\ phase \in {"acquire", "armed", "spawn", "assign", "wait", "restoreINT",
                  "restoreTERM", "release", "unmask", "over"}
    /\ blocked \in BOOLEAN
    /\ pending \subseteq Signals
    /\ handler \in [Signals -> {"previous", "forward"}]
    /\ child \in {"none", "running", "dead", "reaped"}
    /\ known \in BOOLEAN
    /\ open \in BOOLEAN
    /\ lease \in {"none", "held", "released", "reaped"}
    /\ code \in Codes
    /\ signals \in 0..MaxSignals
    /\ early \in BOOLEAN
    /\ late \in BOOLEAN
    /\ refused \in BOOLEAN

\* run has masked the two signals.
Init ==
    /\ phase = "acquire"
    /\ blocked = TRUE
    /\ pending = {}
    /\ handler = [s \in Signals |-> "previous"]
    /\ child = "none"
    /\ known = FALSE
    /\ open = FALSE
    /\ lease = "none"
    /\ code = "none"
    /\ signals = 0
    /\ early = FALSE
    /\ late = FALSE
    /\ refused = FALSE

Over == phase = "over"
Finally == {"restoreINT", "restoreTERM", "release"}

-----------------------------------------------------------------------------
(* What run does.                                                           *)

\* acquire grants, and the handlers are installed; or there is only a ticket
\* (exit code 10), or the mutex is stuck.
Grant ==
    /\ phase = "acquire"
    /\ lease' = "held"
    /\ handler' = [s \in Signals |-> "forward"]
    /\ phase' = "armed"
    /\ UNCHANGED <<blocked, pending, child, known, open, code, signals, early, late, refused>>

NoGrant ==
    /\ phase = "acquire"
    /\ code' \in {"10", "error"}
    /\ phase' = "unmask"
    /\ UNCHANGED <<blocked, pending, handler, child, known, open, lease, signals,
                   early, late, refused>>

\* A KeyboardInterrupt leaves the try block into the finally; inside the finally
\* it leaves that too, and nothing more of it is done.
\* Variant: the unmasking stands before the try.
AfterInterruptOutside(ph) ==
    IF ph \in {"spawn", "assign", "wait"} THEN "restoreINT" ELSE "unmask"
AfterInterrupt(ph) ==
    IF ph \in {"armed", "spawn", "assign", "wait"} THEN "restoreINT" ELSE "unmask"

\* The mask is lifted. A pending signal is delivered there, before the command is
\* started: _forward has no child and raises.
Unblock ==
    /\ phase = "armed"
    /\ blocked' = FALSE
    /\ pending' = {}
    /\ IF pending = {}
       THEN phase' = "spawn" /\ UNCHANGED code
       ELSE phase' = AfterInterrupt(phase) /\ code' = "130"
    /\ UNCHANGED <<handler, child, known, open, lease, signals, early, late, refused>>

\* Popen: the child is there before proc is assigned.
Fork ==
    /\ phase = "spawn"
    /\ child' = "running"
    /\ phase' = "assign"
    /\ UNCHANGED <<blocked, pending, handler, known, open, lease, code, signals,
                   early, late, refused>>

PopenFails ==
    /\ phase = "spawn"
    /\ code' = "127"
    /\ phase' = "restoreINT"
    /\ UNCHANGED <<blocked, pending, handler, child, known, open, lease, signals,
                   early, late, refused>>

Assign ==
    /\ phase = "assign"
    /\ known' = TRUE
    /\ phase' = "wait"
    /\ UNCHANGED <<blocked, pending, handler, child, open, lease, code, signals,
                   early, late, refused>>

\* proc.wait returns.
Wait ==
    /\ phase = "wait"
    /\ child = "dead"
    /\ child' = "reaped"
    /\ code' = "child"
    /\ phase' = "restoreINT"
    /\ UNCHANGED <<blocked, pending, handler, known, open, lease, signals, early,
                   late, refused>>

\* The handlers that were there before are put back, one after the other.
Restore(s, here, next) ==
    /\ phase = here
    /\ handler' = [handler EXCEPT ![s] = "previous"]
    /\ phase' = next
    /\ UNCHANGED <<blocked, pending, child, known, open, lease, code, signals,
                   early, late, refused>>

RestoreINT == Restore("INT", "restoreINT", "restoreTERM")
RestoreTERM == Restore("TERM", "restoreTERM", "release")

\* release with a settle of ten seconds. Another command may have reaped nothing
\* meanwhile: run is alive.
Release ==
    /\ phase = "release"
    /\ ~open
    /\ lease' = "released"
    /\ phase' = "unmask"
    /\ UNCHANGED <<blocked, pending, handler, child, known, open, code, signals,
                   early, late, refused>>

\* The device is open when the ten seconds are over, or the mutex is stuck.
ReleaseRefuses ==
    /\ phase = "release"
    /\ refused' = TRUE
    /\ phase' = "unmask"
    /\ \/ open /\ UNCHANGED code
       \/ code' = "error"
    /\ UNCHANGED <<blocked, pending, handler, child, known, open, lease, signals,
                   early, late>>

\* The outer finally. Signals still pending (nothing was granted) now meet the
\* handlers of before: KeyboardInterrupt for SIGINT, death for SIGTERM.
Unmask ==
    /\ phase = "unmask"
    /\ blocked' = FALSE
    /\ pending' = {}
    /\ code' = CASE "TERM" \in pending -> "killed"
                 [] "INT" \in pending /\ "TERM" \notin pending -> "130"
                 [] OTHER -> code
    /\ phase' = "over"
    /\ UNCHANGED <<handler, child, known, open, lease, signals, early, late, refused>>

-----------------------------------------------------------------------------
(* Signals.                                                                 *)

\* proc is not None and proc.poll() is None.
\* Variant: there never is one.
NoChild == FALSE
LiveChild == known /\ child = "running"

Sent(s) ==
    /\ ~Over
    /\ signals < MaxSignals
    /\ signals' = signals + 1
    /\ early' = (early \/ child = "none")
    /\ late' = (late \/ phase \in Finally)

Held(s) ==
    /\ blocked
    /\ Sent(s)
    /\ pending' = pending \cup {s}
    /\ UNCHANGED <<phase, blocked, handler, child, known, open, lease, code, refused>>

\* _forward with a live child: the child gets the signal, and may die of it.
Forwarded(s) ==
    /\ ~blocked
    /\ handler[s] = "forward"
    /\ LiveChild
    /\ Sent(s)
    /\ child' \in {"running", "dead"}
    /\ UNCHANGED <<phase, blocked, pending, handler, known, open, lease, code, refused>>

\* A KeyboardInterrupt is raised where run stands.
Interrupt ==
    /\ phase' = AfterInterrupt(phase)
    /\ code' = "130"

\* Without a live child _forward raises; poll reaps a dead one.
\* Variant: it returns.
Swallow == UNCHANGED <<phase, code, child>>
Raise ==
    /\ Interrupt
    /\ child' = IF known /\ child = "dead" THEN "reaped" ELSE child

Raised(s) ==
    /\ ~blocked
    /\ handler[s] = "forward"
    /\ ~LiveChild
    /\ Sent(s)
    /\ Raise
    /\ UNCHANGED <<blocked, pending, handler, known, open, lease, refused>>

\* The handlers of before: SIGINT raises, in the middle of release too, which may
\* have torn the lease down by then; SIGTERM kills.
Plain(s) ==
    /\ ~blocked
    /\ handler[s] = "previous"
    /\ Sent(s)
    /\ IF s = "INT" THEN Interrupt ELSE phase' = "over" /\ code' = "killed"
    /\ lease' \in {lease} \cup IF phase = "release" /\ ~open THEN {"released"} ELSE {}
    /\ UNCHANGED <<blocked, pending, handler, child, known, open, refused>>

\* SIGKILL, or the machine's out-of-memory killer.
Killed ==
    /\ ~Over
    /\ phase' = "over"
    /\ code' = "killed"
    /\ UNCHANGED <<blocked, pending, handler, child, known, open, lease, signals,
                   early, late, refused>>

-----------------------------------------------------------------------------
(* The command, and the other commands on the box.                          *)

OpenDevice ==
    /\ child = "running"
    /\ ~open
    /\ open' = TRUE
    /\ UNCHANGED <<phase, blocked, pending, handler, child, known, lease, code,
                   signals, early, late, refused>>

\* By the command, or by a worker it forked and left behind.
CloseDevice ==
    /\ open
    /\ open' = FALSE
    /\ UNCHANGED <<phase, blocked, pending, handler, child, known, lease, code,
                   signals, early, late, refused>>

CommandEnds ==
    /\ child = "running"
    /\ child' = "dead"
    /\ UNCHANGED <<phase, blocked, pending, handler, known, open, lease, code,
                   signals, early, late, refused>>

\* reconcile: the owner pid of the lease is gone and nothing has the device open.
\* Variant: only after a death by signal.
ReapTheKilled ==
    /\ Over /\ code = "killed"
    /\ lease = "held"
    /\ ~open
    /\ lease' = "reaped"
    /\ UNCHANGED <<phase, blocked, pending, handler, child, known, open, code,
                   signals, early, late, refused>>
Reap ==
    /\ Over
    /\ lease = "held"
    /\ ~open
    /\ lease' = "reaped"
    /\ UNCHANGED <<phase, blocked, pending, handler, child, known, open, code,
                   signals, early, late, refused>>

Run == \/ Grant \/ NoGrant \/ Unblock \/ Fork \/ PopenFails \/ Assign \/ Wait
       \/ RestoreINT \/ RestoreTERM \/ Release \/ ReleaseRefuses \/ Unmask

Signal == \E s \in Signals : Held(s) \/ Forwarded(s) \/ Raised(s) \/ Plain(s)

Next == Run \/ Signal \/ Killed \/ OpenDevice \/ CloseDevice \/ CommandEnds \/ Reap

Spec == Init /\ [][Next]_vars

\* run goes on; the command ends some day, and after its end nothing keeps the
\* device for ever; somebody runs reconcile (every acquire does) now and then.
FairSpec == /\ Spec
            /\ WF_vars(Run)
            /\ WF_vars(CommandEnds)
            /\ WF_vars(CloseDevice /\ child # "running")
            /\ WF_vars(Reap)

-----------------------------------------------------------------------------
(* Properties.                                                              *)

\* "Acquire, run, always release -- including on signal": a run that is over keeps
\* its lease only if a signal hit its finally, its release refused, or it was
\* killed outright.
LeaksOnlyWhenHitLate ==
    Over /\ lease = "held" => late \/ refused \/ code = "killed"

\* "Must never silently swallow a signal": once a signal has come, held back by the
\* mask or not, no command is started any more.
NoCommandAfterASignal == early => child = "none"

\* run gives the chips back under a command that is still running only when a
\* signal came between its fork and the assignment of proc.
NoReleaseUnderTheCommand == lease = "released" /\ child = "running" => ~known

\* _forward raises "if there is no live child to forward it to -- Popen has not
\* happened yet, or the child has already exited", and only then.
RaisesOnlyWithoutAChild == [][\A s \in Signals : Raised(s) => child # "running"]_vars

\* "The lease is bound to the process, so it cannot leak": whatever hits run, its
\* lease comes to an end.
LeaseComesBack == lease = "held" ~> lease \in {"released", "reaped"}

\* What the README says of exit code 130: "the lease was still released".
InterruptedIsReleased == Over /\ code = "130" => lease # "held"
=============================================================================
