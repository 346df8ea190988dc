# A TLA+ model of gozer

gozer lets several people and agents share the accelerator chips of one machine.
There is no daemon: every command is a short-lived process, and all of the state
is files under `/tmp/tt-gozer`. What makes it correct is the order of `mkdir`,
`rename`, `unlink` and `rmdir` calls made by processes that run at the same time,
stop anywhere, and look at each other's files. That order is what these modules
model. They say what each command does between two points at which another one can
interfere, check the result on small instances with TLC, and prove the safety
properties, a unit has one tenant and a tenant keeps its lock first among them, for every
instance with TLAPS.

Contents: 1 the system, 2 modules and code, 3 properties, 4 runs and bounds,
5 fairness, 6 findings, 7 proofs, 8 what is not modelled, 9 plan.

## 1. The system

| part (src/gozer) | state | operations | what is hard | what makes it correct |
|---|---|---|---|---|
| gate and leases (`gatekeeper.py`) | `gate/<unit>.lock/` with `lease.json`, `leases/<id>.json`, `gate/<unit>.clean` | claim_unit, release_unit, update_unit_lease, write_lease, delete_lease, mark_clean, clear_clean | several files for one fact; every call a step; a kill between any two | one tenant per unit; a tenant's lock is never taken or renamed; the record outlives the locks |
| mutex (`critical_section`) | the directory `mutex/.gatekeeper.lock`, its mtime; a depth per process | enter, poll, remove a stale one, nest, leave, time out | removal by age, of a path that may be someone else's by then; holders killed inside | exclusion; a dead holder's directory goes away; every wait ends |
| reconcile (`reconcile`) | none of its own | scan `/proc`, read the locks, judge, reap | judged outside the mutex, done inside it, later | only expired leases are reaped; abandoned units come back |
| topology and allocation (`topology.py`, `free_units`, `allocate`) | none; what a command read of sysfs | group the readable chips into boards and units; parse a request; choose free units, clean ones first | chips die and come back while commands keep an old picture; the unit of leasing itself depends on what can be read; boards of several chips against counts of chips | one tenant per chip; whole boards; no more than was asked for; no refusal without need |
| keymaster (`keymaster.py`) | none of its own | acquire, release, reset, reset_all | release and reset leave the mutex for a reset of minutes and check again | teardown is complete; a clean marker is true; rollback leaves nothing |
| supervisor (`Keymaster.run`, `cmd_run`) | the signal mask, the handlers, the child | acquire, fork, wait, forward signals, release in a finally | a signal between any two statements, before the child is known, or twice | the lease comes back; no signal is swallowed; no release under a running command |
| names (`names.py`, `gozer names`) | the names file | apply it to the readable chips, resolve a name, set, unset | positions depend on which chips are alive; edits while requests run | a name leads back to its chip; pins hold; a leased board keeps its name |
| ticket queue (`queue.py`) | `queue/<seq>-<ticket>.json`, `.claim-window` and its mtime | enqueue, dequeue, entries, prune, open, expire and send to back, may_claim | a ticket with two files in the middle of a move; a window whose owner never comes; reads without the mutex | no ticket is lost; first in, first out; windows end |
| command line (`cli.py`) | none | one process per command; adopt and renew work without the mutex | wait polls; renew and adopt write the gate unprotected | as above |
| JSON store, `/proc` scan, reset, topology | | atomic replace; open devices and live pids; tt-smi; which chips form a unit | scans are stale at once; a reset may fail | |
| history, report | a log; text | | | nothing above depends on them |

How the parts interact. acquire enters the mutex, prunes the queue, asks whether a
claim window is open for somebody else, and allocates; allocation reconciles, which
may reap; then come the locks one by one, the clean markers, the record, and the
ticket is removed. release scans for open devices, enters the mutex to see whether
the units are still its own, leaves it, resets the chips, enters it again, checks
again, marks the units clean, unlocks them, deletes the record and opens the claim
window of the next ticket. wait polls the queue and acquires with its ticket.
run does an acquire, a command and a release in one process, under signals. A name
given to a command is resolved once, to a serial or an address, which is what locks and
tickets store; names set looks at the locks before it moves a name.
Nothing but files, pids, signals and open devices passes between two processes.

The hazards this leads to are listed in `PROJECT.json`, each at its line.

## 2. Modules and the code they model

| module | models | proofs |
|---|---|---|
| `Gate` | the files of the gate and one operator per file-changing call of `Gatekeeper` | |
| `LeaseLedger` | the promise, without files or processes: whole requests granted at one instant, over units without a tenant, each lease once; a tenancy only ends | |
| `Leases` | acquire, reset-all, reconcile, release (with and without reset), reset, adopt and renew as concurrent processes over `Gate`; kills, failing writes, timeouts, clock, devices | `LeasesProofs`, `LeasesSafety`, `LeasesTeardown` |
| `AtomicMutex` | what the rest may assume of `critical_section` | |
| `Mutex` | the mkdir loop of `critical_section`, one system call at a time | `MutexProofs` |
| `TicketQueue` | `queue.py` and the commands that use it: acquire, wait, cancel, release | `TicketQueueProofs` |
| `Supervisor` | `Keymaster.run` and `cmd_run`, with signals, the child and what is left of it | `SupervisorProofs` |
| `Topology` | `topology.py`: boards, short boards, the grain, units, as functions of the readable chips | |
| `Names` | the names file and `NameMap`: what loads, positions, resolution, set and unset | `NamesProofs` |
| `Requests` | what acquire and wait give a request, over `Names` and `Topology`, with dying chips and edits of the names file | `RequestsProofs`, `NamesProofs` |
| `MCLeases`, `MCMutex`, `MCTicketQueue`, `MCRequests` | instances for TLC | |

**Leases.** A process has a program counter `pc`, the command it runs, the lease it
is about (`cur`), the `<<unit, lease>>` pairs it has still to lock or drop (`todo`)
and the one it is in the middle of (`item`). Its steps are cut where another
process can see or change something:

| step | code |
|---|---|
| `ScanFds`, `JudgeStale`, `JudgeFree` | `reconcile`: `/proc`, the locks, the verdict (three reads at different times) |
| `Drop`, `Unlink`, `Rmdir`, `Forget` | `release_unit`: guard, unlink, rmdir; then `delete_lease` when reaping. Also the rollback of acquire and the teardown of release |
| `Choose`, `ClaimWon`, `WriteLock`, `Dirty`, `Grant` | acquire after `reconcile`; `ClaimWon` is the mkdir, `WriteLock` the lease copy |
| `FdsClosed`, `Check`, `Pause`, `Reset`, `Recheck`, `Mark`, `Delete` | release and reset with their two critical sections |
| `Refresh`, `Rerecord`, `MarkAll`, `GiveBack` | what reset-all does after its acquire; it ends in a release |
| `Rewrite`, `Replace` | renew: the record, then each lock's copy, no mutex |
| `Fail`, `Crash`, `GiveUp` | a write that raises; SIGKILL; the mutex timeout |

`cmd` decides where the shared steps lead, as the caller does in the code. The
constant `Commands` says which commands run, `CrashPoints` at which labels one may be
killed, `Happenings` what else may occur: `open` and `die` (devices open and close,
owners die), `force` (`--force`), `timeout`, `ioerror`, `overrun` (a mutex
directory is removed from a live holder). They are parameters of the model, so that each
run states what it assumes; the proofs hold for all their values. The mutex is one
atomic variable here. That `critical_section` behaves so is what
`Mutex!ImplementsAtomicMutex` says. Three history variables (`tenure`, `granted`,
`unreset`) record what the files only imply and guard nothing.

Left open here: which free units a request is given, and whether it is refused.
`Leases` has every behaviour of the code's rules for that, and more; `Requests` has the rules.

**Mutex.** `mkdir`, `stat`, `rmdir` and the deadline check are separate steps, so
that two waiters may judge the same directory stale and the second remove the next
holder's. The directory remembers who made it, which the code does not.

**TicketQueue.** The directory is a set of files; a ticket may have two. What runs
inside the mutex is one step, and the `Killed...` actions leave its half-done
results. What the code reads without the mutex has its own steps: wait's `List` and
`Read`, the first look at the window (`Peek`), cancel's look-up. Whether chips are
free is one Boolean; the lease behind it is `Leases`' business.

**Supervisor.** `phase` is where run stands: between any two phases a signal may fall. A
masked one is kept `pending`; an unmasked one meets `_forward` (which passes it on to a
live child and raises without one) or, once the finally has put them back, the handlers
of before. `AfterInterrupt` says where a KeyboardInterrupt leads from each phase. The
child exists from `Fork` on but is `known` only after `Assign`. acquire and release are
single steps, but `Plain` lets a signal fall in the middle of a release, before or after
what it does.

**Topology, Names, Requests.** A chip is its device index; its PCI address, its ASIC
id and (at chip grain) its lock are named by it, and a board is its serial. A dead chip
is one that is not `readable`. Each command keeps the chips it saw in `view`, as the
code caches its topology, so that units, grain and short boards are functions of a view and
two commands may disagree. `Consider` is one turn of the loop of `allocate`. Claiming
and releasing are one step each, the queue is the set of tenants with a ticket, and
`Defer` stands for `may_claim` saying no: `Leases` and `TicketQueue` have these in detail.
`StartSet` is what names set reads before it has the mutex, `EnterSet` its check and
its read inside, `Write` the replacement of the file.

Operators marked "Variant" are deliberately wrong forms of the definition that
follows them. No specification uses them: each one, put in the place of the right
form, makes a property fail, which shows that the property depends on that line.

## 3. Properties

| property | says |
|---|---|
| `TenureIsLocked` | a granted lease that was neither released nor reaped from a unit is the one the unit's lock names |
| `ImplementsLedger` | the files implement `LeaseLedger` |
| `OnlyAGrantDirties` | a clean marker is removed only by a request that holds all of its units |
| `TeardownIsComplete` | when release deletes the record, no lock of the lease is left |
| `MutexHeld` | a process inside a critical section owns the mutex directory |
| `OnlyTheExpiredAreReaped` | a reap ends a tenancy only if its owner is dead or its grace window over, at that moment |
| `CleanIsReset` | a unit marked clean has been reset since its last tenant |
| `LapsedIsReaped` | a lease whose time is over, with its chips closed, is taken off its unit in the end, wherever commands are killed or time out |
| `ExclusiveUntilACrash`, `ImplementsAtomicMutex` | the mutex excludes until a holder is killed inside it; it always is the atomic mutex |
| `OrphanIsCleared`, `EveryWaitEnds` | a dead holder's directory is removed; whoever waits enters or times out |
| `TicketsAreKept` | a ticket leaves the queue only by grant, cancel or age, kills included |
| `FirstInFirstOut` | a ticket passes another only when the other's window expired |
| `WindowIsQueued`, `WindowEnds` | without a kill the window belongs to a queued ticket; every window ends |
| `LeaksOnlyWhenHitLate` | a run that is over has left its lease behind only after a signal inside the finally, a refused release, or a kill |
| `NoCommandAfterASignal` | after a signal, masked or not, no command is started |
| `NoReleaseUnderTheCommand` | run gives chips back under a running command only if a signal came between fork and assignment |
| `LeaseComesBack` | whatever hits run, its lease is released or reaped in the end |
| `OneLeasePerChip` | no chip is told to two tenants, by whichever name each lease is locked |
| `GrantsWholeBoards` | a tenant has every chip that UMD adds to those it was told |
| `NoOvershoot`, `QueuesOnlyIfItCannot` | no more chips than asked for, but for one unit; and no request is turned away that some of the free units would serve exactly |
| `GrantsWhatWasAsked` | a grant, at once or after any time in the queue, is for the chip or board the name meant then, is reset silicon if that was asked, and is enough |
| `FileLoads` | no order of edits and dead chips stops the names file from loading |
| `NamesRoundTrip`, `PinsHold` | the name shown for a chip leads back to it; a pinned chip keeps its name whatever dies |
| `SetSparesTheLeased` | no edit by names set changes the name of a leased board, though it judged what it affects before it had the mutex |
| `ReapsWholeIdleLeases`, `AbandonedIsFreed` | documented, and false: see 6 |

Each module with a state has one type invariant, `TypeOK`. It says more than membership in one
place: in `Leases` a verdict only ever names real leases, in `TicketQueue` sequence
numbers stay within what enqueues and moves can have produced. All are proved; no run
repeats those of `Supervisor` and `Requests`.

`CleanIsReset` is checked with commands that follow one another, because with two
at once it is not what the code does: release marks its units after a check that
only looks for other leases' locks, and a unit may have been reaped, used, and given
up in the meantime. It is false with adopt even when commands follow one another: adopt
never clears a marker (finding 8), so `leases_sequential` and the theorem are without it.

`LapsedIsReaped` is about locks that have a lease in them. A lock without one is removed by
nobody: that is finding 2, and `AbandonedIsFreed`, which asks it of both, is false as soon
as a command may be killed at `write` or at `rmdir`. `OnlyTheExpiredAreReaped` is about the
lease and not about devices: a chip opened between the scan and the reap is not seen, and
the one promise of the code, that the scan saw none, is finding 1.

## 4. Runs and bounds

| run | instance | distinct states | shows |
|---|---|---|---|
| `leases_two_units` | 2 processes, 2 one-chip units, 2 leases (one detached); acquire, reconcile, release; 3 kill points; owners die | 1.8 M | tenancy, ledger, rollback |
| `leases_one_board` | 2 processes, 1 board of 2 chips, 2 leases; all commands but renew; devices, deaths, force, timeouts; 3 kill points | 1.8 M | reaping, exclusion, teardown |
| `leases_sequential` | 1 process, 2 units, 2 leases; all commands but adopt; 7 kill points, failing writes | 3.9 M | clean markers |
| `leases_selfheal` | 2 processes, 1 unit, 2 leases; acquire, reconcile, release; 11 kill points, the write of a lock and the rmdir of a reap among them; owners die, timeouts | 308 k | liveness of reaping |
| `mutex` | 2 processes, staleness 2 ticks, timeout 1, nesting 2, up to 2 kills | 5 k | the mutex |
| `queue` | 2 processes, 2 tickets, 2 releases, 1 kill anywhere | 1.1 M | the queue's safety |
| `queue_window` | 2 processes, 1 ticket, 2 releases, 1 kill | 36 k | the window's liveness |
| `supervisor` | up to 3 signals of two kinds, a kill, a command and a leftover of it | 795 | run |
| `requests` | 2 boards of 2 chips, PCI order other than index order on one; 2 tenants, 4 requests (one chip; 3 to 4 or a ticket; exactly 3; by name, clean); 1 editor, 4 edits, a file with one name and one pin; 1 chip dies and comes back | 298 k | requests and names |
| three `bug_...` runs | a small instance that shows it | | see 6 |

Why these sizes. The races of this code are between a command that has decided and
another that moves first; two processes are two roles, and a process that finishes may
play a third, so "release, reap, new tenant" fits in two slots. Two
leases are the old tenant and the new one. Two units are the least that a rollback
and a partial teardown need, and two chips on a board the least for a verdict per
chip. The clock has the two values that tell inside the grace window from outside. In
`Mutex` the timeout is below the staleness limit as in the code (10 s, 30 s); one
tick more of either changes no guard. Two kills let a directory be orphaned twice,
so that a waiter's stale verdict meets a later holder. In the queue, two releases
allow a window to expire and its ticket to be moved twice. `MaxReleases`, `MaxCrashes`,
`MaxNow` and `MaxDepth` are the bounds on counters. Lease ids are never reused, so a
run of `Leases` grants at most as many leases as it has; the proofs have no such
limit. Three signals are one
for the mask, one for the command and one for the finally; a fourth meets no new
handler. `requests` needs two boards for a choice and two chips on each for a part of a
board, a chip that dies under a name, a pin and a queued request, and two tenants for a
chip to have two; its edits move a name both ways between the boards and remove it.
`MaxSignals` and `MaxDead` are bounds too. Processes (and tickets, and tenants) are
interchangeable and the safety runs use that symmetry; the liveness runs use none.

With its one dead chip `requests` never changes the lease grain. `Mortal = {1, 3}`,
`MaxDead = 2` and no editors does, and TLC finds `OneLeasePerChip` and `GrantsWholeBoards`
true there too (24 k states); it is not a run, as `ChipsHaveOneTenant` and `BoardsAreWhole`
prove both for any chips that die.

Deadlock is checked in every passing run but `supervisor`, where run is over in the
end: a command that is stuck, or a system with nothing to do, would be one.

## 5. Fairness

Safety runs assume none. `Leases!FairSpec`: a command that has begun takes its steps
(weak fairness); a process that polls the mutex every 20 ms gets it in the end (strong
fairness of `Enter`); somebody keeps running reconcile (strong fairness of
`StartReconcile`: `contrib/gozer-reconcile.timer` runs it every few minutes and
each `gozer wait` once a second through acquire); an orphaned mutex grows stale
(weak fairness of `ClearStaleMutex`). `SurvivingSpec`, for `leases_selfheal`, adds
`FailuresEnd`: commands are not killed or timed out for ever. Otherwise every reconcile
could be killed before it reaps. How many are before, and where, is open. Nothing is assumed
of owners, devices or users. `Mutex!FairSpec`: time passes, commands go on, bodies end, and a waiter's
`mkdir` meets a free directory if there is one again and again; `OrphanIsCleared`
also assumes that gozer commands keep being run, as only they remove anything.
`TicketQueue!FairSpec`: windows age, commands go on, and somebody keeps acquiring.
None of it is needed of the holder of a claim window: that is the point of `WindowEnds`.
`Supervisor!FairSpec`: run takes its steps, the command ends some day (gozer waits for it
without a limit, and so must its users), a leftover of an ended command closes the device
some day, and somebody runs reconcile (the timer, or any acquire). `Requests` states no
liveness: who is served first is the queue's business, and a box may stay full for ever.

## 6. Findings

Three have a run of their own, which TLC ends with a counterexample; `PROJECT.json` quotes the
lines.

1. `bug_partial_reap`: reconcile judges chip by chip, and one idle chip of a board
   makes the whole lease reapable while another chip is open.
2. `bug_wedge`: a claim killed between its mkdir and its write leaves an empty lock. Its chips
   are reported FREE, no claim succeeds and nothing removes it. A reap, a rollback or a
   release killed between its unlink and its rmdir leaves the same, and so does a write that
   fails (a full disk). The run kills at both points; each alone, or no kill and
   `Happenings = {"ioerror"}`, is enough. What does hold is `LapsedIsReaped`.
3. `bug_grain_flip`: a box with a board of two chips and a board of one leases boards. When
   a chip of the former dies, every board has one readable chip, and `lease_grain` says
   "chip": locks are then looked for under PCI addresses, the lease on the other board,
   locked by its serial, is not seen, and its chip shows FREE and is granted again. Boards of one
   card type cannot do this: `ChipsHaveOneTenant`.

The others are smaller. Each is a property stated in its module, which TLC refutes within
seconds in a configuration that differs from the one named as the table says.

| | property | configuration, with | counterexample |
|---|---|---|---|
| 4 | `RenewKeepsTheTenant` | `bug_partial_reap`; `Commands = {"acquire", "release", "renew"}`, no happenings | renew (cli.py:494) replaces the lease copy in whatever lock is there by then, the next tenant's included |
| 5 | `TenureIsLocked` | `bug_partial_reap`; `Commands = {"acquire", "release"}`, `Happenings = {"overrun"}`, `Detached = {}` | with the mutex directory removed from a live holder two releases of one lease are inside at once, and the slower one unlinks the next tenant's lease (gatekeeper.py:285) |
| 6 | `GoneOnlyIfGone` | `queue_window`; `Spec` | wait lists the queue and reads it afterwards (queue.py:142); a ticket moved to the back in between is reported gone |
| 7 | `InterruptedIsReleased` | `supervisor`; `Spec` | a signal in the finally of run (keymaster.py:905) ends it with 130, of which the README says that the lease was released, before or in the middle of its release; it does come back: `LeaseComesBack` |
| 8 | `FreshIsReset` | `bug_partial_reap`; one process, `Commands = {"acquire", "release", "reconcile", "adopt"}`, `Happenings = {"open", "die"}` | adopt (cli.py:601) leaves the clean marker of its unit; when the adopted process has ended the unit is reaped, without a reset, and offered to --fresh |
| 9 | `NeverDegraded` | `requests` | wait polls for minutes with the topology it read once (gatekeeper.py:469) and is granted a board that lost a chip meanwhile; in `GrantsWholeBoards` that chip still counts as told |
| 10 | `RaisesOnlyWithoutAChild` | `supervisor`; `Spec` | a signal between the fork and the assignment of `proc` (keymaster.py:894) finds no child to forward it to; run releases and leaves a running command without a lease; `NoReleaseUnderTheCommand` says that this is the only way to do so |

Findings 4, 5 and 8 are why the theorems about `Leases` assume what they do.

## 7. Proofs

Every safety and action property that a passing run checks is stated by a theorem too, with
the hypotheses given below; the run shows that they can be met and that the property bites.
The theorems are about all processes, units, chips, leases, commands, kill points and
happenings (`Leases`), processes and bounds (`Mutex`), processes, tickets, releases and
kills (`TicketQueue`), numbers of signals (`Supervisor`), boxes, names files, tenants,
editors, requests and edits (`Requests`). Assumed are the named ASSUMEs of the modules
(the null values are not processes or leases, every chip has a unit, the bounds are
naturals), and where it says so one of these hypotheses:

| hypothesis | says | why it is needed |
|---|---|---|
| no `overrun` | a mutex directory is never removed from a live holder | finding 5 |
| `Disciplined` | no `overrun`, and nobody runs renew | findings 4 and 5 |
| `Sequential` | one process, and no adopt | finding 8, and see `CleanIsResetTheorem` |
| `UniformCards(n)` | all boards carry the same number n of chips, any n but zero, and their card type is in the table of expectations | finding 3; boards of different sizes leave gaps that a greedy choice does not fill |
| `PinsFit` | every pin of the first names file is inside every board | names set moves a name to another board without a look at its pins |
| `BoardsStay(n)` | `UniformCards(n)`; no chip dies or, with n = 2 and at least two boards, one at a time | names set cannot see the lease of a chip or a board that it cannot read; when all boards are down to one chip the lease grain changes, as in finding 3 |
| `OneEditor` | one names command at a time | a second one, or an unset, that moves the name between the first look and the write |

**The leases** (`LeasesProofs`, `LeasesSafety`, `LeasesTeardown`).

- `TypeCorrect`: `Spec => []TypeOK`. The type invariant is inductive together with
  `LocalsOK`: where the next step needs a lease or a pair, there is one.
- `MutexIsExclusive`, without `overrun`: `MutexHeld`. Who is at a label of a critical
  section is decided by `pc` and `cmd` together (`CommandAt` says which command may be where).
- `LocksAreExclusive`, for `Disciplined` instances: `TenureIsLocked`. It is not inductive.
  The strengthening `SafetyInv` says
  how a request comes to own its units: it has locked exactly those it no longer has
  to claim (`ClaimOK`), the directory it just made is still there and empty
  (`WriterOK`), what `release_unit` checked is still so when it unlinks, and empty when
  it removes (`DropperOK`), nobody else writes into or removes that directory
  (`WritersApart`), and lease ids are drawn once (`GrantsApart`, `IdsOK`). Exclusion
  comes in through `Alone`: two processes are never both inside the mutex. A few
  steps touch locks, and each has a lemma (`SafeClaimWon`, `SafeWriteLock`,
  `SafeUnlink`, ...); the many that do not are `Quiet` and share one.
- `OneTenantPerUnit`: no unit has two tenants, since the lock names but one.
- `GateImplementsLedger`: under the same assumption the files refine `LeaseLedger`. A
  grant is a ledger grant because its own locks keep others' tenancies away
  (`TenureIsLocked`), an unlink is the end of a tenancy, all else stutters.
- `TeardownIsCompleteTheorem`, `OnlyTheExpiredAreReapedTheorem`, `OnlyAGrantDirtiesTheorem`,
  under the same assumption, from `TeardownInv` on top of `SafetyInv`. Only a lease that was granted
  is released, reset or given back (`GrantedOK`), and a request has not yet locked what it
  still has to lock (`Unlocked`), so nobody writes the id of a lease into a lock after its
  grant; a unit that a release has passed therefore stays without its lease, and the record
  is deleted when all of them are passed (`TeardownOK`). What reconcile judged outside the mutex stays true until it acts
  (`Verdict`, `ReaperOK`): a lease that has expired does not come alive again where nobody
  renews.
- `CleanIsResetTheorem`, for `Sequential` instances: `CleanIsReset`, by `CleanInv`: a request
  at its grant has removed the markers of its units, and a reset that went well is only
  remembered while the units it was for have no tenant. With two processes
  reset-all marks units, outside the mutex, that may have been leased anew, so the
  property is not true there.

adopt needs a remark: it claims without the mutex, against commands that hold it. The
proofs cover it (but for the last); mkdir alone keeps it apart from other claims.

**The mutex** (`MutexProofs`). `MutexTypeCorrect`; `MutualExclusion`, without overruns, from
the invariant that no directory is judged stale before one is orphaned;
`MutexImplementsAtomicMutex`, with overruns and kills.

**The queue** (`TicketQueueProofs`), without any hypothesis: `TypeCorrect`,
`WindowIsQueuedTheorem`, `TicketsAreKeptTheorem` and `FirstInFirstOutTheorem`. The invariant
`IInv` adds two things to the types and the window. `QueueFits` bounds sequence numbers by
the enqueues and moves made so far, which is what lets `NextSeq` be the back of the line.
`CommandsOK` says which command has a ticket, one that was issued, and that releases
come one at a time. The two action properties then follow command by command; most commands
touch no file but their own ticket's, and the moves go to the back.

**The supervisor** (`SupervisorProofs`). `RunReleases`, `SignalsAreHeeded`,
`ReleaseAfterTheCommand`: `LeaksOnlyWhenHitLate`,
`NoCommandAfterASignal` and `NoReleaseUnderTheCommand`. The invariant says what run
has at each phase (`Stage`: mask, handlers, child, lease), that an early signal is
still pending before the mask is lifted (`EarlyIsHeeded`), and that the finally is
reached only when no known command runs (`FinallyIsAlone`).

**Requests and names** (`RequestsProofs`, `NamesProofs`).

- `RequestTypes`: the type invariant of `Requests`, with the fact that an editor at work
  has a name and a board (`Editing`).
- `GrantsAreBounded`: `NoOvershoot`, on any box. While it chooses, a request has nothing,
  one unit, or no more than its maximum (`Fits`); the size of a disjoint union of units
  is the sum that `Overshoots` compares.
- `ChipsHaveOneTenant` and `BoardsAreWhole`: `OneLeasePerChip` and `GrantsWholeBoards`, for
  `UniformCards(n)`. The invariant `Good`, tenant by tenant, says
  which of its view's units a request has chosen and that they are free while it has the
  mutex (`Choice`), that a holder's units are locked in its name and were whole boards
  when it saw them (`Hold`), and what its command and ticket say (`Track`). The key is
  `WholeUnit`: a chip whose board is not short is leased under the same name in every view,
  its own if boards have one chip or more than two, and that of its board if they have two.
- `GrantsAreAsAsked`: `GrantsWhatWasAsked`, on any box. `Served` says that what is chosen and
  what is left were suitable, and that everything suitable that is neither would have overshot.
- `RefusalsAreNeeded`: `QueuesOnlyIfItCannot`, for `UniformCards(n)`, from `Served`. A request that
  is refused has fewer chips than its minimum, and one unit more would exceed its maximum;
  where units are single chips that leaves nothing in between; with boards of two a set of
  free units in between would be of an odd size, and
  `PairsAreEven` excludes that (each chip has its mate, so the lower halves of the boards are as
  many as the upper).
- `NamesRoundTripTheorem`: `NamesRoundTrip`, on boards of any size. It needs that the CHOOSE of
  `Position` always has something to choose. `RoomForTheUnpinned` counts the places, and
  `RankIsOnto` says that a finite set of numbers has an element of every rank, by
  counting rather than by induction: the rank is an injection between sets of one size.
- `FileLoadsTheorem` and `PinsHoldTheorem`, for `PinsFit`: the file, and whatever an editor is
  about to write, parses and has its pins inside every board (`InOrder`).
- `SetSparesTheLeasedTheorem`, for `BoardsStay(n)` and `OneEditor`. `Reserved` says that from its
  first look to its write an editor has the keys of every chip whose board changes
  its name, whichever chips it could read (`BoardsKeepTheirKeys`), and that none is locked
  while it is inside the mutex.

Only model-checked: the liveness properties `LapsedIsReaped`, `OrphanIsCleared`,
`EveryWaitEnds`, `WindowEnds` and `LeaseComesBack`, as fairness is out of the prover's reach.
The findings stay counterexamples.

## 8. Not modelled

`status`, `topology`, `queue`, `names` and reports write nothing. History is a log nothing
decides by. Of the names file, comments, quoting, line numbers, links and size limits are
left out, and the udev rules; of --chips, strings that are refused. Malformed
lease and ticket files, foreign users' permissions (for which mark_clean and clear_clean
fail in silence), and devices invisible without sudo are left out: `open` is what a scan
can see. A scan of `/proc`, of sysfs, and a look at all locks, is one read each. In `Requests`
no device is open, which is the weaker protection: an open device keeps a chip from
being granted whatever the locks say. On a box whose every chip is dead no command begins
and none ends a lease. reset-all is in `Leases` and not in `Requests`: with include_degraded
it leases a box all of whose boards are short, locked by the addresses of single chips, and the
grain may turn back to board under that lease when its reset brings the chips back. The exit
paths of acquire after its ticket is queued (cli.py:384-392, where the ticket may be gone) are left out. Two
people who edit the names file at the same moment may lose an edit; the run has one editor.
The tt-smi command, the web site, scripts, packaging and skills are I/O, text or
installation.

## 9. Plan

Written, in this order: `Gate`, `LeaseLedger`, `Leases` (the heart), `Mutex` with
`AtomicMutex`, `TicketQueue`, proofs of the first, `Supervisor`, `Topology`, `Names` and
`Requests`, their proofs, the proofs of the queue, of the teardown of leases, and of names.

Next, the model: the queue with the leases (whether the window opened by a release leads
to a grant, and what a reap, which opens none, does to the line); the exit paths of
acquire and wait; liveness of a request on a box that frees up.

Next, the proofs: boxes of mixed cards on which the grain does not change; `TenureIsLocked` with renew for
leases whose renewals do not cross a release; and the composition, that the queue's Boolean
for free chips is what the gate says.
