\* One board of two chips under every command that takes the mutex, and adopt.
SPECIFICATION Spec
CONSTANTS
    p1 = p1  p2 = p2  u1 = u1  u2 = u2  c1 = c1  c2 = c2
    l1 = l1  l2 = l2  l3 = l3
    NoLease = NoLease  None = None  Orphan = Orphan
    Procs = {p1, p2}
    Units = {u1}
    Chips = {c1, c2}
    UnitOf <- OneBoard
    Leases = {l1, l2}
    Detached = {l1}
    MaxNow = 1
    Grace = 0
    Commands = {"acquire", "reset_all", "reconcile", "release", "release_noreset", "reset", "adopt"}
    CrashPoints = {"claim", "mark", "unlink"}
    Happenings = {"open", "die", "force", "timeout"}
SYMMETRY Symmetry
INVARIANTS MutexHeld TeardownIsComplete
PROPERTIES OnlyTheExpiredAreReaped
