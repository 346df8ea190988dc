SPECIFICATION FairSpec
CONSTANTS
    p1 = p1  p2 = p2  u1 = u1  u2 = u2  c1 = c1  c2 = c2
    l1 = l1  l2 = l2  l3 = l3
    NoLease = NoLease  None = None  Orphan = Orphan
    Procs = {p1, p2}
    Units = {u1}
    Chips = {c1}
    UnitOf <- OneUnit
    Leases = {l1, l2}
    Detached = {l1}
    MaxNow = 1
    Grace = 0
    Commands = {"acquire", "reconcile"}
    CrashPoints = {"write", "rmdir"}
    Happenings = {}
PROPERTIES AbandonedIsFreed
