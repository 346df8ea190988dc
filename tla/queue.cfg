\* Two tickets, two releases, one command killed.
SPECIFICATION Spec
CONSTANTS
    p1 = p1  p2 = p2  t1 = t1  t2 = t2  t3 = t3
    NoTicket = NoTicket
    Procs = {p1, p2}
    Tickets = {t1, t2}
    MaxReleases = 2
    MaxCrashes = 1
    MayAge = TRUE
SYMMETRY Symmetry
INVARIANTS TypeOK WindowIsQueued
PROPERTIES TicketsAreKept FirstInFirstOut
