\* A board of two chips beside a board of one; one chip of the former may die.
SPECIFICATION Spec
CONSTANTS
    b1 = b1
    b2 = b2
    t1 = t1
    t2 = t2
    Boards = {b1, b2}
    Chips = {0, 1, 2}
    BoardOf <- Mixed
    Expected <- TwoAndOne
    Pci <- Crossed
    Names = {"left"}
    Tenants = {t1, t2}
    Editors = {}
    None = None
    Asks <- OneAsk
    Edits = {}
    InitFiles <- NoFiles
    Mortal = {1}
    MaxDead = 1
INVARIANTS OneLeasePerChip
CHECK_DEADLOCK FALSE
