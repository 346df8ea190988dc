\* Two boards of two chips, one of which may die; two tenants and one editor.
SPECIFICATION Spec
CONSTANTS
    b1 = b1
    b2 = b2
    t1 = t1
    t2 = t2
    Boards = {b1, b2}
    Chips = {0, 1, 2, 3}
    BoardOf <- TwoByTwo
    Expected <- TwoEach
    Pci <- Crossed
    Names = {"left", "right"}
    Tenants = {t1, t2}
    Editors = {e1}
    None = None
    Asks <- SomeAsks
    Edits <- SomeEdits
    InitFiles <- SomeFiles
    Mortal = {3}
    MaxDead = 1
SYMMETRY Symmetry
INVARIANTS OneLeasePerChip GrantsWholeBoards NoOvershoot FileLoads NamesRoundTrip PinsHold
PROPERTIES GrantsWhatWasAsked QueuesOnlyIfItCannot SetSparesTheLeased
