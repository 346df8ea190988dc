\* One run, three signals at any moment.
SPECIFICATION FairSpec
CONSTANTS
    MaxSignals = 3
INVARIANTS  NoCommandAfterASignal NoReleaseUnderTheCommand
PROPERTIES LeaseComesBack
CHECK_DEADLOCK FALSE
