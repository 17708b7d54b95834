CONSTANTS
    MaxDrops = 2
    Faults = {"net"}
SPECIFICATION FairSpec
INVARIANT
    NoGap
PROPERTIES
    ViewNeverGoesBack
    EndIsShownOrStuck
CHECK_DEADLOCK FALSE
