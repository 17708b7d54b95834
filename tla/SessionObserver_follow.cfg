CONSTANTS
    Steps = 3
    AgentSteps = {2}
    MaxDeltas = 1
    MaxDrops = 1
    MaxMounts = 2
    Faults = {"net"}
SPECIFICATION FairSpec
INVARIANTS
    TranscriptInOrder
    DoneIsWhole
PROPERTY
    MessagesAreShown
CHECK_DEADLOCK FALSE
