CONSTANTS
    k1 = k1
    k2 = k2
    v1 = v1
    v2 = v2
    m1 = m1
    m2 = m2
    c1 = c1
    c2 = c2
    Mask = Mask
    None = None
    OldModel = OldModel
    Kinds = {"mcp", "llm"}
    Keys = {k1, k2}
    SecretKeys = {k1}
    Values = {v1, v2}
    MaxEdits = 2
    MaxOthers = 1
    Providers = {1, 2}
    Models = {m1, m2}
    CodeModels <- MCCodeModels
    MaxChoices = 3
SPECIFICATION FormsSpec
INVARIANTS
    DraftStaysSelected
    SavedIsAvailable
PROPERTIES
    SaveDoesWhatItShows
    UntouchedSecretsKept
CHECK_DEADLOCK FALSE
